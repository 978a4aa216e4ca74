---------------------------- MODULE LifeContract ----------------------------
(***************************************************************************)
(* What a client promises to the server about the life of its player.     *)
(* The server learns of a life from two RPCs, RPC_Spawn and RPC_Death.    *)
(* The client acts (sends player sync) only while it is alive, so it must *)
(* have written an RPC_Spawn for every life before that life begins, and  *)
(* it must not report a death while the next life is running.             *)
(*                                                                        *)
(* SpawnProtocol implements this contract for every number of goroutines. *)
(***************************************************************************)

VARIABLES
  alive,  \* the client is spawned
  told    \* what the server was told last

\* "over" is a told life that has ended, its death still unreported.
Told == {"none", "spawn", "over", "death"}

ContractTypeOK == alive \in BOOLEAN /\ told \in Told

Init == alive = FALSE /\ told = "none"

TellSpawn == ~alive /\ told' = "spawn" /\ UNCHANGED alive

Live == ~alive /\ told = "spawn" /\ alive' = TRUE /\ UNCHANGED told

Die == alive /\ alive' = FALSE /\ told' = "over"

\* The told life may be one that never began: an RPC_Spawn that reached the
\* server although its write was reported as failed.
TellDeath ==
  /\ ~alive /\ told \in {"spawn", "over"}
  /\ told' = "death"
  /\ UNCHANGED alive

\* A new game session on the same connection.
Join == alive' = FALSE /\ told' = "none"

Next == TellSpawn \/ Live \/ Die \/ TellDeath \/ Join

Spec == Init /\ [][Next]_<<alive, told>>
=============================================================================
