-------------------------- MODULE MCRakNetReceiver --------------------------
(***************************************************************************)
(* RakNetReceiver with numbers that wrap after 10 frames and limits of one  *)
(* or two, under the workloads below.                                      *)
(***************************************************************************)
EXTENDS RakNetReceiver

Single(r) == [reliability |-> r, channel |-> 0, parts |-> 1]
Split(r, n) == [reliability |-> r, channel |-> 0, parts |-> n]
Aside(r) == [reliability |-> r, channel |-> 1, parts |-> 1]

\* More ordered messages than there are indices, one of them split.
LongStream ==
  [j \in 1..12 |-> IF j = 8 THEN Split("reliable_ordered", 2)
                            ELSE Single("reliable_ordered")]

\* Sequenced messages, more than there are indices, and an unordered one.
Mixed ==
  [j \in 1..12 |-> IF j = 6 THEN Single("reliable")
                             ELSE Single("reliable_sequenced")]

\* Split messages that meet every limit, and two channels that share one.
Splits ==
  <<Split("reliable_ordered", 2), Split("reliable", 2), Aside("reliable_ordered"),
    Single("unreliable"), Split("reliable_sequenced", 2), Split("reliable_ordered", 3)>>

Workloads == {LongStream, Mixed, Splits}
=============================================================================
