--------------------------- MODULE PlayerLifecycle ---------------------------
(***************************************************************************)
(* The playerLifecycle structure of internal/samp/lifecycle.go and its     *)
(* methods, as operators from one record to the next.  Every method runs   *)
(* under Client.stateMu, so each is one indivisible update; the goroutines *)
(* that call them are in module SpawnProtocol.                             *)
(*                                                                         *)
(* Time is abstract: respawnNotBefore is the flag respawnCooling, and      *)
(* spawnRequestAt and deathReportNextTry only say that a timeout may fire. *)
(* The field spawned is left out, because setState keeps it equal to       *)
(* lifeState = "spawned" (Spawned below).                                  *)
(***************************************************************************)
EXTENDS Naturals

LifeState == {"class_selection", "spawn_ready", "spawn_request_pending",
              "spawned", "dead"}

SpawnPhase == {"idle", "requesting", "spawning"}

Lifecycle ==
  [lifeState          : LifeState,
   deathReported      : BOOLEAN,
   spawnRequested     : BOOLEAN,
   spawnRequestOrigin : LifeState,
   spawnInfoReady     : BOOLEAN,
   deathInProgress    : BOOLEAN,
   respawnCooling     : BOOLEAN,
   spawnPhase         : SpawnPhase,
   spawnRequestID     : Nat,
   deathReportPending : BOOLEAN,
   autoRespawnRunning : BOOLEAN,
   autoRespawnEpoch   : Nat]

\* Outcomes of the server's RPC_RequestSpawn: denied, granted, and
\* serverForcedSpawnOutcome, which needs no request.
Outcome == {"denied", "granted", "forced"}

Spawned(l) == l.lifeState = "spawned"

NewPlayerLifecycle ==
  [lifeState          |-> "class_selection",
   deathReported      |-> FALSE,
   spawnRequested     |-> FALSE,
   spawnRequestOrigin |-> "class_selection",
   spawnInfoReady     |-> FALSE,
   deathInProgress    |-> FALSE,
   respawnCooling     |-> FALSE,
   spawnPhase         |-> "idle",
   spawnRequestID     |-> 0,
   deathReportPending |-> FALSE,
   autoRespawnRunning |-> FALSE,
   autoRespawnEpoch   |-> 0]

-----------------------------------------------------------------------------
\* Resets.  A new epoch makes every running respawn worker stale; the epoch
\* is the only field that survives a reset (the request counter does not).

\* Mutant of ResetForConnection: a death under way survives.
ResetKeepingDeath(l) ==
  [NewPlayerLifecycle EXCEPT !.autoRespawnEpoch = l.autoRespawnEpoch + 1,
                             !.deathInProgress  = l.deathInProgress]

ResetForConnection(l) ==
  [NewPlayerLifecycle EXCEPT !.autoRespawnEpoch = l.autoRespawnEpoch + 1]

InvalidateAutomaticSpawn(l) ==
  [l EXCEPT !.autoRespawnEpoch = @ + 1, !.autoRespawnRunning = FALSE]

\* Mutant of EnterClassSelection: an open transaction survives.
EnterClassSelectionKeepingPhase(l) ==
  [InvalidateAutomaticSpawn(l) EXCEPT
     !.lifeState          = "class_selection",
     !.spawnRequested     = FALSE,
     !.spawnRequestOrigin = "class_selection",
     !.spawnInfoReady     = FALSE]

\* The only caller, rejectClassSelection, clears the spawn information and
\* keeps the death fields: enterClassSelection(true, false).
EnterClassSelection(l) ==
  [InvalidateAutomaticSpawn(l) EXCEPT
     !.lifeState          = "class_selection",
     !.spawnRequested     = FALSE,
     !.spawnRequestOrigin = "class_selection",
     !.spawnPhase         = "idle",
     !.spawnInfoReady     = FALSE]

-----------------------------------------------------------------------------
\* The request half: RPC_RequestSpawn has been written, the answer is awaited.

CanBeginSpawnRequest(l) ==
  l.spawnInfoReady /\ ~Spawned(l) /\ l.spawnPhase = "idle"

BeginSpawnRequest(l) ==
  [l EXCEPT
     !.spawnRequestID     = @ + 1,
     !.spawnRequestOrigin = IF l.lifeState = "dead" THEN "dead"
                                                     ELSE "spawn_ready",
     !.spawnRequested     = TRUE,
     !.spawnPhase         = "requesting",
     !.lifeState          = "spawn_request_pending"]

CanRollbackSpawnRequest(l, requestID) ==
  l.spawnPhase = "requesting" /\ l.spawnRequestID = requestID

CanRejectSpawnRequest(l) == l.spawnPhase = "requesting"

\* Mutant of ReturnToOrigin: the state is not set back.
EndTransaction(l) == [l EXCEPT !.spawnRequested = FALSE, !.spawnPhase = "idle"]

\* The common body of rollbackSpawnRequest, rejectSpawnRequest and
\* rollbackSpawning: the transaction ends where it came from.
ReturnToOrigin(l) ==
  [l EXCEPT !.spawnRequested = FALSE,
            !.spawnPhase     = "idle",
            !.lifeState      = l.spawnRequestOrigin]

-----------------------------------------------------------------------------
\* The spawning half: RPC_Spawn is about to be written or has been written.

CanBeginDirectSpawn(l) ==
  l.spawnInfoReady /\ l.lifeState = "dead" /\ l.spawnPhase = "idle"

BeginDirectSpawn(l) ==
  [l EXCEPT !.spawnRequestOrigin = "dead",
            !.spawnRequested     = FALSE,
            !.spawnPhase         = "spawning"]

CanBeginSpawning(l, outcome) ==
  /\ ~Spawned(l)
  /\ l.spawnPhase # "spawning"
  /\ \/ outcome = "forced"
     \/ /\ outcome = "granted"
        /\ l.spawnPhase = "requesting"
        /\ l.spawnRequested

BeginSpawning(l) ==
  [l EXCEPT
     !.spawnRequestOrigin = CASE @ # "class_selection"  -> @
                              [] l.lifeState = "dead"   -> "dead"
                              [] OTHER                  -> "spawn_ready",
     !.spawnPhase         = "spawning",
     !.spawnRequested     = FALSE]

\* Mutant of CanRollbackSpawning: beginSpawning has cleared the flag it tests.
CanRollbackRequested(l) == l.spawnPhase = "spawning" /\ l.spawnRequested

CanRollbackSpawning(l) == l.spawnPhase = "spawning"

\* Mutant of CommitSpawn: an unreported death is still reported later.
CommitSpawnKeepingReport(l) ==
  [InvalidateAutomaticSpawn(l) EXCEPT
     !.lifeState          = "spawned",
     !.spawnRequested     = FALSE,
     !.spawnRequestOrigin = "spawn_ready",
     !.spawnPhase         = "idle",
     !.deathReported      = FALSE,
     !.deathInProgress    = FALSE,
     !.respawnCooling     = FALSE]

\* markSpawnedLocked: the commit of a spawn looks at no phase.
CommitSpawn(l) ==
  [InvalidateAutomaticSpawn(l) EXCEPT
     !.lifeState          = "spawned",
     !.spawnRequested     = FALSE,
     !.spawnRequestOrigin = "spawn_ready",
     !.spawnPhase         = "idle",
     !.deathReported      = FALSE,
     !.deathInProgress    = FALSE,
     !.respawnCooling     = FALSE,
     !.deathReportPending = FALSE]

\* setSpawnInfo: the class answer, or RPC_SetSpawnInfo.
BecomesSpawnReady(l) ==
  l.lifeState \notin {"spawned", "dead"} /\ l.spawnPhase = "idle"

SetSpawnInfo(l) ==
  [l EXCEPT !.spawnInfoReady = TRUE,
            !.lifeState      = IF BecomesSpawnReady(l) THEN "spawn_ready" ELSE @]

-----------------------------------------------------------------------------
\* Death: reserved first, committed later by the goroutine that reserved it.

CanReserveDeath(l) == Spawned(l) /\ ~l.deathReported /\ ~l.deathInProgress

ReserveDeath(l) == [l EXCEPT !.deathInProgress = TRUE]

CanCommitDeath(l) == Spawned(l) /\ ~l.deathReported /\ l.deathInProgress

\* deathReportPending is hasTransport(): a running client has a transport.
CommitDeath(l) ==
  [InvalidateAutomaticSpawn(l) EXCEPT
     !.lifeState          = "dead",
     !.spawnRequested     = FALSE,
     !.spawnRequestOrigin = "dead",
     !.spawnPhase         = "idle",
     !.deathInProgress    = FALSE,
     !.deathReported      = TRUE,
     !.respawnCooling     = TRUE,
     !.deathReportPending = TRUE]

ClearDeathReportRetry(l) == [l EXCEPT !.deathReportPending = FALSE]

-----------------------------------------------------------------------------
\* The automatic respawn policy.

\* Mutant of CanStartAutomaticSpawn: no worker waits for the spawn information.
CanStartWhenReady(l) ==
  l.lifeState = "dead" /\ ~l.autoRespawnRunning /\ l.spawnInfoReady

CanStartAutomaticSpawn(l) == l.lifeState = "dead" /\ ~l.autoRespawnRunning

StartAutomaticSpawn(l) ==
  [l EXCEPT !.autoRespawnRunning = TRUE, !.autoRespawnEpoch = @ + 1]

StopAutomaticSpawn(l) == [l EXCEPT !.autoRespawnRunning = FALSE]
=============================================================================
