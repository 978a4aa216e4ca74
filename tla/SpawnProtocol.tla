---------------------------- MODULE SpawnProtocol ----------------------------
(***************************************************************************)
(* The goroutines of samp.Client that take part in the spawn, death and    *)
(* respawn transactions of the local player:                               *)
(*   Run      the decoder, one inbound RPC at a time (Client.run)          *)
(*   Sync     the 30 ms tick (Client.syncLoop)                             *)
(*   Api      callers of RequestSpawn, SetKeys and Teleport                *)
(*   Native   a GTA backend reporting a death (NotifyLocalPlayerDeath)     *)
(*   Worker   automatic respawn workers (runAutomaticSpawn)                *)
(*                                                                         *)
(* A step is one critical section of stateMu, or one write to the          *)
(* transport.  syncMu and deathWireMu are held across writes, so they are  *)
(* variables.  syncMu is always taken before deathWireMu, and a goroutine  *)
(* that holds only deathWireMu never asks for syncMu, so taking both is    *)
(* one step.  eventBatchMu is held by Run from the start of a handler to   *)
(* the end of its batch; the others hold it for one step.  An append to    *)
(* pendingEvents that follows the unlock of stateMu in the same handler is *)
(* made in the step of that critical section.                              *)
(***************************************************************************)
EXTENDS PlayerLifecycle, Sequences

CONSTANTS
  Api, Native, Worker,  \* the goroutines of each kind, Worker being slots
  Run, Sync,            \* the decoder and the tick
  Nobody,               \* the owner of a free mutex
  AutomaticPolicy,      \* respawnPolicy = RespawnPolicyAutomatic
  Optional,             \* what else the server sends and the callers do
  MaxEpoch,             \* bound: no server message beyond this epoch
  MaxRequests           \* bound: no request of an Api caller beyond this ID

Thread == {Run, Sync} \cup Api \cup Native \cup Worker

ASSUME ThreadAssumption ==
  /\ Run # Sync
  /\ Nobody \notin Thread
  /\ \A S \in {Api, Native, Worker} : Run \notin S /\ Sync \notin S
  /\ Api \cap Native = {} /\ Api \cap Worker = {} /\ Native \cap Worker = {}

ASSUME BoundAssumption ==
  /\ AutomaticPolicy \in BOOLEAN
  /\ Optional \subseteq {"rejoin", "denied_class", "vehicle", "position",
                         "positive_health", "close"}
  /\ MaxEpoch \in Nat /\ MaxRequests \in Nat

VARIABLES
  lc,                  \* Client.lifecycle
  health,              \* Client.health: "zero" or "positive"
  respawnHealthKnown,  \* a positive health arrived while dead
  driving,             \* inVehicle /\ ~passenger
  syncMu, deathWireMu, \* the owners of the two mutexes
  pc,                  \* where each goroutine is
  batch,               \* the events a goroutine is about to emit
  requestID,           \* the local of RequestSpawn
  epoch,               \* the epoch a worker was started with
  finalFrame,          \* finalDriverFrame of a reserved death
  pendingEvents,       \* Client.pendingEvents
  believed,            \* the life state told by the events emitted so far
  wire,                \* the last life edge the transport took (see Wire)
  ctxDone              \* Client.ctx is cancelled

lifeVars   == <<lc, health, respawnHealthKnown, driving>>
lockVars   == <<syncMu, deathWireMu>>
localVars  == <<batch, requestID, epoch, finalFrame>>
eventVars  == <<pendingEvents, believed>>
vars == <<lifeVars, lockVars, pc, localVars, eventVars, wire, ctxDone>>

\* Lifecycle events: EventPlayerLifeState is its state, the others their name.
Event == LifeState \cup {"EventJoined", "EventSpawned", "EventPlayerDeath"}

\* What a write reports and does: nil and sent; an error, not sent; an error
\* although the frame was handed to the network (the caller gave up waiting).
WriteResult == {"written", "failed", "unsure"}

Results == IF ctxDone THEN {"failed"} ELSE WriteResult

\* An RPC_Spawn is told apart from one whose life is over, and an RPC_Death
\* from one of unknown outcome, which may be written again.
Wire == {"none", "spawn", "over", "death", "death_unsure"}

Label == {"read", "denied", "drain", "emit", "policy",
          "tick", "report", "report_lock", "report_write",
          "sync", "sync_write",
          "rest", "request_emit", "request_write", "request_rollback",
          "spawn_lock", "spawn_write", "spawn_commit", "spawn_rollback",
          "spawned_drain", "flush",
          "death_lock", "death_frame", "death_commit", "death_write",
          "off", "timer", "call", "exit", "stopped"}

TypeOK ==
  /\ lc \in Lifecycle
  /\ health \in {"zero", "positive"}
  /\ respawnHealthKnown \in BOOLEAN
  /\ driving \in BOOLEAN
  /\ syncMu \in Thread \cup {Nobody}
  /\ deathWireMu \in Thread \cup {Nobody}
  /\ pc \in [Thread -> Label]
  /\ batch \in [Thread -> Seq(Event)]
  /\ requestID \in [Thread -> Nat]
  /\ epoch \in [Thread -> Nat]
  /\ finalFrame \in [Thread -> BOOLEAN]
  /\ pendingEvents \in Seq(Event)
  /\ believed \in LifeState
  /\ wire \in Wire
  /\ ctxDone \in BOOLEAN

Init ==
  /\ lc = NewPlayerLifecycle
  /\ health = "positive"
  /\ respawnHealthKnown = FALSE
  /\ driving = FALSE
  /\ syncMu = Nobody
  /\ deathWireMu = Nobody
  /\ pc = [t \in Thread |-> CASE t = Run    -> "read"
                              [] t = Sync   -> "tick"
                              [] t \in Worker -> "off"
                              [] OTHER      -> "rest"]
  /\ batch = [t \in Thread |-> <<>>]
  /\ requestID = [t \in Thread |-> 0]
  /\ epoch = [t \in Thread |-> 0]
  /\ finalFrame = [t \in Thread |-> FALSE]
  /\ pendingEvents = <<>>
  /\ believed = "class_selection"
  /\ wire = "none"
  /\ ctxDone = FALSE

-----------------------------------------------------------------------------
\* Control, mutexes and events

Goto(t, label) == pc' = [pc EXCEPT ![t] = label]

SetBatch(t, events) == batch' = [batch EXCEPT ![t] = events]

\* Where a goroutine goes on after RequestSpawn returns.
AfterRequest(t) == IF t \in Worker THEN "timer" ELSE "rest"

BothFree == syncMu = Nobody /\ deathWireMu = Nobody
TakeBoth(t) == syncMu' = t /\ deathWireMu' = t
ReleaseBoth == syncMu' = Nobody /\ deathWireMu' = Nobody

\* eventBatchMu is free: Run is not inside a handler.
BatchFree == pc[Run] \in {"read", "policy", "stopped"}

\* Mutant of StateOf: EventPlayerDeath changes no state.
StateOfWithoutDeath(event) == CASE event = "EventJoined"  -> "class_selection"
                                [] event = "EventSpawned" -> "spawned"
                                [] OTHER                  -> event

StateOf(event) == CASE event = "EventJoined"      -> "class_selection"
                    [] event = "EventSpawned"     -> "spawned"
                    [] event = "EventPlayerDeath" -> "dead"
                    [] OTHER                      -> event

\* emitBatch.  Every lifecycle event determines the state, so the last one
\* counts.  After a cancellation the rest of a batch may be dropped.
Announce(events) ==
  \E n \in IF ctxDone THEN 0..Len(events) ELSE {Len(events)} :
    believed' = IF n = 0 THEN believed ELSE StateOf(events[n])

Queue(events) == pendingEvents' = pendingEvents \o events

\* The bound on the messages that start a new epoch.
WithinBound == lc.autoRespawnEpoch < MaxEpoch

-----------------------------------------------------------------------------
\* Run: inbound messages

RecvInitGame ==
  /\ pc[Run] = "read" /\ BothFree /\ WithinBound
  /\ lc.autoRespawnEpoch = 0 \/ "rejoin" \in Optional
  /\ lc' = ResetForConnection(lc)
  /\ health' = "positive"
  /\ respawnHealthKnown' = FALSE
  /\ driving' = FALSE
  /\ pendingEvents' = <<"class_selection">>
  /\ SetBatch(Run, <<"EventJoined">>)
  /\ wire' = "none"
  /\ Goto(Run, "drain")
  /\ UNCHANGED <<lockVars, requestID, epoch, finalFrame, believed, ctxDone>>

\* RPC_RequestClass with outcome 0: rejectClassSelection.
RecvClassDenied ==
  /\ pc[Run] = "read" /\ WithinBound /\ "denied_class" \in Optional
  /\ IF Spawned(lc)
       THEN UNCHANGED <<lifeVars, batch>>
       ELSE /\ lc' = EnterClassSelection(lc)
            /\ driving' = FALSE
            /\ SetBatch(Run, IF lc.lifeState # "class_selection"
                               THEN <<"class_selection">> ELSE <<>>)
            /\ UNCHANGED <<health, respawnHealthKnown>>
  /\ Goto(Run, "drain")
  /\ UNCHANGED <<lockVars, requestID, epoch, finalFrame, eventVars, wire,
                 ctxDone>>

\* RPC_RequestClass with another outcome, and RPC_SetSpawnInfo.
RecvSpawnInfo ==
  /\ pc[Run] = "read"
  /\ lc' = SetSpawnInfo(lc)
  /\ Queue(IF lc'.lifeState # lc.lifeState THEN <<"spawn_ready">> ELSE <<>>)
  /\ Goto(Run, "drain")
  /\ UNCHANGED <<health, respawnHealthKnown, driving, lockVars, localVars,
                 believed, wire, ctxDone>>

\* RPC_RequestSpawn: the answer to a request, or a forced spawn.
RecvRequestSpawn(outcome) ==
  /\ pc[Run] = "read" /\ WithinBound
  /\ IF CanBeginSpawning(lc, outcome)
       THEN lc' = BeginSpawning(lc) /\ Goto(Run, "spawn_lock")
       ELSE /\ Goto(Run, IF outcome = "denied" THEN "denied" ELSE "drain")
            /\ UNCHANGED lc
  /\ UNCHANGED <<health, respawnHealthKnown, driving, lockVars, localVars,
                 eventVars, wire, ctxDone>>

\* The rejection is a second critical section of the same handler.
RejectRequest ==
  /\ pc[Run] = "denied"
  /\ IF CanRejectSpawnRequest(lc)
       THEN /\ lc' = ReturnToOrigin(lc)
            /\ SetBatch(Run, <<lc.spawnRequestOrigin>>)
       ELSE UNCHANGED <<lc, batch>>
  /\ Goto(Run, "drain")
  /\ UNCHANGED <<health, respawnHealthKnown, driving, lockVars, requestID,
                 epoch, finalFrame, eventVars, wire, ctxDone>>

\* RPC_SetPlayerHealth with a value of zero or less.
RecvZeroHealth ==
  /\ pc[Run] = "read" /\ syncMu = Nobody /\ WithinBound
  /\ health' = "zero"
  /\ respawnHealthKnown' = (respawnHealthKnown /\ lc.lifeState # "dead")
  /\ IF CanReserveDeath(lc)
       THEN /\ lc' = ReserveDeath(lc)
            /\ finalFrame' = [finalFrame EXCEPT ![Run] = driving]
            /\ Goto(Run, "death_lock")
       ELSE Goto(Run, "drain") /\ UNCHANGED <<lc, finalFrame>>
  /\ UNCHANGED <<driving, lockVars, batch, requestID, epoch, eventVars, wire,
                 ctxDone>>

\* Mutant of RecvPositiveHealth: the dead are not told apart.
RecvPositiveHealthAlways ==
  /\ pc[Run] = "read" /\ "positive_health" \in Optional
  /\ health' = "positive"
  /\ Goto(Run, "drain")
  /\ UNCHANGED <<lc, respawnHealthKnown, driving, lockVars, localVars, eventVars,
                 wire, ctxDone>>

\* RPC_SetPlayerHealth with a positive value: it does not revive the dead.
RecvPositiveHealth ==
  /\ pc[Run] = "read" /\ "positive_health" \in Optional
  /\ IF lc.lifeState = "dead"
       THEN respawnHealthKnown' = TRUE /\ UNCHANGED health
       ELSE health' = "positive" /\ UNCHANGED respawnHealthKnown
  /\ Goto(Run, "drain")
  /\ UNCHANGED <<lc, driving, lockVars, localVars, eventVars, wire, ctxDone>>

\* RPC_PutPlayerInVehicle in the driver seat, RPC_RemoveFromVehicle.
RecvVehicle(enter) ==
  /\ pc[Run] = "read" /\ "vehicle" \in Optional
  /\ driving' = IF enter THEN driving \/ (Spawned(lc) /\ ~lc.deathInProgress)
                         ELSE FALSE
  /\ Goto(Run, "drain")
  /\ UNCHANGED <<lc, health, respawnHealthKnown, lockVars, localVars, eventVars,
                 wire, ctxDone>>

\* RPC_SetPlayerPos leaves the vehicle and sends a frame at once.
RecvPosition ==
  /\ pc[Run] = "read" /\ "position" \in Optional
  /\ driving' = FALSE
  /\ Goto(Run, "sync")
  /\ UNCHANGED <<lc, health, respawnHealthKnown, lockVars, localVars, eventVars,
                 wire, ctxDone>>

\* Any other RPC only flushes the pending events and runs the policy.
RecvOther ==
  /\ pc[Run] = "read"
  /\ Goto(Run, "drain")
  /\ UNCHANGED <<lifeVars, lockVars, localVars, eventVars, wire, ctxDone>>

\* Read fails, because the transport or the client's context is gone: the run
\* loop cancels the client and ends.
ConnectionLost ==
  /\ pc[Run] = "read"
  /\ ctxDone' = TRUE
  /\ Goto(Run, "stopped")
  /\ UNCHANGED <<lifeVars, lockVars, localVars, eventVars, wire>>

\* Close cancels the client whatever its goroutines are doing.
Close ==
  /\ ~ctxDone /\ "close" \in Optional
  /\ ctxDone' = TRUE
  /\ UNCHANGED <<lifeVars, lockVars, pc, localVars, eventVars, wire>>

\* The batch of a handler: its own event first, then the pending ones.
DrainBatch ==
  /\ pc[Run] = "drain"
  /\ SetBatch(Run, batch[Run] \o pendingEvents)
  /\ pendingEvents' = <<>>
  /\ Goto(Run, "emit")
  /\ UNCHANGED <<lifeVars, lockVars, requestID, epoch, finalFrame, believed,
                 wire, ctxDone>>

-----------------------------------------------------------------------------
\* emitBatch.  After it, Run and Native run the respawn policy, Sync goes on
\* with its tick and the others return.

Emit(t) ==
  /\ pc[t] = "emit"
  /\ t = Run \/ BatchFree
  /\ Announce(batch[t])
  /\ SetBatch(t, <<>>)
  /\ Goto(t, CASE t = Run  -> "policy"
               [] t = Sync -> "report"
               [] OTHER    -> AfterRequest(t))
  /\ UNCHANGED <<lifeVars, lockVars, requestID, epoch, finalFrame,
                 pendingEvents, wire, ctxDone>>

\* flushPendingEvents
Flush(t) ==
  /\ pc[t] = "flush" /\ BatchFree
  /\ Announce(pendingEvents)
  /\ pendingEvents' = <<>>
  /\ Goto(t, IF t \in Native THEN "policy" ELSE AfterRequest(t))
  /\ UNCHANGED <<lifeVars, lockVars, localVars, wire, ctxDone>>

-----------------------------------------------------------------------------
\* RequestSpawn

RequestSpawn(t) ==
  /\ IF \/ ~lc.spawnInfoReady
        \/ Spawned(lc) \/ lc.spawnRequested \/ lc.spawnPhase = "spawning"
        \/ lc.respawnCooling
       THEN UNCHANGED <<lc, requestID>> /\ Goto(t, AfterRequest(t))
       ELSE IF lc.lifeState = "dead"
       THEN /\ lc' = IF CanBeginDirectSpawn(lc) THEN BeginDirectSpawn(lc) ELSE lc
            /\ Goto(t, IF CanBeginDirectSpawn(lc) THEN "spawn_lock"
                                                  ELSE AfterRequest(t))
            /\ UNCHANGED requestID
       ELSE IF CanBeginSpawnRequest(lc)
       THEN /\ t \in Api => lc.spawnRequestID < MaxRequests
            /\ lc' = BeginSpawnRequest(lc)
            /\ requestID' = [requestID EXCEPT ![t] = lc.spawnRequestID + 1]
            /\ Goto(t, "request_emit")
       ELSE UNCHANGED <<lc, requestID>> /\ Goto(t, AfterRequest(t))
  /\ UNCHANGED <<health, respawnHealthKnown, driving, lockVars, batch, epoch,
                 finalFrame, eventVars, wire, ctxDone>>

CallRequestSpawn(t) == pc[t] = "rest" /\ RequestSpawn(t)

EmitRequestPending(t) ==
  /\ pc[t] = "request_emit" /\ BatchFree
  /\ Announce(<<"spawn_request_pending">>)
  /\ Goto(t, "request_write")
  /\ UNCHANGED <<lifeVars, lockVars, localVars, pendingEvents, wire, ctxDone>>

WriteRequest(t, result) ==
  /\ pc[t] = "request_write"
  /\ Goto(t, IF result = "written" THEN AfterRequest(t) ELSE "request_rollback")
  /\ requestID' = IF result = "written" THEN [requestID EXCEPT ![t] = 0]
                                        ELSE requestID
  /\ UNCHANGED <<lifeVars, lockVars, batch, epoch, finalFrame, eventVars, wire,
                 ctxDone>>

RollbackRequest(t) ==
  /\ pc[t] = "request_rollback"
  /\ IF CanRollbackSpawnRequest(lc, requestID[t])
       THEN /\ lc' = ReturnToOrigin(lc)
            /\ SetBatch(t, <<lc.spawnRequestOrigin>>)
            /\ Goto(t, "emit")
       ELSE UNCHANGED <<lc, batch>> /\ Goto(t, AfterRequest(t))
  /\ requestID' = [requestID EXCEPT ![t] = 0]
  /\ UNCHANGED <<health, respawnHealthKnown, driving, lockVars, epoch,
                 finalFrame, eventVars, wire, ctxDone>>

-----------------------------------------------------------------------------
\* sendSpawnAndCommit: by Run for an approved spawn, by an Api caller or a
\* worker for a direct one.

LockSpawn(t) ==
  /\ pc[t] = "spawn_lock" /\ BothFree
  /\ TakeBoth(t)
  /\ Goto(t, "spawn_write")
  /\ UNCHANGED <<lifeVars, localVars, eventVars, wire, ctxDone>>

\* Mutant of WriteSpawn: the error of the write is ignored.
WriteSpawnUnchecked(t, result) ==
  /\ pc[t] = "spawn_write"
  /\ wire' = IF result = "failed" THEN wire ELSE "spawn"
  /\ Goto(t, "spawn_commit")
  /\ UNCHANGED <<lifeVars, lockVars, localVars, eventVars, ctxDone>>

WriteSpawn(t, result) ==
  /\ pc[t] = "spawn_write"
  /\ wire' = IF result = "failed" THEN wire ELSE "spawn"
  /\ Goto(t, IF result = "written" THEN "spawn_commit" ELSE "spawn_rollback")
  /\ UNCHANGED <<lifeVars, lockVars, localVars, eventVars, ctxDone>>

CommitSpawned(t) ==
  /\ pc[t] = "spawn_commit"
  /\ lc' = CommitSpawn(lc)
  /\ health' = "positive"
  /\ respawnHealthKnown' = FALSE
  /\ driving' = FALSE
  /\ Queue(IF Spawned(lc) THEN <<>> ELSE <<"spawned">>)
  /\ ReleaseBoth
  /\ IF t = Run THEN SetBatch(t, <<"EventSpawned">>) /\ Goto(t, "drain")
                ELSE UNCHANGED batch /\ Goto(t, "spawned_drain")
  /\ UNCHANGED <<requestID, epoch, finalFrame, believed, wire, ctxDone>>

RollbackSpawn(t) ==
  /\ pc[t] = "spawn_rollback"
  /\ IF CanRollbackSpawning(lc)
       THEN lc' = ReturnToOrigin(lc) /\ Queue(<<lc.spawnRequestOrigin>>)
       ELSE UNCHANGED <<lc, pendingEvents>>
  /\ ReleaseBoth
  /\ Goto(t, IF t = Run THEN "drain" ELSE "flush")
  /\ UNCHANGED <<health, respawnHealthKnown, driving, localVars, believed, wire,
                 ctxDone>>

\* A direct spawn drains the pending events before it takes eventBatchMu.
DrainSpawned(t) ==
  /\ pc[t] = "spawned_drain"
  /\ SetBatch(t, <<"EventSpawned">> \o pendingEvents)
  /\ pendingEvents' = <<>>
  /\ Goto(t, "emit")
  /\ UNCHANGED <<lifeVars, lockVars, requestID, epoch, finalFrame, believed,
                 wire, ctxDone>>

-----------------------------------------------------------------------------
\* Death.  Run reserves it in RecvZeroHealth, a native backend here; both
\* complete it in completeDeath, after waiting for the mutexes.

ReserveNativeDeath(t) ==
  /\ pc[t] = "rest" /\ syncMu = Nobody /\ WithinBound
  /\ IF CanReserveDeath(lc)
       THEN /\ lc' = ReserveDeath(lc)
            /\ finalFrame' = [finalFrame EXCEPT ![t] = driving]
            /\ Goto(t, "death_lock")
       ELSE Goto(t, "flush") /\ UNCHANGED <<lc, finalFrame>>
  /\ UNCHANGED <<health, respawnHealthKnown, driving, lockVars, batch,
                 requestID, epoch, eventVars, wire, ctxDone>>

LockDeath(t) ==
  /\ pc[t] = "death_lock" /\ BothFree
  /\ TakeBoth(t)
  /\ Goto(t, IF finalFrame[t] THEN "death_frame" ELSE "death_commit")
  /\ UNCHANGED <<lifeVars, localVars, eventVars, wire, ctxDone>>

\* The final driver frame; its error is ignored.
WriteFinalFrame(t) ==
  /\ pc[t] = "death_frame"
  /\ finalFrame' = [finalFrame EXCEPT ![t] = FALSE]
  /\ Goto(t, "death_commit")
  /\ UNCHANGED <<lifeVars, lockVars, batch, requestID, epoch, eventVars, wire,
                 ctxDone>>

AfterDeath(t) == IF t = Run THEN "drain" ELSE "flush"

CommitDead(t) ==
  /\ pc[t] = "death_commit"
  /\ IF CanCommitDeath(lc)
       THEN /\ lc' = CommitDeath(lc)
            /\ health' = "zero"
            /\ respawnHealthKnown' = FALSE
            /\ driving' = FALSE
            /\ wire' = "over"
            /\ Goto(t, "death_write")
            /\ UNCHANGED lockVars
       ELSE /\ ReleaseBoth
            /\ Goto(t, AfterDeath(t))
            /\ UNCHANGED <<lifeVars, wire>>
  /\ UNCHANGED <<localVars, eventVars, ctxDone>>

DeathOnWire(result) == CASE result = "written" -> "death"
                         [] result = "unsure"  -> "death_unsure"
                         [] OTHER              -> wire

WriteDeath(t, result) ==
  /\ pc[t] = "death_write"
  /\ wire' = DeathOnWire(result)
  /\ lc' = IF result = "written" THEN ClearDeathReportRetry(lc) ELSE lc
  /\ Queue(<<"dead", "EventPlayerDeath">>)
  /\ ReleaseBoth
  /\ Goto(t, AfterDeath(t))
  /\ UNCHANGED <<health, respawnHealthKnown, driving, localVars, believed,
                 ctxDone>>

-----------------------------------------------------------------------------
\* The tick: expire a spawn request, retry a death report, send a frame.

Tick ==
  /\ pc[Sync] = "tick" /\ ~ctxDone
  /\ Goto(Sync, "report")
  /\ UNCHANGED <<lifeVars, lockVars, localVars, eventVars, wire, ctxDone>>

\* A tick after spawnRequestTimeout: the request is given up.
ExpireRequest ==
  /\ pc[Sync] = "tick" /\ ~ctxDone
  /\ CanRejectSpawnRequest(lc)
  /\ lc' = ReturnToOrigin(lc)
  /\ SetBatch(Sync, <<lc.spawnRequestOrigin>>)
  /\ Goto(Sync, "emit")
  /\ UNCHANGED <<health, respawnHealthKnown, driving, lockVars, requestID,
                 epoch, finalFrame, eventVars, wire, ctxDone>>

StopTicking ==
  /\ pc[Sync] = "tick" /\ ctxDone
  /\ Goto(Sync, "stopped")
  /\ UNCHANGED <<lifeVars, lockVars, localVars, eventVars, wire, ctxDone>>

\* No report is pending, or its retry is not due.
SkipReport ==
  /\ pc[Sync] = "report"
  /\ Goto(Sync, "sync")
  /\ UNCHANGED <<lifeVars, lockVars, localVars, eventVars, wire, ctxDone>>

RetryReport ==
  /\ pc[Sync] = "report"
  /\ lc.deathReportPending
  /\ Goto(Sync, "report_lock")
  /\ UNCHANGED <<lifeVars, lockVars, localVars, eventVars, wire, ctxDone>>

\* Mutant of LockReport: the pending report is not looked at again.
LockReportUnchecked ==
  /\ pc[Sync] = "report_lock" /\ deathWireMu = Nobody
  /\ deathWireMu' = Sync
  /\ Goto(Sync, "report_write")
  /\ UNCHANGED <<lifeVars, syncMu, localVars, eventVars, wire, ctxDone>>

LockReport ==
  /\ pc[Sync] = "report_lock" /\ deathWireMu = Nobody
  /\ IF lc.deathReportPending
       THEN deathWireMu' = Sync /\ Goto(Sync, "report_write")
       ELSE Goto(Sync, "sync") /\ UNCHANGED deathWireMu
  /\ UNCHANGED <<lifeVars, syncMu, localVars, eventVars, wire, ctxDone>>

\* Mutant of WriteReport: a failed retry is the last one.
WriteReportOnce(result) ==
  /\ pc[Sync] = "report_write"
  /\ wire' = DeathOnWire(result)
  /\ lc' = ClearDeathReportRetry(lc)
  /\ deathWireMu' = Nobody
  /\ Goto(Sync, "sync")
  /\ UNCHANGED <<health, respawnHealthKnown, driving, syncMu, localVars,
                 eventVars, ctxDone>>

WriteReport(result) ==
  /\ pc[Sync] = "report_write"
  /\ wire' = DeathOnWire(result)
  /\ lc' = IF result = "written" THEN ClearDeathReportRetry(lc) ELSE lc
  /\ deathWireMu' = Nobody
  /\ Goto(Sync, "sync")
  /\ UNCHANGED <<health, respawnHealthKnown, driving, syncMu, localVars,
                 eventVars, ctxDone>>

AfterSync(t) == CASE t = Run -> "drain" [] t = Sync -> "tick" [] OTHER -> "rest"

\* Mutant of LockSync: the life is looked at without the mutex.
LockSyncLate(t) ==
  /\ pc[t] = "sync"
  /\ Goto(t, IF Spawned(lc) /\ ~lc.deathInProgress THEN "sync_write"
                                                  ELSE AfterSync(t))
  /\ UNCHANGED <<lifeVars, lockVars, localVars, eventVars, wire, ctxDone>>

\* sendSync: only a spawned player that is not dying sends a frame.
LockSync(t) ==
  /\ pc[t] = "sync" /\ syncMu = Nobody
  /\ IF Spawned(lc) /\ ~lc.deathInProgress
       THEN syncMu' = t /\ Goto(t, "sync_write")
       ELSE Goto(t, AfterSync(t)) /\ UNCHANGED syncMu
  /\ UNCHANGED <<lifeVars, deathWireMu, localVars, eventVars, wire, ctxDone>>

WriteSync(t) ==
  /\ pc[t] = "sync_write"
  /\ syncMu' = Nobody
  /\ Goto(t, AfterSync(t))
  /\ UNCHANGED <<lifeVars, deathWireMu, localVars, eventVars, wire, ctxDone>>

\* SetKeys and Teleport send a frame out of turn.
CallSync(t) ==
  /\ pc[t] = "rest"
  /\ Goto(t, "sync")
  /\ UNCHANGED <<lifeVars, lockVars, localVars, eventVars, wire, ctxDone>>

-----------------------------------------------------------------------------
\* The automatic respawn policy

\* startAutomaticSpawn, after a batch or when a worker ends.
StartWorker(t, next) ==
  /\ IF AutomaticPolicy /\ CanStartAutomaticSpawn(lc)
       THEN \E w \in Worker :
              /\ pc[w] = "off"
              /\ lc' = StartAutomaticSpawn(lc)
              /\ epoch' = [epoch EXCEPT ![w] = lc.autoRespawnEpoch + 1]
              /\ pc' = [pc EXCEPT ![w] = "timer", ![t] = next]
       ELSE Goto(t, next) /\ UNCHANGED <<lc, epoch>>
  /\ UNCHANGED <<health, respawnHealthKnown, driving, lockVars, batch,
                 requestID, finalFrame, eventVars, wire, ctxDone>>

AfterPolicy(t) ==
  CASE t = Run -> "read" [] t \in Native -> "rest" [] OTHER -> "off"

RunPolicy(t) == pc[t] = "policy" /\ StartWorker(t, AfterPolicy(t))

\* The timer of a worker fires: it goes on only if its epoch is current.
WakeWorker(w) ==
  /\ pc[w] = "timer"
  /\ Goto(w, CASE \/ epoch[w] # lc.autoRespawnEpoch
                  \/ lc.lifeState # "dead" -> "exit"
               [] lc.spawnInfoReady         -> "call"
               [] OTHER                     -> "timer")
  /\ UNCHANGED <<lifeVars, lockVars, localVars, eventVars, wire, ctxDone>>

\* Mutant of StopWorker: a worker of the dead ignores the cancellation.
StopWorkerUnlessDead(w) ==
  /\ pc[w] = "timer" /\ ctxDone /\ lc.lifeState # "dead"
  /\ Goto(w, "exit")
  /\ UNCHANGED <<lifeVars, lockVars, localVars, eventVars, wire, ctxDone>>

\* The wait of a worker ends because the client is cancelled.
StopWorker(w) ==
  /\ pc[w] = "timer" /\ ctxDone
  /\ Goto(w, "exit")
  /\ UNCHANGED <<lifeVars, lockVars, localVars, eventVars, wire, ctxDone>>

WorkerRequestsSpawn(w) == pc[w] = "call" /\ RequestSpawn(w)

\* Mutant of ExitWorker: the flag is cleared whatever the epoch is.
ExitWorkerOfAnyEpoch(w) ==
  /\ pc[w] = "exit"
  /\ lc' = StopAutomaticSpawn(lc)
  /\ epoch' = [epoch EXCEPT ![w] = 0]
  /\ Goto(w, IF /\ epoch[w] = lc.autoRespawnEpoch /\ AutomaticPolicy
                /\ lc.lifeState = "dead" /\ ~ctxDone
               THEN "policy" ELSE "off")
  /\ UNCHANGED <<health, respawnHealthKnown, driving, lockVars, batch,
                 requestID, finalFrame, eventVars, wire, ctxDone>>

\* The deferred function: clear the running flag of its own epoch, and start
\* over if the player is dead after all.
ExitWorker(w) ==
  /\ pc[w] = "exit"
  /\ lc' = IF epoch[w] = lc.autoRespawnEpoch THEN StopAutomaticSpawn(lc) ELSE lc
  /\ epoch' = [epoch EXCEPT ![w] = 0]
  /\ Goto(w, IF /\ epoch[w] = lc.autoRespawnEpoch /\ AutomaticPolicy
                /\ lc.lifeState = "dead" /\ ~ctxDone
               THEN "policy" ELSE "off")
  /\ UNCHANGED <<health, respawnHealthKnown, driving, lockVars, batch,
                 requestID, finalFrame, eventVars, wire, ctxDone>>

\* respawnNotBefore passes.
CoolDown ==
  /\ lc.respawnCooling
  /\ lc' = [lc EXCEPT !.respawnCooling = FALSE]
  /\ UNCHANGED <<health, respawnHealthKnown, driving, lockVars, pc, localVars,
                 eventVars, wire, ctxDone>>

-----------------------------------------------------------------------------
\* A cancelled client may still read what the transport had queued.  Each such
\* message can start a worker, hence the bound.
Receive ==
  /\ ctxDone => WithinBound
  /\ \/ RecvInitGame
     \/ RecvClassDenied
     \/ RecvSpawnInfo
     \/ \E outcome \in Outcome : RecvRequestSpawn(outcome)
     \/ RecvZeroHealth
     \/ RecvPositiveHealth
     \/ \E enter \in BOOLEAN : RecvVehicle(enter)
     \/ RecvPosition
     \/ RecvOther

Call ==
  \/ \E t \in Api : CallRequestSpawn(t) \/ CallSync(t)
  \/ \E t \in Native : ReserveNativeDeath(t)
  \/ Close

\* The steps a goroutine takes on its own once it is inside an operation.
Step(t) ==
  \/ Emit(t) \/ Flush(t)
  \/ EmitRequestPending(t) \/ RollbackRequest(t)
  \/ \E result \in Results : \/ WriteRequest(t, result)
                             \/ WriteSpawn(t, result)
                             \/ WriteDeath(t, result)
  \/ LockSpawn(t) \/ CommitSpawned(t) \/ RollbackSpawn(t) \/ DrainSpawned(t)
  \/ LockDeath(t) \/ WriteFinalFrame(t) \/ CommitDead(t)
  \/ LockSync(t) \/ WriteSync(t)
  \/ RunPolicy(t)

RunStep == RejectRequest \/ DrainBatch

SyncStep ==
  \/ Tick \/ ExpireRequest \/ StopTicking
  \/ SkipReport \/ RetryReport \/ LockReport
  \/ \E result \in Results : WriteReport(result)

WorkerStep(w) ==
  WakeWorker(w) \/ StopWorker(w) \/ WorkerRequestsSpawn(w) \/ ExitWorker(w)

\* A cancelled client comes to rest.
Terminated ==
  /\ ctxDone
  /\ \A t \in Thread : pc[t] \in {"stopped", "off", "rest"}
  /\ UNCHANGED vars

Next ==
  \/ Receive \/ ConnectionLost \/ Call
  \/ \E t \in Thread : Step(t)
  \/ RunStep \/ SyncStep
  \/ \E w \in Worker : WorkerStep(w)
  \/ CoolDown \/ Terminated

Spec == Init /\ [][Next]_vars
-----------------------------------------------------------------------------
(* Fairness.  A goroutine inside an operation goes on, and sync.Mutex hands *)
(* a mutex over in order once a waiter starves, so a lock that is free     *)
(* again and again is obtained: strong fairness of the goroutine's steps,  *)
(* of which at most one is open to it at a time.  Timers fire.  A cancelled *)
(* context is noticed by a goroutine that waits on it again and again.  The *)
(* transport takes a repeated write in the end.  Nothing is assumed of the  *)
(* server or of the callers.                                               *)

GoOn(t) == \/ Step(t)
           \/ t = Run /\ RunStep
           \/ t = Sync /\ SyncStep
           \/ t \in Worker /\ WorkerStep(t)

Fairness ==
  /\ \A t \in Thread : SF_vars(GoOn(t))
  /\ SF_vars(ctxDone /\ ConnectionLost)
  /\ SF_vars(ExpireRequest) /\ SF_vars(RetryReport)
  /\ SF_vars(WriteReport("written"))
  /\ \A w \in Worker : SF_vars(StopWorker(w))
  /\ \A t \in Worker \cup {Run} : SF_vars(WriteSpawn(t, "written"))
  /\ WF_vars(CoolDown)

FairSpec == Spec /\ Fairness

-----------------------------------------------------------------------------
(* Safety *)

\* The fields of one transaction fit together: a pending request has a phase
\* that can end it, the dead return to "dead", only the living die.
TransactionConsistent ==
  /\ lc.spawnRequested <=> lc.spawnPhase = "requesting"
  /\ lc.spawnPhase = "requesting" => lc.lifeState = "spawn_request_pending"
  /\ lc.lifeState = "spawn_request_pending" => lc.spawnPhase # "idle"
  /\ Spawned(lc) => lc.spawnPhase = "idle" /\ ~lc.deathReported
  /\ lc.lifeState = "dead" => lc.spawnRequestOrigin = "dead" /\ lc.deathReported
  /\ lc.spawnPhase # "idle" => lc.spawnRequestOrigin \in {"spawn_ready", "dead"}
  /\ lc.deathInProgress => Spawned(lc)

\* The spawning phase blocks every request (client.go:557) and no timeout ends
\* it, so some goroutine must be there to commit it or to roll it back.
SpawningHasOwner ==
  lc.spawnPhase = "spawning" =>
    \E t \in Thread : pc[t] \in {"spawn_lock", "spawn_write", "spawn_commit",
                                "spawn_rollback"}

\* A reserved death suppresses sync, so some goroutine must complete it.
ReservedDeathHasOwner ==
  lc.deathInProgress =>
    \E t \in Thread : pc[t] \in {"death_lock", "death_frame", "death_commit"}

\* Health and life state agree: late health updates revive nobody, and a
\* spawned player without health is one whose death is under way.
HealthMatchesLife ==
  /\ lc.lifeState = "dead" => health = "zero"
  /\ Spawned(lc) /\ health = "zero" => lc.deathInProgress

\* What the server saw last agrees with a spawned client: an RPC_Spawn went
\* out for this very life (sendSpawnAndCommit), and neither a first nor a
\* retried RPC_Death followed it (completeDeath, retryDeathNotification).
ServerSeesSpawn == Spawned(lc) => wire = "spawn"

\* A frame on its way to the transport belongs to a life: sendSync writes none
\* between RPC_Death and RPC_Spawn, or before the first RPC_Spawn.
FrameWithinLife ==
  \A t \in Thread :
    pc[t] = "sync_write" => Spawned(lc) /\ ~lc.deathInProgress /\ wire = "spawn"

\* completeDeath and retryDeathNotification write RPC_Death only for a life the
\* server was told of, and not again once a write of it succeeded.
DeathWrittenOnce ==
  /\ \A t \in Thread : pc[t] = "death_write" => wire = "over"
  /\ pc[Sync] = "report_write" => wire \in {"spawn", "over", "death_unsure"}

\* Seen from the server, the client keeps the contract of LifeContract: a life
\* begins after its own RPC_Spawn, and no death is told during a life.
ToldOnWire == IF wire = "death_unsure" THEN "death" ELSE wire

Contract == INSTANCE LifeContract WITH alive <- Spawned(lc), told <- ToldOnWire

KeepsContract == Contract!Spec

\* Where a goroutine holds both mutexes.
HoldsBoth == {"spawn_write", "spawn_commit", "spawn_rollback",
              "death_frame", "death_commit", "death_write"}

LockDiscipline ==
  \A t \in Thread :
    /\ pc[t] \in HoldsBoth => syncMu = t /\ deathWireMu = t
    /\ pc[t] = "sync_write" => syncMu = t
    /\ pc[t] = "report_write" => deathWireMu = t

\* The three properties above made inductive: what the goroutine that holds
\* deathWireMu (sendSpawnAndCommit, completeDeath, retryDeathNotification) may
\* rely on until it lets go.
WireInv ==
  /\ LockDiscipline
  /\ Spawned(lc) => wire = "spawn" /\ lc.spawnPhase = "idle"
  /\ lc.spawnRequestOrigin # "spawned"
  /\ lc.deathReportPending =>
       ~Spawned(lc) /\ wire \in {"spawn", "over", "death_unsure"}
  /\ \A t \in Thread :
       /\ pc[t] = "spawn_commit" => wire = "spawn"
       /\ pc[t] = "death_write" => ~Spawned(lc) /\ wire = "over"
       /\ pc[t] = "report_write" => lc.deathReportPending
       /\ pc[t] = "sync_write" => Spawned(lc) /\ ~lc.deathInProgress

LiveWorker(w) == pc[w] \notin {"off", "policy"}

\* At most one worker acts for the current epoch, and autoRespawnRunning says
\* exactly whether it exists.
OneCurrentWorker ==
  /\ \A v, w \in Worker :
       LiveWorker(v) /\ LiveWorker(w) /\ epoch[v] = epoch[w] => v = w
  /\ lc.autoRespawnRunning <=>
       \E w \in Worker : LiveWorker(w) /\ epoch[w] = lc.autoRespawnEpoch

\* Under the automatic policy a dead player has a worker, or a goroutine that
\* is about to start one.
DeadHasWorker ==
  AutomaticPolicy /\ ~ctxDone /\ lc.lifeState = "dead" =>
    \/ lc.autoRespawnRunning
    \/ \E t \in {Run} \cup Native :
         pc[t] \in {"death_write", "drain", "emit", "flush", "policy"}

-----------------------------------------------------------------------------
(* Liveness, under FairSpec *)

\* A spawn request does not stay pending: it is answered or expires.
RequestEnds ==
  (lc.lifeState = "spawn_request_pending")
     ~> (lc.lifeState # "spawn_request_pending" \/ ctxDone)

\* A death that the transport has not taken for certain does not stay so, however
\* often its write fails and whatever becomes of the player: an RPC_Death is
\* written without an error (completeDeath, retryDeathNotification), unless an
\* RPC_Spawn is handed over first (markSpawnedLocked then drops the report,
\* client.go:2379), or a new session begins.
DeathToldOrSuperseded ==
  wire \in {"over", "death_unsure"} ~> (wire \in {"death", "spawn", "none"} \/ ctxDone)

\* Under the automatic policy a dead player with spawn information respawns.
DeadRespawns ==
  (AutomaticPolicy /\ lc.lifeState = "dead" /\ lc.spawnInfoReady)
     ~> (lc.lifeState # "dead" \/ ctxDone)

\* Cancelling the client ends the decoder, the tick and every worker.
CancelStops ==
  ctxDone ~> ( /\ pc[Run] = "stopped" /\ pc[Sync] = "stopped"
               /\ \A w \in Worker : pc[w] = "off" )
-----------------------------------------------------------------------------
(* What the sources say, and the code does not keep (see README.md) *)

\* "Initial spawning remains explicit: some servers ... reject unsolicited
\* RequestSpawn RPCs" (lifecycle.go:420-422): no worker writes one.  A worker
\* that RecvInitGame overtakes between its check and its call does.
AutomaticNeverRequests == \A w \in Worker : pc[w] # "request_write"

\* "the semantic spawned event precedes the lifecycle state event queued by
\* markSpawnedLocked" (client.go:579-581), in the batch that carries the state.
\* The decoder may drain the queued state event first.
SpawnedAnnouncedFirst ==
  \A t \in Thread : \A i \in DOMAIN batch[t] :
    batch[t][i] = "spawned" =>
      \E j \in DOMAIN batch[t] : j < i /\ batch[t][j] = "EventSpawned"

\* "Snapshots expose the local player's state" (PLUGINS.md:111): once nothing is
\* under way, the events have told the state the client is in.  emitLifeState
\* and emitBatch run after the unlock of stateMu, so two announcements may
\* arrive in the order opposite to that of their transitions.
AllAnnounced ==
  /\ pendingEvents = <<>> /\ ~ctxDone
  /\ pc[Run] = "read" /\ pc[Sync] = "tick"
  /\ \A t \in Thread \ {Run, Sync} : pc[t] \in {"rest", "off", "timer"}

SnapshotIsCurrent == AllAnnounced => believed = lc.lifeState
=============================================================================
