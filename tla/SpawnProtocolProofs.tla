------------------------ MODULE SpawnProtocolProofs ------------------------
(***************************************************************************)
(* Theorems about SpawnProtocol, for any number of goroutines and without  *)
(* regard to the bounds of the model-checked instances.                    *)
(***************************************************************************)
EXTENDS SpawnProtocol, TLAPS

-----------------------------------------------------------------------------
(* The operations of PlayerLifecycle *)

\* Every method of playerLifecycle (lifecycle.go:116-242) leaves a well-typed
\* structure behind.
LEMMA LifecycleType ==
  ASSUME NEW l \in Lifecycle
  PROVE  /\ ResetForConnection(l) \in Lifecycle
         /\ InvalidateAutomaticSpawn(l) \in Lifecycle
         /\ EnterClassSelection(l) \in Lifecycle
         /\ BeginSpawnRequest(l) \in Lifecycle
         /\ ReturnToOrigin(l) \in Lifecycle
         /\ BeginDirectSpawn(l) \in Lifecycle
         /\ BeginSpawning(l) \in Lifecycle
         /\ CommitSpawn(l) \in Lifecycle
         /\ SetSpawnInfo(l) \in Lifecycle
         /\ ReserveDeath(l) \in Lifecycle
         /\ CommitDeath(l) \in Lifecycle
         /\ ClearDeathReportRetry(l) \in Lifecycle
         /\ StartAutomaticSpawn(l) \in Lifecycle
         /\ StopAutomaticSpawn(l) \in Lifecycle
         /\ [l EXCEPT !.respawnCooling = FALSE] \in Lifecycle
         /\ l.autoRespawnEpoch + 1 \in Nat
         /\ l.spawnRequestID + 1 \in Nat
<1> USE DEF Lifecycle, LifeState, SpawnPhase
<1>0. l.autoRespawnEpoch + 1 \in Nat /\ l.spawnRequestID + 1 \in Nat
  OBVIOUS
<1>1. ResetForConnection(l) \in Lifecycle
  BY <1>0 DEF ResetForConnection, NewPlayerLifecycle
<1>2. InvalidateAutomaticSpawn(l) \in Lifecycle
  BY <1>0 DEF InvalidateAutomaticSpawn
<1>3. EnterClassSelection(l) \in Lifecycle
  BY <1>2 DEF EnterClassSelection
<1>4. BeginSpawnRequest(l) \in Lifecycle
  BY <1>0 DEF BeginSpawnRequest
<1>5. ReturnToOrigin(l) \in Lifecycle
  BY DEF ReturnToOrigin
<1>6. BeginDirectSpawn(l) \in Lifecycle
  BY DEF BeginDirectSpawn
<1>7. BeginSpawning(l) \in Lifecycle
  BY DEF BeginSpawning
<1>8. CommitSpawn(l) \in Lifecycle
  BY <1>2 DEF CommitSpawn
<1>9. SetSpawnInfo(l) \in Lifecycle
  BY DEF SetSpawnInfo, BecomesSpawnReady
<1>10. ReserveDeath(l) \in Lifecycle
  BY DEF ReserveDeath
<1>11. CommitDeath(l) \in Lifecycle
  BY <1>2 DEF CommitDeath
<1>12. ClearDeathReportRetry(l) \in Lifecycle
  BY DEF ClearDeathReportRetry
<1>13. StartAutomaticSpawn(l) \in Lifecycle
  BY <1>0 DEF StartAutomaticSpawn
<1>14. StopAutomaticSpawn(l) \in Lifecycle
  BY DEF StopAutomaticSpawn
<1>15. [l EXCEPT !.respawnCooling = FALSE] \in Lifecycle
  OBVIOUS
<1> QED
  BY <1>0, <1>1, <1>2, <1>3, <1>4, <1>5, <1>6, <1>7, <1>8, <1>9, <1>10, <1>11,
     <1>12, <1>13, <1>14, <1>15

-----------------------------------------------------------------------------
(* Type correctness *)

\* The batches that the handlers build are sequences of events.
LEMMA EventSeq ==
  /\ <<>> \in Seq(Event)
  /\ \A e \in Event : <<e>> \in Seq(Event)
  /\ \A s1, s2 \in Seq(Event) : s1 \o s2 \in Seq(Event)
  /\ <<"dead", "EventPlayerDeath">> \in Seq(Event)
  /\ LifeState \subseteq Event
  /\ {"EventJoined", "EventSpawned", "EventPlayerDeath"} \subseteq Event
  /\ {"class_selection", "spawn_ready", "spawn_request_pending", "spawned",
      "dead"} \subseteq LifeState
<1>1. /\ LifeState \subseteq Event
      /\ {"EventJoined", "EventSpawned", "EventPlayerDeath"} \subseteq Event
  BY DEF Event
<1>2. "dead" \in Event /\ "EventPlayerDeath" \in Event
  BY <1>1 DEF LifeState
<1>3. <<"dead", "EventPlayerDeath">> \in Seq(Event)
  BY <1>2
<1> QED BY <1>1, <1>3 DEF LifeState

\* A goroutine that moves to a label leaves pc well typed.
LEMMA GotoType ==
  ASSUME TypeOK, NEW t \in Thread, NEW label \in Label, Goto(t, label)
  PROVE  pc' \in [Thread -> Label]
BY DEF TypeOK, Goto

\* A goroutine that fills its batch leaves batch well typed.
LEMMA SetBatchType ==
  ASSUME TypeOK, NEW t \in Thread, NEW events \in Seq(Event), SetBatch(t, events)
  PROVE  batch' \in [Thread -> Seq(Event)]
BY DEF TypeOK, SetBatch

\* queuePendingEvent (lifecycle.go:274-278) leaves pendingEvents well typed.
LEMMA QueueType ==
  ASSUME TypeOK, NEW events \in Seq(Event), Queue(events)
  PROVE  pendingEvents' \in Seq(Event)
BY DEF TypeOK, Queue

\* What the consumer believes after emitBatch (client.go:2646) is a life state.
LEMMA AnnounceType ==
  ASSUME TypeOK, NEW events \in Seq(Event), Announce(events)
  PROVE  believed' \in LifeState
<1>1. PICK n \in 0..Len(events) :
         believed' = IF n = 0 THEN believed ELSE StateOf(events[n])
  BY DEF Announce
<1>2. ASSUME NEW e \in Event PROVE StateOf(e) \in LifeState
  BY DEF StateOf, Event, LifeState
<1>3. CASE n = 0
  BY <1>1, <1>3 DEF TypeOK
<1>4. CASE n # 0
  <2>1. events[n] \in Event BY <1>4
  <2> QED BY <1>1, <1>2, <1>4, <2>1
<1> QED BY <1>3, <1>4

\* Every step leaves the variables well typed.
LEMMA TypeStep == ASSUME TypeOK, [Next]_vars PROVE TypeOK'
<1>1. ASSUME RecvInitGame
      PROVE  TypeOK'
  <2> USE <1>1 DEF RecvInitGame
  <2>1. pc' \in [Thread -> Label]
    BY GotoType DEF TypeOK, Thread, Label
  <2>2. batch' \in [Thread -> Seq(Event)]
    BY SetBatchType, EventSeq DEF TypeOK, Thread, Lifecycle
  <2>3. pendingEvents' \in Seq(Event)
    BY QueueType, EventSeq DEF TypeOK, Lifecycle
  <2>4. lc' \in Lifecycle
    BY LifecycleType DEF TypeOK, lifeVars
  <2> QED
    BY <2>1, <2>2, <2>3, <2>4
    DEF TypeOK, Thread, Wire, WriteResult, lifeVars, lockVars, localVars,
        eventVars
<1>2. ASSUME RecvClassDenied
      PROVE  TypeOK'
  <2> USE <1>2 DEF RecvClassDenied
  <2>1. pc' \in [Thread -> Label]
    BY GotoType DEF TypeOK, Thread, Label
  <2>2. batch' \in [Thread -> Seq(Event)]
    BY SetBatchType, EventSeq DEF TypeOK, Thread, Lifecycle
  <2>3. lc' \in Lifecycle
    BY LifecycleType DEF TypeOK, lifeVars
  <2> QED
    BY <2>1, <2>2, <2>3
    DEF TypeOK, Thread, Wire, WriteResult, lifeVars, lockVars, localVars,
        eventVars
<1>3. ASSUME RecvSpawnInfo
      PROVE  TypeOK'
  <2> USE <1>3 DEF RecvSpawnInfo
  <2>1. pc' \in [Thread -> Label]
    BY GotoType DEF TypeOK, Thread, Label
  <2>2. pendingEvents' \in Seq(Event)
    BY QueueType, EventSeq DEF TypeOK, Lifecycle
  <2>3. lc' \in Lifecycle
    BY LifecycleType DEF TypeOK, lifeVars
  <2> QED
    BY <2>1, <2>2, <2>3
    DEF TypeOK, Thread, Wire, WriteResult, lifeVars, lockVars, localVars,
        eventVars
<1>4. ASSUME NEW outcome \in Outcome, RecvRequestSpawn(outcome)
      PROVE  TypeOK'
  <2> USE <1>4 DEF RecvRequestSpawn
  <2>1. pc' \in [Thread -> Label]
    BY GotoType DEF TypeOK, Thread, Label
  <2>2. lc' \in Lifecycle
    BY LifecycleType DEF TypeOK, lifeVars
  <2> QED
    BY <2>1, <2>2
    DEF TypeOK, Thread, Wire, WriteResult, lifeVars, lockVars, localVars,
        eventVars
<1>5. ASSUME RejectRequest
      PROVE  TypeOK'
  <2> USE <1>5 DEF RejectRequest
  <2>1. pc' \in [Thread -> Label]
    BY GotoType DEF TypeOK, Thread, Label
  <2>2. batch' \in [Thread -> Seq(Event)]
    BY SetBatchType, EventSeq DEF TypeOK, Thread, Lifecycle
  <2>3. lc' \in Lifecycle
    BY LifecycleType DEF TypeOK, lifeVars
  <2> QED
    BY <2>1, <2>2, <2>3
    DEF TypeOK, Thread, Wire, WriteResult, lifeVars, lockVars, localVars,
        eventVars
<1>6. ASSUME RecvZeroHealth
      PROVE  TypeOK'
  <2> USE <1>6 DEF RecvZeroHealth
  <2>1. pc' \in [Thread -> Label]
    BY GotoType DEF TypeOK, Thread, Label
  <2>2. lc' \in Lifecycle
    BY LifecycleType DEF TypeOK, lifeVars
  <2> QED
    BY <2>1, <2>2
    DEF TypeOK, Thread, Wire, WriteResult, lifeVars, lockVars, localVars,
        eventVars
<1>7. ASSUME RecvPositiveHealth
      PROVE  TypeOK'
  <2> USE <1>7 DEF RecvPositiveHealth
  <2>1. pc' \in [Thread -> Label]
    BY GotoType DEF TypeOK, Thread, Label
  <2> QED
    BY <2>1
    DEF TypeOK, Thread, Wire, WriteResult, lifeVars, lockVars, localVars,
        eventVars
<1>8. ASSUME NEW enter \in BOOLEAN, RecvVehicle(enter)
      PROVE  TypeOK'
  <2> USE <1>8 DEF RecvVehicle
  <2>1. pc' \in [Thread -> Label]
    BY GotoType DEF TypeOK, Thread, Label
  <2>2. driving' \in BOOLEAN
    BY DEF TypeOK, Spawned, Lifecycle
  <2> QED
    BY <2>1, <2>2
    DEF TypeOK, Thread, Wire, WriteResult, lifeVars, lockVars, localVars,
        eventVars
<1>9. ASSUME RecvPosition
      PROVE  TypeOK'
  <2> USE <1>9 DEF RecvPosition
  <2>1. pc' \in [Thread -> Label]
    BY GotoType DEF TypeOK, Thread, Label
  <2> QED
    BY <2>1
    DEF TypeOK, Thread, Wire, WriteResult, lifeVars, lockVars, localVars,
        eventVars
<1>10. ASSUME RecvOther
      PROVE  TypeOK'
  <2> USE <1>10 DEF RecvOther
  <2>1. pc' \in [Thread -> Label]
    BY GotoType DEF TypeOK, Thread, Label
  <2> QED
    BY <2>1
    DEF TypeOK, Thread, Wire, WriteResult, lifeVars, lockVars, localVars,
        eventVars
<1>11. ASSUME ConnectionLost
      PROVE  TypeOK'
  <2> USE <1>11 DEF ConnectionLost
  <2>1. pc' \in [Thread -> Label]
    BY GotoType DEF TypeOK, Thread, Label
  <2> QED
    BY <2>1
    DEF TypeOK, Thread, Wire, WriteResult, lifeVars, lockVars, localVars,
        eventVars
<1>12. ASSUME Close
      PROVE  TypeOK'
  <2> USE <1>12 DEF Close
  <2> QED
    BY DEF TypeOK, Thread, Wire, WriteResult, lifeVars, lockVars,
       localVars, eventVars
<1>13. ASSUME DrainBatch
      PROVE  TypeOK'
  <2> USE <1>13 DEF DrainBatch
  <2>1. pc' \in [Thread -> Label]
    BY GotoType DEF TypeOK, Thread, Label
  <2>2. batch' \in [Thread -> Seq(Event)]
    BY SetBatchType, EventSeq DEF TypeOK, Thread, Lifecycle
  <2>3. pendingEvents' \in Seq(Event)
    BY QueueType, EventSeq DEF TypeOK, Lifecycle
  <2> QED
    BY <2>1, <2>2, <2>3
    DEF TypeOK, Thread, Wire, WriteResult, lifeVars, lockVars, localVars,
        eventVars
<1>14. ASSUME NEW t \in Thread, Emit(t)
      PROVE  TypeOK'
  <2> USE <1>14 DEF Emit, AfterRequest
  <2>1. pc' \in [Thread -> Label]
    BY GotoType DEF TypeOK, Thread, Label
  <2>2. batch' \in [Thread -> Seq(Event)]
    BY SetBatchType, EventSeq DEF TypeOK, Thread, Lifecycle
  <2>3. believed' \in LifeState
    BY AnnounceType, EventSeq DEF TypeOK
  <2> QED
    BY <2>1, <2>2, <2>3
    DEF TypeOK, Thread, Wire, WriteResult, lifeVars, lockVars, localVars,
        eventVars
<1>15. ASSUME NEW t \in Thread, Flush(t)
      PROVE  TypeOK'
  <2> USE <1>15 DEF Flush, AfterRequest
  <2>1. pc' \in [Thread -> Label]
    BY GotoType DEF TypeOK, Thread, Label
  <2>2. pendingEvents' \in Seq(Event)
    BY QueueType, EventSeq DEF TypeOK, Lifecycle
  <2>3. believed' \in LifeState
    BY AnnounceType, EventSeq DEF TypeOK
  <2> QED
    BY <2>1, <2>2, <2>3
    DEF TypeOK, Thread, Wire, WriteResult, lifeVars, lockVars, localVars,
        eventVars
<1>16. ASSUME NEW t \in Thread, CallRequestSpawn(t)
      PROVE  TypeOK'
  <2> USE <1>16 DEF CallRequestSpawn, RequestSpawn, AfterRequest
  <2>1. pc' \in [Thread -> Label]
    BY GotoType DEF TypeOK, Thread, Label
  <2>2. lc' \in Lifecycle
    BY LifecycleType DEF TypeOK, lifeVars
  <2>3. requestID' \in [Thread -> Nat]
    BY LifecycleType DEF TypeOK
  <2> QED
    BY <2>1, <2>2, <2>3
    DEF TypeOK, Thread, Wire, WriteResult, lifeVars, lockVars, localVars,
        eventVars
<1>17. ASSUME NEW t \in Thread, WorkerRequestsSpawn(t)
      PROVE  TypeOK'
  <2> USE <1>17 DEF WorkerRequestsSpawn, RequestSpawn, AfterRequest
  <2>1. pc' \in [Thread -> Label]
    BY GotoType DEF TypeOK, Thread, Label
  <2>2. lc' \in Lifecycle
    BY LifecycleType DEF TypeOK, lifeVars
  <2>3. requestID' \in [Thread -> Nat]
    BY LifecycleType DEF TypeOK
  <2> QED
    BY <2>1, <2>2, <2>3
    DEF TypeOK, Thread, Wire, WriteResult, lifeVars, lockVars, localVars,
        eventVars
<1>18. ASSUME NEW t \in Thread, EmitRequestPending(t)
      PROVE  TypeOK'
  <2> USE <1>18 DEF EmitRequestPending
  <2>1. pc' \in [Thread -> Label]
    BY GotoType DEF TypeOK, Thread, Label
  <2>2. believed' \in LifeState
    BY AnnounceType, EventSeq DEF TypeOK
  <2> QED
    BY <2>1, <2>2
    DEF TypeOK, Thread, Wire, WriteResult, lifeVars, lockVars, localVars,
        eventVars
<1>19. ASSUME NEW t \in Thread, NEW result \in WriteResult,
              WriteRequest(t, result)
      PROVE  TypeOK'
  <2> USE <1>19 DEF WriteRequest, AfterRequest
  <2>1. pc' \in [Thread -> Label]
    BY GotoType DEF TypeOK, Thread, Label
  <2> QED
    BY <2>1
    DEF TypeOK, Thread, Wire, WriteResult, lifeVars, lockVars, localVars,
        eventVars
<1>20. ASSUME NEW t \in Thread, RollbackRequest(t)
      PROVE  TypeOK'
  <2> USE <1>20 DEF RollbackRequest, AfterRequest
  <2>1. pc' \in [Thread -> Label]
    BY GotoType DEF TypeOK, Thread, Label
  <2>2. lc' \in Lifecycle
    BY LifecycleType DEF TypeOK, lifeVars
  <2>3. batch' \in [Thread -> Seq(Event)]
    BY SetBatchType, EventSeq DEF TypeOK, Thread, Lifecycle
  <2> QED
    BY <2>1, <2>2, <2>3
    DEF TypeOK, Thread, Wire, WriteResult, lifeVars, lockVars, localVars,
        eventVars
<1>21. ASSUME NEW t \in Thread, LockSpawn(t)
      PROVE  TypeOK'
  <2> USE <1>21 DEF LockSpawn, TakeBoth
  <2>1. pc' \in [Thread -> Label]
    BY GotoType DEF TypeOK, Thread, Label
  <2> QED
    BY <2>1
    DEF TypeOK, Thread, Wire, WriteResult, lifeVars, lockVars, localVars,
        eventVars
<1>22. ASSUME NEW t \in Thread, NEW result \in WriteResult, WriteSpawn(t, result)
      PROVE  TypeOK'
  <2> USE <1>22 DEF WriteSpawn
  <2>1. pc' \in [Thread -> Label]
    BY GotoType DEF TypeOK, Thread, Label
  <2> QED
    BY <2>1
    DEF TypeOK, Thread, Wire, WriteResult, lifeVars, lockVars, localVars,
        eventVars
<1>23. ASSUME NEW t \in Thread, CommitSpawned(t)
      PROVE  TypeOK'
  <2> USE <1>23 DEF CommitSpawned, ReleaseBoth
  <2>1. pc' \in [Thread -> Label]
    BY GotoType DEF TypeOK, Thread, Label
  <2>2. lc' \in Lifecycle
    BY LifecycleType DEF TypeOK, lifeVars
  <2>3. batch' \in [Thread -> Seq(Event)]
    BY SetBatchType, EventSeq DEF TypeOK, Thread, Lifecycle
  <2>4. pendingEvents' \in Seq(Event)
    BY QueueType, EventSeq DEF TypeOK, Lifecycle
  <2> QED
    BY <2>1, <2>2, <2>3, <2>4
    DEF TypeOK, Thread, Wire, WriteResult, lifeVars, lockVars, localVars,
        eventVars
<1>24. ASSUME NEW t \in Thread, RollbackSpawn(t)
      PROVE  TypeOK'
  <2> USE <1>24 DEF RollbackSpawn, ReleaseBoth
  <2>1. pc' \in [Thread -> Label]
    BY GotoType DEF TypeOK, Thread, Label
  <2>2. lc' \in Lifecycle
    BY LifecycleType DEF TypeOK, lifeVars
  <2>3. pendingEvents' \in Seq(Event)
    BY QueueType, EventSeq DEF TypeOK, Lifecycle
  <2> QED
    BY <2>1, <2>2, <2>3
    DEF TypeOK, Thread, Wire, WriteResult, lifeVars, lockVars, localVars,
        eventVars
<1>25. ASSUME NEW t \in Thread, DrainSpawned(t)
      PROVE  TypeOK'
  <2> USE <1>25 DEF DrainSpawned
  <2>1. pc' \in [Thread -> Label]
    BY GotoType DEF TypeOK, Thread, Label
  <2>2. batch' \in [Thread -> Seq(Event)]
    BY SetBatchType, EventSeq DEF TypeOK, Thread, Lifecycle
  <2>3. pendingEvents' \in Seq(Event)
    BY QueueType, EventSeq DEF TypeOK, Lifecycle
  <2> QED
    BY <2>1, <2>2, <2>3
    DEF TypeOK, Thread, Wire, WriteResult, lifeVars, lockVars, localVars,
        eventVars
<1>26. ASSUME NEW t \in Thread, ReserveNativeDeath(t)
      PROVE  TypeOK'
  <2> USE <1>26 DEF ReserveNativeDeath
  <2>1. pc' \in [Thread -> Label]
    BY GotoType DEF TypeOK, Thread, Label
  <2>2. lc' \in Lifecycle
    BY LifecycleType DEF TypeOK, lifeVars
  <2> QED
    BY <2>1, <2>2
    DEF TypeOK, Thread, Wire, WriteResult, lifeVars, lockVars, localVars,
        eventVars
<1>27. ASSUME NEW t \in Thread, LockDeath(t)
      PROVE  TypeOK'
  <2> USE <1>27 DEF LockDeath, TakeBoth
  <2>1. pc' \in [Thread -> Label]
    BY GotoType DEF TypeOK, Thread, Label
  <2> QED
    BY <2>1
    DEF TypeOK, Thread, Wire, WriteResult, lifeVars, lockVars, localVars,
        eventVars
<1>28. ASSUME NEW t \in Thread, WriteFinalFrame(t)
      PROVE  TypeOK'
  <2> USE <1>28 DEF WriteFinalFrame
  <2>1. pc' \in [Thread -> Label]
    BY GotoType DEF TypeOK, Thread, Label
  <2> QED
    BY <2>1
    DEF TypeOK, Thread, Wire, WriteResult, lifeVars, lockVars, localVars,
        eventVars
<1>29. ASSUME NEW t \in Thread, CommitDead(t)
      PROVE  TypeOK'
  <2> USE <1>29 DEF CommitDead, AfterDeath, ReleaseBoth
  <2>1. pc' \in [Thread -> Label]
    BY GotoType DEF TypeOK, Thread, Label
  <2>2. lc' \in Lifecycle
    BY LifecycleType DEF TypeOK, lifeVars
  <2> QED
    BY <2>1, <2>2
    DEF TypeOK, Thread, Wire, WriteResult, lifeVars, lockVars, localVars,
        eventVars
<1>30. ASSUME NEW t \in Thread, NEW result \in WriteResult, WriteDeath(t, result)
      PROVE  TypeOK'
  <2> USE <1>30 DEF WriteDeath, AfterDeath, DeathOnWire, ReleaseBoth
  <2>1. pc' \in [Thread -> Label]
    BY GotoType DEF TypeOK, Thread, Label
  <2>2. lc' \in Lifecycle
    BY LifecycleType DEF TypeOK, lifeVars
  <2>3. pendingEvents' \in Seq(Event)
    BY QueueType, EventSeq DEF TypeOK, Lifecycle
  <2> QED
    BY <2>1, <2>2, <2>3
    DEF TypeOK, Thread, Wire, WriteResult, lifeVars, lockVars, localVars,
        eventVars
<1>31. ASSUME Tick
      PROVE  TypeOK'
  <2> USE <1>31 DEF Tick
  <2>1. pc' \in [Thread -> Label]
    BY GotoType DEF TypeOK, Thread, Label
  <2> QED
    BY <2>1
    DEF TypeOK, Thread, Wire, WriteResult, lifeVars, lockVars, localVars,
        eventVars
<1>32. ASSUME ExpireRequest
      PROVE  TypeOK'
  <2> USE <1>32 DEF ExpireRequest
  <2>1. pc' \in [Thread -> Label]
    BY GotoType DEF TypeOK, Thread, Label
  <2>2. lc' \in Lifecycle
    BY LifecycleType DEF TypeOK, lifeVars
  <2>3. batch' \in [Thread -> Seq(Event)]
    BY SetBatchType, EventSeq DEF TypeOK, Thread, Lifecycle
  <2> QED
    BY <2>1, <2>2, <2>3
    DEF TypeOK, Thread, Wire, WriteResult, lifeVars, lockVars, localVars,
        eventVars
<1>33. ASSUME StopTicking
      PROVE  TypeOK'
  <2> USE <1>33 DEF StopTicking
  <2>1. pc' \in [Thread -> Label]
    BY GotoType DEF TypeOK, Thread, Label
  <2> QED
    BY <2>1
    DEF TypeOK, Thread, Wire, WriteResult, lifeVars, lockVars, localVars,
        eventVars
<1>34. ASSUME SkipReport
      PROVE  TypeOK'
  <2> USE <1>34 DEF SkipReport
  <2>1. pc' \in [Thread -> Label]
    BY GotoType DEF TypeOK, Thread, Label
  <2> QED
    BY <2>1
    DEF TypeOK, Thread, Wire, WriteResult, lifeVars, lockVars, localVars,
        eventVars
<1>35. ASSUME RetryReport
      PROVE  TypeOK'
  <2> USE <1>35 DEF RetryReport
  <2>1. pc' \in [Thread -> Label]
    BY GotoType DEF TypeOK, Thread, Label
  <2> QED
    BY <2>1
    DEF TypeOK, Thread, Wire, WriteResult, lifeVars, lockVars, localVars,
        eventVars
<1>36. ASSUME LockReport
      PROVE  TypeOK'
  <2> USE <1>36 DEF LockReport
  <2>1. pc' \in [Thread -> Label]
    BY GotoType DEF TypeOK, Thread, Label
  <2> QED
    BY <2>1
    DEF TypeOK, Thread, Wire, WriteResult, lifeVars, lockVars, localVars,
        eventVars
<1>37. ASSUME NEW result \in WriteResult, WriteReport(result)
      PROVE  TypeOK'
  <2> USE <1>37 DEF WriteReport, DeathOnWire
  <2>1. pc' \in [Thread -> Label]
    BY GotoType DEF TypeOK, Thread, Label
  <2>2. lc' \in Lifecycle
    BY LifecycleType DEF TypeOK, lifeVars
  <2> QED
    BY <2>1, <2>2
    DEF TypeOK, Thread, Wire, WriteResult, lifeVars, lockVars, localVars,
        eventVars
<1>38. ASSUME NEW t \in Thread, LockSync(t)
      PROVE  TypeOK'
  <2> USE <1>38 DEF LockSync, AfterSync
  <2>1. pc' \in [Thread -> Label]
    BY GotoType DEF TypeOK, Thread, Label
  <2> QED
    BY <2>1
    DEF TypeOK, Thread, Wire, WriteResult, lifeVars, lockVars, localVars,
        eventVars
<1>39. ASSUME NEW t \in Thread, WriteSync(t)
      PROVE  TypeOK'
  <2> USE <1>39 DEF WriteSync, AfterSync
  <2>1. pc' \in [Thread -> Label]
    BY GotoType DEF TypeOK, Thread, Label
  <2> QED
    BY <2>1
    DEF TypeOK, Thread, Wire, WriteResult, lifeVars, lockVars, localVars,
        eventVars
<1>40. ASSUME NEW t \in Thread, CallSync(t)
      PROVE  TypeOK'
  <2> USE <1>40 DEF CallSync
  <2>1. pc' \in [Thread -> Label]
    BY GotoType DEF TypeOK, Thread, Label
  <2> QED
    BY <2>1
    DEF TypeOK, Thread, Wire, WriteResult, lifeVars, lockVars, localVars,
        eventVars
<1>41. ASSUME NEW t \in Thread, RunPolicy(t)
      PROVE  TypeOK'
  <2> USE <1>41 DEF RunPolicy, StartWorker, AfterPolicy
  <2>1. pc' \in [Thread -> Label]
    BY GotoType DEF TypeOK, Thread, Label
  <2>2. lc' \in Lifecycle
    BY LifecycleType DEF TypeOK, lifeVars
  <2>3. epoch' \in [Thread -> Nat]
    BY LifecycleType DEF TypeOK
  <2> QED
    BY <2>1, <2>2, <2>3
    DEF TypeOK, Thread, Wire, WriteResult, lifeVars, lockVars, localVars,
        eventVars
<1>42. ASSUME NEW t \in Thread, WakeWorker(t)
      PROVE  TypeOK'
  <2> USE <1>42 DEF WakeWorker
  <2>1. pc' \in [Thread -> Label]
    BY GotoType DEF TypeOK, Thread, Label
  <2> QED
    BY <2>1
    DEF TypeOK, Thread, Wire, WriteResult, lifeVars, lockVars, localVars,
        eventVars
<1>43. ASSUME NEW t \in Thread, StopWorker(t)
      PROVE  TypeOK'
  <2> USE <1>43 DEF StopWorker
  <2>1. pc' \in [Thread -> Label]
    BY GotoType DEF TypeOK, Thread, Label
  <2> QED
    BY <2>1
    DEF TypeOK, Thread, Wire, WriteResult, lifeVars, lockVars, localVars,
        eventVars
<1>44. ASSUME NEW t \in Thread, ExitWorker(t)
      PROVE  TypeOK'
  <2> USE <1>44 DEF ExitWorker
  <2>1. pc' \in [Thread -> Label]
    BY GotoType DEF TypeOK, Thread, Label
  <2>2. lc' \in Lifecycle
    BY LifecycleType DEF TypeOK, lifeVars
  <2> QED
    BY <2>1, <2>2
    DEF TypeOK, Thread, Wire, WriteResult, lifeVars, lockVars, localVars,
        eventVars
<1>45. ASSUME CoolDown
      PROVE  TypeOK'
  <2> USE <1>45 DEF CoolDown
  <2>1. lc' \in Lifecycle
    BY LifecycleType DEF TypeOK, lifeVars
  <2> QED
    BY <2>1
    DEF TypeOK, Thread, Wire, WriteResult, lifeVars, lockVars, localVars,
        eventVars
<1>46. CASE UNCHANGED vars
  BY <1>46 DEF TypeOK, vars, lifeVars, lockVars, localVars, eventVars
<1>47. Results \subseteq WriteResult
  BY DEF Results, WriteResult
<1> QED
  BY <1>1, <1>2, <1>3, <1>4, <1>5, <1>6, <1>7, <1>8, <1>9, <1>10, <1>11,
     <1>12, <1>13, <1>14, <1>15, <1>16, <1>17, <1>18, <1>19, <1>20, <1>21,
     <1>22, <1>23, <1>24, <1>25, <1>26, <1>27, <1>28, <1>29, <1>30, <1>31,
     <1>32, <1>33, <1>34, <1>35, <1>36, <1>37, <1>38, <1>39, <1>40, <1>41,
     <1>42, <1>43, <1>44, <1>45, <1>46, <1>47
  DEF Next, Receive, Call, Step, RunStep, SyncStep, WorkerStep, Terminated, Thread

\* Every reachable state of the goroutines is well typed.
THEOREM TypeCorrect == Spec => []TypeOK
<1>1. Init => TypeOK
  <2>1. NewPlayerLifecycle \in Lifecycle
    BY DEF NewPlayerLifecycle, Lifecycle, LifeState, SpawnPhase
  <2>2. Init => /\ requestID \in [Thread -> Nat]
                /\ epoch \in [Thread -> Nat]
                /\ finalFrame \in [Thread -> BOOLEAN]
    BY DEF Init
  <2>3. Init => pc \in [Thread -> Label]
    BY DEF Init, Thread, Label
  <2>4. Init => batch \in [Thread -> Seq(Event)] /\ pendingEvents \in Seq(Event)
    BY EventSeq DEF Init
  <2> QED
    BY <2>1, <2>2, <2>3, <2>4 DEF Init, TypeOK, LifeState, Wire
<1> QED
  BY <1>1, TypeStep, PTL DEF Spec

-----------------------------------------------------------------------------
(* What the server is told *)

\* Where WireInv speaks of a goroutine.
Tracked == HoldsBoth \cup {"sync_write", "report_write"}

\* m is l as far as WireInv looks at it, the reservation of a death apart.
SameLife(l, m) ==
  /\ Spawned(m) <=> Spawned(l)
  /\ Spawned(m) => m.spawnPhase = "idle"
  /\ m.spawnRequestOrigin # "spawned"
  /\ m.deathReportPending = l.deathReportPending

\* The methods that begin or end a request, and those of class selection, of a
\* reserved death and of the respawn policy, neither begin nor end a life.
LEMMA SameLifeOperations ==
  ASSUME NEW l \in Lifecycle,
         Spawned(l) => l.spawnPhase = "idle",
         l.spawnRequestOrigin # "spawned"
  PROVE  /\ SameLife(l, l) 
         /\ ~Spawned(l) => SameLife(l, EnterClassSelection(l))
         /\ CanBeginSpawnRequest(l) => SameLife(l, BeginSpawnRequest(l))
         /\ CanBeginDirectSpawn(l) => SameLife(l, BeginDirectSpawn(l))
         /\ \A outcome \in Outcome :
              CanBeginSpawning(l, outcome) => SameLife(l, BeginSpawning(l))
         /\ l.spawnPhase # "idle" => SameLife(l, ReturnToOrigin(l))
         /\ SameLife(l, SetSpawnInfo(l))
         /\ CanReserveDeath(l) => SameLife(l, ReserveDeath(l))
         /\ CanStartAutomaticSpawn(l) => SameLife(l, StartAutomaticSpawn(l))
         /\ SameLife(l, StopAutomaticSpawn(l))
<1> USE DEF Lifecycle, LifeState, SpawnPhase, SameLife, Spawned
<1>1. ~Spawned(l) => SameLife(l, EnterClassSelection(l))
  BY DEF EnterClassSelection, InvalidateAutomaticSpawn
<1>2. CanBeginSpawnRequest(l) => SameLife(l, BeginSpawnRequest(l))
  BY DEF CanBeginSpawnRequest, BeginSpawnRequest
<1>3. CanBeginDirectSpawn(l) => SameLife(l, BeginDirectSpawn(l))
  BY DEF CanBeginDirectSpawn, BeginDirectSpawn
<1>4. ASSUME NEW outcome \in Outcome, CanBeginSpawning(l, outcome)
      PROVE  SameLife(l, BeginSpawning(l))
  BY <1>4 DEF CanBeginSpawning, BeginSpawning
<1>5. l.spawnPhase # "idle" => SameLife(l, ReturnToOrigin(l))
  BY DEF ReturnToOrigin
<1>6. SameLife(l, SetSpawnInfo(l))
  BY DEF SetSpawnInfo, BecomesSpawnReady
<1>7. CanReserveDeath(l) => SameLife(l, ReserveDeath(l))
  BY DEF CanReserveDeath, ReserveDeath
<1>8. CanStartAutomaticSpawn(l) => SameLife(l, StartAutomaticSpawn(l))
  BY DEF StartAutomaticSpawn, CanStartAutomaticSpawn
<1>9. SameLife(l, StopAutomaticSpawn(l))
  BY DEF StopAutomaticSpawn
<1> QED
  BY <1>1, <1>2, <1>3, <1>4, <1>5, <1>6, <1>7, <1>8, <1>9

\* A step that leaves the mutexes, the transport and the life alone.
Quiet ==
  /\ UNCHANGED <<syncMu, deathWireMu, wire>>
  /\ SameLife(lc, lc')
  /\ lc'.deathInProgress => lc.deathInProgress \/ syncMu = Nobody
  /\ \A t \in Thread : pc'[t] \in Tracked => pc'[t] = pc[t]

\* The steps that take, hold or release a mutex.
MutexStep ==
  \/ RecvInitGame
  \/ \E t \in Thread :
       \/ LockSpawn(t) \/ CommitSpawned(t) \/ RollbackSpawn(t)
       \/ LockDeath(t) \/ WriteFinalFrame(t) \/ CommitDead(t)
       \/ LockSync(t) \/ WriteSync(t)
       \/ \E result \in WriteResult :
            WriteSpawn(t, result) \/ WriteDeath(t, result)
  \/ LockReport
  \/ \E result \in WriteResult : WriteReport(result)

\* Every other step of the program is quiet.
LEMMA QuietOrMutexStep ==
  ASSUME TypeOK, WireInv, [Next]_vars
  PROVE  Quiet \/ MutexStep
<1> USE DEF TypeOK, Goto, Tracked, HoldsBoth, lifeVars, lockVars, WireInv
<1>1. ASSUME RecvClassDenied
      PROVE  Quiet
  <2> USE <1>1 DEF RecvClassDenied
  <2>1. SameLife(lc, lc')
    BY SameLifeOperations
  <2>2. lc'.deathInProgress => lc.deathInProgress \/ syncMu = Nobody
    BY DEF EnterClassSelection, InvalidateAutomaticSpawn, Lifecycle
  <2> QED
    BY <2>1, <2>2 DEF Quiet
<1>2. ASSUME RecvSpawnInfo
      PROVE  Quiet
  <2> USE <1>2 DEF RecvSpawnInfo
  <2>1. SameLife(lc, lc')
    BY SameLifeOperations
  <2>2. lc'.deathInProgress => lc.deathInProgress \/ syncMu = Nobody
    BY DEF SetSpawnInfo, Lifecycle
  <2> QED
    BY <2>1, <2>2 DEF Quiet
<1>3. ASSUME NEW outcome \in Outcome, RecvRequestSpawn(outcome)
      PROVE  Quiet
  <2> USE <1>3 DEF RecvRequestSpawn
  <2>1. SameLife(lc, lc')
    BY SameLifeOperations
  <2>2. lc'.deathInProgress => lc.deathInProgress \/ syncMu = Nobody
    BY DEF BeginSpawning, Lifecycle
  <2> QED
    BY <2>1, <2>2 DEF Quiet
<1>4. ASSUME RejectRequest
      PROVE  Quiet
  <2> USE <1>4 DEF RejectRequest
  <2>1. SameLife(lc, lc')
    BY SameLifeOperations DEF CanRejectSpawnRequest
  <2>2. lc'.deathInProgress => lc.deathInProgress \/ syncMu = Nobody
    BY DEF ReturnToOrigin, Lifecycle
  <2> QED
    BY <2>1, <2>2 DEF Quiet
<1>5. ASSUME RecvZeroHealth
      PROVE  Quiet
  <2> USE <1>5 DEF RecvZeroHealth
  <2>1. SameLife(lc, lc')
    BY SameLifeOperations
  <2>2. lc'.deathInProgress => lc.deathInProgress \/ syncMu = Nobody
    BY DEF Lifecycle
  <2> QED
    BY <2>1, <2>2 DEF Quiet
<1>6. ASSUME RecvPositiveHealth
      PROVE  Quiet
  BY <1>6, SameLifeOperations DEF RecvPositiveHealth, Quiet
<1>7. ASSUME NEW enter \in BOOLEAN, RecvVehicle(enter)
      PROVE  Quiet
  BY <1>7, SameLifeOperations DEF RecvVehicle, Quiet
<1>8. ASSUME RecvPosition
      PROVE  Quiet
  BY <1>8, SameLifeOperations DEF RecvPosition, Quiet
<1>9. ASSUME RecvOther
      PROVE  Quiet
  BY <1>9, SameLifeOperations DEF RecvOther, Quiet
<1>10. ASSUME ConnectionLost
      PROVE  Quiet
  BY <1>10, SameLifeOperations DEF ConnectionLost, Quiet
<1>11. ASSUME Close
      PROVE  Quiet
  BY <1>11, SameLifeOperations DEF Close, Quiet
<1>12. ASSUME DrainBatch
      PROVE  Quiet
  BY <1>12, SameLifeOperations DEF DrainBatch, Quiet
<1>13. ASSUME NEW t \in Thread, Emit(t)
      PROVE  Quiet
  BY <1>13, SameLifeOperations DEF Emit, AfterRequest, Quiet
<1>14. ASSUME NEW t \in Thread, Flush(t)
      PROVE  Quiet
  BY <1>14, SameLifeOperations DEF Flush, AfterRequest, Quiet
<1>15. ASSUME NEW t \in Thread, CallRequestSpawn(t)
      PROVE  Quiet
  <2> USE <1>15 DEF CallRequestSpawn, RequestSpawn, AfterRequest
  <2>1. SameLife(lc, lc')
    BY SameLifeOperations
  <2>2. lc'.deathInProgress => lc.deathInProgress \/ syncMu = Nobody
    BY DEF BeginDirectSpawn, BeginSpawnRequest, Lifecycle
  <2> QED
    BY <2>1, <2>2 DEF Quiet
<1>16. ASSUME NEW t \in Thread, WorkerRequestsSpawn(t)
      PROVE  Quiet
  <2> USE <1>16 DEF WorkerRequestsSpawn, RequestSpawn, AfterRequest
  <2>1. SameLife(lc, lc')
    BY SameLifeOperations
  <2>2. lc'.deathInProgress => lc.deathInProgress \/ syncMu = Nobody
    BY DEF BeginDirectSpawn, BeginSpawnRequest, Lifecycle
  <2> QED
    BY <2>1, <2>2 DEF Quiet
<1>17. ASSUME NEW t \in Thread, EmitRequestPending(t)
      PROVE  Quiet
  BY <1>17, SameLifeOperations DEF EmitRequestPending, Quiet
<1>18. ASSUME NEW t \in Thread, NEW result \in WriteResult,
              WriteRequest(t, result)
      PROVE  Quiet
  BY <1>18, SameLifeOperations DEF WriteRequest, AfterRequest, Quiet
<1>19. ASSUME NEW t \in Thread, RollbackRequest(t)
      PROVE  Quiet
  <2> USE <1>19 DEF RollbackRequest, AfterRequest
  <2>1. SameLife(lc, lc')
    BY SameLifeOperations DEF CanRollbackSpawnRequest
  <2>2. lc'.deathInProgress => lc.deathInProgress \/ syncMu = Nobody
    BY DEF ReturnToOrigin, Lifecycle
  <2> QED
    BY <2>1, <2>2 DEF Quiet
<1>20. ASSUME NEW t \in Thread, DrainSpawned(t)
      PROVE  Quiet
  BY <1>20, SameLifeOperations DEF DrainSpawned, Quiet
<1>21. ASSUME NEW t \in Thread, ReserveNativeDeath(t)
      PROVE  Quiet
  <2> USE <1>21 DEF ReserveNativeDeath
  <2>1. SameLife(lc, lc')
    BY SameLifeOperations
  <2>2. lc'.deathInProgress => lc.deathInProgress \/ syncMu = Nobody
    BY DEF Lifecycle
  <2> QED
    BY <2>1, <2>2 DEF Quiet
<1>22. ASSUME Tick
      PROVE  Quiet
  BY <1>22, SameLifeOperations DEF Tick, Quiet
<1>23. ASSUME ExpireRequest
      PROVE  Quiet
  <2> USE <1>23 DEF ExpireRequest
  <2>1. SameLife(lc, lc')
    BY SameLifeOperations DEF CanRejectSpawnRequest
  <2>2. lc'.deathInProgress => lc.deathInProgress \/ syncMu = Nobody
    BY DEF ReturnToOrigin, Lifecycle
  <2> QED
    BY <2>1, <2>2 DEF Quiet
<1>24. ASSUME StopTicking
      PROVE  Quiet
  BY <1>24, SameLifeOperations DEF StopTicking, Quiet
<1>25. ASSUME SkipReport
      PROVE  Quiet
  BY <1>25, SameLifeOperations DEF SkipReport, Quiet
<1>26. ASSUME RetryReport
      PROVE  Quiet
  BY <1>26, SameLifeOperations DEF RetryReport, Quiet
<1>27. ASSUME NEW t \in Thread, CallSync(t)
      PROVE  Quiet
  BY <1>27, SameLifeOperations DEF CallSync, Quiet
<1>28. ASSUME NEW t \in Thread, RunPolicy(t)
      PROVE  Quiet
  <2> USE <1>28 DEF RunPolicy, StartWorker, AfterPolicy
  <2>1. SameLife(lc, lc')
    BY SameLifeOperations
  <2>2. lc'.deathInProgress => lc.deathInProgress \/ syncMu = Nobody
    BY DEF StartAutomaticSpawn, Lifecycle
  <2> QED
    BY <2>1, <2>2 DEF Quiet
<1>29. ASSUME NEW t \in Thread, WakeWorker(t)
      PROVE  Quiet
  BY <1>29, SameLifeOperations DEF WakeWorker, Quiet
<1>30. ASSUME NEW t \in Thread, StopWorker(t)
      PROVE  Quiet
  BY <1>30, SameLifeOperations DEF StopWorker, Quiet
<1>31. ASSUME NEW t \in Thread, ExitWorker(t)
      PROVE  Quiet
  <2> USE <1>31 DEF ExitWorker
  <2>1. SameLife(lc, lc')
    BY SameLifeOperations
  <2>2. lc'.deathInProgress => lc.deathInProgress \/ syncMu = Nobody
    BY DEF StopAutomaticSpawn, Lifecycle
  <2> QED
    BY <2>1, <2>2 DEF Quiet
<1>32. ASSUME CoolDown
      PROVE  Quiet
  <2> USE <1>32 DEF CoolDown
  <2>1. SameLife(lc, lc')
    BY DEF SameLife, Spawned, Lifecycle
  <2>2. lc'.deathInProgress => lc.deathInProgress \/ syncMu = Nobody
    BY DEF Lifecycle
  <2> QED
    BY <2>1, <2>2 DEF Quiet
<1>33. CASE UNCHANGED vars
  BY <1>33, SameLifeOperations DEF vars, Quiet
<1>34. Results \subseteq WriteResult
  BY DEF Results, WriteResult
<1> QED
  BY <1>1, <1>2, <1>3, <1>4, <1>5, <1>6, <1>7, <1>8, <1>9, <1>10, <1>11,
     <1>12, <1>13, <1>14, <1>15, <1>16, <1>17, <1>18, <1>19, <1>20, <1>21,
     <1>22, <1>23, <1>24, <1>25, <1>26, <1>27, <1>28, <1>29, <1>30, <1>31,
     <1>32, <1>33, <1>34
  DEF Next, Receive, Call, Step, RunStep, SyncStep, WorkerStep, Terminated,
      Thread, MutexStep

\* A quiet step cannot break what the holder of deathWireMu relies on.
LEMMA QuietStepWire ==
  ASSUME TypeOK, WireInv, Quiet
  PROVE  WireInv'
BY ThreadAssumption
DEF Quiet, SameLife, Tracked, TypeOK, WireInv, LockDiscipline, HoldsBoth

\* What the commit of a death (lifecycle.go:657-669) leaves behind.
LEMMA CommitDeathEffect ==
  ASSUME NEW l \in Lifecycle
  PROVE  /\ CommitDeath(l).lifeState = "dead"
         /\ CommitDeath(l).spawnPhase = "idle"
         /\ CommitDeath(l).spawnRequestOrigin = "dead"
         /\ CommitDeath(l).deathReportPending
BY DEF Lifecycle, CommitDeath, InvalidateAutomaticSpawn

\* What the commit of a spawn (client.go:2357-2382) leaves behind.
LEMMA CommitSpawnEffect ==
  ASSUME NEW l \in Lifecycle
  PROVE  /\ CommitSpawn(l).spawnPhase = "idle"
         /\ CommitSpawn(l).spawnRequestOrigin = "spawn_ready"
         /\ ~CommitSpawn(l).deathReportPending
BY DEF Lifecycle, CommitSpawn, InvalidateAutomaticSpawn

\* Nor can a step of a goroutine that holds, takes or releases the mutexes.
LEMMA MutexStepWire ==
  ASSUME TypeOK, WireInv, MutexStep
  PROVE  WireInv'
<1> USE ThreadAssumption
    DEF TypeOK, Lifecycle, LifeState, WireInv, LockDiscipline, HoldsBoth,
        Tracked, Spawned, Goto, BothFree, TakeBoth, ReleaseBoth, lifeVars, lockVars, Thread
<1>1. CASE RecvInitGame
  BY <1>1 DEF RecvInitGame, ResetForConnection, NewPlayerLifecycle
<1>2. ASSUME NEW t \in Thread, LockSpawn(t)
      PROVE  WireInv'
  BY <1>2 DEF LockSpawn
<1>3. ASSUME NEW t \in Thread, NEW result \in WriteResult, WriteSpawn(t, result)
      PROVE  WireInv'
  BY <1>3 DEF WriteSpawn
<1>4. ASSUME NEW t \in Thread, CommitSpawned(t)
      PROVE  WireInv'
  <2> USE <1>4 DEF CommitSpawned
  <2>1. \A u \in Thread \ {t} : pc'[u] = pc[u] /\ pc[u] \notin Tracked
    OBVIOUS
  <2>2. pc'[t] \notin Tracked
    OBVIOUS
  <2>3. /\ lc'.spawnPhase = "idle" /\ lc'.spawnRequestOrigin = "spawn_ready"
        /\ ~lc'.deathReportPending
    BY CommitSpawnEffect
  <2>4. wire' = "spawn"
    OBVIOUS
  <2> QED
    BY <2>1, <2>2, <2>3, <2>4
<1>5. ASSUME NEW t \in Thread, RollbackSpawn(t)
      PROVE  WireInv'
  <2> USE <1>5 DEF RollbackSpawn
  <2>1. SameLife(lc, lc')
    <3>1. CASE lc.spawnPhase = "spawning"
      BY <3>1, SameLifeOperations DEF CanRollbackSpawning
    <3>2. CASE lc.spawnPhase # "spawning"
      BY <3>2, SameLifeOperations DEF CanRollbackSpawning
    <3> QED
      BY <3>1, <3>2
  <2>2. \A u \in Thread \ {t} : pc[u] \notin Tracked
    OBVIOUS
  <2>3. pc'[t] \notin Tracked
    OBVIOUS
  <2>4. \A u \in Thread : pc'[u] \notin Tracked
    BY <2>2, <2>3
  <2> QED
    BY <2>1, <2>4 DEF SameLife
<1>6. ASSUME NEW t \in Thread, LockDeath(t)
      PROVE  WireInv'
  BY <1>6 DEF LockDeath
<1>7. ASSUME NEW t \in Thread, WriteFinalFrame(t)
      PROVE  WireInv'
  BY <1>7 DEF WriteFinalFrame
<1>8. ASSUME NEW t \in Thread, CommitDead(t)
      PROVE  WireInv'
  <2> USE <1>8 DEF CommitDead
  <2>1. \A u \in Thread \ {t} : pc'[u] \notin Tracked
    OBVIOUS
  <2>2. CASE CanCommitDeath(lc)
    <3>1. /\ lc'.lifeState = "dead" /\ lc'.spawnPhase = "idle"
          /\ lc'.spawnRequestOrigin = "dead" /\ lc'.deathReportPending
      BY <2>2, CommitDeathEffect
    <3>2. pc'[t] = "death_write" /\ wire' = "over" /\ UNCHANGED lockVars
      BY <2>2
    <3> QED
      BY <2>1, <3>1, <3>2
  <2>3. CASE ~CanCommitDeath(lc)
    <3>1. pc'[t] \in {"drain", "flush"}
      BY <2>3 DEF AfterDeath
    <3> QED
      BY <2>1, <2>3, <3>1
  <2> QED
    BY <2>2, <2>3
<1>9. ASSUME NEW t \in Thread, NEW result \in WriteResult, WriteDeath(t, result)
      PROVE  WireInv'
  BY <1>9
  DEF WriteDeath, AfterDeath, DeathOnWire, ClearDeathReportRetry,
      WriteResult
<1>10. CASE LockReport
  BY <1>10 DEF LockReport
<1>11. ASSUME NEW result \in WriteResult, WriteReport(result)
       PROVE  WireInv'
  BY <1>11 DEF WriteReport, DeathOnWire, ClearDeathReportRetry, WriteResult
<1>12. ASSUME NEW t \in Thread, LockSync(t)
       PROVE  WireInv'
  BY <1>12 DEF LockSync, AfterSync
<1>13. ASSUME NEW t \in Thread, WriteSync(t)
       PROVE  WireInv'
  BY <1>13 DEF WriteSync, AfterSync
<1> QED
  BY <1>1, <1>2, <1>3, <1>4, <1>5, <1>6, <1>7, <1>8, <1>9, <1>10, <1>11,
     <1>12, <1>13 DEF MutexStep

\* What the holder of deathWireMu relies on holds throughout.
THEOREM WireCorrect == Spec => []WireInv
<1>1. Init => WireInv
  BY ThreadAssumption DEF Init, WireInv, LockDiscipline, HoldsBoth, Spawned,
     NewPlayerLifecycle, Thread
<1>2. TypeOK /\ WireInv /\ [Next]_vars => WireInv'
  BY QuietOrMutexStep, QuietStepWire, MutexStepWire
<1> QED
  BY <1>1, <1>2, TypeCorrect, PTL DEF Spec

\* A spawned client has written an RPC_Spawn for this life, and no RPC_Death
\* after it (sendSpawnAndCommit, completeDeath, retryDeathNotification).
THEOREM SpawnSeen == Spec => []ServerSeesSpawn
<1>1. WireInv => ServerSeesSpawn
  BY DEF WireInv, ServerSeesSpawn
<1> QED
  BY <1>1, WireCorrect, PTL

\* sendSync writes no frame outside a life.
THEOREM FramesWithinLife == Spec => []FrameWithinLife
<1>1. WireInv => FrameWithinLife
  BY DEF WireInv, FrameWithinLife
<1> QED
  BY <1>1, WireCorrect, PTL

\* RPC_Death is written for a told life only, and not again after a success.
THEOREM DeathsWrittenOnce == Spec => []DeathWrittenOnce
<1>1. WireInv => DeathWrittenOnce
  BY DEF WireInv, DeathWrittenOnce, Thread
<1> QED
  BY <1>1, WireCorrect, PTL

-----------------------------------------------------------------------------
(* Refinement *)

\* Every step is a step of the contract, or leaves it alone.
LEMMA ContractStep ==
  ASSUME TypeOK, WireInv, [Next]_vars
  PROVE  [Contract!Next]_<<Spawned(lc), ToldOnWire>>
<1> USE DEF TypeOK, Lifecycle, LifeState, WireInv, ToldOnWire, Spawned
<1> DEFINE Same == UNCHANGED <<Spawned(lc), ToldOnWire>>
<1>1. CASE Quiet
  BY <1>1 DEF Quiet, SameLife
<1>2. CASE RecvInitGame
  <2>1. Contract!Join
    BY <1>2
    DEF Contract!Join, RecvInitGame, ResetForConnection,
        NewPlayerLifecycle
  <2> QED
    BY <2>1 DEF Contract!Next
<1>3. ASSUME NEW t \in Thread, LockSpawn(t) \/ LockDeath(t) \/ WriteFinalFrame(t)
                               \/ LockSync(t) \/ WriteSync(t)
      PROVE  Same
  BY <1>3
  DEF LockSpawn, LockDeath, WriteFinalFrame, LockSync, WriteSync, lifeVars
<1>4. ASSUME NEW t \in Thread, RollbackSpawn(t)
      PROVE  Same
  BY <1>4 DEF RollbackSpawn, CanRollbackSpawning, ReturnToOrigin
<1>5. ASSUME NEW t \in Thread, NEW result \in WriteResult, WriteSpawn(t, result)
      PROVE  Contract!TellSpawn \/ Same
  BY <1>5 DEF WriteSpawn, lifeVars, Contract!TellSpawn
<1>6. ASSUME NEW t \in Thread, CommitSpawned(t)
      PROVE  Contract!Live \/ Same
  BY <1>6
  DEF CommitSpawned, CommitSpawn, InvalidateAutomaticSpawn, Contract!Live
<1>7. ASSUME NEW t \in Thread, CommitDead(t)
      PROVE  Contract!Die \/ Same
  BY <1>7 DEF CommitDead, CommitDeath, CanCommitDeath, InvalidateAutomaticSpawn,
              lifeVars, Contract!Die
<1>8. ASSUME NEW t \in Thread, NEW result \in WriteResult, WriteDeath(t, result)
      PROVE  Contract!TellDeath \/ Same
  BY <1>8 DEF WriteDeath, DeathOnWire, WriteResult, ClearDeathReportRetry,
              Contract!TellDeath
<1>9. CASE LockReport
  BY <1>9 DEF LockReport, lifeVars
<1>10. ASSUME NEW result \in WriteResult, WriteReport(result)
       PROVE  Contract!TellDeath \/ Same
  BY <1>10, ThreadAssumption
  DEF WriteReport, DeathOnWire, WriteResult, ClearDeathReportRetry,
              Contract!TellDeath, Thread
<1> QED
  BY <1>1, <1>2, <1>3, <1>4, <1>5, <1>6, <1>7, <1>8, <1>9, <1>10,
     QuietOrMutexStep DEF MutexStep, Contract!Next

\* The client keeps the contract of LifeContract.
THEOREM ContractKept == Spec => KeepsContract
<1>1. Init => Contract!Init
  BY DEF Init, Contract!Init, Spawned, NewPlayerLifecycle, ToldOnWire
<1>2. TypeOK /\ WireInv /\ [Next]_vars
        => [Contract!Next]_<<Spawned(lc), ToldOnWire>>
  BY ContractStep
<1> QED
  BY <1>1, <1>2, TypeCorrect, WireCorrect, PTL
  DEF Spec, KeepsContract, Contract!Spec
=============================================================================
