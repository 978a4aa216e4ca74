--------------------------- MODULE SpawnLifeProofs ---------------------------
(***************************************************************************)
(* Theorems about the local player's transactions and the goroutines that  *)
(* own them (module SpawnProtocol), for any number of goroutines and       *)
(* without regard to the bounds of the model-checked instances.            *)
(***************************************************************************)
EXTENDS SpawnProtocolProofs

\* Where a goroutine owns the spawning phase, and where a reserved death.
SpawnOwner == {"spawn_lock", "spawn_write", "spawn_commit", "spawn_rollback"}
DeathOwner == {"death_lock", "death_frame", "death_commit"}

\* TransactionConsistent made inductive, as a predicate of playerLifecycle: a
\* transaction of the dead leaves lifeState alone, because RequestSpawn sends
\* them to the direct spawn (client.go:563-573).
Consistent(l) ==
  /\ l.spawnRequested <=> l.spawnPhase = "requesting"
  /\ l.spawnPhase = "requesting" => l.lifeState = "spawn_request_pending"
  /\ l.lifeState = "spawn_request_pending" => l.spawnPhase # "idle"
  /\ Spawned(l) => l.spawnPhase = "idle" /\ ~l.deathReported
  /\ l.lifeState = "dead" <=> l.spawnRequestOrigin = "dead"
  /\ l.lifeState = "dead" => l.deathReported
  /\ l.spawnPhase # "idle" => l.spawnRequestOrigin \in {"spawn_ready", "dead"}
  /\ l.spawnRequestOrigin \in {"class_selection", "spawn_ready", "dead"}
  /\ l.deathInProgress => Spawned(l)

LifeInv ==
  /\ Consistent(lc)
  /\ HealthMatchesLife
  /\ SpawningHasOwner
  /\ ReservedDeathHasOwner

RunLabel == {"read", "denied", "drain", "emit", "policy", "sync", "sync_write",
             "stopped", "death_write"} \cup SpawnOwner \cup DeathOwner

NativeLabel == {"rest", "flush", "policy", "death_write"} \cup DeathOwner

\* Which goroutine runs which part of the code.
PlaceInv ==
  /\ pc[Run] \in RunLabel
  /\ \A t \in Native : pc[t] \in NativeLabel
  /\ \A t \in Thread \ ({Run} \cup Native) :
       pc[t] \notin DeathOwner \cup {"death_write"}

\* OneCurrentWorker and DeadHasWorker made inductive: no worker is ahead of the
\* epoch, and one of the current epoch ends only for the living or a cancelled
\* client.
NoneAhead ==
  \A w \in Worker : LiveWorker(w) => epoch[w] <= lc.autoRespawnEpoch

EndsForTheLiving ==
  \A w \in Worker : pc[w] = "exit" /\ epoch[w] = lc.autoRespawnEpoch =>
    lc.lifeState # "dead" \/ ctxDone

WorkerInv ==
  /\ OneCurrentWorker
  /\ DeadHasWorker
  /\ NoneAhead
  /\ EndsForTheLiving

-----------------------------------------------------------------------------
(* The operations of PlayerLifecycle *)

\* Where its callers use it, every method of playerLifecycle
\* (lifecycle.go:116-235) keeps the fields of a transaction together.
LEMMA ConsistentOperations ==
  ASSUME NEW l \in Lifecycle, Consistent(l)
  PROVE  /\ Consistent(ResetForConnection(l))
         /\ ~Spawned(l) => Consistent(EnterClassSelection(l))
         /\ CanBeginSpawnRequest(l) /\ l.lifeState # "dead" =>
              Consistent(BeginSpawnRequest(l))
         /\ CanBeginDirectSpawn(l) => Consistent(BeginDirectSpawn(l))
         /\ \A outcome \in Outcome :
              CanBeginSpawning(l, outcome) => Consistent(BeginSpawning(l))
         /\ l.spawnPhase # "idle" => Consistent(ReturnToOrigin(l))
         /\ Consistent(CommitSpawn(l))
         /\ Consistent(SetSpawnInfo(l))
         /\ CanReserveDeath(l) => Consistent(ReserveDeath(l))
         /\ Consistent(CommitDeath(l))
         /\ Consistent(ClearDeathReportRetry(l))
         /\ Consistent(StartAutomaticSpawn(l))
         /\ Consistent(StopAutomaticSpawn(l))
         /\ Consistent([l EXCEPT !.respawnCooling = FALSE])
<1> USE DEF Lifecycle, LifeState, SpawnPhase, Consistent, Spawned
<1>1. Consistent(ResetForConnection(l))
  BY DEF ResetForConnection, NewPlayerLifecycle
<1>2. ~Spawned(l) => Consistent(EnterClassSelection(l))
  BY DEF EnterClassSelection, InvalidateAutomaticSpawn
<1>3. CanBeginSpawnRequest(l) /\ l.lifeState # "dead" =>
        Consistent(BeginSpawnRequest(l))
  BY DEF CanBeginSpawnRequest, BeginSpawnRequest
<1>4. CanBeginDirectSpawn(l) => Consistent(BeginDirectSpawn(l))
  BY DEF CanBeginDirectSpawn, BeginDirectSpawn
<1>5. ASSUME NEW outcome \in Outcome, CanBeginSpawning(l, outcome)
      PROVE  Consistent(BeginSpawning(l))
  BY <1>5 DEF CanBeginSpawning, BeginSpawning
<1>6. l.spawnPhase # "idle" => Consistent(ReturnToOrigin(l))
  BY DEF ReturnToOrigin
<1>7. Consistent(CommitSpawn(l))
  BY DEF CommitSpawn, InvalidateAutomaticSpawn
<1>8. Consistent(SetSpawnInfo(l))
  BY DEF SetSpawnInfo, BecomesSpawnReady
<1>9. CanReserveDeath(l) => Consistent(ReserveDeath(l))
  BY DEF CanReserveDeath, ReserveDeath
<1>10. Consistent(CommitDeath(l))
  BY DEF CommitDeath, InvalidateAutomaticSpawn
<1>11. Consistent(ClearDeathReportRetry(l))
  BY DEF ClearDeathReportRetry
<1>12. Consistent(StartAutomaticSpawn(l)) /\ Consistent(StopAutomaticSpawn(l))
  BY DEF StartAutomaticSpawn, StopAutomaticSpawn
<1>13. Consistent([l EXCEPT !.respawnCooling = FALSE])
  OBVIOUS
<1> QED
  BY <1>1, <1>2, <1>3, <1>4, <1>5, <1>6, <1>7, <1>8, <1>9, <1>10, <1>11,
     <1>12, <1>13

-----------------------------------------------------------------------------
(* The steps that take no part in a transaction *)

\* Where the decoder or a native backend is before it runs the respawn policy.
Starting == {"death_write", "drain", "emit", "flush", "policy"}

\* Goroutine t goes on, at a place of its own, without beginning or ending a
\* part that the invariants speak of.
GoesOn(t) ==
  /\ pc[t] \in SpawnOwner <=> pc'[t] \in SpawnOwner
  /\ pc[t] \in DeathOwner <=> pc'[t] \in DeathOwner
  /\ pc[t] # "death_write" /\ pc'[t] # "death_write" /\ pc'[t] # "exit"
  /\ t \in Worker => LiveWorker(t) /\ LiveWorker(t)'
  /\ t = Run => pc'[t] \in RunLabel
  /\ t \in Native => pc'[t] \in NativeLabel
  /\ t \in {Run} \cup Native /\ pc[t] \in Starting => pc'[t] \in Starting

LocalStep ==
  /\ UNCHANGED <<lc, health, epoch>>
  /\ ctxDone => ctxDone'
  /\ \A t \in Thread : pc'[t] = pc[t] \/ GoesOn(t)

\* The steps that change the lifecycle or the health, or end a worker.
LifeStep ==
  \/ RecvInitGame \/ RecvClassDenied \/ RecvSpawnInfo
  \/ \E outcome \in Outcome : RecvRequestSpawn(outcome)
  \/ RejectRequest \/ RecvZeroHealth \/ RecvPositiveHealth \/ ExpireRequest
  \/ \E t \in Api : CallRequestSpawn(t)
  \/ \E t \in Native : ReserveNativeDeath(t)
  \/ \E t \in Thread :
       \/ RollbackRequest(t) \/ CommitSpawned(t) \/ RollbackSpawn(t)
       \/ CommitDead(t) \/ RunPolicy(t)
       \/ \E result \in WriteResult : WriteDeath(t, result)
  \/ \E result \in WriteResult : WriteReport(result)
  \/ \E w \in Worker : \/ WorkerRequestsSpawn(w) \/ WakeWorker(w)
                        \/ StopWorker(w) \/ ExitWorker(w)
  \/ CoolDown

\* Every other step of the program is local.
LEMMA LocalOrLifeStep ==
  ASSUME TypeOK, PlaceInv, [Next]_vars
  PROVE  LocalStep \/ LifeStep
<1> USE ThreadAssumption
    DEF TypeOK, PlaceInv, LocalStep, GoesOn, Goto, LiveWorker, RunLabel,
        NativeLabel,
        SpawnOwner, DeathOwner, Starting, lifeVars, localVars, Thread
<1>1. ASSUME NEW enter \in BOOLEAN, RecvVehicle(enter)
      PROVE  LocalStep
  BY <1>1 DEF RecvVehicle
<1>2. ASSUME RecvPosition
      PROVE  LocalStep
  BY <1>2 DEF RecvPosition
<1>3. ASSUME RecvOther
      PROVE  LocalStep
  BY <1>3 DEF RecvOther
<1>4. ASSUME ConnectionLost
      PROVE  LocalStep
  BY <1>4 DEF ConnectionLost
<1>5. ASSUME Close
      PROVE  LocalStep
  BY <1>5 DEF Close
<1>6. ASSUME DrainBatch
      PROVE  LocalStep
  BY <1>6 DEF DrainBatch
<1>7. ASSUME NEW t \in Thread, Emit(t)
      PROVE  LocalStep
  BY <1>7 DEF Emit, AfterRequest
<1>8. ASSUME NEW t \in Thread, Flush(t)
      PROVE  LocalStep
  BY <1>8 DEF Flush, AfterRequest
<1>9. ASSUME NEW t \in Thread, EmitRequestPending(t)
      PROVE  LocalStep
  BY <1>9 DEF EmitRequestPending
<1>10. ASSUME NEW t \in Thread, NEW result \in WriteResult,
              WriteRequest(t, result)
      PROVE  LocalStep
  BY <1>10 DEF WriteRequest, AfterRequest
<1>11. ASSUME NEW t \in Thread, LockSpawn(t)
      PROVE  LocalStep
  BY <1>11 DEF LockSpawn
<1>12. ASSUME NEW t \in Thread, NEW result \in WriteResult,
              WriteSpawn(t, result)
      PROVE  LocalStep
  BY <1>12 DEF WriteSpawn
<1>13. ASSUME NEW t \in Thread, DrainSpawned(t)
      PROVE  LocalStep
  BY <1>13 DEF DrainSpawned
<1>14. ASSUME NEW t \in Thread, LockDeath(t)
      PROVE  LocalStep
  BY <1>14 DEF LockDeath
<1>15. ASSUME NEW t \in Thread, WriteFinalFrame(t)
      PROVE  LocalStep
  BY <1>15 DEF WriteFinalFrame
<1>16. ASSUME Tick
      PROVE  LocalStep
  BY <1>16 DEF Tick
<1>17. ASSUME StopTicking
      PROVE  LocalStep
  BY <1>17 DEF StopTicking
<1>18. ASSUME SkipReport
      PROVE  LocalStep
  BY <1>18 DEF SkipReport
<1>19. ASSUME RetryReport
      PROVE  LocalStep
  BY <1>19 DEF RetryReport
<1>20. ASSUME LockReport
      PROVE  LocalStep
  BY <1>20 DEF LockReport
<1>21. ASSUME NEW t \in Thread, LockSync(t)
      PROVE  LocalStep
  BY <1>21 DEF LockSync, AfterSync
<1>22. ASSUME NEW t \in Thread, WriteSync(t)
      PROVE  LocalStep
  BY <1>22 DEF WriteSync, AfterSync
<1>23. ASSUME NEW t \in Api, CallSync(t)
      PROVE  LocalStep
  BY <1>23 DEF CallSync
<1>24. CASE UNCHANGED vars
  BY <1>24 DEF vars
<1>25. Results \subseteq WriteResult
  BY DEF Results, WriteResult
<1> QED
  BY <1>1, <1>2, <1>3, <1>4, <1>5, <1>6, <1>7, <1>8, <1>9, <1>10, <1>11, <1>12,
     <1>13, <1>14, <1>15, <1>16, <1>17, <1>18, <1>19, <1>20, <1>21, <1>22,
     <1>23, <1>24, <1>25
  DEF Next, Receive, Call, Step, RunStep, SyncStep, WorkerStep, Terminated,
      LifeStep








\* A local step keeps every invariant of this module.
LEMMA LocalStepKeeps ==
  ASSUME TypeOK, LifeInv, PlaceInv, WorkerInv, LocalStep
  PROVE  LifeInv' /\ PlaceInv' /\ WorkerInv'
<1> USE DEF LocalStep, GoesOn, Thread
<1>1. LifeInv'
  BY DEF LifeInv, Consistent, HealthMatchesLife, SpawningHasOwner,
         ReservedDeathHasOwner, SpawnOwner, DeathOwner, Spawned
<1>2. PlaceInv'
  BY ThreadAssumption DEF PlaceInv
<1>3. OneCurrentWorker'
  BY DEF WorkerInv, OneCurrentWorker, LiveWorker
<1>4. DeadHasWorker'
  BY DEF WorkerInv, DeadHasWorker, Starting
<1>5. WorkerInv'
  BY <1>3, <1>4 DEF WorkerInv, NoneAhead, EndsForTheLiving, LiveWorker
<1> QED
  BY <1>1, <1>2, <1>5

-----------------------------------------------------------------------------
(* Who is where *)

\* RequestSpawn (client.go:548-604) does nothing, begins a direct spawn of the
\* dead, or begins a request of the living.
LEMMA RequestSpawnCases ==
  ASSUME NEW t \in Thread, RequestSpawn(t)
  PROVE  /\ UNCHANGED <<health, batch, epoch, ctxDone>>
         /\ \/ lc' = lc /\ Goto(t, AfterRequest(t))
            \/ /\ CanBeginDirectSpawn(lc)
               /\ lc' = BeginDirectSpawn(lc) /\ Goto(t, "spawn_lock")
            \/ /\ CanBeginSpawnRequest(lc) /\ lc.lifeState # "dead"
               /\ lc' = BeginSpawnRequest(lc) /\ Goto(t, "request_emit")
BY DEF RequestSpawn

\* startAutomaticSpawn (lifecycle.go:426-451): the policy of goroutine t leaves
\* the lifecycle alone, or worker w enters a new epoch.
LEMMA RunPolicyCases ==
  ASSUME TypeOK, NEW t \in Thread, RunPolicy(t)
  PROVE  /\ UNCHANGED <<health, ctxDone>>
         /\ pc[t] = "policy" /\ pc'[t] = AfterPolicy(t)
         /\ \A u \in Thread \ {t} :
              pc'[u] = pc[u] \/ (u \in Worker /\ pc'[u] = "timer")
         /\ \/ /\ UNCHANGED <<lc, epoch>>
               /\ ~(AutomaticPolicy /\ CanStartAutomaticSpawn(lc))
               /\ \A u \in Thread \ {t} : pc'[u] = pc[u]
            \/ \E w \in Worker \ {t} :
                 /\ CanStartAutomaticSpawn(lc) /\ lc' = StartAutomaticSpawn(lc)
                 /\ pc[w] = "off" /\ pc'[w] = "timer"
                 /\ epoch' = [epoch EXCEPT ![w] = lc.autoRespawnEpoch + 1]
                 /\ \A u \in Thread \ {t, w} : pc'[u] = pc[u]
<1> USE DEF TypeOK, RunPolicy, StartWorker, Goto, Thread
<1>1. CASE AutomaticPolicy /\ CanStartAutomaticSpawn(lc)
  <2>1. PICK w \in Worker :
          /\ pc[w] = "off"
          /\ lc' = StartAutomaticSpawn(lc)
          /\ epoch' = [epoch EXCEPT ![w] = lc.autoRespawnEpoch + 1]
          /\ pc' = [pc EXCEPT ![w] = "timer", ![t] = AfterPolicy(t)]
    BY <1>1
  <2>2. w # t
    BY <2>1
  <2> QED
    BY <1>1, <2>1, <2>2
<1>2. CASE ~(AutomaticPolicy /\ CanStartAutomaticSpawn(lc))
  BY <1>2
<1> QED
  BY <1>1, <1>2

\* The steps of a transaction keep every goroutine in its part of the code.
LEMMA LifeStepPlaces ==
  ASSUME TypeOK, PlaceInv, LifeStep
  PROVE  PlaceInv'
<1> USE ThreadAssumption
    DEF TypeOK, PlaceInv, Goto, RunLabel, NativeLabel, SpawnOwner, DeathOwner,
        Thread
<1>1. ASSUME RecvInitGame
      PROVE  PlaceInv'
  BY <1>1 DEF RecvInitGame
<1>2. ASSUME RecvClassDenied
      PROVE  PlaceInv'
  BY <1>2 DEF RecvClassDenied
<1>3. ASSUME RecvSpawnInfo
      PROVE  PlaceInv'
  BY <1>3 DEF RecvSpawnInfo
<1>4. ASSUME NEW outcome \in Outcome, RecvRequestSpawn(outcome)
      PROVE  PlaceInv'
  BY <1>4 DEF RecvRequestSpawn
<1>5. ASSUME RejectRequest
      PROVE  PlaceInv'
  BY <1>5 DEF RejectRequest
<1>6. ASSUME RecvZeroHealth
      PROVE  PlaceInv'
  BY <1>6 DEF RecvZeroHealth
<1>7. ASSUME RecvPositiveHealth
      PROVE  PlaceInv'
  BY <1>7 DEF RecvPositiveHealth
<1>8. ASSUME ExpireRequest
      PROVE  PlaceInv'
  BY <1>8 DEF ExpireRequest
<1>9. ASSUME NEW t \in Api, CallRequestSpawn(t)
      PROVE  PlaceInv'
  <2>1. t \in Thread /\ RequestSpawn(t)
    BY <1>9 DEF CallRequestSpawn
  <2>2. PICK label \in {"rest", "timer", "spawn_lock", "request_emit"} :
          Goto(t, label)
    BY <2>1, RequestSpawnCases DEF AfterRequest
  <2>3. label \notin DeathOwner \cup {"death_write"}
    OBVIOUS
  <2> QED
    BY <2>2, <2>3
<1>10. ASSUME NEW t \in Native, ReserveNativeDeath(t)
      PROVE  PlaceInv'
  BY <1>10 DEF ReserveNativeDeath
<1>11. ASSUME NEW t \in Thread, RollbackRequest(t)
      PROVE  PlaceInv'
  BY <1>11 DEF RollbackRequest, AfterRequest
<1>12. ASSUME NEW t \in Thread, CommitSpawned(t)
      PROVE  PlaceInv'
  BY <1>12 DEF CommitSpawned
<1>13. ASSUME NEW t \in Thread, RollbackSpawn(t)
      PROVE  PlaceInv'
  BY <1>13 DEF RollbackSpawn
<1>14. ASSUME NEW t \in Thread, CommitDead(t)
      PROVE  PlaceInv'
  BY <1>14 DEF CommitDead, AfterDeath
<1>15. ASSUME NEW t \in Thread, RunPolicy(t)
      PROVE  PlaceInv'
  <2>1. pc'[t] = AfterPolicy(t)
    BY <1>15, RunPolicyCases
  <2>2. \A u \in Thread \ {t} :
          pc'[u] = pc[u] \/ (u \in Worker /\ pc'[u] = "timer")
    BY <1>15, RunPolicyCases
  <2>3. /\ t = Run => pc'[t] = "read"
        /\ t \in Native => pc'[t] = "rest"
        /\ t \notin {Run} \cup Native => pc'[t] = "off"
    BY <2>1 DEF AfterPolicy
  <2>4. pc'[Run] \in RunLabel
    BY <2>2, <2>3
  <2>5. \A u \in Native : pc'[u] \in NativeLabel
    BY <2>2, <2>3
  <2>6. \A u \in Thread \ ({Run} \cup Native) :
          pc'[u] \notin DeathOwner \cup {"death_write"}
    BY <2>2, <2>3
  <2> QED
    BY <2>4, <2>5, <2>6
<1>16. ASSUME NEW t \in Thread, NEW result \in WriteResult,
              WriteDeath(t, result)
      PROVE  PlaceInv'
  BY <1>16 DEF WriteDeath, AfterDeath
<1>17. ASSUME NEW result \in WriteResult, WriteReport(result)
      PROVE  PlaceInv'
  BY <1>17 DEF WriteReport
<1>18. ASSUME NEW t \in Worker, WorkerRequestsSpawn(t)
      PROVE  PlaceInv'
  <2>1. t \in Thread /\ RequestSpawn(t)
    BY <1>18 DEF WorkerRequestsSpawn
  <2>2. PICK label \in {"rest", "timer", "spawn_lock", "request_emit"} :
          Goto(t, label)
    BY <2>1, RequestSpawnCases DEF AfterRequest
  <2>3. label \notin DeathOwner \cup {"death_write"}
    OBVIOUS
  <2> QED
    BY <2>2, <2>3
<1>19. ASSUME NEW t \in Worker, WakeWorker(t)
      PROVE  PlaceInv'
  BY <1>19 DEF WakeWorker
<1>20. ASSUME NEW t \in Worker, StopWorker(t)
      PROVE  PlaceInv'
  BY <1>20 DEF StopWorker
<1>21. ASSUME NEW t \in Worker, ExitWorker(t)
      PROVE  PlaceInv'
  BY <1>21 DEF ExitWorker
<1>22. ASSUME CoolDown
      PROVE  PlaceInv'
  BY <1>22 DEF CoolDown
<1> QED
  BY <1>1, <1>2, <1>3, <1>4, <1>5, <1>6, <1>7, <1>8, <1>9, <1>10, <1>11,
     <1>12, <1>13, <1>14, <1>15, <1>16, <1>17, <1>18, <1>19, <1>20, <1>21,
     <1>22 DEF LifeStep

-----------------------------------------------------------------------------
(* The lives and their owners *)

\* What the methods of playerLifecycle do to the phase, to a reserved death and
\* to the life state.
LEMMA LifeEffects ==
  ASSUME NEW l \in Lifecycle, Consistent(l)
  PROVE  /\ LET m == ResetForConnection(l) IN
              m.spawnPhase = "idle" /\ ~m.deathInProgress
              /\ m.lifeState = "class_selection"
         /\ LET m == EnterClassSelection(l) IN
              /\ m.spawnPhase = "idle" /\ m.deathInProgress = l.deathInProgress
              /\ m.lifeState = "class_selection"
         /\ LET m == SetSpawnInfo(l) IN
              /\ m.spawnPhase = l.spawnPhase
              /\ m.deathInProgress = l.deathInProgress
              /\ m.lifeState = l.lifeState \/ m.lifeState = "spawn_ready"
         /\ LET m == BeginSpawnRequest(l) IN
              /\ m.spawnPhase = "requesting"
              /\ m.deathInProgress = l.deathInProgress
              /\ m.lifeState = "spawn_request_pending"
         /\ \A m \in {BeginDirectSpawn(l), BeginSpawning(l)} :
              /\ m.spawnPhase = "spawning"
              /\ m.deathInProgress = l.deathInProgress
              /\ m.lifeState = l.lifeState
         /\ LET m == ReturnToOrigin(l) IN
              /\ m.spawnPhase = "idle" /\ m.deathInProgress = l.deathInProgress
              /\ m.lifeState \in {"class_selection", "spawn_ready", "dead"}
              /\ m.lifeState = "dead" <=> l.lifeState = "dead"
         /\ LET m == CommitSpawn(l) IN
              /\ m.spawnPhase = "idle" /\ ~m.deathInProgress
              /\ m.lifeState = "spawned"
         /\ LET m == ReserveDeath(l) IN
              /\ m.spawnPhase = l.spawnPhase /\ m.deathInProgress
              /\ m.lifeState = l.lifeState
         /\ LET m == CommitDeath(l) IN
              /\ m.spawnPhase = "idle" /\ ~m.deathInProgress
              /\ m.lifeState = "dead"
         /\ \A m \in {ClearDeathReportRetry(l), StartAutomaticSpawn(l),
                      StopAutomaticSpawn(l),
                      [l EXCEPT !.respawnCooling = FALSE]} :
              /\ m.spawnPhase = l.spawnPhase
              /\ m.deathInProgress = l.deathInProgress
              /\ m.lifeState = l.lifeState
BY DEF Lifecycle, Consistent, ResetForConnection, NewPlayerLifecycle,
       EnterClassSelection, InvalidateAutomaticSpawn, SetSpawnInfo,
       BecomesSpawnReady, BeginSpawnRequest, BeginDirectSpawn, BeginSpawning,
       ReturnToOrigin, CommitSpawn, ReserveDeath, CommitDeath,
       ClearDeathReportRetry, StartAutomaticSpawn, StopAutomaticSpawn

\* A step of a transaction keeps the lives and their owners.
LEMMA LifeStepLives ==
  ASSUME TypeOK, LifeInv, PlaceInv, LifeStep
  PROVE  LifeInv'
<1>0. /\ lc \in Lifecycle /\ Consistent(lc) /\ pc \in [Thread -> Label]
      /\ HealthMatchesLife /\ SpawningHasOwner /\ ReservedDeathHasOwner
      /\ Run \in Thread /\ Sync \in Thread
      /\ Api \subseteq Thread /\ Native \subseteq Thread
      /\ Worker \subseteq Thread
  BY DEF TypeOK, LifeInv, Thread
<1>1. ASSUME RecvInitGame
      PROVE  LifeInv'
  <2> USE <1>1 DEF RecvInitGame
  <2>1. Consistent(lc)'
    BY <1>0, ConsistentOperations DEF lifeVars
  <2>2. HealthMatchesLife'
    BY <1>0, LifeEffects DEF HealthMatchesLife, Consistent, Spawned, lifeVars
  <2>3. SpawningHasOwner'
    BY <1>0, LifeEffects DEF SpawningHasOwner, Goto, lifeVars
  <2>4. ReservedDeathHasOwner'
    BY <1>0, LifeEffects
    DEF ReservedDeathHasOwner, Goto, Consistent, Spawned, lifeVars
  <2> QED
    BY <2>1, <2>2, <2>3, <2>4 DEF LifeInv
<1>2. ASSUME RecvClassDenied
      PROVE  LifeInv'
  <2> USE <1>2 DEF RecvClassDenied
  <2>1. Consistent(lc)'
    BY <1>0, ConsistentOperations DEF lifeVars
  <2>2. HealthMatchesLife'
    BY <1>0, LifeEffects DEF HealthMatchesLife, Consistent, Spawned, lifeVars
  <2>3. SpawningHasOwner'
    BY <1>0, LifeEffects DEF SpawningHasOwner, Goto, lifeVars
  <2>4. ReservedDeathHasOwner'
    BY <1>0, LifeEffects
    DEF ReservedDeathHasOwner, Goto, Consistent, Spawned, lifeVars
  <2> QED
    BY <2>1, <2>2, <2>3, <2>4 DEF LifeInv
<1>3. ASSUME RecvSpawnInfo
      PROVE  LifeInv'
  <2> USE <1>3 DEF RecvSpawnInfo
  <2>1. Consistent(lc)'
    BY <1>0, ConsistentOperations DEF lifeVars
  <2>2. HealthMatchesLife'
    BY <1>0, LifeEffects DEF HealthMatchesLife, Consistent, Spawned, lifeVars
  <2>3. SpawningHasOwner'
    BY <1>0, LifeEffects DEF SpawningHasOwner, Goto, lifeVars
  <2>4. ReservedDeathHasOwner'
    BY <1>0, LifeEffects
    DEF ReservedDeathHasOwner, Goto, Consistent, Spawned, lifeVars
  <2> QED
    BY <2>1, <2>2, <2>3, <2>4 DEF LifeInv
<1>4. ASSUME NEW outcome \in Outcome, RecvRequestSpawn(outcome)
      PROVE  LifeInv'
  <2> USE <1>4 DEF RecvRequestSpawn
  <2>1. Consistent(lc)'
    BY <1>0, ConsistentOperations DEF lifeVars
  <2>2. HealthMatchesLife'
    BY <1>0, LifeEffects DEF HealthMatchesLife, Consistent, Spawned, lifeVars
  <2>3. SpawningHasOwner'
    BY <1>0, LifeEffects DEF SpawningHasOwner, Goto, lifeVars
  <2>4. ReservedDeathHasOwner'
    BY <1>0, LifeEffects
    DEF ReservedDeathHasOwner, Goto, Consistent, Spawned, lifeVars
  <2> QED
    BY <2>1, <2>2, <2>3, <2>4 DEF LifeInv
<1>5. ASSUME RejectRequest
      PROVE  LifeInv'
  <2> USE <1>5 DEF RejectRequest
  <2>1. Consistent(lc)'
    BY <1>0, ConsistentOperations DEF lifeVars, CanRejectSpawnRequest
  <2>2. HealthMatchesLife'
    BY <1>0, LifeEffects
    DEF HealthMatchesLife, Consistent, Spawned, lifeVars, CanRejectSpawnRequest
  <2>3. SpawningHasOwner'
    BY <1>0, LifeEffects
    DEF SpawningHasOwner, Goto, lifeVars, CanRejectSpawnRequest
  <2>4. ReservedDeathHasOwner'
    BY <1>0, LifeEffects
    DEF ReservedDeathHasOwner, Goto, Consistent, Spawned, lifeVars,
        CanRejectSpawnRequest
  <2> QED
    BY <2>1, <2>2, <2>3, <2>4 DEF LifeInv
<1>6. ASSUME RecvZeroHealth
      PROVE  LifeInv'
  <2> USE <1>6 DEF RecvZeroHealth
  <2>1. Consistent(lc)'
    BY <1>0, ConsistentOperations DEF lifeVars, CanReserveDeath
  <2>2. HealthMatchesLife'
    BY <1>0, LifeEffects
    DEF HealthMatchesLife, Consistent, Spawned, lifeVars, CanReserveDeath
  <2>3. SpawningHasOwner'
    BY <1>0, LifeEffects DEF SpawningHasOwner, Goto, lifeVars, CanReserveDeath
  <2>4. ReservedDeathHasOwner'
    BY <1>0, LifeEffects
    DEF ReservedDeathHasOwner, Goto, Consistent, Spawned, lifeVars,
        CanReserveDeath
  <2> QED
    BY <2>1, <2>2, <2>3, <2>4 DEF LifeInv
<1>7. ASSUME RecvPositiveHealth
      PROVE  LifeInv'
  <2> USE <1>7 DEF RecvPositiveHealth
  <2>1. Consistent(lc)'
    BY <1>0, ConsistentOperations DEF lifeVars
  <2>2. HealthMatchesLife'
    BY <1>0, LifeEffects DEF HealthMatchesLife, Consistent, Spawned, lifeVars
  <2>3. SpawningHasOwner'
    BY <1>0, LifeEffects DEF SpawningHasOwner, Goto, lifeVars
  <2>4. ReservedDeathHasOwner'
    BY <1>0, LifeEffects
    DEF ReservedDeathHasOwner, Goto, Consistent, Spawned, lifeVars
  <2> QED
    BY <2>1, <2>2, <2>3, <2>4 DEF LifeInv
<1>8. ASSUME ExpireRequest
      PROVE  LifeInv'
  <2> USE <1>8 DEF ExpireRequest
  <2>1. Consistent(lc)'
    BY <1>0, ConsistentOperations DEF lifeVars, CanRejectSpawnRequest
  <2>2. HealthMatchesLife'
    BY <1>0, LifeEffects
    DEF HealthMatchesLife, Consistent, Spawned, lifeVars, CanRejectSpawnRequest
  <2>3. SpawningHasOwner'
    BY <1>0, LifeEffects
    DEF SpawningHasOwner, Goto, lifeVars, CanRejectSpawnRequest
  <2>4. ReservedDeathHasOwner'
    BY <1>0, LifeEffects
    DEF ReservedDeathHasOwner, Goto, Consistent, Spawned, lifeVars,
        CanRejectSpawnRequest
  <2> QED
    BY <2>1, <2>2, <2>3, <2>4 DEF LifeInv
<1>9. ASSUME NEW t \in Api, CallRequestSpawn(t)
      PROVE  LifeInv'
  <2>1. t \in Thread /\ RequestSpawn(t) /\ pc[t] \in {"rest", "call"}
    BY <1>0, <1>9 DEF CallRequestSpawn
  <2>2. Consistent(lc)'
    BY <1>0, <2>1, RequestSpawnCases, ConsistentOperations
  <2>3. HealthMatchesLife'
    BY <1>0, <2>1, RequestSpawnCases, LifeEffects
    DEF HealthMatchesLife, Spawned, CanBeginDirectSpawn, CanBeginSpawnRequest,
        Consistent
  <2>4. SpawningHasOwner'
    BY <1>0, <2>1, RequestSpawnCases, LifeEffects DEF SpawningHasOwner, Goto
  <2>5. ReservedDeathHasOwner'
    BY <1>0, <2>1, RequestSpawnCases, LifeEffects
    DEF ReservedDeathHasOwner, Goto
  <2> QED
    BY <2>2, <2>3, <2>4, <2>5 DEF LifeInv
<1>10. ASSUME NEW t \in Native, ReserveNativeDeath(t)
      PROVE  LifeInv'
  <2> USE <1>10 DEF ReserveNativeDeath
  <2>1. Consistent(lc)'
    BY <1>0, ConsistentOperations DEF lifeVars, CanReserveDeath
  <2>2. HealthMatchesLife'
    BY <1>0, LifeEffects
    DEF HealthMatchesLife, Consistent, Spawned, lifeVars, CanReserveDeath
  <2>3. SpawningHasOwner'
    BY <1>0, LifeEffects DEF SpawningHasOwner, Goto, lifeVars, CanReserveDeath
  <2>4. ReservedDeathHasOwner'
    BY <1>0, LifeEffects
    DEF ReservedDeathHasOwner, Goto, Consistent, Spawned, lifeVars,
        CanReserveDeath
  <2> QED
    BY <2>1, <2>2, <2>3, <2>4 DEF LifeInv
<1>11. ASSUME NEW t \in Thread, RollbackRequest(t)
      PROVE  LifeInv'
  <2> USE <1>11 DEF RollbackRequest
  <2>1. Consistent(lc)'
    BY <1>0, ConsistentOperations DEF lifeVars, CanRollbackSpawnRequest
  <2>2. HealthMatchesLife'
    BY <1>0, LifeEffects
    DEF HealthMatchesLife, Consistent, Spawned, lifeVars,
        CanRollbackSpawnRequest
  <2>3. SpawningHasOwner'
    BY <1>0, LifeEffects
    DEF SpawningHasOwner, Goto, lifeVars, CanRollbackSpawnRequest
  <2>4. ReservedDeathHasOwner'
    BY <1>0, LifeEffects
    DEF ReservedDeathHasOwner, Goto, Consistent, Spawned, lifeVars,
        CanRollbackSpawnRequest
  <2> QED
    BY <2>1, <2>2, <2>3, <2>4 DEF LifeInv
<1>12. ASSUME NEW t \in Thread, CommitSpawned(t)
      PROVE  LifeInv'
  <2> USE <1>12 DEF CommitSpawned
  <2>1. Consistent(lc)'
    BY <1>0, ConsistentOperations DEF lifeVars
  <2>2. HealthMatchesLife'
    BY <1>0, LifeEffects DEF HealthMatchesLife, Consistent, Spawned, lifeVars
  <2>3. SpawningHasOwner'
    BY <1>0, LifeEffects DEF SpawningHasOwner, Goto, lifeVars
  <2>4. ReservedDeathHasOwner'
    BY <1>0, LifeEffects
    DEF ReservedDeathHasOwner, Goto, Consistent, Spawned, lifeVars
  <2> QED
    BY <2>1, <2>2, <2>3, <2>4 DEF LifeInv
<1>13. ASSUME NEW t \in Thread, RollbackSpawn(t)
      PROVE  LifeInv'
  <2> USE <1>13 DEF RollbackSpawn
  <2>1. Consistent(lc)'
    BY <1>0, ConsistentOperations DEF lifeVars, CanRollbackSpawning
  <2>2. HealthMatchesLife'
    BY <1>0, LifeEffects
    DEF HealthMatchesLife, Consistent, Spawned, lifeVars, CanRollbackSpawning
  <2>3. SpawningHasOwner'
    BY <1>0, LifeEffects
    DEF SpawningHasOwner, Goto, lifeVars, CanRollbackSpawning
  <2>4. ReservedDeathHasOwner'
    BY <1>0, LifeEffects
    DEF ReservedDeathHasOwner, Goto, Consistent, Spawned, lifeVars,
        CanRollbackSpawning
  <2> QED
    BY <2>1, <2>2, <2>3, <2>4 DEF LifeInv
<1>14. ASSUME NEW t \in Thread, CommitDead(t)
      PROVE  LifeInv'
  <2> USE <1>14 DEF CommitDead
  <2>1. Consistent(lc)'
    BY <1>0, ConsistentOperations DEF lifeVars, CanCommitDeath
  <2>2. HealthMatchesLife'
    BY <1>0, LifeEffects
    DEF HealthMatchesLife, Consistent, Spawned, lifeVars, CanCommitDeath
  <2>3. SpawningHasOwner'
    BY <1>0, LifeEffects DEF SpawningHasOwner, Goto, lifeVars, CanCommitDeath
  <2>4. ReservedDeathHasOwner'
    BY <1>0, LifeEffects
    DEF ReservedDeathHasOwner, Goto, Consistent, Spawned, lifeVars,
        CanCommitDeath
  <2> QED
    BY <2>1, <2>2, <2>3, <2>4 DEF LifeInv
<1>15. ASSUME NEW t \in Thread, RunPolicy(t)
      PROVE  LifeInv'
  <2>1. RunPolicy(t)
    BY <1>15
  <2>2. Consistent(lc)'
    BY <1>0, <2>1, RunPolicyCases, ConsistentOperations
  <2>3. HealthMatchesLife'
    BY <1>0, <2>1, RunPolicyCases, LifeEffects
    DEF HealthMatchesLife, Spawned
  <2>4. SpawningHasOwner'
    BY <1>0, <2>1, RunPolicyCases, LifeEffects DEF SpawningHasOwner, Goto
  <2>5. ReservedDeathHasOwner'
    BY <1>0, <2>1, RunPolicyCases, LifeEffects DEF ReservedDeathHasOwner, Goto
  <2> QED
    BY <2>2, <2>3, <2>4, <2>5 DEF LifeInv
<1>16. ASSUME NEW t \in Thread, NEW result \in WriteResult,
              WriteDeath(t, result)
      PROVE  LifeInv'
  <2> USE <1>16 DEF WriteDeath
  <2>1. Consistent(lc)'
    BY <1>0, ConsistentOperations DEF lifeVars
  <2>2. HealthMatchesLife'
    BY <1>0, LifeEffects DEF HealthMatchesLife, Consistent, Spawned, lifeVars
  <2>3. SpawningHasOwner'
    BY <1>0, LifeEffects DEF SpawningHasOwner, Goto, lifeVars
  <2>4. ReservedDeathHasOwner'
    BY <1>0, LifeEffects
    DEF ReservedDeathHasOwner, Goto, Consistent, Spawned, lifeVars
  <2> QED
    BY <2>1, <2>2, <2>3, <2>4 DEF LifeInv
<1>17. ASSUME NEW result \in WriteResult, WriteReport(result)
      PROVE  LifeInv'
  <2> USE <1>17 DEF WriteReport
  <2>1. Consistent(lc)'
    BY <1>0, ConsistentOperations DEF lifeVars
  <2>2. HealthMatchesLife'
    BY <1>0, LifeEffects DEF HealthMatchesLife, Consistent, Spawned, lifeVars
  <2>3. SpawningHasOwner'
    BY <1>0, LifeEffects DEF SpawningHasOwner, Goto, lifeVars
  <2>4. ReservedDeathHasOwner'
    BY <1>0, LifeEffects
    DEF ReservedDeathHasOwner, Goto, Consistent, Spawned, lifeVars
  <2> QED
    BY <2>1, <2>2, <2>3, <2>4 DEF LifeInv
<1>18. ASSUME NEW t \in Worker, WorkerRequestsSpawn(t)
      PROVE  LifeInv'
  <2>1. t \in Thread /\ RequestSpawn(t) /\ pc[t] \in {"rest", "call"}
    BY <1>0, <1>18 DEF WorkerRequestsSpawn
  <2>2. Consistent(lc)'
    BY <1>0, <2>1, RequestSpawnCases, ConsistentOperations
  <2>3. HealthMatchesLife'
    BY <1>0, <2>1, RequestSpawnCases, LifeEffects
    DEF HealthMatchesLife, Spawned, CanBeginDirectSpawn, CanBeginSpawnRequest,
        Consistent
  <2>4. SpawningHasOwner'
    BY <1>0, <2>1, RequestSpawnCases, LifeEffects DEF SpawningHasOwner, Goto
  <2>5. ReservedDeathHasOwner'
    BY <1>0, <2>1, RequestSpawnCases, LifeEffects
    DEF ReservedDeathHasOwner, Goto
  <2> QED
    BY <2>2, <2>3, <2>4, <2>5 DEF LifeInv
<1>19. ASSUME NEW t \in Worker, WakeWorker(t)
      PROVE  LifeInv'
  BY <1>0, <1>19
  DEF WakeWorker, Goto, LifeInv, Consistent, HealthMatchesLife,
      SpawningHasOwner,
      ReservedDeathHasOwner, Spawned, lifeVars
<1>20. ASSUME NEW t \in Worker, StopWorker(t)
      PROVE  LifeInv'
  BY <1>0, <1>20
  DEF StopWorker, Goto, LifeInv, Consistent, HealthMatchesLife,
      SpawningHasOwner,
      ReservedDeathHasOwner, Spawned, lifeVars
<1>21. ASSUME NEW t \in Worker, ExitWorker(t)
      PROVE  LifeInv'
  <2> USE <1>21 DEF ExitWorker
  <2>1. Consistent(lc)'
    BY <1>0, ConsistentOperations DEF lifeVars
  <2>2. HealthMatchesLife'
    BY <1>0, LifeEffects DEF HealthMatchesLife, Consistent, Spawned, lifeVars
  <2>3. SpawningHasOwner'
    BY <1>0, LifeEffects DEF SpawningHasOwner, Goto, lifeVars
  <2>4. ReservedDeathHasOwner'
    BY <1>0, LifeEffects
    DEF ReservedDeathHasOwner, Goto, Consistent, Spawned, lifeVars
  <2> QED
    BY <2>1, <2>2, <2>3, <2>4 DEF LifeInv
<1>22. ASSUME CoolDown
      PROVE  LifeInv'
  <2> USE <1>22 DEF CoolDown
  <2>1. Consistent(lc)'
    BY <1>0, ConsistentOperations DEF lifeVars
  <2>2. HealthMatchesLife'
    BY <1>0, LifeEffects DEF HealthMatchesLife, Consistent, Spawned, lifeVars
  <2>3. SpawningHasOwner'
    BY <1>0, LifeEffects DEF SpawningHasOwner, Goto, lifeVars
  <2>4. ReservedDeathHasOwner'
    BY <1>0, LifeEffects
    DEF ReservedDeathHasOwner, Goto, Consistent, Spawned, lifeVars
  <2> QED
    BY <2>1, <2>2, <2>3, <2>4 DEF LifeInv
<1> QED
  BY <1>1, <1>2, <1>3, <1>4, <1>5, <1>6, <1>7, <1>8, <1>9, <1>10, <1>11,
     <1>12, <1>13, <1>14, <1>15, <1>16, <1>17, <1>18, <1>19, <1>20, <1>21,
     <1>22 DEF LifeStep




-----------------------------------------------------------------------------
(* The automatic respawn workers *)

\* A method that neither starts nor stops a worker, nor kills the player.
SameEpoch(l, m) ==
  /\ m.autoRespawnEpoch = l.autoRespawnEpoch
  /\ m.autoRespawnRunning = l.autoRespawnRunning
  /\ m.lifeState = "dead" => l.lifeState = "dead"

\* A method that makes every worker stale (invalidateAutomaticSpawn).
NewEpoch(l, m) ==
  m.autoRespawnEpoch = l.autoRespawnEpoch + 1 /\ ~m.autoRespawnRunning

\* What the methods of playerLifecycle do to the workers' epoch.
LEMMA EpochEffects ==
  ASSUME NEW l \in Lifecycle, Consistent(l)
  PROVE  /\ \A m \in {SetSpawnInfo(l), BeginSpawnRequest(l),
                      BeginDirectSpawn(l), BeginSpawning(l),
                      ReturnToOrigin(l), ReserveDeath(l),
                      ClearDeathReportRetry(l),
                      [l EXCEPT !.respawnCooling = FALSE]} : SameEpoch(l, m)
         /\ \A m \in {ResetForConnection(l), EnterClassSelection(l),
                      CommitSpawn(l), CommitDeath(l)} : NewEpoch(l, m)
BY DEF Lifecycle, Consistent, ResetForConnection, NewPlayerLifecycle,
       EnterClassSelection, InvalidateAutomaticSpawn, SetSpawnInfo,
       BecomesSpawnReady, BeginSpawnRequest, BeginDirectSpawn, BeginSpawning,
       ReturnToOrigin, CommitSpawn, ReserveDeath, CommitDeath,
       ClearDeathReportRetry, SameEpoch, NewEpoch

\* A step that starts and ends no worker, and takes no goroutine out of the
\* places from which it will run the policy.
WorkersGoOn ==
  /\ UNCHANGED <<epoch, ctxDone>>
  /\ \A w \in Worker : \/ pc'[w] = pc[w]
                       \/ LiveWorker(w) /\ LiveWorker(w)' /\ pc'[w] # "exit"
  /\ \A t \in {Run} \cup Native : pc[t] \in Starting => pc'[t] \in Starting

\* Such a step may keep the epoch, or end it unless it leaves a dead player
\* without a goroutine that will start a worker.
LEMMA WorkersKept ==
  ASSUME TypeOK, WorkerInv, WorkersGoOn,
         \/ SameEpoch(lc, lc')
         \/ /\ NewEpoch(lc, lc')
            /\ lc'.lifeState = "dead" =>
                 \E t \in {Run} \cup Native : pc'[t] = "death_write"
  PROVE  WorkerInv'
<1> USE DEF WorkerInv
<1>1. /\ lc \in Lifecycle /\ UNCHANGED ctxDone
      /\ \A w \in Worker :
           /\ (LiveWorker(w)' <=> LiveWorker(w)) /\ epoch'[w] = epoch[w]
           /\ pc'[w] = "exit" => pc[w] = "exit"
           /\ LiveWorker(w) => epoch[w] <= lc.autoRespawnEpoch
           /\ epoch[w] \in Nat
  BY DEF WorkersGoOn, NoneAhead, TypeOK, Thread, LiveWorker
<1>2. lc.autoRespawnEpoch \in Nat
  BY <1>1 DEF Lifecycle
<1>3. CASE SameEpoch(lc, lc')
  <2>1. OneCurrentWorker'
    BY <1>1, <1>3 DEF OneCurrentWorker, SameEpoch
  <2>2. DeadHasWorker'
    BY <1>1, <1>3 DEF DeadHasWorker, SameEpoch, WorkersGoOn, Starting
  <2>3. NoneAhead'
    BY <1>1, <1>3 DEF NoneAhead, SameEpoch
  <2>4. EndsForTheLiving'
    BY <1>1, <1>3 DEF EndsForTheLiving, SameEpoch
  <2> QED
    BY <2>1, <2>2, <2>3, <2>4
<1>4. CASE /\ NewEpoch(lc, lc')
           /\ lc'.lifeState = "dead" =>
                \E t \in {Run} \cup Native : pc'[t] = "death_write"
  <2>1. \A w \in Worker : LiveWorker(w) => epoch[w] < lc'.autoRespawnEpoch
    BY <1>1, <1>2, <1>4 DEF NewEpoch
  <2>2. OneCurrentWorker'
    <3>1. \A w \in Worker : LiveWorker(w)' => epoch'[w] # lc'.autoRespawnEpoch
      BY <1>1, <1>2, <1>4, <2>1 DEF NewEpoch
    <3>2. ~lc'.autoRespawnRunning
      BY <1>4 DEF NewEpoch
    <3> QED
      BY <1>1, <3>1, <3>2 DEF OneCurrentWorker
  <2>3. DeadHasWorker'
    BY <1>4 DEF DeadHasWorker
  <2>4. NoneAhead'
    BY <1>1, <1>2, <1>4, <2>1 DEF NoneAhead, NewEpoch
  <2>5. \A w \in Worker : pc'[w] = "exit" => epoch'[w] # lc'.autoRespawnEpoch
    BY <1>1, <1>2, <1>4, <2>1 DEF NewEpoch, LiveWorker
  <2>6. EndsForTheLiving'
    BY <2>5 DEF EndsForTheLiving
  <2> QED
    BY <2>2, <2>3, <2>4, <2>6
<1> QED
  BY <1>3, <1>4

\* The policy of a goroutine starts a worker of a new epoch, unless one runs or
\* the player is not dead (startAutomaticSpawn).
LEMMA PolicyKeepsWorkers ==
  ASSUME TypeOK, WorkerInv, NEW t \in Thread, RunPolicy(t)
  PROVE  WorkerInv'
<1> USE DEF WorkerInv
<1>0. /\ UNCHANGED ctxDone
      /\ pc[t] = "policy" /\ pc'[t] = AfterPolicy(t)
  BY RunPolicyCases
<1>1. t \in Worker => ~LiveWorker(t) /\ ~LiveWorker(t)' /\ pc'[t] # "exit"
  BY <1>0, ThreadAssumption DEF LiveWorker, AfterPolicy
<1>2. CASE /\ UNCHANGED <<lc, epoch>>
           /\ ~(AutomaticPolicy /\ CanStartAutomaticSpawn(lc))
           /\ \A u \in Thread \ {t} : pc'[u] = pc[u]
  <2>1. \A w \in Worker : /\ LiveWorker(w)' <=> LiveWorker(w)
                          /\ pc'[w] = "exit" => pc[w] = "exit"
    BY <1>1, <1>2 DEF LiveWorker, Thread
  <2>2. OneCurrentWorker'
    BY <1>2, <2>1 DEF OneCurrentWorker
  <2>3. DeadHasWorker'
    BY <1>0, <1>2 DEF DeadHasWorker, CanStartAutomaticSpawn
  <2>4. NoneAhead'
    BY <1>2, <2>1 DEF NoneAhead
  <2>5. EndsForTheLiving'
    BY <1>0, <1>2, <2>1 DEF EndsForTheLiving
  <2> QED
    BY <2>2, <2>3, <2>4, <2>5
<1>3. CASE \E w \in Worker \ {t} :
             /\ CanStartAutomaticSpawn(lc) /\ lc' = StartAutomaticSpawn(lc)
             /\ pc[w] = "off" /\ pc'[w] = "timer"
             /\ epoch' = [epoch EXCEPT ![w] = lc.autoRespawnEpoch + 1]
             /\ \A u \in Thread \ {t, w} : pc'[u] = pc[u]
  <2>1. PICK w \in Worker \ {t} :
          /\ CanStartAutomaticSpawn(lc) /\ lc' = StartAutomaticSpawn(lc)
          /\ pc[w] = "off" /\ pc'[w] = "timer"
          /\ epoch' = [epoch EXCEPT ![w] = lc.autoRespawnEpoch + 1]
          /\ \A u \in Thread \ {t, w} : pc'[u] = pc[u]
    BY <1>3
  <2>2. /\ lc'.autoRespawnRunning /\ lc'.lifeState = lc.lifeState
        /\ lc'.autoRespawnEpoch = lc.autoRespawnEpoch + 1
        /\ lc.autoRespawnEpoch \in Nat
    BY <2>1 DEF StartAutomaticSpawn, TypeOK, Lifecycle
  <2>3. \A v \in Worker \ {w} :
          /\ LiveWorker(v)' <=> LiveWorker(v)
          /\ epoch'[v] = epoch[v] /\ epoch[v] \in Nat
          /\ LiveWorker(v) => epoch[v] < lc'.autoRespawnEpoch
    <3>1. ASSUME NEW v \in Worker \ {w} PROVE LiveWorker(v)' <=> LiveWorker(v)
      <4>1. CASE v = t
        BY <1>1, <4>1
      <4>2. CASE v # t
        BY <2>1, <4>2 DEF LiveWorker, Thread
      <4> QED
        BY <4>1, <4>2
    <3>2. \A v \in Worker \ {w} : epoch'[v] = epoch[v] /\ epoch[v] \in Nat
      BY <2>1 DEF TypeOK, Thread
    <3> QED
      BY <2>2, <3>1, <3>2 DEF NoneAhead
  <2>4. LiveWorker(w)' /\ epoch'[w] = lc'.autoRespawnEpoch
    BY <2>1, <2>2 DEF LiveWorker, TypeOK, Thread
  <2>5. \A u, v \in Worker :
          LiveWorker(u)' /\ LiveWorker(v)' /\ epoch'[u] = epoch'[v] => u = v
    BY <2>2, <2>3, <2>4 DEF OneCurrentWorker
  <2>6. OneCurrentWorker'
    BY <2>2, <2>4, <2>5 DEF OneCurrentWorker
  <2>7. DeadHasWorker'
    BY <2>2 DEF DeadHasWorker
  <2>8. NoneAhead'
    BY <2>2, <2>3, <2>4 DEF NoneAhead
  <2>9. \A v \in Worker : pc'[v] = "exit" => epoch'[v] # lc'.autoRespawnEpoch
    BY <2>1, <2>2, <2>3 DEF LiveWorker
  <2>10. EndsForTheLiving'
    BY <2>9 DEF EndsForTheLiving
  <2> QED
    BY <2>6, <2>7, <2>8, <2>10
<1> QED
  BY <1>2, <1>3, RunPolicyCases

\* A worker that ends clears the running flag of its own epoch only
\* (runAutomaticSpawn, lifecycle.go:455-468).
LEMMA ExitKeepsWorkers ==
  ASSUME TypeOK, WorkerInv, NEW t \in Worker, ExitWorker(t)
  PROVE  WorkerInv'
<1> USE DEF WorkerInv
<1>1. /\ pc[t] = "exit" /\ pc'[t] \in {"policy", "off"}
      /\ \A u \in Thread \ {t} : pc'[u] = pc[u]
      /\ \A v \in Worker \ {t} : epoch'[v] = epoch[v]
      /\ UNCHANGED ctxDone
  BY DEF ExitWorker, Goto, TypeOK, Thread
<1>2. LiveWorker(t) /\ ~LiveWorker(t)'
  BY <1>1 DEF LiveWorker
<1>3. \A v \in Worker \ {t} : /\ LiveWorker(v)' <=> LiveWorker(v)
                              /\ pc'[v] = pc[v]
  BY <1>1 DEF LiveWorker, Thread
<1>4. /\ lc'.autoRespawnEpoch = lc.autoRespawnEpoch
      /\ lc'.lifeState = lc.lifeState
      /\ lc'.autoRespawnRunning <=>
           lc.autoRespawnRunning /\ epoch[t] # lc.autoRespawnEpoch
  BY DEF ExitWorker, StopAutomaticSpawn, TypeOK, Lifecycle
<1>5. OneCurrentWorker'
  <2>1. \A v, w \in Worker :
          LiveWorker(v)' /\ LiveWorker(w)' /\ epoch'[v] = epoch'[w] => v = w
    BY <1>1, <1>2, <1>3 DEF OneCurrentWorker
  <2>2. CASE epoch[t] = lc.autoRespawnEpoch
    BY <1>1, <1>2, <1>3, <1>4, <2>1, <2>2 DEF OneCurrentWorker
  <2>3. CASE epoch[t] # lc.autoRespawnEpoch
    BY <1>1, <1>2, <1>3, <1>4, <2>1, <2>3 DEF OneCurrentWorker
  <2> QED
    BY <2>2, <2>3
<1>6. DeadHasWorker'
  BY <1>1, <1>4, ThreadAssumption DEF DeadHasWorker, EndsForTheLiving, Thread
<1>7. NoneAhead'
  BY <1>1, <1>2, <1>3, <1>4 DEF NoneAhead
<1>8. EndsForTheLiving'
  BY <1>1, <1>3, <1>4 DEF EndsForTheLiving
<1> QED
  BY <1>5, <1>6, <1>7, <1>8

\* A step of a transaction keeps the workers apart and the dead attended to.
LEMMA LifeStepWorkers ==
  ASSUME TypeOK, LifeInv, PlaceInv, WorkerInv, LifeStep
  PROVE  WorkerInv'
<1>0. /\ lc \in Lifecycle /\ Consistent(lc) /\ pc \in [Thread -> Label]
      /\ Run \in Thread /\ Sync \in Thread
      /\ Api \subseteq Thread /\ Native \subseteq Thread
      /\ Worker \subseteq Thread
  BY DEF TypeOK, LifeInv, Thread
<1>same. SameEpoch(lc, lc)
  BY DEF SameEpoch
<1>keeps. ASSUME WorkersGoOn,
               \/ SameEpoch(lc, lc')
               \/ NewEpoch(lc, lc') /\ lc'.lifeState # "dead"
        PROVE  WorkerInv'
  BY <1>keeps, WorkersKept
<1>1. ASSUME RecvInitGame
      PROVE  WorkerInv'
  <2> USE <1>1 DEF RecvInitGame
  <2>1. WorkersGoOn
    BY <1>0, ThreadAssumption
    DEF PlaceInv, WorkersGoOn, LiveWorker, Starting, Goto, localVars
  <2>2. SameEpoch(lc, lc') \/ (NewEpoch(lc, lc') /\ lc'.lifeState # "dead")
    BY <1>0, <1>same, EpochEffects, LifeEffects DEF lifeVars
  <2> QED
    BY <1>keeps, <2>1, <2>2
<1>2. ASSUME RecvClassDenied
      PROVE  WorkerInv'
  <2> USE <1>2 DEF RecvClassDenied
  <2>1. WorkersGoOn
    BY <1>0, ThreadAssumption
    DEF PlaceInv, WorkersGoOn, LiveWorker, Starting, Goto, localVars
  <2>2. CASE Spawned(lc)
    BY <1>same, <1>keeps, <2>1, <2>2 DEF lifeVars
  <2>3. CASE ~Spawned(lc)
    <3>1. lc' = EnterClassSelection(lc)
      BY <2>3
    <3>2. NewEpoch(lc, lc') /\ lc'.lifeState # "dead"
      BY <1>0, <3>1, EpochEffects, LifeEffects
    <3> QED
      BY <1>keeps, <2>1, <3>2
  <2> QED
    BY <2>2, <2>3
<1>3. ASSUME RecvSpawnInfo
      PROVE  WorkerInv'
  <2> USE <1>3 DEF RecvSpawnInfo
  <2>1. WorkersGoOn
    BY <1>0, ThreadAssumption
    DEF PlaceInv, WorkersGoOn, LiveWorker, Starting, Goto, localVars
  <2>2. SameEpoch(lc, lc')
    BY <1>0, <1>same, EpochEffects DEF lifeVars
  <2> QED
    BY <1>keeps, <2>1, <2>2
<1>4. ASSUME NEW outcome \in Outcome, RecvRequestSpawn(outcome)
      PROVE  WorkerInv'
  <2> USE <1>4 DEF RecvRequestSpawn
  <2>1. WorkersGoOn
    BY <1>0, ThreadAssumption
    DEF PlaceInv, WorkersGoOn, LiveWorker, Starting, Goto, localVars
  <2>2. SameEpoch(lc, lc')
    BY <1>0, <1>same, EpochEffects DEF lifeVars
  <2> QED
    BY <1>keeps, <2>1, <2>2
<1>5. ASSUME RejectRequest
      PROVE  WorkerInv'
  <2> USE <1>5 DEF RejectRequest
  <2>1. WorkersGoOn
    BY <1>0, ThreadAssumption
    DEF PlaceInv, WorkersGoOn, LiveWorker, Starting, Goto, localVars
  <2>2. SameEpoch(lc, lc')
    BY <1>0, <1>same, EpochEffects DEF lifeVars
  <2> QED
    BY <1>keeps, <2>1, <2>2
<1>6. ASSUME RecvZeroHealth
      PROVE  WorkerInv'
  <2> USE <1>6 DEF RecvZeroHealth
  <2>1. WorkersGoOn
    BY <1>0, ThreadAssumption
    DEF PlaceInv, WorkersGoOn, LiveWorker, Starting, Goto, localVars
  <2>2. SameEpoch(lc, lc')
    BY <1>0, <1>same, EpochEffects DEF lifeVars
  <2> QED
    BY <1>keeps, <2>1, <2>2
<1>7. ASSUME RecvPositiveHealth
      PROVE  WorkerInv'
  <2> USE <1>7 DEF RecvPositiveHealth
  <2>1. WorkersGoOn
    BY <1>0, ThreadAssumption
    DEF PlaceInv, WorkersGoOn, LiveWorker, Starting, Goto, localVars
  <2>2. SameEpoch(lc, lc')
    BY <1>0, <1>same, EpochEffects DEF lifeVars
  <2> QED
    BY <1>keeps, <2>1, <2>2
<1>8. ASSUME ExpireRequest
      PROVE  WorkerInv'
  <2> USE <1>8 DEF ExpireRequest
  <2>1. WorkersGoOn
    BY <1>0, ThreadAssumption
    DEF PlaceInv, WorkersGoOn, LiveWorker, Starting, Goto, localVars
  <2>2. SameEpoch(lc, lc')
    BY <1>0, <1>same, EpochEffects DEF lifeVars
  <2> QED
    BY <1>keeps, <2>1, <2>2
<1>9. ASSUME NEW t \in Api, CallRequestSpawn(t)
      PROVE  WorkerInv'
  <2>1. t \in Thread /\ RequestSpawn(t) /\ pc[t] \in {"rest", "call"}
    BY <1>0, <1>9 DEF CallRequestSpawn
  <2>2. WorkersGoOn
    BY <1>0, <2>1, RequestSpawnCases, ThreadAssumption
    DEF WorkersGoOn, LiveWorker, Starting, Goto, AfterRequest
  <2>3. SameEpoch(lc, lc')
    BY <1>0, <1>same, <2>1, RequestSpawnCases, EpochEffects
  <2> QED
    BY <2>2, <2>3, WorkersKept
<1>10. ASSUME NEW t \in Native, ReserveNativeDeath(t)
      PROVE  WorkerInv'
  <2> USE <1>10 DEF ReserveNativeDeath
  <2>1. WorkersGoOn
    BY <1>0, ThreadAssumption
    DEF PlaceInv, WorkersGoOn, LiveWorker, Starting, Goto, localVars
  <2>2. SameEpoch(lc, lc')
    BY <1>0, <1>same, EpochEffects DEF lifeVars
  <2> QED
    BY <1>keeps, <2>1, <2>2
<1>11. ASSUME NEW t \in Thread, RollbackRequest(t)
      PROVE  WorkerInv'
  <2> USE <1>11 DEF RollbackRequest
  <2>1. WorkersGoOn
    BY <1>0, ThreadAssumption
    DEF PlaceInv, WorkersGoOn, LiveWorker, Starting, Goto, localVars,
        AfterRequest
  <2>2. SameEpoch(lc, lc')
    BY <1>0, <1>same, EpochEffects DEF lifeVars
  <2> QED
    BY <1>keeps, <2>1, <2>2
<1>12. ASSUME NEW t \in Thread, CommitSpawned(t)
      PROVE  WorkerInv'
  <2> USE <1>12 DEF CommitSpawned
  <2>1. WorkersGoOn
    BY <1>0, ThreadAssumption
    DEF PlaceInv, WorkersGoOn, LiveWorker, Starting, Goto, localVars
  <2>2. SameEpoch(lc, lc') \/ (NewEpoch(lc, lc') /\ lc'.lifeState # "dead")
    BY <1>0, <1>same, EpochEffects, LifeEffects DEF lifeVars
  <2> QED
    BY <1>keeps, <2>1, <2>2
<1>13. ASSUME NEW t \in Thread, RollbackSpawn(t)
      PROVE  WorkerInv'
  <2> USE <1>13 DEF RollbackSpawn
  <2>1. WorkersGoOn
    BY <1>0, ThreadAssumption
    DEF PlaceInv, WorkersGoOn, LiveWorker, Starting, Goto, localVars
  <2>2. SameEpoch(lc, lc')
    BY <1>0, <1>same, EpochEffects DEF lifeVars
  <2> QED
    BY <1>keeps, <2>1, <2>2
<1>14. ASSUME NEW t \in Thread, CommitDead(t)
      PROVE  WorkerInv'
  <2> USE <1>14 DEF CommitDead
  <2>1. WorkersGoOn
    BY <1>0, ThreadAssumption
    DEF PlaceInv, WorkersGoOn, LiveWorker, Starting, Goto, localVars, AfterDeath
  <2>2. CASE CanCommitDeath(lc)
    <3>1. NewEpoch(lc, lc')
      BY <1>0, <2>2, EpochEffects
    <3>2. t \in {Run} \cup Native /\ pc'[t] = "death_write"
      BY <1>0, <2>2 DEF PlaceInv, DeathOwner, Goto
    <3> QED
      BY <2>1, <3>1, <3>2, WorkersKept
  <2>3. CASE ~CanCommitDeath(lc)
    BY <1>same, <2>1, <2>3, WorkersKept DEF lifeVars
  <2> QED
    BY <2>2, <2>3
<1>15. ASSUME NEW t \in Thread, RunPolicy(t)
      PROVE  WorkerInv'
  BY <1>15, PolicyKeepsWorkers
<1>16. ASSUME NEW t \in Thread, NEW result \in WriteResult,
              WriteDeath(t, result)
      PROVE  WorkerInv'
  <2> USE <1>16 DEF WriteDeath
  <2>1. WorkersGoOn
    BY <1>0, ThreadAssumption
    DEF PlaceInv, WorkersGoOn, LiveWorker, Starting, Goto, localVars, AfterDeath
  <2>2. SameEpoch(lc, lc')
    BY <1>0, <1>same, EpochEffects DEF lifeVars
  <2> QED
    BY <1>keeps, <2>1, <2>2
<1>17. ASSUME NEW result \in WriteResult, WriteReport(result)
      PROVE  WorkerInv'
  <2> USE <1>17 DEF WriteReport
  <2>1. WorkersGoOn
    BY <1>0, ThreadAssumption
    DEF PlaceInv, WorkersGoOn, LiveWorker, Starting, Goto, localVars
  <2>2. SameEpoch(lc, lc')
    BY <1>0, <1>same, EpochEffects DEF lifeVars
  <2> QED
    BY <1>keeps, <2>1, <2>2
<1>18. ASSUME NEW t \in Worker, WorkerRequestsSpawn(t)
      PROVE  WorkerInv'
  <2>1. t \in Thread /\ RequestSpawn(t) /\ pc[t] \in {"rest", "call"}
    BY <1>0, <1>18 DEF WorkerRequestsSpawn
  <2>2. WorkersGoOn
    BY <1>0, <2>1, RequestSpawnCases, ThreadAssumption
    DEF WorkersGoOn, LiveWorker, Starting, Goto, AfterRequest
  <2>3. SameEpoch(lc, lc')
    BY <1>0, <1>same, <2>1, RequestSpawnCases, EpochEffects
  <2> QED
    BY <2>2, <2>3, WorkersKept
<1>19. ASSUME NEW t \in Worker, WakeWorker(t)
      PROVE  WorkerInv'
  BY <1>0, <1>19, ThreadAssumption
  DEF WakeWorker, Goto, WorkerInv, OneCurrentWorker, DeadHasWorker, NoneAhead,
      EndsForTheLiving, LiveWorker, lifeVars, localVars
<1>20. ASSUME NEW t \in Worker, StopWorker(t)
      PROVE  WorkerInv'
  BY <1>0, <1>20, ThreadAssumption
  DEF StopWorker, Goto, WorkerInv, OneCurrentWorker, DeadHasWorker, NoneAhead,
      EndsForTheLiving, LiveWorker, lifeVars, localVars
<1>21. ASSUME NEW t \in Worker, ExitWorker(t)
      PROVE  WorkerInv'
  BY <1>21, ExitKeepsWorkers
<1>22. ASSUME CoolDown
      PROVE  WorkerInv'
  <2> USE <1>22 DEF CoolDown
  <2>1. WorkersGoOn
    BY <1>0, ThreadAssumption
    DEF PlaceInv, WorkersGoOn, LiveWorker, Starting, Goto, localVars
  <2>2. SameEpoch(lc, lc')
    BY <1>0, <1>same, EpochEffects DEF lifeVars
  <2> QED
    BY <1>keeps, <2>1, <2>2
<1> QED
  BY <1>1, <1>2, <1>3, <1>4, <1>5, <1>6, <1>7, <1>8, <1>9, <1>10, <1>11,
     <1>12, <1>13, <1>14, <1>15, <1>16, <1>17, <1>18, <1>19, <1>20, <1>21,
     <1>22 DEF LifeStep

-----------------------------------------------------------------------------
(* The theorems *)

\* The strengthened invariants hold throughout.
THEOREM LifeCorrect == Spec => [](LifeInv /\ PlaceInv /\ WorkerInv)
<1>1. Init => LifeInv
  BY DEF Init, LifeInv, Consistent, HealthMatchesLife, SpawningHasOwner,
         ReservedDeathHasOwner, Spawned, NewPlayerLifecycle
<1>2. Init => PlaceInv
  BY ThreadAssumption
  DEF Init, PlaceInv, RunLabel, NativeLabel, SpawnOwner, DeathOwner, Thread
<1>3. Init => WorkerInv
  BY ThreadAssumption
  DEF Init, WorkerInv, OneCurrentWorker, DeadHasWorker, NoneAhead,
      EndsForTheLiving, LiveWorker, NewPlayerLifecycle, Thread
<1>4. TypeOK /\ LifeInv /\ PlaceInv /\ WorkerInv /\ [Next]_vars
        => LifeInv' /\ PlaceInv' /\ WorkerInv'
  BY LocalOrLifeStep, LocalStepKeeps, LifeStepPlaces, LifeStepLives,
     LifeStepWorkers
<1> QED
  BY <1>1, <1>2, <1>3, <1>4, TypeCorrect, PTL DEF Spec

\* The fields of playerLifecycle that make up one transaction fit together
\* after every method, whichever goroutines take turns (lifecycle.go:149-235,
\* 619-697).
THEOREM TransactionsConsistent == Spec => []TransactionConsistent
<1>1. LifeInv => TransactionConsistent
  BY DEF LifeInv, Consistent, TransactionConsistent
<1> QED
  BY <1>1, LifeCorrect, PTL

\* The spawning phase, which no timeout ends, always has a goroutine inside
\* sendSpawnAndCommit that will commit it or roll it back.
THEOREM SpawningOwned == Spec => []SpawningHasOwner
<1>1. LifeInv => SpawningHasOwner
  BY DEF LifeInv
<1> QED
  BY <1>1, LifeCorrect, PTL

\* A reserved death, which suppresses sync, always has a goroutine inside
\* completeDeath that will commit it.
THEOREM ReservedDeathOwned == Spec => []ReservedDeathHasOwner
<1>1. LifeInv => ReservedDeathHasOwner
  BY DEF LifeInv
<1> QED
  BY <1>1, LifeCorrect, PTL

\* No late RPC_SetPlayerHealth revives the dead, and no spawned player is left
\* without health unless its death is under way.
THEOREM HealthAgrees == Spec => []HealthMatchesLife
<1>1. LifeInv => HealthMatchesLife
  BY DEF LifeInv
<1> QED
  BY <1>1, LifeCorrect, PTL

\* At most one automatic respawn worker acts for an epoch, and
\* autoRespawnRunning says exactly whether the current one exists.
THEOREM OneWorker == Spec => []OneCurrentWorker
<1>1. WorkerInv => OneCurrentWorker
  BY DEF WorkerInv
<1> QED
  BY <1>1, LifeCorrect, PTL

\* Under the automatic policy a dead player has a worker, or a goroutine that
\* will start one when it ends its batch.
THEOREM DeadAttended == Spec => []DeadHasWorker
<1>1. WorkerInv => DeadHasWorker
  BY DEF WorkerInv
<1> QED
  BY <1>1, LifeCorrect, PTL
=============================================================================
