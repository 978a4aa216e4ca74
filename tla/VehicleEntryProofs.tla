-------------------------- MODULE VehicleEntryProofs --------------------------
(***************************************************************************)
(* What VehicleEntry keeps for all sets of callers, continuations and      *)
(* vehicles and for all bounds: its types, that a vehicle that has ended   *)
(* is not entered, and that a queued entry has an owner.                   *)
(***************************************************************************)
EXTENDS VehicleEntry, TLAPS

-----------------------------------------------------------------------------
(* Jobs *)

\* There is a job for a goroutine that has none.
LEMMA NoJobType == NoJob \in Job
<1>1. PICK v \in Vehicle, seat \in Seat : TRUE
  BY VehicleAssumption, SeatAssumption
<1>2. [vehicle |-> v, passenger |-> seat, mode |-> "direct"] \in Target
  BY <1>1 DEF Target, Mode
<1>3. (CHOOSE target \in Target : TRUE) \in Target
  BY <1>2
<1> QED BY <1>3, SMT DEF NoJob, Called, Job

\* Turn and Goto keep the types of pc and job.
LEMMA TurnType ==
  ASSUME TypeOK, NEW t \in Thread, NEW label \in Label, NEW j \in Job,
         Turn(t, label, j)
  PROVE  pc' \in [Thread -> Label] /\ job' \in [Thread -> Job]
BY DEF TypeOK, Turn

LEMMA GotoType ==
  ASSUME TypeOK, NEW t \in Thread, NEW label \in Label, Goto(t, label)
  PROVE  pc' \in [Thread -> Label] /\ job' \in [Thread -> Job]
<1>1. (IF label = "idle" THEN NoJob ELSE job[t]) \in Job
  BY NoJobType DEF TypeOK
<1> QED BY <1>1, TurnType DEF Goto
-----------------------------------------------------------------------------
(* Type correctness *)

LEMMA InitType == Init => TypeOK
<1> SUFFICES ASSUME Init PROVE TypeOK
  OBVIOUS
<1>1. pc \in [Thread -> Label] /\ job \in [Thread -> Job]
  BY NoJobType DEF Init, Label
<1>2. vehicles \in [Vehicle -> {"gone", "alive", "wrecked"}]
  BY DEF Init
<1>3. calls \in 0..MaxCalls /\ messages \in 0..MaxMessages /\ faults \in 0..MaxFaults
  BY BoundAssumption DEF Init
<1> QED BY <1>1, <1>2, <1>3 DEF Init, TypeOK

\* completeVehicleEntry
LEMMA CompleteType ==
  ASSUME TypeOK, NEW t \in Thread, CompleteVehicleEntry(t)
  PROVE  /\ inVehicle' \in BOOLEAN /\ passenger' \in BOOLEAN
         /\ assured' \in BOOLEAN /\ exitPending' \in BOOLEAN
         /\ vehicleID' \in Vehicle \cup {NoVehicle}
         /\ inVehicle' <=> vehicleID' # NoVehicle
         /\ pending' \in {None, pending} /\ queued' \in {NotQueued, queued}
<1>1. job[t].target.vehicle \in Vehicle /\ job[t].target.passenger \in BOOLEAN
  BY SeatAssumption DEF TypeOK, Job, Target
<1>2. pending # None => pending.known \in BOOLEAN
  BY DEF TypeOK, None, Entry
<1>3. CASE active /\ IsPending(job[t].id, job[t].target)
  <2> DEFINE checked == job[t].target.mode = "normal" \/ pending.known
  <2>1. checked \in BOOLEAN
    BY <1>2, <1>3 DEF IsPending
  <2>2. CASE checked /\ ~Alive(job[t].target.vehicle)
    BY <1>3, <2>2 DEF CompleteVehicleEntry, TypeOK, place
  <2>3. CASE ~(checked /\ ~Alive(job[t].target.vehicle))
    <3>1. SetVehicleState(job[t].target.vehicle, job[t].target.passenger, checked)
      BY <1>3, <2>3 DEF CompleteVehicleEntry
    <3> QED BY <1>1, <2>1, <3>1, ThreadAssumption
            DEF SetVehicleState, EndTransitions
  <2> QED BY <2>2, <2>3
<1>4. CASE ~(active /\ IsPending(job[t].id, job[t].target))
  BY <1>4 DEF CompleteVehicleEntry, TypeOK, place
<1> QED BY <1>3, <1>4

\* enterVehicle before the write of its RPC.
LEMMA EntryType ==
  ASSUME TypeOK, NEW t \in Thread,
         CallEnter(t) \/ CheckEntry(t) \/ QueueEntry(t) \/ UnqueueEntry(t)
           \/ LockEntry(t)
  PROVE  TypeOK'
<1> USE DEF streamed, place, transition, bounds
<1>1. CASE CallEnter(t)
  <2>1. PICK target \in Target : Turn(t, "check", Called(target))
    BY <1>1 DEF CallEnter
  <2>2. Called(target) \in Job /\ "check" \in Label
    BY DEF Called, Job, Label
  <2>3. calls' \in 0..MaxCalls
    BY <1>1, BoundAssumption DEF CallEnter, TypeOK
  <2>4. pc' \in [Thread -> Label] /\ job' \in [Thread -> Job]
    BY <2>1, <2>2, TurnType
  <2> QED BY <1>1, <2>3, <2>4 DEF CallEnter, TypeOK
<1>2. CASE CheckEntry(t)
  <2>1. RequiresKnown(t) \in BOOLEAN /\ NeedsVehicleExit(job[t].target) \in BOOLEAN
    BY DEF TypeOK, RequiresKnown, NeedsVehicleExit, Job, Alive
  <2>2. [job[t] EXCEPT !.known = RequiresKnown(t),
                       !.queues = NeedsVehicleExit(job[t].target)] \in Job
    <3>1. job[t] \in Job
      BY DEF TypeOK
    <3> QED BY <2>1, <3>1 DEF Job
  <2>3. pc' \in [Thread -> Label] /\ job' \in [Thread -> Job]
    <3>1. CASE Goto(t, "idle")
      BY <3>1, GotoType DEF Label
    <3>2. CASE Turn(t, IF NeedsVehicleExit(job[t].target) THEN "queue" ELSE "enter_lock",
                    [job[t] EXCEPT !.known = RequiresKnown(t),
                                   !.queues = NeedsVehicleExit(job[t].target)])
      BY <2>2, <3>2, TurnType DEF Label
    <3> QED BY <1>2, <3>1, <3>2 DEF CheckEntry
  <2> QED BY <1>2, <2>3 DEF CheckEntry, TypeOK
<1>3. CASE QueueEntry(t)
  <2>1. queued' \in QueuedEntry
    BY <1>3 DEF QueueEntry, Queued, QueuedEntry, TypeOK, Job
  <2>2. pc' \in [Thread -> Label] /\ job' \in [Thread -> Job]
    BY <1>3, GotoType DEF QueueEntry, Label
  <2> QED BY <1>3, <2>1, <2>2 DEF QueueEntry, TypeOK
<1>4. CASE UnqueueEntry(t)
  <2>1. pc' \in [Thread -> Label] /\ job' \in [Thread -> Job]
    BY <1>4, GotoType DEF UnqueueEntry, Label
  <2> QED BY <1>4, <2>1 DEF UnqueueEntry, TypeOK
<1>5. CASE LockEntry(t)
  <2>1. nextVehicleEntryID + 1 \in Nat \ {0}
    BY DEF TypeOK
  <2>2. CASE Goto(t, "idle") /\ UNCHANGED <<pending, nextVehicleEntryID, syncMu>>
    <3>1. pc' \in [Thread -> Label] /\ job' \in [Thread -> Job]
      BY <2>2, GotoType DEF Label
    <3> QED BY <1>5, <2>2, <3>1 DEF LockEntry, TypeOK
  <2>3. CASE ~(~active \/ (job[t].known /\ ~Alive(job[t].target.vehicle)))
    <3>1. [job[t] EXCEPT !.id = nextVehicleEntryID + 1] \in Job
      BY <2>1 DEF TypeOK, Job
    <3>2. pc' \in [Thread -> Label] /\ job' \in [Thread -> Job]
      BY <1>5, <2>3, <3>1, TurnType DEF LockEntry, Label
    <3>3. pending' \in Entry
      BY <1>5, <2>1, <2>3 DEF LockEntry, Pending, Entry, TypeOK, Job
    <3> QED BY <1>5, <2>1, <2>3, <3>2, <3>3 DEF LockEntry, TypeOK
  <2> QED BY <1>5, <2>2, <2>3 DEF LockEntry
<1> QED BY <1>1, <1>2, <1>3, <1>4, <1>5

\* enterVehicle from the write of its RPC.
LEMMA CompletionType ==
  ASSUME TypeOK, NEW t \in Thread,
         WriteEntry(t) \/ CompleteDirect(t) \/ AwaitEntry(t) \/ RecheckEntry(t)
           \/ CompleteNormal(t)
  PROVE  TypeOK'
<1> USE DEF streamed, place, transition, bounds
<1>1. CASE WriteEntry(t)
  <2>1. PICK ok \in BOOLEAN :
          /\ Write(ok)
          /\ IF ok
               THEN /\ Goto(t, IF job[t].target.mode = "direct" THEN "enter_complete"
                                                                ELSE "await")
                    /\ syncMu' = IF job[t].target.mode = "direct" THEN t ELSE Nobody
                    /\ UNCHANGED pending
               ELSE CancelOwn(t) /\ Goto(t, "idle") /\ syncMu' = Nobody
    BY <1>1 DEF WriteEntry
  <2>2. faults' \in 0..MaxFaults
    BY <2>1, BoundAssumption DEF Write, TypeOK
  <2>3. pending' \in {None, pending} /\ syncMu' \in Thread \cup {Nobody}
    BY <2>1 DEF CancelOwn
  <2>4. pc' \in [Thread -> Label] /\ job' \in [Thread -> Job]
    BY <2>1, GotoType DEF Label
  <2> QED BY <1>1, <2>2, <2>3, <2>4 DEF WriteEntry, TypeOK
<1>2. CASE CompleteDirect(t)
  <2>1. pc' \in [Thread -> Label] /\ job' \in [Thread -> Job]
    BY <1>2, GotoType DEF CompleteDirect, Label
  <2> QED BY <1>2, <2>1, CompleteType DEF CompleteDirect, TypeOK
<1>3. CASE AwaitEntry(t)
  <2>1. pc' \in [Thread -> Label] /\ job' \in [Thread -> Job]
    BY <1>3, GotoType DEF AwaitEntry, Label
  <2>2. pending' \in {None, pending}
    BY <1>3 DEF AwaitEntry, CancelOwn
  <2> QED BY <1>3, <2>1, <2>2 DEF AwaitEntry, TypeOK
<1>4. CASE RecheckEntry(t)
  <2>1. pc' \in [Thread -> Label] /\ job' \in [Thread -> Job]
    BY <1>4, GotoType DEF RecheckEntry, Label
  <2> QED BY <1>4, <2>1 DEF RecheckEntry, TypeOK
<1>5. CASE CompleteNormal(t)
  <2>1. pc' \in [Thread -> Label] /\ job' \in [Thread -> Job]
    BY <1>5, GotoType DEF CompleteNormal, Label
  <2> QED BY <1>5, <2>1, CompleteType DEF CompleteNormal, TypeOK
<1> QED BY <1>1, <1>2, <1>3, <1>4, <1>5

\* exitVehicle; a job that continues a queued entry has its target.
LEMMA ContinuesType == ASSUME TypeOK, queued.queued PROVE Continues \in Job
<1>1. queued \in QueuedEntry
  BY DEF TypeOK, NotQueued
<1>2. queued.target \in Target /\ queued.known \in BOOLEAN
  BY <1>1 DEF QueuedEntry
<1>3. Called(queued.target) \in Job
  BY <1>2 DEF Called, Job
<1> QED BY <1>2, <1>3 DEF Continues, Job

LEMMA ExitType ==
  ASSUME TypeOK, NEW t \in Thread,
         CallExit(t) \/ BeginExit(t) \/ LockExit(t) \/ WriteExit(t) \/ CommitExit(t)
  PROVE  TypeOK'
<1> USE DEF streamed, place, transition, bounds
<1>1. CASE CallExit(t)
  <2>1. pc' \in [Thread -> Label] /\ job' \in [Thread -> Job]
    BY <1>1, GotoType DEF CallExit, Label
  <2>2. calls' \in 0..MaxCalls
    BY <1>1, BoundAssumption DEF CallExit, TypeOK
  <2> QED BY <1>1, <2>1, <2>2 DEF CallExit, TypeOK
<1>2. CASE BeginExit(t)
  <2>1. pc' \in [Thread -> Label] /\ job' \in [Thread -> Job]
    BY <1>2, GotoType DEF BeginExit, GiveUpExit, Label
  <2>2. pending' \in {None, pending} /\ queued' \in {NotQueued, queued}
        /\ exitPending' \in BOOLEAN
    BY <1>2 DEF BeginExit, EndTransitions, TypeOK
  <2> QED BY <1>2, <2>1, <2>2 DEF BeginExit, TypeOK
<1>3. CASE LockExit(t)
  <2>1. pc' \in [Thread -> Label] /\ job' \in [Thread -> Job]
    BY <1>3, GotoType DEF LockExit, Label
  <2> QED BY <1>3, <2>1 DEF LockExit, TypeOK
<1>4. CASE WriteExit(t)
  <2>1. PICK ok \in BOOLEAN :
          /\ Write(ok)
          /\ IF ok THEN Goto(t, "exit_commit")
                        /\ UNCHANGED <<exitPending, exitFailed, syncMu>>
                   ELSE GiveUpExit(t) /\ exitPending' = FALSE /\ exitFailed' = TRUE
                        /\ syncMu' = Nobody
    BY <1>4 DEF WriteExit
  <2>2. faults' \in 0..MaxFaults
    BY <2>1, BoundAssumption DEF Write, TypeOK
  <2>3. pc' \in [Thread -> Label] /\ job' \in [Thread -> Job]
    BY <2>1, GotoType DEF GiveUpExit, Label
  <2>4. syncMu' \in Thread \cup {Nobody} /\ exitPending' \in BOOLEAN
        /\ exitFailed' \in BOOLEAN
    BY <2>1 DEF TypeOK
  <2> QED BY <1>4, <2>2, <2>3, <2>4 DEF WriteExit, TypeOK
<1>5. CASE CommitExit(t)
  <2>1. pc' \in [Thread -> Label] /\ job' \in [Thread -> Job]
    <3>1. CASE queued.queued /\ Turn(t, "check", Continues)
      BY <3>1, ContinuesType, TurnType DEF Label
    <3>2. CASE Goto(t, "idle")
      BY <3>2, GotoType DEF Label
    <3> QED BY <1>5, <3>1, <3>2 DEF CommitExit
  <2> QED BY <1>5, <2>1 DEF CommitExit, TypeOK, OnFoot, EndTransitions
<1> QED BY <1>1, <1>2, <1>3, <1>4, <1>5

\* The decoder.
LEMMA DetachType ==
  ASSUME TypeOK, NEW keep \in BOOLEAN, Detach(keep)
  PROVE  pc' \in [Thread -> Label] /\ job' \in [Thread -> Job]
<1>1. CASE queued.queued /\ keep
  <2>1. PICK t \in Continuation : Turn(t, "check", Continues)
    BY <1>1 DEF Detach
  <2> QED BY <1>1, <2>1, ContinuesType, TurnType DEF Label, Thread
<1>2. CASE ~(queued.queued /\ keep)
  BY <1>2 DEF Detach, TypeOK
<1> QED BY <1>1, <1>2

LEMMA DecodeType == ASSUME TypeOK, Decode PROVE TypeOK'
<1> USE DEF streamed, place, transition, bounds
<1> DEFINE Counted == messages' \in 0..MaxMessages
<1>1. Message => Counted
  BY BoundAssumption DEF Message, TypeOK
<1>2. CASE PutPlayerInVehicle
  <2>1. PICK v \in Vehicle, seat \in Seat :
          SetVehicleState(v, seat, TRUE) /\ ended' = ended \ {v}
    BY <1>2 DEF PutPlayerInVehicle
  <2>2. seat \in BOOLEAN /\ v # NoVehicle
    BY SeatAssumption, ThreadAssumption
  <2> QED BY <1>1, <1>2, <2>1, <2>2
          DEF PutPlayerInVehicle, TypeOK, SetVehicleState, EndTransitions
<1>3. CASE RemoveFromVehicle
  <2>1. pc' \in [Thread -> Label] /\ job' \in [Thread -> Job]
    BY <1>3, DetachType DEF RemoveFromVehicle
  <2> QED BY <1>1, <1>3, <2>1
          DEF RemoveFromVehicle, Detach, TypeOK, OnFoot, EndTransitions
<1>4. CASE SetOnFootPosition
  BY <1>1, <1>4 DEF SetOnFootPosition, TypeOK, OnFoot, EndTransitions
<1>5. CASE StoreVehicle \/ RepairVehicle
  <2>1. PICK v \in Vehicle, how \in {"alive", "wrecked"} : Store(v, how)
    BY <1>5 DEF StoreVehicle, RepairVehicle
  <2>2. vehicles' \in [Vehicle -> {"gone", "alive", "wrecked"}]
          /\ ended' \subseteq Vehicle
    BY <2>1 DEF Store, TypeOK
  <2> QED BY <1>1, <1>5, <2>2 DEF StoreVehicle, RepairVehicle, TypeOK
<1>6. CASE EndVehicle \/ DetachLocalVehicle
  <2>1. vehicles' \in [Vehicle -> {"gone", "alive", "wrecked"}]
          /\ ended' \subseteq Vehicle
    BY <1>6 DEF EndVehicle, DetachLocalVehicle, TypeOK
  <2>2. PICK v \in Vehicle : LeaveVehicle(v)
    BY <1>6 DEF EndVehicle, DetachLocalVehicle
  <2>3. CASE inVehicle /\ vehicleID = v
    <3>1. Detach(queued.queued /\ queued.target.vehicle # v)
      BY <2>2, <2>3 DEF LeaveVehicle
    <3>2. pc' \in [Thread -> Label] /\ job' \in [Thread -> Job]
      BY <3>1, DetachType
    <3> QED BY <1>1, <1>6, <2>1, <3>1, <3>2
            DEF EndVehicle, DetachLocalVehicle, Detach, TypeOK, OnFoot,
                EndTransitions
  <2>4. CASE ~(inVehicle /\ vehicleID = v)
    <3>1. CancelFor(v) /\ UNCHANGED <<place, exitPending, pc, job>>
      BY <2>2, <2>4 DEF LeaveVehicle
    <3>2. pending' \in {None, pending} /\ queued' \in {NotQueued, queued}
      BY <3>1 DEF CancelFor
    <3> QED BY <1>1, <1>6, <2>1, <3>1, <3>2
            DEF EndVehicle, DetachLocalVehicle, TypeOK
  <2> QED BY <2>3, <2>4
<1>7. CASE Die
  BY <1>1, <1>7 DEF Die, TypeOK
<1>8. CASE BeginLife
  BY <1>8 DEF BeginLife, TypeOK, OnFoot, EndTransitions
<1> QED BY <1>2, <1>3, <1>4, <1>5, <1>6, <1>7, <1>8 DEF Decode

LEMMA NextType == TypeOK /\ [Next]_vars => TypeOK'
<1> SUFFICES ASSUME TypeOK, [Next]_vars PROVE TypeOK'
  OBVIOUS
<1>1. CASE Decode
  BY <1>1, DecodeType
<1>2. ASSUME NEW t \in Thread, CallEnter(t) \/ CallExit(t) \/ Step(t)
      PROVE  TypeOK'
  BY <1>2, EntryType, CompletionType, ExitType DEF Step
<1>3. CASE UNCHANGED vars
  BY <1>3 DEF vars, TypeOK, streamed, place, transition, bounds
<1> QED BY <1>1, <1>2, <1>3 DEF Next

\* Every reachable state is well typed: a vehicle number is kept exactly as long
\* as the player sits in it, and a transition has a target.
THEOREM TypeCorrect == Spec => []TypeOK
BY InitType, NextType, PTL DEF Spec

-----------------------------------------------------------------------------
(* A vehicle that has ended is not entered *)

\* A vehicle whose end is the last news of it is not taken for one that is there:
\* this is what the looks of enterVehicle and completeVehicleEntry rely on.
EndedIsNotAlive == \A v \in ended : ~Alive(v)

EndedInv == EndedIsNotAlive /\ NeverInEndedVehicle

\* What leaves the vehicles alone and begins neither an entry nor a stay.
LEMMA EndedStays ==
  ASSUME EndedInv, UNCHANGED streamed, pending' \in {None, pending},
         UNCHANGED place \/ ~assured'
  PROVE  EndedInv'
BY DEF EndedInv, EndedIsNotAlive, NeverInEndedVehicle, Alive, streamed, place

\* An entry is completed only in a vehicle that is still there, when its being
\* there is required.
LEMMA CompleteAlive ==
  ASSUME TypeOK, EndedInv, NEW t \in Thread, CompleteVehicleEntry(t),
         UNCHANGED streamed
  PROVE  EndedInv'
<1> DEFINE checked == job[t].target.mode = "normal" \/ pending.known
<1>1. CASE ~(active /\ IsPending(job[t].id, job[t].target))
  BY <1>1, EndedStays DEF CompleteVehicleEntry
<1>2. CASE active /\ IsPending(job[t].id, job[t].target)
  <2>1. CASE checked /\ ~Alive(job[t].target.vehicle)
    BY <1>2, <2>1, EndedStays DEF CompleteVehicleEntry
  <2>2. CASE ~(checked /\ ~Alive(job[t].target.vehicle))
    <3>1. SetVehicleState(job[t].target.vehicle, job[t].target.passenger, checked)
      BY <1>2, <2>2 DEF CompleteVehicleEntry
    <3>2. pending' = None /\ inVehicle' = TRUE /\ vehicleID' = job[t].target.vehicle
          /\ assured' = checked
      BY <3>1 DEF SetVehicleState, EndTransitions
    <3>3. checked => job[t].target.vehicle \notin ended
      BY <2>2 DEF EndedInv, EndedIsNotAlive
    <3> QED BY <3>2, <3>3
            DEF EndedInv, EndedIsNotAlive, NeverInEndedVehicle, Alive, streamed
  <2> QED BY <2>1, <2>2
<1> QED BY <1>1, <1>2

LEMMA StepAlive ==
  ASSUME TypeOK, EndedInv, NEW t \in Thread,
         CallEnter(t) \/ CallExit(t) \/ Step(t)
  PROVE  EndedInv'
<1>1. CASE LockEntry(t)
  <2>1. CASE UNCHANGED pending
    BY <1>1, <2>1, EndedStays DEF LockEntry
  <2>2. CASE /\ ~(job[t].known /\ ~Alive(job[t].target.vehicle))
             /\ pending' = Pending(nextVehicleEntryID + 1, job[t].target, job[t].known)
    <3>1. job[t].known => job[t].target.vehicle \notin ended
      BY <2>2 DEF EndedInv, EndedIsNotAlive
    <3> QED BY <1>1, <2>2, <3>1
            DEF LockEntry, Pending, EndedInv, EndedIsNotAlive,
                NeverInEndedVehicle, Alive, streamed, place
  <2> QED BY <1>1, <2>1, <2>2 DEF LockEntry
<1>2. CASE WriteEntry(t) \/ AwaitEntry(t)
  BY <1>2, EndedStays DEF WriteEntry, AwaitEntry, CancelOwn
<1>3. CASE CompleteDirect(t) \/ CompleteNormal(t)
  BY <1>3, CompleteAlive DEF CompleteDirect, CompleteNormal
<1>4. CASE BeginExit(t)
  BY <1>4, EndedStays DEF BeginExit, EndTransitions
<1>5. CASE CommitExit(t)
  BY <1>5, EndedStays DEF CommitExit, OnFoot, EndTransitions
<1>6. CASE CallEnter(t) \/ CallExit(t) \/ CheckEntry(t) \/ QueueEntry(t)
             \/ UnqueueEntry(t) \/ RecheckEntry(t) \/ LockExit(t) \/ WriteExit(t)
  <2>1. UNCHANGED <<streamed, place, pending>>
    BY <1>6 DEF CallEnter, CallExit, CheckEntry, QueueEntry, UnqueueEntry,
                RecheckEntry, LockExit, WriteExit, transition
  <2> QED BY <2>1, EndedStays
<1> QED BY <1>1, <1>2, <1>3, <1>4, <1>5, <1>6 DEF Step

LEMMA DecodeAlive ==
  ASSUME TypeOK, EndedInv, Decode
  PROVE  EndedInv'
<1> USE DEF EndedInv, EndedIsNotAlive, NeverInEndedVehicle, Alive
<1>1. CASE PutPlayerInVehicle
  <2>1. PICK v \in Vehicle, seat \in Seat :
          SetVehicleState(v, seat, TRUE) /\ ended' = ended \ {v}
    BY <1>1 DEF PutPlayerInVehicle
  <2> QED BY <1>1, <2>1 DEF PutPlayerInVehicle, SetVehicleState, EndTransitions
<1>2. CASE RemoveFromVehicle \/ SetOnFootPosition
  <2>1. UNCHANGED streamed /\ OnFoot /\ EndTransitions
    BY <1>2 DEF RemoveFromVehicle, SetOnFootPosition, Detach
  <2> QED BY <2>1, EndedStays DEF OnFoot, EndTransitions
<1>3. CASE StoreVehicle \/ RepairVehicle
  <2>1. PICK v \in Vehicle, how \in {"alive", "wrecked"} : Store(v, how)
    BY <1>3 DEF StoreVehicle, RepairVehicle
  <2>2. UNCHANGED <<place, pending>>
    BY <1>3 DEF StoreVehicle, RepairVehicle, transition
  <2>3. ended' \subseteq ended
    BY <2>1 DEF Store
  <2>4. EndedIsNotAlive'
    BY <2>1 DEF Store, TypeOK
  <2> QED BY <2>2, <2>3, <2>4 DEF place
<1>4. CASE EndVehicle \/ DetachLocalVehicle
  <2>1. PICK v \in Vehicle :
          LeaveVehicle(v) /\ ended' \subseteq ended \cup {v} /\ EndedIsNotAlive'
    <3>1. CASE EndVehicle
      <4>1. PICK v \in Vehicle, how \in {"gone", "wrecked"} :
              /\ vehicles' = [vehicles EXCEPT ![v] = how]
              /\ ended' = ended \cup {v}
              /\ LeaveVehicle(v)
        BY <3>1 DEF EndVehicle
      <4> QED BY <4>1 DEF TypeOK
    <3>2. CASE DetachLocalVehicle
      BY <3>2 DEF DetachLocalVehicle, streamed
    <3> QED BY <1>4, <3>1, <3>2
  <2>2. CASE inVehicle /\ vehicleID = v
    <3>1. OnFoot /\ EndTransitions
      BY <2>1, <2>2 DEF LeaveVehicle, Detach
    <3> QED BY <2>1, <3>1 DEF OnFoot, EndTransitions
  <2>3. CASE ~(inVehicle /\ vehicleID = v)
    <3>1. CancelFor(v) /\ UNCHANGED place
      BY <2>1, <2>3 DEF LeaveVehicle
    <3>2. pending' # None => pending' = pending /\ pending.target.vehicle # v
      BY <3>1 DEF CancelFor
    <3> QED BY <2>1, <2>3, <3>1, <3>2 DEF place
  <2> QED BY <2>2, <2>3
<1>5. CASE Die
  BY <1>5, EndedStays DEF Die, transition
<1>6. CASE BeginLife
  <2>1. ~assured' /\ pending' = None
    BY <1>6 DEF BeginLife, OnFoot, EndTransitions
  <2>2. EndedIsNotAlive'
    BY <1>6 DEF BeginLife, streamed
  <2> QED BY <2>1, <2>2
<1> QED BY <1>1, <1>2, <1>3, <1>4, <1>5, <1>6 DEF Decode

\* An entry that requires its vehicle, and a stay that began with one or by the
\* server's placement, never outlive the RPC that removes or destroys the vehicle,
\* nor begin after it: enterVehicle, completeVehicleEntry, removeServerVehicle and
\* applyServerVehicleHealth, in any order, with other drivers' frames and the
\* vehicles that are streamed in between.
THEOREM NobodyInEndedVehicle == Spec => []NeverInEndedVehicle
<1>1. Init => EndedInv
  BY DEF Init, EndedInv, EndedIsNotAlive, NeverInEndedVehicle
<1>2. TypeOK /\ EndedInv /\ [Next]_vars => EndedInv'
  <2> SUFFICES ASSUME TypeOK, EndedInv, [Next]_vars PROVE EndedInv'
    OBVIOUS
  <2>1. CASE Decode
    BY <2>1, DecodeAlive
  <2>2. ASSUME NEW t \in Thread, CallEnter(t) \/ CallExit(t) \/ Step(t)
        PROVE  EndedInv'
    BY <2>2, StepAlive
  <2>3. CASE UNCHANGED vars
    BY <2>3, EndedStays DEF vars, transition
  <2> QED BY <2>1, <2>2, <2>3 DEF Next
<1>3. EndedInv => NeverInEndedVehicle
  BY DEF EndedInv
<1> QED BY <1>1, <1>2, <1>3, TypeCorrect, PTL DEF Spec

-----------------------------------------------------------------------------
(* A queued entry has an owner *)

\* A goroutine that is about to queue its entry asks for the exit on its behalf.
QueueingAsksForExit == \A t \in Thread : pc[t] = "queue" => job[t].queues

QueueInv == QueueHasOwner /\ QueueingAsksForExit

\* What a goroutine that owns no queued entry does leaves the owner alone.
LEMMA OwnerStays ==
  ASSUME TypeOK, QueueInv, NEW t \in Thread, pc[t] \notin {"exit", "unqueue"},
         NEW label, NEW j, Turn(t, label, j), label = "queue" => j.queues,
         UNCHANGED <<active, exitFailed>>,
         queued' = NotQueued \/ UNCHANGED <<queued, exitPending>>
  PROVE  QueueInv'
<1>1. \A u \in Thread : u # t => pc'[u] = pc[u] /\ job'[u] = job[u]
  BY DEF Turn, TypeOK
<1>2. pc'[t] = label /\ job'[t] = j
  BY DEF Turn, TypeOK
<1>3. QueueingAsksForExit'
  BY <1>1, <1>2 DEF QueueInv, QueueingAsksForExit
<1>4. CASE queued' = NotQueued
  BY <1>3, <1>4 DEF QueueInv, QueueHasOwner, NotQueued
<1>5. CASE UNCHANGED <<queued, exitPending>>
  <2>1. SUFFICES ASSUME queued.queued, ~exitFailed, active, ~exitPending
                 PROVE  \E u \in Thread : job'[u].queues /\ pc'[u] \in {"exit", "unqueue"}
    BY <1>3, <1>5 DEF QueueInv, QueueHasOwner
  <2>2. PICK u \in Thread : job[u].queues /\ pc[u] \in {"exit", "unqueue"}
    BY <2>1 DEF QueueInv, QueueHasOwner
  <2> QED BY <1>1, <2>2
<1> QED BY <1>4, <1>5

\* What no goroutine takes part in leaves the owner alone, too.
LEMMA NobodyMoves ==
  ASSUME QueueInv, UNCHANGED <<pc, job, exitFailed>>,
         queued' = NotQueued \/ UNCHANGED <<queued, exitPending>>,
         active' => active \/ queued' = NotQueued
  PROVE  QueueInv'
BY DEF QueueInv, QueueHasOwner, QueueingAsksForExit, NotQueued

\* Once nothing is queued there is nothing to own.
LEMMA NothingQueued ==
  ASSUME TypeOK, QueueInv, NEW t \in Thread, NEW label, NEW j, Turn(t, label, j),
         label # "queue", queued' = NotQueued
  PROVE  QueueInv'
BY DEF QueueInv, QueueHasOwner, QueueingAsksForExit, NotQueued, Turn, TypeOK

\* The owner begins the exit, and from then on the exit under way owns the entry.
LEMMA BeginExitOwner ==
  ASSUME TypeOK, QueueInv, NEW t \in Thread, BeginExit(t)
  PROVE  QueueInv'
<1> USE DEF streamed, place, transition, bounds
<1>0. PICK label \in {"idle", "unqueue", "exit_lock"} : \E j : Turn(t, label, j)
  BY DEF BeginExit, GiveUpExit, Goto
<1>1. PICK j : Turn(t, label, j)
  BY <1>0
<1>2. QueueingAsksForExit'
  BY <1>1 DEF QueueInv, QueueingAsksForExit, Turn, TypeOK
<1>3. CASE ~active
  BY <1>2, <1>3 DEF BeginExit, QueueInv, QueueHasOwner
<1>4. CASE active /\ ~inVehicle
  BY <1>2, <1>4 DEF BeginExit, QueueInv, QueueHasOwner, EndTransitions, NotQueued
<1>5. CASE active /\ inVehicle
  BY <1>2, <1>5 DEF BeginExit, QueueInv, QueueHasOwner
<1> QED BY <1>3, <1>4, <1>5 DEF TypeOK

LEMMA StepOwner ==
  ASSUME TypeOK, QueueInv, NEW t \in Thread,
         CallEnter(t) \/ CallExit(t) \/ Step(t)
  PROVE  QueueInv'
<1> USE DEF streamed, place, transition, bounds, Goto
<1>1. CASE CallEnter(t) \/ CallExit(t)
  <2>0. PICK label \in {"check", "exit"} : \E j : Turn(t, label, j)
    BY <1>1 DEF CallEnter, CallExit
  <2>1. PICK j : Turn(t, label, j)
    BY <2>0
  <2> QED BY <1>1, <2>1, OwnerStays DEF CallEnter, CallExit
<1>2. CASE CheckEntry(t)
  <2>1. UNCHANGED <<active, exitFailed, queued, exitPending>> /\ pc[t] = "check"
    BY <1>2 DEF CheckEntry
  <2>2. CASE Turn(t, "idle", NoJob)
    BY <2>1, <2>2, OwnerStays
  <2>3. CASE Turn(t, IF NeedsVehicleExit(job[t].target) THEN "queue" ELSE "enter_lock",
                  [job[t] EXCEPT !.known = RequiresKnown(t),
                                 !.queues = NeedsVehicleExit(job[t].target)])
    <3> DEFINE j == [job[t] EXCEPT !.known = RequiresKnown(t),
                                   !.queues = NeedsVehicleExit(job[t].target)]
    <3>1. job[t] \in Job
      BY DEF TypeOK
    <3>2. j.queues = NeedsVehicleExit(job[t].target)
      BY <3>1 DEF Job
    <3>3. CASE NeedsVehicleExit(job[t].target)
      <4>1. Turn(t, "queue", j)
        BY <2>3, <3>3
      <4> QED BY <2>1, <3>2, <3>3, <4>1, OwnerStays
    <3>4. CASE ~NeedsVehicleExit(job[t].target)
      <4>1. Turn(t, "enter_lock", j)
        BY <2>3, <3>4
      <4> QED BY <2>1, <4>1, OwnerStays
    <3> QED BY <3>3, <3>4
  <2> QED BY <1>2, <2>2, <2>3 DEF CheckEntry
<1>3. CASE QueueEntry(t)
  <2>1. job[t].queues
    BY <1>3 DEF QueueEntry, QueueInv, QueueingAsksForExit
  <2>2. pc'[t] = "exit" /\ job'[t].queues
    BY <1>3, <2>1 DEF QueueEntry, Turn, TypeOK
  <2>3. QueueingAsksForExit'
    BY <1>3 DEF QueueEntry, Turn, TypeOK, QueueInv, QueueingAsksForExit
  <2> QED BY <2>2, <2>3 DEF QueueInv, QueueHasOwner
<1>4. CASE UnqueueEntry(t)
  <2>1. Turn(t, "idle", NoJob) /\ queued' = NotQueued
    BY <1>4 DEF UnqueueEntry
  <2> QED BY <2>1, NothingQueued
<1>5. CASE LockEntry(t) \/ WriteEntry(t) \/ AwaitEntry(t) \/ RecheckEntry(t)
             \/ LockExit(t)
  <2>0. PICK label \in Label \ {"queue"} : \E j : Turn(t, label, j)
    BY <1>5 DEF LockEntry, WriteEntry, AwaitEntry, RecheckEntry, LockExit, Label
  <2>1. PICK j : Turn(t, label, j)
    BY <2>0
  <2>2. pc[t] \notin {"exit", "unqueue"}
          /\ UNCHANGED <<active, exitFailed, queued, exitPending>>
    BY <1>5 DEF LockEntry, WriteEntry, AwaitEntry, RecheckEntry, LockExit
  <2> QED BY <2>1, <2>2, OwnerStays
<1>6. CASE CompleteDirect(t) \/ CompleteNormal(t)
  <2>1. Turn(t, "idle", NoJob) /\ CompleteVehicleEntry(t)
          /\ pc[t] \notin {"exit", "unqueue"} /\ UNCHANGED <<active, exitFailed>>
    BY <1>6 DEF CompleteDirect, CompleteNormal
  <2>2. queued' = NotQueued \/ UNCHANGED <<queued, exitPending>>
    BY <2>1 DEF CompleteVehicleEntry, SetVehicleState, EndTransitions
  <2> QED BY <2>1, <2>2, OwnerStays
<1>7. CASE BeginExit(t)
  BY <1>7, BeginExitOwner
<1>8. CASE WriteExit(t)
  <2>0. PICK label \in {"exit_commit", "unqueue", "idle"} : \E j : Turn(t, label, j)
    BY <1>8 DEF WriteExit, GiveUpExit
  <2>1. PICK j : Turn(t, label, j)
    BY <2>0
  <2>2. CASE exitFailed'
    BY <2>1, <2>2 DEF QueueInv, QueueHasOwner, QueueingAsksForExit, Turn, TypeOK
  <2>3. CASE ~exitFailed'
    <3>1. UNCHANGED <<active, exitFailed, queued, exitPending>> /\ pc[t] = "exit_write"
      BY <1>8, <2>3 DEF WriteExit
    <3> QED BY <2>1, <3>1, OwnerStays
  <2> QED BY <2>2, <2>3
<1>9. CASE CommitExit(t)
  <2>0. PICK label \in {"check", "idle"} : \E j : Turn(t, label, j)
    BY <1>9 DEF CommitExit
  <2>1. PICK j : Turn(t, label, j)
    BY <2>0
  <2>2. queued' = NotQueued
    BY <1>9 DEF CommitExit, EndTransitions
  <2> QED BY <2>1, <2>2, NothingQueued
<1> QED BY <1>1, <1>2, <1>3, <1>4, <1>5, <1>6, <1>7, <1>8, <1>9 DEF Step

LEMMA DecodeOwner ==
  ASSUME TypeOK, QueueInv, Decode
  PROVE  QueueInv'
<1> USE DEF streamed, place, transition, bounds
<1>1. ASSUME NEW keep, Detach(keep), UNCHANGED exitFailed
      PROVE  QueueInv'
  <2>1. queued' = NotQueued
    BY <1>1 DEF Detach, EndTransitions
  <2>2. CASE UNCHANGED <<pc, job>>
    BY <1>1, <2>1, <2>2, NobodyMoves
  <2>3. CASE \E t \in Continuation : Turn(t, "check", Continues)
    <3>1. PICK t \in Thread : Turn(t, "check", Continues)
      BY <2>3 DEF Thread
    <3> QED BY <2>1, <3>1, NothingQueued
  <2> QED BY <1>1, <2>2, <2>3 DEF Detach
<1>2. CASE PutPlayerInVehicle
  BY <1>2, NobodyMoves DEF PutPlayerInVehicle, SetVehicleState, EndTransitions
<1>3. CASE RemoveFromVehicle
  BY <1>1, <1>3 DEF RemoveFromVehicle
<1>4. CASE SetOnFootPosition \/ StoreVehicle \/ RepairVehicle \/ Die \/ BeginLife
  BY <1>4, NobodyMoves
     DEF SetOnFootPosition, StoreVehicle, RepairVehicle, Die, BeginLife,
         EndTransitions
<1>5. CASE EndVehicle \/ DetachLocalVehicle
  <2>1. PICK v \in Vehicle : LeaveVehicle(v)
    BY <1>5 DEF EndVehicle, DetachLocalVehicle
  <2>2. UNCHANGED <<active, exitFailed>>
    BY <1>5 DEF EndVehicle, DetachLocalVehicle
  <2>3. CASE inVehicle /\ vehicleID = v
    BY <1>1, <2>1, <2>2, <2>3 DEF LeaveVehicle
  <2>4. CASE ~(inVehicle /\ vehicleID = v)
    BY <2>1, <2>2, <2>4, NobodyMoves DEF CancelFor, LeaveVehicle
  <2> QED BY <2>3, <2>4
<1> QED BY <1>2, <1>3, <1>4, <1>5 DEF Decode

\* A queued entry has somebody who goes on with it or takes it back: the exit
\* under way, or its caller, who begins one or takes it back.  That needs a
\* caller who queues an entry to ask for the exit on its behalf.
THEOREM QueueOwned == Spec => []QueueHasOwner
<1>1. Init => QueueInv
  BY DEF Init, QueueInv, QueueHasOwner, QueueingAsksForExit, NotQueued
<1>2. TypeOK /\ QueueInv /\ [Next]_vars => QueueInv'
  <2> SUFFICES ASSUME TypeOK, QueueInv, [Next]_vars PROVE QueueInv'
    OBVIOUS
  <2>1. CASE Decode
    BY <2>1, DecodeOwner
  <2>2. ASSUME NEW t \in Thread, CallEnter(t) \/ CallExit(t) \/ Step(t)
        PROVE  QueueInv'
    BY <2>2, StepOwner
  <2>3. CASE UNCHANGED vars
    BY <2>3, NobodyMoves DEF vars, streamed, place, transition
  <2> QED BY <2>1, <2>2, <2>3 DEF Next
<1>3. QueueInv => QueueHasOwner
  BY DEF QueueInv
<1> QED BY <1>1, <1>2, <1>3, TypeCorrect, PTL DEF Spec
=============================================================================
