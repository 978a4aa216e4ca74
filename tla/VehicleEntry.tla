----------------------------- MODULE VehicleEntry -----------------------------
(***************************************************************************)
(* Entering and leaving a vehicle in samp.Client: callers of EnterVehicle  *)
(* and ExitVehicle, the goroutines that continue a queued entry, and the   *)
(* decoder, over the fields guarded by stateMu.  A step is one critical    *)
(* section of stateMu or one write to the connection; syncMu is held over  *)
(* several steps.  Life and death are external here (SpawnProtocol models  *)
(* them): they end every transition.                                       *)
(*                                                                         *)
(* Where a caller that is too far away would be turned down, the model may *)
(* turn it down.                                                           *)
(***************************************************************************)
EXTENDS Naturals, FiniteSets

CONSTANTS
  Api,              \* callers of EnterVehicle and ExitVehicle
  Continuation,     \* goroutines that continue a queued entry
  Nobody,           \* the owner of the free syncMu
  Vehicle,
  NoVehicle,
  Seat,             \* the seats that are asked for: passenger or not
  MaxCalls,         \* bound: calls of the API
  MaxMessages,      \* bound: messages of the server
  MaxFaults         \* bound: writes that fail

Thread == Api \cup Continuation

ASSUME ThreadAssumption == Nobody \notin Thread /\ NoVehicle \notin Vehicle
ASSUME VehicleAssumption == Vehicle # {}
ASSUME SeatAssumption == Seat \subseteq BOOLEAN /\ Seat # {}
ASSUME DisjointAssumption == Api \cap Continuation = {}
ASSUME BoundAssumption ==
  MaxCalls \in Nat /\ MaxMessages \in Nat /\ MaxFaults \in Nat

VARIABLES
  vehicles,        \* what is streamed in: "gone", "alive" or "wrecked"
  active,          \* spawned and not dying
  inVehicle, vehicleID, passenger,
  pending,         \* the entry under way, or none
  queued,          \* the entry that waits for an exit, or none
  exitPending,
  nextVehicleEntryID,
  syncMu,
  pc, job,         \* where each goroutine is, and what it was called with
  assured,         \* history: the stay began with a look at the vehicle, or by
                   \* the server
  ended,           \* history: the vehicles whose removal or destruction was the
                   \* last news of them
  exitFailed,      \* history: the write of an exit has failed
  calls, messages, faults

streamed   == <<vehicles, ended>>
place      == <<inVehicle, vehicleID, passenger, assured>>
transition == <<pending, queued, exitPending, nextVehicleEntryID>>
bounds     == <<calls, messages, faults>>
vars == <<streamed, active, place, transition, syncMu, pc, job, exitFailed,
          bounds>>

Mode == {"direct", "normal"}

\* A vehicle, a seat and a way to get there.
Target == [vehicle : Vehicle, passenger : Seat, mode : Mode]

\* Every job has a target; "known" says that the vehicle has to be streamed in,
\* "continued" that the job continues a queued entry, "queues" that its exit
\* was asked for by an entry.
Job == [target : Target, known : BOOLEAN, continued : BOOLEAN, queues : BOOLEAN,
        id : Nat]

\* The job of a call that has only begun.
Called(t) == [target |-> t, known |-> FALSE, continued |-> FALSE,
              queues |-> FALSE, id |-> 0]

NoJob == Called(CHOOSE target \in Target : TRUE)

Entry == [id : Nat \ {0}, target : Target, known : BOOLEAN]
QueuedEntry == [queued : {TRUE}, target : Target, known : BOOLEAN]

None == [id |-> 0]
Pending(id, t, known) == [id |-> id, target |-> t, known |-> known]
IsPending(id, t) == pending # None /\ pending.id = id /\ pending.target = t

NotQueued == [queued |-> FALSE]
Queued(t, known) == [queued |-> TRUE, target |-> t, known |-> known]

Label == {"idle", "check", "queue", "unqueue", "exit", "exit_lock", "exit_write",
          "exit_commit", "enter_lock", "enter_write", "enter_complete",
          "await", "recheck", "complete"}

TypeOK ==
  /\ vehicles \in [Vehicle -> {"gone", "alive", "wrecked"}]
  /\ active \in BOOLEAN /\ inVehicle \in BOOLEAN /\ passenger \in BOOLEAN
  /\ vehicleID \in Vehicle \cup {NoVehicle}
  /\ inVehicle <=> vehicleID # NoVehicle
  /\ pending \in {None} \cup Entry /\ queued \in {NotQueued} \cup QueuedEntry
  /\ exitPending \in BOOLEAN /\ nextVehicleEntryID \in Nat
  /\ syncMu \in Thread \cup {Nobody}
  /\ pc \in [Thread -> Label]
  /\ job \in [Thread -> Job]
  /\ assured \in BOOLEAN /\ ended \subseteq Vehicle /\ exitFailed \in BOOLEAN
  /\ calls \in 0..MaxCalls /\ messages \in 0..MaxMessages
  /\ faults \in 0..MaxFaults

Init ==
  /\ vehicles = [v \in Vehicle |-> "alive"]
  /\ active = TRUE
  /\ inVehicle = FALSE /\ vehicleID = NoVehicle /\ passenger = FALSE
  /\ pending = None /\ queued = NotQueued /\ exitPending = FALSE
  /\ nextVehicleEntryID = 0
  /\ syncMu = Nobody
  /\ pc = [t \in Thread |-> "idle"]
  /\ job = [t \in Thread |-> NoJob]
  /\ assured = FALSE /\ ended = {} /\ exitFailed = FALSE
  /\ calls = 0 /\ messages = 0 /\ faults = 0

-----------------------------------------------------------------------------
\* A goroutine goes on with its job, or with another one.  A job ends with the
\* call it was made for.
Turn(t, label, j) ==
  pc' = [pc EXCEPT ![t] = label] /\ job' = [job EXCEPT ![t] = j]
Goto(t, label) == Turn(t, label, IF label = "idle" THEN NoJob ELSE job[t])

\* A write to the connection, which may fail.
Write(ok) ==
  IF ok THEN UNCHANGED faults ELSE faults < MaxFaults /\ faults' = faults + 1

Alive(v) == vehicles[v] = "alive"

\* Mutant of OnFoot: the vehicle is left, its number is kept.
OnFootKeepingVehicle ==
  inVehicle' = FALSE /\ passenger' = FALSE /\ assured' = FALSE
    /\ UNCHANGED vehicleID

OnFoot ==
  inVehicle' = FALSE /\ vehicleID' = NoVehicle /\ passenger' = FALSE
    /\ assured' = FALSE

EndTransitions == pending' = None /\ queued' = NotQueued /\ exitPending' = FALSE

\* setVehicleStateLocked
SetVehicleState(v, seat, checked) ==
  /\ inVehicle' = TRUE /\ vehicleID' = v /\ passenger' = seat
  /\ assured' = checked
  /\ EndTransitions

NeedsVehicleExit(t) ==
  inVehicle /\ (vehicleID # t.vehicle \/ passenger # t.passenger)

-----------------------------------------------------------------------------
\* enterVehicle

CallEnter(t) ==
  /\ pc[t] = "idle" /\ t \in Api /\ calls < MaxCalls
  /\ calls' = calls + 1
  /\ \E target \in Target : Turn(t, "check", Called(target))
  /\ UNCHANGED <<streamed, active, place, transition, syncMu, exitFailed,
                 messages, faults>>

\* What a queued entry requires was decided when it was queued.
RequiresKnown(t) ==
  IF job[t].continued THEN job[t].known
  ELSE Alive(job[t].target.vehicle) \/ vehicles[job[t].target.vehicle] = "wrecked"
         \/ job[t].target.mode = "normal"

TurnedDown(t) ==
  LET v == job[t].target.vehicle
  IN \/ ~active
     \/ inVehicle /\ ~NeedsVehicleExit(job[t].target)
     \/ pending # None \/ queued.queued
     \/ job[t].continued /\ RequiresKnown(t) /\ ~Alive(v)
     \/ job[t].target.mode = "normal"     \* too far away, or not alive

\* The whole state is read in one critical section, and acted on in later ones.
CheckEntry(t) ==
  /\ pc[t] = "check"
  /\ \/ TurnedDown(t) /\ Goto(t, "idle")
     \/ /\ active /\ pending = None /\ ~queued.queued
        /\ ~inVehicle \/ NeedsVehicleExit(job[t].target)
        /\ (job[t].continued /\ RequiresKnown(t)) \/ job[t].target.mode = "normal"
             => Alive(job[t].target.vehicle)
        /\ LET exit == NeedsVehicleExit(job[t].target)
           IN Turn(t, IF exit THEN "queue" ELSE "enter_lock",
                   [job[t] EXCEPT !.known = RequiresKnown(t), !.queues = exit])
  /\ UNCHANGED <<streamed, active, place, transition, syncMu, exitFailed, bounds>>

QueueEntry(t) ==
  /\ pc[t] = "queue"
  /\ queued' = Queued(job[t].target, job[t].known)
  /\ Goto(t, "exit")
  /\ UNCHANGED <<streamed, active, place, pending, exitPending,
                 nextVehicleEntryID, syncMu, exitFailed, bounds>>

UnqueueEntry(t) ==
  /\ pc[t] = "unqueue"
  /\ queued' = NotQueued
  /\ Goto(t, "idle")
  /\ UNCHANGED <<streamed, active, place, pending, exitPending,
                 nextVehicleEntryID, syncMu, exitFailed, bounds>>

\* Mutant of LockEntry: the vehicle is not looked at a second time.
LockEntryUnchecked(t) ==
  /\ pc[t] = "enter_lock" /\ syncMu = Nobody
  /\ IF ~active
       THEN Goto(t, "idle") /\ UNCHANGED <<pending, nextVehicleEntryID, syncMu>>
       ELSE /\ nextVehicleEntryID' = nextVehicleEntryID + 1
            /\ pending' = Pending(nextVehicleEntryID + 1, job[t].target, job[t].known)
            /\ syncMu' = t
            /\ Turn(t, "enter_write", [job[t] EXCEPT !.id = nextVehicleEntryID + 1])
  /\ UNCHANGED <<streamed, active, place, queued, exitPending, exitFailed, bounds>>

\* The entry is marked before its RPC is written, both under syncMu.
LockEntry(t) ==
  /\ pc[t] = "enter_lock" /\ syncMu = Nobody
  /\ IF ~active \/ (job[t].known /\ ~Alive(job[t].target.vehicle))
       THEN Goto(t, "idle") /\ UNCHANGED <<pending, nextVehicleEntryID, syncMu>>
       ELSE /\ nextVehicleEntryID' = nextVehicleEntryID + 1
            /\ pending' = Pending(nextVehicleEntryID + 1, job[t].target, job[t].known)
            /\ syncMu' = t
            /\ Turn(t, "enter_write", [job[t] EXCEPT !.id = nextVehicleEntryID + 1])
  /\ UNCHANGED <<streamed, active, place, queued, exitPending, exitFailed, bounds>>

\* cancelPendingVehicleEntry: only the entry of this caller is cancelled.
CancelOwn(t) ==
  pending' = IF IsPending(job[t].id, job[t].target) THEN None ELSE pending

WriteEntry(t) ==
  /\ pc[t] = "enter_write"
  /\ \E ok \in BOOLEAN :
       /\ Write(ok)
       /\ IF ok
            THEN /\ Goto(t, IF job[t].target.mode = "direct" THEN "enter_complete"
                                                             ELSE "await")
                 /\ syncMu' = IF job[t].target.mode = "direct" THEN t ELSE Nobody
                 /\ UNCHANGED pending
            ELSE CancelOwn(t) /\ Goto(t, "idle") /\ syncMu' = Nobody
  /\ UNCHANGED <<streamed, active, place, queued, exitPending,
                 nextVehicleEntryID, exitFailed, calls, messages>>

\* completeVehicleEntry
CompleteVehicleEntry(t) ==
  LET checked == job[t].target.mode = "normal" \/ pending.known
  IN IF active /\ IsPending(job[t].id, job[t].target)
       THEN IF checked /\ ~Alive(job[t].target.vehicle)
              THEN pending' = None /\ UNCHANGED <<place, queued, exitPending>>
              ELSE SetVehicleState(job[t].target.vehicle,
                                   job[t].target.passenger, checked)
       ELSE UNCHANGED <<place, pending, queued, exitPending>>

CompleteDirect(t) ==
  /\ pc[t] = "enter_complete"
  /\ CompleteVehicleEntry(t)
  /\ syncMu' = Nobody
  /\ Goto(t, "idle")
  /\ UNCHANGED <<streamed, active, nextVehicleEntryID, exitFailed, bounds>>

\* The timer of a normal entry, or a failed sync, a done context.
AwaitEntry(t) ==
  /\ pc[t] = "await"
  /\ \/ Goto(t, "recheck") /\ UNCHANGED pending
     \/ CancelOwn(t) /\ Goto(t, "idle")
  /\ UNCHANGED <<streamed, active, place, queued, exitPending, nextVehicleEntryID,
                 syncMu, exitFailed, bounds>>

RecheckEntry(t) ==
  /\ pc[t] = "recheck"
  /\ LET placed == inVehicle /\ ~NeedsVehicleExit(job[t].target)
     IN Goto(t, IF ~placed /\ IsPending(job[t].id, job[t].target)
                  THEN "complete" ELSE "idle")
  /\ UNCHANGED <<streamed, active, place, transition, syncMu, exitFailed,
                 bounds>>

CompleteNormal(t) ==
  /\ pc[t] = "complete"
  /\ CompleteVehicleEntry(t)
  /\ Goto(t, "idle")
  /\ UNCHANGED <<streamed, active, nextVehicleEntryID, syncMu, exitFailed,
                 bounds>>

-----------------------------------------------------------------------------
\* exitVehicle

CallExit(t) ==
  /\ pc[t] = "idle" /\ t \in Api /\ calls < MaxCalls
  /\ calls' = calls + 1
  /\ Goto(t, "exit")
  /\ UNCHANGED <<streamed, active, place, transition, syncMu, exitFailed,
                 messages, faults>>

\* An exit that an entry asked for takes the entry back when it fails.
GiveUpExit(t) == Goto(t, IF job[t].queues THEN "unqueue" ELSE "idle")

\* Mutant of BeginExit: a queued entry outlives a caller on foot.
BeginExitKeepingQueue(t) ==
  /\ pc[t] = "exit"
  /\ \/ ~active /\ GiveUpExit(t) /\ UNCHANGED <<pending, queued, exitPending>>
     \/ /\ active /\ ~inVehicle
        /\ pending' = None /\ exitPending' = FALSE /\ UNCHANGED queued
        /\ Goto(t, "idle")
     \/ /\ active /\ inVehicle
        /\ Goto(t, IF exitPending THEN "idle" ELSE "exit_lock")
        /\ exitPending' = TRUE
        /\ UNCHANGED <<pending, queued>>
  /\ UNCHANGED <<streamed, active, place, nextVehicleEntryID, syncMu, exitFailed, bounds>>

BeginExit(t) ==
  /\ pc[t] = "exit"
  /\ \/ ~active /\ GiveUpExit(t) /\ UNCHANGED <<pending, queued, exitPending>>
     \/ active /\ ~inVehicle /\ EndTransitions /\ Goto(t, "idle")
     \/ /\ active /\ inVehicle
        /\ Goto(t, IF exitPending THEN "idle" ELSE "exit_lock")
        /\ exitPending' = TRUE
        /\ UNCHANGED <<pending, queued>>
  /\ UNCHANGED <<streamed, active, place, nextVehicleEntryID, syncMu, exitFailed, bounds>>

LockExit(t) ==
  /\ pc[t] = "exit_lock" /\ syncMu = Nobody
  /\ syncMu' = t
  /\ Goto(t, "exit_write")
  /\ UNCHANGED <<streamed, active, place, transition, exitFailed, bounds>>

\* Mutant of WriteExit: syncMu stays locked when the write fails.
WriteExitHoldingLock(t) ==
  /\ pc[t] = "exit_write"
  /\ \E ok \in BOOLEAN :
       /\ Write(ok)
       /\ IF ok THEN Goto(t, "exit_commit") /\ UNCHANGED <<exitPending, exitFailed>>
                ELSE GiveUpExit(t) /\ exitPending' = FALSE /\ exitFailed' = TRUE
  /\ UNCHANGED <<streamed, active, place, pending, queued, nextVehicleEntryID,
                 syncMu, calls, messages>>

WriteExit(t) ==
  /\ pc[t] = "exit_write"
  /\ \E ok \in BOOLEAN :
       /\ Write(ok)
       /\ IF ok THEN Goto(t, "exit_commit")
                     /\ UNCHANGED <<exitPending, exitFailed, syncMu>>
                ELSE GiveUpExit(t) /\ exitPending' = FALSE /\ exitFailed' = TRUE
                     /\ syncMu' = Nobody
  /\ UNCHANGED <<streamed, active, place, pending, queued, nextVehicleEntryID,
                 calls, messages>>

\* The job of one who continues the queued entry.
Continues == [Called(queued.target) EXCEPT !.known = queued.known,
                                           !.continued = TRUE]

\* The player is on foot, and a queued entry is continued by the same caller.
CommitExit(t) ==
  /\ pc[t] = "exit_commit"
  /\ OnFoot /\ EndTransitions
  /\ syncMu' = Nobody
  /\ IF queued.queued THEN Turn(t, "check", Continues) ELSE Goto(t, "idle")
  /\ UNCHANGED <<streamed, active, nextVehicleEntryID, exitFailed, bounds>>

-----------------------------------------------------------------------------
\* The decoder

Message == messages < MaxMessages /\ messages' = messages + 1

\* RPC_PutPlayerInVehicle
PutPlayerInVehicle ==
  /\ Message /\ active
  /\ \E v \in Vehicle, seat \in Seat :
       SetVehicleState(v, seat, TRUE) /\ ended' = ended \ {v}
  /\ UNCHANGED <<vehicles, active, nextVehicleEntryID, syncMu, pc, job,
                 exitFailed, calls, faults>>

\* clearVehicleState and continueQueuedVehicleEntry
Detach(keep) ==
  /\ OnFoot /\ EndTransitions
  /\ IF queued.queued /\ keep
       THEN \E t \in Continuation : pc[t] = "idle" /\ Turn(t, "check", Continues)
       ELSE UNCHANGED <<pc, job>>

RemoveFromVehicle ==
  /\ Message
  /\ Detach(TRUE)
  /\ UNCHANGED <<streamed, active, nextVehicleEntryID, syncMu, exitFailed, calls,
                 faults>>

\* RPC_SetPlayerPos
SetOnFootPosition ==
  /\ Message
  /\ OnFoot /\ EndTransitions
  /\ UNCHANGED <<streamed, active, nextVehicleEntryID, syncMu, pc, job,
                 exitFailed, calls, faults>>

\* What is stored of a vehicle; the news that it is alive takes an end back.
Store(v, how) ==
  /\ vehicles' = [vehicles EXCEPT ![v] = how]
  /\ ended' = IF how = "alive" THEN ended \ {v} ELSE ended

\* RPC_WorldVehicleAdd, and observeVehicleSync of another driver's frame: what
\* they say is stored, a vehicle without health too, and nothing is cancelled.
StoreVehicle ==
  /\ Message
  /\ \E v \in Vehicle, how \in {"alive", "wrecked"} : Store(v, how)
  /\ UNCHANGED <<active, place, transition, syncMu, pc, job, exitFailed, calls,
                 faults>>

\* A positive RPC_SetVehicleHealth: applyServerVehicleHealth, under syncMu.
RepairVehicle ==
  /\ Message /\ syncMu = Nobody
  /\ \E v \in Vehicle : Store(v, "alive")
  /\ UNCHANGED <<active, place, transition, syncMu, pc, job, exitFailed, calls,
                 faults>>

\* cancelVehicleEntryForVehicleLocked
CancelFor(v) ==
  /\ pending' = IF pending # None /\ pending.target.vehicle = v THEN None ELSE pending
  /\ queued' = IF queued.queued /\ queued.target.vehicle = v THEN NotQueued ELSE queued

\* What concerns the vehicle is cancelled, and one who sits in it stands beside it.
LeaveVehicle(v) ==
  IF inVehicle /\ vehicleID = v
    THEN Detach(queued.queued /\ queued.target.vehicle # v)
    ELSE CancelFor(v) /\ UNCHANGED <<place, exitPending, pc, job>>

\* removeServerVehicle, and applyServerVehicleHealth with no health left.
EndVehicle ==
  /\ Message /\ syncMu = Nobody
  /\ \E v \in Vehicle, how \in {"gone", "wrecked"} :
       /\ vehicles' = [vehicles EXCEPT ![v] = how]
       /\ ended' = ended \cup {v}
       /\ LeaveVehicle(v)
  /\ UNCHANGED <<active, nextVehicleEntryID, syncMu, exitFailed, calls, faults>>

\* detachLocalVehicle: a native backend reports the destruction, and the vehicle
\* is left as it is.
DetachLocalVehicle ==
  /\ Message /\ syncMu = Nobody
  /\ \E v \in Vehicle : LeaveVehicle(v)
  /\ UNCHANGED <<streamed, active, nextVehicleEntryID, syncMu, exitFailed,
                 calls, faults>>

\* A death is reserved; then it is completed, or a new session or life begins.
Die ==
  /\ Message /\ active
  /\ active' = FALSE
  /\ UNCHANGED <<streamed, place, transition, syncMu, pc, job, exitFailed, calls,
                 faults>>

BeginLife ==
  /\ ~active /\ syncMu = Nobody
  /\ OnFoot /\ EndTransitions
  /\ active' = TRUE
  /\ \/ UNCHANGED streamed
     \/ vehicles' = [v \in Vehicle |-> "gone"] /\ ended' = {}
  /\ UNCHANGED <<nextVehicleEntryID, syncMu, pc, job, exitFailed, bounds>>

-----------------------------------------------------------------------------
Step(t) ==
  \/ CheckEntry(t) \/ QueueEntry(t) \/ UnqueueEntry(t) \/ LockEntry(t)
  \/ WriteEntry(t) \/ CompleteDirect(t) \/ AwaitEntry(t) \/ RecheckEntry(t)
  \/ CompleteNormal(t) \/ BeginExit(t) \/ LockExit(t) \/ WriteExit(t)
  \/ CommitExit(t)

Decode == \/ PutPlayerInVehicle \/ RemoveFromVehicle \/ SetOnFootPosition
          \/ StoreVehicle \/ RepairVehicle \/ EndVehicle
          \/ DetachLocalVehicle \/ Die \/ BeginLife

Next == \/ Decode
        \/ \E t \in Thread : CallEnter(t) \/ CallExit(t) \/ Step(t)

Spec == Init /\ [][Next]_vars

\* The goroutines are scheduled, a write ends, a mutex that is released again
\* and again is obtained at some time, and so a timer fires.
FairSpec == Spec /\ \A t \in Thread : SF_vars(Step(t))

-----------------------------------------------------------------------------
\* Properties

\* A vehicle that was removed or destroyed is not entered: the client never goes
\* on with an entry that requires its vehicle, and never sits by such an entry or
\* by the server's placement, in a vehicle whose removal or destruction is the
\* last news of it that was decoded.  The comment of enterVehicle names the
\* danger: to enter a vehicle after its remove or death RPC was processed.
NeverInEndedVehicle ==
  /\ assured => inVehicle /\ vehicleID \notin ended
  /\ pending # None /\ pending.known => pending.target.vehicle \notin ended

\* A queued entry has somebody who will go on with it or take it back, unless
\* the write of an exit has failed: that one leaves an entry of another caller
\* behind.
QueueHasOwner ==
  queued.queued /\ ~exitFailed /\ active =>
    exitPending \/ \E t \in Thread : job[t].queues /\ pc[t] \in {"exit", "unqueue"}

\* A vehicle is changed by way of an exit: nobody who sits in one is moved to
\* another by the entry of a caller.
ExitFirst ==
  [][\A t \in Thread :
       (CompleteDirect(t) \/ CompleteNormal(t)) /\ inVehicle =>
          vehicleID' = vehicleID /\ passenger' = passenger]_vars

\* Every call returns.
CallsReturn == \A t \in Thread : pc[t] # "idle" ~> pc[t] = "idle"
=============================================================================
