--------------------------- MODULE PluginHostProofs ---------------------------
(***************************************************************************)
(* Theorems about PluginHost, for any number of callers and processes and  *)
(* without regard to the bounds of the model-checked instance.             *)
(***************************************************************************)
EXTENDS PluginHost, TLAPS

\* Where a thread has the lifecycle mutex, and where it has a request in hand.
Holding == {"await", "launch", "publish"}
Early   == {"slot", "request"}
Late    == {"enqueue", "answer"}
Asking  == Early \cup Late

\* The lifecycle mutex is held exactly inside process.stop, replaceProcess and
\* addProcess, and the goroutine that restarts a process runs after its end.
MutexInv ==
  /\ \A t \in Thread : pc[t] \in Holding => lifecycle = t
  /\ lifecycle # Nobody => pc[lifecycle] \in Holding
  /\ \A p \in Process : pc[p] # "idle" => p \in finished

\* What the holder of the lifecycle mutex may rely on.
HolderKnows(t) ==
  /\ pc[t] = "await" => Live \subseteq {job[t].old}
  /\ pc[t] = "launch" => Live = {}
  /\ pc[t] = "publish" =>
       job[t].new \in Process /\ Live \subseteq {job[t].new} /\ halted = "no"
  /\ pc[t] = "launch" => job[t].then \in {"replace", "discover"}
  /\ pc[t] = "await" /\ job[t].then \in {"stop", "close"} =>
       current = job[t].old /\ current \in stopRequested
  /\ pc[t] \in {"await", "launch"} /\ job[t].then = "replace" =>
       halted # "closed" /\ (t \in Process => halted = "no")

HolderInv == \A t \in Thread : HolderKnows(t)

\* NoStrayProcess made inductive: a process that is stopped for good is not the
\* one that an automatic restart looks for.
ProcessInv ==
  /\ lifecycle = Nobody => Live \subseteq {current}
  /\ halted # "no" => Live = {} /\ current \in stopRequested \cup {Nobody}
  /\ halted = "closed" => closed
  /\ \A t \in Thread :
       pc[t] = "close" \/ (pc[t] = "await" /\ job[t].then = "close") => closed

\* RequestsSettled made inductive: a number that no caller has used, or that its
\* caller has not registered, is nowhere, a request is owed by one process or
\* answered, and a process that has finished is never active again.  A process
\* owes what is registered at it and what its reader has taken.
Owed(p) == pending[p] \cup ({reading[p]} \cap Request)

Fresh(r) == waiter[r] = 0 /\ \A p \in Process : r \notin Owed(p)

AskerKnows(t) ==
  /\ pc[t] \in Asking => job[t].old \in Process /\ job[t].request \in 1..calls
  /\ pc[t] \in Early => Fresh(job[t].request)
  /\ pc[t] \in Late =>
       job[t].request \in Owed(job[t].old) \/ waiter[job[t].request] = 1

AskerInv == \A t \in Api : AskerKnows(t)

DistinctInv ==
  \A t, u \in Api : pc[t] \in Asking /\ pc[u] \in Asking
                    /\ job[t].request = job[u].request => t = u

PendingInv ==
  /\ \A r \in Request : r > calls => Fresh(r)
  /\ \A p \in Process : \A r \in Owed(p) :
       waiter[r] = 0 /\ \A q \in Process : r \in Owed(q) => q = p
  /\ \A p \in Process : reading[p] \notin pending[p]

FinishedInv ==
  /\ \A p \in finished : pending[p] = {} /\ ~Active(p)
  /\ \A p \in done : os[p] \in {"exited", "killed"}

RequestInv == AskerInv /\ DistinctInv /\ PendingInv /\ FinishedInv

-----------------------------------------------------------------------------
(* Type correctness of a step *)

\* Where a thread can be, and what a status can be.
Place == Call \cup {"idle", "await", "launch", "publish", "slot", "request",
                    "enqueue", "answer", "delay", "auto"}
Status == {"stopped", "disabled", "starting", "running", "error"}
Existence == {"none", "running", "exited", "killed"}

\* The type of what a thread with the lifecycle mutex may change.
HostType ==
  /\ lifecycle \in Thread \cup {Nobody}
  /\ os \in [Process -> Existence]
  /\ done \subseteq Process /\ finished \subseteq done
  /\ status \in [Process -> Status]
  /\ stopRequested \subseteq Process
  /\ pc \in [Thread -> Place]
  /\ job \in [Thread -> Job]

\* The type of everything else.
RestType ==
  /\ closed \in BOOLEAN
  /\ current \in Process \cup {Nobody}
  /\ pending \in [Process -> SUBSET Request]
  /\ reading \in [Process -> 0..MaxCalls]
  /\ waiter \in [Request -> 0..1]
  /\ halted \in {"no", "stopped", "closed"}
  /\ calls \in 0..MaxCalls /\ ticks \in 0..MaxTicks

\* The type invariant is the conjunction of its parts.
LEMMA TypeParts ==
  (TypeOK <=> HostType /\ RestType) /\ (TypeOK' <=> HostType' /\ RestType')
BY DEF TypeOK, HostType, RestType, Place, Status, Existence

\* A thread that goes somewhere, or returns, leaves the threads well typed.
LEMMA GoesType ==
  ASSUME HostType, NEW t \in Thread
  PROVE  /\ \A l \in Place : Goto(t, l) => pc' \in [Thread -> Place]
         /\ Return(t) => pc' \in [Thread -> Place] /\ job' \in [Thread -> Job]
<1>1. "idle" \in Place
  BY DEF Place
<1>2. Nothing \in Job
  BY BoundAssumption DEF Nothing, Job
<1> QED
  BY <1>1, <1>2 DEF HostType, Return, Goto

\* The first half of process.stop (host.go:465-471) leaves everything well typed.
LEMMA BeginStopType ==
  ASSUME HostType, NEW t \in Thread, NEW p \in Process,
         NEW then \in {"stop", "close", "remove", "replace"},
         BeginStop(t, p, then)
  PROVE  HostType'
<1>1. pc' \in [Thread -> Place]
  BY GoesType DEF BeginStop, Place
<1>2. [job[t] EXCEPT !.old = p, !.then = then] \in Job
  BY DEF HostType, Job
<1>3. job' = [job EXCEPT ![t] = [job[t] EXCEPT !.old = p, !.then = then]]
  BY DEF BeginStop, HostType
<1>4. job' \in [Thread -> Job]
  BY <1>2, <1>3 DEF HostType
<1>5. os' \in [Process -> Existence]
  BY DEF BeginStop, HostType, Existence
<1> QED
  BY <1>1, <1>4, <1>5 DEF HostType, BeginStop

\* So does a call that is refused.
LEMMA RefuseType ==
  ASSUME HostType, NEW t \in Thread, Refuse(t)
  PROVE  HostType'
BY GoesType DEF Refuse, process, HostType

\* So does a thread that reads the manifest again.
LEMMA ReloadType ==
  ASSUME HostType, NEW t \in Thread, NEW p \in Process, Reload(t, p)
  PROVE  HostType'
<1>1. CASE BeginStop(t, p, "replace")
  BY <1>1, BeginStopType
<1>2. CASE Refuse(t)
  BY <1>2, RefuseType
<1>3. CASE ~BeginStop(t, p, "replace") /\ ~Refuse(t)
  <2>1. status' \in [Process -> Status]
    BY <1>3 DEF Reload, SetError, HostType, Status
  <2> QED
    BY <1>3, <2>1, GoesType DEF Reload, HostType
<1> QED
  BY <1>1, <1>2, <1>3

\* The calls of a caller, but for the requests, keep everything well typed.
LEMMA CallType ==
  ASSUME TypeOK, NEW t \in Api, Begin(t) \/ Start(t) \/ Stop(t) \/ Restart(t) \/ Close(t)
  PROVE  TypeOK'
<1> SUFFICES HostType' /\ RestType'
  BY TypeParts
<1> HostType /\ RestType
  BY TypeParts
<1> USE DEF RestType
<1> t \in Thread
  BY DEF Thread
<1>1. CASE Begin(t)
  <2>1. calls \in 0..MaxCalls /\ calls < MaxCalls /\ calls' \in 0..MaxCalls
    BY <1>1, BoundAssumption DEF Begin
  <2>2. closed' \in BOOLEAN /\ pc' \in [Thread -> Place]
    BY <1>1, GoesType, CallAssumption DEF Begin, Place, Call, Goto, HostType
  <2>3. job' \in [Thread -> Job]
    <3>1. CASE UNCHANGED job
      BY <3>1 DEF HostType
    <3>2. CASE /\ current # Nobody
               /\ job' = [job EXCEPT ![t].old = current, ![t].request = calls + 1]
      <4>1. [job[t] EXCEPT !.old = current, !.request = calls + 1] \in Job
        <5>1. calls + 1 \in 0..MaxCalls /\ current \in Process \cup {Nobody}
          BY <2>1, BoundAssumption
        <5> QED
          BY <5>1 DEF HostType, Job
      <4>2. job' = [job EXCEPT ![t] =
                      [job[t] EXCEPT !.old = current, !.request = calls + 1]]
        BY <3>2 DEF HostType
      <4> QED
        BY <4>1, <4>2 DEF HostType
    <3> QED
      BY <1>1, <3>1, <3>2 DEF Begin
  <2>4. UNCHANGED <<lifecycle, current, process, requests, halted, ticks>>
    BY <1>1 DEF Begin
  <2> QED
    BY <2>1, <2>2, <2>3, <2>4 DEF process, requests, HostType
<1>2. CASE Start(t)
  <2>1. HostType'
    <3>1. Refuse(t) \/ (current \in Process /\ BeginStop(t, current, "replace"))
      BY <1>2 DEF Start
    <3> QED
      BY <3>1, BeginStopType, RefuseType
  <2>2. UNCHANGED <<host, requests, bounds>> /\ (UNCHANGED halted \/ halted' = "closed")
    BY <1>2 DEF Start
  <2> QED
    BY <2>1, <2>2 DEF host, requests, bounds
<1>3. CASE Stop(t)
  <2>1. HostType'
    <3>1. Refuse(t) \/ (current \in Process /\ BeginStop(t, current, "stop"))
      BY <1>3 DEF Stop
    <3> QED
      BY <3>1, BeginStopType, RefuseType
  <2>2. UNCHANGED <<host, requests, bounds>> /\ (UNCHANGED halted \/ halted' = "closed")
    BY <1>3 DEF Stop
  <2> QED
    BY <2>1, <2>2 DEF host, requests, bounds
<1>4. CASE Restart(t)
  <2>1. HostType'
    <3>1. Refuse(t) \/ (current \in Process /\ Reload(t, current))
      BY <1>4 DEF Restart
    <3> QED
      BY <3>1, RefuseType, ReloadType
  <2>2. UNCHANGED <<host, requests, bounds>> /\ (UNCHANGED halted \/ halted' = "closed")
    BY <1>4 DEF Restart
  <2> QED
    BY <2>1, <2>2 DEF host, requests, bounds
<1>5. CASE Close(t)
  <2>1. HostType'
    <3>1. Refuse(t) \/ (current \in Process /\ BeginStop(t, current, "close"))
      BY <1>5 DEF Close
    <3> QED
      BY <3>1, BeginStopType, RefuseType
  <2>2. UNCHANGED <<host, requests, bounds>> /\ (UNCHANGED halted \/ halted' = "closed")
    BY <1>5 DEF Close
  <2> QED
    BY <2>1, <2>2 DEF host, requests, bounds
<1> QED
  BY <1>1, <1>2, <1>3, <1>4, <1>5

\* So do the steps of a request.
LEMMA RequestType ==
  ASSUME TypeOK, RequestInv, NEW t \in Api,
         TakeSlot(t) \/ Register(t) \/ Enqueue(t) \/ Answer(t)
  PROVE  TypeOK'
<1> SUFFICES HostType' /\ RestType'
  BY TypeParts
<1> HostType /\ RestType
  BY TypeParts
<1> USE DEF RestType
<1> t \in Thread
  BY DEF Thread
<1>1. pc' \in [Thread -> Place] /\ job' \in [Thread -> Job]
  <2>1. \/ UNCHANGED job /\ \E l \in Place : Goto(t, l)
        \/ Return(t)
    BY DEF TakeSlot, Register, Enqueue, Answer, Place
  <2> QED
    BY <2>1, GoesType DEF HostType
<1>2. pc[t] = "request" => job[t].request \in Request
  BY BoundAssumption
  DEF RequestInv, AskerInv, AskerKnows, Asking, Early, Request
<1>3. /\ pending' \in [Process -> SUBSET Request] /\ waiter' \in [Request -> 0..1]
      /\ UNCHANGED reading
  BY <1>2 DEF TakeSlot, Register, Enqueue, Answer, Unregister, requests
<1> QED
  BY <1>1, <1>3
     DEF TakeSlot, Register, Enqueue, Answer, host, process, bounds, HostType

\* So do the goroutines of a process.
LEMMA GoroutineType ==
  ASSUME TypeOK, RequestInv, NEW p \in Process, Goroutines(p)
  PROVE  TypeOK'
<1> SUFFICES HostType' /\ RestType'
  BY TypeParts
<1> HostType /\ RestType
  BY TypeParts
<1> USE DEF RestType
<1> p \in Thread
  BY DEF Thread
<1>1. CASE Exit(p)
  <2>1. os' \in [Process -> Existence]
    BY <1>1 DEF Exit, HostType, Existence
  <2> QED
    BY <1>1, <2>1 DEF Exit, host, requests, bounds, HostType
<1>2. CASE Ready(p)
  <2>1. status' \in [Process -> Status]
    BY <1>2 DEF Ready, HostType, Status
  <2> QED
    BY <1>2, <2>1 DEF Ready, host, requests, bounds, HostType
<1>3. CASE Fail(p)
  <2>1. status' \in [Process -> Status] /\ os' \in [Process -> Existence]
    BY <1>3 DEF Fail, SetError, HostType, Status, Existence
  <2> QED
    BY <1>3, <2>1 DEF Fail, host, requests, bounds, HostType
<1>4. CASE CloseDone(p)
  BY <1>4 DEF CloseDone, host, requests, bounds, HostType
<1>5. CASE Finish(p)
  <2>1. status' \in [Process -> Status]
    <3>1. FinalStatus(p) \in Status
      BY DEF FinalStatus, HostType, Status
    <3> QED
      BY <1>5, <3>1 DEF Finish, HostType
  <2>2. waiter' \in [Request -> 0..1]
    <3>1. \A r \in pending[p] : waiter[r] = 0
      BY DEF RequestInv, PendingInv, Owed
    <3>2. SUFFICES ASSUME NEW r \in Request
                   PROVE  (IF r \in pending[p] THEN waiter[r] + 1 ELSE waiter[r]) \in 0..1
      BY <1>5 DEF Finish
    <3> QED
      BY <3>1
  <2>3. pc' \in [Thread -> Place]
    BY <1>5, GoesType DEF Finish, Place, HostType
  <2>4. pending' \in [Process -> SUBSET Request] /\ os' \in [Process -> Existence]
    BY <1>5 DEF Finish, HostType, Existence
  <2> QED
    BY <1>5, <2>1, <2>2, <2>3, <2>4 DEF Finish, host, bounds, HostType
<1>6. CASE Delay(p)
  <2>1. pc' \in [Thread -> Place]
    BY <1>6, GoesType DEF Delay, Place
  <2> QED
    BY <1>6, <2>1 DEF Delay, host, process, requests, bounds, HostType
<1>7. CASE ScheduleRestart(p)
  <2>1. HostType'
    BY <1>7, RefuseType, ReloadType DEF ScheduleRestart
  <2> QED
    BY <1>7, <2>1 DEF ScheduleRestart, host, requests, bounds
<1>8. ASSUME NEW r \in Request, TakeWaiter(p, r) PROVE HostType' /\ RestType'
  <2>1. r \in 0..MaxCalls
    BY BoundAssumption DEF Request
  <2>2. pending' \in [Process -> SUBSET Request] /\ reading' \in [Process -> 0..MaxCalls]
    BY <1>8, <2>1 DEF TakeWaiter
  <2> QED
    BY <1>8, <2>2 DEF TakeWaiter, host, process, bounds, HostType
<1>9. CASE SendResult(p)
  <2>1. reading[p] \in Request
    BY <1>9, BoundAssumption DEF SendResult, Request
  <2>2. waiter[reading[p]] = 0
    BY <2>1 DEF RequestInv, PendingInv, Owed
  <2>3. 0 \in 0..MaxCalls
    BY BoundAssumption
  <2>4. waiter' \in [Request -> 0..1] /\ reading' \in [Process -> 0..MaxCalls]
    BY <1>9, <2>1, <2>2, <2>3 DEF SendResult
  <2> QED
    BY <1>9, <2>4 DEF SendResult, host, process, bounds, HostType
<1> QED
  BY <1>1, <1>2, <1>3, <1>4, <1>5, <1>6, <1>7, <1>8, <1>9 DEF Goroutines

\* So do the steps of the holder of the lifecycle mutex and of the watcher.
LEMMA HolderType ==
  ASSUME TypeOK, NEW t \in Thread, AwaitDone(t) \/ Launch(t) \/ Publish(t)
  PROVE  TypeOK'
<1> SUFFICES HostType' /\ RestType'
  BY TypeParts
<1> HostType /\ RestType
  BY TypeParts
<1> USE DEF RestType
<1>1. pc' \in [Thread -> Place] /\ (UNCHANGED job \/ Return(t) => job' \in [Thread -> Job])
  BY GoesType DEF AwaitDone, Launch, Publish, Release, Place, HostType
<1>2. CASE AwaitDone(t)
  <2>1. status' \in [Process -> Status]
    BY <1>2 DEF AwaitDone, HostType, Status
  <2>2. UNCHANGED job \/ Return(t)
    BY <1>2 DEF AwaitDone, Release
  <2>3. lifecycle' \in Thread \cup {Nobody}
    BY <1>2 DEF AwaitDone, Release, HostType
  <2>4. halted' \in {"no", "stopped", "closed"}
    BY <1>2 DEF AwaitDone
  <2> QED
    BY <1>1, <1>2, <2>1, <2>2, <2>3, <2>4
       DEF AwaitDone, host, requests, bounds, HostType
<1>3. CASE Launch(t)
  <2>1. status' \in [Process -> Status] /\ os' \in [Process -> Existence]
    BY <1>3 DEF Launch, HostType, Status, Existence
  <2>2. PICK p \in Unused :
          UNCHANGED job \/ Return(t) \/ job' = [job EXCEPT ![t].new = p]
    BY <1>3 DEF Launch, Release
  <2>3. job' \in [Thread -> Job]
    <3>1. p \in Process /\ job[t] \in Job
      BY DEF Unused, HostType
    <3>2. [job[t] EXCEPT !.new = p] \in Job
      BY <3>1 DEF Job
    <3>3. CASE job' = [job EXCEPT ![t].new = p]
      <4>1. job' = [job EXCEPT ![t] = [job[t] EXCEPT !.new = p]]
        BY <3>3 DEF HostType
      <4> QED
        BY <3>2, <4>1 DEF HostType
    <3> QED
      BY <1>1, <2>2, <3>3
  <2>4. lifecycle' \in Thread \cup {Nobody} /\ current' \in Process \cup {Nobody}
    BY <1>3 DEF Launch, Release, HostType, Unused
  <2>5. halted' \in {"no", "stopped", "closed"}
    BY <1>3 DEF Launch
  <2> QED
    BY <1>1, <1>3, <2>1, <2>3, <2>4, <2>5 DEF Launch, requests, bounds, HostType
<1>4. CASE Publish(t)
  <2>1. job[t].new \in Process \cup {Nobody}
    BY DEF HostType, Job
  <2>2. UNCHANGED job \/ Return(t)
    BY <1>4 DEF Publish, Release
  <2> QED
    BY <1>1, <1>4, <2>1, <2>2
       DEF Publish, Release, process, requests, bounds, HostType
<1> QED
  BY <1>2, <1>3, <1>4

\* The watcher's tick keeps the types.
LEMMA WatchType ==
  ASSUME TypeOK, Changed \/ Removed \/ Discovered
  PROVE  TypeOK'
<1> SUFFICES HostType' /\ RestType'
  BY TypeParts
<1> HostType /\ RestType
  BY TypeParts
<1> USE DEF RestType
<1> Watch \in Thread
  BY DEF Thread
<1>1. ticks' \in 0..MaxTicks
  BY BoundAssumption DEF Changed, Removed, Discovered, Tick
<1>2. CASE Changed
  <2>1. HostType'
    BY <1>2, RefuseType, ReloadType DEF Changed
  <2> QED
    BY <1>1, <1>2, <2>1 DEF Changed, host, requests
<1>3. CASE Removed
  <2>1. HostType'
    BY <1>3, BeginStopType DEF Removed
  <2>2. current' = Nobody /\ UNCHANGED <<closed, requests, halted, calls>>
    BY <1>3 DEF Removed
  <2> QED
    BY <1>1, <2>1, <2>2 DEF requests
<1>4. CASE Discovered
  <2>1. [job[Watch] EXCEPT !.then = "discover"] \in Job
    BY DEF HostType, Job
  <2>2. job' = [job EXCEPT ![Watch] = [job[Watch] EXCEPT !.then = "discover"]]
    BY <1>4 DEF Discovered, HostType
  <2>3. job' \in [Thread -> Job]
    BY <2>1, <2>2 DEF HostType
  <2>4. pc' \in [Thread -> Place]
    BY <1>4, GoesType DEF Discovered, Place
  <2> QED
    BY <1>1, <1>4, <2>3, <2>4 DEF Discovered, host, process, requests, HostType
<1> QED
  BY <1>2, <1>3, <1>4

\* Every step keeps the types.
LEMMA TypeStep ==
  ASSUME TypeOK, RequestInv, [Next]_vars
  PROVE  TypeOK'
<1>1. CASE UNCHANGED vars
  BY <1>1 DEF TypeOK, vars, host, process, requests, bounds
<1>2. CASE Next
  BY <1>2, CallType, RequestType, GoroutineType, HolderType, WatchType
  DEF Next, Caller
<1> QED
  BY <1>1, <1>2

-----------------------------------------------------------------------------
(* The processes: who may start one, and what is left when one is stopped *)

HostInv == MutexInv /\ HolderInv /\ ProcessInv

\* A step that starts no process, leaves the mutex and its holder alone and lets
\* no thread into a place where it relies on more.
QuietHost ==
  /\ UNCHANGED <<lifecycle, current, stopRequested, halted>>
  /\ closed => closed'
  /\ Live' \subseteq Live
  /\ \A t \in Thread : pc[t] \in Holding \/ pc'[t] \in Holding =>
       pc'[t] = pc[t] /\ job'[t] = job[t]
  /\ \A t \in Thread : pc'[t] = "close" => pc[t] = "close" \/ closed'
  /\ \A p \in Process : pc'[p] # "idle" => p \in finished'

\* A thread takes the mutex and begins to stop the process in the map.
StopStep(t, then) ==
  /\ lifecycle = Nobody /\ current \in Process
  /\ BeginStop(t, current, then)
  /\ UNCHANGED <<closed, halted>>
  /\ current' = current \/ (then = "remove" /\ current' = Nobody)
  /\ then = "close" => closed
  /\ then = "replace" => ~closed /\ (t \in Process => current \notin stopRequested)

\* Who is a thread, and where it holds the mutex.
LEMMA HoldingPlaces ==
  Holding = {"await", "launch", "publish"} /\ Process \subseteq Thread
  /\ Api \subseteq Thread /\ Watch \in Thread /\ Nobody \notin Thread
  /\ Nobody \notin Process
BY ThreadAssumption DEF Holding, Thread

\* A thread that does not hold the mutex relies on nothing.
LEMMA NotHolding ==
  /\ \A t : pc[t] \notin Holding => HolderKnows(t)
  /\ \A t : pc'[t] \notin Holding => HolderKnows(t)'
BY DEF HolderKnows, Holding

\* A step that changes neither the mutex nor a process keeps the invariant.
LEMMA QuietKeeps ==
  ASSUME HostType, HostInv, QuietHost
  PROVE  HostInv'
<1> USE DEF QuietHost
<1>1. MutexInv'
  <2>1. lifecycle # Nobody => pc[lifecycle] \in Holding /\ lifecycle \in Thread
    BY DEF HostInv, MutexInv, HostType
  <2> QED
    BY <2>1, HoldingPlaces DEF HostInv, MutexInv
<1>2. HolderInv'
  <2> SUFFICES ASSUME NEW t \in Thread, pc'[t] \in Holding
               PROVE  HolderKnows(t)'
    BY NotHolding DEF HolderInv
  <2>1. HolderKnows(t)
    BY DEF HostInv, HolderInv
  <2>2. pc'[t] = pc[t] /\ job'[t] = job[t]
    OBVIOUS
  <2> QED
    BY <2>1, <2>2 DEF HolderKnows
<1>3. ProcessInv'
  <2>1. \A t \in Thread : pc'[t] = "close"
          \/ (pc'[t] = "await" /\ job'[t].then = "close") => closed'
    BY DEF HostInv, ProcessInv, Holding
  <2> QED
    BY <2>1 DEF HostInv, ProcessInv
<1> QED
  BY <1>1, <1>2, <1>3 DEF HostInv

\* What BeginStop leaves behind.
LEMMA Stopping ==
  ASSUME HostType, NEW t \in Thread, NEW p \in Process, NEW then,
         BeginStop(t, p, then)
  PROVE  /\ lifecycle' = t /\ pc'[t] = "await"
         /\ job'[t].old = p /\ job'[t].then = then
         /\ \A u \in Thread : u # t => pc'[u] = pc[u] /\ job'[u] = job[u]
         /\ stopRequested' = stopRequested \cup {p} /\ UNCHANGED finished
         /\ Live' = Live
<1>1. job[t].old = job[t].old /\ job[t] \in Job
  BY DEF HostType
<1>2. job'[t] = [job[t] EXCEPT !.old = p, !.then = then]
  BY DEF BeginStop, HostType
<1>3. job'[t].old = p /\ job'[t].then = then
  BY <1>1, <1>2 DEF Job
<1>4. Live' = Live
  BY DEF BeginStop, Live, HostType
<1>5. pc'[t] = "await" /\ \A u \in Thread : u # t => pc'[u] = pc[u] /\ job'[u] = job[u]
  BY DEF BeginStop, Goto, HostType
<1> QED
  BY <1>3, <1>4, <1>5 DEF BeginStop

\* So does one that takes the mutex and asks the current process to stop.
LEMMA StopKeeps ==
  ASSUME HostType, HostInv, NEW t \in Thread,
         pc[t] \in {"start", "stop", "restart", "close", "idle", "auto"},
         t \in Process => pc[t] = "auto",
         NEW then \in {"stop", "close", "remove", "replace"}, StopStep(t, then)
  PROVE  HostInv'
<1> USE HoldingPlaces DEF StopStep
<1>1. /\ lifecycle' = t /\ pc'[t] = "await"
      /\ job'[t].old = current /\ job'[t].then = then
      /\ \A u \in Thread : u # t => pc'[u] = pc[u] /\ job'[u] = job[u]
      /\ stopRequested' = stopRequested \cup {current} /\ UNCHANGED finished
      /\ Live' = Live
  BY Stopping
<1>2. \A u \in Thread : pc[u] \notin Holding
  BY DEF HostInv, MutexInv
<1>3. Live' \subseteq {current} /\ (halted # "no" => Live' = {})
  BY <1>1 DEF HostInv, ProcessInv
<1>4. MutexInv'
  BY <1>1, <1>2 DEF HostInv, MutexInv
<1>5. HolderInv'
  <2>1. HolderKnows(t)'
    <3>1. then = "replace" => halted # "closed" /\ (t \in Process => halted = "no")
      BY DEF HostInv, ProcessInv
    <3> QED
      BY <1>1, <1>3, <3>1 DEF HolderKnows
  <2> QED
    BY <1>1, <1>2, <2>1, NotHolding DEF HolderInv
<1>6. ProcessInv'
  <2>1. halted' # "no" => Live' = {} /\ current' \in stopRequested' \cup {Nobody}
    BY <1>1, <1>3 DEF HostInv, ProcessInv
  <2>2. \A u \in Thread : pc'[u] = "close"
          \/ (pc'[u] = "await" /\ job'[u].then = "close") => closed'
    BY <1>1, <1>2 DEF HostInv, ProcessInv, Holding
  <2> QED
    BY <1>1, <2>1, <2>2 DEF HostInv, ProcessInv
<1> QED
  BY <1>4, <1>5, <1>6 DEF HostInv

\* Close of a host that has no process any more.
LEMMA NothingToClose ==
  ASSUME HostType, HostInv, NEW t \in Api, Close(t), current = Nobody
  PROVE  HostInv'
<1>1. /\ pc[t] = "close" /\ lifecycle = Nobody /\ halted' = "closed" /\ pc'[t] = "idle"
      /\ \A u \in Thread : u # t => pc'[u] = pc[u] /\ job'[u] = job[u]
      /\ UNCHANGED <<lifecycle, closed, current, process>>
  BY HoldingPlaces DEF Close, Refuse, Return, Goto, HostType, host
<1>2. UNCHANGED <<stopRequested, finished>> /\ Live' = Live
  BY <1>1 DEF process, Live
<1>3. Live = {}
  BY <1>1, HoldingPlaces DEF HostInv, ProcessInv, Live
<1>4. \A u \in Thread : pc[u] \notin Holding /\ pc'[u] \notin Holding
  BY <1>1, HoldingPlaces DEF HostInv, MutexInv
<1>5. closed
  BY <1>1, HoldingPlaces DEF HostInv, ProcessInv
<1>6. MutexInv'
  BY <1>1, <1>2, <1>4, HoldingPlaces, ThreadAssumption DEF HostInv, MutexInv
<1>7. HolderInv'
  BY <1>4, NotHolding DEF HolderInv
<1>8. ProcessInv'
  BY <1>1, <1>2, <1>3, <1>5 DEF ProcessInv
<1> QED
  BY <1>6, <1>7, <1>8 DEF HostInv

\* Only one thread is inside process.stop, replaceProcess or addProcess.
LEMMA OneHolder ==
  ASSUME HostInv, NEW t \in Thread, pc[t] \in Holding
  PROVE  /\ lifecycle = t /\ lifecycle # Nobody
         /\ \A u \in Thread : u # t => pc[u] \notin Holding
BY HoldingPlaces DEF HostInv, MutexInv

\* The holder gives the mutex back with the map in order.
LEMMA ReleaseKeeps ==
  ASSUME HostType, HostInv, NEW t \in Thread, pc[t] \in Holding, Release(t),
         UNCHANGED <<closed, stopRequested, finished>>,
         Live' \subseteq {current'},
         halted' # "no" => Live' = {} /\ current' \in stopRequested \cup {Nobody},
         halted' = "closed" => closed
  PROVE  HostInv'
<1>1. /\ pc'[t] = "idle" /\ lifecycle' = Nobody
      /\ \A u \in Thread : u # t => pc'[u] = pc[u] /\ job'[u] = job[u]
  BY DEF Release, Return, Goto, HostType
<1>2. \A u \in Thread : pc'[u] \notin Holding
  BY <1>1, OneHolder, HoldingPlaces
<1>3. MutexInv'
  BY <1>1, <1>2, HoldingPlaces DEF HostInv, MutexInv
<1>4. HolderInv'
  BY <1>2, NotHolding DEF HolderInv
<1>5. ProcessInv'
  <2>1. \A u \in Thread : pc'[u] = "close"
          \/ (pc'[u] = "await" /\ job'[u].then = "close") => closed'
    BY <1>1, <1>2, HoldingPlaces DEF HostInv, ProcessInv
  <2> QED
    BY <1>1, <2>1 DEF HostInv, ProcessInv
<1> QED
  BY <1>3, <1>4, <1>5 DEF HostInv

\* The holder goes on, or the watcher takes the free mutex, and knows enough.
LEMMA HoldKeeps ==
  ASSUME HostType, HostInv, NEW t \in Thread,
         lifecycle = Nobody \/ pc[t] \in Holding, pc[t] # "idle" \/ t \notin Process,
         lifecycle' = t, pc'[t] \in Holding,
         \A u \in Thread : u # t => pc'[u] = pc[u] /\ job'[u] = job[u],
         UNCHANGED <<closed, stopRequested, finished>>,
         HolderKnows(t)', pc'[t] # "await",
         halted' # "no" => Live' = {} /\ current' \in stopRequested \cup {Nobody},
         halted' = "closed" => closed
  PROVE  HostInv'
<1>1. \A u \in Thread : u # t => pc[u] \notin Holding /\ pc'[u] \notin Holding
  BY OneHolder, HoldingPlaces DEF HostInv, MutexInv
<1>2. MutexInv'
  BY <1>1, HoldingPlaces DEF HostInv, MutexInv
<1>3. HolderInv'
  BY <1>1, NotHolding DEF HolderInv
<1>4. ProcessInv'
  <2>1. \A u \in Thread : pc'[u] = "close"
          \/ (pc'[u] = "await" /\ job'[u].then = "close") => closed'
    BY <1>1, HoldingPlaces DEF HostInv, ProcessInv
  <2> QED
    BY <2>1, HoldingPlaces DEF HostInv, ProcessInv
<1> QED
  BY <1>2, <1>3, <1>4 DEF HostInv

\* The end of process.stop (host.go:472-477) and what its caller does then.
LEMMA AwaitKeeps ==
  ASSUME HostType, HostInv, NEW t \in Thread, AwaitDone(t)
  PROVE  HostInv'
<1>1. /\ pc[t] = "await" /\ lifecycle = t
      /\ UNCHANGED <<closed, current, finished, stopRequested>> /\ Live' = Live
  BY OneHolder, HoldingPlaces DEF AwaitDone, host, Live
<1>2. Live = {} /\ HolderKnows(t)
  <2>1. HolderKnows(t) /\ Live \subseteq {job[t].old}
    BY <1>1 DEF HostInv, HolderInv, HolderKnows
  <2>2. job[t].old \notin Live
    BY DEF AwaitDone, Live
  <2> QED
    BY <2>1, <2>2
<1>3. CASE job[t].then = "replace"
  <2>1. /\ pc'[t] = "launch" /\ job' = job /\ halted' = halted /\ lifecycle' = t
        /\ \A u \in Thread : u # t => pc'[u] = pc[u]
    BY <1>1, <1>3 DEF AwaitDone, Goto, HostType
  <2>2. HolderKnows(t)'
    BY <1>1, <1>2, <1>3, <2>1 DEF HolderKnows
  <2> QED
    BY <1>1, <1>2, <2>1, <2>2, HoldKeeps, HoldingPlaces DEF HostInv, ProcessInv
<1>4. CASE job[t].then # "replace"
  <2>1. Release(t)
    BY <1>4 DEF AwaitDone
  <2>2. \/ halted' = halted
        \/ halted' = "closed" /\ job[t].then = "close"
        \/ halted' = "stopped" /\ job[t].then = "stop"
    BY DEF AwaitDone
  <2>3. halted' # "no" => current' \in stopRequested \cup {Nobody}
    BY <1>1, <1>2, <2>2 DEF HolderKnows, HostInv, ProcessInv
  <2>4. halted' = "closed" => closed
    BY <1>1, <2>2 DEF HostInv, ProcessInv
  <2> QED
    BY <1>1, <1>2, <2>1, <2>3, <2>4, ReleaseKeeps, HoldingPlaces
<1> QED
  BY <1>3, <1>4

\* What comes before the launch allows it: nothing that was stopped for good is
\* replaced.
LEMMA LaunchAllowed ==
  ASSUME RestType, HostInv, NEW t \in Thread, Launch(t)
  PROVE  halted' = "no" /\ Live = {} /\ lifecycle = t /\ pc[t] \in Holding
<1>1. pc[t] = "launch" /\ pc[t] \in Holding
  BY HoldingPlaces DEF Launch
<1>2. HolderKnows(t)
  BY DEF HostInv, HolderInv
<1>3. halted' = CASE job[t].then = "discover" -> "no"
                  [] t \notin Process /\ halted = "stopped" -> "no"
                  [] OTHER -> halted
  BY DEF Launch
<1>4. CASE job[t].then = "discover"
  BY <1>1, <1>2, <1>3, <1>4, OneHolder DEF HolderKnows
<1>5. CASE job[t].then = "replace"
  <2>1. halted \in {"no", "stopped"} /\ (t \in Process => halted = "no")
    BY <1>1, <1>2, <1>5 DEF HolderKnows, RestType
  <2> QED
    BY <1>1, <1>2, <1>3, <1>5, <2>1, OneHolder DEF HolderKnows
<1> QED
  BY <1>1, <1>2, <1>4, <1>5 DEF HolderKnows

\* The holder starts a process when none is left.
LEMMA LaunchKeeps ==
  ASSUME HostType, RestType, HostInv, FinishedInv, NEW t \in Thread, Launch(t)
  PROVE  HostInv'
<1>1. halted' = "no" /\ Live = {} /\ lifecycle = t /\ pc[t] \in Holding
  BY LaunchAllowed
<1>2. UNCHANGED <<closed, done, stopRequested, finished>> /\ pc[t] = "launch"
  BY DEF Launch
<1>3. PICK p \in Unused :
        \/ UNCHANGED os /\ current' = p /\ Release(t)
        \/ /\ os' = [os EXCEPT ![p] = "running"]
           /\ job' = [job EXCEPT ![t].new = p]
           /\ Goto(t, "publish")
           /\ UNCHANGED lifecycle
  BY DEF Launch
<1>4. CASE UNCHANGED os /\ current' = p /\ Release(t)
  BY <1>1, <1>2, <1>4, ReleaseKeeps DEF Live
<1>5. CASE /\ os' = [os EXCEPT ![p] = "running"]
           /\ job' = [job EXCEPT ![t].new = p]
           /\ Goto(t, "publish")
           /\ UNCHANGED lifecycle
  <2>1. p \in Process /\ Live' = {p}
    <3>1. p \in Process /\ p \notin done
      BY DEF Unused, FinishedInv
    <3> QED
      BY <1>1, <1>2, <1>5, <3>1 DEF Live, HostType
  <2>2. pc'[t] = "publish" /\ \A u \in Thread : u # t => pc'[u] = pc[u] /\ job'[u] = job[u]
    BY <1>5 DEF Goto, HostType
  <2>3. job'[t].new = p
    <3>1. job'[t] = [job[t] EXCEPT !.new = p] /\ job[t] \in Job
      BY <1>5 DEF HostType
    <3> QED
      BY <3>1 DEF Job
  <2>4. HolderKnows(t)'
    BY <1>1, <2>1, <2>2, <2>3 DEF HolderKnows
  <2> QED
    BY <1>1, <1>2, <1>5, <2>2, <2>4, HoldKeeps, HoldingPlaces
<1> QED
  BY <1>3, <1>4, <1>5

\* The holder makes the process it started the current one.
LEMMA PublishKeeps ==
  ASSUME HostType, HostInv, NEW t \in Thread, Publish(t)
  PROVE  HostInv'
<1>1. pc[t] = "publish" /\ pc[t] \in Holding /\ HolderKnows(t)
  BY HoldingPlaces DEF Publish, HostInv, HolderInv
<1>2. Live' = Live /\ UNCHANGED <<closed, stopRequested, finished, halted>>
      /\ current' = job[t].new /\ Release(t)
  BY DEF Publish, process, Live
<1> QED
  BY <1>1, <1>2, ReleaseKeeps DEF HolderKnows

\* The watcher takes the mutex for a plugin that it found.
LEMMA DiscoverKeeps ==
  ASSUME HostType, HostInv, Discovered
  PROVE  HostInv'
<1>1. /\ lifecycle = Nobody /\ current = Nobody /\ lifecycle' = Watch
      /\ UNCHANGED <<closed, current, stopRequested, finished, halted>> /\ Live' = Live
  BY DEF Discovered, Tick, host, process, Live
<1>2. Live = {}
  BY <1>1, HoldingPlaces DEF HostInv, ProcessInv, Live
<1>3. pc'[Watch] = "launch"
      /\ \A u \in Thread : u # Watch => pc'[u] = pc[u] /\ job'[u] = job[u]
  BY HoldingPlaces DEF Discovered, Goto, HostType
<1>4. job'[Watch].then = "discover"
  <2>1. job'[Watch] = [job[Watch] EXCEPT !.then = "discover"] /\ job[Watch] \in Job
    BY HoldingPlaces DEF Discovered, HostType
  <2> QED
    BY <2>1 DEF Job
<1>5. HolderKnows(Watch)'
  BY <1>1, <1>2, <1>3, <1>4 DEF HolderKnows
<1> QED
  BY <1>1, <1>2, <1>3, <1>5, HoldKeeps, HoldingPlaces, ThreadAssumption
     DEF HostInv, ProcessInv

\* A thread that moves without touching the mutex changes nothing of this.
LEMMA QuietMove ==
  ASSUME HostType, HostInv, NEW t \in Thread,
         pc[t] \notin Holding, pc'[t] \notin Holding, pc'[t] = "close" => closed',
         t \in Process => pc'[t] = "idle" \/ t \in finished',
         \A u \in Thread : u # t => pc'[u] = pc[u] /\ job'[u] = job[u],
         UNCHANGED <<lifecycle, current, stopRequested, halted>>,
         closed => closed', finished \subseteq finished', Live' \subseteq Live
  PROVE  QuietHost
BY HoldingPlaces DEF QuietHost, HostInv, MutexInv

\* Refuse, and a Reload that cannot read the manifest.
LEMMA QuietRefuse ==
  ASSUME HostType, HostInv, NEW t \in Thread, pc[t] \notin Holding,
         Refuse(t) \/ \E p \in Process : Reload(t, p) /\ ~BeginStop(t, p, "replace"),
         UNCHANGED <<host, halted>>
  PROVE  QuietHost
<1>1. Return(t) /\ UNCHANGED <<lifecycle, os, done, finished, stopRequested>>
  BY DEF Refuse, Reload, process
<1>2. pc'[t] = "idle" /\ \A u \in Thread : u # t => pc'[u] = pc[u] /\ job'[u] = job[u]
  BY <1>1 DEF Return, Goto, HostType
<1>3. Live' = Live
  BY <1>1 DEF Live
<1> QED
  BY <1>1, <1>2, <1>3, QuietMove, HoldingPlaces DEF host

\* The calls of a caller.
LEMMA CallKeeps ==
  ASSUME TypeOK, HostInv, NEW t \in Api,
         Begin(t) \/ Start(t) \/ Stop(t) \/ Restart(t) \/ Close(t)
  PROVE  HostInv'
<1> HostType /\ RestType
  BY TypeParts
<1> t \in Thread /\ t \notin Process
  BY ThreadAssumption DEF Thread
<1>1. CASE Begin(t)
  <2>1. \A u \in Thread : u # t => pc'[u] = pc[u] /\ job'[u] = job[u]
    BY <1>1 DEF Begin, Goto, HostType
  <2>2. pc'[t] \notin Holding /\ (pc'[t] = "close" => closed')
    BY <1>1, CallAssumption DEF Begin, Goto, HostType, Holding, Call
  <2>3. pc[t] \notin Holding /\ (closed => closed')
    BY <1>1 DEF Begin, Holding
  <2>4. UNCHANGED <<lifecycle, current, stopRequested, halted, finished>> /\ Live' = Live
    BY <1>1 DEF Begin, process, Live
  <2> QED
    BY <2>1, <2>2, <2>3, <2>4, QuietMove, QuietKeeps
<1>2. CASE Start(t)
  <2>1. pc[t] = "start" /\ lifecycle = Nobody /\ UNCHANGED <<host, halted>>
    BY <1>2 DEF Start
  <2>2. Refuse(t) \/ (~closed /\ current \in Process /\ BeginStop(t, current, "replace"))
    BY <1>2 DEF Start, RestType
  <2> QED
    BY <2>1, <2>2, QuietRefuse, QuietKeeps, StopKeeps, HoldingPlaces
       DEF StopStep, host
<1>3. CASE Stop(t)
  <2>1. pc[t] = "stop" /\ lifecycle = Nobody /\ UNCHANGED <<host, halted>>
    BY <1>3 DEF Stop
  <2>2. Refuse(t) \/ (current \in Process /\ BeginStop(t, current, "stop"))
    BY <1>3 DEF Stop, RestType
  <2> QED
    BY <2>1, <2>2, QuietRefuse, QuietKeeps, StopKeeps, HoldingPlaces
       DEF StopStep, host
<1>4. CASE Restart(t)
  <2>1. pc[t] = "restart" /\ lifecycle = Nobody /\ UNCHANGED <<host, halted>>
    BY <1>4 DEF Restart
  <2>2. Refuse(t) \/ (~closed /\ current \in Process /\ Reload(t, current))
    BY <1>4 DEF Restart, RestType
  <2> QED
    BY <2>1, <2>2, QuietRefuse, QuietKeeps, StopKeeps, HoldingPlaces
       DEF StopStep, host
<1>5. CASE Close(t)
  <2>1. pc[t] = "close" /\ lifecycle = Nobody /\ UNCHANGED host
    BY <1>5 DEF Close
  <2>2. CASE current = Nobody
    BY <1>5, <2>2, NothingToClose
  <2>3. CASE current \in Process /\ BeginStop(t, current, "close") /\ UNCHANGED halted
    BY <2>1, <2>3, StopKeeps DEF StopStep, host, HostInv, ProcessInv
  <2> QED
    BY <1>5, <2>2, <2>3 DEF Close, RestType
<1> QED
  BY <1>1, <1>2, <1>3, <1>4, <1>5

\* The steps of a request.
LEMMA RequestKeeps ==
  ASSUME HostType, HostInv, NEW t \in Api,
         TakeSlot(t) \/ Register(t) \/ Enqueue(t) \/ Answer(t)
  PROVE  HostInv'
<1> t \in Thread /\ t \notin Process
  BY ThreadAssumption DEF Thread
<1>1. /\ pc[t] \notin Holding
      /\ UNCHANGED <<host, lifecycle, process, halted>>
      /\ Return(t) \/ (UNCHANGED job /\ \E l \in {"request", "enqueue", "answer"} : Goto(t, l))
  BY DEF TakeSlot, Register, Enqueue, Answer, Holding
<1>2. /\ pc'[t] \in {"idle", "request", "enqueue", "answer"}
      /\ \A u \in Thread : u # t => pc'[u] = pc[u] /\ job'[u] = job[u]
  BY <1>1 DEF Return, Goto, HostType
<1>3. UNCHANGED <<lifecycle, current, stopRequested, halted, finished, closed>> /\ Live' = Live
  BY <1>1 DEF host, process, Live
<1> QED
  BY <1>1, <1>2, <1>3, QuietMove, QuietKeeps DEF Holding

\* The goroutines of a process.
LEMMA GoroutineKeeps ==
  ASSUME TypeOK, HostInv, NEW p \in Process, Goroutines(p)
  PROVE  HostInv'
<1> HostType /\ RestType
  BY TypeParts
<1> p \in Thread
  BY DEF Thread
<1>1. CASE Exit(p) \/ Ready(p) \/ Fail(p) \/ CloseDone(p)
           \/ (\E r \in Request : TakeWaiter(p, r)) \/ SendResult(p)
  <2>1. UNCHANGED <<host, lifecycle, stopRequested, finished, pc, job, halted>>
    BY <1>1 DEF Exit, Ready, Fail, CloseDone, TakeWaiter, SendResult, process
  <2>2. Live' \subseteq Live
    <3>1. /\ done \subseteq done'
          /\ \/ UNCHANGED os
             \/ os[p] = "running"
                /\ \E e \in {"exited", "killed"} : os' = [os EXCEPT ![p] = e]
      BY <1>1 DEF Exit, Ready, Fail, CloseDone, TakeWaiter, SendResult, process
    <3> QED
      BY <3>1 DEF Live, HostType
  <2> QED
    BY <2>1, <2>2, QuietKeeps DEF QuietHost, host, HostInv, MutexInv
<1>2. CASE Finish(p)
  <2>1. /\ UNCHANGED <<host, lifecycle, done, stopRequested, job, halted>>
        /\ finished' = finished \cup {p} /\ p \in done \ finished
        /\ os' = [os EXCEPT ![p] = "exited"]
        /\ Goto(p, "delay") \/ UNCHANGED pc
    BY <1>2 DEF Finish
  <2>2. pc[p] = "idle" /\ pc'[p] \in {"idle", "delay"}
        /\ \A u \in Thread : u # p => pc'[u] = pc[u]
    BY <2>1 DEF Goto, HostType, HostInv, MutexInv
  <2>3. Live' = Live
    BY <2>1 DEF Live, HostType
  <2> QED
    BY <2>1, <2>2, <2>3, QuietMove, QuietKeeps DEF Holding, host
<1>3. CASE Delay(p)
  <2>1. /\ UNCHANGED <<host, lifecycle, process, job, halted>>
        /\ pc[p] = "delay" /\ \E l \in {"idle", "auto"} : Goto(p, l)
    BY <1>3 DEF Delay
  <2>2. pc'[p] \in {"idle", "auto"} /\ \A u \in Thread : u # p => pc'[u] = pc[u]
    BY <2>1 DEF Goto, HostType
  <2>3. UNCHANGED <<closed, current, stopRequested, finished>> /\ Live' = Live
        /\ p \in finished
    BY <2>1 DEF host, process, Live, HostInv, MutexInv
  <2> QED
    BY <2>1, <2>2, <2>3, QuietMove, QuietKeeps DEF Holding
<1>4. CASE ScheduleRestart(p)
  <2>1. pc[p] = "auto" /\ lifecycle = Nobody /\ UNCHANGED <<host, halted>>
    BY <1>4 DEF ScheduleRestart
  <2>2. Refuse(p) \/ (current = p /\ ~closed /\ p \notin stopRequested /\ Reload(p, p))
    BY <1>4 DEF ScheduleRestart, RestType
  <2> QED
    BY <2>1, <2>2, QuietRefuse, QuietKeeps, StopKeeps, HoldingPlaces
       DEF StopStep, host
<1> QED
  BY <1>1, <1>2, <1>3, <1>4 DEF Goroutines

\* The watcher of the directory.
LEMMA WatchKeeps ==
  ASSUME TypeOK, HostInv, Changed \/ Removed \/ Discovered
  PROVE  HostInv'
<1> HostType /\ RestType
  BY TypeParts
<1> Watch \in Thread /\ Watch \notin Process
  BY ThreadAssumption DEF Thread
<1>1. CASE Changed
  <2>1. pc[Watch] = "idle" /\ lifecycle = Nobody /\ UNCHANGED <<host, halted>>
        /\ ~closed /\ current \in Process /\ Reload(Watch, current)
    BY <1>1 DEF Changed, Tick, RestType
  <2> QED
    BY <2>1, QuietRefuse, QuietKeeps, StopKeeps, HoldingPlaces
    DEF StopStep, host
<1>2. CASE Removed
  <2>1. pc[Watch] = "idle" /\ lifecycle = Nobody /\ UNCHANGED <<closed, halted>>
        /\ current \in Process /\ BeginStop(Watch, current, "remove") /\ current' = Nobody
    BY <1>2 DEF Removed, Tick, RestType
  <2> QED
    BY <2>1, StopKeeps DEF StopStep
<1> QED
  BY <1>1, <1>2, DiscoverKeeps

\* Every step keeps what is said of the processes.
LEMMA HostStep ==
  ASSUME TypeOK, HostInv, RequestInv, [Next]_vars
  PROVE  HostInv'
<1> HostType /\ RestType /\ FinishedInv
  BY TypeParts DEF RequestInv
<1>1. CASE UNCHANGED vars
  BY <1>1 DEF vars, host, process, HostInv, MutexInv, HolderInv, HolderKnows,
              ProcessInv, Live
<1>2. CASE Next
  BY <1>2, CallKeeps, RequestKeeps, GoroutineKeeps, WatchKeeps, AwaitKeeps,
     LaunchKeeps, PublishKeeps DEF Next, Caller
<1> QED
  BY <1>1, <1>2

-----------------------------------------------------------------------------
(* The requests: who is registered where, and which channels hold an answer *)

\* A step that no request is concerned with: callers with one in hand at most go
\* from one early place to another, from one late place to another, or give it up.
QuietRequest ==
  /\ UNCHANGED <<pending, reading, waiter, calls>>
  /\ \A t \in Api : pc'[t] \in Early => pc[t] \in Early /\ job'[t] = job[t]
  /\ \A t \in Api : pc'[t] \in Late => pc[t] \in Late /\ job'[t] = job[t]

\* A step that makes no finished process active.
QuietEnd ==
  /\ UNCHANGED finished
  /\ \A p \in finished : Active(p)' => Active(p)
  /\ \A p \in done' : os'[p] \in {"exited", "killed"}

\* A step that touches no request keeps the requests.
LEMMA QuietRequestKeeps ==
  ASSUME RequestInv, QuietRequest, QuietEnd
  PROVE  RequestInv'
<1> USE DEF QuietRequest
<1>1. AskerInv'
  BY DEF RequestInv, AskerInv, AskerKnows, Asking, Fresh, Owed
<1>2. DistinctInv'
  BY DEF RequestInv, DistinctInv, Asking
<1>3. PendingInv'
  BY DEF RequestInv, PendingInv, Fresh, Owed
<1>4. FinishedInv'
  BY DEF RequestInv, FinishedInv, QuietEnd
<1> QED
  BY <1>1, <1>2, <1>3, <1>4 DEF RequestInv

\* The process a thread begins to stop has not become active by that, and what
\* has ended stays ended.
LEMMA StoppingEnds ==
  ASSUME HostType, FinishedInv, NEW t \in Thread, NEW p \in Process, NEW then,
         BeginStop(t, p, then) \/ Refuse(t) \/ Reload(t, p)
  PROVE  QuietEnd
<1>1. UNCHANGED <<done, finished>> /\ \A q \in done : os'[q] = os[q]
  BY DEF BeginStop, Refuse, Reload, process, FinishedInv, HostType
<1>2. \A q \in finished : Active(q)' => Active(q)
  BY DEF BeginStop, Refuse, Reload, SetError, process, Active, HostType
<1> QED
  BY <1>1, <1>2 DEF QuietEnd, FinishedInv

\* So far as requests go, the thread that begins to stop, or that is refused,
\* has none in hand.
LEMMA StoppingAsks ==
  ASSUME HostType, NEW t \in Thread, NEW p, NEW then,
         BeginStop(t, p, then) \/ Refuse(t) \/ Reload(t, p),
         UNCHANGED <<requests, calls>>
  PROVE  QuietRequest
<1>1. pc'[t] \in {"await", "idle"}
  BY DEF BeginStop, Refuse, Reload, Return, Goto, HostType
<1>2. \A u \in Thread : u # t => pc'[u] = pc[u] /\ job'[u] = job[u]
  BY DEF BeginStop, Refuse, Reload, Return, Goto, HostType
<1> QED
  BY <1>1, <1>2, HoldingPlaces DEF QuietRequest, Early, Late, requests

\* One who takes the mutex, or ends his call, touches no request.
LEMMA StoppingQuiet ==
  ASSUME HostType, RequestInv, NEW t \in Thread, UNCHANGED <<requests, calls>>,
         \/ Refuse(t)
         \/ \E p \in Process : Reload(t, p)
              \/ \E then \in {"stop", "close", "remove", "replace"} : BeginStop(t, p, then)
  PROVE  RequestInv'
<1>1. CASE Refuse(t)
  <2>1. QuietEnd
    BY <1>1 DEF Refuse, process, QuietEnd, Active, RequestInv, FinishedInv
  <2> QED
    BY <1>1, <2>1, StoppingAsks, QuietRequestKeeps
<1>2. ASSUME NEW p \in Process, Reload(t, p) PROVE RequestInv'
  BY <1>2, StoppingAsks, StoppingEnds, QuietRequestKeeps DEF RequestInv
<1>3. ASSUME NEW p \in Process, NEW then, BeginStop(t, p, then) PROVE RequestInv'
  BY <1>3, StoppingAsks, StoppingEnds, QuietRequestKeeps DEF RequestInv
<1> QED
  BY <1>1, <1>2, <1>3

\* A caller of Debug takes a number of its own.
LEMMA BeginAsks ==
  ASSUME TypeOK, RequestInv, NEW t \in Api, Begin(t)
  PROVE  RequestInv'
<1> HostType /\ RestType /\ t \in Thread
  BY TypeParts DEF Thread
<1>1. /\ calls' = calls + 1 /\ calls \in Nat /\ pc[t] = "idle"
      /\ UNCHANGED <<current, process, requests>>
  BY BoundAssumption DEF Begin, RestType
<1>2. \A u \in Thread : u # t => pc'[u] = pc[u] /\ job'[u] = job[u]
  BY DEF Begin, Goto, HostType
<1>3. \/ pc'[t] \notin Asking
      \/ /\ pc'[t] = "slot" /\ current \in Process
         /\ job' = [job EXCEPT ![t].old = current, ![t].request = calls + 1]
  BY CallAssumption
  DEF Begin, Goto, HostType, RestType, Call, Asking, Early, Late
<1>4. pc'[t] \in Asking =>
        pc'[t] = "slot" /\ job'[t].old \in Process /\ job'[t].request = calls + 1
  <2>1. ASSUME job' = [job EXCEPT ![t].old = current, ![t].request = calls + 1]
        PROVE  job'[t].old = current /\ job'[t].request = calls + 1
    <3>1. job'[t] = [job[t] EXCEPT !.old = current, !.request = calls + 1]
          /\ job[t] \in Job
      BY <2>1 DEF HostType
    <3> QED
      BY <3>1 DEF Job
  <2> QED
    BY <1>3, <2>1
<1>5. PICK r \in Request : r = calls + 1 /\ Fresh(r)'
  <2>1. calls + 1 \in Request
    BY <1>1, BoundAssumption DEF Begin, Request
  <2>2. Fresh(calls + 1)
    BY <1>1, <2>1 DEF RequestInv, PendingInv
  <2>3. \A r \in Request : Fresh(r) => Fresh(r)'
    BY <1>1 DEF Fresh, Owed, requests
  <2> QED
    BY <2>1, <2>2, <2>3
<1>6. AskerInv'
  <2> SUFFICES ASSUME NEW u \in Api PROVE AskerKnows(u)'
    BY DEF AskerInv
  <2>1. CASE u = t
    <3>1. pc'[u] \in Asking => job'[u].request = r /\ r \in 1..calls'
      BY <1>1, <1>4, <1>5, <2>1
    <3>2. pc'[u] \notin Late /\ (pc'[u] \in Early => pc'[u] \in Asking)
      BY <1>4, <2>1 DEF Asking, Late
    <3> QED
      BY <1>4, <1>5, <2>1, <3>1, <3>2 DEF AskerKnows
  <2>2. CASE u # t
    <3>1. pc'[u] = pc[u] /\ job'[u] = job[u] /\ UNCHANGED requests
      BY <1>1, <1>2, <2>2, HoldingPlaces
    <3>2. \A n \in 1..calls : n \in 1..calls'
      BY <1>1
    <3>3. AskerKnows(u)
      BY DEF RequestInv, AskerInv
    <3> QED
      BY <3>1, <3>2, <3>3 DEF AskerKnows, Fresh, Owed, requests
  <2> QED
    BY <2>1, <2>2
<1>7. DistinctInv'
  <2>1. \A u \in Api : u # t /\ pc'[u] \in Asking => job'[u].request \in 1..calls
    BY <1>2, HoldingPlaces DEF RequestInv, AskerInv, AskerKnows
  <2>2. \A n \in 1..calls : n # calls + 1
    BY <1>1
  <2>3. \A u \in Api : u # t => pc'[u] = pc[u] /\ job'[u] = job[u]
    BY <1>2, HoldingPlaces
  <2> QED
    BY <1>4, <2>1, <2>2, <2>3 DEF RequestInv, DistinctInv
<1>8. PendingInv'
  <2>1. \A n \in Request : n > calls' => n > calls
    BY <1>1, BoundAssumption DEF Request
  <2> QED
    BY <1>1, <2>1 DEF RequestInv, PendingInv, Fresh, Owed, requests
<1>9. FinishedInv'
  BY <1>1 DEF RequestInv, FinishedInv, process, requests, Active
<1> QED
  BY <1>6, <1>7, <1>8, <1>9 DEF RequestInv

\* Requests of one process are answered, one by its reader (host.go:690-697) or
\* all that are registered by finishWith (host.go:768-794).
Settle(p, S) ==
  /\ S \subseteq Owed(p)
  /\ Owed(p)' = Owed(p) \ S
  /\ \A q \in Process : q # p => Owed(q)' = Owed(q)
  /\ \A q \in Process : reading'[q] \notin pending'[q]
  /\ \A r \in Request : waiter'[r] = IF r \in S THEN waiter[r] + 1 ELSE waiter[r]
  /\ UNCHANGED <<job, calls>>
  /\ \A t \in Api : pc'[t] = pc[t]

\* What a process owes are requests.
LEMMA OwedType ==
  ASSUME TypeOK, NEW p \in Process
  PROVE  Owed(p) \subseteq Request
BY DEF TypeOK, Owed

\* Requests that are answered leave their process.
LEMMA SettleKeeps ==
  ASSUME TypeOK, RequestInv, NEW p \in Process, NEW S, Settle(p, S), FinishedInv'
  PROVE  RequestInv'
<1> RestType
  BY TypeParts
<1> USE DEF Settle
<1>1. S \subseteq Request
  BY OwedType
<1>2. \A r \in S : waiter'[r] = 1
  <2>1. \A r \in S : waiter[r] = 0 /\ r \in Request
    BY <1>1 DEF RequestInv, PendingInv
  <2> QED
    BY <2>1
<1>3. \A r \in Request : Fresh(r) => Fresh(r)'
  BY <1>1 DEF Fresh
<1>4. 1..calls \subseteq Request
  BY BoundAssumption DEF RestType, Request
<1>5. AskerInv'
  <2> SUFFICES ASSUME NEW t \in Api PROVE AskerKnows(t)'
    BY DEF AskerInv
  <2>1. AskerKnows(t) /\ pc'[t] = pc[t]
    BY DEF RequestInv, AskerInv
  <2>2. pc[t] \in Asking => job[t].request \in Request /\ job[t].old \in Process
    BY <1>4, <2>1 DEF AskerKnows
  <2>3. pc[t] \in Late => \/ job[t].request \in Owed(job[t].old)'
                         \/ waiter'[job[t].request] = 1
    <3>1. CASE pc[t] \in Late /\ job[t].request \in S
      BY <1>2, <3>1
    <3>2. CASE pc[t] \in Late /\ job[t].request \notin S
      BY <1>1, <2>1, <2>2, <3>2 DEF AskerKnows, Asking
    <3> QED
      BY <3>1, <3>2
  <2> QED
    BY <1>3, <2>1, <2>2, <2>3 DEF AskerKnows, Asking
<1>6. DistinctInv'
  BY DEF RequestInv, DistinctInv
<1>7. PendingInv'
  <2>1. \A q \in Process : \A r \in Owed(q)' : r \in Owed(q) /\ r \notin S
    <3> SUFFICES ASSUME NEW q \in Process, NEW r \in Owed(q)'
                 PROVE  r \in Owed(q) /\ r \notin S
      OBVIOUS
    <3>1. CASE q = p
      BY <1>1, <3>1
    <3>2. CASE q # p
      <4>1. r \in Owed(q) /\ (r \in S => r \in Owed(p))
        BY <1>1, <3>2
      <4> QED
        BY <3>2, <4>1 DEF RequestInv, PendingInv
    <3> QED
      BY <3>1, <3>2
  <2>2. \A q \in Process : Owed(q) \subseteq Request
    BY OwedType
  <2> QED
    BY <1>3, <2>1, <2>2 DEF RequestInv, PendingInv
<1> QED
  BY <1>5, <1>6, <1>7 DEF RequestInv

\* A caller takes its answer, or gives its request up, and returns.
Drop(t) ==
  /\ pc[t] \in Late /\ pc'[t] = "idle"
  /\ \A u \in Api : u # t => pc'[u] = pc[u] /\ job'[u] = job[u]
  /\ UNCHANGED <<calls, process, reading>>
  /\ \/ UNCHANGED waiter /\ Unregister(t)
     \/ UNCHANGED pending /\ waiter' = [waiter EXCEPT ![job[t].request] = 0]

\* A caller that is done with its request takes it back.
LEMMA DropKeeps ==
  ASSUME TypeOK, RequestInv, NEW t \in Api, Drop(t)
  PROVE  RequestInv'
<1> RestType
  BY TypeParts
<1> USE DEF Drop
<1>1. /\ AskerKnows(t) /\ pc[t] \in Asking
      /\ job[t].old \in Process /\ job[t].request \in Request
  BY BoundAssumption
  DEF RequestInv, AskerInv, AskerKnows, Asking, Request, RestType
<1>2. /\ \A p \in Process : pending'[p] \subseteq pending[p]
      /\ \A p \in Process : Owed(p)' \subseteq Owed(p)
      /\ \A p \in Process : Owed(p) \ Owed(p)' \subseteq {job[t].request}
  BY <1>1 DEF Unregister, RestType, Owed
<1>3. \A r \in Request : waiter'[r] = waiter[r] \/ (waiter'[r] = 0 /\ r = job[t].request)
  BY <1>1 DEF RestType
<1>4. \A r \in Request : Fresh(r) => Fresh(r)'
  BY <1>2, <1>3 DEF Fresh
<1>5. AskerInv'
  <2> SUFFICES ASSUME NEW u \in Api, u # t PROVE AskerKnows(u)'
    BY DEF AskerInv, AskerKnows, Asking, Early, Late
  <2>1. AskerKnows(u) /\ pc'[u] = pc[u] /\ job'[u] = job[u]
    BY DEF RequestInv, AskerInv
  <2>2. pc[u] \in Asking => /\ job[u].request \in Request /\ job[u].old \in Process
                            /\ job[u].request # job[t].request
    BY <1>1, <2>1, BoundAssumption
       DEF AskerKnows, RequestInv, DistinctInv, Request, RestType
  <2> QED
    BY <1>2, <1>3, <1>4, <2>1, <2>2 DEF AskerKnows, Asking
<1>6. DistinctInv'
  BY DEF RequestInv, DistinctInv, Asking, Early, Late
<1>7. PendingInv'
  <2>1. \A p \in Process : Owed(p) \subseteq Request
    BY OwedType
  <2>2. \A p \in Process : \A r \in Owed(p)' : waiter'[r] = 0
    BY <1>2, <1>3, <2>1 DEF RequestInv, PendingInv
  <2>3. \A p \in Process : \A r \in Owed(p)' :
          \A q \in Process : r \in Owed(q)' => q = p
    BY <1>2 DEF RequestInv, PendingInv
  <2>4. \A r \in Request : r > calls' => Fresh(r)'
    BY <1>4 DEF RequestInv, PendingInv
  <2>5. \A p \in Process : reading'[p] \notin pending'[p]
    BY <1>2 DEF RequestInv, PendingInv
  <2> QED
    BY <2>2, <2>3, <2>4, <2>5 DEF PendingInv
<1>8. FinishedInv'
  <2>1. finished \subseteq Process
    BY DEF TypeOK
  <2> QED
    BY <1>2, <2>1 DEF RequestInv, FinishedInv, process, Active
<1> QED
  BY <1>5, <1>6, <1>7, <1>8 DEF RequestInv

\* A request is registered at a process that runs (host.go:722-730).
LEMMA RegisterKeeps ==
  ASSUME TypeOK, RequestInv, NEW t \in Api, Register(t),
         status[job[t].old] = "running"
  PROVE  RequestInv'
<1> HostType /\ RestType /\ t \in Thread
  BY TypeParts DEF Thread
<1> DEFINE old == job[t].old
           r == job[t].request
<1>1. /\ pc[t] = "request" /\ pc'[t] = "enqueue"
      /\ \A u \in Thread : u # t => pc'[u] = pc[u]
      /\ pending' = [pending EXCEPT ![old] = @ \cup {r}]
      /\ UNCHANGED <<job, reading, waiter, process, calls>>
  BY DEF Register, Goto, HostType, bounds
<1>2. old \in Process /\ r \in 1..calls /\ Fresh(r) /\ pc[t] \in Asking
  BY <1>1 DEF RequestInv, AskerInv, AskerKnows, Asking, Early
<1>3. r \in Request /\ r <= calls
  BY <1>2, BoundAssumption DEF Request, RestType
<1>4. /\ pending'[old] = pending[old] \cup {r}
      /\ \A p \in Process : p # old => pending'[p] = pending[p]
  BY <1>1, <1>2 DEF RestType
<1>5. /\ Owed(old)' = Owed(old) \cup {r}
      /\ \A p \in Process : p # old => Owed(p)' = Owed(p)
  BY <1>1, <1>4 DEF Owed
<1>6. \A n \in Request : n # r /\ Fresh(n) => Fresh(n)'
  BY <1>1, <1>2, <1>5 DEF Fresh
<1>7. AskerInv'
  <2> SUFFICES ASSUME NEW u \in Api PROVE AskerKnows(u)'
    BY DEF AskerInv
  <2>1. CASE u = t
    BY <1>1, <1>2, <1>5, <2>1 DEF AskerKnows, Early, Late
  <2>2. CASE u # t
    <3>1. AskerKnows(u) /\ pc'[u] = pc[u] /\ job' = job
      BY <1>1, <2>2, HoldingPlaces DEF RequestInv, AskerInv
    <3>2. pc[u] \in Asking => job[u].request # r /\ job[u].request \in Request
      BY <1>2, <2>2, <3>1, BoundAssumption
         DEF AskerKnows, RequestInv, DistinctInv, Request, RestType
    <3> QED
      BY <1>1, <1>5, <1>6, <3>1, <3>2 DEF AskerKnows, Asking
  <2> QED
    BY <2>1, <2>2
<1>8. DistinctInv'
  <2>1. \A u \in Api : pc'[u] \in Asking => pc[u] \in Asking
    BY <1>1, <1>2, HoldingPlaces
  <2> QED
    BY <1>1, <2>1 DEF RequestInv, DistinctInv
<1>9. PendingInv'
  <2>1. \A n \in Request : n > calls' => Fresh(n)'
    <3> SUFFICES ASSUME NEW n \in Request, n > calls PROVE Fresh(n)'
      BY <1>1
    <3>1. n # r
      BY <1>3, BoundAssumption DEF Request, RestType
    <3>2. Fresh(n)
      BY DEF RequestInv, PendingInv
    <3> QED
      BY <1>6, <3>1, <3>2
  <2>2. \A p \in Process : \A n \in Owed(p)' :
          n \in Owed(p) \/ (n = r /\ p = old)
    BY <1>1, <1>4 DEF Owed
  <2>3. \A p \in Process : \A n \in Owed(p)' :
          waiter'[n] = 0 /\ \A q \in Process : n \in Owed(q)' => q = p
    BY <1>1, <1>2, <2>2 DEF RequestInv, PendingInv, Fresh
  <2>4. \A p \in Process : reading'[p] \notin pending'[p]
    <3>1. reading[old] # r
      BY <1>2, <1>3 DEF Fresh, Owed
    <3> QED
      BY <1>1, <1>4, <3>1 DEF RequestInv, PendingInv
  <2> QED
    BY <2>1, <2>3, <2>4 DEF PendingInv
<1>10. FinishedInv'
  <2>1. old \notin finished
    BY <1>2 DEF RequestInv, FinishedInv, Active
  <2> QED
    BY <1>1, <1>4, <2>1 DEF RequestInv, FinishedInv, Active, process, HostType
<1> QED
  BY <1>7, <1>8, <1>9, <1>10 DEF RequestInv

\* The steps of a request.
LEMMA AskSteps ==
  ASSUME TypeOK, RequestInv, NEW t \in Api,
         TakeSlot(t) \/ Register(t) \/ Enqueue(t) \/ Answer(t)
  PROVE  RequestInv'
<1> HostType /\ RestType /\ t \in Thread
  BY TypeParts DEF Thread
<1>1. UNCHANGED process /\ QuietEnd /\ UNCHANGED calls
  BY DEF TakeSlot, Register, Enqueue, Answer, process, bounds, QuietEnd, Active,
         RequestInv, FinishedInv
<1>2. \A l : Goto(t, l) => pc'[t] = l /\ \A u \in Api : u # t => pc'[u] = pc[u]
  BY HoldingPlaces DEF Goto, HostType
<1>3. Return(t) => pc'[t] = "idle"
        /\ \A u \in Api : u # t => pc'[u] = pc[u] /\ job'[u] = job[u]
  BY HoldingPlaces DEF Goto, Return, HostType
<1>4. CASE Return(t) /\ UNCHANGED requests
  BY <1>1, <1>3, <1>4, QuietRequestKeeps DEF QuietRequest, Early, Late, requests
<1>5. CASE /\ UNCHANGED <<job, requests>>
           /\ \/ pc[t] = "slot" /\ Goto(t, "request")
              \/ pc[t] = "enqueue" /\ Goto(t, "answer")
  BY <1>1, <1>2, <1>5, QuietRequestKeeps DEF QuietRequest, Early, Late, requests
<1>6. CASE Register(t) /\ status[job[t].old] = "running"
  BY <1>6, RegisterKeeps
<1>7. CASE /\ pc[t] \in Late /\ Return(t)
           /\ UNCHANGED reading
           /\ \/ UNCHANGED waiter /\ Unregister(t)
              \/ UNCHANGED pending /\ waiter' = [waiter EXCEPT ![job[t].request] = 0]
  BY <1>1, <1>3, <1>7, DropKeeps DEF Drop
<1> QED
  BY <1>4, <1>5, <1>6, <1>7
  DEF TakeSlot, Register, Enqueue, Answer, Late, requests

\* The goroutines of a process.
LEMMA GoroutineAsks ==
  ASSUME TypeOK, RequestInv, NEW p \in Process, Goroutines(p)
  PROVE  RequestInv'
<1> HostType /\ RestType /\ p \in Thread /\ p \notin Api
  BY TypeParts, ThreadAssumption DEF Thread
<1> FinishedInv
  BY DEF RequestInv
<1>1. CASE Exit(p) \/ Ready(p) \/ Fail(p) \/ CloseDone(p)
  <2>1. UNCHANGED <<pc, job, requests, calls, finished>>
    BY <1>1 DEF Exit, Ready, Fail, CloseDone, bounds
  <2>2. \A q \in done' : os'[q] \in {"exited", "killed"}
    BY <1>1 DEF Exit, Ready, Fail, CloseDone, FinishedInv, HostType
  <2>3. \A q \in finished : Active(q)' => Active(q)
    BY <1>1
    DEF Exit, Ready, Fail, CloseDone, SetError, FinishedInv, HostType, Active
  <2> QED
    BY <2>1, <2>2, <2>3, QuietRequestKeeps DEF QuietRequest, QuietEnd, requests
<1>2. CASE Finish(p)
  <2>1. /\ p \in done /\ UNCHANGED <<job, calls, done, reading>>
        /\ os' = [os EXCEPT ![p] = "exited"]
        /\ finished' = finished \cup {p}
        /\ \A t \in Api : pc'[t] = pc[t]
    BY <1>2, HoldingPlaces DEF Finish, bounds, Goto, HostType
  <2>2. Settle(p, pending[p])
    <3>1. \A q \in Process : reading[q] \notin pending[q]
      BY DEF RequestInv, PendingInv
    <3> QED
      BY <1>2, <2>1, <3>1 DEF Finish, Settle, RestType, Owed
  <2>3. FinalStatus(p) \notin {"running", "starting"}
    BY DEF FinalStatus, Active
  <2>4. ~Active(p)' /\ \A q \in finished : q # p => (Active(q)' <=> Active(q))
    BY <1>2, <2>3 DEF Finish, Active, HostType
  <2>5. pending'[p] = {} /\ \A q \in Process : q # p => pending'[q] = pending[q]
    BY <1>2 DEF Finish, RestType
  <2>6. FinishedInv'
    BY <2>1, <2>4, <2>5 DEF FinishedInv, HostType
  <2> QED
    BY <2>2, <2>6, SettleKeeps
<1>3. CASE Delay(p)
  <2>1. UNCHANGED <<process, requests, job, calls>> /\ \A t \in Api : pc'[t] = pc[t]
    BY <1>3 DEF Delay, Goto, HostType, bounds
  <2> QED
    BY <2>1, QuietRequestKeeps
       DEF QuietRequest, QuietEnd, process, requests, FinishedInv, Active
<1>4. CASE ScheduleRestart(p)
  <2>1. Refuse(p) \/ Reload(p, p)
    BY <1>4 DEF ScheduleRestart
  <2>2. UNCHANGED <<requests, calls>>
    BY <1>4 DEF ScheduleRestart, bounds
  <2> QED
    BY <2>1, <2>2, StoppingQuiet
<1>5. ASSUME NEW r \in Request, TakeWaiter(p, r) PROVE RequestInv'
  <2>1. /\ UNCHANGED <<waiter, process, job, pc, calls>> /\ r \in pending[p]
        /\ pending' = [pending EXCEPT ![p] = @ \ {r}]
        /\ reading' = [reading EXCEPT ![p] = r] /\ reading[p] = 0
    BY <1>5 DEF TakeWaiter, bounds
  <2>2. \A q \in Process : Owed(q)' = Owed(q)
    BY <2>1 DEF Owed, RestType, Request
  <2>3. \A q \in Process : reading'[q] \notin pending'[q]
    BY <2>1 DEF RequestInv, PendingInv, RestType
  <2>4. FinishedInv'
    BY <2>1 DEF FinishedInv, process, Active, HostType, RestType
  <2>5. Settle(p, {})
    BY <2>1, <2>2, <2>3 DEF Settle
  <2> QED
    BY <2>4, <2>5, SettleKeeps
<1>6. CASE SendResult(p)
  <2>1. /\ UNCHANGED <<pending, process, job, pc, calls>> /\ reading[p] \in Request
        /\ reading' = [reading EXCEPT ![p] = 0]
        /\ waiter' = [waiter EXCEPT ![reading[p]] = @ + 1]
    BY <1>6, BoundAssumption DEF SendResult, bounds, RestType, Request
  <2>2. 0 \notin Request /\ \A q \in Process : reading[q] \notin pending[q]
    BY DEF Request, RequestInv, PendingInv
  <2>3. Owed(p)' = Owed(p) \ {reading[p]} /\ reading[p] \in Owed(p)
    BY <2>1, <2>2 DEF Owed, RestType
  <2>4. \A q \in Process : q # p => Owed(q)' = Owed(q)
    BY <2>1 DEF Owed, RestType
  <2>5. \A q \in Process : reading'[q] \notin pending'[q]
    BY <2>1, <2>2 DEF RestType
  <2>6. Settle(p, {reading[p]})
    BY <2>1, <2>3, <2>4, <2>5 DEF Settle, RestType
  <2>7. FinishedInv'
    BY <2>1 DEF FinishedInv, process, Active
  <2> QED
    BY <2>6, <2>7, SettleKeeps
<1> QED
  BY <1>1, <1>2, <1>3, <1>4, <1>5, <1>6 DEF Goroutines

\* The calls of a caller, the watcher and the holder of the mutex.
LEMMA OthersAsk ==
  ASSUME TypeOK, HostInv, RequestInv,
         \/ \E t \in Api : Begin(t) \/ Start(t) \/ Stop(t) \/ Restart(t) \/ Close(t)
         \/ Changed \/ Removed \/ Discovered
         \/ \E t \in Thread : AwaitDone(t) \/ Launch(t) \/ Publish(t)
  PROVE  RequestInv'
<1> HostType /\ RestType
  BY TypeParts
<1> FinishedInv
  BY DEF RequestInv
<1>1. ASSUME NEW t \in Api, Start(t) \/ Stop(t) \/ Restart(t) \/ Close(t)
      PROVE  RequestInv'
  <2>1. \/ Refuse(t)
        \/ \E p \in Process : Reload(t, p)
             \/ \E then \in {"stop", "close", "remove", "replace"} : BeginStop(t, p, then)
    BY <1>1 DEF Start, Stop, Restart, Close, RestType
  <2>2. UNCHANGED <<requests, calls>>
    BY <1>1 DEF Start, Stop, Restart, Close, bounds
  <2> QED
    BY <2>1, <2>2, StoppingQuiet, HoldingPlaces
<1>2. CASE Changed \/ Removed
  <2>1. \E p \in Process : Reload(Watch, p)
             \/ \E then \in {"stop", "close", "remove", "replace"} : BeginStop(Watch, p, then)
    BY <1>2 DEF Changed, Removed, RestType
  <2>2. UNCHANGED <<requests, calls>>
    BY <1>2 DEF Changed, Removed
  <2> QED
    BY <2>1, <2>2, StoppingQuiet, HoldingPlaces
<1>3. CASE Discovered
  <2>1. pc' = [pc EXCEPT ![Watch] = "launch"] /\ UNCHANGED <<process, requests, calls>>
        /\ \A t \in Api : job'[t] = job[t]
    BY <1>3, HoldingPlaces, ThreadAssumption DEF Discovered, Goto, HostType
  <2>2. QuietRequest
    BY <2>1, HoldingPlaces DEF QuietRequest, requests, HostType, Early, Late
  <2>3. QuietEnd
    BY <2>1 DEF QuietEnd, process, FinishedInv, Active
  <2> QED
    BY <2>2, <2>3, QuietRequestKeeps
<1>4. ASSUME NEW t \in Thread, AwaitDone(t) \/ Launch(t) \/ Publish(t)
      PROVE  RequestInv'
  <2>1. pc'[t] \in {"idle", "launch", "publish"}
        /\ \A u \in Thread : u # t => pc'[u] = pc[u] /\ job'[u] = job[u]
    BY <1>4 DEF AwaitDone, Launch, Publish, Release, Return, Goto, HostType
  <2>2. UNCHANGED <<requests, calls, finished, done>>
    BY <1>4 DEF AwaitDone, Launch, Publish, bounds, process
  <2>3. \A q \in done : os'[q] = os[q]
    BY <1>4
    DEF AwaitDone, Launch, Publish, process, Unused, FinishedInv, HostType
  <2>4. \A q \in finished : Active(q)' => Active(q)
    BY <1>4
    DEF AwaitDone, Launch, Publish, process, Unused, FinishedInv, HostType,
        Active
  <2>5. QuietEnd
    BY <2>2, <2>3, <2>4 DEF QuietEnd, FinishedInv
  <2>6. QuietRequest
    BY <2>1, <2>2, HoldingPlaces DEF QuietRequest, requests, Early, Late
  <2> QED
    BY <2>5, <2>6, QuietRequestKeeps
<1> QED
  BY <1>1, <1>2, <1>3, <1>4, BeginAsks

\* Every step keeps what is said of the requests.
LEMMA RequestStep ==
  ASSUME TypeOK, HostInv, RequestInv, [Next]_vars
  PROVE  RequestInv'
<1>1. CASE UNCHANGED vars
  BY <1>1 DEF vars, process, requests, bounds, RequestInv, AskerInv, AskerKnows,
              DistinctInv, PendingInv, FinishedInv, Fresh, Owed, Active
<1>2. CASE Next
  BY <1>2, AskSteps, GoroutineAsks, OthersAsk DEF Next, Caller
<1> QED
  BY <1>1, <1>2

-----------------------------------------------------------------------------
(* The theorems *)

\* The inductive invariant.
Inv == TypeOK /\ HostInv /\ RequestInv

\* No process runs, and nothing was asked.
LEMMA InitInv == Init => Inv
<1> SUFFICES ASSUME Init PROVE Inv
  OBVIOUS
<1>1. PICK p \in Process \cup {Nobody} :
        /\ current = p
        /\ os = [q \in Process |-> IF q = p THEN "running" ELSE "none"]
        /\ status = [q \in Process |-> IF q = p THEN "starting" ELSE "stopped"]
  BY DEF Init
<1>2. /\ closed = FALSE /\ lifecycle = Nobody
      /\ done = {} /\ finished = {} /\ stopRequested = {}
      /\ pending = [q \in Process |-> {}] /\ reading = [q \in Process |-> 0]
      /\ waiter = [r \in Request |-> 0]
      /\ pc = [t \in Thread |-> "idle"] /\ job = [t \in Thread |-> Nothing]
      /\ halted = "no" /\ calls = 0 /\ ticks = 0
  BY DEF Init
<1>3. TypeOK
  <2>1. Nothing \in Job /\ 0 \in 0..MaxCalls /\ 0 \in 0..MaxTicks
    BY BoundAssumption DEF Nothing, Job
  <2>2. HostType
    BY <1>1, <1>2, <2>1 DEF HostType, Place, Status, Existence
  <2>3. RestType
    <3>1. /\ pending \in [Process -> SUBSET Request] /\ waiter \in [Request -> 0..1]
          /\ reading \in [Process -> 0..MaxCalls]
      BY <1>2, <2>1
    <3> QED
      BY <1>1, <1>2, <2>1, <3>1 DEF RestType
  <2> QED
    BY <2>2, <2>3, TypeParts
<1>4. HostInv
  <2>1. \A t \in Thread : pc[t] = "idle"
    BY <1>2
  <2>2. Live \subseteq {current}
    BY <1>1 DEF Live
  <2> QED
    BY <1>2, <2>1, <2>2, NotHolding, HoldingPlaces
       DEF HostInv, MutexInv, HolderInv, ProcessInv, Holding
<1>5. RequestInv
  <2>1. \A q \in Process : Owed(q) = {} /\ pending[q] = {}
    BY <1>2 DEF Owed, Request
  <2>2. \A r \in Request : Fresh(r)
    BY <1>2, <2>1 DEF Fresh
  <2>3. \A t \in Api : pc[t] = "idle"
    BY <1>2, HoldingPlaces
  <2> QED
    BY <1>2, <2>1, <2>2, <2>3
    DEF RequestInv, AskerInv, AskerKnows, DistinctInv, PendingInv,
                            FinishedInv, Asking, Early, Late
<1> QED
  BY <1>3, <1>4, <1>5 DEF Inv

\* What the host keeps in every state: who holds the lifecycle mutex and relies on
\* what, that no process is without an owner, and that no request is left behind.
THEOREM HostCorrect == Spec => []Inv
<1>1. Init => Inv
  BY InitInv
<1>2. Inv /\ [Next]_vars => Inv'
  BY TypeStep, HostStep, RequestStep DEF Inv
<1> QED
  BY <1>1, <1>2, PTL DEF Spec

\* Every variable keeps its type; in particular a request's channel never holds
\* more than the one message it has room for, so no writer ever waits for a reader.
THEOREM TypeCorrect == Spec => []TypeOK
<1>1. Inv => TypeOK
  BY DEF Inv
<1> QED
  BY <1>1, HostCorrect, PTL

\* Of one plugin at most one process lives, one that was killed and not waited for
\* included, it is the one in the map or in the hands of the holder of the lifecycle
\* mutex, and no automatic restart undoes a Stop or a Close.  A caller's Start or
\* Restart and a change of the plugin's files start it after a Stop, the discovery
\* of its directory after a Stop and a Close (host.go:314-391, 796-835, 1018-1091,
\* 1176-1197).
THEOREM NoStray == Spec => []NoStrayProcess
<1>1. Inv => NoStrayProcess
  <2> SUFFICES ASSUME Inv PROVE NoStrayProcess
    OBVIOUS
  <2>1. CASE lifecycle = Nobody
    BY <2>1 DEF Inv, HostInv, ProcessInv, NoStrayProcess, OneLive, LiveIsOwned,
                NoUnaskedStart
  <2>2. CASE lifecycle # Nobody
    <3>1. PICK t \in Thread : t = lifecycle /\ pc[t] \in Holding /\ HolderKnows(t)
      BY <2>2 DEF Inv, HostInv, MutexInv, HolderInv, TypeOK
    <3>2. Live \subseteq {job[t].old} \/ Live \subseteq {job[t].new}
      BY <3>1 DEF HolderKnows, Holding
    <3> QED
      BY <2>2, <3>1, <3>2 DEF Inv, HostInv, ProcessInv, NoStrayProcess, OneLive,
                              LiveIsOwned, NoUnaskedStart
  <2> QED
    BY <2>1, <2>2
<1> QED
  BY <1>1, HostCorrect, PTL

\* A caller that waits is registered, in the hands of the reader or has its answer,
\* and nobody is registered at a process that has finished (host.go:690-697,
\* 722-750, 768-794).
THEOREM Settled == Spec => []RequestsSettled
<1>1. Inv => RequestsSettled
  <2> SUFFICES ASSUME Inv PROVE RequestsSettled
    OBVIOUS
  <2>1. \A t \in Api : pc[t] = "answer" => AskerKnows(t) /\ pc[t] \in Late
    BY DEF Inv, RequestInv, AskerInv, Late
  <2>2. \A p \in finished : pending[p] = {}
    BY DEF Inv, RequestInv, FinishedInv
  <2> QED
    BY <2>1, <2>2 DEF AskerKnows, Owed, RequestsSettled
<1> QED
  BY <1>1, HostCorrect, PTL
=============================================================================
