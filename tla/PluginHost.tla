------------------------------ MODULE PluginHost ------------------------------
(***************************************************************************)
(* One plugin of plugins.Host: the processes that were started for it, the *)
(* callers of Start, Stop, Restart, Close and Debug, the watcher of the    *)
(* plugin directory, and of every process the goroutines that wait for its *)
(* end, read its output and restart it.                                    *)
(*                                                                         *)
(* The lifecycle mutex is held over many steps, the mutexes of the host    *)
(* and of a process over one.  A process of the operating system and the   *)
(* `process` record that stands for it are one value here.                 *)
(***************************************************************************)
EXTENDS Naturals, FiniteSets

CONSTANTS
  Api,           \* callers of the host
  Process,       \* the processes that can be made
  Watch,         \* the goroutine of watchLoop
  Nobody,        \* no process, and nobody who holds the lifecycle mutex
  Calls,         \* the calls that are made
  AutoRestart,   \* manifest.restart
  MaxCalls,      \* bound: calls
  MaxTicks       \* bound: ticks at which the watcher finds something

\* The calls of the host that the model has.
Call == {"start", "stop", "restart", "close", "debug"}

ASSUME CallAssumption == Calls \subseteq Call /\ AutoRestart \in BOOLEAN
ASSUME ThreadAssumption ==
  /\ Watch \notin Api \cup Process
  /\ Nobody \notin Api \cup Process \cup {Watch}
  /\ Api \cap Process = {}
ASSUME BoundAssumption == MaxCalls \in Nat /\ MaxTicks \in Nat

\* The goroutine that restarts a process is named after it.
Thread == Api \cup {Watch} \cup Process
Request == 1..MaxCalls

VARIABLES
  closed,         \* Host.closed
  lifecycle,      \* the holder of Host.lifecycle
  current,        \* Host.processes[id]
  os,             \* the operating system's view: "none" is a nil command
  done,           \* the processes whose done channel is closed
  finished,       \* the processes whose finishWith is over
  status,         \* process.status
  stopRequested,  \* the processes with stopRequested
  pending,        \* process.pending
  reading,        \* of each process: the request whose channel its reader has
                  \* taken out of pending and not yet filled; 0 is none
  waiter,         \* of each request: the messages that its channel holds
  pc, job,        \* of each thread: where it is, and what it has in hand
  halted,         \* history: "stopped" by a Stop, or "closed", and not started
                  \* again by somebody who may do so
  calls, ticks

host    == <<closed, current>>
process == <<os, done, finished, status, stopRequested>>
requests == <<pending, reading, waiter>>
bounds  == <<calls, ticks>>
vars == <<host, lifecycle, process, requests, pc, job, halted, bounds>>

Job == [old : Process \cup {Nobody}, new : Process \cup {Nobody},
        then : {"", "stop", "close", "remove", "replace", "discover"},
        request : 0..MaxCalls]
Nothing == [old |-> Nobody, new |-> Nobody, then |-> "", request |-> 0]

TypeOK ==
  /\ closed \in BOOLEAN
  /\ lifecycle \in Thread \cup {Nobody}
  /\ current \in Process \cup {Nobody}
  /\ os \in [Process -> {"none", "running", "exited", "killed"}]
  /\ done \subseteq Process /\ finished \subseteq done
  /\ status \in [Process -> {"stopped", "disabled", "starting", "running", "error"}]
  /\ stopRequested \subseteq Process
  /\ pending \in [Process -> SUBSET Request]
  /\ reading \in [Process -> 0..MaxCalls]
  /\ waiter \in [Request -> 0..1]
  /\ pc \in [Thread -> Call \cup {"idle", "await", "launch", "publish", "slot",
                                  "request", "enqueue", "answer", "delay", "auto"}]
  /\ job \in [Thread -> Job]
  /\ halted \in {"no", "stopped", "closed"}
  /\ calls \in 0..MaxCalls /\ ticks \in 0..MaxTicks

\* New has started the plugin, or found no directory of one.
Init ==
  \E p \in Process \cup {Nobody} :
    /\ current = p
    /\ os = [q \in Process |-> IF q = p THEN "running" ELSE "none"]
    /\ status = [q \in Process |-> IF q = p THEN "starting" ELSE "stopped"]
    /\ closed = FALSE /\ lifecycle = Nobody
    /\ done = {} /\ finished = {} /\ stopRequested = {}
    /\ pending = [q \in Process |-> {}] /\ reading = [q \in Process |-> 0]
    /\ waiter = [r \in Request |-> 0]
    /\ pc = [t \in Thread |-> "idle"] /\ job = [t \in Thread |-> Nothing]
    /\ halted = "no"
    /\ calls = 0 /\ ticks = 0

-----------------------------------------------------------------------------
Goto(t, label) == pc' = [pc EXCEPT ![t] = label]
Return(t) == Goto(t, "idle") /\ job' = [job EXCEPT ![t] = Nothing]

Active(p) == status[p] \in {"running", "starting"}

\* setError: a process that is not active keeps its status.
SetError(p) ==
  status' = IF Active(p) THEN [status EXCEPT ![p] = "error"] ELSE status

\* The first half of process.stop, by a thread that has the lifecycle mutex.
BeginStop(t, p, then) ==
  /\ lifecycle' = t
  /\ stopRequested' = stopRequested \cup {p}
  /\ os' = IF os[p] = "running" THEN [os EXCEPT ![p] = "killed"] ELSE os
  /\ job' = [job EXCEPT ![t].old = p, ![t].then = then]
  /\ Goto(t, "await")
  /\ UNCHANGED <<done, finished, status>>

\* A call takes the mutex, finds nothing to do, and returns it.
Refuse(t) ==
  /\ Return(t)
  /\ UNCHANGED <<lifecycle, process>>

\* restartLocked and scheduleRestart: the manifest is read again, and the process
\* replaced, unless the manifest is unreadable or has the ID of another plugin.
Reload(t, p) ==
  \/ BeginStop(t, p, "replace")
  \/ Refuse(t)
  \/ SetError(p) /\ Return(t)
     /\ UNCHANGED <<lifecycle, os, done, finished, stopRequested>>

-----------------------------------------------------------------------------
(* Start, Stop, Restart, Close *)

Begin(t) ==
  /\ pc[t] = "idle" /\ calls < MaxCalls
  /\ calls' = calls + 1
  /\ \/ \E call \in Calls \ {"close", "debug"} :
          Goto(t, call) /\ UNCHANGED <<closed, job>>
     \/ "close" \in Calls /\ ~closed /\ closed' = TRUE
          /\ Goto(t, "close") /\ UNCHANGED job
     \/ "debug" \in Calls /\ current # Nobody /\ Goto(t, "slot")
          /\ job' = [job EXCEPT ![t].old = current, ![t].request = calls + 1]
          /\ UNCHANGED closed
  /\ UNCHANGED <<lifecycle, current, process, requests, halted, ticks>>

Start(t) ==
  /\ pc[t] = "start" /\ lifecycle = Nobody
  /\ IF closed \/ current = Nobody \/ Active(current)
       THEN Refuse(t) ELSE BeginStop(t, current, "replace")
  /\ UNCHANGED <<host, requests, halted, bounds>>

Stop(t) ==
  /\ pc[t] = "stop" /\ lifecycle = Nobody
  /\ IF current = Nobody THEN Refuse(t) ELSE BeginStop(t, current, "stop")
  /\ UNCHANGED <<host, requests, halted, bounds>>

Restart(t) ==
  /\ pc[t] = "restart" /\ lifecycle = Nobody
  /\ IF closed \/ current = Nobody THEN Refuse(t) ELSE Reload(t, current)
  /\ UNCHANGED <<host, requests, halted, bounds>>

Close(t) ==
  /\ pc[t] = "close" /\ lifecycle = Nobody
  /\ IF current = Nobody
       THEN Refuse(t) /\ halted' = "closed"
       ELSE BeginStop(t, current, "close") /\ UNCHANGED halted
  /\ UNCHANGED <<host, requests, bounds>>

-----------------------------------------------------------------------------
(* watchLoop: one tick has one of three outcomes for the plugin *)

Tick == pc[Watch] = "idle" /\ lifecycle = Nobody /\ ticks < MaxTicks
        /\ ticks' = ticks + 1

\* Files of the plugin have changed.
Changed ==
  /\ Tick /\ ~closed /\ current # Nobody
  /\ Reload(Watch, current)
  /\ UNCHANGED <<host, requests, halted, calls>>

\* Its directory is gone.
Removed ==
  /\ Tick /\ current # Nobody
  /\ current' = Nobody
  /\ BeginStop(Watch, current, "remove")
  /\ UNCHANGED <<closed, requests, halted, calls>>

\* discoverLocked finds a new directory.  It does not ask whether the host is
\* closed.
Discovered ==
  /\ Tick /\ current = Nobody
  /\ lifecycle' = Watch
  /\ job' = [job EXCEPT ![Watch].then = "discover"]
  /\ Goto(Watch, "launch")
  /\ UNCHANGED <<host, process, requests, halted, calls>>

-----------------------------------------------------------------------------
(* process.stop, replaceProcess and addProcess, with the lifecycle mutex *)

Release(t) == lifecycle' = Nobody /\ Return(t)

\* Wait has returned, or there never was a command.
AwaitDone(t) ==
  /\ pc[t] = "await"
  /\ LET p == job[t].old
         then == job[t].then
     IN /\ os[p] = "none" \/ p \in done
        /\ status' = [status EXCEPT ![p] = "stopped"]
        /\ IF then = "replace"
             THEN Goto(t, "launch") /\ UNCHANGED <<lifecycle, job>>
             ELSE Release(t)
        /\ halted' = CASE then = "close" -> "closed"
                       [] then = "stop" /\ halted = "no" -> "stopped"
                       [] OTHER -> halted
  /\ UNCHANGED <<host, os, done, finished, stopRequested, requests, bounds>>

Unused == {p \in Process : os[p] = "none" /\ p # current /\ pc[p] = "idle"
                           /\ p \notin stopRequested}

\* newProcess and start.  A plugin that is disabled or cannot be started is put
\* into the map at once, one that is discovered before it is started.
Launch(t) ==
  /\ pc[t] = "launch"
  /\ \E p \in Unused :
       \/ /\ \E s \in {"disabled", "stopped"} : status' = [status EXCEPT ![p] = s]
          /\ current' = p
          /\ Release(t)
          /\ UNCHANGED os
       \/ /\ os' = [os EXCEPT ![p] = "running"]
          /\ status' = [status EXCEPT ![p] = "starting"]
          /\ current' = IF job[t].then = "discover" THEN p ELSE current
          /\ job' = [job EXCEPT ![t].new = p]
          /\ Goto(t, "publish")
          /\ UNCHANGED lifecycle
  /\ halted' = CASE job[t].then = "discover" -> "no"
                 [] t \notin Process /\ halted = "stopped" -> "no"
                 [] OTHER -> halted
  /\ UNCHANGED <<closed, done, finished, stopRequested, requests, bounds>>

Publish(t) ==
  /\ pc[t] = "publish"
  /\ current' = job[t].new
  /\ Release(t)
  /\ UNCHANGED <<closed, process, requests, halted, bounds>>

-----------------------------------------------------------------------------
(* The goroutines of a process *)

\* It ends by itself, with success or not.
Exit(p) ==
  /\ os[p] = "running"
  /\ \E end \in {"exited", "killed"} : os' = [os EXCEPT ![p] = end]
  /\ UNCHANGED <<host, lifecycle, done, finished, status, stopRequested, requests,
                 pc, job, halted, bounds>>

\* handle: the ready message
Ready(p) ==
  /\ os[p] # "none" /\ status[p] = "starting"
  /\ status' = [status EXCEPT ![p] = "running"]
  /\ UNCHANGED <<host, lifecycle, os, done, finished, stopRequested, requests, pc,
                 job, halted, bounds>>

\* fail: a bad message, a failed write, no ready message in time.
Fail(p) ==
  /\ os[p] = "running" \/ (os[p] # "none" /\ Active(p))
  /\ SetError(p)
  /\ os' = IF os[p] = "running" THEN [os EXCEPT ![p] = "killed"] ELSE os
  /\ UNCHANGED <<host, lifecycle, done, finished, stopRequested, requests, pc, job,
                 halted, bounds>>

\* finishWith closes the channels first ...
CloseDone(p) ==
  /\ os[p] \in {"exited", "killed"} /\ p \notin done
  /\ done' = done \cup {p}
  /\ UNCHANGED <<host, lifecycle, os, finished, status, stopRequested, requests, pc,
                 job, halted, bounds>>

\* Mutant of FinalStatus: a process that ends with success stays running.
FinalStatusOfFailure(p) ==
  IF p \in stopRequested THEN "stopped"
  ELSE IF os[p] = "killed" THEN "error"
  ELSE status[p]

FinalStatus(p) ==
  IF p \in stopRequested THEN "stopped"
  ELSE IF os[p] = "killed" THEN "error"
  ELSE IF Active(p) THEN "stopped"
  ELSE status[p]

\* ... and settles the status and the requests in a second critical section.  How
\* the process ended says nothing from then on, and is forgotten.
Finish(p) ==
  /\ p \in done \ finished
  /\ finished' = finished \cup {p}
  /\ os' = [os EXCEPT ![p] = "exited"]
  /\ status' = [status EXCEPT ![p] = FinalStatus(p)]
  /\ waiter' = [r \in Request |-> IF r \in pending[p] THEN waiter[r] + 1
                                                     ELSE waiter[r]]
  /\ pending' = [pending EXCEPT ![p] = {}]
  /\ IF (Active(p) \/ status[p] = "error") /\ AutoRestart
        /\ p \notin stopRequested /\ ~closed
       THEN Goto(p, "delay") ELSE UNCHANGED pc
  /\ UNCHANGED <<host, lifecycle, done, stopRequested, reading, job, halted,
                 bounds>>

\* scheduleRestart, before it takes the lifecycle mutex and with it.
Delay(p) ==
  /\ pc[p] = "delay"
  /\ Goto(p, IF closed \/ p \in stopRequested THEN "idle" ELSE "auto")
  /\ UNCHANGED <<host, lifecycle, process, requests, job, halted, bounds>>

\* Mutant of ScheduleRestart: what it found before it waited is taken as true.
ScheduleRestartUnchecked(p) ==
  /\ pc[p] = "auto" /\ lifecycle = Nobody
  /\ Reload(p, p)
  /\ UNCHANGED <<host, requests, halted, bounds>>

ScheduleRestart(p) ==
  /\ pc[p] = "auto" /\ lifecycle = Nobody
  /\ IF current # p \/ closed \/ p \in stopRequested
       THEN Refuse(p) ELSE Reload(p, p)
  /\ UNCHANGED <<host, requests, halted, bounds>>

-----------------------------------------------------------------------------
(* Debug and request *)

\* debugSlot has room for one call.
SlotFree(p) ==
  \A t \in Api : job[t].old = p => pc[t] \notin {"request", "enqueue", "answer"}

TakeSlot(t) ==
  /\ pc[t] = "slot"
  /\ \/ SlotFree(job[t].old) /\ Goto(t, "request") /\ UNCHANGED job
     \/ Return(t)
  /\ UNCHANGED <<host, lifecycle, process, requests, halted, bounds>>

Register(t) ==
  /\ pc[t] = "request"
  /\ IF status[job[t].old] = "running"
       THEN /\ pending' = [pending EXCEPT ![job[t].old] = @ \cup {job[t].request}]
            /\ Goto(t, "enqueue")
            /\ UNCHANGED job
       ELSE Return(t) /\ UNCHANGED pending
  /\ UNCHANGED <<host, lifecycle, process, reading, waiter, halted, bounds>>

Unregister(t) ==
  pending' = [pending EXCEPT ![job[t].old] = @ \ {job[t].request}]

\* The queue takes the message, or it is closed or stays full.
Enqueue(t) ==
  /\ pc[t] = "enqueue"
  /\ \/ Goto(t, "answer") /\ UNCHANGED <<pending, job>>
     \/ Unregister(t) /\ Return(t)
  /\ UNCHANGED <<host, lifecycle, process, reading, waiter, halted, bounds>>

\* The answer, the end of the process or of the time ends the wait.
Answer(t) ==
  /\ pc[t] = "answer" /\ Return(t)
  /\ \/ waiter[job[t].request] = 1
        /\ waiter' = [waiter EXCEPT ![job[t].request] = 0] /\ UNCHANGED pending
     \/ job[t].old \in done /\ UNCHANGED <<waiter, pending>>
     \/ Unregister(t) /\ UNCHANGED waiter
  /\ UNCHANGED <<host, lifecycle, process, reading, halted, bounds>>

\* Mutant of TakeWaiter: the waiter is kept.
TakeWaiterKeeping(p, r) ==
  /\ os[p] # "none" /\ reading[p] = 0 /\ r \in pending[p]
  /\ reading' = [reading EXCEPT ![p] = r]
  /\ UNCHANGED <<host, lifecycle, process, pending, waiter, pc, job, halted, bounds>>

\* handle: the one reader of a process takes the waiter of a result under the
\* mutex of the process ...
TakeWaiter(p, r) ==
  /\ os[p] # "none" /\ reading[p] = 0 /\ r \in pending[p]
  /\ pending' = [pending EXCEPT ![p] = @ \ {r}]
  /\ reading' = [reading EXCEPT ![p] = r]
  /\ UNCHANGED <<host, lifecycle, process, waiter, pc, job, halted, bounds>>

\* ... and sends to its channel after the unlock.
SendResult(p) ==
  /\ reading[p] # 0
  /\ waiter' = [waiter EXCEPT ![reading[p]] = @ + 1]
  /\ reading' = [reading EXCEPT ![p] = 0]
  /\ UNCHANGED <<host, lifecycle, process, pending, pc, job, halted, bounds>>

-----------------------------------------------------------------------------
Caller(t) ==
  \/ Begin(t) \/ Start(t) \/ Stop(t) \/ Restart(t) \/ Close(t)
  \/ TakeSlot(t) \/ Register(t) \/ Enqueue(t) \/ Answer(t)

Goroutines(p) ==
  \/ Exit(p) \/ Ready(p) \/ Fail(p) \/ CloseDone(p) \/ Finish(p)
  \/ Delay(p) \/ ScheduleRestart(p)
  \/ (\E r \in Request : TakeWaiter(p, r)) \/ SendResult(p)

Next == \/ \E t \in Api : Caller(t)
        \/ \E p \in Process : Goroutines(p)
        \/ \E t \in Thread : AwaitDone(t) \/ Launch(t) \/ Publish(t)
        \/ Changed \/ Removed \/ Discovered

Spec == Init /\ [][Next]_vars

-----------------------------------------------------------------------------
(* Properties *)

\* A process lives until its end has been waited for: one that was killed counts.
Live == {p \in Process : os[p] # "none" /\ p \notin done}

\* Of one plugin at most one process lives, whoever starts, stops, restarts,
\* reloads or removes it at once and however many of its processes have ended.
OneLive == \A p, q \in Live : p = q

\* It is the one in the map, or in the hands of the holder of the lifecycle mutex.
LiveIsOwned ==
  \A p \in Live :
    p = current \/ (lifecycle # Nobody /\ p \in {job[lifecycle].new,
                                                  job[lifecycle].old})

\* No automatic restart undoes a Stop or a Close, however late its timer fires:
\* what Stop has stopped lives again only after a caller's Start or Restart, a
\* change of its files or the discovery of its directory, and after Close only
\* after a discovery.
NoUnaskedStart == halted # "no" => Live = {}

\* "New valid plugin directories are started, removed directories are stopped and
\* removed" (PLUGINS.md:230): no process is left that nobody can stop.
NoStrayProcess == OneLive /\ LiveIsOwned /\ NoUnaskedStart

\* A caller that waits for an answer is registered, is in the hands of the reader
\* or has the answer in its channel, and nobody is registered at a process that
\* has finished (process.request, process.handle and process.finishWith).
RequestsSettled ==
  /\ \A t \in Api : pc[t] = "answer" =>
       \/ job[t].request \in pending[job[t].old] \/ waiter[job[t].request] = 1
       \/ reading[job[t].old] = job[t].request
  /\ \A p \in finished : pending[p] = {}
=============================================================================
