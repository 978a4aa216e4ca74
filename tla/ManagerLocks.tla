----------------------------- MODULE ManagerLocks -----------------------------
(***************************************************************************)
(* The two mutexes of service.Manager and the orders in which they are     *)
(* taken: a goroutine that appends a chat line holds the mutex of its      *)
(* instance while it emits the line under the manager's mutex, List holds  *)
(* the manager's while it copies every instance, and Create, Delete,       *)
(* Subscribe and the end of a subscription take the manager's to write.    *)
(*                                                                         *)
(* Both are sync.RWMutex: a goroutine that waits for Lock keeps new        *)
(* readers out.  Every goroutine runs its call once.                       *)
(***************************************************************************)
EXTENDS FiniteSets

CONSTANTS
  Appender,   \* connection goroutines of the instance, at a chat event
  Lister,     \* callers of List and StartAutoConnect
  Registrar,  \* callers of Create, Delete, Subscribe and its cleanup
  Nobody      \* no writer

Thread == Appender \cup Lister \cup Registrar

\* Manager.mu and instance.mu
Mutex == {"manager", "instance"}

VARIABLES
  readers,  \* of each mutex: who holds it to read
  writer,   \* who holds it to write
  asking,   \* who waits for the readers to leave
  pc

vars == <<readers, writer, asking, pc>>

TypeOK ==
  /\ readers \in [Mutex -> SUBSET Thread]
  /\ writer \in [Mutex -> Thread \cup {Nobody}]
  /\ asking \in [Mutex -> Thread \cup {Nobody}]
  /\ pc \in [Thread -> {"begin", "ask", "locked", "inner", "end"}]

Init ==
  /\ readers = [x \in Mutex |-> {}]
  /\ writer = [x \in Mutex |-> Nobody]
  /\ asking = [x \in Mutex |-> Nobody]
  /\ pc = [t \in Thread |-> "begin"]

-----------------------------------------------------------------------------
(* sync.RWMutex *)

Goto(t, label) == pc' = [pc EXCEPT ![t] = label]

Free(x) == writer[x] = Nobody /\ asking[x] = Nobody

RLock(x, t) ==
  /\ Free(x)
  /\ readers' = [readers EXCEPT ![x] = @ \cup {t}]

\* Lock announces itself first ...
Ask(x, t) ==
  /\ Free(x)
  /\ asking' = [asking EXCEPT ![x] = t]

\* ... and waits for the readers that are in.
Lock(x, t) ==
  /\ asking[x] = t /\ readers[x] = {}
  /\ asking' = [asking EXCEPT ![x] = Nobody]
  /\ writer' = [writer EXCEPT ![x] = t]

-----------------------------------------------------------------------------
(* connectAttempt at EventChat: appendChat and its emit *)

BeginAppend(t) ==
  /\ pc[t] = "begin" /\ Ask("instance", t) /\ Goto(t, "ask")
  /\ UNCHANGED <<readers, writer>>

LockInstance(t) ==
  /\ pc[t] = "ask" /\ Lock("instance", t) /\ Goto(t, "locked")
  /\ UNCHANGED readers

Emit(t) ==
  /\ pc[t] = "locked" /\ RLock("manager", t) /\ Goto(t, "inner")
  /\ UNCHANGED <<writer, asking>>

EndAppend(t) ==
  /\ pc[t] = "inner" /\ Goto(t, "end")
  /\ readers' = [readers EXCEPT !["manager"] = @ \ {t}]
  /\ writer' = [writer EXCEPT !["instance"] = Nobody]
  /\ UNCHANGED asking

-----------------------------------------------------------------------------
(* List and its snapshot() of an instance *)

BeginList(t) ==
  /\ pc[t] = "begin" /\ RLock("manager", t) /\ Goto(t, "locked")
  /\ UNCHANGED <<writer, asking>>

Snapshot(t) ==
  /\ pc[t] = "locked" /\ RLock("instance", t) /\ Goto(t, "inner")
  /\ UNCHANGED <<writer, asking>>

EndList(t) ==
  /\ pc[t] = "inner" /\ Goto(t, "end")
  /\ readers' = [x \in Mutex |-> readers[x] \ {t}]
  /\ UNCHANGED <<writer, asking>>

-----------------------------------------------------------------------------
(* Subscribe *)

BeginSubscribe(t) ==
  /\ pc[t] = "begin" /\ Ask("manager", t) /\ Goto(t, "ask")
  /\ UNCHANGED <<readers, writer>>

LockManager(t) ==
  /\ pc[t] = "ask" /\ Lock("manager", t) /\ Goto(t, "locked")
  /\ UNCHANGED readers

EndSubscribe(t) ==
  /\ pc[t] = "locked" /\ Goto(t, "end")
  /\ writer' = [writer EXCEPT !["manager"] = Nobody]
  /\ UNCHANGED <<readers, asking>>

-----------------------------------------------------------------------------
Append(t) == BeginAppend(t) \/ LockInstance(t) \/ Emit(t) \/ EndAppend(t)
List(t)   == BeginList(t) \/ Snapshot(t) \/ EndList(t)
Subscribe(t) == BeginSubscribe(t) \/ LockManager(t) \/ EndSubscribe(t)

Next == \/ \E t \in Appender : Append(t)
        \/ \E t \in Lister : List(t)
        \/ \E t \in Registrar : Subscribe(t)

\* A goroutine that can go on does.
Fairness ==
  /\ \A t \in Appender : WF_vars(Append(t))
  /\ \A t \in Lister : WF_vars(List(t))
  /\ \A t \in Registrar : WF_vars(Subscribe(t))

Spec == Init /\ [][Next]_vars /\ Fairness

-----------------------------------------------------------------------------
(* Properties *)

\* "Chat and low-frequency state keep publishing immediately through publish"
\* (manager.go:1777-1778): a chat line that has been appended is emitted, and its
\* instance unlocked.
ChatIsEmitted == \A t \in Appender : pc[t] = "locked" ~> pc[t] = "end"
=============================================================================
