---------------------------- MODULE InstanceManager ----------------------------
(***************************************************************************)
(* One instance of service.Manager: the callers of Connect, Disconnect,    *)
(* Delete, Update and of the actions, and one connection goroutine for     *)
(* each context that Connect makes (Manager.connect), which dials client   *)
(* after client and applies the events of each to the snapshot.            *)
(*                                                                         *)
(* A step is one critical section of instance.mu, or what a goroutine does *)
(* after it.  A context and a client are numbers, 0 being nil.  Of the     *)
(* snapshot the model keeps whose data it holds and the dialogs.           *)
(***************************************************************************)
EXTENDS Naturals, Sequences, FiniteSets

CONSTANTS
  Api,                \* callers of the manager
  Calls,              \* the calls they make
  MaxDeferredDialogs, \* domain.MaxDeferredDialogs
  MaxConnects,        \* bound: contexts
  MaxClients,         \* bound: clients dialed
  MaxDialogs,         \* bound: dialogs received
  MaxCalls            \* bound: calls

Call == {"connect", "disconnect", "delete", "update", "close", "afk", "teleport",
         "dialog", "defer_dialog", "show_dialog", "dismiss_dialog"}

ASSUME CallAssumption == Calls \subseteq Call
ASSUME BoundAssumption ==
  /\ MaxDeferredDialogs \in Nat /\ MaxConnects \in Nat /\ MaxClients \in Nat
  /\ MaxDialogs \in Nat /\ MaxCalls \in Nat

Context == 1..MaxConnects
Client  == 1..MaxClients
Dialog  == 1..MaxDialogs

VARIABLES
  registered,        \* the manager's map holds the instance
  ctx, client,       \* instance.ctx and instance.client
  cancelled,         \* the contexts that are cancelled
  status,            \* snap.Connection.Status
  world,             \* the clients whose data the snapshot holds
  position,          \* the client that instance.position belongs to
  activeDialog, dialogs,
  loop, dialed,      \* of each context: where its goroutine is, and its client
  events,            \* of each client: "none", "open", "ended", "closed"
  pc, job,           \* of each caller: where it is, and what it took with it
  received,          \* history: the clients that sent the dialogs, in order
  answers,           \* history: the dialogs answered, and where
  overtaken,         \* history: a Teleport ended after its session
  unannounced,       \* history: the clients that ended with no EventDisconnected
  connects, clients, calls

current  == <<ctx, client, status>>
snapshot == <<world, position, activeDialog, dialogs>>
threads  == <<pc, job>>
bounds   == <<connects, clients, calls>>
history  == <<received, answers, overtaken, unannounced>>
vars == <<registered, current, cancelled, snapshot, loop, dialed, events, threads,
          history, bounds>>

\* What a caller took out of a critical section: the old context and client, the
\* context it made, the dialog that it answers.
Job == [context : 0..MaxConnects, client : 0..MaxClients, made : 0..MaxConnects,
        dialog : 0..MaxDialogs]
Nothing == [context |-> 0, client |-> 0, made |-> 0, dialog |-> 0]

Label == Call \cup {"idle", "start", "retire", "reconnect", "give_up",
                    "retire_failed", "fail", "teleported", "answer"}

TypeOK ==
  /\ registered \in BOOLEAN
  /\ ctx \in 0..MaxConnects /\ client \in 0..MaxClients
  /\ cancelled \subseteq Context
  /\ status \in {"disconnected", "connecting", "connected", "error"}
  /\ world \subseteq Client /\ position \in 0..MaxClients
  /\ activeDialog \in 0..MaxDialogs
  /\ dialogs \in Seq(Dialog) /\ Len(dialogs) <= MaxDeferredDialogs
  /\ loop \in [Context -> {"off", "dial", "install", "events", "record", "wait",
                           "stopped"}]
  /\ dialed \in [Context -> 0..MaxClients]
  /\ \A g \in Context : loop[g] \in {"install", "events"} => dialed[g] # 0
  /\ events \in [Client -> {"none", "open", "ended", "closed"}]
  /\ pc \in [Api -> Label]
  /\ job \in [Api -> Job]
  /\ received \in Seq(Client) /\ Len(received) <= MaxDialogs
  /\ answers \in Seq((0..MaxDialogs) \X (0..MaxClients))
  /\ overtaken \in BOOLEAN /\ unannounced \subseteq Client
  /\ connects \in 0..MaxConnects /\ clients \in 0..MaxClients
  /\ calls \in 0..MaxCalls

Init ==
  /\ registered = TRUE
  /\ ctx = 0 /\ client = 0 /\ status = "disconnected"
  /\ cancelled = {}
  /\ world = {} /\ position = 0 /\ activeDialog = 0 /\ dialogs = <<>>
  /\ loop = [g \in Context |-> "off"] /\ dialed = [g \in Context |-> 0]
  /\ events = [c \in Client |-> "none"]
  /\ pc = [t \in Api |-> "idle"] /\ job = [t \in Api |-> Nothing]
  /\ received = <<>> /\ answers = <<>> /\ overtaken = FALSE /\ unannounced = {}
  /\ connects = 0 /\ clients = 0 /\ calls = 0

-----------------------------------------------------------------------------
Goto(t, label) == pc' = [pc EXCEPT ![t] = label]

\* A call is over, and leaves nothing behind.
Return(t) == Goto(t, "idle") /\ job' = [job EXCEPT ![t] = Nothing]

Cancel(g) == cancelled' = IF g = 0 THEN cancelled ELSE cancelled \cup {g}

\* client.Close: Events() will be closed after a last event.
CloseClient(c) ==
  events' = IF c # 0 /\ events[c] = "open" THEN [events EXCEPT ![c] = "ended"]
                                           ELSE events

\* Mutant of ResetConnectionState: a dialog of the last session stays open.
ResetKeepingDialog ==
  world' = {} /\ position' = 0 /\ dialogs' = <<>> /\ UNCHANGED activeDialog

ResetConnectionState ==
  world' = {} /\ position' = 0 /\ activeDialog' = 0 /\ dialogs' = <<>>

-----------------------------------------------------------------------------
(* Connect, Disconnect, Delete, Update, Close *)

\* A call finds the instance in the map and uses it from then on, whatever
\* becomes of the map.  Delete takes it out.
Begin(t) ==
  /\ pc[t] = "idle" /\ registered /\ calls < MaxCalls
  /\ \E call \in Calls : Goto(t, call) /\ registered' = (call # "delete")
  /\ calls' = calls + 1
  /\ UNCHANGED <<current, cancelled, snapshot, loop, dialed, events, job, history,
                 connects, clients>>

\* The new context takes the place of the old one, which is only noted here.
Connect(t) ==
  /\ pc[t] = "connect" \/ (pc[t] = "reconnect" /\ registered)
  /\ connects < MaxConnects
  /\ connects' = connects + 1
  /\ job' = [job EXCEPT ![t] = [Nothing EXCEPT !.context = ctx, !.client = client,
                                              !.made = connects + 1]]
  /\ ctx' = connects + 1 /\ client' = 0 /\ status' = "connecting"
  /\ ResetConnectionState
  /\ Goto(t, "start")
  /\ UNCHANGED <<registered, cancelled, loop, dialed, events, history, clients,
                 calls>>

\* After the unlock the old connection is ended and the new one begun.
StartConnection(t) ==
  /\ pc[t] = "start"
  /\ Cancel(job[t].context) /\ CloseClient(job[t].client)
  /\ loop' = [loop EXCEPT ![job[t].made] = "dial"]
  /\ Return(t)
  /\ UNCHANGED <<registered, current, snapshot, dialed, history, bounds>>

\* The log could not be reset, or the instance is no longer in the map.
ConnectFails(t) ==
  /\ \/ pc[t] = "connect" /\ Return(t)
     \/ pc[t] = "reconnect" /\ Goto(t, "give_up") /\ UNCHANGED job
  /\ UNCHANGED <<registered, current, cancelled, snapshot, loop, dialed, events,
                 history, bounds>>

\* Delete takes the connection, Disconnect its traces in the snapshot as well.
TakeConnection(t, label) ==
  /\ job' = [job EXCEPT ![t] = [Nothing EXCEPT !.context = ctx, !.client = client]]
  /\ ctx' = 0 /\ client' = 0
  /\ Goto(t, label)

Disconnect(t) ==
  /\ pc[t] = "disconnect" \/ (pc[t] = "give_up" /\ registered)
  /\ TakeConnection(t, IF pc[t] = "give_up" THEN "retire_failed" ELSE "retire")
  /\ status' = "disconnected"
  /\ ResetConnectionState
  /\ UNCHANGED <<registered, cancelled, loop, dialed, events, history, bounds>>

Delete(t) ==
  /\ pc[t] = "delete"
  /\ TakeConnection(t, "retire")
  /\ UNCHANGED <<registered, status, cancelled, snapshot, loop, dialed, events,
                 history, bounds>>

Retire(t) ==
  /\ Cancel(job[t].context) /\ CloseClient(job[t].client)
  /\ \/ pc[t] = "retire" /\ Return(t)
     \/ pc[t] = "retire_failed" /\ Goto(t, "fail") /\ UNCHANGED job
  /\ UNCHANGED <<registered, current, snapshot, loop, dialed, history, bounds>>

\* The saved server has another client version and a connection is active.
Update(t) ==
  /\ pc[t] = "update"
  /\ Return(t) \/ (ctx # 0 /\ Goto(t, "reconnect") /\ UNCHANGED job)
  /\ UNCHANGED <<registered, current, cancelled, snapshot, loop, dialed, events,
                 history, bounds>>

\* Update reports that the reconnect failed, whoever has connected since.
UpdateFails(t) ==
  /\ pc[t] = "fail" \/ (pc[t] = "give_up" /\ ~registered)
  /\ status' = "error"
  /\ Return(t)
  /\ UNCHANGED <<registered, ctx, client, cancelled, snapshot, loop, dialed, events,
                 history, bounds>>

Close(t) ==
  /\ pc[t] = "close"
  /\ Cancel(ctx) /\ CloseClient(client)
  /\ Return(t)
  /\ UNCHANGED <<registered, current, snapshot, loop, dialed, history, bounds>>

-----------------------------------------------------------------------------
(* Manager.action *)

Connected == client # 0 /\ status = "connected"

Refuse(t) ==
  /\ pc[t] \in {"afk", "teleport", "dialog", "defer_dialog", "show_dialog",
                "dismiss_dialog"}
  /\ ~Connected \/ (pc[t] = "dialog" /\ activeDialog = 0)
  /\ Return(t)
  /\ UNCHANGED <<registered, current, cancelled, snapshot, loop, dialed, events,
                 history, bounds>>

\* ActionAFK writes the snapshot in the section that looked at the client.
SetAFK(t) ==
  /\ pc[t] = "afk" /\ Connected
  /\ world' = world \cup {client}
  /\ Return(t)
  /\ UNCHANGED <<registered, current, cancelled, position, activeDialog, dialogs,
                 loop, dialed, events, history, bounds>>

\* ActionTeleport writes it in another one, after the client has written.
Teleport(t) ==
  /\ \/ /\ pc[t] = "teleport" /\ Connected
        /\ Goto(t, "teleported")
        /\ job' = [job EXCEPT ![t].client = client]
        /\ UNCHANGED <<position, overtaken>>
     \/ /\ pc[t] = "teleported"
        /\ Return(t)
        /\ \/ position' = job[t].client
              /\ overtaken' = (overtaken \/ client # job[t].client)
           \/ UNCHANGED <<position, overtaken>>
  /\ UNCHANGED <<registered, current, cancelled, world, activeDialog, dialogs, loop,
                 dialed, events, received, answers, unannounced, bounds>>

\* Mutant of TakeDialog: the dialog stays active while it is answered.
TakeDialogLater(t) ==
  /\ pc[t] = "dialog" /\ Connected /\ activeDialog # 0
  /\ job' = [job EXCEPT ![t].client = client, ![t].dialog = activeDialog]
  /\ Goto(t, "answer")
  /\ UNCHANGED <<registered, current, cancelled, snapshot, loop, dialed, events,
                 history, bounds>>

\* ActionDialog consumes the dialog before it goes to the network.
TakeDialog(t) ==
  /\ pc[t] = "dialog" /\ Connected /\ activeDialog # 0
  /\ job' = [job EXCEPT ![t].client = client, ![t].dialog = activeDialog]
  /\ activeDialog' = 0
  /\ Goto(t, "answer")
  /\ UNCHANGED <<registered, current, cancelled, world, position, dialogs, loop,
                 dialed, events, history, bounds>>

AnswerDialog(t) ==
  /\ pc[t] = "answer"
  /\ \/ /\ events[job[t].client] = "open"
        /\ answers' = Append(answers, <<job[t].dialog, job[t].client>>)
     \/ UNCHANGED answers
  /\ Return(t)
  /\ UNCHANGED <<registered, current, cancelled, snapshot, loop, dialed, events,
                 received, overtaken, unannounced, bounds>>

\* Mutant of Defer: the oldest deferred dialog is not dropped.
DeferAll(d) == Append(dialogs, d)

Defer(d) ==
  LET all == Append(dialogs, d)
  IN IF Len(all) > MaxDeferredDialogs THEN Tail(all) ELSE all

Without(i) ==
  [j \in 1..(Len(dialogs) - 1) |-> dialogs[IF j < i THEN j ELSE j + 1]]

\* Some of the deferred dialogs stay, in their order.
Keep(n) ==
  \E kept \in [1..n -> DOMAIN dialogs] :
    /\ \A j, k \in 1..n : j < k => kept[j] < kept[k]
    /\ dialogs' = [j \in 1..n |-> dialogs[kept[j]]]

Deferred == {dialogs[i] : i \in DOMAIN dialogs}

\* ActionDeferDialog, ActionShowDialog and ActionDismissDialog; a call that names
\* another dialog does nothing.  Deferred dialogs may have one identifier.
MoveDialog(t) ==
  /\ Connected /\ Return(t)
  /\ \/ pc[t] = "defer_dialog" /\ activeDialog # 0
        /\ dialogs' = Defer(activeDialog) /\ activeDialog' = 0
     \/ pc[t] = "show_dialog"
        /\ \E i \in DOMAIN dialogs : activeDialog' = dialogs[i] /\ dialogs' = Without(i)
     \/ pc[t] = "dismiss_dialog"
        /\ \E n \in 0..Len(dialogs) : Keep(n)
        /\ UNCHANGED activeDialog
     \/ pc[t] \in {"defer_dialog", "show_dialog"}
        /\ UNCHANGED <<activeDialog, dialogs>>
  /\ UNCHANGED <<registered, current, cancelled, world, position, loop, dialed,
                 events, history, bounds>>

-----------------------------------------------------------------------------
(* Manager.connect: the goroutine of a context *)

Superseded(g) == g \in cancelled \/ ctx # g

LoopTo(g, label) == loop' = [loop EXCEPT ![g] = label]

Dial(g) ==
  /\ loop[g] = "dial"
  /\ \/ /\ clients < MaxClients /\ g \notin cancelled
        /\ clients' = clients + 1
        /\ dialed' = [dialed EXCEPT ![g] = clients + 1]
        /\ events' = [events EXCEPT ![clients + 1] = "open"]
        /\ LoopTo(g, "install")
     \/ LoopTo(g, "record") /\ UNCHANGED <<clients, dialed, events>>
  /\ UNCHANGED <<registered, current, cancelled, snapshot, threads, history,
                 connects, calls>>

\* Mutant of Install: a client is installed for whatever context is current.
InstallUnchecked(g) ==
  /\ loop[g] = "install"
  /\ client' = dialed[g] /\ LoopTo(g, "events")
  /\ UNCHANGED <<registered, ctx, status, cancelled, snapshot, dialed, events,
                 threads, history, bounds>>

\* The client that a superseded goroutine has dialed is closed again.
Install(g) ==
  /\ loop[g] = "install"
  /\ IF Superseded(g)
       THEN CloseClient(dialed[g]) /\ LoopTo(g, "record") /\ UNCHANGED client
       ELSE client' = dialed[g] /\ LoopTo(g, "events") /\ UNCHANGED events
  /\ UNCHANGED <<registered, ctx, status, cancelled, snapshot, dialed, threads,
                 history, bounds>>

Stale(g) == Superseded(g) \/ client # dialed[g]

\* An event of a goroutine that has been superseded is dropped, and ends it.
DropEvent(g) ==
  /\ loop[g] = "events" /\ events[dialed[g]] \in {"open", "ended"} /\ Stale(g)
  /\ LoopTo(g, "record")
  /\ UNCHANGED <<registered, current, cancelled, snapshot, dialed, events, threads,
                 history, bounds>>

ApplyEvent(g) ==
  /\ loop[g] = "events" /\ events[dialed[g]] \in {"open", "ended"} /\ ~Stale(g)
  /\ world' = world \cup {dialed[g]}
  /\ \/ status' = "connected"                             \* EventJoined
        /\ UNCHANGED <<position, activeDialog, received>>
     \/ position' = dialed[g]                             \* EventPosition
        /\ UNCHANGED <<status, activeDialog, received>>
     \/ Len(received) < MaxDialogs                        \* EventDialog
        /\ received' = Append(received, dialed[g])
        /\ activeDialog' = Len(received) + 1
        /\ UNCHANGED <<status, position>>
     \/ activeDialog' = 0                                 \* EventDialog: none
        /\ UNCHANGED <<status, position, received>>
  /\ UNCHANGED <<registered, ctx, client, cancelled, dialogs, loop, dialed, events,
                 threads, answers, overtaken, unannounced, bounds>>

\* EventDisconnected is the last event before Events() is closed.
EventDisconnected(g) ==
  /\ loop[g] = "events" /\ events[dialed[g]] = "ended" /\ ~Stale(g)
  /\ events' = [events EXCEPT ![dialed[g]] = "closed"]
  /\ client' = 0 /\ status' = "error"
  /\ ResetConnectionState
  /\ UNCHANGED <<registered, ctx, cancelled, loop, dialed, threads, history, bounds>>

\* A feed that was full is closed without it (EventDispatcher).
EndUnannounced(g) ==
  /\ loop[g] = "events" /\ events[dialed[g]] = "ended"
  /\ events' = [events EXCEPT ![dialed[g]] = "closed"]
  /\ unannounced' = unannounced \cup {dialed[g]}
  /\ UNCHANGED <<registered, current, cancelled, snapshot, loop, dialed, threads,
                 received, answers, overtaken, bounds>>

EventsClosed(g) ==
  /\ loop[g] = "events" /\ events[dialed[g]] = "closed"
  /\ LoopTo(g, "record")
  /\ UNCHANGED <<registered, current, cancelled, snapshot, dialed, events, threads,
                 history, bounds>>

\* recordConnectionFailure
RecordFailure(g) ==
  /\ loop[g] = "record"
  /\ IF Superseded(g)
       THEN LoopTo(g, "stopped") /\ UNCHANGED <<client, status>>
       ELSE client' = 0 /\ status' = "error" /\ LoopTo(g, "wait")
  /\ UNCHANGED <<registered, ctx, cancelled, snapshot, dialed, events, threads,
                 history, bounds>>

Retry(g) ==
  /\ loop[g] = "wait"
  /\ LoopTo(g, IF Superseded(g) THEN "stopped" ELSE "dial")
  /\ UNCHANGED <<registered, current, cancelled, snapshot, dialed, events, threads,
                 history, bounds>>

\* refreshServerInfo, the goroutine of a client
RefreshServerInfo(g) ==
  /\ dialed[g] # 0 /\ g \notin cancelled /\ client = dialed[g]
  /\ status = "connected"
  /\ world' = world \cup {dialed[g]}
  /\ UNCHANGED <<registered, current, cancelled, position, activeDialog, dialogs,
                 loop, dialed, events, threads, history, bounds>>

\* The server ends the connection, or the context of the client is done.
ConnectionLost(c) ==
  /\ events[c] = "open"
  /\ events' = [events EXCEPT ![c] = "ended"]
  /\ UNCHANGED <<registered, current, cancelled, snapshot, loop, dialed, threads,
                 history, bounds>>

-----------------------------------------------------------------------------
Caller(t) ==
  \/ Begin(t) \/ Connect(t) \/ StartConnection(t) \/ ConnectFails(t)
  \/ Disconnect(t) \/ Delete(t) \/ Retire(t) \/ Update(t) \/ UpdateFails(t)
  \/ Close(t) \/ Refuse(t) \/ SetAFK(t) \/ Teleport(t) \/ TakeDialog(t)
  \/ AnswerDialog(t) \/ MoveDialog(t)

Connection(g) ==
  \/ Dial(g) \/ Install(g) \/ DropEvent(g) \/ ApplyEvent(g)
  \/ EventDisconnected(g) \/ EndUnannounced(g) \/ EventsClosed(g) \/ RecordFailure(g) \/ Retry(g)
  \/ RefreshServerInfo(g)

Next == \/ \E t \in Api : Caller(t)
        \/ \E g \in Context : Connection(g)
        \/ \E c \in Client : ConnectionLost(c)

Spec == Init /\ [][Next]_vars

-----------------------------------------------------------------------------
(* Properties *)

\* The connection whose data the snapshot may hold: the current one, or one that
\* has ended without the event that would have cleared it.
Shown == ({client} \ {0}) \cup unannounced

SnapshotOfCurrent ==
  /\ world \subseteq Shown
  /\ activeDialog # 0 => received[activeDialog] \in Shown
  /\ \A d \in Deferred : received[d] \in Shown
  /\ position \in Shown \cup {0} \/ overtaken
  /\ status = "connected" => Shown # {}

NoStrayClient ==
  \A g \in Context :
    dialed[g] # 0 /\ events[dialed[g]] = "open" /\ client # dialed[g] =>
      \/ loop[g] = "install"
      \/ \E t \in Api : pc[t] \in {"start", "retire", "retire_failed"}
                       /\ job[t].client = dialed[g]

\* The snapshot of an instance holds nothing of a connection but of the current
\* one, whichever goroutines of earlier contexts are still running: an event,
\* a failure or a dialog of theirs never gets into it (connectAttempt,
\* recordConnectionFailure).  Only a Teleport that a reconnect has overtaken
\* leaves a position behind.  And a connection that is open and not the current
\* one has somebody who is about to close it.
CurrentOnly == registered => SnapshotOfCurrent /\ NoStrayClient

\* "clearing after RespondDialog would then erase that new dialog and leave the
\* UI with a stale response state" (manager.go:1307): a dialog is answered once,
\* on the connection that sent it, and a dialog that waits has not been.
AnsweredOnce ==
  /\ \A i \in DOMAIN answers :
       received[answers[i][1]] \in {answers[i][2]} \cup unannounced
  /\ \A i, j \in DOMAIN answers : answers[i][1] = answers[j][1] => i = j
  /\ \A i \in DOMAIN answers :
       /\ answers[i][1] # activeDialog
       /\ answers[i][1] \notin Deferred
=============================================================================
