------------------------- MODULE InstanceManagerProofs -------------------------
(***************************************************************************)
(* What InstanceManager keeps for every number of callers, contexts,       *)
(* clients and dialogs: its types, and that the snapshot holds nothing of  *)
(* a connection that another one has replaced.                             *)
(***************************************************************************)
EXTENDS InstanceManager, SequenceTheorems, TLAPS

-----------------------------------------------------------------------------
(* The calls *)

LEMMA NothingType == Nothing \in Job
BY BoundAssumption DEF Nothing, Job

LEMMA GotoType ==
  ASSUME TypeOK, NEW t \in Api, NEW label \in Label, Goto(t, label)
  PROVE  pc' \in [Api -> Label]
BY DEF TypeOK, Goto

\* A call that is over.
LEMMA ReturnType ==
  ASSUME TypeOK, NEW t \in Api, Return(t)
  PROVE  pc' \in [Api -> Label] /\ job' \in [Api -> Job]
<1>1. "idle" \in Label
  BY DEF Label
<1> QED BY <1>1, NothingType, GotoType DEF Return, TypeOK

LEMMA ResetType ==
  ASSUME ResetConnectionState
  PROVE  /\ world' \subseteq Client /\ position' \in 0..MaxClients
         /\ activeDialog' \in 0..MaxDialogs
         /\ dialogs' \in Seq(Dialog) /\ Len(dialogs') <= MaxDeferredDialogs
BY BoundAssumption, EmptySeq DEF ResetConnectionState, Dialog, Client

LEMMA CancelType ==
  ASSUME TypeOK, NEW g \in 0..MaxConnects, Cancel(g)
  PROVE  cancelled' \subseteq Context
BY BoundAssumption DEF TypeOK, Cancel, Context

LEMMA CloseClientType ==
  ASSUME TypeOK, NEW c \in 0..MaxClients, CloseClient(c)
  PROVE  events' \in [Client -> {"none", "open", "ended", "closed"}]
BY BoundAssumption DEF TypeOK, CloseClient, Client

LEMMA InitType == Init => TypeOK
<1> SUFFICES ASSUME Init PROVE TypeOK
  OBVIOUS
<1>1. pc \in [Api -> Label] /\ job \in [Api -> Job]
  BY NothingType DEF Init, Label
<1>2. loop \in [Context -> {"off", "dial", "install", "events", "record", "wait",
                            "stopped"}]
      /\ events \in [Client -> {"none", "open", "ended", "closed"}]
      /\ dialed \in [Context -> 0..MaxClients]
  BY BoundAssumption DEF Init
<1>3. dialogs \in Seq(Dialog) /\ Len(dialogs) <= MaxDeferredDialogs
      /\ received \in Seq(Client) /\ Len(received) <= MaxDialogs
      /\ answers \in Seq((0..MaxDialogs) \X (0..MaxClients))
  BY BoundAssumption, EmptySeq DEF Init
<1>4. cancelled \subseteq Context /\ world \subseteq Client /\ unannounced \subseteq Client
      /\ ctx \in 0..MaxConnects /\ client \in 0..MaxClients /\ position \in 0..MaxClients
      /\ activeDialog \in 0..MaxDialogs /\ connects \in 0..MaxConnects
      /\ clients \in 0..MaxClients /\ calls \in 0..MaxCalls
  BY BoundAssumption DEF Init
<1> QED BY <1>1, <1>2, <1>3, <1>4 DEF Init, TypeOK

LEMMA CallType ==
  ASSUME TypeOK, NEW t \in Api,
         Begin(t) \/ Connect(t) \/ StartConnection(t) \/ ConnectFails(t)
           \/ Disconnect(t) \/ Delete(t) \/ Retire(t) \/ Update(t)
           \/ UpdateFails(t) \/ Close(t)
  PROVE  TypeOK'
<1> USE DEF current, snapshot, threads, bounds, history
<1>0. job[t] \in Job
  BY DEF TypeOK
<1>1. CASE Begin(t)
  <2>1. PICK call \in Calls : Goto(t, call) /\ registered' = (call # "delete")
    BY <1>1 DEF Begin
  <2>2. pc' \in [Api -> Label]
    BY <2>1, GotoType, CallAssumption DEF Label
  <2>3. calls' \in 0..MaxCalls
    BY <1>1, BoundAssumption DEF Begin, TypeOK
  <2> QED BY <1>1, <2>1, <2>2, <2>3 DEF Begin, TypeOK
<1>2. CASE Connect(t)
  <2>1. connects + 1 \in 1..MaxConnects
    BY <1>2, BoundAssumption DEF Connect, TypeOK
  <2>2. [Nothing EXCEPT !.context = ctx, !.client = client, !.made = connects + 1]
          \in Job
    <3>1. connects + 1 \in 0..MaxConnects /\ 0 \in 0..MaxDialogs
      BY <2>1, BoundAssumption DEF TypeOK
    <3>2. ctx \in 0..MaxConnects /\ client \in 0..MaxClients
      BY DEF TypeOK
    <3> QED BY <3>1, <3>2 DEF Job, Nothing
  <2>3. job' \in [Api -> Job] /\ pc' \in [Api -> Label]
    BY <1>2, <2>2, GotoType DEF Connect, TypeOK, Label
  <2>4. ctx' \in 0..MaxConnects /\ client' \in 0..MaxClients
        /\ connects' \in 0..MaxConnects
    BY <1>2, <2>1, BoundAssumption DEF Connect
  <2> QED BY <1>2, <2>3, <2>4, ResetType DEF Connect, TypeOK
<1>3. CASE StartConnection(t)
  <2>1. cancelled' \subseteq Context
        /\ events' \in [Client -> {"none", "open", "ended", "closed"}]
    BY <1>0, <1>3, CancelType, CloseClientType DEF StartConnection, Job
  <2>2. pc' \in [Api -> Label] /\ job' \in [Api -> Job]
    BY <1>3, ReturnType DEF StartConnection
  <2> QED BY <1>3, <2>1, <2>2 DEF StartConnection, TypeOK
<1>4. CASE ConnectFails(t)
  <2>1. pc' \in [Api -> Label] /\ job' \in [Api -> Job]
    <3>1. CASE Return(t)
      BY <3>1, ReturnType
    <3>2. CASE Goto(t, "give_up") /\ UNCHANGED job
      BY <3>2, GotoType DEF Label, TypeOK
    <3> QED BY <1>4, <3>1, <3>2 DEF ConnectFails
  <2> QED BY <1>4, <2>1 DEF ConnectFails, TypeOK
<1>5. ASSUME NEW label \in Label, TakeConnection(t, label)
      PROVE  /\ pc' \in [Api -> Label] /\ job' \in [Api -> Job]
             /\ ctx' \in 0..MaxConnects /\ client' \in 0..MaxClients
  <2>1. [Nothing EXCEPT !.context = ctx, !.client = client] \in Job
    BY NothingType DEF TypeOK, Job
  <2> QED BY <1>5, <2>1, GotoType, BoundAssumption DEF TakeConnection, TypeOK
<1>6. CASE Disconnect(t)
  <2>1. PICK label \in Label : TakeConnection(t, label)
    BY <1>6 DEF Disconnect, Label
  <2> QED BY <1>5, <1>6, <2>1, ResetType DEF Disconnect, TypeOK
<1>7. CASE Delete(t)
  <2>1. "retire" \in Label
    BY DEF Label
  <2> QED BY <1>5, <1>7, <2>1 DEF Delete, TypeOK
<1>8. CASE Retire(t)
  <2>1. cancelled' \subseteq Context
        /\ events' \in [Client -> {"none", "open", "ended", "closed"}]
    BY <1>0, <1>8, CancelType, CloseClientType DEF Retire, Job
  <2>2. pc' \in [Api -> Label] /\ job' \in [Api -> Job]
    <3>1. CASE Return(t)
      BY <3>1, ReturnType
    <3>2. CASE Goto(t, "fail") /\ UNCHANGED job
      BY <3>2, GotoType DEF Label, TypeOK
    <3> QED BY <1>8, <3>1, <3>2 DEF Retire
  <2> QED BY <1>8, <2>1, <2>2 DEF Retire, TypeOK
<1>9. CASE Update(t)
  <2>1. pc' \in [Api -> Label] /\ job' \in [Api -> Job]
    <3>1. CASE Return(t)
      BY <3>1, ReturnType
    <3>2. CASE Goto(t, "reconnect") /\ UNCHANGED job
      BY <3>2, GotoType DEF Label, TypeOK
    <3> QED BY <1>9, <3>1, <3>2 DEF Update
  <2> QED BY <1>9, <2>1 DEF Update, TypeOK
<1>10. CASE UpdateFails(t)
  BY <1>10, ReturnType DEF UpdateFails, TypeOK
<1>11. CASE Close(t)
  <2>1. cancelled' \subseteq Context
        /\ events' \in [Client -> {"none", "open", "ended", "closed"}]
    BY <1>11, CancelType, CloseClientType DEF Close, TypeOK
  <2> QED BY <1>11, <2>1, ReturnType DEF Close, TypeOK
<1> QED BY <1>1, <1>2, <1>3, <1>4, <1>6, <1>7, <1>8, <1>9, <1>10, <1>11

\* The dialogs that stay are dialogs, and no more than before.
LEMMA WithoutType ==
  ASSUME TypeOK, NEW i \in DOMAIN dialogs
  PROVE  Without(i) \in Seq(Dialog) /\ Len(Without(i)) <= MaxDeferredDialogs
<1> DEFINE n == Len(dialogs) - 1
<1>1. n \in Nat /\ \A j \in 1..Len(dialogs) : dialogs[j] \in Dialog
  BY LenProperties, ElementOfSeq DEF TypeOK
<1>2. \A j \in 1..n : (IF j < i THEN j ELSE j + 1) \in 1..Len(dialogs)
  BY LenProperties DEF TypeOK
<1>3. Without(i) \in [1..n -> Dialog]
  BY <1>1, <1>2 DEF Without
<1>4. Without(i) \in Seq(Dialog) /\ Len(Without(i)) = n
  BY <1>1, <1>3, LenProperties
<1> QED BY <1>4, BoundAssumption DEF TypeOK

LEMMA KeepType ==
  ASSUME TypeOK, NEW n \in 0..Len(dialogs), Keep(n)
  PROVE  dialogs' \in Seq(Dialog) /\ Len(dialogs') <= MaxDeferredDialogs
<1>1. n \in Nat /\ n <= Len(dialogs) /\ \A j \in DOMAIN dialogs : dialogs[j] \in Dialog
  BY LenProperties, ElementOfSeq DEF TypeOK
<1>2. PICK kept \in [1..n -> DOMAIN dialogs] :
        dialogs' = [j \in 1..n |-> dialogs[kept[j]]]
  BY DEF Keep
<1>3. dialogs' \in [1..n -> Dialog]
  BY <1>1, <1>2
<1>4. dialogs' \in Seq(Dialog) /\ Len(dialogs') = n
  BY <1>1, <1>3, LenProperties
<1> QED BY <1>1, <1>4, BoundAssumption, LenProperties DEF TypeOK

LEMMA DeferType ==
  ASSUME TypeOK, NEW d \in Dialog
  PROVE  Defer(d) \in Seq(Dialog) /\ Len(Defer(d)) <= MaxDeferredDialogs
<1> DEFINE all == Append(dialogs, d)
<1>1. all \in Seq(Dialog) /\ Len(all) = Len(dialogs) + 1
  BY AppendProperties DEF TypeOK
<1>2. Len(dialogs) \in Nat
  BY LenProperties DEF TypeOK
<1>3. all # <<>>
  BY <1>1, <1>2, EmptySeq
<1> HIDE DEF all
<1>4. Tail(all) \in Seq(Dialog) /\ Len(Tail(all)) = Len(dialogs)
  BY <1>1, <1>2, <1>3, HeadTailProperties
<1> QED BY <1>1, <1>2, <1>4, BoundAssumption DEF Defer, TypeOK, all

LEMMA ActionType ==
  ASSUME TypeOK, NEW t \in Api,
         Refuse(t) \/ SetAFK(t) \/ Teleport(t) \/ TakeDialog(t)
           \/ AnswerDialog(t) \/ MoveDialog(t)
  PROVE  TypeOK'
<1> USE DEF current, snapshot, threads, bounds, history
<1>0. job[t] \in Job
  BY DEF TypeOK
<1>1. CASE Refuse(t)
  BY <1>1, ReturnType DEF Refuse, TypeOK
<1>2. CASE SetAFK(t)
  <2>1. world' \subseteq Client
    BY <1>2, BoundAssumption DEF SetAFK, Connected, TypeOK, Client
  <2> QED BY <1>2, <2>1, ReturnType DEF SetAFK, TypeOK
<1>3. CASE Teleport(t)
  <2>1. pc' \in [Api -> Label] /\ job' \in [Api -> Job]
    <3>1. CASE Goto(t, "teleported") /\ job' = [job EXCEPT ![t].client = client]
      <4>1. [job[t] EXCEPT !.client = client] \in Job
        BY <1>0 DEF TypeOK, Job
      <4> QED BY <3>1, <4>1, GotoType DEF TypeOK, Label
    <3>2. CASE Return(t)
      BY <3>2, ReturnType
    <3> QED BY <1>3, <3>1, <3>2 DEF Teleport
  <2>2. position' \in 0..MaxClients /\ overtaken' \in BOOLEAN
    BY <1>0, <1>3 DEF Teleport, TypeOK, Job
  <2> QED BY <1>3, <2>1, <2>2 DEF Teleport, TypeOK
<1>4. CASE TakeDialog(t)
  <2>1. [[job[t] EXCEPT !.client = client] EXCEPT !.dialog = activeDialog] \in Job
    BY <1>0 DEF TypeOK, Job
  <2>2. job' \in [Api -> Job]
    BY <1>4, <2>1 DEF TakeDialog, TypeOK
  <2>3. pc' \in [Api -> Label]
    BY <1>4, GotoType DEF TakeDialog, Label
  <2> QED BY <1>4, <2>2, <2>3, BoundAssumption DEF TakeDialog, TypeOK
<1>5. CASE AnswerDialog(t)
  <2>1. answers' \in Seq((0..MaxDialogs) \X (0..MaxClients))
    <3>1. <<job[t].dialog, job[t].client>> \in (0..MaxDialogs) \X (0..MaxClients)
      BY <1>0 DEF Job
    <3> DEFINE S == (0..MaxDialogs) \X (0..MaxClients)
    <3>2. answers' = Append(answers, <<job[t].dialog, job[t].client>>)
            \/ UNCHANGED answers
      BY <1>5 DEF AnswerDialog
    <3>3. answers \in Seq(S) /\ <<job[t].dialog, job[t].client>> \in S
      BY <3>1 DEF TypeOK
    <3> HIDE DEF S
    <3>4. answers' \in Seq(S)
      BY <3>2, <3>3, AppendProperties
    <3> QED BY <3>4 DEF S
  <2> QED BY <1>5, <2>1, ReturnType DEF AnswerDialog, TypeOK
<1>6. CASE MoveDialog(t)
  <2> DEFINE Typed == /\ activeDialog' \in 0..MaxDialogs
                      /\ dialogs' \in Seq(Dialog) /\ Len(dialogs') <= MaxDeferredDialogs
  <2>1. Typed
    <3>1. CASE activeDialog # 0 /\ dialogs' = Defer(activeDialog) /\ activeDialog' = 0
      BY <3>1, DeferType, BoundAssumption DEF TypeOK, Dialog
    <3>2. ASSUME NEW i \in DOMAIN dialogs,
                 activeDialog' = dialogs[i] /\ dialogs' = Without(i)
          PROVE  Typed
      <4>1. dialogs[i] \in Dialog
        BY ElementOfSeq, LenProperties DEF TypeOK
      <4>2. dialogs[i] \in 0..MaxDialogs
        BY <4>1, BoundAssumption DEF Dialog
      <4> QED BY <3>2, <4>2, WithoutType
    <3>3. ASSUME NEW n \in 0..Len(dialogs), Keep(n), UNCHANGED activeDialog
          PROVE  Typed
      BY <3>3, KeepType DEF TypeOK
    <3>4. CASE UNCHANGED <<activeDialog, dialogs>>
      BY <3>4 DEF TypeOK
    <3> QED BY <1>6, <3>1, <3>2, <3>3, <3>4 DEF MoveDialog
  <2> QED BY <1>6, <2>1, ReturnType DEF MoveDialog, TypeOK
<1> QED BY <1>1, <1>2, <1>3, <1>4, <1>5, <1>6

LEMMA ConnectionType ==
  ASSUME TypeOK, NEW g \in Context, Connection(g)
  PROVE  TypeOK'
<1> USE DEF current, snapshot, threads, bounds, history
<1> DEFINE Feed == {"none", "open", "ended", "closed"}
<1>0. dialed[g] \in 0..MaxClients
  BY DEF TypeOK
<1>a. dialed[g] # 0 => dialed[g] \in Client
  BY <1>0, BoundAssumption DEF Client
<1>b. 0 \in 0..MaxClients
  BY BoundAssumption
<1>1. CASE Dial(g)
  <2>1. CASE clients < MaxClients /\ clients' = clients + 1
             /\ dialed' = [dialed EXCEPT ![g] = clients + 1]
             /\ events' = [events EXCEPT ![clients + 1] = "open"]
             /\ LoopTo(g, "install")
    <3>1. clients + 1 \in 0..MaxClients
      BY <2>1, BoundAssumption DEF TypeOK
    <3>2. dialed' \in [Context -> 0..MaxClients] /\ events' \in [Client -> Feed]
      BY <2>1, <3>1 DEF TypeOK
    <3> QED BY <1>1, <2>1, <3>1, <3>2 DEF Dial, LoopTo, TypeOK
  <2>2. CASE LoopTo(g, "record") /\ UNCHANGED <<clients, dialed, events>>
    BY <1>1, <2>2 DEF Dial, LoopTo, TypeOK
  <2> QED BY <1>1, <2>1, <2>2 DEF Dial
<1>2. CASE Install(g)
  <2>1. events' \in [Client -> Feed]
    BY <1>0, <1>2, CloseClientType DEF Install, TypeOK
  <2> QED BY <1>0, <1>2, <2>1 DEF Install, LoopTo, TypeOK
<1>3. CASE DropEvent(g) \/ EventsClosed(g) \/ Retry(g)
  BY <1>3 DEF DropEvent, EventsClosed, Retry, LoopTo, TypeOK
<1>4. CASE ApplyEvent(g)
  <2>1. dialed[g] \in Client
    BY <1>a, <1>4 DEF ApplyEvent, TypeOK
  <2>2. received' \in Seq(Client) /\ Len(received') <= MaxDialogs
        /\ activeDialog' \in 0..MaxDialogs
    <3>1. CASE Len(received) < MaxDialogs /\ received' = Append(received, dialed[g])
               /\ activeDialog' = Len(received) + 1
      <4>1. Len(received) \in Nat
        BY LenProperties DEF TypeOK
      <4> QED BY <2>1, <3>1, <4>1, AppendProperties, BoundAssumption DEF TypeOK
    <3>2. CASE UNCHANGED received /\ (activeDialog' = 0 \/ UNCHANGED activeDialog)
      BY <3>2, BoundAssumption DEF TypeOK
    <3> QED BY <1>4, <3>1, <3>2 DEF ApplyEvent
  <2>3. status' \in {status, "connected"} /\ position' \in {position, dialed[g]}
        /\ world' = world \cup {dialed[g]}
    BY <1>4 DEF ApplyEvent
  <2> QED BY <1>0, <1>4, <2>1, <2>2, <2>3 DEF ApplyEvent, TypeOK
<1>5. CASE EventDisconnected(g)
  <2>1. events' \in [Client -> Feed] /\ client' \in 0..MaxClients
    BY <1>5, <1>b DEF EventDisconnected, TypeOK
  <2> QED BY <1>5, <2>1, ResetType DEF EventDisconnected, TypeOK
<1>6. CASE EndUnannounced(g)
  <2>1. events' \in [Client -> Feed]
    BY <1>6 DEF EndUnannounced, TypeOK
  <2>2. unannounced' \subseteq Client
    BY <1>a, <1>6 DEF EndUnannounced, TypeOK
  <2> QED BY <1>6, <2>1, <2>2 DEF EndUnannounced, TypeOK
<1>7. CASE RecordFailure(g)
  <2>1. client' \in 0..MaxClients
    BY <1>7, BoundAssumption DEF RecordFailure, TypeOK
  <2> QED BY <1>7, <2>1 DEF RecordFailure, LoopTo, TypeOK
<1>8. CASE RefreshServerInfo(g)
  <2>1. world' \subseteq Client
    BY <1>a, <1>8 DEF RefreshServerInfo, TypeOK
  <2> QED BY <1>8, <2>1 DEF RefreshServerInfo, TypeOK
<1> QED BY <1>1, <1>2, <1>3, <1>4, <1>5, <1>6, <1>7, <1>8 DEF Connection

LEMMA NextType == TypeOK /\ [Next]_vars => TypeOK'
<1> SUFFICES ASSUME TypeOK, [Next]_vars PROVE TypeOK'
  OBVIOUS
<1>1. ASSUME NEW t \in Api, Caller(t) PROVE TypeOK'
  BY <1>1, CallType, ActionType DEF Caller
<1>2. ASSUME NEW g \in Context, Connection(g) PROVE TypeOK'
  BY <1>2, ConnectionType
<1>3. ASSUME NEW c \in Client, ConnectionLost(c) PROVE TypeOK'
  BY <1>3 DEF ConnectionLost, TypeOK, current, snapshot, threads, bounds, history
<1>4. CASE UNCHANGED vars
  BY <1>4 DEF vars, TypeOK, current, snapshot, threads, bounds, history
<1> QED BY <1>1, <1>2, <1>3, <1>4 DEF Next

\* Every reachable state is well typed; in particular the deferred dialogs stay
\* within their limit (ActionDeferDialog).
THEOREM TypeCorrect == Spec => []TypeOK
BY InitType, NextType, PTL DEF Spec

-----------------------------------------------------------------------------
(* The inductive invariant of the connections *)

\* Contexts and clients are numbered as they are made, and no two goroutines
\* have the same client.
Numbered ==
  /\ ctx <= connects
  /\ \A g \in Context : g > connects => loop[g] = "off" /\ dialed[g] = 0
  /\ \A g \in Context : dialed[g] <= clients
  /\ \A c \in Client : c > clients => events[c] = "none"
  /\ \A g, h \in Context : g # h /\ dialed[g] = dialed[h] => dialed[g] = 0

\* Each caller of Connect has made a context of its own, which is not started.
Starting ==
  /\ \A t \in Api : pc[t] = "start" =>
       job[t].made \in 1..connects /\ loop[job[t].made] = "off"
  /\ \A t, u \in Api : t # u /\ pc[t] = "start" /\ pc[u] = "start" =>
       job[t].made # job[u].made

\* A client whose feed is closed is the current one only if it ended unannounced.
Endings ==
  /\ \A c \in unannounced : events[c] = "closed"
  /\ client # 0 /\ events[client] = "closed" => client \in unannounced
  /\ \A g \in Context : loop[g] = "install" => events[dialed[g]] \in {"open", "ended"}

\* Where the goroutine of the current context is, and what is its client then.
Owned ==
  \A g \in Context : g \notin cancelled /\ ctx = g =>
    /\ loop[g] \in {"off", "dial", "install", "wait"} => client = 0
    /\ loop[g] = "events" => client \in {0, dialed[g]}
    /\ loop[g] = "record" => client \in {0} \cup unannounced
    /\ loop[g] # "stopped"

DialogsReceived ==
  /\ activeDialog <= Len(received)
  /\ \A d \in Deferred : d <= Len(received)

ClientHasContext == client # 0 => ctx # 0

DeletedFirst == \A t \in Api : pc[t] = "delete" => ~registered

ConnectionInv ==
  /\ TypeOK /\ Numbered /\ Starting /\ Endings /\ Owned
  /\ DialogsReceived /\ DeletedFirst /\ ClientHasContext
  /\ registered \/ ctx # 0 => SnapshotOfCurrent
  /\ registered => NoStrayClient

\* How each part is kept.
LEMMA NumberedKept ==
  ASSUME TypeOK, Numbered, Starting, [Next]_vars
  PROVE  Numbered'
<1> USE DEF current, snapshot, threads, bounds, history, Numbered
<1>0. /\ connects \in Nat /\ clients \in Nat
      /\ \A g \in Context : g \in Nat \ {0} /\ dialed[g] \in Nat
      /\ \A c \in Client : c \in Nat \ {0}
  BY BoundAssumption DEF TypeOK, Context, Client
<1>1. ASSUME NEW t \in Api, Connect(t) PROVE Numbered'
  BY <1>0, <1>1 DEF Connect
<1>2. ASSUME NEW t \in Api, StartConnection(t) PROVE Numbered'
  <2>1. job[t].made \in 1..connects
    BY <1>2 DEF StartConnection, Starting
  <2>2. \A g \in Context : g > connects => loop'[g] = loop[g]
    BY <1>0, <1>2, <2>1 DEF StartConnection, TypeOK
  <2>3. \A c \in Client : events[c] = "none" => events'[c] = "none"
    BY <1>2 DEF StartConnection, CloseClient, TypeOK
  <2> QED BY <1>2, <2>2, <2>3 DEF StartConnection
<1>3. ASSUME NEW t \in Api, Retire(t) \/ Close(t) PROVE Numbered'
  <2>1. \A c \in Client : events[c] = "none" => events'[c] = "none"
    BY <1>3 DEF Retire, Close, CloseClient, TypeOK
  <2> QED BY <1>3, <2>1 DEF Retire, Close
<1>4. ASSUME NEW t \in Api, Disconnect(t) \/ Delete(t) PROVE Numbered'
  BY <1>0, <1>4 DEF Disconnect, Delete, TakeConnection
<1>5. ASSUME NEW t \in Api,
             Begin(t) \/ ConnectFails(t) \/ Update(t) \/ UpdateFails(t) \/ Refuse(t)
               \/ SetAFK(t) \/ Teleport(t) \/ TakeDialog(t) \/ AnswerDialog(t)
               \/ MoveDialog(t)
      PROVE Numbered'
  BY <1>5 DEF Begin, ConnectFails, Update, UpdateFails, Refuse, SetAFK, Teleport,
              TakeDialog, AnswerDialog, MoveDialog
<1>6. ASSUME NEW g \in Context, Dial(g) PROVE Numbered'
  <2>0. loop[g] = "dial"
    BY <1>6 DEF Dial
  <2>1. g <= connects
    BY <1>0, <2>0
  <2>2. CASE clients' = clients + 1 /\ dialed' = [dialed EXCEPT ![g] = clients + 1]
             /\ events' = [events EXCEPT ![clients + 1] = "open"]
             /\ LoopTo(g, "install")
    <3>1. \A h \in Context : h # g => dialed'[h] = dialed[h] /\ loop'[h] = loop[h]
      BY <2>2 DEF LoopTo, TypeOK
    <3>2. dialed'[g] = clients + 1
      BY <2>2 DEF TypeOK
    <3>3. \A c \in Client : c > clients + 1 => events'[c] = events[c]
      BY <1>0, <2>2 DEF TypeOK
    <3>4. \A h \in Context : dialed'[h] <= clients'
      BY <1>0, <2>2, <3>1, <3>2
    <3>5. \A c \in Client : c > clients' => events'[c] = "none"
      BY <1>0, <2>2, <3>3
    <3>6. \A h, k \in Context : h # k /\ dialed'[h] = dialed'[k] => dialed'[h] = 0
      BY <1>0, <3>1, <3>2
    <3>7. \A h \in Context : h > connects' => loop'[h] = "off" /\ dialed'[h] = 0
      BY <1>0, <1>6, <2>1, <3>1 DEF Dial
    <3> QED BY <1>6, <3>4, <3>5, <3>6, <3>7 DEF Dial
  <2>3. CASE LoopTo(g, "record") /\ UNCHANGED <<clients, dialed, events>>
    BY <1>0, <1>6, <2>1, <2>3 DEF Dial, LoopTo, TypeOK
  <2> QED BY <1>6, <2>2, <2>3 DEF Dial
<1>7. ASSUME NEW g \in Context, Install(g) \/ EventDisconnected(g) \/ EndUnannounced(g)
      PROVE  Numbered'
  <2>1. g <= connects
    BY <1>0, <1>7 DEF Install, EventDisconnected, EndUnannounced, TypeOK
  <2>2. \A h \in Context : h > connects => loop'[h] = loop[h]
    BY <1>0, <1>7, <2>1 DEF Install, EventDisconnected, EndUnannounced, LoopTo, TypeOK
  <2>3. \A c \in Client : events[c] = "none" => events'[c] = "none"
    <3>1. CASE Install(g)
      BY <3>1 DEF Install, CloseClient, TypeOK
    <3>2. CASE EventDisconnected(g) \/ EndUnannounced(g)
      BY <3>2 DEF EventDisconnected, EndUnannounced, TypeOK
    <3> QED BY <1>7, <3>1, <3>2
  <2> QED BY <1>7, <2>2, <2>3 DEF Install, EventDisconnected, EndUnannounced
<1>8. ASSUME NEW g \in Context,
             DropEvent(g) \/ EventsClosed(g) \/ RecordFailure(g) \/ Retry(g)
      PROVE  Numbered'
  <2>1. g <= connects
    BY <1>0, <1>8 DEF DropEvent, EventsClosed, RecordFailure, Retry, TypeOK
  <2>2. \A h \in Context : h > connects => loop'[h] = loop[h]
    BY <1>0, <1>8, <2>1
       DEF DropEvent, EventsClosed, RecordFailure, Retry, LoopTo, TypeOK
  <2> QED BY <1>8, <2>2 DEF DropEvent, EventsClosed, RecordFailure, Retry
<1>9. ASSUME NEW g \in Context, ApplyEvent(g) \/ RefreshServerInfo(g) PROVE Numbered'
  BY <1>9 DEF ApplyEvent, RefreshServerInfo
<1>10. ASSUME NEW c \in Client, ConnectionLost(c) PROVE Numbered'
  BY <1>10 DEF ConnectionLost, TypeOK
<1>11. CASE UNCHANGED vars
  BY <1>11 DEF vars
<1> QED BY <1>1, <1>2, <1>3, <1>4, <1>5, <1>6, <1>7, <1>8, <1>9, <1>10, <1>11
        DEF Next, Caller, Connection

LEMMA StartingKept ==
  ASSUME TypeOK, Numbered, Starting, [Next]_vars
  PROVE  Starting'
<1> USE DEF current, snapshot, threads, bounds, history, Starting
<1>0. connects \in Nat /\ \A g \in Context : g \in Nat
  BY DEF TypeOK, Context
<1> DEFINE StartsNone(t) == /\ \A u \in Api : u # t => pc'[u] = pc[u] /\ job'[u] = job[u]
                            /\ pc'[t] # "start"
<1>1. ASSUME NEW t \in Api, StartsNone(t), UNCHANGED <<connects, loop>>
      PROVE  Starting'
  BY <1>1
<1>2. ASSUME NEW t \in Api, Connect(t) PROVE Starting'
  <2>1. \A u \in Api : u # t => pc'[u] = pc[u] /\ job'[u] = job[u]
    BY <1>2 DEF Connect, Goto, TypeOK
  <2>2. pc'[t] = "start" /\ job'[t].made = connects + 1
    BY <1>2 DEF Connect, Goto, TypeOK, Nothing
  <2>3. connects + 1 \in Context
    BY <1>0, <1>2, BoundAssumption DEF Connect, Context
  <2>4. loop'[connects + 1] = "off"
    BY <1>0, <1>2, <2>3 DEF Connect, Numbered
  <2> QED BY <1>0, <1>2, <2>1, <2>2, <2>4 DEF Connect
<1>3. ASSUME NEW t \in Api, StartConnection(t) PROVE Starting'
  <2>1. StartsNone(t)
    BY <1>3 DEF StartConnection, Return, Goto, TypeOK
  <2>2. pc[t] = "start" /\ UNCHANGED connects
    BY <1>3 DEF StartConnection
  <2>3. \A g \in Context : g # job[t].made => loop'[g] = loop[g]
    BY <1>3 DEF StartConnection, TypeOK
  <2>4. \A g \in 1..connects : g \in Context
    BY <1>0, BoundAssumption DEF TypeOK, Context
  <2> QED BY <2>1, <2>2, <2>3, <2>4
<1>4. ASSUME NEW t \in Api,
             Begin(t) \/ ConnectFails(t) \/ Update(t) \/ UpdateFails(t) \/ Refuse(t)
               \/ SetAFK(t) \/ Close(t)
      PROVE  Starting'
  <2>1. StartsNone(t)
    <3>1. CASE Begin(t)
      BY <3>1, CallAssumption DEF Begin, Goto, TypeOK, Call
    <3>2. CASE ~Begin(t)
      BY <1>4, <3>2 DEF ConnectFails, Update, UpdateFails, Refuse, SetAFK, Close,
                       Return, Goto, TypeOK
    <3> QED BY <3>1, <3>2
  <2> QED BY <1>1, <1>4, <2>1
          DEF Begin, ConnectFails, Update, UpdateFails, Refuse, SetAFK, Close
<1>5. ASSUME NEW t \in Api,
             Teleport(t) \/ TakeDialog(t) \/ AnswerDialog(t) \/ MoveDialog(t)
      PROVE  Starting'
  <2>1. StartsNone(t)
    BY <1>5 DEF Teleport, TakeDialog, AnswerDialog, MoveDialog, Return, Goto, TypeOK
  <2> QED BY <1>1, <1>5, <2>1 DEF Teleport, TakeDialog, AnswerDialog, MoveDialog
<1>6. ASSUME NEW t \in Api, Disconnect(t) \/ Delete(t) \/ Retire(t) PROVE Starting'
  <2>1. StartsNone(t)
    BY <1>6 DEF Disconnect, Delete, Retire, TakeConnection, Return, Goto, TypeOK
  <2> QED BY <1>1, <1>6, <2>1 DEF Disconnect, Delete, Retire
<1>7. ASSUME NEW g \in Context, Connection(g) PROVE Starting'
  <2>1. UNCHANGED <<pc, job, connects>>
    BY <1>7 DEF Connection, Dial, Install, DropEvent, ApplyEvent, EventDisconnected,
                EndUnannounced, EventsClosed, RecordFailure, Retry, RefreshServerInfo
  <2>2. \A h \in Context : loop[h] = "off" => loop'[h] = "off"
    BY <1>7 DEF Connection, Dial, Install, DropEvent, ApplyEvent, EventDisconnected,
                EndUnannounced, EventsClosed, RecordFailure, Retry, RefreshServerInfo,
                LoopTo, TypeOK
  <2>3. \A h \in 1..connects : h \in Context
    BY <1>0, BoundAssumption DEF TypeOK, Context
  <2> QED BY <2>1, <2>2, <2>3
<1>8. ASSUME NEW c \in Client, ConnectionLost(c) PROVE Starting'
  BY <1>8 DEF ConnectionLost
<1>9. CASE UNCHANGED vars
  BY <1>9 DEF vars
<1> QED BY <1>2, <1>3, <1>4, <1>5, <1>6, <1>7, <1>8, <1>9 DEF Next, Caller

LEMMA EndingsKept ==
  ASSUME TypeOK, Numbered, Endings, [Next]_vars
  PROVE  Endings'
<1> USE DEF current, snapshot, threads, bounds, history, Endings
<1>0. /\ \A g \in Context : dialed[g] # 0 => dialed[g] \in Client
      /\ client # 0 => client \in Client
      /\ unannounced \subseteq Client
  BY BoundAssumption DEF TypeOK, Client
<1>1. ASSUME UNCHANGED <<unannounced, loop, dialed>>, client' \in {0, client},
             \A c \in Client : events'[c] # events[c] =>
                                 events[c] = "open" /\ events'[c] = "ended"
      PROVE  Endings'
  BY <1>0, <1>1 DEF TypeOK
<1>2. ASSUME NEW t \in Api, StartConnection(t) PROVE Endings'
  <2>1. \A c \in Client : events'[c] # events[c] =>
                            events[c] = "open" /\ events'[c] = "ended"
    BY <1>2 DEF StartConnection, CloseClient, TypeOK
  <2>2. \A g \in Context : loop'[g] = "install" => loop[g] = "install"
    BY <1>2 DEF StartConnection, TypeOK
  <2> QED BY <1>0, <1>2, <2>1, <2>2 DEF StartConnection, TypeOK
<1>3. ASSUME NEW t \in Api, Retire(t) \/ Close(t) PROVE Endings'
  <2>1. \A c \in Client : events'[c] # events[c] =>
                            events[c] = "open" /\ events'[c] = "ended"
    BY <1>3 DEF Retire, Close, CloseClient, TypeOK
  <2> QED BY <1>1, <1>3, <2>1 DEF Retire, Close
<1>4. ASSUME NEW t \in Api, Connect(t) \/ Disconnect(t) \/ Delete(t) PROVE Endings'
  BY <1>1, <1>4 DEF Connect, Disconnect, Delete, TakeConnection
<1>5. ASSUME NEW t \in Api,
             Begin(t) \/ ConnectFails(t) \/ Update(t) \/ UpdateFails(t) \/ Refuse(t)
               \/ SetAFK(t) \/ Teleport(t) \/ TakeDialog(t) \/ AnswerDialog(t)
               \/ MoveDialog(t)
      PROVE  Endings'
  BY <1>5 DEF Begin, ConnectFails, Update, UpdateFails, Refuse, SetAFK, Teleport,
              TakeDialog, AnswerDialog, MoveDialog
<1>6. ASSUME NEW g \in Context, Dial(g) PROVE Endings'
  <2>1. CASE clients < MaxClients /\ clients' = clients + 1
             /\ dialed' = [dialed EXCEPT ![g] = clients + 1]
             /\ events' = [events EXCEPT ![clients + 1] = "open"]
             /\ LoopTo(g, "install")
    <3>1. clients + 1 \in Client /\ events[clients + 1] = "none"
      BY <2>1, BoundAssumption DEF TypeOK, Client, Numbered
    <3>2. \A c \in Client : c # clients + 1 => events'[c] = events[c]
      BY <2>1 DEF TypeOK
    <3>3. events'[clients + 1] = "open"
      BY <2>1, <3>1 DEF TypeOK
    <3>4. \A h \in Context : h # g => dialed'[h] = dialed[h] /\ loop'[h] = loop[h]
      BY <2>1 DEF TypeOK, LoopTo
    <3>5. dialed'[g] = clients + 1
      BY <2>1 DEF TypeOK
    <3>6. \A h \in Context : loop'[h] = "install" => events'[dialed'[h]] \in {"open", "ended"}
      <4>1. \A h \in Context : dialed[h] # clients + 1
        BY DEF TypeOK, Numbered
      <4>2. \A h \in Context : h # g /\ loop'[h] = "install" =>
              dialed'[h] = dialed[h] /\ dialed[h] \in Client
                /\ events[dialed[h]] \in {"open", "ended"}
        BY <1>0, <3>4 DEF TypeOK
      <4> QED BY <3>2, <3>3, <3>5, <4>1, <4>2
    <3> QED BY <1>0, <1>6, <3>1, <3>2, <3>3, <3>6 DEF Dial
  <2>2. CASE LoopTo(g, "record") /\ UNCHANGED <<clients, dialed, events>>
    BY <1>6, <2>2 DEF Dial, LoopTo, TypeOK
  <2> QED BY <1>6, <2>1, <2>2 DEF Dial
<1>7. ASSUME NEW g \in Context, Install(g) PROVE Endings'
  <2>1. \A c \in Client : events'[c] # events[c] =>
                            events[c] = "open" /\ events'[c] = "ended"
    BY <1>7 DEF Install, CloseClient, TypeOK
  <2>2. \A h \in Context : loop'[h] = "install" => loop[h] = "install"
    BY <1>7 DEF Install, LoopTo, TypeOK
  <2>3. client' \in {client, dialed[g]} /\ UNCHANGED <<dialed, unannounced>>
    BY <1>7 DEF Install
  <2>4. dialed[g] \in Client /\ events[dialed[g]] \in {"open", "ended"}
    BY <1>0, <1>7 DEF Install, TypeOK
  <2> QED BY <1>0, <2>1, <2>2, <2>3, <2>4 DEF TypeOK
<1>8. ASSUME NEW g \in Context, EventDisconnected(g) \/ EndUnannounced(g)
      PROVE  Endings'
  <2>1. /\ loop[g] = "events" /\ events' = [events EXCEPT ![dialed[g]] = "closed"]
        /\ UNCHANGED <<loop, dialed>>
    BY <1>8 DEF EventDisconnected, EndUnannounced
  <2>2. dialed[g] \in Client
    BY <1>0, <2>1 DEF TypeOK
  <2>3. \A c \in Client : c # dialed[g] => events'[c] = events[c]
    BY <2>1 DEF TypeOK
  <2>4. events'[dialed[g]] = "closed"
    BY <2>1, <2>2 DEF TypeOK
  <2>5. \A h \in Context : loop'[h] = "install" => events'[dialed'[h]] \in {"open", "ended"}
    BY <1>0, <2>1, <2>2, <2>3 DEF TypeOK, Numbered
  <2>6. CASE EventDisconnected(g)
    BY <1>0, <2>3, <2>4, <2>5, <2>6 DEF EventDisconnected
  <2>7. CASE EndUnannounced(g)
    BY <1>0, <2>2, <2>3, <2>4, <2>5, <2>7 DEF EndUnannounced
  <2> QED BY <1>8, <2>6, <2>7
<1>9. ASSUME NEW g \in Context,
             DropEvent(g) \/ EventsClosed(g) \/ RecordFailure(g) \/ Retry(g)
      PROVE  Endings'
  <2>1. \A h \in Context : loop'[h] = "install" => loop[h] = "install"
    BY <1>9 DEF DropEvent, EventsClosed, RecordFailure, Retry, LoopTo, TypeOK
  <2> QED BY <1>9, <2>1 DEF DropEvent, EventsClosed, RecordFailure, Retry
<1>10. ASSUME NEW g \in Context, ApplyEvent(g) \/ RefreshServerInfo(g) PROVE Endings'
  BY <1>10 DEF ApplyEvent, RefreshServerInfo
<1>11. ASSUME NEW c \in Client, ConnectionLost(c) PROVE Endings'
  BY <1>1, <1>11 DEF ConnectionLost, TypeOK
<1>12. CASE UNCHANGED vars
  BY <1>12 DEF vars
<1> QED BY <1>2, <1>3, <1>4, <1>5, <1>6, <1>7, <1>8, <1>9, <1>10, <1>11, <1>12
        DEF Next, Caller, Connection

\* A goroutine that has been superseded stays so, and the current one has no
\* client but between Install and the end of its feed.
LEMMA OwnedKept ==
  ASSUME TypeOK, Numbered, Starting, Endings, Owned, [Next]_vars
  PROVE  Owned'
<1> USE DEF current, snapshot, threads, bounds, history, Owned, Superseded
<1>1. ASSUME UNCHANGED <<ctx, loop, dialed>>, client' \in {0, client},
             cancelled \subseteq cancelled', unannounced \subseteq unannounced'
      PROVE  Owned'
  BY <1>1
<1>2. ASSUME NEW t \in Api, Connect(t) PROVE Owned'
  <2>1. \A g \in Context : g = connects + 1 => loop[g] = "off"
    BY DEF Numbered, TypeOK, Context
  <2> QED BY <1>2, <2>1 DEF Connect
<1>3. ASSUME NEW t \in Api, StartConnection(t) PROVE Owned'
  <2>1. loop[job[t].made] = "off" /\ UNCHANGED <<ctx, client, dialed, unannounced>>
    BY <1>3 DEF StartConnection, Starting
  <2>2. \A g \in Context : loop'[g] = loop[g] \/ (loop[g] = "off" /\ loop'[g] = "dial")
    BY <1>3, <2>1 DEF StartConnection, TypeOK
  <2>3. cancelled \subseteq cancelled'
    BY <1>3 DEF StartConnection, Cancel
  <2> QED BY <2>1, <2>2, <2>3
<1>4. ASSUME NEW t \in Api, Retire(t) \/ Close(t) PROVE Owned'
  BY <1>1, <1>4 DEF Retire, Close, Cancel
<1>5. ASSUME NEW t \in Api, Disconnect(t) \/ Delete(t) PROVE Owned'
  BY <1>5 DEF Disconnect, Delete, TakeConnection, Context
<1>6. ASSUME NEW t \in Api,
             Begin(t) \/ ConnectFails(t) \/ Update(t) \/ UpdateFails(t) \/ Refuse(t)
               \/ SetAFK(t) \/ Teleport(t) \/ TakeDialog(t) \/ AnswerDialog(t)
               \/ MoveDialog(t)
      PROVE  Owned'
  BY <1>6 DEF Begin, ConnectFails, Update, UpdateFails, Refuse, SetAFK, Teleport,
              TakeDialog, AnswerDialog, MoveDialog
<1>7. ASSUME NEW g \in Context, NEW label, LoopTo(g, label),
             UNCHANGED <<ctx, cancelled>>,
             \A h \in Context : h # g => dialed'[h] = dialed[h],
             Superseded(g) \/ (label # "stopped"
               /\ (label \in {"off", "dial", "install", "wait"} => client' = 0)
               /\ (label = "events" => client' \in {0, dialed'[g]})
               /\ (label = "record" => client' \in {0} \cup unannounced')),
             client' = client \/ ctx = g, unannounced \subseteq unannounced'
      PROVE  Owned'
  <2>1. loop'[g] = label
    BY <1>7 DEF LoopTo, TypeOK
  <2>2. \A h \in Context : h # g => loop'[h] = loop[h]
    BY <1>7 DEF LoopTo, TypeOK
  <2> QED BY <1>7, <2>1, <2>2
<1>8. ASSUME NEW g \in Context, Dial(g) PROVE Owned'
  <2>1. Superseded(g) \/ client = 0
    BY <1>8 DEF Dial
  <2>2. PICK label \in {"install", "record"} : LoopTo(g, label)
    BY <1>8 DEF Dial
  <2>3. \A h \in Context : h # g => dialed'[h] = dialed[h]
    BY <1>8 DEF Dial, TypeOK
  <2>4. UNCHANGED <<ctx, cancelled, client, unannounced>>
    BY <1>8 DEF Dial
  <2> QED BY <1>7, <2>1, <2>2, <2>3, <2>4
<1>9. ASSUME NEW g \in Context, Install(g) PROVE Owned'
  <2>1. CASE Superseded(g)
    BY <1>7, <1>9, <2>1 DEF Install
  <2>2. CASE ~Superseded(g)
    BY <1>7, <1>9, <2>2 DEF Install
  <2> QED BY <2>1, <2>2
<1>10. ASSUME NEW g \in Context, DropEvent(g) PROVE Owned'
  <2>1. Superseded(g) \/ client = 0
    BY <1>10 DEF DropEvent, Stale
  <2> QED BY <1>7, <1>10, <2>1 DEF DropEvent
<1>11. ASSUME NEW g \in Context, EventsClosed(g) PROVE Owned'
  <2>1. Superseded(g) \/ client \in {0} \cup unannounced
    BY <1>11 DEF EventsClosed, Endings
  <2> QED BY <1>7, <1>11, <2>1 DEF EventsClosed
<1>12. ASSUME NEW g \in Context, RecordFailure(g) PROVE Owned'
  BY <1>7, <1>12 DEF RecordFailure
<1>13. ASSUME NEW g \in Context, Retry(g) PROVE Owned'
  BY <1>7, <1>13 DEF Retry
<1>14. ASSUME NEW g \in Context, EventDisconnected(g) \/ EndUnannounced(g) PROVE Owned'
  BY <1>1, <1>14 DEF EventDisconnected, EndUnannounced
<1>15. ASSUME NEW g \in Context, ApplyEvent(g) \/ RefreshServerInfo(g) PROVE Owned'
  BY <1>15 DEF ApplyEvent, RefreshServerInfo
<1>16. ASSUME NEW c \in Client, ConnectionLost(c) PROVE Owned'
  BY <1>16 DEF ConnectionLost
<1>17. CASE UNCHANGED vars
  BY <1>17 DEF vars
<1> QED BY <1>2, <1>3, <1>4, <1>5, <1>6, <1>8, <1>9, <1>10, <1>11, <1>12, <1>13,
           <1>14, <1>15, <1>16, <1>17
        DEF Next, Caller, Connection

\* The dialogs that stay were there before.
LEMMA WithoutKeeps ==
  ASSUME TypeOK, NEW i \in DOMAIN dialogs, dialogs' = Without(i)
  PROVE  Deferred' \subseteq Deferred
<1>1. DOMAIN dialogs = 1..Len(dialogs) /\ Len(dialogs) \in Nat
  BY LenProperties DEF TypeOK
<1>2. DOMAIN Without(i) = 1..(Len(dialogs) - 1)
      /\ \A j \in 1..(Len(dialogs) - 1) :
           Without(i)[j] = dialogs[IF j < i THEN j ELSE j + 1]
  BY DEF Without
<1>3. ASSUME NEW j \in DOMAIN Without(i) PROVE Without(i)[j] \in Deferred
  <2>1. j \in 1..(Len(dialogs) - 1)
    BY <1>2
  <2>2. (IF j < i THEN j ELSE j + 1) \in DOMAIN dialogs
    BY <1>1, <2>1
  <2> QED BY <1>2, <2>1, <2>2 DEF Deferred
<1> QED BY <1>3 DEF Deferred

LEMMA KeepKeeps ==
  ASSUME TypeOK, NEW n \in 0..Len(dialogs), Keep(n)
  PROVE  Deferred' \subseteq Deferred
<1>1. PICK kept \in [1..n -> DOMAIN dialogs] :
        dialogs' = [j \in 1..n |-> dialogs[kept[j]]]
  BY DEF Keep
<1> QED BY <1>1 DEF Deferred

LEMMA DeferKeeps ==
  ASSUME TypeOK, NEW d \in Dialog, dialogs' = Defer(d)
  PROVE  Deferred' \subseteq Deferred \cup {d}
<1> DEFINE all == Append(dialogs, d)
<1>1. Len(dialogs) \in Nat /\ DOMAIN dialogs = 1..Len(dialogs)
  BY LenProperties DEF TypeOK
<1>2. /\ all \in Seq(Dialog) /\ Len(all) = Len(dialogs) + 1
      /\ \A i \in 1..Len(dialogs) : all[i] = dialogs[i]
      /\ all[Len(dialogs) + 1] = d
  BY AppendProperties DEF TypeOK
<1> HIDE DEF all
<1>3. \A i \in 1..Len(all) : all[i] \in Deferred \cup {d}
  BY <1>1, <1>2 DEF Deferred
<1>4. all # <<>>
  BY <1>1, <1>2, EmptySeq
<1>5. Tail(all) \in Seq(Dialog) /\ Len(Tail(all)) = Len(dialogs)
      /\ \A i \in 1..Len(Tail(all)) : Tail(all)[i] = all[i + 1]
  BY <1>1, <1>2, <1>4, HeadTailProperties
<1>6. dialogs' \in {all, Tail(all)}
  BY DEF Defer, all
<1>7. \A i \in DOMAIN dialogs' : dialogs'[i] \in Deferred \cup {d}
  <2>1. DOMAIN all = 1..Len(all) /\ DOMAIN Tail(all) = 1..Len(Tail(all))
    BY <1>2, <1>5, LenProperties
  <2> QED BY <1>1, <1>2, <1>3, <1>5, <1>6, <2>1
<1> QED BY <1>7 DEF Deferred

\* What an action on the dialogs does to them.
LEMMA MoveKeeps ==
  ASSUME TypeOK, NEW t \in Api, MoveDialog(t)
  PROVE  /\ activeDialog' \in {0, activeDialog} \cup Deferred
         /\ Deferred' \subseteq Deferred \cup ({activeDialog} \ {0})
<1>1. CASE activeDialog # 0 /\ dialogs' = Defer(activeDialog) /\ activeDialog' = 0
  <2>1. activeDialog \in Dialog
    BY <1>1, BoundAssumption DEF TypeOK, Dialog
  <2> QED BY <1>1, <2>1, DeferKeeps
<1>2. ASSUME NEW i \in DOMAIN dialogs, activeDialog' = dialogs[i], dialogs' = Without(i)
      PROVE  /\ activeDialog' \in {0, activeDialog} \cup Deferred
             /\ Deferred' \subseteq Deferred \cup ({activeDialog} \ {0})
  BY <1>2, WithoutKeeps DEF Deferred
<1>3. ASSUME NEW n \in 0..Len(dialogs), Keep(n), UNCHANGED activeDialog
      PROVE  /\ activeDialog' \in {0, activeDialog} \cup Deferred
             /\ Deferred' \subseteq Deferred \cup ({activeDialog} \ {0})
  BY <1>3, KeepKeeps
<1>4. CASE UNCHANGED <<activeDialog, dialogs>>
  BY <1>4 DEF Deferred
<1> QED BY <1>1, <1>2, <1>3, <1>4 DEF MoveDialog

\* Deferred dialogs are dialogs, and lie at the positions 1, 2, ...
LEMMA DeferredType ==
  ASSUME TypeOK
  PROVE  /\ Len(dialogs) \in Nat /\ DOMAIN dialogs = 1..Len(dialogs)
         /\ Len(received) \in Nat
         /\ Deferred \subseteq Dialog /\ Deferred \subseteq Nat /\ 0 \notin Deferred
<1>1. Len(dialogs) \in Nat /\ DOMAIN dialogs = 1..Len(dialogs) /\ Len(received) \in Nat
  BY LenProperties DEF TypeOK
<1>2. ASSUME NEW i \in DOMAIN dialogs PROVE dialogs[i] \in Dialog
  BY <1>1, ElementOfSeq DEF TypeOK
<1>3. Deferred \subseteq Dialog
  BY <1>2 DEF Deferred
<1>4. Dialog \subseteq Nat /\ 0 \notin Dialog
  BY BoundAssumption DEF Dialog
<1> QED BY <1>1, <1>3, <1>4

LEMMA DialogsReceivedKept ==
  ASSUME TypeOK, DialogsReceived, [Next]_vars
  PROVE  DialogsReceived'
<1> USE DEF current, snapshot, threads, bounds, history
<1>0. /\ Len(received) \in Nat /\ activeDialog \in Nat
      /\ \A d \in Deferred : d \in Nat
  BY DeferredType, BoundAssumption DEF TypeOK
<1>1. ASSUME ResetConnectionState, UNCHANGED received PROVE DialogsReceived'
  <2>1. Deferred' = {}
    BY <1>1 DEF ResetConnectionState, Deferred
  <2> QED BY <1>0, <1>1, <2>1 DEF ResetConnectionState, DialogsReceived
<1>2. ASSUME UNCHANGED received, activeDialog' \in {0, activeDialog} \cup Deferred,
             Deferred' \subseteq Deferred \cup ({activeDialog} \ {0})
      PROVE  DialogsReceived'
  BY <1>0, <1>2 DEF DialogsReceived
<1>3. ASSUME NEW t \in Api, Connect(t) \/ Disconnect(t) PROVE DialogsReceived'
  BY <1>1, <1>3 DEF Connect, Disconnect
<1>4. ASSUME NEW t \in Api,
             Begin(t) \/ StartConnection(t) \/ ConnectFails(t) \/ Delete(t) \/ Retire(t)
               \/ Update(t) \/ UpdateFails(t) \/ Close(t) \/ Refuse(t) \/ SetAFK(t)
               \/ Teleport(t) \/ TakeDialog(t) \/ AnswerDialog(t)
      PROVE  DialogsReceived'
  <2>1. activeDialog' \in {0, activeDialog} /\ UNCHANGED <<dialogs, received>>
    BY <1>4 DEF Begin, StartConnection, ConnectFails, Delete, Retire, Update,
                UpdateFails, Close, Refuse, SetAFK, Teleport, TakeDialog, AnswerDialog
  <2> QED BY <1>2, <2>1 DEF Deferred
<1>5. ASSUME NEW t \in Api, MoveDialog(t) PROVE DialogsReceived'
  <2>1. UNCHANGED received
    BY <1>5 DEF MoveDialog
  <2> QED BY <1>2, <1>5, <2>1, MoveKeeps
<1>6. ASSUME NEW g \in Context, ApplyEvent(g) PROVE DialogsReceived'
  <2>1. UNCHANGED dialogs
    BY <1>6 DEF ApplyEvent
  <2>2. CASE UNCHANGED received /\ activeDialog' \in {0, activeDialog}
    BY <1>2, <2>1, <2>2 DEF Deferred
  <2>3. CASE received' = Append(received, dialed[g]) /\ activeDialog' = Len(received) + 1
    <3>1. dialed[g] \in Client
      BY <1>6, BoundAssumption DEF ApplyEvent, TypeOK, Client
    <3>2. Len(received') = Len(received) + 1
      BY <2>3, <3>1, AppendProperties DEF TypeOK
    <3>3. Deferred' = Deferred
      BY <2>1 DEF Deferred
    <3> QED BY <1>0, <2>3, <3>2, <3>3 DEF DialogsReceived
  <2> QED BY <1>6, <2>2, <2>3 DEF ApplyEvent
<1>7. ASSUME NEW g \in Context, EventDisconnected(g) PROVE DialogsReceived'
  BY <1>1, <1>7 DEF EventDisconnected
<1>8. ASSUME NEW g \in Context,
             Dial(g) \/ Install(g) \/ DropEvent(g) \/ EndUnannounced(g)
               \/ EventsClosed(g) \/ RecordFailure(g) \/ Retry(g) \/ RefreshServerInfo(g)
      PROVE  DialogsReceived'
  <2>1. UNCHANGED <<activeDialog, dialogs, received>>
    BY <1>8 DEF Dial, Install, DropEvent, EndUnannounced, EventsClosed, RecordFailure,
                Retry, RefreshServerInfo
  <2> QED BY <1>2, <2>1 DEF Deferred
<1>9. ASSUME NEW c \in Client, ConnectionLost(c) PROVE DialogsReceived'
  BY <1>2, <1>9 DEF ConnectionLost, Deferred
<1>10. CASE UNCHANGED vars
  BY <1>2, <1>10 DEF vars, Deferred
<1> QED BY <1>3, <1>4, <1>5, <1>6, <1>7, <1>8, <1>9, <1>10 DEF Next, Caller, Connection

LEMMA ClientHasContextKept ==
  ASSUME TypeOK, ClientHasContext, [Next]_vars
  PROVE  ClientHasContext'
<1> USE DEF current, snapshot, threads, bounds, history, ClientHasContext
<1>1. ASSUME NEW t \in Api, Caller(t) PROVE ClientHasContext'
  BY <1>1 DEF Caller, Begin, Connect, StartConnection, ConnectFails, Disconnect, Delete,
              TakeConnection, Retire, Update, UpdateFails, Close, Refuse, SetAFK,
              Teleport, TakeDialog, AnswerDialog, MoveDialog
<1>2. ASSUME NEW g \in Context, Connection(g) PROVE ClientHasContext'
  BY <1>2 DEF Connection, Dial, Install, Superseded, DropEvent, ApplyEvent,
              EventDisconnected, EndUnannounced, EventsClosed, RecordFailure, Retry,
              RefreshServerInfo, Context
<1>3. ASSUME NEW c \in Client, ConnectionLost(c) PROVE ClientHasContext'
  BY <1>3 DEF ConnectionLost
<1>4. CASE UNCHANGED vars
  BY <1>4 DEF vars
<1> QED BY <1>1, <1>2, <1>3, <1>4 DEF Next

\* The instance is taken out of the map before its connection is.
LEMMA DeletedFirstKept ==
  ASSUME TypeOK, DeletedFirst, [Next]_vars
  PROVE  DeletedFirst' /\ (registered' => registered)
<1> USE DEF current, snapshot, threads, bounds, history, DeletedFirst
<1>1. ASSUME NEW t \in Api, Begin(t) PROVE DeletedFirst' /\ (registered' => registered)
  <2>1. PICK call \in Calls : Goto(t, call) /\ registered' = (call # "delete")
    BY <1>1 DEF Begin
  <2>2. pc'[t] = call /\ \A u \in Api : u # t => pc'[u] = pc[u]
    BY <2>1 DEF Goto, TypeOK
  <2> QED BY <1>1, <2>1, <2>2 DEF Begin
<1>2. ASSUME NEW t \in Api, Caller(t), ~Begin(t)
      PROVE  DeletedFirst' /\ (registered' => registered)
  <2>1. UNCHANGED registered
    BY <1>2 DEF Caller, Connect, StartConnection, ConnectFails, Disconnect, Delete,
                Retire, Update, UpdateFails, Close, Refuse, SetAFK, Teleport,
                TakeDialog, AnswerDialog, MoveDialog
  <2>2. pc'[t] # "delete" /\ \A u \in Api : u # t => pc'[u] = pc[u]
    <3>1. CASE Connect(t) \/ StartConnection(t) \/ ConnectFails(t) \/ Disconnect(t)
               \/ Delete(t) \/ Retire(t)
      BY <3>1 DEF Connect, StartConnection, ConnectFails, Disconnect, Delete, Retire,
                  TakeConnection, Return, Goto, TypeOK
    <3>2. CASE Update(t) \/ UpdateFails(t) \/ Close(t) \/ Refuse(t) \/ SetAFK(t)
               \/ Teleport(t) \/ TakeDialog(t) \/ AnswerDialog(t) \/ MoveDialog(t)
      BY <3>2 DEF Update, UpdateFails, Close, Refuse, SetAFK, Teleport, TakeDialog,
                  AnswerDialog, MoveDialog, Return, Goto, TypeOK
    <3> QED BY <1>2, <3>1, <3>2 DEF Caller
  <2> QED BY <2>1, <2>2
<1>3. ASSUME NEW g \in Context, Connection(g)
      PROVE  DeletedFirst' /\ (registered' => registered)
  BY <1>3 DEF Connection, Dial, Install, DropEvent, ApplyEvent, EventDisconnected,
              EndUnannounced, EventsClosed, RecordFailure, Retry, RefreshServerInfo
<1>4. ASSUME NEW c \in Client, ConnectionLost(c)
      PROVE  DeletedFirst' /\ (registered' => registered)
  BY <1>4 DEF ConnectionLost
<1>5. CASE UNCHANGED vars
  BY <1>5 DEF vars
<1> QED BY <1>1, <1>2, <1>3, <1>4, <1>5 DEF Next

-----------------------------------------------------------------------------
(* The snapshot is that of the current connection *)

\* A snapshot that has been reset, with no current client, is of none.
LEMMA ResetIsCurrent ==
  ASSUME TypeOK, ResetConnectionState, client' = 0, status' # "connected"
  PROVE  SnapshotOfCurrent'
<1>1. DOMAIN dialogs' = {}
  BY DEF ResetConnectionState
<1> QED BY <1>1 DEF ResetConnectionState, SnapshotOfCurrent, Deferred, Shown

\* What is shown may get more, and the snapshot what is shown.
LEMMA SnapshotGrows ==
  ASSUME SnapshotOfCurrent, Shown \subseteq Shown',
         world' \subseteq world \cup Shown',
         position' \in {position} \cup Shown' \/ overtaken', overtaken => overtaken',
         activeDialog' \in {0, activeDialog} \cup Deferred,
         Deferred' \subseteq Deferred \cup ({activeDialog} \ {0}),
         UNCHANGED received,
         status' = "connected" => status = "connected" \/ Shown' # {}
  PROVE  SnapshotOfCurrent'
<1>1. activeDialog' # 0 => received'[activeDialog'] \in Shown'
  BY DEF SnapshotOfCurrent
<1>2. \A d \in Deferred' : received'[d] \in Shown'
  BY DEF SnapshotOfCurrent
<1>3. world' \subseteq Shown' /\ (position' \in Shown' \cup {0} \/ overtaken')
  BY DEF SnapshotOfCurrent
<1>4. status' = "connected" => Shown' # {}
  BY DEF SnapshotOfCurrent
<1> QED BY <1>1, <1>2, <1>3, <1>4 DEF SnapshotOfCurrent

LEMMA SnapshotKept ==
  ASSUME TypeOK, Endings, Owned, DialogsReceived, DeletedFirst, [Next]_vars,
         registered' \/ ctx' # 0, registered \/ ctx # 0 => SnapshotOfCurrent
  PROVE  SnapshotOfCurrent'
<1> USE DEF current, snapshot, threads, bounds, history
<1>1. ASSUME NEW t \in Api, Connect(t) \/ Disconnect(t) PROVE SnapshotOfCurrent'
  BY <1>1, ResetIsCurrent DEF Connect, Disconnect, TakeConnection
<1> SUFFICES ASSUME SnapshotOfCurrent, \A t \in Api : ~Connect(t) /\ ~Disconnect(t)
               PROVE  SnapshotOfCurrent'
  <2>1. CASE \A t \in Api : ~Connect(t) /\ ~Disconnect(t)
    <3>1. registered' => registered
      BY DeletedFirstKept
    <3>2. ctx' \in {ctx, 0}
      <4>1. ASSUME NEW t \in Api, Caller(t) PROVE ctx' \in {ctx, 0}
        BY <2>1, <4>1
           DEF Caller, Begin, StartConnection, ConnectFails, Delete, Retire, Update,
               UpdateFails, Close, Refuse, SetAFK, Teleport, TakeDialog, AnswerDialog,
               MoveDialog, TakeConnection
      <4>2. ASSUME NEW g \in Context, Connection(g) PROVE ctx' \in {ctx, 0}
        BY <4>2
           DEF Connection, Dial, Install, DropEvent, ApplyEvent, EventDisconnected,
               EndUnannounced, EventsClosed, RecordFailure, Retry, RefreshServerInfo
      <4>3. ASSUME NEW c \in Client, ConnectionLost(c) PROVE ctx' \in {ctx, 0}
        BY <4>3 DEF ConnectionLost
      <4>4. CASE UNCHANGED vars
        BY <4>4 DEF vars
      <4> QED BY <4>1, <4>2, <4>3, <4>4 DEF Next
    <3>3. SnapshotOfCurrent
      BY <3>1, <3>2
    <3> QED BY <2>1, <3>3
  <2> QED BY <1>1, <2>1
<1>2. ASSUME NEW t \in Api,
             Begin(t) \/ StartConnection(t) \/ ConnectFails(t) \/ Retire(t) \/ Update(t)
               \/ UpdateFails(t) \/ Close(t) \/ Refuse(t) \/ AnswerDialog(t)
      PROVE  SnapshotOfCurrent'
  <2>1. UNCHANGED <<client, snapshot, received, overtaken, unannounced>>
        /\ status' \in {status, "error"}
    BY <1>2 DEF Begin, StartConnection, ConnectFails, Retire, Update, UpdateFails,
                Close, Refuse, AnswerDialog
  <2> QED BY <2>1 DEF SnapshotOfCurrent, Shown, Deferred
<1>3. ASSUME NEW t \in Api, Delete(t) PROVE SnapshotOfCurrent'
  BY <1>3 DEF Delete, DeletedFirst, TakeConnection
<1>4. ASSUME NEW t \in Api, SetAFK(t) PROVE SnapshotOfCurrent'
  <2>1. UNCHANGED <<Shown, Deferred>> /\ client \in Shown
    BY <1>4 DEF SetAFK, Connected, Shown, Deferred
  <2> QED BY <1>4, <2>1, SnapshotGrows DEF SetAFK
<1>5. ASSUME NEW t \in Api, Teleport(t) PROVE SnapshotOfCurrent'
  <2>1. UNCHANGED <<Shown, Deferred>>
    BY <1>5 DEF Teleport, Shown, Deferred
  <2>2. position' \in {position} \cup Shown' \/ position' = 0 \/ overtaken'
    BY <1>5, <2>1 DEF Teleport, Shown
  <2>3. overtaken => overtaken'
    BY <1>5 DEF Teleport
  <2>4. UNCHANGED <<world, activeDialog, received, status>>
    BY <1>5 DEF Teleport
  <2> QED BY <2>1, <2>2, <2>3, <2>4 DEF SnapshotOfCurrent
<1>6. ASSUME NEW t \in Api, TakeDialog(t) \/ MoveDialog(t) PROVE SnapshotOfCurrent'
  <2>1. UNCHANGED Shown
    BY <1>6 DEF TakeDialog, MoveDialog, Shown
  <2>2. activeDialog' \in {0, activeDialog} \cup Deferred
        /\ Deferred' \subseteq Deferred \cup ({activeDialog} \ {0})
    BY <1>6, MoveKeeps DEF TakeDialog, Deferred
  <2>3. UNCHANGED <<world, position, overtaken, received, status>>
    BY <1>6 DEF TakeDialog, MoveDialog
  <2> QED BY <2>1, <2>2, <2>3, SnapshotGrows
<1>7. ASSUME NEW g \in Context, Install(g) PROVE SnapshotOfCurrent'
  <2>1. Shown \subseteq Shown'
    <3>1. CASE Superseded(g)
      BY <1>7, <3>1 DEF Install, Shown
    <3>2. CASE ~Superseded(g)
      <4>1. client = 0
        BY <1>7, <3>2 DEF Install, Owned, Superseded
      <4> QED BY <1>7, <4>1 DEF Install, Shown
    <3> QED BY <3>1, <3>2
  <2>2. UNCHANGED Deferred
    BY <1>7 DEF Install, Deferred
  <2> QED BY <1>7, <2>1, <2>2, SnapshotGrows DEF Install
<1>8. ASSUME NEW g \in Context, RecordFailure(g) PROVE SnapshotOfCurrent'
  <2>1. Shown \subseteq Shown'
    BY <1>8 DEF RecordFailure, Shown, Owned, Superseded
  <2>2. UNCHANGED Deferred
    BY <1>8 DEF RecordFailure, Deferred
  <2> QED BY <1>8, <2>1, <2>2, SnapshotGrows DEF RecordFailure
<1>9. ASSUME NEW g \in Context, EndUnannounced(g) PROVE SnapshotOfCurrent'
  <2>1. Shown \subseteq Shown'
    BY <1>9 DEF EndUnannounced, Shown
  <2>2. UNCHANGED Deferred
    BY <1>9 DEF EndUnannounced, Deferred
  <2> QED BY <1>9, <2>1, <2>2, SnapshotGrows DEF EndUnannounced
<1>10. ASSUME NEW g \in Context, EventDisconnected(g) PROVE SnapshotOfCurrent'
  BY <1>10, ResetIsCurrent DEF EventDisconnected
<1>11. ASSUME NEW g \in Context, ApplyEvent(g) PROVE SnapshotOfCurrent'
  <2>1. UNCHANGED <<Shown, Deferred, overtaken>> /\ dialed[g] \in Shown
        /\ world' = world \cup {dialed[g]}
    BY <1>11 DEF ApplyEvent, Stale, Shown, Deferred, TypeOK
  <2>2. CASE UNCHANGED received /\ activeDialog' \in {0, activeDialog}
             /\ position' \in {position, dialed[g]}
    BY <2>1, <2>2, SnapshotGrows
  <2>3. CASE received' = Append(received, dialed[g]) /\ activeDialog' = Len(received) + 1
             /\ UNCHANGED <<status, position>>
    <3>1. dialed[g] \in Client
      BY <1>11, BoundAssumption DEF ApplyEvent, TypeOK, Client
    <3>2. /\ received'[Len(received) + 1] = dialed[g]
          /\ \A d \in 1..Len(received) : received'[d] = received[d]
      BY <2>3, <3>1, AppendProperties DEF TypeOK
    <3>3. \A d \in Deferred : d \in 1..Len(received)
      <4>1. \A d \in Deferred : d \in Dialog /\ Len(received) \in Nat
        BY ElementOfSeq, LenProperties DEF TypeOK, Deferred
      <4> QED BY <4>1, BoundAssumption DEF DialogsReceived, Dialog
    <3> QED BY <2>1, <2>3, <3>2, <3>3 DEF SnapshotOfCurrent
  <2> QED BY <1>11, <2>2, <2>3 DEF ApplyEvent
<1>12. ASSUME NEW g \in Context,
              Dial(g) \/ DropEvent(g) \/ EventsClosed(g) \/ Retry(g)
       PROVE  SnapshotOfCurrent'
  <2>1. UNCHANGED <<client, status, snapshot, received, overtaken, unannounced>>
    BY <1>12 DEF Dial, DropEvent, EventsClosed, Retry
  <2> QED BY <2>1 DEF SnapshotOfCurrent, Shown, Deferred
<1>13. ASSUME NEW g \in Context, RefreshServerInfo(g) PROVE SnapshotOfCurrent'
  <2>1. UNCHANGED <<Shown, Deferred>> /\ dialed[g] \in Shown
    BY <1>13 DEF RefreshServerInfo, Shown, Deferred
  <2> QED BY <1>13, <2>1, SnapshotGrows DEF RefreshServerInfo
<1>14. ASSUME NEW c \in Client, ConnectionLost(c) PROVE SnapshotOfCurrent'
  BY <1>14 DEF ConnectionLost, SnapshotOfCurrent, Shown, Deferred
<1>15. CASE UNCHANGED vars
  BY <1>15 DEF vars, SnapshotOfCurrent, Shown, Deferred
<1> QED BY <1>1, <1>2, <1>3, <1>4, <1>5, <1>6, <1>7, <1>8, <1>9, <1>10, <1>11,
           <1>12, <1>13, <1>14, <1>15 DEF Next, Caller, Connection

-----------------------------------------------------------------------------
(* Somebody closes every other client *)

\* A caller has taken the client and is about to close it.
Closes(t, c) ==
  pc[t] \in {"start", "retire", "retire_failed"} /\ job[t].client = c

\* Nobody loses a client that is still open.
LEMMA NobodyDrops ==
  ASSUME TypeOK, NoStrayClient, UNCHANGED dialed,
         client' = client \/ client = 0 \/ events[client] # "open",
         \A c \in Client : events'[c] = "open" => events[c] = "open",
         \A g \in Context : loop[g] = "install" =>
           loop'[g] = "install" \/ events'[dialed[g]] # "open" \/ client' = dialed[g],
         \A t \in Api, c \in Client : Closes(t, c) => Closes(t, c)' \/ events'[c] # "open"
  PROVE  NoStrayClient'
<1>1. SUFFICES ASSUME NEW g \in Context, dialed[g] # 0, events'[dialed[g]] = "open",
                      client' # dialed[g]
               PROVE  \/ loop'[g] = "install"
                      \/ \E t \in Api : Closes(t, dialed[g])'
  BY DEF NoStrayClient, Closes
<1>2. dialed[g] \in Client
  BY <1>1, BoundAssumption DEF TypeOK, Client
<1>3. events[dialed[g]] = "open" /\ client # dialed[g]
  BY <1>1, <1>2
<1>4. loop[g] = "install" \/ \E t \in Api : Closes(t, dialed[g])
  BY <1>1, <1>3 DEF NoStrayClient, Closes
<1> QED BY <1>1, <1>2, <1>4

LEMMA NoStrayKept ==
  ASSUME TypeOK, Numbered, Starting, Endings, Owned, DeletedFirst, [Next]_vars,
         registered', NoStrayClient
  PROVE  NoStrayClient'
<1> USE DEF current, snapshot, threads, bounds, history
<1>0. /\ \A g \in Context : dialed[g] \in Client \cup {0}
      /\ client \in Client \cup {0}
  BY BoundAssumption DEF TypeOK, Client
<1> DEFINE Others(t) == \A u \in Api : u # t => pc'[u] = pc[u] /\ job'[u] = job[u]
\* The caller takes the current client, or none.
<1>1. ASSUME NEW t \in Api, Others(t), pc[t] \notin {"start", "retire", "retire_failed"},
             pc'[t] \in {"start", "retire", "retire_failed"}, job'[t].client = client,
             client' = 0, UNCHANGED <<dialed, events, loop>>
      PROVE  NoStrayClient'
  <2>1. \A u \in Api, c \in Client : Closes(u, c) => Closes(u, c)'
    BY <1>1 DEF Closes
  <2>2. \A c \in Client : c = client => Closes(t, c)'
    BY <1>1 DEF Closes
  <2>3. SUFFICES ASSUME NEW g \in Context, dialed[g] # 0, events[dialed[g]] = "open"
                 PROVE  loop[g] = "install" \/ \E u \in Api : Closes(u, dialed[g])'
    BY <1>1 DEF NoStrayClient, Closes
  <2> DEFINE c == dialed[g]
  <2>a. c \in Client /\ UNCHANGED c
    BY <1>0, <1>1, <2>3
  <2>4. CASE client = c
    BY <2>2, <2>4, <2>a
  <2>5. CASE client # c
    <3>1. loop[g] = "install" \/ \E u \in Api : Closes(u, c)
      BY <2>3, <2>5 DEF NoStrayClient, Closes
    <3> QED BY <2>1, <2>a, <3>1
  <2> QED BY <2>4, <2>5
<1>2. ASSUME NEW t \in Api, Connect(t) PROVE NoStrayClient'
  <2>1. Others(t) /\ pc'[t] = "start" /\ job'[t].client = client
    BY <1>2 DEF Connect, Goto, Nothing, TypeOK
  <2> QED BY <1>1, <1>2, <2>1 DEF Connect
<1>3. ASSUME NEW t \in Api, Disconnect(t) PROVE NoStrayClient'
  <2>1. Others(t) /\ pc'[t] \in {"retire", "retire_failed"} /\ job'[t].client = client
    BY <1>3 DEF Disconnect, TakeConnection, Goto, Nothing, TypeOK
  <2> QED BY <1>1, <1>3, <2>1 DEF Disconnect, TakeConnection
<1>4. ASSUME NEW t \in Api, Delete(t) PROVE NoStrayClient'
  BY <1>4 DEF Delete, DeletedFirst
<1>5. ASSUME NEW t \in Api, StartConnection(t) \/ Retire(t) PROVE NoStrayClient'
  <2>1. \A c \in Client : events'[c] = "open" => events[c] = "open" /\ c # job[t].client
    <3>1. CloseClient(job[t].client)
      BY <1>5 DEF StartConnection, Retire
    <3>2. \A c \in Client : c # 0
      BY DEF Client
    <3> QED BY <3>1, <3>2 DEF CloseClient, TypeOK
  <2>2. \A u \in Api : u # t => pc'[u] = pc[u] /\ job'[u] = job[u]
    BY <1>5 DEF StartConnection, Retire, Return, Goto, TypeOK
  <2>3. \A u \in Api, c \in Client : Closes(u, c) => Closes(u, c)' \/ events'[c] # "open"
    BY <2>1, <2>2 DEF Closes
  <2>4. UNCHANGED <<dialed, client>>
    BY <1>5 DEF StartConnection, Retire
  <2>5. \A g \in Context : loop[g] = "install" =>
          loop'[g] = "install" \/ events'[dialed[g]] # "open" \/ client' = dialed[g]
    <3>1. CASE Retire(t)
      BY <3>1 DEF Retire
    <3>2. CASE StartConnection(t)
      BY <3>2 DEF StartConnection, Starting, TypeOK
    <3> QED BY <1>5, <3>1, <3>2
  <2> QED BY <2>1, <2>3, <2>4, <2>5, NobodyDrops
<1>6. ASSUME NEW t \in Api, Close(t) PROVE NoStrayClient'
  <2>1. \A c \in Client : events'[c] = "open" => events[c] = "open"
    BY <1>6 DEF Close, CloseClient, TypeOK
  <2>2. Others(t) /\ pc[t] = "close"
    BY <1>6 DEF Close, Return, Goto, TypeOK
  <2>3. \A u \in Api, c \in Client : Closes(u, c) => Closes(u, c)'
    BY <2>2 DEF Closes
  <2> QED BY <1>6, <2>1, <2>3, NobodyDrops DEF Close
<1>7. ASSUME NEW t \in Api,
             Begin(t) \/ ConnectFails(t) \/ Update(t) \/ UpdateFails(t) \/ Refuse(t)
               \/ SetAFK(t) \/ Teleport(t) \/ TakeDialog(t) \/ AnswerDialog(t)
               \/ MoveDialog(t)
      PROVE  NoStrayClient'
  <2>1. Others(t) /\ pc[t] \notin {"start", "retire", "retire_failed"}
    <3>1. CASE Begin(t) \/ ConnectFails(t) \/ Update(t) \/ UpdateFails(t) \/ Refuse(t)
      BY <3>1 DEF Begin, ConnectFails, Update, UpdateFails, Refuse, Return, Goto, TypeOK
    <3>2. CASE SetAFK(t) \/ Teleport(t) \/ TakeDialog(t) \/ AnswerDialog(t) \/ MoveDialog(t)
      BY <3>2 DEF SetAFK, Teleport, TakeDialog, AnswerDialog, MoveDialog, Return, Goto,
                  TypeOK
    <3> QED BY <1>7, <3>1, <3>2
  <2>2. \A u \in Api, c \in Client : Closes(u, c) => Closes(u, c)'
    BY <2>1 DEF Closes
  <2>3. UNCHANGED <<dialed, events, client, loop>>
    BY <1>7 DEF Begin, ConnectFails, Update, UpdateFails, Refuse, SetAFK, Teleport,
                TakeDialog, AnswerDialog, MoveDialog
  <2> QED BY <2>2, <2>3, NobodyDrops
<1>8. ASSUME UNCHANGED <<pc, job>>
      PROVE  \A u \in Api, c \in Client : Closes(u, c) => Closes(u, c)'
  BY <1>8 DEF Closes
<1>9. ASSUME NEW g \in Context, Dial(g) PROVE NoStrayClient'
  <2>1. CASE clients < MaxClients /\ clients' = clients + 1
             /\ dialed' = [dialed EXCEPT ![g] = clients + 1]
             /\ events' = [events EXCEPT ![clients + 1] = "open"]
             /\ LoopTo(g, "install")
    <3>1. \A h \in Context : h # g => dialed'[h] = dialed[h] /\ loop'[h] = loop[h]
                                        /\ dialed[h] # clients + 1
      BY <2>1 DEF TypeOK, LoopTo, Numbered
    <3>2. loop'[g] = "install"
      BY <2>1 DEF LoopTo, TypeOK
    <3>3. \A c \in Client : c # clients + 1 => events'[c] = events[c]
      BY <2>1 DEF TypeOK
    <3>4. UNCHANGED <<client, pc, job>>
      BY <1>9 DEF Dial
    <3> QED BY <1>0, <3>1, <3>2, <3>3, <3>4 DEF NoStrayClient
  <2>2. CASE LoopTo(g, "record") /\ UNCHANGED <<clients, dialed, events>>
    <3>1. \A h \in Context : loop[h] = "install" => loop'[h] = "install"
      BY <1>9, <2>2 DEF Dial, LoopTo, TypeOK
    <3>2. UNCHANGED <<client, pc, job>>
      BY <1>9 DEF Dial
    <3> QED BY <1>8, <2>2, <3>1, <3>2, NobodyDrops
  <2> QED BY <1>9, <2>1, <2>2 DEF Dial
<1>10. ASSUME NEW g \in Context, Install(g) PROVE NoStrayClient'
  <2>1. \A h \in Context : h # g => loop'[h] = loop[h]
    BY <1>10 DEF Install, LoopTo, TypeOK
  <2>2. dialed[g] \in Client
    BY <1>0, <1>10 DEF Install, TypeOK
  <2>3. \A c \in Client : events'[c] = "open" => events[c] = "open"
    BY <1>10 DEF Install, CloseClient, TypeOK
  <2>4. UNCHANGED <<dialed, pc, job>>
    BY <1>10 DEF Install
  <2>5. CASE Superseded(g)
    <3>1. events'[dialed[g]] # "open" /\ client' = client
      BY <1>10, <2>2, <2>5 DEF Install, CloseClient, TypeOK, Client
    <3> QED BY <1>8, <2>1, <2>3, <2>4, <3>1, NobodyDrops
  <2>6. CASE ~Superseded(g)
    <3>1. client = 0 /\ client' = dialed[g]
      BY <1>10, <2>6 DEF Install, Owned, Superseded
    <3> QED BY <1>8, <2>1, <2>3, <2>4, <3>1, NobodyDrops
  <2> QED BY <2>5, <2>6
<1>11. ASSUME NEW g \in Context, EventDisconnected(g) \/ EndUnannounced(g)
       PROVE  NoStrayClient'
  <2>1. dialed[g] \in Client
    BY <1>0, <1>11 DEF EventDisconnected, EndUnannounced, TypeOK
  <2>2. \A c \in Client : events'[c] = "open" => events[c] = "open"
    BY <1>11 DEF EventDisconnected, EndUnannounced, TypeOK
  <2>3. UNCHANGED <<dialed, loop, pc, job>>
    BY <1>11 DEF EventDisconnected, EndUnannounced
  <2>4. client' = client \/ events[client] # "open"
    BY <1>11 DEF EventDisconnected, EndUnannounced, Stale
  <2> QED BY <1>8, <2>2, <2>3, <2>4, NobodyDrops
<1>12. ASSUME NEW g \in Context,
              DropEvent(g) \/ EventsClosed(g) \/ Retry(g) \/ RecordFailure(g)
       PROVE  NoStrayClient'
  <2>1. \A h \in Context : loop[h] = "install" => loop'[h] = "install"
    BY <1>12 DEF DropEvent, EventsClosed, Retry, RecordFailure, LoopTo, TypeOK
  <2>2. client' = client \/ client = 0 \/ events[client] # "open"
    <3>1. CASE RecordFailure(g)
      BY <3>1 DEF RecordFailure, Owned, Superseded, Endings
    <3>2. CASE ~RecordFailure(g)
      BY <1>12, <3>2 DEF DropEvent, EventsClosed, Retry
    <3> QED BY <3>1, <3>2
  <2>3. UNCHANGED <<dialed, events, pc, job>>
    BY <1>12 DEF DropEvent, EventsClosed, Retry, RecordFailure
  <2> QED BY <1>8, <2>1, <2>2, <2>3, NobodyDrops
<1>13. ASSUME NEW g \in Context, ApplyEvent(g) \/ RefreshServerInfo(g)
       PROVE  NoStrayClient'
  <2>1. UNCHANGED <<dialed, events, client, loop, pc, job>>
    BY <1>13 DEF ApplyEvent, RefreshServerInfo
  <2> QED BY <1>8, <2>1, NobodyDrops
<1>14. ASSUME NEW c \in Client, ConnectionLost(c) PROVE NoStrayClient'
  <2>1. \A d \in Client : events'[d] = "open" => events[d] = "open"
    BY <1>14 DEF ConnectionLost, TypeOK
  <2> QED BY <1>8, <1>14, <2>1, NobodyDrops DEF ConnectionLost
<1>15. CASE UNCHANGED vars
  BY <1>15 DEF vars, NoStrayClient
<1> QED BY <1>2, <1>3, <1>4, <1>5, <1>6, <1>7, <1>9, <1>10, <1>11, <1>12, <1>13,
           <1>14, <1>15 DEF Next, Caller, Connection

\* Every part of the invariant is kept by every step.
LEMMA ConnectionInvariant == Spec => []ConnectionInv
<1>1. Init => ConnectionInv
  <2> SUFFICES ASSUME Init PROVE ConnectionInv
    OBVIOUS
  <2>1. TypeOK
    BY InitType
  <2>2. Numbered
    BY BoundAssumption DEF Init, Numbered, Context, Client
  <2>3. Starting /\ DeletedFirst /\ ClientHasContext
    BY DEF Init, Starting, DeletedFirst, ClientHasContext
  <2>4. Endings /\ Owned
    BY DEF Init, Endings, Owned, Context
  <2>5. DialogsReceived
    BY EmptySeq DEF Init, DialogsReceived, Deferred
  <2>6. SnapshotOfCurrent /\ NoStrayClient
    BY DEF Init, SnapshotOfCurrent, NoStrayClient, Deferred
  <2> QED BY <2>1, <2>2, <2>3, <2>4, <2>5, <2>6 DEF ConnectionInv
<1>2. ConnectionInv /\ [Next]_vars => ConnectionInv'
  <2> SUFFICES ASSUME ConnectionInv, [Next]_vars PROVE ConnectionInv'
    OBVIOUS
  <2>1. TypeOK' /\ Numbered' /\ Starting' /\ Endings'
    BY NextType, NumberedKept, StartingKept, EndingsKept DEF ConnectionInv
  <2>2. /\ Owned' /\ DialogsReceived' /\ ClientHasContext'
        /\ DeletedFirst' /\ (registered' => registered)
    BY OwnedKept, DialogsReceivedKept, ClientHasContextKept, DeletedFirstKept
       DEF ConnectionInv
  <2>3. registered' \/ ctx' # 0 => SnapshotOfCurrent'
    BY SnapshotKept DEF ConnectionInv
  <2>4. registered' => NoStrayClient'
    BY <2>2, NoStrayKept DEF ConnectionInv
  <2> QED BY <2>1, <2>2, <2>3, <2>4 DEF ConnectionInv
<1> QED BY <1>1, <1>2, PTL DEF Spec

\* The snapshot of an instance holds nothing of a connection that another one
\* has replaced, and every other open client is about to be closed, for any
\* number of callers and connections (Manager.Connect, connectAttempt,
\* recordConnectionFailure).
THEOREM SnapshotIsOfCurrentClient == Spec => []CurrentOnly
<1>1. ConnectionInv => CurrentOnly
  BY DEF ConnectionInv, CurrentOnly
<1> QED BY <1>1, ConnectionInvariant, PTL

-----------------------------------------------------------------------------
(* A dialog is answered once *)

\* A dialog waits in one place.
Unique ==
  /\ \A i, j \in DOMAIN dialogs : dialogs[i] = dialogs[j] => i = j
  /\ activeDialog \notin Deferred

\* A dialog that a caller answers is no longer waiting, and nobody else's; it
\* came from the client that it is answered on.
Answering ==
  /\ \A t \in Api : pc[t] = "answer" =>
       /\ job[t].dialog \in 1..Len(received)
       /\ job[t].dialog \notin Deferred \cup {activeDialog}
       /\ received[job[t].dialog] \in {job[t].client} \cup unannounced
  /\ \A t, u \in Api : t # u /\ pc[t] = "answer" /\ pc[u] = "answer" =>
       job[t].dialog # job[u].dialog

\* Nor is it one that has been answered.
Answered ==
  \A i \in DOMAIN answers :
    /\ answers[i][1] \in 1..Len(received)
    /\ \A t \in Api : pc[t] = "answer" => job[t].dialog # answers[i][1]

AnswerInv == Unique /\ Answering /\ Answered /\ AnsweredOnce

LEMMA MoveUnique ==
  ASSUME TypeOK, Unique, NEW t \in Api, MoveDialog(t)
  PROVE  Unique'
<1>0. Len(dialogs) \in Nat /\ DOMAIN dialogs = 1..Len(dialogs) /\ 0 \notin Deferred
  BY DeferredType
<1>1. CASE activeDialog # 0 /\ dialogs' = Defer(activeDialog) /\ activeDialog' = 0
  <2> DEFINE all == Append(dialogs, activeDialog)
  <2>1. activeDialog \in Dialog
    BY <1>1, BoundAssumption DEF TypeOK, Dialog
  <2>2. /\ all \in Seq(Dialog) /\ Len(all) = Len(dialogs) + 1
        /\ \A i \in 1..Len(dialogs) : all[i] = dialogs[i]
        /\ all[Len(dialogs) + 1] = activeDialog
    BY <2>1, AppendProperties DEF TypeOK
  <2> HIDE DEF all
  <2>3. \A i, j \in 1..Len(all) : all[i] = all[j] => i = j
    BY <1>0, <2>2 DEF Unique, Deferred
  <2>4. all # <<>>
    BY <1>0, <2>2, EmptySeq
  <2>5. Tail(all) \in Seq(Dialog) /\ Len(Tail(all)) = Len(dialogs)
        /\ \A i \in 1..Len(Tail(all)) : Tail(all)[i] = all[i + 1]
    BY <1>0, <2>2, <2>4, HeadTailProperties
  <2>6. dialogs' \in {all, Tail(all)}
    BY <1>1 DEF Defer, all
  <2>7. DOMAIN all = 1..Len(all) /\ DOMAIN Tail(all) = 1..Len(Tail(all))
    BY <2>2, <2>5, LenProperties
  <2>8. \A i, j \in DOMAIN Tail(all) : Tail(all)[i] = Tail(all)[j] => i = j
    BY <1>0, <2>2, <2>3, <2>5, <2>7
  <2>9. 0 \notin Deferred'
    BY <1>0, <1>1, <2>1, DeferKeeps
  <2>10. \A i, j \in DOMAIN dialogs' : dialogs'[i] = dialogs'[j] => i = j
    <3>1. CASE dialogs' = all
      BY <2>3, <2>7, <3>1
    <3>2. CASE dialogs' = Tail(all)
      BY <2>8, <3>2
    <3> QED BY <2>6, <3>1, <3>2
  <2> QED BY <1>1, <2>9, <2>10 DEF Unique
<1>2. ASSUME NEW i \in DOMAIN dialogs, activeDialog' = dialogs[i], dialogs' = Without(i)
      PROVE  Unique'
  <2> DEFINE at(j) == IF j < i THEN j ELSE j + 1
  <2>1. /\ DOMAIN Without(i) = 1..(Len(dialogs) - 1)
        /\ \A j \in 1..(Len(dialogs) - 1) : Without(i)[j] = dialogs[at(j)]
    BY DEF Without
  <2>2. \A j \in 1..(Len(dialogs) - 1) : at(j) \in DOMAIN dialogs /\ at(j) # i
    BY <1>0
  <2>3. \A j, k \in 1..(Len(dialogs) - 1) : at(j) = at(k) => j = k
    BY <1>0
  <2> HIDE DEF at
  <2>4. \A j, k \in DOMAIN Without(i) : Without(i)[j] = Without(i)[k] => j = k
    BY <2>1, <2>2, <2>3 DEF Unique
  <2>5. \A j \in DOMAIN Without(i) : Without(i)[j] # dialogs[i]
    BY <2>1, <2>2 DEF Unique
  <2> QED BY <1>2, <2>4, <2>5 DEF Unique, Deferred
<1>3. ASSUME NEW n \in 0..Len(dialogs), Keep(n), UNCHANGED activeDialog
      PROVE  Unique'
  <2>1. PICK kept \in [1..n -> DOMAIN dialogs] :
          /\ \A j, k \in 1..n : j < k => kept[j] < kept[k]
          /\ dialogs' = [j \in 1..n |-> dialogs[kept[j]]]
    BY <1>3 DEF Keep
  <2>2. \A j, k \in 1..n : kept[j] = kept[k] => j = k
    <3>1. \A j, k \in 1..n : j \in Nat /\ k \in Nat /\ kept[j] \in Nat /\ kept[k] \in Nat
      BY <1>0, <2>1
    <3>2. \A j, k \in 1..n : j < k \/ k < j \/ j = k
      BY <3>1
    <3> QED BY <2>1, <3>1, <3>2
  <2>3. \A j, k \in DOMAIN dialogs' : dialogs'[j] = dialogs'[k] => j = k
    BY <2>1, <2>2 DEF Unique
  <2>4. Deferred' \subseteq Deferred
    BY <1>3, KeepKeeps
  <2> QED BY <1>3, <2>3, <2>4 DEF Unique
<1>4. CASE UNCHANGED <<activeDialog, dialogs>>
  BY <1>4 DEF Unique, Deferred
<1> QED BY <1>1, <1>2, <1>3, <1>4 DEF MoveDialog

\* Dialogs come and go, and nobody begins or ends an answer.
LEMMA NobodyAnswers ==
  ASSUME TypeOK, AnswerInv, UNCHANGED answers, Unique',
         \A u \in Api : pc'[u] = "answer" => pc[u] = "answer" /\ job'[u] = job[u],
         unannounced \subseteq unannounced', Len(received') \in Nat,
         Len(received) <= Len(received'),
         \A d \in 1..Len(received) :
           /\ received'[d] = received[d]
           /\ d \in Deferred' \cup {activeDialog'} => d \in Deferred \cup {activeDialog}
  PROVE  AnswerInv'
<1>1. Len(received) \in Nat
  BY LenProperties DEF TypeOK
<1>2. \A d \in 1..Len(received) : d \in 1..Len(received')
  BY <1>1
<1>3. Answering'
  BY <1>2 DEF AnswerInv, Answering
<1>4. Answered'
  BY <1>2 DEF AnswerInv, Answered
<1>5. AnsweredOnce'
  <2>1. \A i \in DOMAIN answers : answers[i][1] \in 1..Len(received)
    BY DEF AnswerInv, Answered
  <2>2. \A i \in DOMAIN answers' :
          received'[answers'[i][1]] \in {answers'[i][2]} \cup unannounced'
    BY <2>1 DEF AnswerInv, AnsweredOnce
  <2>3. \A i, j \in DOMAIN answers' : answers'[i][1] = answers'[j][1] => i = j
    BY DEF AnswerInv, AnsweredOnce
  <2>4. \A i \in DOMAIN answers' : answers'[i][1] # activeDialog' /\ answers'[i][1] \notin Deferred'
    BY <2>1 DEF AnswerInv, AnsweredOnce
  <2> QED BY <2>2, <2>3, <2>4 DEF AnsweredOnce
<1> QED BY <1>3, <1>4, <1>5 DEF AnswerInv

\* The dialog that is taken is the active one, which nobody has taken before.
LEMMA TakeAnswers ==
  ASSUME TypeOK, DialogsReceived, AnswerInv, SnapshotOfCurrent, NEW t \in Api,
         TakeDialog(t)
  PROVE  AnswerInv'
<1> USE DEF current, snapshot, threads, bounds, history
<1>0. Len(received) \in Nat /\ activeDialog \in Nat \ {0} /\ 0 \notin Deferred
  BY LenProperties, ElementOfSeq, BoundAssumption
     DEF TypeOK, TakeDialog, Deferred, Dialog
<1>1. /\ pc'[t] = "answer" /\ job'[t].dialog = activeDialog /\ job'[t].client = client
      /\ \A u \in Api : u # t => pc'[u] = pc[u] /\ job'[u] = job[u]
  <2>1. job[t] \in Job
    BY DEF TypeOK
  <2> QED BY <2>1 DEF TakeDialog, Goto, TypeOK, Job
<1>2. UNCHANGED <<Deferred, received, unannounced, answers>> /\ activeDialog' = 0
  BY DEF TakeDialog, Deferred
<1>3. activeDialog \in 1..Len(received)
  BY <1>0 DEF DialogsReceived
<1>4. received[activeDialog] \in {client} \cup unannounced
  BY <1>0 DEF SnapshotOfCurrent, Shown
<1>5. Unique'
  BY <1>0, <1>2 DEF AnswerInv, Unique, TakeDialog
<1>6. activeDialog \notin Deferred
  BY DEF AnswerInv, Unique
<1>7. \A u \in Api : pc[u] = "answer" => job[u].dialog # activeDialog /\ pc[t] # "answer"
  BY DEF AnswerInv, Answering, TakeDialog
<1>8. Answering'
  <2>1. \A u \in Api : pc'[u] = "answer" =>
          /\ job'[u].dialog \in 1..Len(received)
          /\ job'[u].dialog \notin Deferred \cup {0}
          /\ received[job'[u].dialog] \in {job'[u].client} \cup unannounced
    BY <1>0, <1>1, <1>3, <1>4, <1>6 DEF AnswerInv, Answering
  <2>2. \A u, w \in Api : u # w /\ pc'[u] = "answer" /\ pc'[w] = "answer" =>
          job'[u].dialog # job'[w].dialog
    BY <1>1, <1>7 DEF AnswerInv, Answering
  <2> QED BY <1>2, <2>1, <2>2 DEF Answering
<1>9. Answered'
  <2>1. \A i \in DOMAIN answers : answers[i][1] # activeDialog
    BY DEF AnswerInv, AnsweredOnce
  <2> QED BY <1>1, <1>2, <2>1 DEF AnswerInv, Answered
<1>10. AnsweredOnce'
  <2>1. \A i \in DOMAIN answers : answers[i][1] # 0
    BY <1>0 DEF AnswerInv, Answered
  <2> QED BY <1>2, <2>1 DEF AnswerInv, AnsweredOnce
<1> QED BY <1>5, <1>8, <1>9, <1>10 DEF AnswerInv

LEMMA AnswerAnswers ==
  ASSUME TypeOK, AnswerInv, NEW t \in Api, AnswerDialog(t)
  PROVE  AnswerInv'
<1> USE DEF current, snapshot, threads, bounds, history
<1> DEFINE d == job[t].dialog  c == job[t].client
<1>1. /\ pc[t] = "answer" /\ pc'[t] = "idle"
      /\ \A u \in Api : u # t => pc'[u] = pc[u] /\ job'[u] = job[u]
  BY DEF AnswerDialog, Return, Goto, TypeOK
<1>2. UNCHANGED <<Deferred, dialogs, activeDialog, received, unannounced>>
  BY DEF AnswerDialog, Deferred
<1>3. Unique'
  BY <1>2 DEF AnswerInv, Unique
<1>4. Answering'
  BY <1>1, <1>2 DEF AnswerInv, Answering
<1>5. CASE UNCHANGED answers
  <2>1. Answered' /\ AnsweredOnce'
    BY <1>1, <1>2, <1>5 DEF AnswerInv, Answered, AnsweredOnce
  <2> QED BY <1>3, <1>4, <2>1 DEF AnswerInv
<1>6. CASE answers' = Append(answers, <<d, c>>)
  <2> DEFINE S == (0..MaxDialogs) \X (0..MaxClients)
  <2>0. answers \in Seq(S)
    BY DEF TypeOK
  <2>1. <<d, c>> \in S
    BY DEF TypeOK, Job
  <2> HIDE DEF S
  <2> DEFINE n == Len(answers)
  <2>2. /\ n \in Nat /\ DOMAIN answers = 1..n
        /\ DOMAIN answers' = 1..(n + 1)
        /\ \A i \in 1..n : answers'[i] = answers[i]
        /\ answers'[n + 1] = <<d, c>>
    <3>1. answers' \in Seq(S) /\ Len(answers') = n + 1
      BY <1>6, <2>0, <2>1, AppendProperties
    <3> QED BY <1>6, <2>0, <2>1, <3>1, AppendProperties, LenProperties
  <2> HIDE DEF n
  <2>3. \A i \in DOMAIN answers' : i \in DOMAIN answers \/ i = n + 1
    BY <2>2
  <2>4. /\ d \in 1..Len(received) /\ d \notin Deferred \cup {activeDialog}
        /\ received[d] \in {c} \cup unannounced
        /\ \A u \in Api : u # t /\ pc[u] = "answer" => job[u].dialog # d
        /\ \A i \in DOMAIN answers : answers[i][1] # d
    BY <1>1 DEF AnswerInv, Answering, Answered
  <2>5. Answered'
    BY <1>1, <1>2, <2>2, <2>3, <2>4 DEF AnswerInv, Answered
  <2>6. \A i \in DOMAIN answers' :
          /\ received[answers'[i][1]] \in {answers'[i][2]} \cup unannounced
          /\ answers'[i][1] # activeDialog /\ answers'[i][1] \notin Deferred
    BY <2>2, <2>3, <2>4 DEF AnswerInv, AnsweredOnce
  <2>7. \A i, j \in DOMAIN answers' : answers'[i][1] = answers'[j][1] => i = j
    BY <2>2, <2>3, <2>4 DEF AnswerInv, AnsweredOnce
  <2>8. AnsweredOnce'
    BY <1>2, <2>6, <2>7 DEF AnsweredOnce
  <2> QED BY <1>3, <1>4, <2>5, <2>8 DEF AnswerInv
<1> QED BY <1>5, <1>6 DEF AnswerDialog

LEMMA AnswerKept ==
  ASSUME ConnectionInv, AnswerInv, [Next]_vars
  PROVE  AnswerInv'
<1> USE DEF current, snapshot, threads, bounds, history
<1>0. TypeOK /\ DialogsReceived /\ Len(received) \in Nat /\ 0 \notin Deferred
  BY DeferredType DEF ConnectionInv
<1> DEFINE Quiet == \A u \in Api : pc'[u] = "answer" => pc[u] = "answer" /\ job'[u] = job[u]
<1>1. ASSUME ResetConnectionState, UNCHANGED <<answers, received, unannounced>>, Quiet
      PROVE  AnswerInv'
  <2>1. Deferred' = {} /\ activeDialog' = 0 /\ Unique'
    BY <1>1 DEF ResetConnectionState, Deferred, Unique
  <2> QED BY <1>0, <1>1, <2>1, NobodyAnswers
<1>2. ASSUME UNCHANGED <<answers, received, activeDialog, dialogs>>,
             unannounced \subseteq unannounced', Quiet
      PROVE  AnswerInv'
  <2>1. UNCHANGED Deferred /\ Unique'
    BY <1>2 DEF AnswerInv, Unique, Deferred
  <2> QED BY <1>0, <1>2, <2>1, NobodyAnswers
<1>3. ASSUME NEW t \in Api, Connect(t) \/ Disconnect(t) PROVE AnswerInv'
  <2>1. Quiet
    BY <1>0, <1>3 DEF Connect, Disconnect, TakeConnection, Goto, TypeOK
  <2> QED BY <1>1, <1>3, <2>1 DEF Connect, Disconnect
<1>4. ASSUME NEW t \in Api,
             Begin(t) \/ StartConnection(t) \/ ConnectFails(t) \/ Delete(t) \/ Retire(t)
               \/ Update(t) \/ UpdateFails(t) \/ Close(t) \/ Refuse(t) \/ SetAFK(t)
               \/ Teleport(t)
      PROVE  AnswerInv'
  <2>1. Quiet
    <3>1. CASE Begin(t)
      BY <1>0, <3>1, CallAssumption DEF Begin, Goto, TypeOK, Call
    <3>2. CASE StartConnection(t) \/ ConnectFails(t) \/ Delete(t) \/ Retire(t) \/ Update(t)
      BY <1>0, <3>2 DEF StartConnection, ConnectFails, Delete, Retire, Update,
                        TakeConnection, Return, Goto, TypeOK
    <3>3. CASE UpdateFails(t) \/ Close(t) \/ Refuse(t) \/ SetAFK(t) \/ Teleport(t)
      BY <1>0, <3>3 DEF UpdateFails, Close, Refuse, SetAFK, Teleport, Return, Goto, TypeOK
    <3> QED BY <1>4, <3>1, <3>2, <3>3
  <2>2. UNCHANGED <<answers, received, activeDialog, dialogs, unannounced>>
    BY <1>4 DEF Begin, StartConnection, ConnectFails, Delete, Retire, Update,
                UpdateFails, Close, Refuse, SetAFK, Teleport
  <2> QED BY <1>2, <2>1, <2>2
<1>5. ASSUME NEW t \in Api, TakeDialog(t) PROVE AnswerInv'
  <2>1. SnapshotOfCurrent
    BY <1>5 DEF ConnectionInv, ClientHasContext, TakeDialog, Connected
  <2> QED BY <1>0, <1>5, <2>1, TakeAnswers
<1>6. ASSUME NEW t \in Api, AnswerDialog(t) PROVE AnswerInv'
  BY <1>0, <1>6, AnswerAnswers
<1>7. ASSUME NEW t \in Api, MoveDialog(t) PROVE AnswerInv'
  <2>1. Quiet
    BY <1>0, <1>7 DEF MoveDialog, Return, Goto, TypeOK
  <2>2. Unique'
    BY <1>0, <1>7, MoveUnique DEF AnswerInv
  <2>3. /\ activeDialog' \in {0, activeDialog} \cup Deferred
        /\ Deferred' \subseteq Deferred \cup ({activeDialog} \ {0})
    BY <1>0, <1>7, MoveKeeps
  <2>4. \A d \in 1..Len(received) :
          d \in Deferred' \cup {activeDialog'} => d \in Deferred \cup {activeDialog}
    BY <1>0, <2>3
  <2>5. UNCHANGED <<answers, received, unannounced>>
    BY <1>7 DEF MoveDialog
  <2> QED BY <1>0, <2>1, <2>2, <2>4, <2>5, NobodyAnswers
<1>8. ASSUME NEW g \in Context, ApplyEvent(g) PROVE AnswerInv'
  <2>1. UNCHANGED <<answers, unannounced, dialogs, Deferred, pc, job>>
    BY <1>8 DEF ApplyEvent, Deferred
  <2>2. CASE UNCHANGED received /\ activeDialog' \in {0, activeDialog}
    <3>1. Unique'
      BY <1>0, <2>1, <2>2 DEF AnswerInv, Unique
    <3> QED BY <1>0, <2>1, <2>2, <3>1, NobodyAnswers
  <2>3. CASE received' = Append(received, dialed[g]) /\ activeDialog' = Len(received) + 1
    <3>1. dialed[g] \in Client
      BY <1>0, <1>8, BoundAssumption DEF ApplyEvent, TypeOK, Client
    <3>2. /\ Len(received') = Len(received) + 1
          /\ \A d \in 1..Len(received) : received'[d] = received[d]
      BY <1>0, <2>3, <3>1, AppendProperties DEF TypeOK
    <3>3. \A d \in Deferred : d \in Nat
      BY <1>0, DeferredType
    <3>4. Len(received) + 1 \notin Deferred
      BY <1>0, <3>3 DEF DialogsReceived
    <3>5. Unique'
      BY <2>1, <2>3, <3>4 DEF AnswerInv, Unique
    <3> QED BY <1>0, <2>1, <2>3, <3>2, <3>5, NobodyAnswers
  <2> QED BY <1>8, <2>2, <2>3 DEF ApplyEvent
<1>9. ASSUME NEW g \in Context, EventDisconnected(g) PROVE AnswerInv'
  BY <1>1, <1>9 DEF EventDisconnected
<1>10. ASSUME NEW g \in Context,
              Dial(g) \/ Install(g) \/ DropEvent(g) \/ EndUnannounced(g)
                \/ EventsClosed(g) \/ RecordFailure(g) \/ Retry(g) \/ RefreshServerInfo(g)
       PROVE  AnswerInv'
  <2>1. UNCHANGED <<answers, received, activeDialog, dialogs, pc, job>>
        /\ unannounced \subseteq unannounced'
    BY <1>10 DEF Dial, Install, DropEvent, EndUnannounced, EventsClosed, RecordFailure,
                 Retry, RefreshServerInfo
  <2> QED BY <1>2, <2>1
<1>11. ASSUME NEW c \in Client, ConnectionLost(c) PROVE AnswerInv'
  BY <1>2, <1>11 DEF ConnectionLost
<1>12. CASE UNCHANGED vars
  BY <1>2, <1>12 DEF vars
<1> QED BY <1>3, <1>4, <1>5, <1>6, <1>7, <1>8, <1>9, <1>10, <1>11, <1>12
        DEF Next, Caller, Connection

\* A dialog is answered once, on the connection that sent it, and none that
\* waits has been answered: ActionDialog takes the dialog out of the snapshot
\* before it answers, whatever else is called or received meanwhile.
THEOREM DialogsAnsweredOnce == Spec => []AnsweredOnce
<1>1. Init => AnswerInv
  BY DEF Init, AnswerInv, Unique, Answering, Answered, AnsweredOnce, Deferred
<1>2. ConnectionInv /\ AnswerInv /\ [Next]_vars => AnswerInv'
  BY AnswerKept
<1>3. AnswerInv => AnsweredOnce
  BY DEF AnswerInv
<1> QED BY <1>1, <1>2, <1>3, ConnectionInvariant, PTL DEF Spec
=============================================================================
