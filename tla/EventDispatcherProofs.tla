------------------------ MODULE EventDispatcherProofs ------------------------
(***************************************************************************)
(* Theorems about EventDispatcher, for any number of goroutines and any    *)
(* capacity of the channels.                                               *)
(***************************************************************************)
EXTENDS EventDispatcher, SequenceTheorems, TLAPS

-----------------------------------------------------------------------------
(* Sequences *)

\* A channel is its oldest event followed by the others.
LEMMA SplitHead ==
  ASSUME NEW S, NEW q \in Seq(S), q # <<>>
  PROVE  q = <<Head(q)>> \o Tail(q)
<1> DEFINE p == <<Head(q)>> \o Tail(q)
<1>1. /\ Head(q) \in S /\ Tail(q) \in Seq(S)
      /\ Len(Tail(q)) = Len(q) - 1
      /\ \A i \in 1..Len(Tail(q)) : Tail(q)[i] = q[i + 1]
  BY HeadTailProperties
<1>2. <<Head(q)>> \in Seq(S) /\ Len(<<Head(q)>>) = 1
  BY <1>1
<1>3. /\ p \in Seq(S) /\ Len(p) = Len(q)
      /\ \A i \in 1..Len(q) : p[i] = IF i <= 1 THEN <<Head(q)>>[i]
                                              ELSE Tail(q)[i - 1]
  BY <1>1, <1>2, ConcatProperties, LenProperties
<1> QED BY <1>1, <1>3, SeqEqual

\* Two sequences in one line.
LEMMA Joined ==
  ASSUME NEW S, NEW s \in Seq(S), NEW t \in Seq(S), NEW line, line = s \o t
  PROVE  /\ line \in Seq(S)
         /\ Len(line) = Len(s) + Len(t)
         /\ \A i \in 1..Len(line) :
              line[i] = IF i <= Len(s) THEN s[i] ELSE t[i - Len(s)]
BY ConcatProperties

\* An event at the head of one channel moves to the end of the one before it:
\* the line of events stays the same.
LEMMA MoveHead ==
  ASSUME NEW S, NEW r \in Seq(S), NEW q \in Seq(S), q # <<>>
  PROVE  /\ r \o <<Head(q)>> \in Seq(S)
         /\ (r \o <<Head(q)>>) \o Tail(q) = r \o q
         /\ Append(r, Head(q)) \o Tail(q) = r \o q
<1>1. Head(q) \in S /\ Tail(q) \in Seq(S)
  BY HeadTailProperties
<1>2. <<Head(q)>> \in Seq(S)
  BY <1>1
<1>3. (r \o <<Head(q)>>) \o Tail(q) = r \o (<<Head(q)>> \o Tail(q))
  BY <1>1, <1>2, ConcatAssociative
<1>4. (r \o <<Head(q)>>) \o Tail(q) = r \o q
  BY <1>3, SplitHead
<1>5. Append(r, Head(q)) = r \o <<Head(q)>>
  BY <1>1, AppendIsConcat
<1>6. r \o <<Head(q)>> \in Seq(S)
  BY <1>2, ConcatProperties
<1> QED BY <1>4, <1>5, <1>6

-----------------------------------------------------------------------------
(* Type correctness *)

\* A batch is numbered from the counter, so it consists of events.
LEMMA BatchType ==
  ASSUME TypeOK, NEW n \in 1..BatchSize, batches < MaxBatches
  PROVE  /\ Batch(n) \in Seq(Event) /\ Len(Batch(n)) = n
         /\ Batch(n) # <<>>
         /\ \A i \in 1..n : Batch(n)[i] = [batch |-> batches + 1, index |-> i]
<1>1. n \in Nat /\ 1 <= n /\ batches + 1 \in 1..MaxBatches
  BY SizeAssumption, BoundAssumption DEF TypeOK
<1>2. \A i \in 1..n : [batch |-> batches + 1, index |-> i] \in Event
  BY <1>1, BoundAssumption DEF Event
<1>3. Batch(n) \in Seq(Event) /\ Len(Batch(n)) = n
  BY <1>1, <1>2 DEF Batch
<1>4. Batch(n) # <<>>
  BY <1>1, <1>3
<1> QED BY <1>3, <1>4 DEF Batch

\* emitBatch (client.go:2646) and its callers keep the types.
LEMMA EmissionType ==
  ASSUME TypeOK, NEW t \in Thread, Begin(t) \/ Emit(t)
  PROVE  TypeOK'
<1> USE DEF TypeOK, Goto, Label, channels, signals, emission, dispatcher, history
<1>1. CASE Begin(t)
  <2>1. PICK n \in 1..BatchSize : pending' = [pending EXCEPT ![t] = Batch(n)]
    BY <1>1 DEF Begin
  <2>2. batches < MaxBatches /\ batches' \in 0..MaxBatches
    BY <1>1, BoundAssumption DEF Begin
  <2>3. Batch(n) \in Seq(Event)
    BY <2>2, BatchType
  <2> QED BY <1>1, <2>1, <2>2, <2>3 DEF Begin
<1>2. CASE LockBatch(t)
  BY <1>2 DEF LockBatch
<1>3. CASE LockSubmit(t)
  BY <1>3 DEF LockSubmit
<1>4. CASE Submit(t)
  <2>1. Head(pending[t]) \in Event /\ Tail(pending[t]) \in Seq(Event)
    BY <1>4, HeadTailProperties DEF Submit
  <2> QED BY <1>4, <2>1 DEF Submit
<1>5. CASE Return(t)
  BY <1>5 DEF Return, EndEmission
<1> QED BY <1>1, <1>2, <1>3, <1>4, <1>5 DEF Emit

\* dispatchEvents (client.go:2685) keeps the types.
LEMMA DispatchType ==
  ASSUME TypeOK, Dispatch
  PROVE  TypeOK'
<1> USE DEF TypeOK, channels, signals, emission, dispatcher, history
<1>1. CASE Take
  <2>1. Head(eventQueue) \in Event /\ Tail(eventQueue) \in Seq(Event)
    BY <1>1, HeadTailProperties DEF Take
  <2>2. <<Head(eventQueue)>> \in Seq(Event)
    BY <2>1
  <2> QED BY <1>1, <2>1, <2>2 DEF Take
<1>2. CASE Deliver
  <2>1. hand \in Seq(Event \cup {Terminal})
    BY SeqMonotonic
  <2>2. events \o hand \in Seq(Event \cup {Terminal})
    BY <2>1, ConcatProperties
  <2> QED BY <1>2, <2>2 DEF Deliver
<1>3. CASE Halt
  BY <1>3 DEF Halt
<1>4. CASE DeliverTerminal
  <2>1. Append(events, Terminal) \in Seq(Event \cup {Terminal})
    BY AppendProperties
  <2> QED BY <1>4, <2>1 DEF DeliverTerminal
<1>5. CASE Evict
  <2>1. events # <<>> => Tail(events) \in Seq(Event \cup {Terminal})
    BY HeadTailProperties
  <2> QED BY <1>5, <2>1 DEF Evict
<1>6. CASE CloseEvents
  BY <1>6 DEF CloseEvents
<1> QED BY <1>1, <1>2, <1>3, <1>4, <1>5, <1>6 DEF Dispatch

\* Every step keeps the types.
LEMMA TypeStep ==
  ASSUME TypeOK, [Next]_vars
  PROVE  TypeOK'
<1> USE DEF TypeOK, Goto, Label, channels, signals, emission, dispatcher, history
<1>1. CASE \E t \in Thread : Begin(t) \/ Emit(t)
  BY <1>1, EmissionType
<1>2. CASE Close
  BY <1>2 DEF Close
<1>3. CASE ReadFails
  <2>1. CASE batches < MaxBatches /\ pending' = [pending EXCEPT ![Run] = Batch(1)]
    <3>1. 1 \in 1..BatchSize /\ batches + 1 \in 0..MaxBatches
      BY <2>1, BoundAssumption
    <3>2. Batch(1) \in Seq(Event)
      BY <2>1, <3>1, BatchType
    <3>3. pending' \in [Thread -> Seq(Event)]
      BY <2>1, <3>2
    <3>4. batches' \in 0..MaxBatches /\ pc' \in [Thread -> Label]
      BY <1>3, <3>1 DEF ReadFails
    <3> QED BY <1>3, <3>3, <3>4 DEF ReadFails
  <2>2. CASE UNCHANGED <<pending, batches>>
    <3>1. pc' \in [Thread -> Label]
      BY <1>3 DEF ReadFails
    <3> QED BY <1>3, <2>2, <3>1 DEF ReadFails
  <2> QED BY <1>3, <2>1, <2>2 DEF ReadFails
<1>4. CASE Rejected
  BY <1>4 DEF Rejected
<1>5. CASE StopDispatcher
  BY <1>5 DEF StopDispatcher
<1>6. CASE AwaitDispatcher
  BY <1>6 DEF AwaitDispatcher
<1>7. CASE Dispatch
  BY <1>7, DispatchType
<1>8. CASE Receive
  <2>1. /\ Head(events) \in Event \cup {Terminal}
        /\ Tail(events) \in Seq(Event \cup {Terminal})
    BY <1>8, HeadTailProperties DEF Receive
  <2> QED BY <1>8, <2>1 DEF Receive
<1>9. CASE Terminated \/ UNCHANGED vars
  BY <1>9 DEF Terminated, vars
<1> QED
  BY <1>1, <1>2, <1>3, <1>4, <1>5, <1>6, <1>7, <1>8, <1>9 DEF Next

\* The channels and histories of the dispatcher hold events only, whatever the
\* goroutines, the shutdown and the consumer do.
THEOREM TypeCorrect == Spec => []TypeOK
<1>1. Init => TypeOK
  <2> SUFFICES ASSUME Init PROVE TypeOK
    OBVIOUS
  <2>1. <<>> \in Seq(Event) /\ <<>> \in Seq(Event \cup {Terminal})
    OBVIOUS
  <2>2. pc \in [Thread -> Label] /\ pending \in [Thread -> Seq(Event)]
    BY <2>1 DEF Init, Label
  <2>3. batches \in 0..MaxBatches
    BY BoundAssumption DEF Init
  <2> QED BY <2>1, <2>2, <2>3 DEF Init, TypeOK
<1>2. TypeOK /\ [Next]_vars => TypeOK'
  BY TypeStep
<1> QED BY <1>1, <1>2, PTL DEF Spec

-----------------------------------------------------------------------------
(* Nothing is lost between the channels *)

\* The dispatcher has an event of its own only while it delivers one.
HandInv == dispatch = "select" => hand = <<>>

\* Every step keeps the line of events that leads from the consumer back to the
\* last event that eventQueue took.
LEMMA NothingLostStep ==
  ASSUME TypeOK, NothingLost, HandInv, [Next]_vars
  PROVE  NothingLost' /\ HandInv'
<1> DEFINE All == Event \cup {Terminal}
<1> USE DEF NothingLost, HandInv, channels, signals, emission, dispatcher, history
<1>0. /\ eventQueue \in Seq(All) /\ hand \in Seq(All) /\ accepted \in Seq(All)
      /\ events \in Seq(All) /\ received \in Seq(All)
  <2>1. \A s \in Seq(Event) : s \in Seq(All)
    <3> HIDE DEF All
    <3>1. Event \subseteq All
      BY DEF All
    <3> QED BY <3>1
  <2> QED BY <2>1 DEF TypeOK
<1>1. ASSUME NEW t \in Thread, Begin(t) \/ Emit(t)
      PROVE  NothingLost' /\ HandInv'
  <2>1. CASE Submit(t)
    <3> DEFINE e == Head(pending[t])
               before == (received \o events) \o hand
    <3>1. e \in All
      BY <2>1, HeadTailProperties DEF Submit, TypeOK
    <3>2. before \in Seq(All)
      BY <1>0, ConcatProperties
    <3>3. Append(before \o eventQueue, e) = before \o Append(eventQueue, e)
      <4>1. <<e>> \in Seq(All) /\ before \o eventQueue \in Seq(All)
        BY <1>0, <3>1, <3>2, ConcatProperties
      <4> HIDE DEF All, e, before
      <4>2. Append(before \o eventQueue, e) = (before \o eventQueue) \o <<e>>
        <5> DEFINE line == before \o eventQueue
        <5>1. line \in Seq(All)
          BY <4>1
        <5> HIDE DEF line
        <5>2. Append(line, e) = line \o <<e>>
          BY <3>1, <5>1, AppendIsConcat
        <5> QED BY <5>2 DEF line
      <4>3. Append(eventQueue, e) = eventQueue \o <<e>>
        BY <1>0, <3>1, AppendIsConcat
      <4>4. (before \o eventQueue) \o <<e>> = before \o (eventQueue \o <<e>>)
        <5>1. \A a, b, c \in Seq(All) : (a \o b) \o c = a \o (b \o c)
          BY ConcatAssociative
        <5> QED BY <1>0, <3>2, <4>1, <5>1, Zenon
      <4> QED BY <4>2, <4>3, <4>4
    <3> QED BY <2>1, <3>3 DEF Submit
  <2>2. CASE Begin(t) \/ LockBatch(t) \/ LockSubmit(t) \/ Return(t)
    BY <2>2 DEF Begin, LockBatch, LockSubmit, Return, EndEmission
  <2> QED BY <1>1, <2>1, <2>2 DEF Emit
<1>2. CASE Close \/ ReadFails \/ Rejected \/ StopDispatcher \/ AwaitDispatcher
  BY <1>2 DEF Close, ReadFails, Rejected, StopDispatcher, AwaitDispatcher
<1>3. CASE Take
  <2>1. received \o events \in Seq(All)
    BY <1>0, ConcatProperties
  <2>2. hand = <<>> /\ (received \o events) \o <<>> = received \o events
    BY <1>3, <2>1, ConcatEmptySeq DEF Take
  <2>3. ((received \o events) \o <<Head(eventQueue)>>) \o Tail(eventQueue)
          = (received \o events) \o eventQueue
    BY <1>0, <1>3, <2>1, MoveHead DEF Take
  <2> QED BY <1>3, <2>2, <2>3 DEF Take
<1>4. CASE Deliver
  <2>1. /\ received \o (events \o hand) = (received \o events) \o hand
        /\ received \o (events \o hand) \in Seq(All)
    <3>1. events \o hand \in Seq(All)
      BY <1>0, ConcatProperties
    <3>2. received \o (events \o hand) \in Seq(All)
      BY <1>0, <3>1, ConcatProperties
    <3>3. \A a, b, c \in Seq(All) : (a \o b) \o c = a \o (b \o c)
      BY ConcatAssociative
    <3>4. received \o (events \o hand) = (received \o events) \o hand
      BY <1>0, <3>3, Zenon
    <3> QED BY <3>2, <3>4
  <2>2. (received \o (events \o hand)) \o <<>> = received \o (events \o hand)
    BY <2>1, ConcatEmptySeq
  <2> QED BY <1>4, <2>1, <2>2 DEF Deliver
<1>5. CASE Halt \/ DeliverTerminal \/ Evict \/ CloseEvents
  BY <1>5 DEF Halt, DeliverTerminal, Evict, CloseEvents
<1>6. CASE Receive
  <2>1. Append(received, Head(events)) \o Tail(events) = received \o events
    BY <1>0, <1>6, MoveHead DEF Receive
  <2> QED BY <1>6, <2>1 DEF Receive
<1>7. CASE Terminated \/ UNCHANGED vars
  BY <1>7 DEF Terminated, vars
<1> QED
  BY <1>1, <1>2, <1>3, <1>4, <1>5, <1>6, <1>7 DEF Next, Dispatch

\* Until the dispatcher stops, the consumer gets every event that emitBatch
\* submitted, once and in that order, whatever the capacities are.
THEOREM NothingIsLost == Spec => []NothingLost
<1>1. Init => NothingLost /\ HandInv
  <2> SUFFICES ASSUME Init PROVE NothingLost /\ HandInv
    OBVIOUS
  <2>1. <<>> \o <<>> = <<>>
    BY ConcatEmptySeq, EmptySeq
  <2> QED BY <2>1 DEF Init, NothingLost, HandInv
<1>2. TypeOK /\ NothingLost /\ HandInv /\ [Next]_vars => NothingLost' /\ HandInv'
  BY NothingLostStep
<1> QED BY <1>1, <1>2, TypeCorrect, PTL DEF Spec

-----------------------------------------------------------------------------
(* Shutdown *)

\* The dispatcher is done only when it has closed the channel, and the read loop
\* of Run is left only with the client cancelled.
ShutdownInv ==
  /\ dispatch = "done" => eventsClosed
  /\ pc[Run] \in {"stop", "await", "stopped"} => ctxDone
  /\ leaving => ctxDone
  /\ pc[Run] = "stopped" => eventsClosed

\* Only Run, of all goroutines, reaches the labels of the shutdown.
LEMMA ShutdownStep ==
  ASSUME TypeOK, ShutdownInv, [Next]_vars
  PROVE  ShutdownInv'
<1> USE DEF ShutdownInv, TypeOK, Goto, Thread, channels, signals, emission,
            dispatcher, history
<1>1. ASSUME NEW t \in Thread, Begin(t) \/ Emit(t)
      PROVE  ShutdownInv'
  BY <1>1 DEF Begin, Emit, LockBatch, LockSubmit, Submit, Return, EndEmission
<1>2. CASE Close \/ ReadFails \/ Rejected \/ StopDispatcher \/ AwaitDispatcher
  BY <1>2 DEF Close, ReadFails, Rejected, StopDispatcher, AwaitDispatcher
<1>3. CASE Dispatch
  BY <1>3 DEF Dispatch, Take, Deliver, Halt, DeliverTerminal, Evict, CloseEvents
<1>4. CASE Receive \/ Terminated \/ UNCHANGED vars
  BY <1>4 DEF Receive, Terminated, vars
<1> QED
  BY <1>1, <1>2, <1>3, <1>4 DEF Next

\* stopEventDispatcher returns to a cancelled client with a closed channel.
THEOREM ShutdownHandsOver == Spec => []HandedOver
<1>1. Init => ShutdownInv
  BY DEF Init, ShutdownInv, Thread
<1>2. TypeOK /\ ShutdownInv /\ [Next]_vars => ShutdownInv'
  BY ShutdownStep
<1>3. ShutdownInv => HandedOver
  BY DEF ShutdownInv, HandedOver
<1> QED BY <1>1, <1>2, <1>3, TypeCorrect, PTL DEF Spec

-----------------------------------------------------------------------------
(* Batches stay whole *)

\* Batches and places are numbers.
LEMMA EventNumbers ==
  /\ \A e \in Event : e.batch \in Nat /\ e.index \in Nat
  /\ TypeOK => /\ Len(accepted) \in Nat /\ DOMAIN accepted = 1..Len(accepted)
               /\ \A i \in DOMAIN accepted : accepted[i] \in Event
               /\ \A t \in Thread : pending[t] # <<>> => pending[t][1] \in Event
<1>1. \A e \in Event : e.batch \in Nat /\ e.index \in Nat
  BY BoundAssumption DEF Event
<1>2. ASSUME TypeOK
      PROVE  /\ Len(accepted) \in Nat /\ DOMAIN accepted = 1..Len(accepted)
             /\ \A i \in DOMAIN accepted : accepted[i] \in Event
  BY <1>2 DEF TypeOK
<1>3. ASSUME TypeOK, NEW t \in Thread, pending[t] # <<>>
      PROVE  pending[t][1] \in Event
  BY <1>3 DEF TypeOK
<1> QED BY <1>1, <1>2, <1>3

\* A goroutine that begins a batch of its own disturbs no other one.
LEMMA BeginBatch ==
  ASSUME TypeOK, BatchInv, NEW t \in Thread, NEW n \in 1..BatchSize,
         pending[t] = <<>>, batches < MaxBatches,
         pending' = [pending EXCEPT ![t] = Batch(n)],
         batches' = batches + 1,
         NEW label \in {"batch_lock", "submit_lock"}, Goto(t, label),
         UNCHANGED <<accepted, eventSubmitMu>>
  PROVE  BatchInv'
<1>1. /\ Len(Batch(n)) = n /\ Batch(n) \in Seq(Event) /\ Batch(n) # <<>>
      /\ \A i \in 1..n : Batch(n)[i] = [batch |-> batches + 1, index |-> i]
  BY BatchType
<1>2. /\ pending'[t] = Batch(n) /\ pc'[t] = label
      /\ \A u \in Thread \ {t} : pending'[u] = pending[u] /\ pc'[u] = pc[u]
  BY DEF TypeOK, Goto
<1>3. batches \in Nat /\ n \in Nat /\ 1 <= n
  BY BoundAssumption DEF TypeOK
<1>4. \A i \in DOMAIN accepted : accepted[i].batch \in Nat
  BY EventNumbers
<1>5. \A u \in Thread : pending[u] # <<>> => pending[u][1].batch \in Nat
  BY EventNumbers
<1>6. \A i \in DOMAIN accepted : accepted'[i].batch <= batches'
  BY <1>3, <1>4 DEF BatchInv
<1>7. DOMAIN pending'[t] = 1..n /\ 1 \in 1..n
  BY <1>1, <1>2, <1>3
<1>8. pending'[t][1] = [batch |-> batches + 1, index |-> 1]
  BY <1>1, <1>2, <1>7
<1>9. Numbered(t)'
  BY <1>1, <1>2, <1>3, <1>7, <1>8 DEF Numbered
<1>10. Unsent(t)'
  BY <1>3, <1>4, <1>8 DEF Unsent, BatchInv
<1>11. PendingInv(t)'
  <2>1. ASSUME NEW u \in Thread \ {t}, pending'[u] # <<>>
        PROVE  pending'[t][1].batch # pending'[u][1].batch
    BY <1>2, <1>3, <1>5, <1>8, <2>1 DEF BatchInv, PendingInv
  <2> QED BY <1>2, <1>3, <1>8, <1>9, <1>10, <2>1 DEF PendingInv
<1>12. ASSUME NEW u \in Thread \ {t}
       PROVE  PendingInv(u)'
  <2>1. PendingInv(u)
    BY DEF BatchInv
  <2>2. pending'[u] = pending[u] /\ pc'[u] = pc[u]
    BY <1>2
  <2>3. pending[u] # <<>> => pending[u][1].batch <= batches'
    BY <1>3, <1>5, <2>1 DEF PendingInv
  <2>4. pending[u] # <<>> => Unsent(u)' \/ Continues(u)'
    BY <2>1, <2>2 DEF PendingInv, Unsent, Continues
  <2>5. ASSUME NEW v \in Thread \ {u}, pending'[u] # <<>>, pending'[v] # <<>>
        PROVE  pending'[u][1].batch # pending'[v][1].batch
    <3>1. CASE v = t
      BY <1>3, <1>5, <1>8, <2>1, <2>2, <2>5, <3>1 DEF PendingInv
    <3>2. CASE v # t
      BY <1>2, <2>1, <2>2, <2>5, <3>2 DEF PendingInv
    <3> QED BY <3>1, <3>2
  <2> QED BY <2>1, <2>2, <2>3, <2>4, <2>5 DEF PendingInv, Numbered
<1> QED BY <1>6, <1>11, <1>12 DEF BatchInv, BatchesWhole

\* The event that a goroutine submits continues its batch or begins it.
LEMMA SubmitBatch ==
  ASSUME TypeOK, BatchInv, NEW t \in Thread, Submit(t)
  PROVE  BatchInv'
<1> DEFINE h == Head(pending[t])
           len == Len(accepted)
<1>1. /\ pending[t] \in Seq(Event) /\ pending[t] # <<>>
      /\ h = pending[t][1] /\ h \in Event
      /\ Tail(pending[t]) \in Seq(Event)
      /\ Len(Tail(pending[t])) = Len(pending[t]) - 1
      /\ \A i \in 1..Len(Tail(pending[t])) : Tail(pending[t])[i] = pending[t][i + 1]
  BY HeadTailProperties DEF Submit, TypeOK
<1>2. /\ h.batch \in Nat /\ h.index \in Nat
      /\ len \in Nat
      /\ \A i \in 1..len : accepted[i].batch \in Nat /\ accepted[i].index \in Nat
  BY <1>1, EventNumbers
<1>3. /\ Len(accepted') = len + 1
      /\ \A i \in 1..len : accepted'[i] = accepted[i]
      /\ accepted'[len + 1] = h
  BY <1>1, AppendProperties DEF Submit, TypeOK
<1>4. /\ pending'[t] = Tail(pending[t])
      /\ \A u \in Thread \ {t} : pending'[u] = pending[u]
      /\ UNCHANGED <<pc, eventSubmitMu, batches>> /\ pc[t] = "submit"
  BY DEF Submit, TypeOK
<1>5. \A u \in Thread : PendingInv(u)
  BY DEF BatchInv
<1> HIDE DEF h, len
<1>6. h.batch <= batches /\ (Unsent(t) \/ Continues(t))
  BY <1>1, <1>5 DEF PendingInv
<1>7. len # 0 => IF accepted[len].batch = h.batch
                   THEN h.index = accepted[len].index + 1 ELSE h.index = 1
  <2>1. DOMAIN accepted = 1..len
    BY DEF len, TypeOK
  <2> QED BY <1>1, <1>2, <1>6, <2>1 DEF Unsent, Continues, len
<1>8. BatchesWhole'
  <2> SUFFICES ASSUME NEW i \in 1..len
               PROVE  IF accepted'[i + 1].batch = accepted'[i].batch
                        THEN accepted'[i + 1].index = accepted'[i].index + 1
                        ELSE accepted'[i + 1].index = 1
    BY <1>2, <1>3 DEF BatchesWhole
  <2>1. CASE i = len
    BY <1>2, <1>3, <1>7, <2>1
  <2>2. CASE i # len
    <3>1. i \in 1..len - 1 /\ i + 1 \in 1..len
      BY <1>2, <2>2
    <3> QED BY <1>3, <3>1 DEF BatchInv, BatchesWhole, len
  <2> QED BY <2>1, <2>2
<1>9. \A i \in DOMAIN accepted' : accepted'[i].batch <= batches'
  <2>1. DOMAIN accepted' = 1..len + 1 /\ DOMAIN accepted = 1..len
    BY <1>3, EmissionType DEF len, TypeOK, Emit
  <2> QED BY <1>2, <1>3, <1>4, <1>6, <2>1 DEF BatchInv
<1>10. PendingInv(t)'
  <2>1. Numbered(t)'
    <3>1. ASSUME NEW i \in DOMAIN pending'[t]
          PROVE  /\ pending'[t][i].batch = h.batch
                 /\ pending'[t][i].index = h.index + i
      <4>1. i \in 1..Len(pending[t]) - 1 /\ i + 1 \in DOMAIN pending[t]
        BY <1>1, <1>4
      <4>2. pending'[t][i] = pending[t][i + 1]
        BY <1>1, <1>4, <4>1
      <4> QED BY <1>1, <1>2, <1>5, <4>1, <4>2 DEF PendingInv, Numbered
    <3> SUFFICES ASSUME NEW i \in DOMAIN pending'[t]
                 PROVE  /\ pending'[t][i].batch = pending'[t][1].batch
                        /\ pending'[t][i].index = pending'[t][1].index + i - 1
      BY DEF Numbered
    <3>2. i \in Nat /\ 1 \in DOMAIN pending'[t]
      BY <1>1, <1>4
    <3>3. pending'[t][1].batch = h.batch /\ pending'[t][1].index = h.index + 1
      BY <3>1, <3>2
    <3>4. h.index + i = (h.index + 1) + i - 1
      BY <1>2, <3>2
    <3> QED BY <3>1, <3>3, <3>4
  <2>2. pending'[t] # <<>> => /\ pending'[t][1].batch = h.batch
                              /\ pending'[t][1].index = h.index + 1
    <3>1. pending'[t] # <<>> => pending'[t][1] = pending[t][2] /\ 2 \in DOMAIN pending[t]
      BY <1>1, <1>4
    <3> QED BY <1>1, <1>2, <1>5, <3>1 DEF PendingInv, Numbered
  <2>3. pending'[t] # <<>> => Continues(t)'
    BY <1>2, <1>3, <1>4, <2>2 DEF Continues
  <2>4. ASSUME NEW u \in Thread \ {t}, pending'[t] # <<>>, pending'[u] # <<>>
        PROVE  pending'[t][1].batch # pending'[u][1].batch
    BY <1>1, <1>4, <1>5, <2>2, <2>4 DEF PendingInv
  <2> QED BY <1>4, <1>5, <1>6, <2>1, <2>2, <2>3, <2>4 DEF PendingInv
<1>11. ASSUME NEW u \in Thread \ {t}
       PROVE  PendingInv(u)'
  <2>1. pc[u] # "submit"
    BY <1>4, <1>5 DEF PendingInv
  <2>2. pending'[u] = pending[u] /\ UNCHANGED <<pc, eventSubmitMu, batches>>
    BY <1>4
  <2>3. ASSUME pending[u] # <<>>
        PROVE  Unsent(u)'
    <3>1. Unsent(u)
      BY <1>5, <2>1, <2>3 DEF PendingInv, Continues
    <3>2. h.batch # pending[u][1].batch
      BY <1>1, <1>5, <2>3 DEF PendingInv
    <3>3. DOMAIN accepted' = 1..len + 1 /\ DOMAIN accepted = 1..len
      BY <1>3, EmissionType DEF len, TypeOK, Emit
    <3>4. ASSUME NEW i \in 1..len + 1
          PROVE  accepted'[i].batch # pending[u][1].batch
      <4>1. CASE i = len + 1
        BY <1>3, <3>2, <4>1
      <4>2. CASE i # len + 1
        <5>1. i \in 1..len
          BY <1>2, <4>2
        <5> QED BY <1>3, <3>1, <3>3, <5>1 DEF Unsent
      <4> QED BY <4>1, <4>2
    <3> QED BY <2>2, <3>1, <3>3, <3>4 DEF Unsent
  <2>4. ASSUME NEW v \in Thread \ {u}, pending'[u] # <<>>, pending'[v] # <<>>
        PROVE  pending'[u][1].batch # pending'[v][1].batch
    <3>1. CASE v = t
      BY <1>5, <1>10, <2>4, <3>1 DEF PendingInv
    <3>2. CASE v # t
      BY <1>4, <1>5, <2>4, <3>2 DEF PendingInv
    <3> QED BY <3>1, <3>2
  <2> QED BY <1>5, <2>2, <2>3, <2>4 DEF PendingInv, Numbered
<1> QED BY <1>8, <1>9, <1>10, <1>11 DEF BatchInv

\* A goroutine that is done with its batch lets the others go on.
LEMMA EndBatch ==
  ASSUME TypeOK, BatchInv, NEW t \in Thread, Return(t)
  PROVE  BatchInv'
<1>1. \A u \in Thread : PendingInv(u)
  BY DEF BatchInv
<1>2. /\ pc[t] = "submit" /\ pending'[t] = <<>>
      /\ pc'[t] \in {"stop", "idle"}
      /\ \A u \in Thread \ {t} : pending'[u] = pending[u] /\ pc'[u] = pc[u]
      /\ UNCHANGED <<accepted, batches>>
  BY DEF Return, EndEmission, Goto, TypeOK, history
<1>3. PendingInv(t)'
  BY <1>2 DEF PendingInv, Numbered
<1>4. ASSUME NEW u \in Thread \ {t}
      PROVE  PendingInv(u)'
  <2>1. pc[u] # "submit"
    BY <1>1, <1>2 DEF PendingInv
  <2>2. PendingInv(u) /\ pending'[u] = pending[u] /\ pc'[u] = pc[u]
    BY <1>1, <1>2
  <2>3. ASSUME NEW v \in Thread \ {u}, pending'[u] # <<>>, pending'[v] # <<>>
        PROVE  pending'[u][1].batch # pending'[v][1].batch
    BY <1>2, <2>2, <2>3 DEF PendingInv
  <2> QED
    BY <1>2, <2>1, <2>2, <2>3 DEF PendingInv, Numbered, Unsent, Continues
<1> QED BY <1>2, <1>3, <1>4 DEF BatchInv, BatchesWhole

\* Every other step moves a goroutine only between labels that say the same of
\* its batch.
LEMMA SameBatches ==
  ASSUME TypeOK, BatchInv, UNCHANGED <<accepted, pending, batches>>,
         \A t \in Thread :
           /\ pc[t] = "submit" => pc'[t] = "submit" /\ eventSubmitMu' = eventSubmitMu
           /\ pc'[t] = "submit" => pc[t] = "submit" \/ eventSubmitMu' = t
           /\ pc[t] \notin {"batch_lock", "submit_lock", "submit"}
                <=> pc'[t] \notin {"batch_lock", "submit_lock", "submit"}
  PROVE  BatchInv'
<1>1. ASSUME NEW t \in Thread
      PROVE  PendingInv(t)'
  <2>1. PendingInv(t)
    BY DEF BatchInv
  <2>2. /\ Numbered(t)' /\ Unsent(t)' = Unsent(t)
        /\ Continues(t) => Continues(t)'
    BY <2>1 DEF PendingInv, Numbered, Unsent, Continues
  <2> QED BY <2>1, <2>2 DEF PendingInv
<1> QED BY <1>1 DEF BatchInv, BatchesWhole

\* Every step keeps the batches whole.
LEMMA BatchStep ==
  ASSUME TypeOK, BatchInv, [Next]_vars
  PROVE  BatchInv'
<1> USE DEF channels, signals, emission, dispatcher, history
<1>1. ASSUME NEW t \in Thread, Begin(t) \/ Emit(t)
      PROVE  BatchInv'
  <2>1. CASE Begin(t)
    <3>1. pending[t] = <<>>
      BY <2>1 DEF Begin, BatchInv, PendingInv
    <3>2. PICK n \in 1..BatchSize : pending' = [pending EXCEPT ![t] = Batch(n)]
      BY <2>1 DEF Begin
    <3>3. PICK label \in {"batch_lock", "submit_lock"} : Goto(t, label)
      BY <2>1 DEF Begin
    <3>4. /\ batches < MaxBatches /\ batches' = batches + 1
          /\ UNCHANGED <<accepted, eventSubmitMu>>
      BY <2>1 DEF Begin
    <3> QED BY <3>1, <3>2, <3>3, <3>4, BeginBatch
  <2>2. CASE LockBatch(t)
    BY <2>2, SameBatches DEF LockBatch, Goto, TypeOK
  <2>3. CASE LockSubmit(t)
    <3>1. \A u \in Thread : pc[u] # "submit"
      BY <2>3, ThreadAssumption DEF LockSubmit, BatchInv, PendingInv
    <3> QED BY <2>3, <3>1, SameBatches DEF LockSubmit, Goto, TypeOK
  <2>4. CASE Submit(t)
    BY <2>4, SubmitBatch
  <2>5. CASE Return(t)
    BY <2>5, EndBatch
  <2> QED BY <1>1, <2>1, <2>2, <2>3, <2>4, <2>5 DEF Emit
<1>2. CASE ReadFails
  <2>1. pending[Run] = <<>> /\ Run \in Thread
    BY <1>2 DEF ReadFails, BatchInv, PendingInv, Thread
  <2>2. CASE Goto(Run, "stop") /\ UNCHANGED <<pending, batches>>
    BY <1>2, <2>1, <2>2, SameBatches DEF ReadFails, Goto, TypeOK
  <2>3. CASE /\ batches < MaxBatches /\ batches' = batches + 1
             /\ pending' = [pending EXCEPT ![Run] = Batch(1)]
             /\ Goto(Run, "submit_lock")
    <3>1. 1 \in 1..BatchSize
      BY BoundAssumption
    <3> QED BY <1>2, <2>1, <2>3, <3>1, BeginBatch DEF ReadFails
  <2> QED BY <1>2, <2>2, <2>3 DEF ReadFails
<1>3. CASE Close \/ Rejected \/ StopDispatcher \/ AwaitDispatcher
  <2>1. Run \in Thread
    BY DEF Thread
  <2> QED
    BY <1>3, <2>1, SameBatches
    DEF Close, Rejected, StopDispatcher, AwaitDispatcher, Goto, TypeOK
<1>4. CASE Dispatch \/ Receive
  BY <1>4, SameBatches
  DEF Dispatch, Take, Deliver, Halt, DeliverTerminal, Evict, CloseEvents,
      Receive
<1>5. CASE Terminated \/ UNCHANGED vars
  BY <1>5, SameBatches DEF Terminated, vars
<1> QED
  BY <1>1, <1>2, <1>3, <1>4, <1>5 DEF Next

\* emitBatch keeps the events of a batch together, whoever emits at the same
\* time.
THEOREM BatchesStayWhole == Spec => []BatchesWhole
<1>1. Init => BatchInv
  BY ThreadAssumption
  DEF Init, BatchInv, BatchesWhole, PendingInv, Numbered
<1>2. TypeOK /\ BatchInv /\ [Next]_vars => BatchInv'
  BY BatchStep
<1>3. BatchInv => BatchesWhole
  BY DEF BatchInv
<1> QED BY <1>1, <1>2, <1>3, TypeCorrect, PTL DEF Spec
-----------------------------------------------------------------------------
(* The contract of the feed *)

\* The events of one batch enter eventQueue in their order.
Ordered ==
  \A i, j \in DOMAIN accepted :
    i < j /\ accepted[i].batch = accepted[j].batch =>
      accepted[i].index < accepted[j].index

\* An event has one place in the feed.
OnePlace == \A i, j \in DOMAIN accepted : accepted[i] = accepted[j] => i = j

\* The dispatcher still moves events from eventQueue to events.
Flowing == dispatch \in {"select", "deliver"}

\* While it does, the consumer has the first events of the feed and the channel
\* holds those that follow.
FlowInv ==
  Flowing =>
    /\ Places = 1..Len(received)
    /\ \A i \in DOMAIN received : i \in DOMAIN accepted /\ received[i] = accepted[i]
    /\ \A i \in DOMAIN events :
         /\ Len(received) + i \in DOMAIN accepted
         /\ events[i] = accepted[Len(received) + i]

\* The consumer has come to place l of the feed, and the channel holds the
\* events behind place b: those between were evicted.
FeedAt(l, b) ==
  /\ l \in Places \cup {0} /\ l <= b
  /\ \A n \in Places : n <= l
  /\ Flowing => l = b
  /\ \A i \in DOMAIN events :
       events[i] # Terminal =>
         b + i \in DOMAIN accepted /\ events[i] = accepted[b + i]

\* The terminal event comes last, and the dispatcher adds nothing to it.
TerminalLast ==
  /\ \A i \in DOMAIN events :
       events[i] = Terminal => i = Len(events) /\ dispatch \in {"close", "done"}
  /\ \A i \in DOMAIN received :
       received[i] = Terminal => events = <<>> /\ dispatch \in {"close", "done"}

\* What the consumer received was sent.
Heard ==
  \A i \in DOMAIN received :
    received[i] = Terminal \/ \E n \in DOMAIN accepted : accepted[n] = received[i]

FeedInv ==
  /\ \E l, b \in Nat : FeedAt(l, b)
  /\ TerminalLast
  /\ Heard
  /\ ~Flowing => eventStop

StoppedInv == ~Flowing => FeedInv

\* The channels and histories are functions from 1 to their lengths.
LEMMA FeedTypes ==
  ASSUME TypeOK
  PROVE  /\ Len(accepted) \in Nat /\ DOMAIN accepted = 1..Len(accepted)
         /\ Len(events) \in Nat /\ DOMAIN events = 1..Len(events)
         /\ Len(received) \in Nat /\ DOMAIN received = 1..Len(received)
         /\ \A n \in DOMAIN accepted : accepted[n] \in Event
         /\ \A n \in DOMAIN accepted : accepted[n] # Terminal
         /\ Places \subseteq 1..Len(accepted)
<1>1. /\ Len(accepted) \in Nat /\ DOMAIN accepted = 1..Len(accepted)
      /\ Len(events) \in Nat /\ DOMAIN events = 1..Len(events)
      /\ Len(received) \in Nat /\ DOMAIN received = 1..Len(received)
      /\ \A n \in DOMAIN accepted : accepted[n] \in Event
  BY DEF TypeOK
<1>2. \A e \in Event : e # Terminal
  BY BoundAssumption DEF Event, Terminal
<1> QED BY <1>1, <1>2 DEF Places

\* The greatest place is the last one.
LEMMA LastPlace ==
  ASSUME NEW S \in SUBSET Nat, NEW l \in S \cup {0}, \A n \in S : n <= l
  PROVE  (CHOOSE n \in S \cup {0} : \A m \in S : m <= n) = l
<1> DEFINE c == CHOOSE n \in S \cup {0} : \A m \in S : m <= n
<1>1. c \in S \cup {0} /\ \A m \in S : m <= c
  OBVIOUS
<1> HIDE DEF c
<1>2. c \in Nat /\ l \in Nat
  BY <1>1
<1>3. c <= l /\ l <= c
  BY <1>1, <1>2
<1> QED BY <1>2, <1>3 DEF c

\* What eventQueue takes keeps the order of its batch.
LEMMA OrderedStep ==
  ASSUME TypeOK, BatchInv, Ordered, [Next]_vars
  PROVE  Ordered'
<1>1. ASSUME NEW t \in Thread, Submit(t)
      PROVE  Ordered'
  <2> DEFINE h == Head(pending[t])
             len == Len(accepted)
  <2>1. /\ h = pending[t][1] /\ h \in Event /\ pending[t] # <<>>
    BY <1>1, HeadTailProperties DEF Submit, TypeOK
  <2>2. /\ len \in Nat /\ DOMAIN accepted = 1..len
        /\ h.index \in Nat
        /\ \A i \in 1..len : accepted[i].index \in Nat
    BY <2>1, EventNumbers
  <2>3. /\ DOMAIN accepted' = 1..len + 1
        /\ \A i \in 1..len : accepted'[i] = accepted[i]
        /\ accepted'[len + 1] = h
    BY <1>1, <2>1, AppendProperties DEF Submit, TypeOK
  <2> HIDE DEF h, len
  <2>4. Unsent(t) \/ Continues(t)
    BY <2>1 DEF BatchInv, PendingInv
  <2>5. ASSUME NEW i \in 1..len, accepted[i].batch = h.batch
        PROVE  accepted[i].index < h.index
    <3>1. Continues(t)
      BY <2>1, <2>2, <2>4, <2>5 DEF Unsent
    <3>2. /\ accepted[len].batch = h.batch
          /\ h.index = accepted[len].index + 1
      BY <2>1, <3>1 DEF Continues, len
    <3>3. len \in 1..len
      BY <2>2
    <3>4. accepted[i].index <= accepted[len].index
      BY <2>2, <2>5, <3>2, <3>3 DEF Ordered
    <3> QED BY <2>2, <3>2, <3>3, <3>4
  <2> SUFFICES ASSUME NEW i \in 1..len + 1, NEW j \in 1..len + 1,
                      i < j, accepted'[i].batch = accepted'[j].batch
               PROVE  accepted'[i].index < accepted'[j].index
    BY <2>3 DEF Ordered
  <2>6. i \in 1..len
    BY <2>2
  <2>7. CASE j = len + 1
    BY <2>3, <2>5, <2>6, <2>7
  <2>8. CASE j # len + 1
    <3>1. j \in 1..len
      BY <2>2, <2>8
    <3> QED BY <2>2, <2>3, <2>6, <3>1 DEF Ordered
  <2> QED BY <2>7, <2>8
<1>2. ASSUME accepted' = accepted
      PROVE  Ordered'
  BY <1>2 DEF Ordered
<1> USE DEF channels, signals, emission, dispatcher, history
<1>3. ASSUME NEW t \in Thread, Begin(t) \/ Emit(t)
      PROVE  Ordered'
  BY <1>1, <1>2, <1>3
  DEF Begin, Emit, LockBatch, LockSubmit, Return, EndEmission
<1>4. CASE Close \/ ReadFails \/ Rejected \/ StopDispatcher \/ AwaitDispatcher
  BY <1>2, <1>4 DEF Close, ReadFails, Rejected, StopDispatcher, AwaitDispatcher
<1>5. CASE Dispatch \/ Receive
  BY <1>2, <1>5
  DEF Dispatch, Take, Deliver, Halt, DeliverTerminal, Evict, CloseEvents,
      Receive
<1>6. CASE Terminated \/ UNCHANGED vars
  BY <1>2, <1>6 DEF Terminated, vars
<1> QED BY <1>3, <1>4, <1>5, <1>6 DEF Next

\* An event that is numbered apart from the others has one place.
LEMMA OrderedOnce ==
  ASSUME TypeOK, Ordered
  PROVE  OnePlace
<1> SUFFICES ASSUME NEW i \in DOMAIN accepted, NEW j \in DOMAIN accepted,
                    accepted[i] = accepted[j], i # j
             PROVE  FALSE
  BY DEF OnePlace
<1>1. i \in Nat /\ j \in Nat /\ accepted[i].index \in Nat
  BY EventNumbers
<1>2. i < j \/ j < i
  BY <1>1
<1>3. accepted[i].index < accepted[i].index
  BY <1>2 DEF Ordered
<1> QED BY <1>1, <1>3

\* The line of events tells where the consumer and the channel are in the feed.
LEMMA FlowHolds ==
  ASSUME TypeOK, NothingLost, OnePlace
  PROVE  FlowInv
<1> SUFFICES ASSUME Flowing
             PROVE  /\ Places = 1..Len(received)
                    /\ \A i \in DOMAIN received :
                         i \in DOMAIN accepted /\ received[i] = accepted[i]
                    /\ \A i \in DOMAIN events :
                         /\ Len(received) + i \in DOMAIN accepted
                         /\ events[i] = accepted[Len(received) + i]
  BY DEF FlowInv
<1> DEFINE All == Event \cup {Terminal}
           there == received \o events
           before == there \o hand
<1>1. /\ eventQueue \in Seq(All) /\ hand \in Seq(All)
      /\ events \in Seq(All) /\ received \in Seq(All)
  <2>1. \A s \in Seq(Event) : s \in Seq(All)
    <3> HIDE DEF All
    <3>1. Event \subseteq All
      BY DEF All
    <3> QED BY <3>1
  <2> QED BY <2>1 DEF TypeOK
<1>2. accepted = before \o eventQueue
  BY DEF NothingLost, Flowing
<1> HIDE DEF All
<1>3. /\ there \in Seq(All)
      /\ Len(there) = Len(received) + Len(events)
      /\ \A i \in 1..Len(there) :
           there[i] = IF i <= Len(received) THEN received[i]
                                            ELSE events[i - Len(received)]
  <2>1. received \in Seq(All) /\ events \in Seq(All)
    BY <1>1
  <2>2. there = received \o events
    OBVIOUS
  <2> HIDE DEF there
  <2> QED BY <2>1, <2>2, Joined
<1> HIDE DEF there
<1>4. /\ before \in Seq(All)
      /\ Len(before) = Len(there) + Len(hand)
      /\ \A i \in 1..Len(before) :
           before[i] = IF i <= Len(there) THEN there[i] ELSE hand[i - Len(there)]
  <2>1. there \in Seq(All) /\ hand \in Seq(All)
    BY <1>1, <1>3
  <2>2. before = there \o hand
    OBVIOUS
  <2> HIDE DEF before
  <2> QED BY <2>1, <2>2, Joined
<1> HIDE DEF before
<1>5. /\ Len(accepted) = Len(before) + Len(eventQueue)
      /\ \A i \in 1..Len(accepted) :
           accepted[i] = IF i <= Len(before) THEN before[i]
                                             ELSE eventQueue[i - Len(before)]
  <2>1. before \in Seq(All) /\ eventQueue \in Seq(All)
    BY <1>1, <1>4
  <2> QED BY <1>2, <2>1, Joined
<1>6. /\ Len(received) \in Nat /\ Len(events) \in Nat /\ Len(hand) \in Nat
      /\ Len(eventQueue) \in Nat
      /\ DOMAIN received = 1..Len(received) /\ DOMAIN events = 1..Len(events)
      /\ DOMAIN accepted = 1..Len(accepted)
  BY <1>1, FeedTypes
<1>7. ASSUME NEW i \in 1..Len(there)
      PROVE  i \in DOMAIN accepted /\ accepted[i] = there[i]
  <2>1. i \in 1..Len(before) /\ i \in 1..Len(accepted) /\ i <= Len(there) /\ i <= Len(before)
    BY <1>3, <1>4, <1>5, <1>6
  <2> QED BY <1>4, <1>5, <1>6, <2>1
<1>8. ASSUME NEW i \in DOMAIN received
      PROVE  i \in DOMAIN accepted /\ received[i] = accepted[i]
  <2>1. i \in 1..Len(there) /\ i <= Len(received)
    BY <1>3, <1>6
  <2> QED BY <1>3, <1>7, <2>1
<1>9. ASSUME NEW i \in DOMAIN events
      PROVE  /\ Len(received) + i \in DOMAIN accepted
             /\ events[i] = accepted[Len(received) + i]
  <2>1. /\ Len(received) + i \in 1..Len(there)
        /\ ~(Len(received) + i <= Len(received))
        /\ (Len(received) + i) - Len(received) = i
    BY <1>3, <1>6
  <2>2. there[Len(received) + i] = events[i]
    BY <1>3, <2>1
  <2> QED BY <1>7, <2>1, <2>2
<1>10. Places = 1..Len(received)
  <2>1. ASSUME NEW n \in Places
        PROVE  n \in DOMAIN received
    <3>1. PICK i \in DOMAIN received : received[i] = accepted[n]
      BY DEF Places
    <3>2. i = n
      BY <1>8, <3>1 DEF OnePlace, Places
    <3> QED BY <3>2
  <2>2. ASSUME NEW n \in DOMAIN received
        PROVE  n \in Places
    BY <1>8 DEF Places
  <2> QED BY <1>6, <2>1, <2>2
<1> QED BY <1>8, <1>9, <1>10

\* Both phases together.
LEMMA FeedHolds ==
  ASSUME TypeOK, FlowInv, StoppedInv
  PROVE  FeedInv
<1> SUFFICES ASSUME Flowing
             PROVE  FeedInv
  BY DEF StoppedInv
<1>1. /\ Places = 1..Len(received)
      /\ \A i \in DOMAIN received : i \in DOMAIN accepted /\ received[i] = accepted[i]
      /\ \A i \in DOMAIN events :
           /\ Len(received) + i \in DOMAIN accepted
           /\ events[i] = accepted[Len(received) + i]
  BY DEF FlowInv
<1>2. FeedAt(Len(received), Len(received))
  BY <1>1, FeedTypes DEF FeedAt
<1>3. TerminalLast /\ Heard
  BY <1>1, FeedTypes DEF TerminalLast, Heard
<1>4. Len(received) \in Nat
  BY FeedTypes
<1> QED BY <1>2, <1>3, <1>4 DEF FeedInv

\* A new event changes nothing of what the consumer has got.
LEMMA SubmitPlaces ==
  ASSUME TypeOK, FeedInv, OnePlace', NEW t \in Thread, Submit(t)
  PROVE  /\ Head(pending[t]) \in Event
         /\ accepted' = Append(accepted, Head(pending[t]))
         /\ DOMAIN accepted' = 1..Len(accepted) + 1
         /\ \A n \in DOMAIN accepted : accepted'[n] = accepted[n]
         /\ Places' = Places
<1> DEFINE h == Head(pending[t])
           len == Len(accepted)
<1>1. h \in Event /\ accepted' = Append(accepted, h)
  BY HeadTailProperties DEF Submit, TypeOK
<1>2. len \in Nat /\ DOMAIN accepted = 1..len
  BY FeedTypes
<1>3. /\ DOMAIN accepted' = 1..len + 1
      /\ \A n \in 1..len : accepted'[n] = accepted[n]
      /\ accepted'[len + 1] = h
  BY <1>1, AppendProperties DEF TypeOK
<1>4. received' = received
  BY DEF Submit
<1> HIDE DEF h, len
<1>5. ASSUME NEW i \in DOMAIN received
      PROVE  received[i] # h
  <2>1. \A n \in 1..len : accepted[n] # h
    <3> SUFFICES ASSUME NEW n \in 1..len, accepted[n] = h PROVE FALSE
      OBVIOUS
    <3>1. n \in DOMAIN accepted' /\ len + 1 \in DOMAIN accepted' /\ n # len + 1
      BY <1>2, <1>3
    <3>2. accepted'[n] = accepted'[len + 1]
      BY <1>3
    <3> QED BY <3>1, <3>2 DEF OnePlace
  <2>2. h # Terminal
    BY <1>1, BoundAssumption DEF Event, Terminal
  <2> QED BY <1>2, <2>1, <2>2 DEF FeedInv, Heard
<1>6. ASSUME NEW n \in Places'
      PROVE  n \in Places
  <2>1. /\ n \in 1..len + 1
        /\ \E i \in DOMAIN received : received[i] = accepted'[n]
    BY <1>3, <1>4 DEF Places
  <2>2. n # len + 1
    BY <1>3, <1>5, <2>1
  <2>3. n \in 1..len
    BY <1>2, <2>1, <2>2
  <2> QED BY <1>2, <1>3, <2>1, <2>3 DEF Places
<1>7. ASSUME NEW n \in Places
      PROVE  n \in Places'
  <2>1. n \in 1..len /\ \E i \in DOMAIN received : received[i] = accepted[n]
    BY <1>2 DEF Places
  <2>2. n \in 1..len + 1
    BY <1>2, <2>1
  <2> QED BY <1>3, <1>4, <2>1, <2>2 DEF Places
<1> QED BY <1>1, <1>2, <1>3, <1>6, <1>7 DEF h, len

\* The consumer takes the event at the head of the channel.
LEMMA ReceiveChannel ==
  ASSUME TypeOK, Receive
  PROVE  /\ 1 \in DOMAIN events
         /\ received' = Append(received, events[1])
         /\ DOMAIN received' = 1..Len(received) + 1
         /\ \A i \in DOMAIN received : received'[i] = received[i]
         /\ received'[Len(received) + 1] = events[1]
         /\ Len(events') = Len(events) - 1
         /\ DOMAIN events' = 1..Len(events) - 1
         /\ \A i \in DOMAIN events' : events'[i] = events[i + 1]
<1> DEFINE All == Event \cup {Terminal}
<1>1. /\ events \in Seq(All) /\ received \in Seq(All) /\ events # <<>>
      /\ received' = Append(received, Head(events)) /\ events' = Tail(events)
  BY DEF TypeOK, Receive
<1> HIDE DEF All
<1>2. Head(events) = events[1] /\ Head(events) \in All /\ 1 \in DOMAIN events
  BY <1>1, HeadTailProperties
<1>3. /\ Tail(events) \in Seq(All)
      /\ Len(Tail(events)) = Len(events) - 1
      /\ \A i \in 1..Len(Tail(events)) : Tail(events)[i] = events[i + 1]
  BY <1>1, HeadTailProperties
<1>4. /\ Append(received, events[1]) \in Seq(All)
      /\ Len(Append(received, events[1])) = Len(received) + 1
      /\ \A i \in 1..Len(received) : Append(received, events[1])[i] = received[i]
      /\ Append(received, events[1])[Len(received) + 1] = events[1]
  BY <1>1, <1>2, AppendProperties
<1>5. /\ DOMAIN Tail(events) = 1..Len(events) - 1
      /\ DOMAIN Append(received, events[1]) = 1..Len(received) + 1
      /\ DOMAIN received = 1..Len(received)
  BY <1>1, <1>3, <1>4
<1> QED BY <1>1, <1>2, <1>3, <1>4, <1>5

\* An ordinary event that the consumer gets lies behind all it had.
LEMMA ReceivePlaces ==
  ASSUME TypeOK, OnePlace, Receive, NEW l \in Nat, NEW b \in Nat, FeedAt(l, b)
  PROVE  IF events[1] = Terminal
           THEN Places' = Places
           ELSE /\ b + 1 \in DOMAIN accepted /\ events[1] = accepted[b + 1]
                /\ Places' = Places \cup {b + 1}
<1>1. /\ 1 \in DOMAIN events
      /\ DOMAIN received' = 1..Len(received) + 1
      /\ \A i \in DOMAIN received : received'[i] = received[i]
      /\ received'[Len(received) + 1] = events[1]
  BY ReceiveChannel
<1>2. accepted' = accepted
  BY DEF Receive
<1>3. Len(received) \in Nat /\ DOMAIN received = 1..Len(received)
  BY FeedTypes
<1>4. \A n \in DOMAIN accepted :
        n \in Places' <=> n \in Places \/ accepted[n] = events[1]
  <2> SUFFICES ASSUME NEW n \in DOMAIN accepted
               PROVE  n \in Places' <=> n \in Places \/ accepted[n] = events[1]
    OBVIOUS
  <2>1. n \in Places' <=> \E i \in 1..Len(received) + 1 : received'[i] = accepted[n]
    BY <1>1, <1>2 DEF Places
  <2>2. n \in Places <=> \E i \in 1..Len(received) : received[i] = accepted[n]
    BY <1>3 DEF Places
  <2>3. 1..Len(received) + 1 = 1..Len(received) \cup {Len(received) + 1}
    BY <1>3
  <2> QED BY <1>1, <1>3, <2>1, <2>2, <2>3
<1>5. Places \subseteq DOMAIN accepted /\ Places' \subseteq DOMAIN accepted
  BY <1>2 DEF Places
<1>6. CASE events[1] = Terminal
  <2>1. \A n \in DOMAIN accepted : accepted[n] # events[1]
    BY <1>6, FeedTypes
  <2> QED BY <1>4, <1>5, <1>6, <2>1
<1>7. CASE events[1] # Terminal
  <2>1. b + 1 \in DOMAIN accepted /\ events[1] = accepted[b + 1]
    BY <1>1, <1>7 DEF FeedAt
  <2>2. \A n \in DOMAIN accepted : accepted[n] = events[1] <=> n = b + 1
    BY <2>1 DEF OnePlace
  <2> QED BY <1>4, <1>5, <1>7, <2>1, <2>2
<1> QED BY <1>6, <1>7

\* Where the consumer and the channel are after an event was received.
LEMMA ReceiveFeed ==
  ASSUME TypeOK, OnePlace, FlowInv, FeedInv, ~Flowing, Receive
  PROVE  FeedInv'
<1>1. PICK l \in Nat, b \in Nat : FeedAt(l, b)
  BY DEF FeedInv
<1>2. /\ 1 \in DOMAIN events
      /\ DOMAIN received' = 1..Len(received) + 1
      /\ \A i \in DOMAIN received : received'[i] = received[i]
      /\ received'[Len(received) + 1] = events[1]
      /\ Len(events') = Len(events) - 1
      /\ DOMAIN events' = 1..Len(events) - 1
      /\ \A i \in DOMAIN events' : events'[i] = events[i + 1]
  BY ReceiveChannel
<1>3. UNCHANGED <<accepted, dispatch, eventStop>>
  BY DEF Receive, signals, dispatcher
<1>4. /\ Len(events) \in Nat /\ DOMAIN events = 1..Len(events)
      /\ Len(received) \in Nat /\ DOMAIN received = 1..Len(received)
      /\ Places \subseteq Nat
  BY FeedTypes
<1>5. IF events[1] = Terminal
        THEN Places' = Places
        ELSE /\ b + 1 \in DOMAIN accepted /\ events[1] = accepted[b + 1]
             /\ Places' = Places \cup {b + 1}
  BY <1>1, ReceivePlaces
<1>6. ASSUME NEW i \in DOMAIN events'
      PROVE  i + 1 \in DOMAIN events /\ events'[i] = events[i + 1] /\ i \in Nat
  BY <1>2, <1>4
<1>7. \A i \in DOMAIN events :
        events[i] = Terminal => i = Len(events) /\ dispatch \in {"close", "done"}
  BY DEF FeedInv, TerminalLast
<1>8. \E m, c \in Nat : FeedAt(m, c)'
  <2>1. CASE events[1] = Terminal
    <3>1. DOMAIN events' = {}
      BY <1>2, <1>4, <1>7, <2>1
    <3>2. FeedAt(l, b)'
      BY <1>1, <1>3, <1>5, <2>1, <3>1 DEF FeedAt, Flowing
    <3> QED BY <3>2
  <2>2. CASE events[1] # Terminal
    <3> DEFINE m == b + 1
    <3>1. m \in Nat /\ Places' = Places \cup {m}
      BY <1>5, <2>2
    <3>2. \A n \in Places' : n <= m
      BY <1>1, <1>4, <3>1 DEF FeedAt
    <3>3. ASSUME NEW i \in DOMAIN events', events'[i] # Terminal
          PROVE  m + i \in DOMAIN accepted' /\ events'[i] = accepted'[m + i]
      <4>1. b + (i + 1) \in DOMAIN accepted /\ events[i + 1] = accepted[b + (i + 1)]
        BY <1>1, <1>6, <3>3 DEF FeedAt
      <4>2. b + (i + 1) = m + i
        BY <1>6
      <4> QED BY <1>3, <1>6, <4>1, <4>2
    <3> HIDE DEF m
    <3>4. FeedAt(m, m)'
      BY <1>3, <3>1, <3>2, <3>3 DEF FeedAt, Flowing
    <3> QED BY <3>1, <3>4
  <2> QED BY <2>1, <2>2
<1>9. TerminalLast'
  <2>1. ASSUME NEW i \in DOMAIN events', events'[i] = Terminal
        PROVE  i = Len(events') /\ dispatch' \in {"close", "done"}
    BY <1>2, <1>3, <1>4, <1>6, <1>7, <2>1
  <2>2. ASSUME NEW i \in DOMAIN received', received'[i] = Terminal
        PROVE  events' = <<>> /\ dispatch' \in {"close", "done"}
    <3>1. ~ i \in DOMAIN received
      BY <1>2, <2>2 DEF FeedInv, TerminalLast, Receive
    <3>2. events[1] = Terminal
      BY <1>2, <1>4, <2>2, <3>1
    <3>3. Len(events) = 1 /\ dispatch \in {"close", "done"}
      BY <1>2, <1>7, <3>2
    <3>4. events' \in Seq(Event \cup {Terminal})
      BY TypeStep DEF TypeOK, Next
    <3> QED BY <1>2, <1>3, <3>3, <3>4, EmptySeq
  <2> QED BY <2>1, <2>2 DEF TerminalLast
<1>10. Heard'
  <2> SUFFICES ASSUME NEW i \in DOMAIN received', received'[i] # Terminal
               PROVE  \E n \in DOMAIN accepted' : accepted'[n] = received'[i]
    BY DEF Heard
  <2>1. CASE i \in DOMAIN received
    BY <1>2, <1>3, <2>1 DEF FeedInv, Heard
  <2>2. CASE i \notin DOMAIN received
    <3>1. i = Len(received) + 1
      BY <1>2, <1>4, <2>2
    <3>2. b + 1 \in DOMAIN accepted /\ events[1] = accepted[b + 1]
      BY <1>2, <1>5, <3>1
    <3> QED BY <1>2, <1>3, <3>1, <3>2
  <2> QED BY <2>1, <2>2
<1> QED BY <1>3, <1>8, <1>9, <1>10 DEF FeedInv, Flowing

\* The dispatcher that stops appends the terminal event, and before it evicts
\* the oldest events only.
LEMMA StoppingFeed ==
  ASSUME TypeOK, FeedInv, DeliverTerminal \/ Evict
  PROVE  FeedInv'
<1>1. PICK l \in Nat, b \in Nat : FeedAt(l, b)
  BY DEF FeedInv
<1>2. /\ UNCHANGED <<accepted, received, eventStop>>
      /\ Places' = Places
  BY DEF DeliverTerminal, Evict, signals, history, Places
<1>3. /\ ~Flowing /\ ~Flowing' /\ eventStop'
      /\ Heard'
  BY <1>2 DEF FeedInv, Heard, Flowing, DeliverTerminal, Evict
<1>4. /\ \A i \in DOMAIN events : events[i] # Terminal
      /\ \A i \in DOMAIN received : received[i] # Terminal
  BY DEF FeedInv, TerminalLast, DeliverTerminal, Evict
<1>5. /\ Len(events) \in Nat /\ DOMAIN events = 1..Len(events)
      /\ Places \subseteq Nat
  BY FeedTypes
<1>6. CASE events' = events
  <2>1. FeedAt(l, b)'
    BY <1>1, <1>2, <1>3, <1>6 DEF FeedAt
  <2> QED BY <1>2, <1>3, <1>4, <1>6, <2>1 DEF FeedInv, TerminalLast
<1>7. CASE events' = Append(events, Terminal) /\ dispatch' = "close"
  <2>1. /\ DOMAIN events' = 1..Len(events) + 1 /\ Len(events') = Len(events) + 1
        /\ \A i \in DOMAIN events : events'[i] = events[i]
        /\ events'[Len(events) + 1] = Terminal
    BY <1>5, <1>7, AppendProperties DEF TypeOK
  <2>2. ASSUME NEW i \in DOMAIN events'
        PROVE  IF i = Len(events) + 1 THEN events'[i] = Terminal
               ELSE i \in DOMAIN events /\ events'[i] = events[i]
    BY <1>5, <2>1
  <2>3. FeedAt(l, b)'
    BY <1>1, <1>2, <1>3, <2>2 DEF FeedAt
  <2>4. TerminalLast'
    BY <1>2, <1>4, <1>7, <2>1, <2>2 DEF TerminalLast
  <2> QED BY <1>3, <2>3, <2>4 DEF FeedInv
<1>8. CASE events # <<>> /\ events' = Tail(events)
  <2>1. /\ DOMAIN events' = 1..Len(events) - 1
        /\ \A i \in DOMAIN events' : events'[i] = events[i + 1]
    BY <1>5, <1>8, HeadTailProperties DEF TypeOK
  <2>2. ASSUME NEW i \in DOMAIN events'
        PROVE  i + 1 \in DOMAIN events /\ events'[i] = events[i + 1] /\ i \in Nat
    BY <1>5, <2>1
  <2> DEFINE c == b + 1
  <2>3. c \in Nat /\ l <= c
    BY <1>1 DEF FeedAt
  <2>4. ASSUME NEW i \in DOMAIN events'
        PROVE  c + i \in DOMAIN accepted' /\ events'[i] = accepted'[c + i]
    <3>1. b + (i + 1) \in DOMAIN accepted /\ events[i + 1] = accepted[b + (i + 1)]
      BY <1>1, <1>4, <2>2 DEF FeedAt
    <3>2. b + (i + 1) = c + i
      BY <2>2
    <3> QED BY <1>2, <2>2, <3>1, <3>2
  <2> HIDE DEF c
  <2>5. FeedAt(l, c)'
    BY <1>1, <1>2, <1>3, <2>3, <2>4 DEF FeedAt
  <2>6. TerminalLast'
    BY <1>2, <1>4, <2>2 DEF TerminalLast
  <2> QED BY <1>3, <2>3, <2>5, <2>6 DEF FeedInv
<1> QED BY <1>6, <1>7, <1>8 DEF DeliverTerminal, Evict

\* Once the dispatcher stops, no step brings the feed out of order.
LEMMA StoppedStep ==
  ASSUME TypeOK, OnePlace, OnePlace', FlowInv, StoppedInv, [Next]_vars
  PROVE  StoppedInv'
<1> SUFFICES ASSUME ~Flowing' PROVE FeedInv'
  BY DEF StoppedInv
<1> USE DEF channels, signals, emission, dispatcher, history
<1>1. FeedInv
  BY FeedHolds
<1>2. ASSUME UNCHANGED <<accepted, received, events, dispatch>>,
             eventStop => eventStop'
      PROVE  FeedInv'
  <2>1. Places' = Places /\ Flowing' = Flowing
    BY <1>2 DEF Places, Flowing
  <2>2. PICK l \in Nat, b \in Nat : FeedAt(l, b)
    BY <1>1 DEF FeedInv
  <2>3. FeedAt(l, b)'
    BY <1>2, <2>1, <2>2 DEF FeedAt
  <2>4. TerminalLast' /\ Heard'
    BY <1>1, <1>2 DEF FeedInv, TerminalLast, Heard
  <2> QED BY <1>1, <1>2, <2>1, <2>3, <2>4 DEF FeedInv
<1>3. ASSUME NEW t \in Thread, Submit(t)
      PROVE  FeedInv'
  <2>1. /\ DOMAIN accepted' = 1..Len(accepted) + 1
        /\ \A n \in DOMAIN accepted : accepted'[n] = accepted[n]
        /\ Places' = Places
    BY <1>1, <1>3, SubmitPlaces
  <2>2. DOMAIN accepted \subseteq DOMAIN accepted'
    BY <2>1, FeedTypes
  <2>3. UNCHANGED <<received, events, dispatch, eventStop>>
    BY <1>3 DEF Submit
  <2>4. PICK l \in Nat, b \in Nat : FeedAt(l, b)
    BY <1>1 DEF FeedInv
  <2>5. FeedAt(l, b)'
    BY <2>1, <2>2, <2>3, <2>4 DEF FeedAt, Flowing
  <2>6. TerminalLast' /\ Heard'
    BY <1>1, <2>1, <2>2, <2>3 DEF FeedInv, TerminalLast, Heard
  <2> QED BY <1>1, <2>3, <2>5, <2>6 DEF FeedInv, Flowing
<1>4. ASSUME NEW t \in Thread, Begin(t) \/ Emit(t)
      PROVE  FeedInv'
  BY <1>2, <1>3, <1>4
  DEF Begin, Emit, LockBatch, LockSubmit, Return, EndEmission
<1>5. CASE Close \/ ReadFails \/ Rejected \/ StopDispatcher \/ AwaitDispatcher
  BY <1>2, <1>5 DEF Close, ReadFails, Rejected, StopDispatcher, AwaitDispatcher
<1>6. CASE Take \/ Deliver
  BY <1>6 DEF Take, Deliver, Flowing
<1>7. CASE Halt \/ CloseEvents
  <2>1. /\ UNCHANGED <<accepted, received, events, eventStop>>
        /\ Places' = Places /\ eventStop
    BY <1>1, <1>7 DEF Halt, CloseEvents, Places, FeedInv, Flowing
  <2>2. PICK l \in Nat, b \in Nat : FeedAt(l, b)
    BY <1>1 DEF FeedInv
  <2>3. FeedAt(l, b)'
    BY <2>1, <2>2 DEF FeedAt
  <2>4. TerminalLast' /\ Heard'
    BY <1>1, <1>7, <2>1 DEF FeedInv, TerminalLast, Heard, Halt, CloseEvents
  <2> QED BY <2>1, <2>3, <2>4 DEF FeedInv
<1>8. CASE DeliverTerminal \/ Evict
  BY <1>1, <1>8, StoppingFeed
<1>9. CASE Receive
  <2>1. ~Flowing
    BY <1>9 DEF Receive, Flowing
  <2> QED BY <1>1, <1>9, <2>1, ReceiveFeed
<1>10. CASE Terminated \/ UNCHANGED vars
  BY <1>2, <1>10 DEF Terminated, vars
<1> QED
  BY <1>4, <1>5, <1>6, <1>7, <1>8, <1>9, <1>10 DEF Next, Dispatch

\* The feed stays a feed, whether the dispatcher runs or stops.
LEMMA FeedCorrect == Spec => [](OnePlace /\ FlowInv /\ FeedInv)
<1>1. Init => BatchInv /\ Ordered /\ HandInv /\ NothingLost
  <2> SUFFICES ASSUME Init PROVE BatchInv /\ Ordered /\ HandInv /\ NothingLost
    OBVIOUS
  <2>1. BatchInv
    BY ThreadAssumption DEF Init, BatchInv, BatchesWhole, PendingInv, Numbered
  <2>2. <<>> \o <<>> = <<>>
    BY ConcatEmptySeq, EmptySeq
  <2> QED BY <2>1, <2>2 DEF Init, Ordered, HandInv, NothingLost
<1>2. TypeOK /\ BatchInv /\ Ordered /\ [Next]_vars => BatchInv' /\ Ordered'
  BY BatchStep, OrderedStep
<1>3. TypeOK /\ Ordered => OnePlace
  BY OrderedOnce
<1>4. TypeOK /\ NothingLost /\ OnePlace => FlowInv
  BY FlowHolds
<1>5. Init => StoppedInv
  BY DEF Init, StoppedInv, Flowing
<1>6. TypeOK /\ OnePlace /\ OnePlace' /\ FlowInv /\ StoppedInv /\ [Next]_vars
        => StoppedInv'
  BY StoppedStep
<1>7. TypeOK /\ FlowInv /\ StoppedInv => FeedInv
  BY FeedHolds
<1>8. Spec => [](TypeOK /\ OnePlace /\ FlowInv)
  BY <1>1, <1>2, <1>3, <1>4, TypeCorrect, NothingIsLost, PTL DEF Spec
<1> QED BY <1>5, <1>6, <1>7, <1>8, PTL DEF Spec

\* What the consumer sees of a step is a step of EventFeed, or nothing.
LEMMA FeedStep ==
  ASSUME TypeOK, OnePlace, OnePlace', FlowInv, FeedInv, [Next]_vars
  PROVE  [Feed!Next]_<<accepted, received, LastReceived, eventStop>>
<1> USE DEF channels, signals, emission, dispatcher, history
<1>1. ASSUME UNCHANGED <<accepted, received>>
      PROVE  LastReceived' = LastReceived
  BY <1>1 DEF LastReceived, Places
<1>2. ASSUME NEW t \in Thread, Submit(t)
      PROVE  Feed!Next
  <2>1. /\ Head(pending[t]) \in Event
        /\ accepted' = Append(accepted, Head(pending[t]))
        /\ Places' = Places
    BY <1>2, SubmitPlaces
  <2>2. UNCHANGED <<received, LastReceived, eventStop>>
    BY <1>2, <2>1 DEF LastReceived, Submit
  <2>3. Feed!Send(Head(pending[t]))
    BY <2>1, <2>2 DEF Feed!Send
  <2> QED BY <2>1, <2>3 DEF Feed!Next
<1>3. ASSUME NEW t \in Thread, Begin(t) \/ Emit(t)
      PROVE  [Feed!Next]_<<accepted, received, LastReceived, eventStop>>
  BY <1>1, <1>2, <1>3
  DEF Begin, Emit, LockBatch, LockSubmit, Return, EndEmission
<1>4. CASE StopDispatcher
  BY <1>1, <1>4 DEF StopDispatcher, Feed!Next, Feed!Stop
<1>5. CASE Close \/ ReadFails \/ Rejected \/ AwaitDispatcher
  BY <1>1, <1>5 DEF Close, ReadFails, Rejected, AwaitDispatcher
<1>6. CASE Dispatch
  BY <1>1, <1>6
  DEF Dispatch, Take, Deliver, Halt, DeliverTerminal, Evict, CloseEvents
<1>7. CASE Terminated \/ UNCHANGED vars
  BY <1>1, <1>7 DEF Terminated, vars
<1>8. CASE Receive
  <2>1. PICK l \in Nat, b \in Nat : FeedAt(l, b)
    BY DEF FeedInv
  <2>2. UNCHANGED <<accepted, eventStop>> /\ received' = Append(received, events[1])
    BY <1>8, ReceiveChannel DEF Receive
  <2>3. 1 \in DOMAIN events /\ Places \in SUBSET Nat
    BY <1>8, ReceiveChannel, FeedTypes
  <2>4. LastReceived = l
    BY <2>1, <2>3, LastPlace DEF LastReceived, FeedAt
  <2>5. ~Feed!Ended
    <3>1. events # <<>>
      BY <1>8 DEF Receive
    <3>2. received # <<>> => Len(received) \in DOMAIN received
      BY DEF TypeOK
    <3> QED BY <3>1, <3>2 DEF Feed!Ended, FeedInv, TerminalLast
  <2>6. IF events[1] = Terminal
          THEN Places' = Places
          ELSE /\ b + 1 \in DOMAIN accepted /\ events[1] = accepted[b + 1]
               /\ Places' = Places \cup {b + 1}
    BY <1>8, <2>1, ReceivePlaces
  <2>7. CASE events[1] = Terminal
    <3>1. eventStop
      BY <2>3, <2>7 DEF FeedInv, TerminalLast, Flowing
    <3>2. LastReceived' = LastReceived
      BY <2>6, <2>7 DEF LastReceived
    <3>3. Feed!GetTerminal
      BY <2>2, <2>5, <2>7, <3>1, <3>2 DEF Feed!GetTerminal
    <3> QED BY <3>3 DEF Feed!Next
  <2>8. CASE events[1] # Terminal
    <3> DEFINE m == b + 1
    <3>0. m \in Nat /\ Places' = Places \cup {m} /\ l <= b /\ b <= m
      BY <2>1, <2>6, <2>8 DEF FeedAt
    <3>1. \A n \in Places' : n <= m
      <4>1. \A n \in Places : n \in Nat /\ n <= l
        BY <2>1, <2>3 DEF FeedAt
      <4> HIDE DEF m
      <4> QED BY <3>0, <4>1
    <3>2. m \in Places' /\ Places' \in SUBSET Nat
      <4> HIDE DEF m
      <4> QED BY <2>3, <3>0
    <3>3. LastReceived' = b + 1
      <4>1. (CHOOSE n \in Places' \cup {0} : \A k \in Places' : k <= n) = b + 1
        BY <3>1, <3>2, LastPlace
      <4> QED BY <4>1 DEF LastReceived
    <3>4. IF eventStop THEN b + 1 > LastReceived ELSE b + 1 = LastReceived + 1
      BY <2>1, <2>4 DEF FeedAt, FeedInv
    <3>5. Feed!Get(b + 1)
      BY <2>2, <2>5, <2>6, <2>8, <3>3, <3>4 DEF Feed!Get
    <3> QED BY <2>6, <2>8, <3>5 DEF Feed!Next
  <2> QED BY <2>7, <2>8
<1> QED
  BY <1>3, <1>4, <1>5, <1>6, <1>7, <1>8 DEF Next

\* The client keeps the contract of EventFeed towards its consumer: the events
\* in the order of eventQueue, without a gap until the dispatcher stops, none
\* out of order while it evicts, and the terminal event last.
THEOREM FeedKept == Spec => KeepsFeed
<1>1. Init => Feed!Init
  <2> SUFFICES ASSUME Init PROVE Feed!Init
    OBVIOUS
  <2>1. Places = {}
    BY DEF Init, Places
  <2>2. LastReceived = 0
    BY <2>1, LastPlace DEF LastReceived
  <2> QED BY <2>2 DEF Init, Feed!Init
<1>2. TypeOK /\ OnePlace /\ OnePlace' /\ FlowInv /\ FeedInv /\ [Next]_vars
        => [Feed!Next]_<<accepted, received, LastReceived, eventStop>>
  BY FeedStep
<1> QED
  BY <1>1, <1>2, TypeCorrect, FeedCorrect, PTL
  DEF Spec, KeepsFeed, Feed!Spec, Feed!vars
=============================================================================
