--------------------------- MODULE RakNetConnProofs ---------------------------
(***************************************************************************)
(* Theorems about RakNetConn, for any number of writers and any sizes of   *)
(* the queues, the pending set and the resend limit.                       *)
(***************************************************************************)
EXTENDS RakNetConn, FiniteSetTheorems, SequenceTheorems, TLAPS

\* The message numbers below k whose frames belong to a stream.
OrderedBefore(k) == {j \in 1..(k - 1) : Ordered(outbound[j].reliability)}
SequencedBefore(k) == {j \in 1..(k - 1) : Sequenced(outbound[j].reliability)}

\* All of them.
OrderedAll == {j \in 1..Len(outbound) : Ordered(outbound[j].reliability)}
SequencedAll == {j \in 1..Len(outbound) : Sequenced(outbound[j].reliability)}

\* OutboundAccounted made inductive: what is written stays pending until it is
\* acknowledged even after the end, and the counters have counted their streams.
PromiseInv ==
  \A k \in 1..Len(outbound) :
    outbound[k].written /\ Reliable(outbound[k].reliability) =>
      attempts[k] > 0 \/ k \in acked

IndexInv ==
  /\ \A k \in 1..Len(outbound) :
       /\ Ordered(outbound[k].reliability) =>
            outbound[k].index = Cardinality(OrderedBefore(k))
       /\ Sequenced(outbound[k].reliability) =>
            outbound[k].index = Cardinality(SequencedBefore(k))
  /\ nextOrdered = Cardinality(OrderedAll)
  /\ nextSequenced = Cardinality(SequencedAll)

\* GoodbyeSent made inductive: whoever drains has said goodbye, whoever has
\* stopped has said goodbye or has a reason not to, and Close waits for the end.
Goodbye == \E k \in 1..Len(outbound) : outbound[k].kind = "disconnection"

Excused ==
  \/ terminalErr \/ faults > 0
  \/ \E k \in 1..Len(attempts) : attempts[k] > 0 /\ attempts[k] >= MaxResendAttempts

EndInv ==
  /\ net = "drain" => Goodbye
  /\ net = "stopped" /\ readySent => Goodbye \/ Excused
  /\ closer = "closed" => net = "stopped"

-----------------------------------------------------------------------------
(* Type correctness *)

\* The types in three parts.
TransportType ==
  /\ outbound \in Seq(OutboundFrame)
  /\ attempts \in Seq(0..MaxResendAttempts) /\ Len(attempts) = Len(outbound)
  /\ nextOrdered \in Nat /\ nextSequenced \in Nat
  /\ acked \subseteq 1..Len(outbound)

RunType ==
  /\ net \in {"start", "read", "handle", "select", "drain", "stopped"}
  /\ inbox \in Seq(Payload)
  /\ readySent \in BOOLEAN /\ readyTokens \in 0..1 /\ terminalErr \in BOOLEAN
  /\ recv \in 0..InboundQueueSize
  /\ datagrams \in 0..MaxDatagrams /\ faults \in 0..MaxFaults

CallerType ==
  /\ send \in Seq(Request) /\ Len(send) <= OutboundQueueSize
  /\ result \in [Writer -> Answer \cup {"none"}]
  /\ disconnect \in BOOLEAN
  /\ writers \in [Writer -> {"idle"} \cup Waiting \cup Returned]
  /\ cancelled \subseteq Writer
  /\ closer \in {"idle", "closing", "closed"}

\* The type invariant is the conjunction of its parts.
LEMMA TypeParts ==
  /\ TypeOK <=> TransportType /\ RunType /\ CallerType
  /\ TypeOK' <=> TransportType' /\ RunType' /\ CallerType'
<1>1. outbound \in Seq(OutboundFrame) => DOMAIN outbound = 1..Len(outbound)
  OBVIOUS
<1>2. outbound' \in Seq(OutboundFrame) => DOMAIN outbound' = 1..Len(outbound')
  OBVIOUS
<1> QED
  BY <1>1, <1>2 DEF TypeOK, TransportType, RunType, CallerType

\* What happens to the frames and their numbers in one step.
Grows == \E kind \in Kind, r \in Reliability, w \in Writer \cup {NoWriter},
            ok \in BOOLEAN : QueueFrame(kind, r, w, ok)
Shrinks == \E k \in Pending : Acknowledge(k)
Retries ==
  /\ \E due \in SUBSET {k \in Pending : attempts[k] < MaxResendAttempts} : Resend(due)
  /\ UNCHANGED <<outbound, nextOrdered, nextSequenced, acked>>

\* Every step is one of four in this respect.
LEMMA TransportCases ==
  ASSUME TypeOK, [Next]_vars
  PROVE  UNCHANGED transport \/ Grows \/ Shrinks \/ Retries
<1> USE DEF Kind, Reliability
<1>1. CASE Start \/ HandleAccepted \/ HandlePing \/ DrainPing
  BY <1>1 DEF Start, HandleAccepted, HandlePing, DrainPing, Grows
<1>2. CASE DeliverInterrupted \/ Leave
  BY <1>2 DEF DeliverInterrupted, Leave, GracefulDisconnect, Grows
<1>3. CASE Serve
  <2>1. Head(send) \in Request
    BY <1>3 DEF Serve, TypeOK
  <2>2. Head(send).writer \in Writer /\ Head(send).reliability \in Reliability
    BY <2>1 DEF Request
  <2>3. UNCHANGED transport
        \/ \E ok \in BOOLEAN :
             QueueFrame("app", Head(send).reliability, Head(send).writer, ok)
    BY <1>3 DEF Serve
  <2> QED
    BY <2>2, <2>3 DEF Grows
<1>4. CASE ReadAcks \/ DrainAcks
  BY <1>4 DEF ReadAcks, DrainAcks, Shrinks
<1>5. CASE Tick
  <2>1. UNCHANGED <<outbound, nextOrdered, nextSequenced, acked>>
    BY <1>5 DEF Tick
  <2>2. \/ UNCHANGED attempts
        \/ \E due \in SUBSET Pending :
             (\A k \in due : attempts[k] < MaxResendAttempts) /\ Resend(due)
    BY <1>5 DEF Tick
  <2>3. \A due \in SUBSET Pending : (\A k \in due : attempts[k] < MaxResendAttempts) =>
          due \in SUBSET {k \in Pending : attempts[k] < MaxResendAttempts}
    OBVIOUS
  <2> QED
    BY <2>1, <2>2, <2>3 DEF Retries, transport
<1>6. CASE DrainResend
  BY <1>6 DEF DrainResend, Retries
<1>7. CASE ReadPayloads \/ ReadGarbage \/ ReadNothing \/ HandleEnded \/ Deliver
           \/ HandleNothing \/ NothingToDo \/ DrainEnds \/ Read \/ Close \/ CloseReturns
  BY <1>7 DEF ReadPayloads, ReadGarbage, ReadNothing, HandleEnded, Deliver,
              HandleNothing, NothingToDo, DrainEnds, Read, Close, CloseReturns
<1>8. ASSUME NEW w \in Writer, Caller(w) PROVE UNCHANGED transport
  BY <1>8 DEF Caller, WriteChannel, Enqueue, TakeResult, GiveUp, CancelCaller
<1>9. CASE UNCHANGED vars
  BY <1>9 DEF vars
<1> QED
  BY <1>1, <1>2, <1>3, <1>4, <1>5, <1>6, <1>7, <1>8, <1>9 DEF Next, Run, Handle

\* The frame that is queued is the last, and has the next index of its stream.
LEMMA QueueFrameEffect ==
  ASSUME TransportType, NEW kind \in Kind, NEW r \in Reliability,
         NEW w \in Writer \cup {NoWriter}, NEW ok \in BOOLEAN, QueueFrame(kind, r, w, ok)
  PROVE  /\ Len(outbound') = Len(outbound) + 1
         /\ \A j \in 1..Len(outbound) : outbound'[j] = outbound[j]
                                       /\ attempts'[j] = attempts[j]
         /\ LET f == outbound'[Len(outbound) + 1]
            IN /\ f.kind = kind /\ f.reliability = r /\ f.written = ok
               /\ Ordered(r) => f.index = nextOrdered
               /\ Sequenced(r) => f.index = nextSequenced
         /\ attempts'[Len(outbound) + 1] = IF ok /\ Reliable(r) THEN 1 ELSE 0
         /\ UNCHANGED acked
         /\ TransportType'
<1> DEFINE f == [kind |-> kind, reliability |-> r, written |-> ok, writer |-> w,
                 index |-> IF Ordered(r) THEN nextOrdered
                           ELSE IF Sequenced(r) THEN nextSequenced ELSE 0]
           a == IF ok /\ Reliable(r) THEN 1 ELSE 0
<1>1. outbound' = Append(outbound, f) /\ attempts' = Append(attempts, a)
      /\ TakeIndex(r) /\ UNCHANGED acked
  BY DEF QueueFrame
<1>2. f \in OutboundFrame
  BY DEF OutboundFrame, TransportType
<1>3. a \in 0..MaxResendAttempts
  BY SizeAssumption
<1>4. ~(Ordered(r) /\ Sequenced(r))
  BY DEF Ordered, Sequenced
<1>5. f.kind = kind /\ f.reliability = r /\ f.written = ok
      /\ (Ordered(r) => f.index = nextOrdered) /\ (Sequenced(r) => f.index = nextSequenced)
  BY <1>4
<1> HIDE DEF f, a
<1>6. /\ outbound' \in Seq(OutboundFrame) /\ Len(outbound') = Len(outbound) + 1
      /\ \A j \in 1..Len(outbound) : outbound'[j] = outbound[j]
      /\ outbound'[Len(outbound) + 1] = f
  BY <1>1, <1>2 DEF TransportType
<1>7. /\ attempts' \in Seq(0..MaxResendAttempts) /\ Len(attempts') = Len(outbound) + 1
      /\ \A j \in 1..Len(outbound) : attempts'[j] = attempts[j]
      /\ attempts'[Len(outbound) + 1] = a
  BY <1>1, <1>3 DEF TransportType
<1>8. nextOrdered' \in Nat /\ nextSequenced' \in Nat
  BY <1>1 DEF TakeIndex, TransportType
<1>9. acked' \subseteq 1..Len(outbound')
  BY <1>1, <1>6 DEF TransportType
<1> QED
  BY <1>1, <1>5, <1>6, <1>7, <1>8, <1>9 DEF TransportType, a

\* An acknowledgement settles one frame.
LEMMA AcknowledgeEffect ==
  ASSUME TransportType, NEW k \in Pending, Acknowledge(k)
  PROVE  /\ UNCHANGED <<outbound, nextOrdered, nextSequenced>>
         /\ acked' = acked \cup {k} /\ k \in 1..Len(outbound)
         /\ \A j \in 1..Len(outbound) : j # k => attempts'[j] = attempts[j]
         /\ TransportType'
<1>1. k \in 1..Len(attempts) /\ 0 \in 0..MaxResendAttempts
  BY SizeAssumption DEF Pending, TransportType
<1>2. attempts' = [attempts EXCEPT ![k] = 0]
  BY DEF Acknowledge
<1>3. /\ attempts' \in Seq(0..MaxResendAttempts) /\ Len(attempts') = Len(attempts)
      /\ \A j \in 1..Len(outbound) : j # k => attempts'[j] = attempts[j]
  BY <1>1, <1>2 DEF TransportType
<1> QED
  BY <1>1, <1>3 DEF Acknowledge, TransportType

\* A resend keeps what is pending pending.
LEMMA RetriesEffect ==
  ASSUME TransportType, Retries
  PROVE  /\ \A j \in 1..Len(outbound) : attempts[j] > 0 => attempts'[j] > 0
         /\ TransportType'
<1>1. PICK due \in SUBSET {k \in Pending : attempts[k] < MaxResendAttempts} : Resend(due)
  BY DEF Retries
<1>2. attempts' = [k \in 1..Len(attempts) |->
                     IF k \in due THEN attempts[k] + 1 ELSE attempts[k]]
  BY <1>1 DEF Resend, TransportType
<1>range. \A k \in 1..Len(attempts) : attempts[k] \in 0..MaxResendAttempts
  <2>1. attempts \in Seq(0..MaxResendAttempts)
    BY DEF TransportType
  <2> QED
    BY <2>1, ElementOfSeq
<1>3. \A k \in 1..Len(attempts) :
        /\ attempts'[k] \in 0..MaxResendAttempts
        /\ attempts[k] > 0 => attempts'[k] > 0
  <2> SUFFICES ASSUME NEW k \in 1..Len(attempts)
               PROVE  /\ attempts'[k] \in 0..MaxResendAttempts
                      /\ attempts[k] > 0 => attempts'[k] > 0
    OBVIOUS
  <2>1. attempts[k] \in 0..MaxResendAttempts
    BY <1>range
  <2>2. k \in due => attempts[k] < MaxResendAttempts
    OBVIOUS
  <2> QED
    BY <1>2, <2>1, <2>2, SizeAssumption
<1>4. attempts' \in Seq(0..MaxResendAttempts) /\ Len(attempts') = Len(attempts)
  <2>1. Len(attempts) \in Nat
    BY DEF TransportType
  <2> QED
    BY <1>2, <1>3, <2>1
<1> QED
  BY <1>3, <1>4 DEF Retries, TransportType

\* Every step keeps the types of what was sent.
LEMMA TransportTypeStep ==
  ASSUME TypeOK, [Next]_vars
  PROVE  TransportType'
<1> TransportType
  BY TypeParts
<1>1. CASE UNCHANGED transport
  BY <1>1 DEF transport, TransportType
<1> QED
  BY <1>1, TransportCases, QueueFrameEffect, AcknowledgeEffect, RetriesEffect
     DEF Grows, Shrinks

\* A UDP write and a token for ready keep their counts.
LEMMA WriteType ==
  ASSUME RunType
  PROVE  /\ \A ok : Written(ok) => faults' \in 0..MaxFaults
         /\ TellReady \/ TellFailure => readyTokens' \in 0..1
         /\ Arrives => datagrams' \in 0..MaxDatagrams
         /\ \A kind, r, w, ok : QueueFrame(kind, r, w, ok) => faults' \in 0..MaxFaults
<1>1. \A ok : Written(ok) => faults' \in 0..MaxFaults
  BY BoundAssumption DEF Written, RunType
<1> QED
  BY <1>1, BoundAssumption
  DEF QueueFrame, TellReady, TellFailure, Arrives, RunType

\* What run does to its own state, by whatever it says goodbye with.
LEMMA GracefulType ==
  ASSUME RunType, GracefulDisconnect
  PROVE  net' \in {"drain", "stopped"} /\ inbox' = <<>> /\ faults' \in 0..MaxFaults
BY WriteType DEF GracefulDisconnect, Stop, RunType

\* Every step keeps the types of the network goroutine.
LEMMA RunTypeStep ==
  ASSUME TypeOK, [Next]_vars
  PROVE  RunType'
<1> RunType
  BY TypeParts
<1> <<>> \in Seq(Payload)
  OBVIOUS
<1> inbox # <<>> => Tail(inbox) \in Seq(Payload) /\ <<"app">> \o Tail(inbox) \in Seq(Payload)
  BY DEF RunType, Payload
<1> USE DEF bounds
<1>1. CASE Start \/ HandleAccepted \/ HandlePing \/ DrainPing
  BY <1>1, WriteType
  DEF Start, HandleAccepted, HandlePing, DrainPing, Next1, Stop,
                         status, RunType
<1>2. CASE DeliverInterrupted \/ Leave
  BY <1>2, GracefulType DEF DeliverInterrupted, Leave, status, RunType
<1>3. CASE Serve
  <2>1. faults' \in 0..MaxFaults
    BY <1>3, WriteType DEF Serve, RunType
  <2> QED
    BY <1>3, <2>1 DEF Serve, status, RunType
<1>4. CASE ReadAcks \/ DrainAcks
  BY <1>4 DEF ReadAcks, DrainAcks, status, RunType
<1>5. CASE Tick
  <2>1. faults' \in 0..MaxFaults /\ readyTokens' \in 0..1
    BY <1>5, WriteType DEF Tick, RunType
  <2>2. net' \in {"read", "stopped"} /\ inbox' \in Seq(Payload)
    BY <1>5 DEF Tick, Stop, RunType
  <2> QED
    BY <1>5, <2>1, <2>2 DEF Tick, RunType
<1>6. CASE DrainResend
  BY <1>6 DEF DrainResend, status, RunType
<1>7. CASE ReadPayloads
  <2>1. inbox' \in Seq(Payload)
    BY <1>7, BoundAssumption DEF ReadPayloads
  <2> QED
    BY <1>7, <2>1, WriteType DEF ReadPayloads, status, RunType
<1>8. CASE ReadGarbage \/ ReadNothing \/ HandleEnded \/ HandleNothing \/ NothingToDo
           \/ DrainEnds
  BY <1>8, WriteType DEF ReadGarbage, ReadNothing, HandleEnded, HandleNothing,
                         NothingToDo, DrainEnds, Stop, status, RunType
<1>9. CASE Deliver \/ Read
  <2>1. recv' \in 0..InboundQueueSize
    BY <1>9, SizeAssumption DEF Deliver, Read, RunType
  <2> QED
    BY <1>9, <2>1 DEF Deliver, Read, ToDeliver, Next1, status, RunType
<1>10. CASE Close \/ CloseReturns \/ \E w \in Writer : Caller(w)
  BY <1>10
  DEF Close, CloseReturns, Caller, WriteChannel, Enqueue, TakeResult, GiveUp,
               CancelCaller, status, RunType
<1>11. CASE UNCHANGED vars
  BY <1>11 DEF vars, status, RunType
<1> QED
  BY <1>1, <1>2, <1>3, <1>4, <1>5, <1>6, <1>7, <1>8, <1>9, <1>10, <1>11
     DEF Next, Run, Handle

\* Every step keeps the types of the callers and their channels.
LEMMA CallerTypeStep ==
  ASSUME TypeOK, [Next]_vars
  PROVE  CallerType'
<1> CallerType
  BY TypeParts
<1>1. CASE UNCHANGED <<send, result, callers>>
  BY <1>1 DEF callers, CallerType
<1>2. CASE Serve
  <2>1. send # <<>> /\ send' = Tail(send) /\ UNCHANGED callers
        /\ \E a \in Answer : result' = [result EXCEPT ![Head(send).writer] = a]
    BY <1>2 DEF Serve, Answer
  <2>2. send' \in Seq(Request) /\ Len(send') <= OutboundQueueSize
    BY <2>1, SizeAssumption DEF CallerType
  <2>3. result' \in [Writer -> Answer \cup {"none"}]
    BY <2>1 DEF CallerType
  <2> QED
    BY <2>1, <2>2, <2>3 DEF callers, CallerType
<1>3. CASE Close \/ CloseReturns
  BY <1>3 DEF Close, CloseReturns, CallerType
<1>4. ASSUME NEW w \in Writer, Caller(w) PROVE CallerType'
  <2>1. CASE WriteChannel(w) \/ GiveUp(w) \/ CancelCaller(w)
    BY <2>1
    DEF WriteChannel, GiveUp, CancelCaller, Goto, CallerType, Waiting, Returned
  <2>2. CASE TakeResult(w)
    <3>1. result[w] \in Answer
      BY <2>2 DEF TakeResult, CallerType
    <3> QED
      BY <2>2, <3>1 DEF TakeResult, Goto, CallerType, Returned
  <2>3. CASE Enqueue(w)
    <3>1. PICK r \in Reliability :
            send' = Append(send, [writer |-> w, reliability |-> r])
      BY <2>3 DEF Enqueue, Reliability
    <3>2. [writer |-> w, reliability |-> r] \in Request
      BY DEF Request
    <3>3. send' \in Seq(Request) /\ Len(send') = Len(send) + 1
      BY <3>1, <3>2 DEF CallerType
    <3>4. Len(send') <= OutboundQueueSize
      BY <2>3, <3>3, SizeAssumption DEF Enqueue, CallerType
    <3>5. writers' \in [Writer -> {"idle"} \cup Waiting \cup Returned]
      BY <2>3 DEF Enqueue, Goto, CallerType, Waiting
    <3> QED
      BY <2>3, <3>3, <3>4, <3>5 DEF Enqueue, CallerType
  <2> QED
    BY <1>4, <2>1, <2>2, <2>3 DEF Caller
<1> QED
  BY <1>1, <1>2, <1>3, <1>4
     DEF Next, Run, Handle, vars, Start, ReadAcks, ReadPayloads, ReadGarbage,
         ReadNothing,
         HandleAccepted, HandleEnded, HandlePing, Deliver, HandleNothing,
         DeliverInterrupted, Leave, Tick, NothingToDo, DrainAcks, DrainPing,
         DrainResend, DrainEnds, Read

\* Every step keeps the types.
LEMMA TypeStep == TypeOK /\ [Next]_vars => TypeOK'
BY TypeParts, TransportTypeStep, RunTypeStep, CallerTypeStep

-----------------------------------------------------------------------------
(* What is promised to the peer *)

\* No step drops a frame that is pending and not acknowledged.
LEMMA PromiseStep ==
  ASSUME TypeOK, PromiseInv, [Next]_vars
  PROVE  PromiseInv'
<1> TransportType
  BY TypeParts
<1>1. CASE UNCHANGED transport
  BY <1>1 DEF transport, PromiseInv
<1>2. CASE Grows
  <2>1. PICK kind \in Kind, r \in Reliability, w \in Writer \cup {NoWriter},
             ok \in BOOLEAN : QueueFrame(kind, r, w, ok)
    BY <1>2 DEF Grows
  <2>2. /\ Len(outbound') = Len(outbound) + 1 /\ UNCHANGED acked
        /\ \A j \in 1..Len(outbound) : outbound'[j] = outbound[j]
                                      /\ attempts'[j] = attempts[j]
        /\ outbound'[Len(outbound) + 1].reliability = r
        /\ outbound'[Len(outbound) + 1].written = ok
        /\ attempts'[Len(outbound) + 1] = IF ok /\ Reliable(r) THEN 1 ELSE 0
    BY <2>1, QueueFrameEffect
  <2> SUFFICES ASSUME NEW k \in 1..Len(outbound'),
                      outbound'[k].written, Reliable(outbound'[k].reliability)
               PROVE  attempts'[k] > 0 \/ k \in acked'
    BY DEF PromiseInv
  <2>3. k \in 1..Len(outbound) \/ k = Len(outbound) + 1
    BY <2>2 DEF TransportType
  <2> QED
    BY <2>2, <2>3 DEF PromiseInv
<1>3. CASE Shrinks
  BY <1>3, AcknowledgeEffect DEF Shrinks, PromiseInv
<1>4. CASE Retries
  BY <1>4, RetriesEffect DEF Retries, PromiseInv
<1> QED
  BY <1>1, <1>2, <1>3, <1>4, TransportCases

\* The sets that are counted are finite.
LEMMA StreamsFinite ==
  ASSUME TransportType
  PROVE  /\ IsFiniteSet(OrderedAll) /\ IsFiniteSet(SequencedAll)
         /\ Len(outbound) + 1 \notin OrderedAll \cup SequencedAll
<1>1. Len(outbound) \in Nat
  BY DEF TransportType
<1>2. IsFiniteSet(1..Len(outbound)) /\ Len(outbound) + 1 \notin 1..Len(outbound)
  BY <1>1, FS_Interval
<1>3. OrderedAll \subseteq 1..Len(outbound) /\ SequencedAll \subseteq 1..Len(outbound)
  BY DEF OrderedAll, SequencedAll
<1> QED
  BY <1>2, <1>3, FS_Subset

\* Every frame that is queued takes the next index of its stream.
LEMMA IndexStep ==
  ASSUME TypeOK, IndexInv, [Next]_vars
  PROVE  IndexInv'
<1> TransportType
  BY TypeParts
<1>1. CASE UNCHANGED <<outbound, nextOrdered, nextSequenced>>
  BY <1>1 DEF IndexInv, OrderedAll, SequencedAll, OrderedBefore, SequencedBefore
<1>2. CASE Grows
  <2>1. PICK kind \in Kind, r \in Reliability, w \in Writer \cup {NoWriter},
             ok \in BOOLEAN : QueueFrame(kind, r, w, ok)
    BY <1>2 DEF Grows
  <2> DEFINE n == Len(outbound)
  <2>2. /\ Len(outbound') = n + 1 /\ n \in Nat
        /\ \A j \in 1..n : outbound'[j] = outbound[j]
        /\ outbound'[n + 1].reliability = r
        /\ Ordered(r) => outbound'[n + 1].index = nextOrdered
        /\ Sequenced(r) => outbound'[n + 1].index = nextSequenced
    <3>1. Len(outbound) \in Nat
      BY DEF TransportType
    <3> QED
      BY <2>1, <3>1, QueueFrameEffect
  <2> HIDE DEF n
  <2>3. n = Len(outbound)
    BY DEF n
  <2>4. \A k \in 1..n : OrderedBefore(k)' = OrderedBefore(k)
                      /\ SequencedBefore(k)' = SequencedBefore(k)
    <3> SUFFICES ASSUME NEW k \in 1..n
                 PROVE  OrderedBefore(k)' = OrderedBefore(k)
                        /\ SequencedBefore(k)' = SequencedBefore(k)
      OBVIOUS
    <3>1. \A j \in 1..(k - 1) : j \in 1..n
      BY <2>2
    <3> QED
      BY <2>2, <3>1 DEF OrderedBefore, SequencedBefore
  <2>5. \A k : k = n + 1 => OrderedBefore(k)' = OrderedAll
                           /\ SequencedBefore(k)' = SequencedAll
    <3> SUFFICES ASSUME NEW k, k = n + 1
                 PROVE  OrderedBefore(k)' = OrderedAll /\ SequencedBefore(k)' = SequencedAll
      OBVIOUS
    <3>1. k - 1 = n
      BY <2>2
    <3> QED
      BY <2>2, <2>3, <3>1
      DEF OrderedBefore, SequencedBefore, OrderedAll, SequencedAll
  <2>6. /\ OrderedAll' = IF Ordered(r) THEN OrderedAll \cup {n + 1} ELSE OrderedAll
        /\ SequencedAll' = IF Sequenced(r) THEN SequencedAll \cup {n + 1} ELSE SequencedAll
    <3>1. 1..(n + 1) = (1..n) \cup {n + 1} /\ n + 1 \notin 1..n
      BY <2>2
    <3> QED
      BY <2>2, <2>3, <3>1 DEF OrderedAll, SequencedAll
  <2>7. /\ Cardinality(OrderedAll') =
             nextOrdered + (IF Ordered(r) THEN 1 ELSE 0)
        /\ Cardinality(SequencedAll') =
             nextSequenced + (IF Sequenced(r) THEN 1 ELSE 0)
    <3>1. nextOrdered = Cardinality(OrderedAll) /\ nextSequenced = Cardinality(SequencedAll)
          /\ nextOrdered \in Nat /\ nextSequenced \in Nat
      BY DEF IndexInv, TransportType
    <3>2. Cardinality(OrderedAll \cup {n + 1}) = nextOrdered + 1
          /\ Cardinality(SequencedAll \cup {n + 1}) = nextSequenced + 1
      BY <2>3, <3>1, StreamsFinite, FS_AddElement
    <3> QED
      BY <2>6, <3>1, <3>2
  <2>8. nextOrdered' = nextOrdered + (IF Ordered(r) THEN 1 ELSE 0)
        /\ nextSequenced' = nextSequenced + (IF Sequenced(r) THEN 1 ELSE 0)
    BY <2>1 DEF QueueFrame, TakeIndex
  <2>9. ASSUME NEW k \in 1..(n + 1)
        PROVE  /\ Ordered(outbound'[k].reliability) =>
                    outbound'[k].index = Cardinality(OrderedBefore(k)')
               /\ Sequenced(outbound'[k].reliability) =>
                    outbound'[k].index = Cardinality(SequencedBefore(k)')
    <3>1. CASE k \in 1..n
      BY <2>2, <2>3, <2>4, <3>1 DEF IndexInv
    <3>2. CASE k = n + 1
      BY <2>2, <2>5, <3>2 DEF IndexInv
    <3> QED
      BY <2>2, <3>1, <3>2
  <2> QED
    BY <2>2, <2>7, <2>8, <2>9 DEF IndexInv
<1> QED
  BY <1>1, <1>2, TransportCases, AcknowledgeEffect
  DEF Shrinks, Retries, transport

-----------------------------------------------------------------------------
(* The end of the connection *)

\* A frame that was queued stays queued.
LEMMA GoodbyeStays ==
  ASSUME TypeOK, [Next]_vars, Goodbye
  PROVE  Goodbye'
<1> TransportType
  BY TypeParts
<1>1. PICK k \in 1..Len(outbound) : outbound[k].kind = "disconnection"
  BY DEF Goodbye
<1>2. CASE Grows
  <2>1. Len(outbound') = Len(outbound) + 1
        /\ \A j \in 1..Len(outbound) : outbound'[j] = outbound[j]
    BY <1>2, QueueFrameEffect DEF Grows
  <2>2. k \in 1..Len(outbound') /\ outbound'[k] = outbound[k]
    BY <2>1 DEF TransportType
  <2> QED
    BY <1>1, <2>2 DEF Goodbye
<1>3. CASE UNCHANGED outbound
  BY <1>3 DEF Goodbye
<1> QED
  BY <1>2, <1>3, TransportCases, AcknowledgeEffect
  DEF Shrinks, Retries, transport

\* gracefulDisconnect queues the goodbye of an accepted connection.
LEMMA GracefulSaysGoodbye ==
  ASSUME TypeOK, GracefulDisconnect, readySent
  PROVE  Goodbye'
<1> TransportType
  BY TypeParts
<1>1. PICK ok \in BOOLEAN :
        QueueFrame("disconnection", "reliable_ordered", NoWriter, ok)
  BY DEF GracefulDisconnect
<1>2. Len(outbound') = Len(outbound) + 1
      /\ outbound'[Len(outbound) + 1].kind = "disconnection"
  BY <1>1, QueueFrameEffect DEF Kind, Reliability
<1>3. Len(outbound) + 1 \in 1..Len(outbound')
  BY <1>2 DEF TransportType
<1> QED
  BY <1>2, <1>3 DEF Goodbye

\* The steps that end run, or begin the drain, and what they leave behind.
LEMMA StopCases ==
  ASSUME TypeOK, EndInv, Run
  PROVE  /\ net # "stopped"
         /\ net' = "drain" => Goodbye'
         /\ net' = "stopped" /\ readySent' => Goodbye' \/ Excused'
<1> RunType /\ TransportType
  BY TypeParts
<1>1. CASE Start \/ ReadAcks \/ ReadPayloads \/ ReadNothing \/ HandlePing \/ Deliver
           \/ HandleNothing \/ Serve \/ NothingToDo
  BY <1>1
  DEF Start, ReadAcks, ReadPayloads, ReadNothing, HandlePing, Deliver,
      ToDeliver,
              HandleNothing, Serve, NothingToDo
<1>2. CASE ReadGarbage
  BY <1>2 DEF ReadGarbage, Stop
<1>3. CASE HandleAccepted
  BY <1>3 DEF HandleAccepted, Stop
<1>4. CASE HandleEnded
  BY <1>4 DEF HandleEnded, Stop, Excused
<1>5. CASE DeliverInterrupted \/ Leave
  <2>1. net # "stopped" /\ GracefulDisconnect /\ readySent' = readySent
    BY <1>5 DEF DeliverInterrupted, Leave, ToDeliver, status
  <2>2. ~readySent => net' = "stopped"
    BY <2>1 DEF GracefulDisconnect, Stop
  <2> QED
    BY <2>1, <2>2, GracefulSaysGoodbye
<1>6. CASE Tick
  <2>1. net = "select" /\ net' \in {"read", "stopped"}
    BY <1>6 DEF Tick, Stop
  <2>2. ASSUME net' = "stopped"
        PROVE  \/ faults' = faults + 1
               \/ /\ UNCHANGED attempts
                  /\ \E k \in Pending : attempts[k] >= MaxResendAttempts
    <3>1. PICK due \in SUBSET Pending :
            /\ UNCHANGED attempts
            /\ (\E k \in due : attempts[k] >= MaxResendAttempts) \/ Written(FALSE)
      BY <1>6, <2>2 DEF Tick
    <3> QED
      BY <3>1 DEF Written
  <2>3. net' = "stopped" => Excused'
    BY <2>2, BoundAssumption DEF Excused, Pending, RunType, TransportType
  <2> QED
    BY <2>1, <2>3
<1>7. CASE DrainAcks \/ DrainPing \/ DrainResend \/ DrainEnds
  <2>1. net = "drain" /\ net' \in {"drain", "stopped"}
    BY <1>7 DEF DrainAcks, DrainPing, DrainResend, DrainEnds, Stop
  <2>2. [Next]_vars
    BY DEF Next
  <2> QED
    BY <2>1, <2>2, GoodbyeStays DEF EndInv
<1> QED
  BY <1>1, <1>2, <1>3, <1>4, <1>5, <1>6, <1>7 DEF Run, Handle

\* The goroutine ends only after its goodbye, or with a reason.
LEMMA EndStep ==
  ASSUME TypeOK, EndInv, [Next]_vars
  PROVE  EndInv'
<1>1. CASE Run
  <2>1. closer' = closer
    BY <1>1
    DEF Run, Handle, callers, Start, ReadAcks, ReadPayloads, ReadGarbage,
                ReadNothing, HandleAccepted, HandleEnded, HandlePing, Deliver,
                HandleNothing, DeliverInterrupted, Leave, Serve, Tick, NothingToDo,
                DrainAcks, DrainPing, DrainResend, DrainEnds
  <2> QED
    BY <1>1, <2>1, StopCases DEF EndInv
<1>2. CASE /\ UNCHANGED <<net, status, transport, faults>>
           /\ UNCHANGED closer \/ closer' = "closing"
                \/ (closer' = "closed" /\ net = "stopped")
  BY <1>2 DEF EndInv, Goodbye, Excused, status, transport
<1> QED
  BY <1>1, <1>2
     DEF Next, vars, bounds, callers, Read, Close, CloseReturns, Caller,
         WriteChannel,
         Enqueue, TakeResult, GiveUp, CancelCaller

-----------------------------------------------------------------------------
(* The theorems *)

Inv == TypeOK /\ PromiseInv /\ IndexInv /\ EndInv

\* Nothing was sent, and nobody has closed the connection.
LEMMA InitInv == Init => Inv
<1> SUFFICES ASSUME Init PROVE Inv
  OBVIOUS
<1>sizes. /\ 0 \in 0..InboundQueueSize /\ 0 \in 0..MaxDatagrams /\ 0 \in 0..MaxFaults
         /\ 0 \in 0..1 /\ 0 <= OutboundQueueSize
  BY SizeAssumption, BoundAssumption
<1>1. TransportType
  <2>1. outbound = <<>> /\ attempts = <<>> /\ acked = {}
        /\ nextOrdered = 0 /\ nextSequenced = 0
    BY DEF Init
  <2>2. outbound \in Seq(OutboundFrame) /\ attempts \in Seq(0..MaxResendAttempts)
    BY <2>1
  <2> QED
    BY <2>1, <2>2 DEF TransportType
<1>2. RunType
  <2>1. net = "start" /\ inbox = <<>> /\ readySent = FALSE /\ readyTokens = 0
        /\ terminalErr = FALSE /\ recv = 0 /\ datagrams = 0 /\ faults = 0
    BY DEF Init
  <2>2. inbox \in Seq(Payload)
    BY <2>1
  <2> QED
    BY <1>sizes, <2>1, <2>2 DEF RunType
<1>3. CallerType
  <2>1. send = <<>> /\ result = [w \in Writer |-> "none"] /\ disconnect = FALSE
        /\ writers = [w \in Writer |-> "idle"] /\ cancelled = {} /\ closer = "idle"
    BY DEF Init
  <2>2. send \in Seq(Request) /\ Len(send) = 0
    BY <2>1
  <2> QED
    BY <1>sizes, <2>1, <2>2 DEF CallerType
<1> USE DEF Init
<1>4. PromiseInv
  BY DEF PromiseInv
<1>5. IndexInv
  <2>1. OrderedAll = {} /\ SequencedAll = {} /\ Len(outbound) = 0
    BY DEF OrderedAll, SequencedAll
  <2> QED
    BY <2>1, FS_EmptySet DEF IndexInv
<1>6. EndInv
  BY DEF EndInv
<1> QED
  BY <1>1, <1>2, <1>3, <1>4, <1>5, <1>6, TypeParts DEF Inv

\* What the network goroutine keeps in every state: its promises to the peer, the
\* counters of its streams, and the goodbye of a connection that ends.
THEOREM ConnCorrect == Spec => []Inv
<1>1. Inv /\ [Next]_vars => Inv'
  BY TypeStep, PromiseStep, IndexStep, EndStep DEF Inv
<1> QED
  BY <1>1, InitInv, PTL DEF Spec

\* Every variable keeps its type; in particular no frame is sent more often than
\* the limit, and no queue holds more than its capacity.
THEOREM TypeCorrect == Spec => []TypeOK
<1>1. Inv => TypeOK
  BY DEF Inv
<1> QED
  BY <1>1, ConnCorrect, PTL

\* No reliable frame that was written is forgotten before it is acknowledged, and
\* each kind of stream numbers its frames without a gap or a repetition.
THEOREM Accounted == Spec => []OutboundAccounted
<1>1. Inv => OutboundAccounted
  <2> SUFFICES ASSUME Inv, NEW k \in DOMAIN outbound
               PROVE  /\ outbound[k].written /\ Reliable(outbound[k].reliability)
                            /\ net # "stopped" => k \in Pending \cup acked
                      /\ Ordered(outbound[k].reliability) =>
                            outbound[k].index = Before(k, Ordered)
                      /\ Sequenced(outbound[k].reliability) =>
                            outbound[k].index = Before(k, Sequenced)
    BY DEF OutboundAccounted
  <2>1. k \in 1..Len(outbound) /\ k \in DOMAIN attempts
    BY DEF Inv, TypeOK
  <2>2. Before(k, Ordered) = Cardinality(OrderedBefore(k))
        /\ Before(k, Sequenced) = Cardinality(SequencedBefore(k))
    BY DEF Before, OrderedBefore, SequencedBefore
  <2> QED
    BY <2>1, <2>2 DEF Inv, PromiseInv, IndexInv, Pending
<1> QED
  BY <1>1, ConnCorrect, PTL

\* Once Close has returned, an accepted connection has told the server, or the
\* server ended it first, or the network failed.
THEOREM GoodbyeTold == Spec => []GoodbyeSent
<1>1. Inv => GoodbyeSent
  <2> SUFFICES ASSUME Inv, closer = "closed", readySent
               PROVE  \/ \E k \in DOMAIN outbound : outbound[k].kind = "disconnection"
                      \/ terminalErr \/ faults > 0
                      \/ \E k \in Pending : attempts[k] >= MaxResendAttempts
    BY DEF GoodbyeSent
  <2>1. Goodbye \/ Excused
    BY DEF Inv, EndInv
  <2>2. DOMAIN outbound = 1..Len(outbound) /\ DOMAIN attempts = 1..Len(attempts)
    BY DEF Inv, TypeOK
  <2> QED
    BY <2>1, <2>2 DEF Goodbye, Excused, Pending
<1> QED
  BY <1>1, ConnCorrect, PTL
=============================================================================
