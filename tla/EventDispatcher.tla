--------------------------- MODULE EventDispatcher ---------------------------
(***************************************************************************)
(* The way of an event from the goroutines of samp.Client to the consumer  *)
(* of Client.Events(), and the shutdown of that way:                       *)
(*   Emitter   goroutines that emit (API calls, ticks, workers)            *)
(*   Run       the decoder, which emits too and shuts everything down      *)
(*   dispatchEvents, between the two channels eventQueue and events        *)
(*   the consumer, which may stop reading at any time                      *)
(*                                                                         *)
(* An emission takes eventBatchMu (a decoded RPC, a state event) or not (a *)
(* sync packet, a movement event), then eventSubmitMu, and holds both      *)
(* while it waits for room in eventQueue.  A select with several ready     *)
(* cases takes any of them.                                                *)
(***************************************************************************)
EXTENDS Naturals, Sequences

CONSTANTS
  Emitter, Run,   \* the goroutines
  Nobody,         \* the owner of a free mutex
  QueueSize,      \* capacity of eventQueue, 256 in the code
  EventsSize,     \* capacity of events, 256 in the code
  MaxBatches,     \* bound: batches emitted in all
  BatchSize       \* bound: events of one batch

Thread == Emitter \cup {Run}

ASSUME ThreadAssumption == Run \notin Emitter /\ Nobody \notin Thread
ASSUME SizeAssumption == QueueSize \in Nat \ {0} /\ EventsSize \in Nat \ {0}
ASSUME BoundAssumption == MaxBatches \in Nat /\ BatchSize \in Nat \ {0}

VARIABLES
  eventQueue, events,      \* the channels, as sequences
  eventsClosed,            \* events is closed
  eventStop,               \* the channel eventStop is closed
  eventTerminal,           \* the terminal event is set
  ctxDone,                 \* Client.ctx is cancelled
  eventBatchMu, eventSubmitMu,
  pc,                      \* where each goroutine is
  pending,                 \* what is left of the batch it emits
  leaving,                 \* Run has left its read loop
  dispatch, hand,          \* the dispatcher: where it is, its local event
  batches,                 \* batches begun so far, the name of the next one
  accepted, received       \* history: what eventQueue took, the consumer got

channels   == <<eventQueue, events, eventsClosed>>
signals    == <<eventStop, eventTerminal, ctxDone>>
emission   == <<eventBatchMu, eventSubmitMu, pc, pending, leaving, batches>>
dispatcher == <<dispatch, hand>>
history    == <<accepted, received>>
vars == <<channels, signals, emission, dispatcher, history>>

\* An event is its batch and its place in it.
Event == [batch : 1..MaxBatches, index : 1..BatchSize]

\* EventDisconnected
Terminal == [batch |-> 0, index |-> 0]

Label == {"idle", "batch_lock", "submit_lock", "submit", "stop", "await",
          "stopped"}

TypeOK ==
  /\ eventQueue \in Seq(Event)
  /\ events \in Seq(Event \cup {Terminal})
  /\ eventsClosed \in BOOLEAN
  /\ eventStop \in BOOLEAN /\ eventTerminal \in BOOLEAN /\ ctxDone \in BOOLEAN
  /\ eventBatchMu \in Thread \cup {Nobody}
  /\ eventSubmitMu \in Thread \cup {Nobody}
  /\ pc \in [Thread -> Label]
  /\ pending \in [Thread -> Seq(Event)]
  /\ leaving \in BOOLEAN
  /\ dispatch \in {"select", "deliver", "terminal", "evict", "close", "done"}
  /\ hand \in Seq(Event)
  /\ batches \in 0..MaxBatches
  /\ accepted \in Seq(Event)
  /\ received \in Seq(Event \cup {Terminal})

Init ==
  /\ eventQueue = <<>> /\ events = <<>> /\ eventsClosed = FALSE
  /\ eventStop = FALSE /\ eventTerminal = FALSE /\ ctxDone = FALSE
  /\ eventBatchMu = Nobody /\ eventSubmitMu = Nobody
  /\ pc = [t \in Thread |-> "idle"]
  /\ pending = [t \in Thread |-> <<>>]
  /\ leaving = FALSE
  /\ dispatch = "select" /\ hand = <<>>
  /\ batches = 0
  /\ accepted = <<>> /\ received = <<>>

Goto(t, label) == pc' = [pc EXCEPT ![t] = label]

-----------------------------------------------------------------------------
\* emitBatch

\* The next batch, of n events.
Batch(n) == [i \in 1..n |-> [batch |-> batches + 1, index |-> i]]

\* A goroutine emits a batch, with eventBatchMu or without.
Begin(t) ==
  /\ pc[t] = "idle" /\ batches < MaxBatches
  /\ \E n \in 1..BatchSize : pending' = [pending EXCEPT ![t] = Batch(n)]
  /\ batches' = batches + 1
  /\ \E label \in {"batch_lock", "submit_lock"} : Goto(t, label)
  /\ UNCHANGED <<channels, signals, eventBatchMu, eventSubmitMu, leaving,
                 dispatcher, history>>

LockBatch(t) ==
  /\ pc[t] = "batch_lock" /\ eventBatchMu = Nobody
  /\ eventBatchMu' = t
  /\ Goto(t, "submit_lock")
  /\ UNCHANGED <<channels, signals, eventSubmitMu, pending, leaving, batches,
                 dispatcher, history>>

\* Mutant of LockSubmit: batches are submitted side by side.
DoNotLockSubmit(t) ==
  /\ pc[t] = "submit_lock"
  /\ Goto(t, "submit")
  /\ UNCHANGED <<channels, signals, eventBatchMu, eventSubmitMu, pending,
                 leaving, batches, dispatcher, history>>

LockSubmit(t) ==
  /\ pc[t] = "submit_lock" /\ eventSubmitMu = Nobody
  /\ eventSubmitMu' = t
  /\ Goto(t, "submit")
  /\ UNCHANGED <<channels, signals, eventBatchMu, pending, leaving, batches,
                 dispatcher, history>>

\* case c.eventQueue <- event
Submit(t) ==
  /\ pc[t] = "submit" /\ pending[t] # <<>>
  /\ Len(eventQueue) < QueueSize
  /\ eventQueue' = Append(eventQueue, Head(pending[t]))
  /\ accepted' = Append(accepted, Head(pending[t]))
  /\ pending' = [pending EXCEPT ![t] = Tail(@)]
  /\ UNCHANGED <<events, eventsClosed, signals, eventBatchMu, eventSubmitMu, pc,
                 leaving, batches, dispatcher, received>>

\* emitBatch and its caller unlock.  Run goes on reading, unless this was the
\* movement event of its last moments.
EndEmission(t) ==
  /\ eventSubmitMu' = Nobody
  /\ eventBatchMu' = IF eventBatchMu = t THEN Nobody ELSE eventBatchMu
  /\ pending' = [pending EXCEPT ![t] = <<>>]
  /\ Goto(t, IF t = Run /\ leaving THEN "stop" ELSE "idle")
  /\ UNCHANGED <<channels, signals, leaving, batches, dispatcher, history>>

\* Mutant of Return: a cancelled client goes on waiting for room.
ReturnAtTheEnd(t) ==
  /\ pc[t] = "submit"
  /\ pending[t] = <<>> \/ eventStop
  /\ EndEmission(t)

\* The batch is submitted, or given up: the dispatcher stops, or the client is
\* cancelled.
Return(t) ==
  /\ pc[t] = "submit"
  /\ pending[t] = <<>> \/ eventStop \/ ctxDone
  /\ EndEmission(t)

-----------------------------------------------------------------------------
\* Shutdown: by Close, or by Run when Read fails or the server rejects it.

Close ==
  /\ ~ctxDone
  /\ ctxDone' = TRUE
  /\ UNCHANGED <<channels, eventStop, eventTerminal, emission, dispatcher,
                 history>>

\* Mutant of ReadFails: the terminal event is emitted like the others.
ReadFailsEmittingTerminal ==
  /\ pc[Run] = "idle"
  /\ ctxDone' = TRUE
  /\ leaving' = TRUE
  /\ pending' = [pending EXCEPT ![Run] = <<Terminal>>]
  /\ Goto(Run, "submit_lock")
  /\ UNCHANGED <<channels, eventStop, eventTerminal, eventBatchMu,
                 eventSubmitMu, batches, dispatcher, history>>

\* Read fails: cancel, then StopMovement, which emits if a movement is active.
ReadFails ==
  /\ pc[Run] = "idle"
  /\ ctxDone' = TRUE
  /\ leaving' = TRUE
  /\ \/ Goto(Run, "stop") /\ UNCHANGED <<pending, batches>>
     \/ /\ batches < MaxBatches
        /\ pending' = [pending EXCEPT ![Run] = Batch(1)]
        /\ batches' = batches + 1
        /\ Goto(Run, "submit_lock")
  /\ UNCHANGED <<channels, eventStop, eventTerminal, eventBatchMu,
                 eventSubmitMu, dispatcher, history>>

\* failConnection, after the handler of the rejection let go of eventBatchMu.
Rejected ==
  /\ pc[Run] = "idle" /\ eventBatchMu = Nobody
  /\ ctxDone' = TRUE
  /\ leaving' = TRUE
  /\ Goto(Run, "stop")
  /\ UNCHANGED <<channels, eventStop, eventTerminal, eventBatchMu,
                 eventSubmitMu, pending, batches, dispatcher, history>>

\* stopEventDispatcher
StopDispatcher ==
  /\ pc[Run] = "stop"
  /\ eventTerminal' = TRUE
  /\ eventStop' = TRUE
  /\ Goto(Run, "await")
  /\ UNCHANGED <<channels, ctxDone, eventBatchMu, eventSubmitMu, pending,
                 leaving, batches, dispatcher, history>>

\* Mutant of AwaitDispatcher: the end of the dispatcher is not awaited.
DoNotAwaitDispatcher ==
  /\ pc[Run] = "await"
  /\ Goto(Run, "stopped")
  /\ UNCHANGED <<channels, signals, eventBatchMu, eventSubmitMu, pending,
                 leaving, batches, dispatcher, history>>

AwaitDispatcher ==
  /\ pc[Run] = "await" /\ dispatch = "done"
  /\ Goto(Run, "stopped")
  /\ UNCHANGED <<channels, signals, eventBatchMu, eventSubmitMu, pending,
                 leaving, batches, dispatcher, history>>

-----------------------------------------------------------------------------
\* dispatchEvents

Take ==
  /\ dispatch = "select" /\ eventQueue # <<>>
  /\ hand' = <<Head(eventQueue)>>
  /\ eventQueue' = Tail(eventQueue)
  /\ dispatch' = "deliver"
  /\ UNCHANGED <<events, eventsClosed, signals, emission, history>>

\* Mutant of Deliver: an event is dropped when the consumer is slow.
DeliverOrDrop ==
  /\ dispatch = "deliver"
  /\ events' = IF Len(events) < EventsSize THEN events \o hand ELSE events
  /\ hand' = <<>>
  /\ dispatch' = "select"
  /\ UNCHANGED <<eventQueue, eventsClosed, signals, emission, history>>

Deliver ==
  /\ dispatch = "deliver" /\ Len(events) < EventsSize
  /\ events' = events \o hand
  /\ hand' = <<>>
  /\ dispatch' = "select"
  /\ UNCHANGED <<eventQueue, eventsClosed, signals, emission, history>>

\* The signal to stop interrupts both waits.
Halt ==
  /\ dispatch \in {"select", "deliver"} /\ eventStop
  /\ hand' = <<>>
  /\ dispatch' = IF eventTerminal THEN "terminal" ELSE "close"
  /\ UNCHANGED <<channels, signals, emission, history>>

\* deliverTerminal: when the buffer is full, evict the oldest event and retry;
\* when it is found empty by then, give up.
DeliverTerminal ==
  /\ dispatch = "terminal"
  /\ IF Len(events) < EventsSize
       THEN events' = Append(events, Terminal) /\ dispatch' = "close"
       ELSE dispatch' = "evict" /\ UNCHANGED events
  /\ UNCHANGED <<eventQueue, eventsClosed, signals, emission, hand, history>>

\* Mutant of Evict: the evicted event is put back, behind the others.
EvictToTheEnd ==
  /\ dispatch = "evict"
  /\ IF events # <<>>
       THEN /\ events' = Append(Tail(events), Head(events))
            /\ dispatch' = "close"
       ELSE dispatch' = "close" /\ UNCHANGED events
  /\ UNCHANGED <<eventQueue, eventsClosed, signals, emission, hand, history>>

Evict ==
  /\ dispatch = "evict"
  /\ IF events # <<>>
       THEN events' = Tail(events) /\ dispatch' = "terminal"
       ELSE dispatch' = "close" /\ UNCHANGED events
  /\ UNCHANGED <<eventQueue, eventsClosed, signals, emission, hand, history>>

CloseEvents ==
  /\ dispatch = "close"
  /\ eventsClosed' = TRUE
  /\ dispatch' = "done"
  /\ UNCHANGED <<eventQueue, events, signals, emission, hand, history>>

\* The consumer ranges over events.
Receive ==
  /\ events # <<>>
  /\ received' = Append(received, Head(events))
  /\ events' = Tail(events)
  /\ UNCHANGED <<eventQueue, eventsClosed, signals, emission, dispatcher,
                 accepted>>

-----------------------------------------------------------------------------
Emit(t) == LockBatch(t) \/ LockSubmit(t) \/ Submit(t) \/ Return(t)

Dispatch == Take \/ Deliver \/ Halt \/ DeliverTerminal \/ Evict \/ CloseEvents

Terminated ==
  /\ pc[Run] = "stopped"
  /\ \A t \in Emitter : pc[t] = "idle"
  /\ UNCHANGED vars

Next ==
  \/ \E t \in Thread : Begin(t) \/ Emit(t)
  \/ Close \/ ReadFails \/ Rejected
  \/ StopDispatcher \/ AwaitDispatcher
  \/ Dispatch
  \/ Receive
  \/ Terminated

Spec == Init /\ [][Next]_vars

\* A goroutine inside emitBatch goes on and obtains its mutexes, a cancelled
\* Read returns, and the dispatcher runs.  Nothing is assumed of the consumer.
Fairness ==
  /\ \A t \in Thread : SF_vars(Emit(t))
  /\ SF_vars(ctxDone /\ ReadFails)
  /\ WF_vars(StopDispatcher) /\ WF_vars(AwaitDispatcher)
  /\ WF_vars(Dispatch) /\ SF_vars(Halt)

FairSpec == Spec /\ Fairness

-----------------------------------------------------------------------------
\* Until the dispatcher stops, every event that eventQueue took is on its way,
\* in order: nothing is lost, duplicated or overtaken between the channels.
NothingLost ==
  dispatch \in {"select", "deliver"} =>
    accepted = received \o events \o hand \o eventQueue

\* The events of a batch are neighbours in the feed, in their order
\* (eventSubmitMu): observers see a death and its state event side by side.
BatchesWhole ==
  \A i \in 1..Len(accepted) - 1 :
    LET a == accepted[i]
        b == accepted[i + 1]
    IN  IF b.batch = a.batch THEN b.index = a.index + 1 ELSE b.index = 1

\* BatchesWhole made inductive.  What is left of a batch is either the whole of
\* a batch that is not in the feed yet, or the continuation of the last event
\* in it, and then its goroutine holds eventSubmitMu.
Unsent(t) ==
  /\ pending[t][1].index = 1
  /\ \A i \in DOMAIN accepted : accepted[i].batch # pending[t][1].batch

Continues(t) ==
  /\ pc[t] = "submit" /\ accepted # <<>>
  /\ accepted[Len(accepted)].batch = pending[t][1].batch
  /\ pending[t][1].index = accepted[Len(accepted)].index + 1

\* The events of a batch are numbered one after the other.
Numbered(t) ==
  \A i \in DOMAIN pending[t] :
    /\ pending[t][i].batch = pending[t][1].batch
    /\ pending[t][i].index = pending[t][1].index + i - 1

PendingInv(t) ==
  /\ pc[t] = "submit" => eventSubmitMu = t
  /\ pc[t] \notin {"batch_lock", "submit_lock", "submit"} => pending[t] = <<>>
  /\ Numbered(t)
  /\ pending[t] # <<>> => pending[t][1].batch <= batches
  /\ pending[t] # <<>> => Unsent(t) \/ Continues(t)
  /\ \A u \in Thread \ {t} :
       pending[t] # <<>> /\ pending[u] # <<>> =>
         pending[t][1].batch # pending[u][1].batch

BatchInv ==
  /\ BatchesWhole
  /\ \A i \in DOMAIN accepted : accepted[i].batch <= batches
  /\ \A t \in Thread : PendingInv(t)

\* Seen by the consumer, the client keeps the contract of EventFeed, also while
\* it is shut down and the dispatcher evicts events.
\* The feed has reached the last place in it of an event that was received.
Places == {n \in DOMAIN accepted : \E i \in DOMAIN received : received[i] = accepted[n]}

LastReceived ==
  CHOOSE n \in Places \cup {0} : \A m \in Places : m <= n

Feed == INSTANCE EventFeed WITH
          sent <- accepted, got <- received, last <- LastReceived,
          stopped <- eventStop

KeepsFeed == Feed!Spec

\* stopEventDispatcher hands over: when it returns, the channel is closed and
\* the client cancelled, so no goroutine of the client waits for the consumer.
HandedOver == pc[Run] = "stopped" => eventsClosed /\ ctxDone

\* A cancelled client shuts down and lets go of its emitters, even if the
\* consumer never reads again.
CancelFrees ==
  /\ ctxDone ~> pc[Run] = "stopped"
  /\ \A t \in Emitter : (ctxDone /\ pc[t] # "idle") ~> pc[t] = "idle"

-----------------------------------------------------------------------------
\* "The dispatcher still guarantees delivery of this terminal event before
\* closing Events()" (client.go:1266-1267).  If the consumer drains the full
\* buffer between the two selects of deliverTerminal, the event is dropped.
TerminalDelivered ==
  eventsClosed /\ eventTerminal =>
    \E i \in DOMAIN (received \o events) : (received \o events)[i] = Terminal
=============================================================================
