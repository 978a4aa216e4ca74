------------------------------ MODULE RakNetConn ------------------------------
(***************************************************************************)
(* raknet.Conn: the network goroutine (run) between the UDP socket, the    *)
(* callers of WriteChannel, the reader of Read and the caller of Close.    *)
(*                                                                         *)
(* What arrives is a datagram of acknowledgements, one of payloads, in the *)
(* order in which RakNetReceiver hands them out, or one that cannot be     *)
(* decoded.  The goroutine is the only one that serves the socket, the     *)
(* requests and the resends, and it waits in deliver when nobody reads.    *)
(* The connection's own context is cancelled only after run has ended.     *)
(***************************************************************************)
EXTENDS Naturals, Sequences, FiniteSets

CONSTANTS
  Writer,               \* callers of WriteChannel, each calls once
  NoWriter,             \* the origin of the frames of run itself
  OutboundQueueSize,    \* capacity of send, 128 in the code
  InboundQueueSize,     \* capacity of recv, 256 in the code
  MaxPendingReliable,   \* 1024 in the code
  MaxResendAttempts,    \* 20 in the code
  MaxDatagrams,         \* bound: datagrams with payloads
  MaxPayloads,          \* bound: payloads of one datagram
  MaxFaults             \* bound: UDP writes that fail

ASSUME WriterAssumption == NoWriter \notin Writer
ASSUME SizeAssumption ==
  /\ OutboundQueueSize \in Nat \ {0} /\ InboundQueueSize \in Nat \ {0}
  /\ MaxPendingReliable \in Nat \ {0} /\ MaxResendAttempts \in Nat \ {0}
ASSUME BoundAssumption ==
  /\ MaxDatagrams \in Nat /\ MaxPayloads \in Nat /\ MaxFaults \in Nat

VARIABLES
  net,             \* where run is
  inbox,           \* payloads of the datagram being handled
  readySent,       \* the connection was accepted
  readyTokens,     \* what the channel ready holds; it has room for one
  terminalErr,     \* the server ended or refused the connection
  outbound,        \* history: the frames queued, by message number
  attempts,        \* by message number: 0 or how often a pending frame was sent
  nextOrdered, nextSequenced,
  acked,           \* history: message numbers the server has acknowledged
  send,            \* the channel of requests
  result,          \* by writer: what run answered
  recv,            \* how many payloads the channel holds
  disconnect,      \* the channel is closed
  writers,         \* where each caller of WriteChannel is
  cancelled,       \* callers whose context is done
  closer,          \* where the caller of Close is
  datagrams, faults

transport == <<outbound, attempts, nextOrdered, nextSequenced, acked>>
callers   == <<writers, cancelled, closer, disconnect>>
status    == <<readySent, readyTokens, terminalErr>>
bounds    == <<datagrams, faults>>
vars == <<net, inbox, status, transport, send, result, recv, callers, bounds>>

Reliability == {"unreliable", "unreliable_sequenced", "reliable",
                "reliable_ordered", "reliable_sequenced"}
Ordered(r)   == r = "reliable_ordered"
Sequenced(r) == r \in {"unreliable_sequenced", "reliable_sequenced"}
Reliable(r)  == r \in {"reliable", "reliable_ordered", "reliable_sequenced"}

Payload == {"accepted", "ended", "ping", "app"}
Kind == {"request", "confirmation", "pong", "disconnection", "app"}
Answer == {"ok", "failed", "full"}
Waiting == {"enqueue", "await"}
Returned == Answer \cup {"closed", "cancelled"}

OutboundFrame ==
  [kind : Kind, reliability : Reliability, index : Nat, written : BOOLEAN,
   writer : Writer \cup {NoWriter}]

Request == [writer : Writer, reliability : Reliability]

TypeOK ==
  /\ net \in {"start", "read", "handle", "select", "drain", "stopped"}
  /\ inbox \in Seq(Payload)
  /\ readySent \in BOOLEAN /\ readyTokens \in 0..1 /\ terminalErr \in BOOLEAN
  /\ outbound \in Seq(OutboundFrame)
  /\ attempts \in Seq(0..MaxResendAttempts) /\ Len(attempts) = Len(outbound)
  /\ nextOrdered \in Nat /\ nextSequenced \in Nat
  /\ acked \subseteq DOMAIN outbound
  /\ send \in Seq(Request) /\ Len(send) <= OutboundQueueSize
  /\ result \in [Writer -> Answer \cup {"none"}]
  /\ recv \in 0..InboundQueueSize
  /\ disconnect \in BOOLEAN
  /\ writers \in [Writer -> {"idle"} \cup Waiting \cup Returned]
  /\ cancelled \subseteq Writer
  /\ closer \in {"idle", "closing", "closed"}
  /\ datagrams \in 0..MaxDatagrams /\ faults \in 0..MaxFaults

Init ==
  /\ net = "start" /\ inbox = <<>>
  /\ readySent = FALSE /\ readyTokens = 0 /\ terminalErr = FALSE
  /\ outbound = <<>> /\ attempts = <<>> /\ acked = {}
  /\ nextOrdered = 0 /\ nextSequenced = 0
  /\ send = <<>> /\ result = [w \in Writer |-> "none"] /\ recv = 0
  /\ disconnect = FALSE
  /\ writers = [w \in Writer |-> "idle"] /\ cancelled = {}
  /\ closer = "idle"
  /\ datagrams = 0 /\ faults = 0

-----------------------------------------------------------------------------
\* queueFrame

Pending == {k \in DOMAIN attempts : attempts[k] > 0}

\* A UDP write, which may fail.
Written(ok) ==
  IF ok THEN UNCHANGED faults ELSE faults < MaxFaults /\ faults' = faults + 1

\* Mutant of TakeIndex: the sequenced frames share the ordered stream.
TakeSharedIndex(r) ==
  /\ nextOrdered' = nextOrdered + (IF Ordered(r) \/ Sequenced(r) THEN 1 ELSE 0)
  /\ UNCHANGED nextSequenced

\* Each of the two kinds of stream has indices of its own.
TakeIndex(r) ==
  /\ nextOrdered' = nextOrdered + (IF Ordered(r) THEN 1 ELSE 0)
  /\ nextSequenced' = nextSequenced + (IF Sequenced(r) THEN 1 ELSE 0)

\* The message number and the index are used up even if the write fails.
QueueFrame(kind, r, w, ok) ==
  /\ Written(ok)
  /\ outbound' = Append(outbound,
       [kind |-> kind, reliability |-> r, written |-> ok, writer |-> w,
        index |-> IF Ordered(r) THEN nextOrdered
                  ELSE IF Sequenced(r) THEN nextSequenced ELSE 0])
  /\ attempts' = Append(attempts, IF ok /\ Reliable(r) THEN 1 ELSE 0)
  /\ TakeIndex(r)
  /\ UNCHANGED acked

\* run returns; recv and done are closed.
Stop == net' = "stopped" /\ inbox' = <<>>

\* The first thing run does is to ask for the connection.
Start ==
  /\ net = "start"
  /\ \E ok \in BOOLEAN : QueueFrame("request", "reliable", NoWriter, ok)
  /\ net' = "read"
  /\ UNCHANGED <<inbox, status, send, result, recv, callers, datagrams>>

-----------------------------------------------------------------------------
\* The datagrams

\* An acknowledgement, of a frame that was written.
Acknowledge(k) ==
  /\ outbound[k].written
  /\ attempts' = [attempts EXCEPT ![k] = 0]
  /\ acked' = acked \cup {k}
  /\ UNCHANGED <<outbound, nextOrdered, nextSequenced>>

ReadAcks ==
  /\ net = "read"
  /\ \E k \in Pending : Acknowledge(k)
  /\ net' = "select"
  /\ UNCHANGED <<inbox, status, send, result, recv, callers, bounds>>

Arrives == datagrams < MaxDatagrams /\ datagrams' = datagrams + 1

ReadPayloads ==
  /\ net = "read" /\ Arrives
  /\ \E n \in 1..MaxPayloads : inbox' \in [1..n -> Payload]
  /\ net' = "handle"
  /\ UNCHANGED <<status, transport, send, result, recv, callers, faults>>

\* A token for ready, which nobody takes out: there is room for one.
TellReady == readyTokens = 0 /\ readyTokens' = 1

\* Before the connection is accepted, a failure is told once.
TellFailure == IF readySent THEN UNCHANGED readyTokens ELSE TellReady

\* A datagram that cannot be decoded ends a handshake, and nothing else.
ReadGarbage ==
  /\ net = "read" /\ Arrives
  /\ IF readySent THEN net' = "select" /\ UNCHANGED <<inbox, readyTokens>>
                  ELSE Stop /\ TellReady
  /\ UNCHANGED <<readySent, terminalErr, transport, send, result, recv, callers,
                 faults>>

\* The read times out after 100 ms.
ReadNothing ==
  /\ net = "read"
  /\ net' = "select"
  /\ UNCHANGED <<inbox, status, transport, send, result, recv, callers, bounds>>

-----------------------------------------------------------------------------
\* The payloads of a datagram

Next1 == inbox' = Tail(inbox)

\* The first acceptance is confirmed; it is then delivered like any payload.
HandleAccepted ==
  /\ net = "handle" /\ inbox # <<>> /\ Head(inbox) = "accepted" /\ ~readySent
  /\ \E ok \in BOOLEAN :
       /\ QueueFrame("confirmation", "reliable", NoWriter, ok)
       /\ TellReady
       /\ IF ok THEN /\ readySent' = TRUE
                     /\ inbox' = <<"app">> \o Tail(inbox)
                     /\ UNCHANGED net
                ELSE Stop /\ UNCHANGED readySent
  /\ UNCHANGED <<terminalErr, send, result, recv, callers, datagrams>>

\* The server disconnects, has lost the connection or refuses it.
HandleEnded ==
  /\ net = "handle" /\ inbox # <<>> /\ Head(inbox) = "ended"
  /\ TellFailure
  /\ terminalErr' = TRUE
  /\ Stop
  /\ UNCHANGED <<readySent, transport, send, result, recv, callers, bounds>>

HandlePing ==
  /\ net = "handle" /\ inbox # <<>> /\ Head(inbox) = "ping"
  /\ \E ok \in BOOLEAN : QueueFrame("pong", "unreliable", NoWriter, ok)
  /\ Next1
  /\ UNCHANGED <<net, status, send, result, recv, callers, datagrams>>

ToDeliver ==
  /\ net = "handle" /\ inbox # <<>>
  /\ Head(inbox) = "app" \/ (Head(inbox) = "accepted" /\ readySent)

Deliver ==
  /\ ToDeliver /\ recv < InboundQueueSize
  /\ recv' = recv + 1
  /\ Next1
  /\ UNCHANGED <<net, status, transport, send, result, callers, bounds>>

HandleNothing ==
  /\ net = "handle" /\ inbox = <<>>
  /\ net' = "select"
  /\ UNCHANGED <<inbox, status, transport, send, result, recv, callers, bounds>>

\* An accepted connection says goodbye before it ends.
GracefulDisconnect ==
  IF ~readySent
    THEN Stop /\ UNCHANGED <<transport, faults>>
    ELSE \E ok \in BOOLEAN :
           /\ QueueFrame("disconnection", "reliable_ordered", NoWriter, ok)
           /\ IF ok THEN net' = "drain" /\ inbox' = <<>> ELSE Stop

\* Mutant of DeliverInterrupted: deliver waits for the reader only.
DeliverUninterrupted ==
  /\ ToDeliver /\ disconnect /\ recv < InboundQueueSize
  /\ GracefulDisconnect
  /\ UNCHANGED <<status, send, result, recv, callers, datagrams>>

DeliverInterrupted ==
  /\ ToDeliver /\ disconnect
  /\ GracefulDisconnect
  /\ UNCHANGED <<status, send, result, recv, callers, datagrams>>

-----------------------------------------------------------------------------
\* The select at the end of each round

\* Mutant of Leave: the socket is closed without a goodbye.
LeaveAtOnce ==
  /\ net = "select" /\ disconnect
  /\ Stop
  /\ UNCHANGED <<status, transport, send, result, recv, callers, bounds>>

Leave ==
  /\ net = "select" /\ disconnect
  /\ GracefulDisconnect
  /\ UNCHANGED <<status, send, result, recv, callers, datagrams>>

Serve ==
  /\ net = "select" /\ send # <<>>
  /\ LET w == Head(send).writer
         r == Head(send).reliability
     IN \/ /\ Cardinality(Pending) >= MaxPendingReliable /\ Reliable(r)
           /\ result' = [result EXCEPT ![w] = "full"]
           /\ UNCHANGED <<transport, faults>>
        \/ /\ Cardinality(Pending) < MaxPendingReliable \/ ~Reliable(r)
           /\ \E ok \in BOOLEAN :
                /\ QueueFrame("app", r, w, ok)
                /\ result' = [result EXCEPT ![w] = IF ok THEN "ok" ELSE "failed"]
  /\ send' = Tail(send)
  /\ net' = "read"
  /\ UNCHANGED <<inbox, status, recv, callers, datagrams>>

Resend(due) ==
  attempts' = [k \in DOMAIN attempts |->
                 IF k \in due THEN attempts[k] + 1 ELSE attempts[k]]

\* The ticker: the frames that are due are sent again, in any order; one that
\* cannot be sent, or was sent too often, ends the connection.
Tick ==
  /\ net = "select"
  /\ \E due \in SUBSET Pending :
       \/ /\ \A k \in due : attempts[k] < MaxResendAttempts
          /\ Resend(due)
          /\ net' = "read"
          /\ UNCHANGED <<inbox, readyTokens, faults>>
       \/ /\ \/ (\E k \in due : attempts[k] >= MaxResendAttempts) /\ UNCHANGED faults
             \/ due # {} /\ Written(FALSE)
          /\ TellFailure
          /\ Stop
          /\ UNCHANGED attempts
  /\ UNCHANGED <<readySent, terminalErr, outbound, nextOrdered, nextSequenced,
                 acked, send, result, recv, callers, datagrams>>

NothingToDo ==
  /\ net = "select" /\ ~disconnect /\ send = <<>>
  /\ net' = "read"
  /\ UNCHANGED <<inbox, status, transport, send, result, recv, callers, bounds>>

-----------------------------------------------------------------------------
\* drainGracefulDisconnect

\* For 500 ms acknowledgements are taken and pings are answered.
DrainAcks ==
  /\ net = "drain"
  /\ \E k \in Pending : Acknowledge(k)
  /\ UNCHANGED <<net, inbox, status, send, result, recv, callers, bounds>>

DrainPing ==
  /\ net = "drain" /\ Arrives
  /\ \E ok \in BOOLEAN : QueueFrame("pong", "unreliable", NoWriter, ok)
  /\ UNCHANGED <<net, inbox, status, send, result, recv, callers>>

\* Mutant of DrainResend: nothing is passed over.
DrainResendAll ==
  /\ net = "drain"
  /\ \E due \in SUBSET Pending : due # {} /\ Resend(due)
  /\ UNCHANGED <<net, inbox, status, outbound, nextOrdered, nextSequenced, acked,
                 send, result, recv, callers, bounds>>

\* A frame that was sent often enough, or cannot be sent, is passed over.
DrainResend ==
  /\ net = "drain"
  /\ \E due \in SUBSET {k \in Pending : attempts[k] < MaxResendAttempts} :
       due # {} /\ Resend(due)
  /\ UNCHANGED <<net, inbox, status, outbound, nextOrdered, nextSequenced, acked,
                 send, result, recv, callers, bounds>>

\* The grace period is over, or the socket is broken.
DrainEnds ==
  /\ net = "drain"
  /\ Stop
  /\ UNCHANGED <<status, transport, send, result, recv, callers, bounds>>

-----------------------------------------------------------------------------
\* The callers

Goto(w, label) == writers' = [writers EXCEPT ![w] = label]

WriteChannel(w) ==
  /\ writers[w] = "idle"
  /\ Goto(w, "enqueue")
  /\ UNCHANGED <<net, inbox, status, transport, send, result, recv, cancelled,
                 closer, disconnect, bounds>>

Enqueue(w) ==
  /\ writers[w] = "enqueue" /\ Len(send) < OutboundQueueSize
  /\ \E r \in {"reliable_ordered", "unreliable_sequenced"} :
       send' = Append(send, [writer |-> w, reliability |-> r])
  /\ Goto(w, "await")
  /\ UNCHANGED <<net, inbox, status, transport, result, recv, cancelled, closer,
                 disconnect, bounds>>

TakeResult(w) ==
  /\ writers[w] = "await" /\ result[w] # "none"
  /\ Goto(w, result[w])
  /\ UNCHANGED <<net, inbox, status, transport, send, result, recv, cancelled,
                 closer, disconnect, bounds>>

\* Mutant of GiveUp: the end of run does not free the callers.
GiveUpOnDisconnect(w) ==
  /\ writers[w] \in Waiting
  /\ \/ disconnect /\ Goto(w, "closed")
     \/ w \in cancelled /\ Goto(w, "cancelled")
  /\ UNCHANGED <<net, inbox, status, transport, send, result, recv, cancelled,
                 closer, disconnect, bounds>>

\* A caller does not wait for an answer when the connection ends or its own
\* context does; run may have the request all the same.
GiveUp(w) ==
  /\ writers[w] \in Waiting
  /\ \/ (disconnect \/ net = "stopped") /\ Goto(w, "closed")
     \/ w \in cancelled /\ Goto(w, "cancelled")
  /\ UNCHANGED <<net, inbox, status, transport, send, result, recv, cancelled,
                 closer, disconnect, bounds>>

CancelCaller(w) ==
  /\ writers[w] \in Waiting /\ w \notin cancelled
  /\ cancelled' = cancelled \cup {w}
  /\ UNCHANGED <<net, inbox, status, transport, send, result, recv, writers,
                 closer, disconnect, bounds>>

\* Read takes the next payload; its other outcomes change nothing here.
Read ==
  /\ recv > 0
  /\ recv' = recv - 1
  /\ UNCHANGED <<net, inbox, status, transport, send, result, callers, bounds>>

Close ==
  /\ closer = "idle"
  /\ closer' = "closing" /\ disconnect' = TRUE
  /\ UNCHANGED <<net, inbox, status, transport, send, result, recv, writers,
                 cancelled, bounds>>

CloseReturns ==
  /\ closer = "closing" /\ net = "stopped"
  /\ closer' = "closed"
  /\ UNCHANGED <<net, inbox, status, transport, send, result, recv, writers,
                 cancelled, disconnect, bounds>>

-----------------------------------------------------------------------------
Handle == HandleAccepted \/ HandleEnded \/ HandlePing \/ Deliver \/ HandleNothing
            \/ DeliverInterrupted

Run == \/ Start \/ ReadAcks \/ ReadPayloads \/ ReadGarbage \/ ReadNothing
       \/ Handle \/ Leave \/ Serve \/ Tick \/ NothingToDo
       \/ DrainAcks \/ DrainPing \/ DrainResend \/ DrainEnds

Caller(w) == WriteChannel(w) \/ Enqueue(w) \/ TakeResult(w) \/ GiveUp(w)
               \/ CancelCaller(w)

Next == \/ Run \/ Read \/ Close \/ CloseReturns
        \/ \E w \in Writer : Caller(w)

Spec == Init /\ [][Next]_vars

\* The goroutines are scheduled, a read times out, the grace period ends, and a
\* select that is repeated takes each case that stays ready at some time.
\* Nobody has to call, to read, to close or to answer.
Fairness ==
  /\ WF_vars(Start) /\ WF_vars(ReadNothing) /\ WF_vars(Handle)
  /\ WF_vars(NothingToDo) /\ SF_vars(Leave) /\ SF_vars(Serve)
  /\ WF_vars(DrainEnds) /\ WF_vars(CloseReturns)
  /\ \A w \in Writer : WF_vars(Enqueue(w)) /\ WF_vars(TakeResult(w) \/ GiveUp(w))

FairSpec == Spec /\ Fairness

-----------------------------------------------------------------------------
\* Properties

Before(k, Stream(_)) ==
  Cardinality({j \in 1..(k - 1) : Stream(outbound[j].reliability)})

\* What is promised to the peer: a reliable frame that was written is pending
\* until it is acknowledged, for as long as run lives; and the indices of each
\* kind of stream follow one another without a gap or a repetition, so that the
\* peer waits for no index but that of a frame whose write failed.
OutboundAccounted ==
  \A k \in DOMAIN outbound :
    LET f == outbound[k]
    IN /\ f.written /\ Reliable(f.reliability) /\ net # "stopped" =>
            k \in Pending \cup acked
       /\ Ordered(f.reliability) => f.index = Before(k, Ordered)
       /\ Sequenced(f.reliability) => f.index = Before(k, Sequenced)

\* A connection that was accepted and is closed by its user tells the server,
\* unless the server ended it first or the network failed.
GoodbyeSent ==
  closer = "closed" /\ readySent =>
    \/ \E k \in DOMAIN outbound : outbound[k].kind = "disconnection"
    \/ terminalErr \/ faults > 0
    \/ \E k \in Pending : attempts[k] >= MaxResendAttempts

\* Close returns, whatever the network, the readers and the writers do.
CloseEnds == closer = "closing" ~> closer = "closed"

\* A caller of WriteChannel waits for ever only for a reader: while recv is
\* full, run waits in deliver and serves nobody.
WriteEnds ==
  \A w \in Writer :
    writers[w] \in Waiting ~>
      writers[w] \in Returned \/ recv = InboundQueueSize
=============================================================================
