--------------------------- MODULE RakNetReceiver ---------------------------
(***************************************************************************)
(* The receiving half of raknet.Conn: the window of message numbers, the   *)
(* split assemblies and the ordered and sequenced streams, fed by a        *)
(* network that loses, repeats and reorders frames.                        *)
(*                                                                         *)
(* The server is external: it numbers frames and streams as the client's   *)
(* own queueFrame does, and sends a frame again until it is acknowledged.  *)
(* Of the frames sent only the last Flight can still arrive, and those at  *)
(* any time and any number of times; numbers and indices are compared as   *)
(* the code compares them, modulo Space.                                   *)
(***************************************************************************)
EXTENDS Naturals, Sequences, FiniteSets

CONSTANTS
  Channel,                \* ordering channels, 32 in the protocol
  Space,                  \* values of a uint16, 2^16
  MaxReceivedWindow,      \* 4096 in the code
  MaxOrderedFrames,       \* 1024 in the code
  MaxSplitAssemblies,     \* 64 in the code
  MaxAssemblyBytes,       \* 1 MiB in the code; a part counts as one byte
  MaxBufferedBytes,       \* 4 MiB in the code
  Workload,               \* the sequences of messages the server may send
  Flight,                 \* bound: frames of the server under way
  MaxLost,                \* bound: unreliable frames lost among Space in a row
  MaxParts,               \* bound: parts of a split message
  MaxExpired              \* bound: assemblies that expire

Reliability == {"unreliable", "unreliable_sequenced", "reliable",
                "reliable_ordered", "reliable_sequenced"}

\* The numbers of the window, those under way and those of lost frames must not
\* meet again when the numbers wrap: the window forgets when it is full, and of
\* 2^16 frames 4096 must arrive for that.
ASSUME NumberAssumption ==
  /\ Space \in Nat /\ Space % 2 = 0
  /\ MaxReceivedWindow \in Nat \ {0} /\ Flight \in Nat \ {0}
  /\ MaxLost \in Nat
  /\ MaxReceivedWindow + Flight + Flight + MaxLost <= Space
ASSUME LimitAssumption ==
  /\ MaxOrderedFrames \in Nat /\ MaxSplitAssemblies \in Nat
  /\ MaxAssemblyBytes \in Nat /\ MaxBufferedBytes \in Nat
ASSUME WorkloadAssumption ==
  /\ MaxParts \in 1..Flight /\ MaxExpired \in Nat
  /\ Workload \subseteq Seq([reliability : Reliability, channel : Channel,
                             parts : 1..MaxParts])

VARIABLES
  messages,      \* what the server sent: a sequence of messages
  frames,        \* the frames it sent: each a message and a part of it
  arrived,       \* frames that arrived at least once
  received,      \* message numbers of the current window
  splits,        \* the frames held of messages that are not whole yet
  ordered,       \* messages held ahead of their turn, by channel
  expected,      \* next ordering index, by channel
  sequenced,     \* {} or {newest sequenced index}, by channel
  orderedCount, splitBytes,   \* the counters the limits are checked against
  delivered,     \* history: the messages handed to deliver, in order
  lost,          \* history: messages given up after a part of them was acknowledged
  expired        \* history: assemblies expired so far

server   == <<messages, frames>>
streams  == <<ordered, expected, sequenced, orderedCount>>
assembly == <<splits, splitBytes>>
vars == <<server, arrived, received, streams, assembly, delivered, lost,
          expired>>

Ordered(r)   == r = "reliable_ordered"
Sequenced(r) == r \in {"unreliable_sequenced", "reliable_sequenced"}
Reliable(r)  == r \in {"reliable", "reliable_ordered", "reliable_sequenced"}

Id == Nat \ {0}
Wire == 0..(Space - 1)
Message == [reliability : Reliability, channel : Channel, index : Nat,
            parts : 1..MaxParts]
Frame == [message : Id, part : 1..MaxParts]

TypeOK ==
  /\ messages \in Seq(Message)
  /\ frames \in Seq(Frame)
  /\ \A k \in DOMAIN frames : frames[k].message \in DOMAIN messages
  /\ arrived \subseteq DOMAIN frames
  /\ received \subseteq Wire
  /\ splits \subseteq Frame
  /\ ordered \in [Channel -> SUBSET DOMAIN messages]
  /\ expected \in [Channel -> Wire]
  /\ sequenced \in [Channel -> SUBSET Wire]
  /\ orderedCount \in Nat /\ splitBytes \in Nat
  /\ delivered \in Seq(DOMAIN messages)
  /\ lost \subseteq DOMAIN messages
  /\ expired \in 0..MaxExpired

Init ==
  /\ messages = <<>> /\ frames = <<>> /\ arrived = {}
  /\ received = {}
  /\ splits = {} /\ splitBytes = 0
  /\ ordered = [c \in Channel |-> {}] /\ orderedCount = 0
  /\ expected = [c \in Channel |-> 0]
  /\ sequenced = [c \in Channel |-> {}]
  /\ delivered = <<>> /\ lost = {} /\ expired = 0

-----------------------------------------------------------------------------
\* The server

\* Ordered messages have one stream of indices in a channel, sequenced ones
\* another.
OrderedIn(c) ==
  {m \in DOMAIN messages :
     messages[m].channel = c /\ Ordered(messages[m].reliability)}

SequencedIn(c) ==
  {m \in DOMAIN messages :
     messages[m].channel = c /\ Sequenced(messages[m].reliability)}

StreamLength(r, c) ==
  IF Ordered(r) THEN Cardinality(OrderedIn(c))
  ELSE IF Sequenced(r) THEN Cardinality(SequencedIn(c)) ELSE 0

\* What leaves the flight has arrived, but for an unreliable message.  (That
\* of Space \div 2 unreliable sequenced frames in a row none is lost is taken
\* for granted here: the client would take the next one for an old one.)
Settled(k) ==
  k \in arrived \/ messages[frames[k].message].reliability = "unreliable"

\* Of the last Space frames, those that are never to arrive when sent frames
\* are sent.
Missing(sent) ==
  {k \in DOMAIN frames :
     k + Space > Len(frames) /\ k + Flight <= sent /\ k \notin arrived}

Send(w) ==
  LET m == Len(messages) + 1
      sent == Len(frames) + w[m].parts
  IN /\ m <= Len(w)
     /\ \A j \in 1..(m - 1) : /\ messages[j].reliability = w[j].reliability
                              /\ messages[j].channel = w[j].channel
                              /\ messages[j].parts = w[j].parts
     /\ \A k \in DOMAIN frames : k + Flight <= sent => Settled(k)
     /\ Cardinality(Missing(sent)) <= MaxLost
     /\ messages' = Append(messages, [reliability |-> w[m].reliability,
                        channel |-> w[m].channel, parts |-> w[m].parts,
                        index |-> StreamLength(w[m].reliability, w[m].channel)])
     /\ frames' = frames \o [p \in 1..w[m].parts |-> [message |-> m, part |-> p]]
     /\ UNCHANGED <<arrived, received, streams, assembly, delivered, lost,
                    expired>>

-----------------------------------------------------------------------------
\* accept

\* Mutant of SequenceNewer: a value is newer than itself.
NotOlder(value, reference) == (value + Space - reference) % Space < Space \div 2

\* int16(value - reference) > 0
SequenceNewer(value, reference) ==
  (value + Space - reference) % Space \in 1..(Space \div 2 - 1)

\* The ordering index a message carries.
Slot(m) == messages[m].index % Space

Taken(c, i) == \E h \in ordered[c] : Slot(h) = i

Holder(c, i) == CHOOSE h \in ordered[c] : Slot(h) = i

\* Mutant of Release: the message that was not held is counted off too.
ReleaseOneMore(n) == orderedCount' = orderedCount - n - 1

\* The counter of the messages held in all channels.
Release(n) == orderedCount' = orderedCount - n

\* The next ordered message, and the n that waited for it without a gap.
InOrder(m, c, i) ==
  \E n \in 0..Cardinality(ordered[c]) :
    LET slots == {(i + j) % Space : j \in 1..n}
    IN /\ i = expected[c]
       /\ \A s \in slots : Taken(c, s)
       /\ ~Taken(c, (i + n + 1) % Space)
       /\ delivered' = Append(delivered, m)
                         \o [j \in 1..n |-> Holder(c, (i + j) % Space)]
       /\ ordered' = [ordered EXCEPT ![c] = {h \in @ : Slot(h) \notin slots}]
       /\ Release(n)
       /\ expected' = [expected EXCEPT ![c] = (i + n + 1) % Space]
       /\ UNCHANGED <<sequenced, lost>>

\* An ordered message ahead of its turn is held if there is room for it.
Ahead(m, c, i) ==
  /\ SequenceNewer(i, expected[c]) /\ ~Taken(c, i)
  /\ IF orderedCount < MaxOrderedFrames
       THEN /\ ordered' = [ordered EXCEPT ![c] = @ \cup {m}]
            /\ orderedCount' = orderedCount + 1
            /\ UNCHANGED lost
       ELSE lost' = lost \cup {m} /\ UNCHANGED <<ordered, orderedCount>>
  /\ UNCHANGED <<delivered, expected, sequenced>>

\* It was delivered before, or is held already.
Behind(c, i) ==
  /\ i # expected[c]
  /\ SequenceNewer(i, expected[c]) => Taken(c, i)
  /\ UNCHANGED <<delivered, streams, lost>>

\* Only a message newer than every one before it is of interest.
Newest(m, c, i) ==
  /\ IF \E s \in sequenced[c] : ~SequenceNewer(i, s)
       THEN UNCHANGED <<delivered, sequenced>>
       ELSE /\ sequenced' = [sequenced EXCEPT ![c] = {i}]
            /\ delivered' = Append(delivered, m)
  /\ UNCHANGED <<ordered, expected, orderedCount, lost>>

Unordered(m) ==
  /\ delivered' = Append(delivered, m)
  /\ UNCHANGED <<streams, lost>>

\* A whole message goes the way of its reliability.
Place(m) ==
  LET r == messages[m].reliability
      c == messages[m].channel
  IN \/ Ordered(r) /\ (InOrder(m, c, Slot(m)) \/ Ahead(m, c, Slot(m)) \/ Behind(c, Slot(m)))
     \/ Sequenced(r) /\ Newest(m, c, Slot(m))
     \/ ~Ordered(r) /\ ~Sequenced(r) /\ Unordered(m)

Assemblies == {f.message : f \in splits}

Parts(m) == {f \in splits : f.message = m}

\* Mutant of DropSplit: the bytes of a dropped assembly stay counted.
DropSplitStillCounted(m) ==
  /\ splits' = splits \ Parts(m)
  /\ UNCHANGED splitBytes

DropSplit(m) ==
  /\ splits' = splits \ Parts(m)
  /\ splitBytes' = splitBytes - Cardinality(Parts(m))

\* No room for one more assembly.
SplitRefused(f) ==
  /\ f.message \notin Assemblies /\ Cardinality(Assemblies) >= MaxSplitAssemblies
  /\ lost' = lost \cup {f.message}
  /\ UNCHANGED <<assembly, streams, delivered>>

\* A part joins the others of its message; one that was there changes nothing.
SplitPart(f) ==
  LET m == f.message
      joined == Parts(m) \cup {f}
      tooMuch == /\ f \notin splits
                 /\ \/ Cardinality(joined) > MaxAssemblyBytes
                    \/ splitBytes + 1 > MaxBufferedBytes
      whole == Cardinality(joined) = messages[m].parts
  IN /\ m \in Assemblies \/ Cardinality(Assemblies) < MaxSplitAssemblies
     /\ \/ /\ tooMuch
           /\ DropSplit(m)
           /\ lost' = lost \cup {m}
           /\ UNCHANGED <<streams, delivered>>
        \/ /\ ~tooMuch /\ whole
           /\ DropSplit(m)
           /\ Place(m)
        \/ /\ ~tooMuch /\ ~whole
           /\ splits' = splits \cup {f}
           /\ splitBytes' = splitBytes + Cardinality({f} \ splits)
           /\ UNCHANGED <<streams, delivered, lost>>

Accept(f) ==
  IF messages[f.message].parts = 1
    THEN Place(f.message) /\ UNCHANGED assembly
    ELSE SplitRefused(f) \/ SplitPart(f)

-----------------------------------------------------------------------------
\* run

Number(k) == (k - 1) % Space

UnderWay == {k \in DOMAIN frames : k + Flight > Len(frames)}

\* The window is cleared when it is full, but for the number that overfilled it.
Remember(n) ==
  received' = IF Cardinality(received \cup {n}) > MaxReceivedWindow
                THEN {n} ELSE received \cup {n}

\* A frame arrives and, if it is reliable, is acknowledged; a duplicate goes
\* no further.
Receive(k) ==
  /\ arrived' = arrived \cup {k}
  /\ IF Number(k) \in received
       THEN UNCHANGED <<received, streams, assembly, delivered, lost>>
       ELSE Remember(Number(k)) /\ Accept(frames[k])
  /\ UNCHANGED <<server, expired>>

\* An assembly that was not completed within ten seconds.
Expire(m) ==
  /\ expired < MaxExpired
  /\ expired' = expired + 1
  /\ DropSplit(m)
  /\ lost' = lost \cup {m}
  /\ UNCHANGED <<server, arrived, received, streams, delivered>>

Next ==
  \/ \E w \in Workload : Send(w)
  \/ \E k \in UnderWay : Receive(k)
  \/ \E m \in Assemblies : Expire(m)

Spec == Init /\ [][Next]_vars

-----------------------------------------------------------------------------
\* Properties

\* What the client reads of an ordered channel is what the server sent on it,
\* in that order and without a gap, for as long as no message of the channel
\* was given up: over duplicates, cleared windows, assemblies and the wrap of
\* the numbers.  (A message's index is the number of those sent before it.)
OrderedIsPrefix ==
  \A c \in Channel :
    LET got == {j \in DOMAIN delivered : delivered[j] \in OrderedIn(c)}
    IN lost \cap OrderedIn(c) = {} =>
         \A j \in got : messages[delivered[j]].index = Cardinality({i \in got : i < j})

\* A sequenced message never comes after a newer one, and never twice.
SequencedIncreases ==
  \A c \in Channel :
    LET got == {j \in DOMAIN delivered : delivered[j] \in SequencedIn(c)}
    IN \A j, k \in got : j < k => delivered[j] < delivered[k]

\* Both kinds of stream keep the order the server gave them.
StreamsInOrder == OrderedIsPrefix /\ SequencedIncreases

Delivered == {delivered[j] : j \in DOMAIN delivered}

\* A message of the stream of m was given up.
Broken(m) ==
  LET c == messages[m].channel
  IN \/ m \in OrderedIn(c) /\ lost \cap OrderedIn(c) # {}
     \/ m \in SequencedIn(c) /\ lost \cap SequencedIn(c) # {}

\* The reliable frames the client has acknowledged are accounted for: each is
\* part of a message delivered, held, overtaken by a newer one or given up at
\* a limit, or comes after one of its stream that was; and the two counters
\* that are checked against the limits count exactly what is held.
AcknowledgedIsAccounted ==
  /\ \A k \in arrived :
       LET m == frames[k].message
           c == messages[m].channel
       IN \/ ~Reliable(messages[m].reliability)
          \/ m \in lost \/ frames[k] \in splits \/ m \in ordered[c] \/ m \in Delivered
          \/ m \in SequencedIn(c) /\ \E d \in Delivered \cap SequencedIn(c) : d > m
          \/ Broken(m)
  /\ splitBytes = Cardinality(splits)
  /\ orderedCount = Cardinality(UNION {ordered[c] : c \in Channel})
=============================================================================
