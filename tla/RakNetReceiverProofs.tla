------------------------ MODULE RakNetReceiverProofs ------------------------
(***************************************************************************)
(* Theorems about RakNetReceiver, for every workload of the server, any    *)
(* number of channels, any limits and any width of the numbers.            *)
(***************************************************************************)
EXTENDS RakNetReceiver, FiniteSetTheorems, SequenceTheorems, TLAPS

\* The types in three parts.
ServerType ==
  /\ messages \in Seq(Message)
  /\ frames \in Seq(Frame)
  /\ \A k \in DOMAIN frames : frames[k].message \in DOMAIN messages

StreamType ==
  /\ ordered \in [Channel -> SUBSET DOMAIN messages]
  /\ expected \in [Channel -> Wire]
  /\ sequenced \in [Channel -> SUBSET Wire]
  /\ delivered \in Seq(DOMAIN messages)
  /\ lost \subseteq DOMAIN messages

WindowType ==
  /\ arrived \subseteq DOMAIN frames
  /\ received \subseteq Wire
  /\ expired \in 0..MaxExpired

\* A message is held in its own channel, and no other one waits there with its
\* ordering index.
HeldInv ==
  \A c \in Channel :
    /\ ordered[c] \subseteq OrderedIn(c)
    /\ \A g, h \in ordered[c] : Slot(g) = Slot(h) => g = h

\* The parts held are parts of messages sent.
SplitInv ==
  /\ splits \subseteq Frame /\ IsFiniteSet(splits)
  /\ \A f \in splits : f.message \in DOMAIN messages

\* The two counters that accept checks against its limits count what is held.
Held == UNION {ordered[c] : c \in Channel}

CountInv ==
  /\ orderedCount = Cardinality(Held)
  /\ splitBytes = Cardinality(splits)

ReceiverInv ==
  ServerType /\ StreamType /\ WindowType /\ HeldInv /\ SplitInv /\ CountInv

-----------------------------------------------------------------------------
(* Numbers modulo Space *)

\* Numbers have a width.
LEMMA SpaceNumber == Space \in Nat /\ Space > 0
BY NumberAssumption

\* A residue is a value of the wire.
LEMMA Residue ==
  ASSUME NEW x \in Nat
  PROVE  x % Space \in Wire
BY SpaceNumber DEF Wire

\* A number is its residue and a multiple of Space.
LEMMA Divided ==
  ASSUME NEW x \in Nat
  PROVE  \E q \in Nat : x = (Space * q) + (x % Space)
<1> DEFINE q == x \div Space
<1>1. q \in Nat /\ x = (Space * q) + (x % Space)
  BY SpaceNumber
<1> QED BY <1>1

\* A value of the wire is its own residue, past any multiple of Space.
LEMMA Remainder ==
  ASSUME NEW q \in Nat, NEW r \in Wire
  PROVE  ((Space * q) + r) % Space = r
BY SpaceNumber DEF Wire

\* Two numbers less than Space apart with one residue are one number.
LEMMA SameNumber ==
  ASSUME NEW a \in Nat, NEW b \in Nat, a % Space = b % Space,
         a < b + Space, b < a + Space
  PROVE  a = b
<1>1. PICK p \in Nat : a = (Space * p) + (a % Space)
  BY Divided
<1>2. PICK q \in Nat : b = (Space * q) + (b % Space)
  BY Divided
<1> DEFINE r == a % Space
<1>3. r \in Nat /\ a = (Space * p) + r /\ b = (Space * q) + r
  BY <1>1, <1>2, Residue DEF Wire
<1> HIDE DEF r
<1>4. Space * p < (Space * q) + Space /\ Space * q < (Space * p) + Space
  BY <1>3, SpaceNumber
<1>5. Space * p < Space * (q + 1) /\ Space * q < Space * (p + 1)
  BY <1>4, SpaceNumber
<1>6. \A x, y \in Nat : x >= y => Space * x >= Space * y
  BY SpaceNumber
<1>7. p < q + 1 /\ q < p + 1
  BY <1>5, <1>6, SpaceNumber
<1> QED BY <1>3, <1>7

\* What a step past a number does to its residue.
LEMMA ResidueSum ==
  ASSUME NEW a \in Nat, NEW d \in Nat, d < Space
  PROVE  (a + d) % Space = IF (a % Space) + d < Space THEN (a % Space) + d
                           ELSE ((a % Space) + d) - Space
<1>1. PICK q \in Nat : a = (Space * q) + (a % Space)
  BY Divided
<1> DEFINE r == a % Space
<1>2. r \in 0..(Space - 1) /\ a = (Space * q) + r
  BY <1>1, Residue DEF Wire
<1> HIDE DEF r
<1>3. CASE r + d < Space
  <2>1. r + d \in Wire /\ a + d = (Space * q) + (r + d)
    BY <1>2, <1>3, SpaceNumber DEF Wire
  <2>2. ((Space * q) + (r + d)) % Space = r + d
    BY <2>1, Remainder
  <2> QED BY <1>3, <2>1, <2>2 DEF r
<1>4. CASE ~(r + d < Space)
  <2>1. (r + d) - Space \in Wire
    BY <1>2, <1>4, SpaceNumber DEF Wire
  <2>2. a + d = (Space * (q + 1)) + ((r + d) - Space)
    BY <1>2, SpaceNumber
  <2>3. ((Space * (q + 1)) + ((r + d) - Space)) % Space = (r + d) - Space
    BY <2>1, Remainder
  <2> QED BY <1>4, <2>2, <2>3 DEF r
<1> QED BY <1>3, <1>4

\* A number that wrapped at most once.
LEMMA SmallResidue ==
  ASSUME NEW x \in Nat, x < Space + Space
  PROVE  x % Space = IF x < Space THEN x ELSE x - Space
<1>1. CASE x < Space
  BY <1>1, SpaceNumber
<1>2. CASE ~(x < Space)
  <2> DEFINE y == x - Space
  <2>1. y \in Nat /\ y < Space /\ x = y + Space
    BY <1>2, SpaceNumber
  <2> HIDE DEF y
  <2>2. (y + Space) % Space = y
    BY <2>1, SpaceNumber
  <2> QED BY <1>2, <2>1, <2>2, SpaceNumber
<1> QED BY <1>1, <1>2

\* What is under way is less than half of the numbers.
LEMMA HalfSpace ==
  /\ Space \div 2 \in Nat /\ Space = (Space \div 2) + (Space \div 2)
  /\ Flight < Space \div 2
BY NumberAssumption

\* SequenceNewer judges a number ahead by its distance.
LEMMA NewerAhead ==
  ASSUME NEW a \in Nat, NEW b \in Nat, a <= b, b < a + Space
  PROVE  SequenceNewer(b % Space, a % Space)
           <=> b - a \in 1..(Space \div 2 - 1)
<1> DEFINE r == a % Space
           s == b % Space
           d == b - a
<1>1. r \in 0..(Space - 1) /\ d \in 0..(Space - 1) /\ b = a + d
  BY Residue, SpaceNumber DEF Wire
<1> HIDE DEF d
<1>2. s = IF r + d < Space THEN r + d ELSE (r + d) - Space
  <2>1. d \in Nat /\ d < Space
    BY <1>1, SpaceNumber
  <2> QED BY <1>1, <2>1, ResidueSum
<1> HIDE DEF r, s
<1>3. (s + Space - r) \in Nat /\ (s + Space - r) < Space + Space
  BY <1>1, <1>2, SpaceNumber
<1>4. (s + Space - r) % Space = d
  <2>1. (s + Space - r) % Space
          = IF (s + Space - r) < Space THEN (s + Space - r)
            ELSE (s + Space - r) - Space
    BY <1>3, SmallResidue
  <2> QED BY <1>1, <1>2, <2>1, SpaceNumber
<1> QED BY <1>4 DEF SequenceNewer, r, s, d

\* And takes no number for newer that is less than half of Space behind.
LEMMA NewerBehind ==
  ASSUME NEW a \in Nat, NEW b \in Nat, b <= a, a < b + (Space \div 2)
  PROVE  ~SequenceNewer(b % Space, a % Space)
<1> DEFINE r == a % Space
           s == b % Space
           d == a - b
<1>1. s \in 0..(Space - 1) /\ d \in 0..(Space - 1) /\ a = b + d /\ d < Space \div 2
  BY Residue, HalfSpace, SpaceNumber DEF Wire
<1> HIDE DEF d
<1>2. r = IF s + d < Space THEN s + d ELSE (s + d) - Space
  <2>1. d \in Nat /\ d < Space
    BY <1>1, SpaceNumber
  <2> QED BY <1>1, <2>1, ResidueSum
<1> HIDE DEF r, s
<1>3. (s + Space - r) \in Nat /\ (s + Space - r) < Space + Space
  BY <1>1, <1>2, SpaceNumber
<1>4. (s + Space - r) % Space = IF d = 0 THEN 0 ELSE Space - d
  <2>1. (s + Space - r) % Space
          = IF (s + Space - r) < Space THEN (s + Space - r)
            ELSE (s + Space - r) - Space
    BY <1>3, SmallResidue
  <2> QED BY <1>1, <1>2, <2>1, SpaceNumber
<1>5. (s + Space - r) % Space \notin 1..(Space \div 2 - 1)
  BY <1>1, <1>4, HalfSpace
<1> QED BY <1>5 DEF SequenceNewer, r, s, d

\* The indices behind i up to the first that is free are all different.
LEMMA IndicesInRow ==
  ASSUME NEW i \in Wire, NEW n \in Nat,
         \A j \in 1..n : (i + n + 1) % Space # (i + j) % Space
  PROVE  /\ n < Space
         /\ \A j, k \in 1..n : (i + j) % Space = (i + k) % Space => j = k
<1>1. Space \in Nat /\ Space > 0 /\ i \in 0..(Space - 1)
  BY SpaceNumber DEF Wire
<1>2. n < Space
  <2> SUFFICES ASSUME n >= Space PROVE FALSE
    BY <1>1
  <2>1. PICK z \in 0..(Space - 1) : z = (i + n + 1) % Space
    BY <1>1, Residue DEF Wire
  <2>2. PICK j \in 1..n : i + j = z \/ i + j = z + Space
    <3>1. CASE z > i
      <4>1. z - i \in 1..n /\ i + (z - i) = z
        BY <1>1, <2>1, <3>1
      <4> QED BY <4>1
    <3>2. CASE ~(z > i)
      <4>1. (z + Space) - i \in 1..n /\ i + ((z + Space) - i) = z + Space
        BY <1>1, <2>1, <3>2
      <4> QED BY <4>1
    <3> QED BY <3>1, <3>2
  <2>3. (i + j) % Space = z
    <3>1. i + j \in Nat /\ i + j < Space + Space
      BY <1>1, <2>1, <2>2
    <3>2. \A x \in Nat : x < Space + Space =>
            x % Space = IF x < Space THEN x ELSE x - Space
      BY SmallResidue
    <3> QED BY <1>1, <2>1, <2>2, <3>1, <3>2
  <2> QED BY <2>1, <2>3
<1> SUFFICES ASSUME NEW j \in 1..n, NEW k \in 1..n,
                    (i + j) % Space = (i + k) % Space
             PROVE  j = k
  BY <1>2
<1>3. /\ i + j \in Nat /\ i + j < Space + Space
      /\ i + k \in Nat /\ i + k < Space + Space
  BY <1>1, <1>2
<1>4. \A x \in Nat : x < Space + Space =>
        x % Space = IF x < Space THEN x ELSE x - Space
  BY SmallResidue
<1> QED BY <1>1, <1>2, <1>3, <1>4

-----------------------------------------------------------------------------
(* The server *)

\* What is held is finite: it was sent.
LEMMA HeldFinite ==
  ASSUME ServerType, StreamType
  PROVE  /\ IsFiniteSet(Held) /\ Held \subseteq DOMAIN messages
         /\ \A c \in Channel : IsFiniteSet(ordered[c])
         /\ Cardinality(Held) \in Nat
<1>1. Len(messages) \in Nat /\ DOMAIN messages = 1..Len(messages)
  BY DEF ServerType
<1>2. IsFiniteSet(DOMAIN messages)
  BY <1>1, FS_Interval
<1>3. Held \subseteq DOMAIN messages
  BY DEF Held, StreamType
<1>4. \A c \in Channel : ordered[c] \in SUBSET DOMAIN messages
  BY DEF StreamType
<1>5. IsFiniteSet(Held) /\ \A c \in Channel : IsFiniteSet(ordered[c])
  BY <1>2, <1>3, <1>4, FS_Subset
<1> QED BY <1>3, <1>5, FS_CardinalityType

\* A new message is one of its workload, with the next index of its stream.
LEMMA SendEffect ==
  ASSUME ServerType, NEW w \in Workload, Send(w)
  PROVE  /\ ServerType'
         /\ DOMAIN messages \subseteq DOMAIN messages'
         /\ \A m \in DOMAIN messages : messages'[m] = messages[m]
         /\ DOMAIN frames \subseteq DOMAIN frames'
         /\ \A k \in DOMAIN frames : frames'[k] = frames[k]
         /\ LET m == Len(messages) + 1
            IN /\ Len(messages') = m
               /\ messages'[m].index = StreamLength(messages'[m].reliability,
                                                   messages'[m].channel)
               /\ messages'[m].parts \in 1..MaxParts
               /\ Len(frames') = Len(frames) + messages'[m].parts
               /\ \A p \in 1..messages'[m].parts :
                    frames'[Len(frames) + p] = [message |-> m, part |-> p]
<1> DEFINE m == Len(messages) + 1
           new == [reliability |-> w[m].reliability, channel |-> w[m].channel,
                   parts |-> w[m].parts,
                   index |-> StreamLength(w[m].reliability, w[m].channel)]
           more == [p \in 1..w[m].parts |-> [message |-> m, part |-> p]]
<1>1. /\ Len(messages) \in Nat /\ DOMAIN messages = 1..Len(messages)
      /\ Len(frames) \in Nat /\ DOMAIN frames = 1..Len(frames)
  BY DEF ServerType
<1>2. m <= Len(w) /\ messages' = Append(messages, new) /\ frames' = frames \o more
  BY DEF Send
<1>3. w[m] \in [reliability : Reliability, channel : Channel, parts : 1..MaxParts]
  <2>1. w \in Seq([reliability : Reliability, channel : Channel, parts : 1..MaxParts])
    BY WorkloadAssumption
  <2>2. m \in 1..Len(w)
    BY <1>1, <1>2, <2>1
  <2> QED BY <2>1, <2>2, ElementOfSeq
<1>4. StreamLength(w[m].reliability, w[m].channel) \in Nat
  <2>1. IsFiniteSet(DOMAIN messages)
    BY <1>1, FS_Interval
  <2>2. \A T \in SUBSET DOMAIN messages : Cardinality(T) \in Nat
    BY <2>1, FS_Subset, FS_CardinalityType
  <2> QED BY <2>2 DEF StreamLength, OrderedIn, SequencedIn
<1>5. new \in Message /\ w[m].parts \in 1..MaxParts /\ m \in Id
  BY <1>1, <1>3, <1>4 DEF Message, Id
<1>6. w[m].parts \in Nat
  BY <1>5, WorkloadAssumption
<1> HIDE DEF new
<1>7. /\ messages' \in Seq(Message) /\ Len(messages') = m
      /\ \A j \in 1..Len(messages) : messages'[j] = messages[j]
  BY <1>1, <1>2, <1>5, AppendProperties DEF ServerType
<1>8. more \in Seq(Frame) /\ Len(more) = w[m].parts
  <2>1. \A p \in 1..w[m].parts : [message |-> m, part |-> p] \in Frame
    BY <1>5, <1>6, WorkloadAssumption DEF Frame
  <2> QED BY <1>6, <2>1
<1>9. \A p \in 1..Len(more) : more[p].message = m
  BY <1>8
<1> HIDE DEF more
<1>10. /\ frames' \in Seq(Frame) /\ Len(frames') = Len(frames) + Len(more)
       /\ \A k \in 1..Len(frames') :
            frames'[k] = IF k <= Len(frames) THEN frames[k] ELSE more[k - Len(frames)]
  <2>1. frames \in Seq(Frame)
    BY DEF ServerType
  <2> QED BY <1>2, <1>8, <2>1, ConcatProperties
<1>11. /\ DOMAIN messages' = 1..m /\ Len(more) \in Nat
       /\ DOMAIN frames' = 1..(Len(frames) + Len(more))
  BY <1>6, <1>7, <1>8, <1>10
<1>12. ASSUME NEW k \in DOMAIN frames'
       PROVE  frames'[k].message \in DOMAIN messages'
  <2>1. CASE k <= Len(frames)
    <3>1. k \in DOMAIN frames /\ frames'[k] = frames[k]
      BY <1>1, <1>10, <1>11, <2>1
    <3>2. frames[k].message \in 1..Len(messages)
      BY <1>1, <3>1 DEF ServerType
    <3> QED BY <1>1, <1>11, <3>1, <3>2
  <2>2. CASE ~(k <= Len(frames))
    <3>1. k - Len(frames) \in 1..Len(more) /\ frames'[k] = more[k - Len(frames)]
      BY <1>1, <1>10, <1>11, <2>2
    <3> QED BY <1>1, <1>9, <1>11, <3>1
  <2> QED BY <2>1, <2>2
<1>13. ServerType'
  BY <1>7, <1>10, <1>12 DEF ServerType
<1>14. /\ DOMAIN messages \subseteq DOMAIN messages'
       /\ DOMAIN frames \subseteq DOMAIN frames'
       /\ \A k \in DOMAIN frames : frames'[k] = frames[k]
  <2>1. \A k \in 1..Len(frames) : k \in 1..(Len(frames) + Len(more)) /\ k <= Len(frames)
    BY <1>1, <1>11
  <2> QED BY <1>1, <1>10, <1>11, <2>1
<1>15. /\ messages'[m] = new /\ w[m].parts = messages'[m].parts
       /\ messages'[m].index = StreamLength(messages'[m].reliability,
                                           messages'[m].channel)
       /\ messages'[m].parts \in 1..MaxParts
  <2>1. messages \in Seq(Message)
    BY DEF ServerType
  <2>2. messages'[m] = new
    BY <1>1, <1>2, <1>5, <2>1, AppendProperties
  <2> QED BY <1>5, <2>2 DEF new
<1>16. /\ Len(frames') = Len(frames) + messages'[m].parts
       /\ \A p \in 1..messages'[m].parts :
            frames'[Len(frames) + p] = [message |-> m, part |-> p]
  <2>1. \A p \in 1..w[m].parts : more[p] = [message |-> m, part |-> p]
    BY DEF more
  <2>2. \A p \in 1..w[m].parts :
          /\ Len(frames) + p \in 1..Len(frames') /\ ~(Len(frames) + p <= Len(frames))
          /\ (Len(frames) + p) - Len(frames) = p
    BY <1>1, <1>6, <1>8, <1>10
  <2>3. \A p \in 1..w[m].parts : frames'[Len(frames) + p] = more[p]
    BY <1>10, <2>2
  <2> QED BY <1>8, <1>10, <1>15, <2>1, <2>3
<1> QED BY <1>1, <1>7, <1>13, <1>14, <1>15, <1>16

\* Sending disturbs nothing of what the client holds.
LEMMA SendStep ==
  ASSUME ReceiverInv, NEW w \in Workload, Send(w)
  PROVE  ReceiverInv'
<1> USE DEF streams, assembly
<1>1. /\ ServerType'
      /\ DOMAIN messages \subseteq DOMAIN messages'
      /\ \A m \in DOMAIN messages : messages'[m] = messages[m]
      /\ DOMAIN frames \subseteq DOMAIN frames'
  BY SendEffect DEF ReceiverInv
<1>2. UNCHANGED <<arrived, received, streams, assembly, delivered, lost, expired>>
  BY DEF Send
<1>3. StreamType'
  <2>1. \A s \in Seq(DOMAIN messages) : s \in Seq(DOMAIN messages')
    BY <1>1
  <2> QED BY <1>1, <1>2, <2>1 DEF ReceiverInv, StreamType
<1>4. WindowType'
  BY <1>1, <1>2 DEF ReceiverInv, WindowType
<1>5. HeldInv'
  <2>1. \A c \in Channel : \A h \in ordered[c] : h \in DOMAIN messages
    BY DEF ReceiverInv, StreamType
  <2>2. \A h \in DOMAIN messages : Slot(h)' = Slot(h)
    BY <1>1 DEF Slot
  <2> QED BY <1>1, <1>2, <2>1, <2>2 DEF ReceiverInv, HeldInv, OrderedIn
<1>6. SplitInv' /\ CountInv'
  BY <1>1, <1>2 DEF ReceiverInv, SplitInv, CountInv, Held
<1> QED BY <1>1, <1>3, <1>4, <1>5, <1>6 DEF ReceiverInv

-----------------------------------------------------------------------------
(* The streams *)

StreamInv == StreamType /\ HeldInv /\ orderedCount = Cardinality(Held)

\* A message that is put with the others of its channel, where its index is
\* free.
LEMMA HoldMessage ==
  ASSUME ServerType, StreamInv, NEW m \in DOMAIN messages, NEW c \in Channel,
         m \in OrderedIn(c), ~Taken(c, Slot(m)),
         ordered' = [ordered EXCEPT ![c] = @ \cup {m}],
         orderedCount' = orderedCount + 1, messages' = messages
  PROVE  /\ ordered' \in [Channel -> SUBSET DOMAIN messages']
         /\ HeldInv' /\ orderedCount' = Cardinality(Held')
<1>1. ordered \in [Channel -> SUBSET DOMAIN messages]
  BY DEF StreamInv, StreamType
<1>2. /\ ordered'[c] = ordered[c] \cup {m}
      /\ \A d \in Channel \ {c} : ordered'[d] = ordered[d]
      /\ ordered' \in [Channel -> SUBSET DOMAIN messages']
  BY <1>1
<1>3. m \notin Held
  <2> SUFFICES ASSUME NEW d \in Channel, m \in ordered[d] PROVE FALSE
    BY DEF Held
  <2>1. d = c
    BY DEF StreamInv, HeldInv, OrderedIn
  <2> QED BY <2>1 DEF Taken
<1>4. Held' = Held \cup {m}
  BY <1>2 DEF Held
<1>5. \A h \in DOMAIN messages : Slot(h)' = Slot(h)
  BY DEF Slot
<1>6. HeldInv'
  <2> SUFFICES ASSUME NEW d \in Channel
               PROVE  /\ ordered'[d] \subseteq OrderedIn(d)
                      /\ \A g, h \in ordered'[d] : Slot(g) = Slot(h) => g = h
    BY <1>2, <1>5 DEF HeldInv, OrderedIn
  <2>1. /\ ordered[d] \subseteq OrderedIn(d)
        /\ \A g, h \in ordered[d] : Slot(g) = Slot(h) => g = h
    BY DEF StreamInv, HeldInv
  <2>2. CASE d = c
    BY <1>2, <2>1, <2>2 DEF Taken
  <2>3. CASE d # c
    BY <1>2, <2>1, <2>3
  <2> QED BY <2>2, <2>3
<1>7. Cardinality(Held') = Cardinality(Held) + 1
  BY <1>3, <1>4, HeldFinite, FS_AddElement DEF StreamInv
<1> QED BY <1>2, <1>6, <1>7 DEF StreamInv

\* The messages that waited behind i without a gap are as many as the indices
\* they had.
LEMMA ReleasedMany ==
  ASSUME ServerType, StreamInv, NEW c \in Channel, NEW i \in Wire, NEW n \in Nat,
         \A j \in 1..n : Taken(c, (i + j) % Space),
         ~Taken(c, (i + n + 1) % Space)
  PROVE  /\ Cardinality({h \in ordered[c] :
                           \E j \in 1..n : Slot(h) = (i + j) % Space}) = n
         /\ \A j \in 1..n : Holder(c, (i + j) % Space) \in ordered[c]
<1> DEFINE R == {h \in ordered[c] : \E j \in 1..n : Slot(h) = (i + j) % Space}
           f == [j \in 1..n |-> Holder(c, (i + j) % Space)]
<1>1. ASSUME NEW j \in 1..n
      PROVE  f[j] \in ordered[c] /\ Slot(f[j]) = (i + j) % Space
  BY DEF Taken, Holder
<1>2. \A j, k \in 1..n : (i + j) % Space = (i + k) % Space => j = k
  <2>1. \A j \in 1..n : (i + n + 1) % Space # (i + j) % Space
    OBVIOUS
  <2> QED BY <2>1, IndicesInRow
<1>3. \A j \in 1..n : f[j] \in R
  BY <1>1
<1>4. \A j, k \in 1..n : f[j] = f[k] => j = k
  <2> HIDE DEF f
  <2> QED BY <1>1, <1>2
<1>5. \A h \in R : \E j \in 1..n : f[j] = h
  <2> SUFFICES ASSUME NEW h \in R PROVE \E j \in 1..n : f[j] = h
    OBVIOUS
  <2>1. PICK j \in 1..n : Slot(h) = (i + j) % Space
    OBVIOUS
  <2>2. f[j] = h
    <3> HIDE DEF f
    <3> QED BY <1>1, <2>1 DEF StreamInv, HeldInv
  <2> QED BY <2>2
<1>6. f \in Bijection(1..n, R)
  <2>1. f \in [1..n -> R]
    BY <1>3
  <2> HIDE DEF f, R
  <2> QED BY <1>4, <1>5, <2>1 DEF Bijection, Injection, Surjection, IsInjective
<1>7. IsFiniteSet(1..n) /\ Cardinality(1..n) = n
  BY FS_Interval
<1> HIDE DEF f, R
<1>8. Cardinality(R) = n
  BY <1>6, <1>7, FS_Bijection DEF ExistsBijection
<1> QED BY <1>1, <1>8 DEF R, f

\* The next ordered message goes out with those that waited for it, and they
\* are counted off.
LEMMA InOrderStep ==
  ASSUME ServerType, StreamInv, NEW m \in DOMAIN messages, NEW c \in Channel,
         messages[m].channel = c, InOrder(m, c, Slot(m)), messages' = messages
  PROVE  StreamInv'
<1> DEFINE i == Slot(m)
<1>0. messages[m].index \in Nat /\ i \in Wire
  <2>1. messages[m] \in Message
    BY DEF ServerType
  <2> QED BY <2>1, Residue DEF Message, Slot
<1> HIDE DEF i
<1>1. PICK n \in 0..Cardinality(ordered[c]) :
        LET slots == {(i + j) % Space : j \in 1..n}
        IN /\ \A s \in slots : Taken(c, s)
           /\ ~Taken(c, (i + n + 1) % Space)
           /\ delivered' = Append(delivered, m)
                             \o [j \in 1..n |-> Holder(c, (i + j) % Space)]
           /\ ordered' = [ordered EXCEPT ![c] = {h \in @ : Slot(h) \notin slots}]
           /\ orderedCount' = orderedCount - n
           /\ expected' = [expected EXCEPT ![c] = (i + n + 1) % Space]
           /\ UNCHANGED <<sequenced, lost>>
  BY DEF InOrder, Release, i
<1> DEFINE slots == {(i + j) % Space : j \in 1..n}
           R == {h \in ordered[c] : Slot(h) \in slots}
           waited == [j \in 1..n |-> Holder(c, (i + j) % Space)]
<1>2. ordered \in [Channel -> SUBSET DOMAIN messages] /\ IsFiniteSet(ordered[c])
  BY HeldFinite DEF StreamInv, StreamType
<1>3. n \in Nat
  BY <1>2, FS_CardinalityType
<1>4. /\ \A j \in 1..n : Taken(c, (i + j) % Space)
      /\ ~Taken(c, (i + n + 1) % Space)
      /\ ordered' = [ordered EXCEPT ![c] = {h \in @ : Slot(h) \notin slots}]
  BY <1>1
<1>5. /\ Cardinality(R) = n
      /\ \A j \in 1..n : Holder(c, (i + j) % Space) \in ordered[c]
  <2>1. R = {h \in ordered[c] : \E j \in 1..n : Slot(h) = (i + j) % Space}
    OBVIOUS
  <2>2. \A j \in 1..n : Taken(c, (i + j) % Space)
    BY <1>4
  <2>3. ~Taken(c, (i + n + 1) % Space)
    BY <1>4
  <2> HIDE DEF R
  <2> QED BY <1>0, <1>3, <2>1, <2>2, <2>3, ReleasedMany
<1>6. /\ ordered'[c] = ordered[c] \ R
      /\ \A d \in Channel \ {c} : ordered'[d] = ordered[d]
      /\ ordered' \in [Channel -> SUBSET DOMAIN messages']
  BY <1>2, <1>4
<1>7. R \subseteq ordered[c]
  OBVIOUS
<1> HIDE DEF R, slots
<1>8. Held' = Held \ R
  <2>1. ASSUME NEW d \in Channel \ {c}, NEW h \in ordered[d]
        PROVE  h \notin R
    BY <1>7 DEF StreamInv, HeldInv, OrderedIn
  <2> QED BY <1>6, <2>1 DEF Held
<1>9. Cardinality(Held') = Cardinality(Held) - n
  <2>1. R = Held \cap R
    BY <1>7 DEF Held
  <2> QED BY <1>5, <1>8, <2>1, HeldFinite, FS_Difference DEF StreamInv
<1>10. HeldInv'
  <2>1. \A d \in Channel : ordered'[d] \subseteq ordered[d]
    BY <1>6
  <2>2. \A d \in Channel : \A h \in ordered[d] : Slot(h)' = Slot(h)
    BY DEF Slot
  <2> QED BY <2>1, <2>2 DEF StreamInv, HeldInv, OrderedIn
<1>11. delivered' \in Seq(DOMAIN messages')
  <2>1. Append(delivered, m) \in Seq(DOMAIN messages)
    BY AppendProperties DEF StreamInv, StreamType
  <2>2. waited \in Seq(DOMAIN messages)
    <3>1. \A j \in 1..n : Holder(c, (i + j) % Space) \in DOMAIN messages
      BY <1>2, <1>5
    <3> QED BY <1>3, <3>1
  <2>3. delivered' = Append(delivered, m) \o waited
    BY <1>1
  <2> HIDE DEF waited
  <2>4. delivered' \in Seq(DOMAIN messages)
    BY <2>1, <2>2, <2>3, ConcatProperties
  <2> QED BY <2>4
<1>12. expected' \in [Channel -> Wire]
  <2>1. i + n + 1 \in Nat
    BY <1>0, <1>3 DEF Wire
  <2>2. (i + n + 1) % Space \in Wire
    BY <2>1, Residue
  <2> QED BY <1>1, <2>2 DEF StreamInv, StreamType
<1>13. StreamType'
  BY <1>1, <1>6, <1>11, <1>12 DEF StreamInv, StreamType
<1>14. orderedCount' = Cardinality(Held')
  BY <1>1, <1>9 DEF StreamInv
<1> QED BY <1>10, <1>13, <1>14 DEF StreamInv

\* A whole message leaves its stream as it was: what is held is counted, in its
\* channel, each index once.
LEMMA PlaceStep ==
  ASSUME ServerType, StreamInv, NEW m \in DOMAIN messages, Place(m),
         messages' = messages
  PROVE  StreamInv'
<1> DEFINE c == messages[m].channel
<1> USE DEF streams
<1>1. messages[m] \in Message /\ c \in Channel /\ messages[m].index \in Nat
  <2>1. messages[m] \in Message
    BY DEF ServerType
  <2> QED BY <2>1 DEF Message
<1> HIDE DEF c
<1>2. Slot(m) \in Wire
  BY <1>1, Residue DEF Slot
<1>3. Append(delivered, m) \in Seq(DOMAIN messages)
  BY AppendProperties DEF StreamInv, StreamType
<1>4. ASSUME UNCHANGED <<ordered, orderedCount>>
      PROVE  HeldInv' /\ orderedCount' = Cardinality(Held')
  BY <1>4 DEF StreamInv, HeldInv, Held, Slot, OrderedIn
<1>5. CASE InOrder(m, c, Slot(m))
  BY <1>1, <1>5, InOrderStep DEF c
<1>6. CASE Ordered(messages[m].reliability) /\ Ahead(m, c, Slot(m))
  <2>1. UNCHANGED <<delivered, expected, sequenced>> /\ ~Taken(c, Slot(m))
    BY <1>6 DEF Ahead
  <2>2. CASE /\ ordered' = [ordered EXCEPT ![c] = @ \cup {m}]
             /\ orderedCount' = orderedCount + 1 /\ lost' = lost
    <3>1. /\ ordered' \in [Channel -> SUBSET DOMAIN messages']
          /\ HeldInv' /\ orderedCount' = Cardinality(Held')
      <4>1. m \in OrderedIn(c)
        BY <1>6 DEF OrderedIn, c
      <4> QED BY <1>1, <2>1, <2>2, <4>1, HoldMessage
    <3> QED BY <2>1, <2>2, <3>1 DEF StreamInv, StreamType
  <2>3. CASE lost' = lost \cup {m} /\ UNCHANGED <<ordered, orderedCount>>
    BY <1>4, <2>1, <2>3 DEF StreamInv, StreamType
  <2> QED BY <1>6, <2>2, <2>3 DEF Ahead
<1>7. CASE Behind(c, Slot(m))
  BY <1>4, <1>7 DEF Behind, StreamInv, StreamType
<1>8. CASE Newest(m, c, Slot(m))
  <2>1. /\ UNCHANGED <<ordered, expected, orderedCount, lost>>
        /\ \/ UNCHANGED <<delivered, sequenced>>
           \/ /\ sequenced' = [sequenced EXCEPT ![c] = {Slot(m)}]
              /\ delivered' = Append(delivered, m)
    BY <1>8 DEF Newest
  <2>2. delivered' \in Seq(DOMAIN messages') /\ sequenced' \in [Channel -> SUBSET Wire]
    BY <1>2, <1>3, <2>1 DEF StreamInv, StreamType
  <2> QED BY <1>4, <2>1, <2>2 DEF StreamInv, StreamType
<1>9. CASE Unordered(m)
  BY <1>3, <1>4, <1>9 DEF Unordered, StreamInv, StreamType
<1> QED
  BY <1>5, <1>6, <1>7, <1>8, <1>9 DEF Place, c

-----------------------------------------------------------------------------
(* The assemblies *)

\* The parts of an assembly that is dropped are counted off.
LEMMA DropCounted ==
  ASSUME SplitInv, splitBytes = Cardinality(splits), NEW m, DropSplit(m),
         messages' = messages
  PROVE  SplitInv' /\ splitBytes' = Cardinality(splits')
<1>1. IsFiniteSet(splits) /\ splits' = splits \ Parts(m)
  BY DEF SplitInv, DropSplit
<1>2. splits \cap Parts(m) = Parts(m)
  BY DEF Parts
<1>3. /\ IsFiniteSet(splits')
      /\ Cardinality(splits') = Cardinality(splits) - Cardinality(Parts(m))
  <2>1. /\ IsFiniteSet(splits \ Parts(m))
        /\ Cardinality(splits \ Parts(m))
             = Cardinality(splits) - Cardinality(splits \cap Parts(m))
    BY <1>1, FS_Difference, Zenon
  <2> QED BY <1>1, <1>2, <2>1
<1> QED BY <1>1, <1>3 DEF SplitInv, DropSplit

\* A frame leaves the streams and the assemblies counted, whichever limit it
\* meets.
LEMMA AcceptStep ==
  ASSUME ServerType, StreamInv, SplitInv, splitBytes = Cardinality(splits),
         NEW f \in Frame, f.message \in DOMAIN messages, Accept(f),
         messages' = messages
  PROVE  StreamInv' /\ SplitInv' /\ splitBytes' = Cardinality(splits')
<1> USE DEF streams, assembly
<1> DEFINE m == f.message
<1>1. ASSUME UNCHANGED <<streams, delivered>>, lost' = lost \/ lost' = lost \cup {m}
      PROVE  StreamInv'
  <2>1. StreamType' /\ orderedCount' = Cardinality(Held')
    BY <1>1 DEF StreamInv, StreamType, Held
  <2>2. HeldInv'
    BY <1>1 DEF StreamInv, HeldInv, Slot, OrderedIn
  <2> QED BY <2>1, <2>2 DEF StreamInv
<1>2. CASE Place(m) /\ UNCHANGED assembly
  BY <1>2, PlaceStep DEF SplitInv
<1>3. CASE SplitRefused(f)
  BY <1>1, <1>3 DEF SplitRefused, SplitInv
<1>4. CASE /\ DropSplit(m) /\ lost' = lost \cup {m}
           /\ UNCHANGED <<streams, delivered>>
  BY <1>1, <1>4, DropCounted
<1>5. CASE DropSplit(m) /\ Place(m)
  BY <1>5, DropCounted, PlaceStep
<1>6. CASE /\ splits' = splits \cup {f}
           /\ splitBytes' = splitBytes + Cardinality({f} \ splits)
           /\ UNCHANGED <<streams, delivered, lost>>
  <2>1. /\ IsFiniteSet(splits')
        /\ Cardinality(splits') =
             IF f \in splits THEN Cardinality(splits) ELSE Cardinality(splits) + 1
    BY <1>6, FS_AddElement DEF SplitInv
  <2>2. Cardinality({f} \ splits) = IF f \in splits THEN 0 ELSE 1
    <3>1. CASE f \in splits
      <4>1. {f} \ splits = {}
        BY <3>1
      <4> QED BY <3>1, <4>1, FS_EmptySet
    <3>2. CASE f \notin splits
      <4>1. {f} \ splits = {f}
        BY <3>2
      <4> QED BY <3>2, <4>1, FS_Singleton
    <3> QED BY <3>1, <3>2
  <2>3. Cardinality(splits) \in Nat
    BY FS_CardinalityType DEF SplitInv
  <2>4. splitBytes' = Cardinality(splits')
    BY <1>6, <2>1, <2>2, <2>3
  <2>5. SplitInv'
    BY <1>6, <2>1 DEF SplitInv
  <2> QED BY <1>1, <1>6, <2>4, <2>5
<1> QED
  BY <1>2, <1>3, <1>4, <1>5, <1>6 DEF Accept, SplitPart

\* A frame that arrives, for the first time or again.
LEMMA ReceiveStep ==
  ASSUME ReceiverInv, NEW k \in UnderWay, Receive(k)
  PROVE  ReceiverInv'
<1> USE DEF server, streams, assembly
<1>1. /\ k \in DOMAIN frames /\ DOMAIN frames = 1..Len(frames) /\ Len(frames) \in Nat
      /\ frames[k] \in Frame /\ frames[k].message \in DOMAIN messages
  BY DEF UnderWay, ReceiverInv, ServerType
<1>2. /\ arrived' = arrived \cup {k} /\ UNCHANGED <<messages, frames, expired>>
  BY DEF Receive
<1>3. Number(k) \in Wire
  BY <1>1, Residue DEF Number
<1>4. received' \subseteq Wire
  BY <1>3 DEF Receive, Remember, ReceiverInv, WindowType
<1>5. ServerType' /\ WindowType'
  BY <1>1, <1>2, <1>4 DEF ReceiverInv, ServerType, WindowType
<1>6. StreamInv /\ SplitInv /\ splitBytes = Cardinality(splits)
  BY DEF ReceiverInv, CountInv, StreamInv
<1>7. StreamInv' /\ SplitInv' /\ splitBytes' = Cardinality(splits')
  <2>1. CASE UNCHANGED <<streams, assembly, delivered, lost>>
    <3>1. StreamType' /\ orderedCount' = Cardinality(Held')
      BY <1>2, <1>6, <2>1 DEF StreamInv, StreamType, Held
    <3>2. HeldInv'
      BY <1>2, <1>6, <2>1 DEF StreamInv, HeldInv, Slot, OrderedIn
    <3>3. SplitInv' /\ splitBytes' = Cardinality(splits')
      BY <1>2, <1>6, <2>1 DEF SplitInv
    <3> QED BY <3>1, <3>2, <3>3 DEF StreamInv
  <2>2. CASE Accept(frames[k])
    BY <1>1, <1>2, <1>6, <2>2, AcceptStep DEF ReceiverInv
  <2> QED BY <2>1, <2>2 DEF Receive
<1> QED BY <1>5, <1>7 DEF ReceiverInv, CountInv, StreamInv

\* An assembly that expires is counted off.
LEMMA ExpireStep ==
  ASSUME ReceiverInv, NEW m \in Assemblies, Expire(m)
  PROVE  ReceiverInv'
<1> USE DEF server, streams, assembly
<1>1. UNCHANGED <<messages, frames, arrived, received, streams, delivered>>
  BY DEF Expire
<1>2. m \in DOMAIN messages
  BY DEF Assemblies, ReceiverInv, SplitInv
<1>3. expired' \in 0..MaxExpired
  BY WorkloadAssumption DEF Expire, ReceiverInv, WindowType
<1>4. ServerType' /\ WindowType'
  BY <1>1, <1>3 DEF ReceiverInv, ServerType, WindowType
<1>5. StreamType'
  BY <1>1, <1>2 DEF Expire, ReceiverInv, StreamType
<1>6. HeldInv' /\ orderedCount' = Cardinality(Held')
  BY <1>1 DEF ReceiverInv, HeldInv, Slot, OrderedIn, CountInv, Held
<1>7. SplitInv' /\ splitBytes' = Cardinality(splits')
  BY <1>1, DropCounted DEF Expire, ReceiverInv, CountInv
<1> QED BY <1>4, <1>5, <1>6, <1>7 DEF ReceiverInv, CountInv

-----------------------------------------------------------------------------
(* Types and counters *)

\* Nothing was sent, and nothing is held.
LEMMA ReceiverInit == Init => ReceiverInv
<1> SUFFICES ASSUME Init PROVE ReceiverInv
  OBVIOUS
<1>1. ServerType /\ WindowType
  BY WorkloadAssumption DEF Init, ServerType, WindowType
<1>2. 0 \in Wire
  BY SpaceNumber DEF Wire
<1>3. StreamType /\ HeldInv
  BY <1>2 DEF Init, StreamType, HeldInv
<1>4. Held = {}
  BY DEF Init, Held
<1> QED BY <1>1, <1>3, <1>4, FS_EmptySet DEF Init, ReceiverInv, SplitInv, CountInv

\* accept's counters are exact in every state: the limits refuse nothing for
\* messages that are no longer held, and hold nothing that is not counted.
LEMMA ReceiverCorrect == Spec => []ReceiverInv
<1>1. ReceiverInv /\ [Next]_vars => ReceiverInv'
  <2> SUFFICES ASSUME ReceiverInv, [Next]_vars PROVE ReceiverInv'
    OBVIOUS
  <2>1. CASE UNCHANGED vars
    <3> USE <2>1 DEF vars, server, streams, assembly
    <3>1. ServerType' /\ WindowType' /\ StreamType'
      BY DEF ReceiverInv, ServerType, WindowType, StreamType
    <3>2. HeldInv' /\ SplitInv' /\ CountInv'
      BY DEF ReceiverInv, HeldInv, Slot, OrderedIn, SplitInv, CountInv, Held
    <3> QED BY <3>1, <3>2 DEF ReceiverInv
  <2> QED BY <2>1, SendStep, ReceiveStep, ExpireStep DEF Next
<1> QED BY <1>1, ReceiverInit, PTL DEF Spec

-----------------------------------------------------------------------------
(* The streams of the server *)

\* The messages of a stream are numbered one after the other, and no message
\* takes two numbers.
InRow(T) ==
  /\ \A m \in T :
       /\ messages[m].index < Cardinality(T)
       /\ Cardinality(T) + m <= messages[m].index + Len(messages) + 1
  /\ \A l, m \in T : l < m => messages[l].index < messages[m].index
  /\ \A i \in 0..(Cardinality(T) - 1) : \E m \in T : messages[m].index = i

IndexInv == \A c \in Channel : InRow(OrderedIn(c)) /\ InRow(SequencedIn(c))

\* The frames are the parts of the messages, in their order.
FrameInv ==
  /\ \A k \in DOMAIN frames :
       /\ frames[k].part <= messages[frames[k].message].parts
       /\ Len(messages) + k <= Len(frames) + frames[k].message
  /\ \A m \in DOMAIN messages : \A p \in 1..messages[m].parts :
       \E k \in DOMAIN frames : frames[k] = [message |-> m, part |-> p]

\* The streams are sets of messages sent, each with a length.
LEMMA StreamSets ==
  ASSUME ServerType
  PROVE  /\ Len(messages) \in Nat /\ DOMAIN messages = 1..Len(messages)
         /\ Len(frames) \in Nat /\ DOMAIN frames = 1..Len(frames)
         /\ \A m \in DOMAIN messages :
              /\ messages[m].index \in Nat /\ messages[m].parts \in Nat
              /\ messages[m].parts >= 1
              /\ messages[m].channel \in Channel
         /\ \A T \in SUBSET DOMAIN messages :
              IsFiniteSet(T) /\ Cardinality(T) \in Nat
         /\ \A c \in Channel : /\ OrderedIn(c) \in SUBSET DOMAIN messages
                               /\ SequencedIn(c) \in SUBSET DOMAIN messages
<1>1. /\ Len(messages) \in Nat /\ DOMAIN messages = 1..Len(messages)
      /\ Len(frames) \in Nat /\ DOMAIN frames = 1..Len(frames)
  BY DEF ServerType
<1>2. IsFiniteSet(DOMAIN messages)
  BY <1>1, FS_Interval
<1>3. \A T \in SUBSET DOMAIN messages : IsFiniteSet(T) /\ Cardinality(T) \in Nat
  BY <1>2, FS_Subset, FS_CardinalityType
<1>4. ASSUME NEW m \in DOMAIN messages
      PROVE  /\ messages[m].index \in Nat /\ messages[m].parts \in Nat
             /\ messages[m].parts >= 1
             /\ messages[m].channel \in Channel
  <2>1. messages[m] \in Message
    BY DEF ServerType
  <2> QED BY <2>1, WorkloadAssumption DEF Message
<1> QED BY <1>1, <1>3, <1>4 DEF OrderedIn, SequencedIn

\* One more message, in a stream or beside it, leaves the stream in a row.
LEMMA InRowMore ==
  ASSUME ServerType, NEW T \in SUBSET DOMAIN messages, InRow(T),
         NEW m, m = Len(messages) + 1, Len(messages') = m,
         \A j \in DOMAIN messages : messages'[j] = messages[j],
         NEW U, \/ U = T
                \/ U = T \cup {m} /\ messages'[m].index = Cardinality(T)
  PROVE  InRow(U)'
<1> USE StreamSets
<1>1. CASE U = T
  <2>1. \A j \in T : messages'[j] = messages[j]
    OBVIOUS
  <2>2. \A j \in T : /\ messages'[j].index < Cardinality(T)
                     /\ Cardinality(T) + j <= messages'[j].index + Len(messages') + 1
    <3> SUFFICES ASSUME NEW j \in T
                 PROVE  /\ messages'[j].index < Cardinality(T)
                        /\ Cardinality(T) + j <= messages'[j].index + Len(messages') + 1
      OBVIOUS
    <3>1. /\ messages[j].index < Cardinality(T)
          /\ Cardinality(T) + j <= messages[j].index + Len(messages) + 1
      BY DEF InRow
    <3>2. messages[j].index \in Nat /\ Cardinality(T) \in Nat /\ j \in Nat
      OBVIOUS
    <3> QED BY <2>1, <3>1, <3>2
  <2> QED BY <1>1, <2>1, <2>2 DEF InRow
<1>2. CASE U = T \cup {m} /\ messages'[m].index = Cardinality(T)
  <2> DEFINE n == Cardinality(T)
  <2>1. n \in Nat /\ m \notin T /\ IsFiniteSet(T) /\ m \in Nat
    OBVIOUS
  <2>2. Cardinality(U) = n + 1
    BY <1>2, <2>1, FS_AddElement
  <2>3. ASSUME NEW j \in T
        PROVE  /\ messages'[j].index = messages[j].index /\ messages[j].index \in Nat
               /\ j \in Nat /\ j < m /\ messages[j].index < n
               /\ n + j <= messages[j].index + Len(messages) + 1
    BY DEF InRow
  <2>4. messages'[m].index = n
    BY <1>2
  <2>5. \A i \in 0..(n - 1) : \E j \in T : messages'[j].index = i
    BY <2>3 DEF InRow
  <2>6. \A j, l \in T : j < l => messages'[j].index < messages'[l].index
    BY <2>3 DEF InRow
  <2> HIDE DEF n
  <2>7. \A j \in U : /\ messages'[j].index < n + 1
                     /\ (n + 1) + j <= messages'[j].index + Len(messages') + 1
    BY <1>2, <2>1, <2>3, <2>4
  <2>8. \A j, l \in U : j < l => messages'[j].index < messages'[l].index
    BY <1>2, <2>1, <2>3, <2>4, <2>6
  <2>9. \A i \in 0..((n + 1) - 1) : \E j \in U : messages'[j].index = i
    BY <1>2, <2>1, <2>4, <2>5
  <2> QED BY <2>2, <2>7, <2>8, <2>9 DEF InRow
<1> QED BY <1>1, <1>2

\* A new message is the last of its stream, if it has one.
LEMMA StreamsSent ==
  ASSUME ServerType, NEW w \in Workload, Send(w), NEW c \in Channel,
         NEW m, m = Len(messages) + 1
  PROVE  /\ \/ OrderedIn(c)' = OrderedIn(c)
            \/ /\ OrderedIn(c)' = OrderedIn(c) \cup {m}
               /\ messages'[m].index = Cardinality(OrderedIn(c))
         /\ \/ SequencedIn(c)' = SequencedIn(c)
            \/ /\ SequencedIn(c)' = SequencedIn(c) \cup {m}
               /\ messages'[m].index = Cardinality(SequencedIn(c))
<1>1. /\ Len(messages') = m /\ messages' \in Seq(Message)
      /\ \A j \in DOMAIN messages : messages'[j] = messages[j]
      /\ messages'[m].index = StreamLength(messages'[m].reliability,
                                          messages'[m].channel)
  BY SendEffect DEF ServerType
<1>2. DOMAIN messages' = DOMAIN messages \cup {m} /\ m \notin DOMAIN messages
  BY <1>1, StreamSets
<1>3. OrderedIn(c)' = IF /\ messages'[m].channel = c
                         /\ Ordered(messages'[m].reliability)
                        THEN OrderedIn(c) \cup {m} ELSE OrderedIn(c)
  BY <1>1, <1>2 DEF OrderedIn
<1>4. SequencedIn(c)' = IF /\ messages'[m].channel = c
                           /\ Sequenced(messages'[m].reliability)
                          THEN SequencedIn(c) \cup {m} ELSE SequencedIn(c)
  BY <1>1, <1>2 DEF SequencedIn
<1> QED BY <1>1, <1>3, <1>4 DEF StreamLength, Ordered, Sequenced

\* A new message leaves every stream in a row.
LEMMA IndexStep ==
  ASSUME ServerType, IndexInv, NEW w \in Workload, Send(w)
  PROVE  IndexInv'
<1> DEFINE m == Len(messages) + 1
<1>1. Len(messages') = m /\ \A j \in DOMAIN messages : messages'[j] = messages[j]
  BY SendEffect
<1>2. ASSUME NEW c \in Channel, NEW T, T = OrderedIn(c)'
      PROVE  InRow(T)'
  <2>1. \/ T = OrderedIn(c)
        \/ T = OrderedIn(c) \cup {m} /\ messages'[m].index = Cardinality(OrderedIn(c))
    BY <1>2, StreamsSent
  <2>2. InRow(OrderedIn(c)) /\ OrderedIn(c) \in SUBSET DOMAIN messages
    BY StreamSets DEF IndexInv
  <2> QED BY <1>1, <2>1, <2>2, InRowMore
<1>3. ASSUME NEW c \in Channel, NEW T, T = SequencedIn(c)'
      PROVE  InRow(T)'
  <2>1. \/ T = SequencedIn(c)
        \/ T = SequencedIn(c) \cup {m} /\ messages'[m].index = Cardinality(SequencedIn(c))
    BY <1>3, StreamsSent
  <2>2. InRow(SequencedIn(c)) /\ SequencedIn(c) \in SUBSET DOMAIN messages
    BY StreamSets DEF IndexInv
  <2> QED BY <1>1, <2>1, <2>2, InRowMore
<1> QED BY <1>2, <1>3 DEF IndexInv, InRow

\* The frames of a new message come behind all others.
LEMMA FrameStep ==
  ASSUME ServerType, FrameInv, NEW w \in Workload, Send(w)
  PROVE  FrameInv'
<1> DEFINE m == Len(messages) + 1
           q == messages'[m].parts
<1>1. /\ ServerType'
      /\ Len(messages') = m /\ \A j \in DOMAIN messages : messages'[j] = messages[j]
      /\ \A k \in DOMAIN frames : frames'[k] = frames[k]
      /\ q \in 1..MaxParts /\ Len(frames') = Len(frames) + q
      /\ \A p \in 1..q : frames'[Len(frames) + p] = [message |-> m, part |-> p]
  BY SendEffect
<1>2. /\ DOMAIN messages' = DOMAIN messages \cup {m} /\ m \notin DOMAIN messages
      /\ q \in Nat /\ q >= 1 /\ m \in Nat
      /\ DOMAIN frames' = 1..(Len(frames) + q)
  BY <1>1, StreamSets, WorkloadAssumption DEF ServerType
<1>3. ASSUME NEW k \in DOMAIN frames
      PROVE  /\ frames'[k].part <= messages'[frames'[k].message].parts
             /\ Len(messages') + k <= Len(frames') + frames'[k].message
  <2>1. /\ frames'[k] = frames[k] /\ frames[k].message \in DOMAIN messages
        /\ messages'[frames[k].message] = messages[frames[k].message]
    BY <1>1 DEF ServerType
  <2>2. /\ frames[k].part <= messages[frames[k].message].parts
        /\ Len(messages) + k <= Len(frames) + frames[k].message
    BY DEF FrameInv
  <2>3. k \in Nat /\ frames[k].message \in Nat
    BY <2>1, StreamSets
  <2> QED BY <1>1, <1>2, <2>1, <2>2, <2>3, StreamSets
<1>4. ASSUME NEW p \in 1..q
      PROVE  /\ Len(frames) + p \in DOMAIN frames'
             /\ frames'[Len(frames) + p].part
                  <= messages'[frames'[Len(frames) + p].message].parts
             /\ Len(messages') + (Len(frames) + p)
                  <= Len(frames') + frames'[Len(frames) + p].message
  <2>1. frames'[Len(frames) + p] = [message |-> m, part |-> p]
    BY <1>1
  <2>2. p \in Nat /\ p <= q
    BY <1>2
  <2> HIDE DEF m
  <2> QED BY <1>1, <1>2, <2>1, <2>2, StreamSets
<1>5. \A k \in DOMAIN frames' : k \in DOMAIN frames \/ \E p \in 1..q : k = Len(frames) + p
  <2> SUFFICES ASSUME NEW k \in 1..(Len(frames) + q), ~(k \in 1..Len(frames))
               PROVE  \E p \in 1..q : k = Len(frames) + p
    BY <1>2, StreamSets
  <2>1. k - Len(frames) \in 1..q /\ k = Len(frames) + (k - Len(frames))
    BY <1>2, StreamSets
  <2> QED BY <2>1
<1>6. ASSUME NEW l \in DOMAIN messages, NEW p \in 1..messages[l].parts
      PROVE  \E k \in DOMAIN frames' : frames'[k] = [message |-> l, part |-> p]
  <2>1. PICK k \in DOMAIN frames : frames[k] = [message |-> l, part |-> p]
    BY DEF FrameInv
  <2> QED BY <1>1, <2>1, SendEffect
<1>7. \A l \in DOMAIN messages' : \A p \in 1..messages'[l].parts :
        \E k \in DOMAIN frames' : frames'[k] = [message |-> l, part |-> p]
  BY <1>1, <1>2, <1>4, <1>6
<1>8. \A k \in DOMAIN frames' :
        /\ frames'[k].part <= messages'[frames'[k].message].parts
        /\ Len(messages') + k <= Len(frames') + frames'[k].message
  BY <1>3, <1>4, <1>5
<1> QED BY <1>7, <1>8 DEF FrameInv

-----------------------------------------------------------------------------
(* The window *)

\* What left the flight has arrived.
FlightInv ==
  \A k \in DOMAIN frames :
    \/ k \in arrived
    \/ messages[frames[k].message].reliability = "unreliable"
    \/ k + Flight > Len(frames)

\* The number of a frame that arrived is forgotten before another one has it: it
\* keeps its place in the window with those of all that came behind its flight.
NumberInv ==
  /\ IsFiniteSet(received) /\ Cardinality(received) <= MaxReceivedWindow
  /\ \A n \in received : \E k \in arrived : Number(k) = n /\ k + Space > Len(frames)
  /\ \A j, k \in arrived :
       Number(j) \in received /\ j + Space > Len(frames) /\ j + Flight <= k =>
         Number(k) \in received

\* The bounds, as the proofs below need them.
LEMMA Bounds ==
  /\ Space \in Nat /\ Space > 0
  /\ MaxReceivedWindow \in Nat /\ MaxReceivedWindow >= 1
  /\ Flight \in Nat /\ Flight >= 1 /\ MaxLost \in Nat
  /\ MaxReceivedWindow + Flight + Flight + MaxLost <= Space
  /\ MaxParts \in Nat /\ MaxParts <= Flight
BY NumberAssumption, WorkloadAssumption

\* Two frames of the last Space have two numbers.
LEMMA NumberOfOne ==
  ASSUME NEW j \in Nat, NEW k \in Nat, j >= 1, k >= 1, Number(j) = Number(k),
         j < k + Space, k < j + Space
  PROVE  j = k
<1> DEFINE a == j - 1
           b == k - 1
<1>1. a \in Nat /\ b \in Nat /\ a < b + Space /\ b < a + Space
  BY SpaceNumber
<1>2. a % Space = b % Space
  BY DEF Number
<1> HIDE DEF a, b
<1>3. a = b
  BY <1>1, <1>2, SameNumber
<1> QED BY <1>3 DEF a, b

\* The frames of a stretch of numbers that are all in the window, but for a few,
\* are no more than fit in it.
LEMMA StretchFits ==
  ASSUME NEW lo \in Nat, NEW hi \in Nat, lo >= 1, lo <= hi + 1, hi < lo + Space,
         NEW L, IsFiniteSet(L), Cardinality(L) <= MaxLost,
         \A k \in lo..hi : k \in L \/ Number(k) \in received,
         IsFiniteSet(received), Cardinality(received) <= MaxReceivedWindow
  PROVE  (hi + 1) - lo <= MaxReceivedWindow + MaxLost
<1> DEFINE B == (lo..hi) \cap L
           A == (lo..hi) \ L
           f == [k \in A |-> Number(k)]
<1>1. IsFiniteSet(lo..hi) /\ Cardinality(lo..hi) = (hi + 1) - lo
  <2>1. /\ IsFiniteSet(lo..hi)
        /\ Cardinality(lo..hi) = IF lo > hi THEN 0 ELSE hi - lo + 1
    BY FS_Interval
  <2> HIDE DEF A, B, f
  <2> QED BY <2>1
<1>2. /\ IsFiniteSet(B) /\ Cardinality(B) <= Cardinality(L)
  BY FS_Subset
<1>3. IsFiniteSet(A) /\ Cardinality(A) = Cardinality(lo..hi) - Cardinality(B)
  BY <1>1, FS_Difference
<1>4. f \in Injection(A, received)
  <2>1. f \in [A -> received]
    OBVIOUS
  <2>2. ASSUME NEW j \in A, NEW k \in A, f[j] = f[k]
        PROVE  j = k
    <3>1. /\ j \in Nat /\ k \in Nat /\ j >= 1 /\ k >= 1
          /\ j < k + Space /\ k < j + Space
      BY SpaceNumber
    <3>2. Number(j) = Number(k)
      BY <2>2
    <3> QED BY <3>1, <3>2, NumberOfOne
  <2> HIDE DEF A, f
  <2> QED BY <2>1, <2>2 DEF Injection, IsInjective
<1>5. Cardinality(A) <= Cardinality(received)
  <2> HIDE DEF A, f
  <2> QED BY <1>4, FS_Injection
<1>6. /\ Cardinality(A) \in Nat /\ Cardinality(B) \in Nat /\ Cardinality(L) \in Nat
      /\ Cardinality(received) \in Nat
  BY <1>2, <1>3, FS_CardinalityType
<1> HIDE DEF A, B
<1> QED BY <1>1, <1>2, <1>3, <1>5, <1>6, Bounds

\* Sending leaves a number in the window only while its frame is among the last
\* Space.
LEMMA NumberKept ==
  ASSUME ServerType, WindowType, NumberInv, NEW w \in Workload, Send(w),
         NEW k \in arrived, Number(k) \in received, k + Space > Len(frames)
  PROVE  k + Space > Len(frames')
<1> SUFFICES ASSUME k + Space <= Len(frames') PROVE FALSE
  <2>1. k \in Nat /\ Len(frames') \in Nat
    BY StreamSets, SendEffect DEF WindowType, ServerType
  <2> QED BY <2>1, SpaceNumber
<1> DEFINE sent == Len(frames')
           lo == k + Flight
           hi == (k + Space) - Flight
           L == Missing(sent)
<1>1. /\ Len(frames) \in Nat /\ DOMAIN frames = 1..Len(frames)
      /\ k \in Nat /\ k >= 1 /\ k <= Len(frames)
  BY StreamSets DEF WindowType
<1>2. sent \in Nat /\ sent <= Len(frames) + Flight
  <2>1. PICK q \in 1..MaxParts : Len(frames') = Len(frames) + q
    BY SendEffect
  <2> QED BY <1>1, <2>1, Bounds
<1>3. Cardinality(L) <= MaxLost
  <2>1. PICK q \in 1..MaxParts : /\ Len(frames') = Len(frames) + q
                                 /\ q = messages'[Len(messages) + 1].parts
    BY SendEffect
  <2>2. Cardinality(Missing(Len(frames) + w[Len(messages) + 1].parts)) <= MaxLost
    BY DEF Send
  <2>3. w[Len(messages) + 1].parts = q
    <3>1. /\ Len(messages') = Len(messages) + 1 /\ messages' \in Seq(Message)
          /\ messages \in Seq(Message)
      BY SendEffect DEF ServerType
    <3>2. messages' = Append(messages,
             [reliability |-> w[Len(messages) + 1].reliability,
              channel |-> w[Len(messages) + 1].channel,
              parts |-> w[Len(messages) + 1].parts,
              index |-> StreamLength(w[Len(messages) + 1].reliability,
                                     w[Len(messages) + 1].channel)])
      BY DEF Send
    <3>3. messages'[Len(messages) + 1].parts = w[Len(messages) + 1].parts
      BY <3>1, <3>2
    <3> QED BY <2>1, <3>3
  <2> QED BY <2>1, <2>2, <2>3
<1>4. IsFiniteSet(L)
  <2>1. IsFiniteSet(DOMAIN frames) /\ L \subseteq DOMAIN frames
    BY <1>1, FS_Interval DEF Missing
  <2> QED BY <2>1, FS_Subset
<1>5. ASSUME NEW j \in lo..hi PROVE j \in L \/ Number(j) \in received
  <2>1. /\ j \in DOMAIN frames /\ j + Space > Len(frames) /\ j + Flight <= sent
        /\ k + Flight <= j
    BY <1>1, <1>2, Bounds
  <2>2. CASE j \notin arrived
    BY <2>1, <2>2 DEF Missing
  <2>3. CASE j \in arrived
    BY <2>1, <2>3 DEF NumberInv
  <2> QED BY <2>2, <2>3
<1>6. /\ lo \in Nat /\ hi \in Nat /\ lo >= 1 /\ lo <= hi + 1 /\ hi < lo + Space
      /\ (hi + 1) - lo > MaxReceivedWindow + MaxLost
  BY <1>1, Bounds
<1> HIDE DEF lo, hi, L
<1>7. (hi + 1) - lo <= MaxReceivedWindow + MaxLost
  BY <1>3, <1>4, <1>5, <1>6, StretchFits DEF NumberInv
<1> QED BY <1>6, <1>7, Bounds

\* The window of message numbers, and what can still arrive.
WindowInv == FlightInv /\ NumberInv

\* Sending frames makes no number of the window meet another frame.
LEMMA WindowSend ==
  ASSUME ServerType, WindowType, WindowInv, NEW w \in Workload, Send(w)
  PROVE  WindowInv'
<1> USE DEF streams, assembly
<1>1. /\ ServerType' /\ Len(frames) \in Nat /\ DOMAIN frames = 1..Len(frames)
      /\ Len(frames') \in Nat /\ DOMAIN frames' = 1..Len(frames')
      /\ Len(frames) <= Len(frames') /\ Len(frames') <= Len(frames) + Flight
      /\ \A k \in DOMAIN frames : frames'[k] = frames[k]
      /\ \A m \in DOMAIN messages : messages'[m] = messages[m]
  BY StreamSets, SendEffect, Bounds DEF ServerType
<1>2. UNCHANGED <<arrived, received>>
  BY DEF Send
<1>3. FlightInv'
  <2> SUFFICES ASSUME NEW k \in DOMAIN frames', k + Flight <= Len(frames'),
                      k \notin arrived
               PROVE  messages'[frames'[k].message].reliability = "unreliable"
    BY <1>1, <1>2, Bounds DEF FlightInv
  <2>1. k \in DOMAIN frames /\ frames[k].message \in DOMAIN messages
    BY <1>1, Bounds DEF ServerType
  <2>2. Settled(k)
    <3>1. \A j \in DOMAIN frames :
            j + Flight <= Len(frames) + w[Len(messages) + 1].parts => Settled(j)
      BY DEF Send
    <3>2. Len(frames) + w[Len(messages) + 1].parts = Len(frames')
      <4>1. /\ Len(messages') = Len(messages) + 1 /\ messages' \in Seq(Message)
            /\ messages \in Seq(Message)
        BY SendEffect DEF ServerType
      <4>2. messages' = Append(messages,
               [reliability |-> w[Len(messages) + 1].reliability,
                channel |-> w[Len(messages) + 1].channel,
                parts |-> w[Len(messages) + 1].parts,
                index |-> StreamLength(w[Len(messages) + 1].reliability,
                                       w[Len(messages) + 1].channel)])
        BY DEF Send
      <4>3. messages'[Len(messages) + 1].parts = w[Len(messages) + 1].parts
        BY <4>1, <4>2
      <4> QED BY <4>3, SendEffect
    <3> QED BY <2>1, <3>1, <3>2
  <2> QED BY <1>1, <2>1, <2>2 DEF Settled
<1>4. NumberInv'
  <2>1. IsFiniteSet(received) /\ Cardinality(received) <= MaxReceivedWindow
    BY DEF WindowInv, NumberInv
  <2>2. ASSUME NEW n \in received
        PROVE  \E k \in arrived : Number(k) = n /\ k + Space > Len(frames')
    <3>1. PICK k \in arrived : Number(k) = n /\ k + Space > Len(frames)
      BY DEF WindowInv, NumberInv
    <3>2. k + Space > Len(frames')
      BY <3>1, NumberKept DEF WindowInv
    <3> QED BY <3>1, <3>2
  <2>3. ASSUME NEW j \in arrived, NEW k \in arrived, Number(j) \in received,
               j + Space > Len(frames'), j + Flight <= k
        PROVE  Number(k) \in received
    <3>1. j + Space > Len(frames)
      BY <1>1, <2>3, SpaceNumber DEF WindowType
    <3> QED BY <2>3, <3>1 DEF WindowInv, NumberInv
  <2>4. \A k : Number(k)' = Number(k)
    BY DEF Number
  <2> QED BY <1>2, <2>1, <2>2, <2>3, <2>4 DEF NumberInv
<1> QED BY <1>3, <1>4 DEF WindowInv

\* A frame whose number is in the window arrived before.
LEMMA DuplicateArrived ==
  ASSUME ServerType, WindowType, NumberInv, NEW k \in UnderWay,
         Number(k) \in received
  PROVE  k \in arrived
<1>1. PICK j \in arrived : Number(j) = Number(k) /\ j + Space > Len(frames)
  BY DEF NumberInv
<1>2. /\ Len(frames) \in Nat /\ j \in 1..Len(frames) /\ k \in 1..Len(frames)
      /\ k + Space > Len(frames)
  BY StreamSets, Bounds DEF WindowType, UnderWay
<1>3. j = k
  BY <1>1, <1>2, NumberOfOne, SpaceNumber
<1> QED BY <1>3

\* Neither does a frame that arrives, the one that clears the window included.
LEMMA WindowReceive ==
  ASSUME ServerType, WindowType, WindowInv, NEW k \in UnderWay, Receive(k)
  PROVE  WindowInv'
<1> USE DEF server
<1>1. arrived' = arrived \cup {k} /\ messages' = messages /\ frames' = frames
  BY DEF Receive
<1>2. FlightInv'
  BY <1>1 DEF WindowInv, FlightInv
<1>3. \A j : Number(j)' = Number(j)
  BY DEF Number
<1>4. /\ Len(frames) \in Nat /\ k \in 1..Len(frames) /\ k + Space > Len(frames)
      /\ k + Flight > Len(frames) /\ arrived \subseteq 1..Len(frames)
  BY StreamSets, Bounds DEF WindowType, UnderWay
<1>5. CASE Number(k) \in received
  <2>1. arrived' = arrived /\ received' = received
    BY <1>1, <1>5, DuplicateArrived DEF WindowInv, Receive
  <2> QED BY <1>1, <1>2, <1>3, <2>1 DEF WindowInv, NumberInv
<1>6. CASE Number(k) \notin received
  <2> DEFINE n == Number(k)
  <2>1. received' = IF Cardinality(received \cup {n}) > MaxReceivedWindow
                      THEN {n} ELSE received \cup {n}
    BY <1>6 DEF Receive, Remember
  <2>2. IsFiniteSet(received') /\ Cardinality(received') <= MaxReceivedWindow
    <3>1. IsFiniteSet(received \cup {n}) /\ IsFiniteSet({n}) /\ Cardinality({n}) = 1
      BY FS_AddElement, FS_Singleton DEF WindowInv, NumberInv
    <3>2. Cardinality(received \cup {n}) \in Nat
      BY <3>1, FS_CardinalityType
    <3> HIDE DEF n
    <3> QED BY <2>1, <3>1, <3>2, Bounds
  <2>3. ASSUME NEW x \in received'
        PROVE  \E j \in arrived' : Number(j) = x /\ j + Space > Len(frames)
    BY <1>1, <1>4, <2>1 DEF WindowInv, NumberInv
  <2>4. ASSUME NEW j \in arrived', NEW l \in arrived', Number(j) \in received',
               j + Space > Len(frames), j + Flight <= l
        PROVE  Number(l) \in received'
    <3>1. j \in 1..Len(frames) /\ l \in 1..Len(frames)
      BY <1>1, <1>4
    <3>2. j # k
      BY <1>4, <2>4, <3>1, Bounds
    <3>3. Number(j) # n
      <4>1. j < k + Space /\ k < j + Space
        BY <1>4, <2>4, <3>1, SpaceNumber
      <4> QED BY <1>4, <3>1, <3>2, <4>1, NumberOfOne
    <3>4. j \in arrived /\ Number(j) \in received /\ received' = received \cup {n}
      BY <1>1, <2>1, <2>4, <3>2, <3>3
    <3>5. CASE l = k
      BY <3>4, <3>5
    <3>6. CASE l \in arrived
      BY <2>4, <3>4, <3>6 DEF WindowInv, NumberInv
    <3> QED BY <1>1, <3>5, <3>6
  <2>5. NumberInv'
    BY <1>1, <1>3, <2>2, <2>3, <2>4 DEF NumberInv
  <2> QED BY <1>2, <2>5 DEF WindowInv
<1> QED BY <1>5, <1>6

-----------------------------------------------------------------------------
(* What the streams and the assemblies keep *)

\* The parts held are parts their messages have, and not all of them.
OpenInv ==
  /\ \A f \in splits : f.part <= messages[f.message].parts
  /\ \A m \in DOMAIN messages :
       \E p \in 1..messages[m].parts : [message |-> m, part |-> p] \notin splits

\* The places of a stream in what was delivered.
Got(T) == {j \in DOMAIN delivered : delivered[j] \in T}

Before(S, j) == {i \in S : i < j}

\* The client has delivered the first e messages of an ordered stream, and holds
\* messages behind the next one.
OrderedAt(c, e) ==
  /\ e <= Cardinality(OrderedIn(c)) /\ expected[c] = e % Space
  /\ Cardinality(Got(OrderedIn(c))) = e
  /\ \A j \in Got(OrderedIn(c)) :
       messages[delivered[j]].index = Cardinality(Before(Got(OrderedIn(c)), j))
  /\ \A m \in OrderedIn(c) : messages[m].index < e <=> m \in Delivered
  /\ \A h \in ordered[c] : messages[h].index > e

OrderedInv ==
  \A c \in Channel : lost \cap OrderedIn(c) = {} => \E e \in Nat : OrderedAt(c, e)

\* The newest message of a sequenced stream is the last that was delivered.
NewestIs(c, d) ==
  /\ d \in Delivered \cap SequencedIn(c)
  /\ sequenced[c] = {Slot(d)}
  /\ \A l \in Delivered \cap SequencedIn(c) : l <= d

SequencedAt(c) ==
  /\ \A j, k \in Got(SequencedIn(c)) : j < k => delivered[j] < delivered[k]
  /\ \/ sequenced[c] = {} /\ Delivered \cap SequencedIn(c) = {}
     \/ \E d \in DOMAIN messages : NewestIs(c, d)

SequencedInv == \A c \in Channel : SequencedAt(c)

\* A message that was delivered, is held, was overtaken or was given up.
Done(m) ==
  LET c == messages[m].channel
  IN \/ m \in lost \/ m \in ordered[c] \/ m \in Delivered
     \/ m \in SequencedIn(c) /\ \E d \in Delivered \cap SequencedIn(c) : d > m
     \/ Broken(m)

\* AcknowledgedIsAccounted for all that the server takes to arrive.
AccountInv ==
  \A k \in arrived :
    \/ messages[frames[k].message].reliability = "unreliable"
    \/ frames[k] \in splits
    \/ Done(frames[k].message)

\* The parts of the invariant of the streams.
TypeInv == ServerType /\ StreamType /\ WindowType /\ HeldInv /\ SplitInv
ServerInv == IndexInv /\ FrameInv
AccountedInv == FlightInv /\ OpenInv /\ AccountInv

-----------------------------------------------------------------------------
(* What is under way *)

\* Behind a frame under way less than Flight messages were sent.
LEMMA FlightLength ==
  ASSUME ServerType, FrameInv, NEW k \in UnderWay,
         NEW T \in SUBSET DOMAIN messages, InRow(T), frames[k].message \in T
  PROVE  Cardinality(T) <= messages[frames[k].message].index + Flight
<1> DEFINE m == frames[k].message
<1>1. /\ k \in DOMAIN frames /\ k \in Nat /\ k + Flight > Len(frames)
      /\ Len(frames) \in Nat /\ Len(messages) \in Nat /\ m \in Nat
      /\ messages[m].index \in Nat /\ Cardinality(T) \in Nat
  BY StreamSets DEF UnderWay
<1>2. Len(messages) + k <= Len(frames) + m
  BY <1>1 DEF FrameInv
<1>3. Cardinality(T) + m <= messages[m].index + Len(messages) + 1
  BY DEF InRow
<1> DEFINE x == messages[m].index
<1>4. x \in Nat /\ Cardinality(T) + m <= x + Len(messages) + 1
  BY <1>1, <1>3
<1> HIDE DEF m, x
<1>5. Cardinality(T) <= x + Flight
  BY <1>1, <1>2, <1>4, Bounds
<1> QED BY <1>5 DEF x, m

\* A message that is not done with is still under way.
LEMMA NotDoneUnderWay ==
  ASSUME ServerType, FrameInv, AccountedInv, NEW m \in DOMAIN messages,
         messages[m].reliability # "unreliable", ~Done(m)
  PROVE  \E k \in UnderWay : frames[k].message = m
<1>1. PICK p \in 1..messages[m].parts : [message |-> m, part |-> p] \notin splits
  BY DEF AccountedInv, OpenInv
<1>2. PICK k \in DOMAIN frames : frames[k] = [message |-> m, part |-> p]
  BY DEF FrameInv
<1>3. k \notin arrived
  BY <1>1, <1>2 DEF AccountedInv, AccountInv
<1>4. k \in UnderWay
  BY <1>2, <1>3 DEF AccountedInv, FlightInv, UnderWay
<1> QED BY <1>2, <1>4

\* Two messages of a stream have two indices.
LEMMA IndexOfOne ==
  ASSUME ServerType, NEW T \in SUBSET DOMAIN messages, InRow(T),
         NEW l \in T, NEW m \in T
  PROVE  /\ messages[l].index = messages[m].index => l = m
         /\ messages[l].index < messages[m].index <=> l < m
<1>1. /\ l \in Nat /\ m \in Nat
      /\ messages[l].index \in Nat /\ messages[m].index \in Nat
  BY StreamSets
<1>2. /\ l < m => messages[l].index < messages[m].index
      /\ m < l => messages[m].index < messages[l].index
  BY DEF InRow
<1> QED BY <1>1, <1>2

\* The next message of an ordered stream is under way.
LEMMA NextUnderWay ==
  ASSUME TypeInv, ServerInv, AccountedInv, NEW c \in Channel,
         lost \cap OrderedIn(c) = {}, NEW e \in Nat, OrderedAt(c, e),
         e < Cardinality(OrderedIn(c))
  PROVE  Cardinality(OrderedIn(c)) <= e + Flight
<1>1. /\ ServerType /\ OrderedIn(c) \in SUBSET DOMAIN messages /\ InRow(OrderedIn(c))
      /\ Cardinality(OrderedIn(c)) \in Nat
  BY StreamSets DEF TypeInv, ServerInv, IndexInv
<1>2. PICK m \in OrderedIn(c) : messages[m].index = e
  <2>1. e \in 0..(Cardinality(OrderedIn(c)) - 1)
    BY <1>1
  <2> QED BY <1>1, <2>1 DEF InRow
<1>3. /\ m \in DOMAIN messages /\ messages[m].channel = c
      /\ messages[m].reliability = "reliable_ordered" /\ m \notin SequencedIn(c)
  BY DEF OrderedIn, SequencedIn, Ordered, Sequenced
<1>4. ~Done(m)
  <2>1. m \notin Delivered /\ m \notin ordered[c]
    BY <1>2 DEF OrderedAt
  <2>2. m \notin lost
    OBVIOUS
  <2> QED BY <1>3, <2>1, <2>2 DEF Done, Broken
<1>5. PICK k \in UnderWay : frames[k].message = m
  BY <1>1, <1>3, <1>4, NotDoneUnderWay DEF ServerInv
<1> QED BY <1>1, <1>2, <1>5, FlightLength DEF ServerInv

\* accept judges a message of an ordered stream by its true index.
LEMMA OrderedJudged ==
  ASSUME TypeInv, ServerInv, AccountedInv, NEW c \in Channel,
         lost \cap OrderedIn(c) = {}, NEW e \in Nat, OrderedAt(c, e),
         NEW k \in UnderWay, NEW m, m = frames[k].message, m \in OrderedIn(c)
  PROVE  /\ Slot(m) = expected[c] <=> messages[m].index = e
         /\ SequenceNewer(Slot(m), expected[c]) <=> messages[m].index > e
         /\ \A h \in ordered[c] : Slot(h) = Slot(m) => h = m
<1> DEFINE n == Cardinality(OrderedIn(c))
           x == messages[m].index
<1>1. /\ ServerType /\ OrderedIn(c) \in SUBSET DOMAIN messages /\ InRow(OrderedIn(c))
      /\ n \in Nat /\ x \in Nat
  BY StreamSets DEF TypeInv, ServerInv, IndexInv
<1>2. n <= x + Flight
  BY <1>1, FlightLength DEF ServerInv
<1>3. x < n
  BY <1>1 DEF InRow
<1>4. e <= n /\ expected[c] = e % Space /\ Slot(m) = x % Space
  BY DEF OrderedAt, Slot
<1>5. e < n => n <= e + Flight
  BY NextUnderWay
<1> HIDE DEF n, x
<1>6. e < x + Space /\ x < e + Space /\ e < x + (Space \div 2)
      /\ (x > e => x - e \in 1..(Space \div 2 - 1))
  BY <1>1, <1>2, <1>3, <1>4, <1>5, HalfSpace, Bounds
<1>7. Slot(m) = expected[c] <=> x = e
  BY <1>1, <1>4, <1>6, SameNumber
<1>8. SequenceNewer(Slot(m), expected[c]) <=> x > e
  <2>1. CASE x > e
    <3>1. e <= x
      BY <1>1, <2>1
    <3> QED BY <1>1, <1>4, <1>6, <2>1, <3>1, NewerAhead
  <2>2. CASE ~(x > e)
    <3>1. x <= e
      BY <1>1, <2>2
    <3> QED BY <1>1, <1>4, <1>6, <2>2, <3>1, NewerBehind
  <2> QED BY <2>1, <2>2
<1>9. ASSUME NEW h \in ordered[c], Slot(h) = Slot(m)
      PROVE  h = m
  <2> DEFINE y == messages[h].index
  <2>1. h \in OrderedIn(c) /\ y \in Nat
    BY <1>1, StreamSets DEF TypeInv, HeldInv
  <2>2. y > e /\ y < n /\ y % Space = x % Space
    BY <1>1, <1>4, <1>9, <2>1 DEF OrderedAt, InRow, Slot, n
  <2> HIDE DEF y
  <2>3. y < x + Space /\ x < y + Space
    BY <1>1, <1>2, <1>3, <1>5, <2>1, <2>2, Bounds
  <2>4. y = x
    BY <1>1, <2>1, <2>2, <2>3, SameNumber
  <2> QED BY <1>1, <2>1, <2>4, IndexOfOne DEF x, y
<1> QED BY <1>7, <1>8, <1>9 DEF x

\* What accept takes for newer than the newest of a sequenced stream is newer, and
\* the rest is not, or comes after a message that was given up.
LEMMA SequencedJudged ==
  ASSUME TypeInv, ServerInv, AccountedInv, NEW c \in Channel,
         NEW d \in DOMAIN messages, NewestIs(c, d),
         NEW k \in UnderWay, NEW m, m = frames[k].message, m \in SequencedIn(c)
  PROVE  /\ SequenceNewer(Slot(m), Slot(d)) => m > d
         /\ m > d => SequenceNewer(Slot(m), Slot(d)) \/ lost \cap SequencedIn(c) # {}
<1> DEFINE n == Cardinality(SequencedIn(c))
           x == messages[m].index
           y == messages[d].index
<1>1. /\ ServerType /\ SequencedIn(c) \in SUBSET DOMAIN messages
      /\ InRow(SequencedIn(c)) /\ d \in SequencedIn(c)
      /\ n \in Nat /\ x \in Nat /\ y \in Nat
  BY StreamSets DEF TypeInv, ServerInv, IndexInv, NewestIs
<1>2. n <= x + Flight
  BY <1>1, FlightLength DEF ServerInv
<1>3. x < n /\ y < n
  BY <1>1 DEF InRow
<1>4. Slot(m) = x % Space /\ Slot(d) = y % Space
  BY DEF Slot
<1>5. (y < x <=> d < m) /\ m \in Nat /\ d \in Nat
  BY <1>1, IndexOfOne, StreamSets
<1> HIDE DEF n, x, y
<1>6. ASSUME SequenceNewer(Slot(m), Slot(d)) PROVE m > d
  <2> SUFFICES ASSUME x <= y PROVE FALSE
    BY <1>1, <1>5
  <2>1. y < x + (Space \div 2)
    BY <1>1, <1>2, <1>3, HalfSpace, Bounds
  <2> QED BY <1>1, <1>4, <1>6, <2>1, NewerBehind
<1>7. ASSUME m > d, lost \cap SequencedIn(c) = {}
      PROVE  SequenceNewer(Slot(m), Slot(d))
  <2>1. y < x
    BY <1>5, <1>7
  <2>2. PICK l \in SequencedIn(c) : messages[l].index = y + 1
    <3>1. y + 1 \in 0..(n - 1)
      BY <1>1, <1>3, <2>1
    <3> QED BY <1>1, <3>1 DEF InRow, n
  <2>3. l > d /\ l \in Nat
    <3>1. messages[d].index < messages[l].index
      BY <1>1, <2>2 DEF y
    <3> QED BY <1>1, <1>5, <3>1, IndexOfOne, StreamSets
  <2>4. /\ l \in DOMAIN messages /\ messages[l].channel = c
        /\ messages[l].reliability # "unreliable" /\ l \notin OrderedIn(c)
    BY DEF OrderedIn, SequencedIn, Ordered, Sequenced
  <2>5. ~Done(l)
    <3>1. l \notin Delivered /\ ~(\E b \in Delivered \cap SequencedIn(c) : b > l)
      <4>1. \A b \in Delivered \cap SequencedIn(c) : b <= d
        BY DEF NewestIs
      <4>2. \A b \in SequencedIn(c) : b \in Nat
        BY <1>1, StreamSets
      <4>3. l \notin Delivered
        BY <1>5, <2>3, <4>1
      <4>4. ASSUME NEW b \in Delivered \cap SequencedIn(c), b > l PROVE FALSE
        <5>1. b <= d /\ b \in Nat
          BY <4>1, <4>2
        <5> QED BY <1>5, <2>3, <4>4, <5>1
      <4> QED BY <4>3, <4>4
    <3>2. l \notin lost /\ l \notin ordered[c]
      BY <1>7, <2>4 DEF TypeInv, HeldInv
    <3> QED BY <1>7, <2>4, <3>1, <3>2 DEF Done, Broken
  <2>6. PICK j \in UnderWay : frames[j].message = l
    BY <1>1, <2>4, <2>5, NotDoneUnderWay DEF ServerInv
  <2>7. n <= (y + 1) + Flight
    BY <1>1, <2>2, <2>6, FlightLength DEF ServerInv, n
  <2>8. y <= x /\ x < y + Space /\ x - y \in 1..(Space \div 2 - 1)
    BY <1>1, <1>3, <2>1, <2>7, HalfSpace, Bounds
  <2> QED BY <1>1, <1>4, <2>8, NewerAhead
<1> QED BY <1>6, <1>7

-----------------------------------------------------------------------------
(* What an ordered message delivers *)

\* The places of a stream after t more of it were delivered.
LEMMA PlacesMore ==
  ASSUME NEW L \in Nat, NEW t \in Nat, NEW G \in SUBSET (1..L)
  PROVE  Cardinality(G \cup ((L + 1)..(L + t))) = Cardinality(G) + t
<1> DEFINE I == (L + 1)..(L + t)
<1>1. IsFiniteSet(G)
  <2>1. IsFiniteSet(1..L)
    BY FS_Interval
  <2> QED BY <2>1, FS_Subset
<1>2. IsFiniteSet(I) /\ Cardinality(I) = t
  <2>1. /\ IsFiniteSet(I)
        /\ Cardinality(I) = IF L + 1 > L + t THEN 0 ELSE (L + t) - (L + 1) + 1
    BY FS_Interval
  <2> HIDE DEF I
  <2> QED BY <2>1
<1>3. G \cap I = {}
  OBVIOUS
<1> HIDE DEF I
<1>4. Cardinality(G \cap I) = 0
  BY <1>3, FS_EmptySet
<1>5. Cardinality(G \cup I) = Cardinality(G) + Cardinality(I) - Cardinality(G \cap I)
  BY <1>1, <1>2, FS_Union
<1>6. Cardinality(G \cup I) = Cardinality(G) + t
  <2>1. Cardinality(G) \in Nat
    BY <1>1, FS_CardinalityType
  <2> QED BY <1>2, <1>4, <1>5, <2>1
<1> QED BY <1>6 DEF I

\* The places before one of them.
LEMMA PlacesBefore ==
  ASSUME NEW L \in Nat, NEW n \in Nat, NEW G \in SUBSET (1..L)
  PROVE  \A j \in G : Before(G \cup ((L + 1)..(L + n)), j) = Before(G, j)
BY DEF Before

\* The places before one of those that came later.
LEMMA PlacesBetween ==
  ASSUME NEW L \in Nat, NEW n \in Nat, NEW G \in SUBSET (1..L),
         NEW j \in (L + 1)..(L + n)
  PROVE  Cardinality(Before(G \cup ((L + 1)..(L + n)), j))
           = Cardinality(G) + ((j - L) - 1)
<1> DEFINE H == G \cup ((L + 1)..(L + n))
           t == (j - L) - 1
<1>1. t \in Nat /\ j = L + 1 + t /\ t < n
  OBVIOUS
<1> HIDE DEF t
<1>2. ASSUME NEW i
      PROVE  (i \in H /\ i < j) <=> i \in G \cup ((L + 1)..(L + t))
  <2>1. i \in G => i \in Nat /\ i <= L
    OBVIOUS
  <2> QED BY <1>1, <2>1
<1>3. Before(H, j) = G \cup ((L + 1)..(L + t))
  BY <1>2, Zenon DEF Before
<1>4. Cardinality(G \cup ((L + 1)..(L + t))) = Cardinality(G) + t
  BY <1>1, PlacesMore
<1> QED BY <1>3, <1>4, Zenon DEF t

\* What is delivered grows behind what was.
Extends == /\ Len(delivered') \in Nat /\ Len(delivered) \in Nat
           /\ Len(delivered) <= Len(delivered')
           /\ DOMAIN delivered = 1..Len(delivered)
           /\ DOMAIN delivered' = 1..Len(delivered')
           /\ \A j \in DOMAIN delivered : delivered'[j] = delivered[j]

\* The message m takes its turn with the n that waited behind it.
Turn(c, m, n) ==
  /\ n < Space /\ Extends /\ Slot(m) = expected[c]
  /\ Len(delivered') = Len(delivered) + 1 + n
  /\ delivered'[Len(delivered) + 1] = m
  /\ \A j \in 1..n :
       /\ delivered'[Len(delivered) + 1 + j] \in ordered[c]
       /\ Slot(delivered'[Len(delivered) + 1 + j]) = (Slot(m) + j) % Space
  /\ \A h \in ordered[c] : Slot(h) # (Slot(m) + n + 1) % Space
  /\ ordered'[c] = {h \in ordered[c] :
                      \A j \in 1..n : Slot(h) # (Slot(m) + j) % Space}
  /\ expected'[c] = (Slot(m) + n + 1) % Space
  /\ \A d \in Channel \ {c} :
       ordered'[d] = ordered[d] /\ expected'[d] = expected[d]
  /\ sequenced' = sequenced /\ lost' = lost

\* What the next message releases waited for it in turn.
LEMMA InOrderDelivers ==
  ASSUME TypeInv, NEW c \in Channel, NEW m \in OrderedIn(c), InOrder(m, c, Slot(m))
  PROVE  \E n \in Nat : Turn(c, m, n)
<1> DEFINE i == Slot(m)
<1>1. PICK n \in 0..Cardinality(ordered[c]) :
        LET slots == {(i + j) % Space : j \in 1..n}
        IN /\ i = expected[c]
           /\ \A s \in slots : Taken(c, s)
           /\ ~Taken(c, (i + n + 1) % Space)
           /\ delivered' = Append(delivered, m)
                             \o [j \in 1..n |-> Holder(c, (i + j) % Space)]
           /\ ordered' = [ordered EXCEPT ![c] = {h \in @ : Slot(h) \notin slots}]
           /\ orderedCount' = orderedCount - n
           /\ expected' = [expected EXCEPT ![c] = (i + n + 1) % Space]
           /\ UNCHANGED <<sequenced, lost>>
  BY DEF InOrder, Release
<1> DEFINE waited == [j \in 1..n |-> Holder(c, (i + j) % Space)]
<1>2. /\ ordered \in [Channel -> SUBSET DOMAIN messages] /\ IsFiniteSet(ordered[c])
      /\ expected \in [Channel -> Wire] /\ delivered \in Seq(DOMAIN messages)
      /\ m \in DOMAIN messages
  BY HeldFinite DEF TypeInv, StreamType, OrderedIn
<1>3. n \in Nat
  BY <1>2, FS_CardinalityType
<1>4. i \in Wire
  <2>1. messages[m].index \in Nat
    BY <1>2, StreamSets DEF TypeInv
  <2> QED BY <2>1, Residue DEF Slot
<1>5. ASSUME NEW j \in 1..n
      PROVE  /\ Taken(c, (i + j) % Space)
             /\ waited[j] \in ordered[c] /\ Slot(waited[j]) = (i + j) % Space
  <2>1. Taken(c, (i + j) % Space)
    BY <1>1
  <2> QED BY <2>1 DEF Taken, Holder
<1>6. n < Space
  <2>1. \A j \in 1..n : (i + n + 1) % Space # (i + j) % Space
    BY <1>1, <1>5
  <2> QED BY <1>3, <1>4, <2>1, IndicesInRow
<1>7. /\ ordered'[c] = {h \in ordered[c] :
                          \A j \in 1..n : Slot(h) # (i + j) % Space}
      /\ expected'[c] = (i + n + 1) % Space
      /\ \A d \in Channel \ {c} :
           ordered'[d] = ordered[d] /\ expected'[d] = expected[d]
  BY <1>1, <1>2
<1>8. \A h \in ordered[c] : Slot(h) # (i + n + 1) % Space
  BY <1>1 DEF Taken
<1>9. i = expected[c] /\ sequenced' = sequenced /\ lost' = lost
  BY <1>1
<1>10. waited \in Seq(DOMAIN messages) /\ Len(waited) = n
  <2>1. \A j \in 1..n : Holder(c, (i + j) % Space) \in DOMAIN messages
    BY <1>2, <1>5
  <2> QED BY <1>3, <2>1
<1>11. delivered' = Append(delivered, m) \o waited
  BY <1>1
<1> HIDE DEF waited, i
<1>12. /\ Append(delivered, m) \in Seq(DOMAIN messages)
       /\ Len(Append(delivered, m)) = Len(delivered) + 1
       /\ Append(delivered, m)[Len(delivered) + 1] = m
       /\ \A j \in 1..Len(delivered) : Append(delivered, m)[j] = delivered[j]
       /\ Len(delivered) \in Nat /\ DOMAIN delivered = 1..Len(delivered)
  BY <1>2, AppendProperties
<1> DEFINE s == Append(delivered, m)
<1> HIDE DEF s
<1>13. /\ delivered' \in Seq(DOMAIN messages)
       /\ Len(delivered') = Len(s) + Len(waited)
       /\ \A j \in 1..Len(delivered') :
            delivered'[j] = IF j <= Len(s) THEN s[j] ELSE waited[j - Len(s)]
  <2>1. s \in Seq(DOMAIN messages) /\ waited \in Seq(DOMAIN messages)
    BY <1>10, <1>12 DEF s
  <2>2. delivered' = s \o waited
    BY <1>11 DEF s
  <2>3. /\ s \o waited \in Seq(DOMAIN messages)
        /\ Len(s \o waited) = Len(s) + Len(waited)
        /\ \A j \in 1..(Len(s) + Len(waited)) :
             (s \o waited)[j] = IF j <= Len(s) THEN s[j] ELSE waited[j - Len(s)]
    BY <2>1, ConcatProperties
  <2> QED BY <2>2, <2>3
<1>14. /\ Len(s) = Len(delivered) + 1 /\ s[Len(delivered) + 1] = m
       /\ \A j \in 1..Len(delivered) : s[j] = delivered[j]
  BY <1>12 DEF s
<1>15. /\ Len(delivered') = Len(delivered) + 1 + n
       /\ DOMAIN delivered' = 1..Len(delivered')
       /\ delivered'[Len(delivered) + 1] = m
       /\ \A j \in 1..Len(delivered) : delivered'[j] = delivered[j]
  BY <1>3, <1>10, <1>12, <1>13, <1>14
<1>16. Extends
  BY <1>3, <1>12, <1>15 DEF Extends
<1>17. ASSUME NEW j \in 1..n
       PROVE  delivered'[Len(delivered) + 1 + j] = waited[j]
  <2>1. /\ Len(delivered) + 1 + j \in 1..Len(delivered')
        /\ ~(Len(delivered) + 1 + j <= Len(s))
        /\ (Len(delivered) + 1 + j) - Len(s) = j
    BY <1>3, <1>12, <1>14, <1>15
  <2> QED BY <1>13, <2>1
<1>18. \A j \in 1..n :
         /\ delivered'[Len(delivered) + 1 + j] \in ordered[c]
         /\ Slot(delivered'[Len(delivered) + 1 + j]) = (i + j) % Space
  BY <1>5, <1>17
<1> QED
  BY <1>3, <1>6, <1>7, <1>8, <1>9, <1>15, <1>16, <1>18 DEF i, Turn

\* A message of an unbroken stream takes its turn, with those that wait behind.
LEMMA InOrderKeeps ==
  ASSUME TypeInv, ServerInv, AccountedInv, NEW c \in Channel,
         lost \cap OrderedIn(c) = {}, NEW e \in Nat, OrderedAt(c, e),
         NEW k \in UnderWay, NEW m, m = frames[k].message, m \in OrderedIn(c),
         InOrder(m, c, Slot(m)), messages' = messages
  PROVE  \E b \in Nat : OrderedAt(c, b)'
<1> PICK T : T = OrderedIn(c)
  OBVIOUS
<1> PICK len \in Nat : len = Len(delivered)
  BY DEF TypeInv, StreamType
<1>0. PICK n \in Nat : Turn(c, m, n)
  BY InOrderDelivers
<1>1. /\ n < Space /\ Slot(m) = expected[c]
      /\ Extends /\ len \in Nat /\ Len(delivered') = len + 1 + n
      /\ DOMAIN delivered = 1..len /\ DOMAIN delivered' = 1..(len + 1 + n)
      /\ \A j \in 1..len : delivered'[j] = delivered[j]
      /\ delivered'[len + 1] = m
      /\ \A j \in 1..n :
           /\ delivered'[len + 1 + j] \in ordered[c]
           /\ Slot(delivered'[len + 1 + j]) = (Slot(m) + j) % Space
      /\ \A h \in ordered[c] : Slot(h) # (Slot(m) + n + 1) % Space
      /\ ordered'[c] = {h \in ordered[c] :
                          \A j \in 1..n : Slot(h) # (Slot(m) + j) % Space}
      /\ expected'[c] = (Slot(m) + n + 1) % Space
  BY <1>0 DEF Extends, Turn
<1>a. n \in Nat /\ n < Space /\ n + 1 \in 0..Space
  BY <1>1, SpaceNumber
<1>2. /\ ServerType /\ T \in SUBSET DOMAIN messages /\ InRow(T)
      /\ Cardinality(T) \in Nat /\ ordered[c] \subseteq T
      /\ \A h \in T : messages[h].index \in Nat
      /\ messages[m].index = e /\ Cardinality(T) <= e + Flight
  <2>1. /\ ServerType /\ T \in SUBSET DOMAIN messages /\ InRow(T)
        /\ Cardinality(T) \in Nat /\ ordered[c] \subseteq T
    BY StreamSets DEF TypeInv, ServerInv, IndexInv, HeldInv
  <2>2. \A h \in T : messages[h].index \in Nat
    BY <2>1, StreamSets
  <2>3. messages[m].index = e
    BY <1>1, OrderedJudged
  <2> QED BY <2>1, <2>2, <2>3, FlightLength DEF ServerInv
<1>3. /\ e <= Cardinality(T) /\ expected[c] = e % Space
      /\ Cardinality(Got(T)) = e
      /\ \A j \in Got(T) :
           messages[delivered[j]].index = Cardinality(Before(Got(T), j))
      /\ \A l \in T : messages[l].index < e <=> l \in Delivered
      /\ \A h \in ordered[c] : messages[h].index > e
  BY DEF OrderedAt
<1>4. T = OrderedIn(c)' /\ \A h : Slot(h)' = Slot(h)
  BY DEF OrderedIn, Slot
<1>5. ASSUME NEW j \in 0..Space
      PROVE  (Slot(m) + j) % Space = (e + j) % Space
  <2>1. Slot(m) = e % Space /\ Slot(m) \in 0..(Space - 1)
    BY <1>2, Residue DEF Slot, Wire
  <2>2. CASE j < Space
    <3>1. (e + j) % Space = IF (e % Space) + j < Space THEN (e % Space) + j
                            ELSE ((e % Space) + j) - Space
      BY <2>2, ResidueSum
    <3>2. (Slot(m) + j) % Space = IF Slot(m) + j < Space THEN Slot(m) + j
                                  ELSE (Slot(m) + j) - Space
      <4>1. Slot(m) + j \in Nat /\ Slot(m) + j < Space + Space
        BY <2>1, <2>2, SpaceNumber
      <4> QED BY <4>1, SmallResidue
    <3> QED BY <2>1, <3>1, <3>2
  <2>3. CASE j = Space
    <3> DEFINE r == e % Space
    <3>1. PICK q \in Nat : e = (Space * q) + r
      BY Divided
    <3>2. r \in Nat /\ e + Space = (Space * (q + 1)) + r
      BY <2>1, <3>1, SpaceNumber
    <3>3. ((Space * (q + 1)) + r) % Space = r
      BY <2>1, Remainder DEF Wire
    <3>4. (r + Space) % Space = r
      <4>1. r \in Wire /\ r + Space = (Space * 1) + r
        BY <2>1, SpaceNumber DEF Wire
      <4> QED BY <4>1, Remainder
    <3> QED BY <2>1, <2>3, <3>2, <3>3, <3>4
  <2> QED BY <2>2, <2>3, SpaceNumber
<1>6. ASSUME NEW h \in T, NEW j \in 1..Space, messages[h].index > e,
             Slot(h) = (Slot(m) + j) % Space
      PROVE  messages[h].index = e + j
  <2> DEFINE y == messages[h].index
  <2>1. y \in Nat /\ y < Cardinality(T) /\ y % Space = (e + j) % Space
    <3>1. y < Cardinality(T)
      BY <1>2 DEF InRow
    <3>2. y % Space = (e + j) % Space
      BY <1>5, <1>6, SpaceNumber DEF Slot
    <3> QED BY <1>2, <3>1, <3>2
  <2> HIDE DEF y
  <2>2. y > e
    BY <1>6 DEF y
  <2>3. e + j \in Nat /\ y < (e + j) + Space /\ e + j < y + Space
    BY <1>2, <2>1, <2>2, Bounds
  <2> QED BY <2>1, <2>3, SameNumber DEF y
<1>7. ASSUME NEW t \in 0..n
      PROVE  delivered'[len + 1 + t] \in T /\ messages[delivered'[len + 1 + t]].index = e + t
  <2>1. CASE t = 0
    <3>1. len + 1 + t = len + 1 /\ e + t = e
      BY <1>1, <2>1 DEF Extends
    <3> QED BY <1>1, <1>2, <3>1
  <2>2. CASE t # 0
    <3> DEFINE h == delivered'[len + 1 + t]
    <3>1. t \in 1..n /\ t \in 1..Space
      BY <1>1, <2>2, SpaceNumber
    <3>2. h \in ordered[c] /\ Slot(h) = (Slot(m) + t) % Space
      BY <1>1, <3>1
    <3> HIDE DEF h
    <3>3. h \in T /\ messages[h].index > e
      BY <1>2, <1>3, <3>2
    <3>4. messages[h].index = e + t
      BY <1>6, <3>1, <3>2, <3>3
    <3> QED BY <3>3, <3>4 DEF h
  <2> QED BY <2>1, <2>2
<1> DEFINE b == e + n + 1
<1>8. b \in Nat /\ b <= Cardinality(T)
  <2>1. n \in 0..n
    OBVIOUS
  <2>2. /\ delivered'[len + 1 + n] \in T
        /\ messages[delivered'[len + 1 + n]].index = e + n
    BY <1>7, <2>1
  <2>3. messages[delivered'[len + 1 + n]].index < Cardinality(T)
    BY <1>2, <2>2 DEF InRow
  <2> QED BY <1>2, <2>2, <2>3
<1>9. expected'[c] = b % Space
  <2>1. n + 1 \in 0..Space /\ Slot(m) + n + 1 = Slot(m) + (n + 1) /\ b = e + (n + 1)
    <3>1. Slot(m) \in Nat
      BY <1>2, Residue DEF Slot, Wire
    <3> QED BY <1>a, <3>1
  <2> HIDE DEF b
  <2> QED BY <1>1, <1>5, <2>1
<1>10. Got(T)' = Got(T) \cup ((len + 1)..(len + 1 + n))
  <2>1. \A j \in (len + 1)..(len + 1 + n) :
          (j - (len + 1)) \in 0..n /\ len + 1 + (j - (len + 1)) = j
    BY <1>1
  <2>2. \A j \in (len + 1)..(len + 1 + n) : delivered'[j] \in T
    BY <1>7, <2>1
  <2>3. \A j : j \in 1..(len + 1 + n) <=>
               j \in 1..len \/ j \in (len + 1)..(len + 1 + n)
    BY <1>1
  <2>4. Got(T) = {j \in 1..len : delivered[j] \in T}
    BY <1>1 DEF Got
  <2>5. Got(T)' = {j \in 1..(len + 1 + n) : delivered'[j] \in T}
    BY <1>1 DEF Got
  <2>6. ASSUME NEW j
        PROVE  j \in Got(T)' <=> j \in Got(T) \/ j \in (len + 1)..(len + 1 + n)
    BY <1>1, <2>2, <2>3, <2>4, <2>5
  <2> QED BY <2>6
<1>11. /\ Cardinality(Got(T)') = b
       /\ \A j \in Got(T) : Before(Got(T)', j) = Before(Got(T), j)
       /\ \A t \in 0..n : Cardinality(Before(Got(T)', len + 1 + t)) = e + t
  <2>1. Got(T) \in SUBSET (1..len) /\ len \in Nat
    BY <1>1 DEF Got
  <2>2. PICK G \in SUBSET (1..len) : G = Got(T)
    BY <2>1
  <2>3. /\ G \in SUBSET (1..len) /\ Cardinality(G) = e
        /\ Got(T)' = G \cup ((len + 1)..(len + (n + 1)))
        /\ n + 1 \in Nat /\ b = Cardinality(G) + (n + 1)
    BY <1>1, <1>3, <1>10, <2>1, <2>2
  <2> HIDE DEF b
  <2>4. Cardinality(Got(T)') = b
    <3>1. Cardinality(G \cup ((len + 1)..(len + (n + 1)))) = Cardinality(G) + (n + 1)
      BY <2>1, <2>3, PlacesMore
    <3> QED BY <2>3, <3>1
  <2>5. /\ \A j \in G : Before(Got(T)', j) = Before(G, j)
        /\ \A j \in (len + 1)..(len + (n + 1)) :
             Cardinality(Before(Got(T)', j)) = Cardinality(G) + ((j - len) - 1)
    <3>1. PICK q \in Nat : q = n + 1
      BY <2>3
    <3>2. \A j \in G : Before(G \cup ((len + 1)..(len + q)), j) = Before(G, j)
      BY PlacesBefore, Zenon
    <3>3. \A j \in (len + 1)..(len + q) :
            Cardinality(Before(G \cup ((len + 1)..(len + q)), j))
              = Cardinality(G) + ((j - len) - 1)
      BY PlacesBetween
    <3>4. PICK I : I = G \cup ((len + 1)..(len + q))
      OBVIOUS
    <3>5. Got(T)' = I /\ n + 1 = q
      BY <2>3, <3>1, <3>4
    <3>6. /\ \A j \in G : Before(I, j) = Before(G, j)
          /\ \A j \in (len + 1)..(len + q) :
               Cardinality(Before(I, j)) = Cardinality(G) + ((j - len) - 1)
      BY <3>2, <3>3, <3>4, Zenon
    <3> QED BY <3>5, <3>6
  <2>6. ASSUME NEW t \in 0..n
        PROVE  Cardinality(Before(Got(T)', len + 1 + t)) = e + t
    <3>1. /\ len + 1 + t \in (len + 1)..(len + (n + 1))
          /\ ((len + 1 + t) - len) - 1 = t
      BY <1>a
    <3> QED BY <2>3, <2>5, <3>1
  <2> QED BY <2>2, <2>4, <2>5, <2>6
<1>12. ASSUME NEW j \in Got(T)'
       PROVE  messages[delivered'[j]].index = Cardinality(Before(Got(T)', j))
  <2>1. CASE j \in Got(T)
    <3>1. delivered'[j] = delivered[j]
      BY <1>1, <2>1 DEF Got
    <3> HIDE DEF b
    <3> QED BY <1>3, <1>11, <2>1, <3>1
  <2>2. CASE j \in (len + 1)..(len + 1 + n)
    <3> DEFINE t == j - (len + 1)
    <3>1. t \in 0..n /\ j = len + 1 + t
      BY <1>1, <2>2
    <3> HIDE DEF t
    <3> QED BY <1>7, <1>11, <3>1
  <2> QED BY <1>10, <2>1, <2>2
<1>13. ASSUME NEW l \in T
       PROVE  messages[l].index < b <=> l \in Delivered'
  <2> DEFINE y == messages[l].index
  <2>1. y \in Nat
    BY <1>2
  <2>2. l \in Delivered' <=> \/ l \in Delivered
                             \/ \E t \in 0..n : delivered'[len + 1 + t] = l
    <3>1. l \in Delivered' <=> \E j \in 1..(len + 1 + n) : delivered'[j] = l
      BY <1>1 DEF Delivered
    <3>2. l \in Delivered <=> \E j \in 1..len : delivered'[j] = l
      BY <1>1 DEF Delivered
    <3>3. ASSUME NEW j \in 1..(len + 1 + n), j \notin 1..len
          PROVE  \E t \in 0..n : j = len + 1 + t
      <4>1. (j - (len + 1)) \in 0..n /\ len + 1 + (j - (len + 1)) = j
        BY <1>1, <3>3
      <4> QED BY <4>1
    <3>4. /\ \A j \in 1..len : j \in 1..(len + 1 + n)
          /\ \A t \in 0..n : len + 1 + t \in 1..(len + 1 + n)
      BY <1>1
    <3> QED BY <3>1, <3>2, <3>3, <3>4
  <2>3. ASSUME l \in Delivered' PROVE y < b
    <3>1. CASE l \in Delivered
      BY <1>3, <2>1, <3>1
    <3>2. CASE \E t \in 0..n : delivered'[len + 1 + t] = l
      <4>1. PICK t \in 0..n : delivered'[len + 1 + t] = l
        BY <3>2
      <4>2. y = e + t
        BY <1>7, <4>1
      <4> HIDE DEF y
      <4> QED BY <1>a, <2>1, <4>2
    <3> QED BY <2>2, <2>3, <3>1, <3>2
  <2>4. ASSUME y < b PROVE l \in Delivered'
    <3>1. CASE y < e
      BY <1>3, <2>2, <3>1
    <3>2. CASE ~(y < e)
      <4> DEFINE t == y - e
      <4>1. t \in 0..n /\ y = e + t
        BY <2>1, <2>4, <3>2
      <4>2. messages[delivered'[len + 1 + t]].index = y /\ delivered'[len + 1 + t] \in T
        BY <1>7, <4>1
      <4>3. delivered'[len + 1 + t] = l
        BY <1>2, <4>2, IndexOfOne
      <4> QED BY <2>2, <4>1, <4>3
    <3> QED BY <3>1, <3>2
  <2> QED BY <2>3, <2>4
<1>14. ASSUME NEW h \in ordered'[c]
       PROVE  messages[h].index > b
  <2> DEFINE y == messages[h].index
  <2>1. /\ h \in ordered[c] /\ y > e /\ y \in Nat
        /\ \A j \in 1..n : Slot(h) # (Slot(m) + j) % Space
        /\ Slot(h) # (Slot(m) + n + 1) % Space
    BY <1>1, <1>2, <1>3
  <2>2. ASSUME NEW j \in 1..(n + 1), y = e + j
        PROVE  Slot(h) = (Slot(m) + j) % Space
    <3>1. j \in 0..Space
      BY <1>1, SpaceNumber
    <3> QED BY <1>5, <2>2, <3>1 DEF Slot
  <2>3. Slot(m) + n + 1 = Slot(m) + (n + 1)
    <3>1. Slot(m) \in Nat
      BY <1>2, Residue DEF Slot, Wire
    <3> QED BY <3>1
  <2>4. ~(\E j \in 1..(n + 1) : y = e + j)
    <3> SUFFICES ASSUME NEW j \in 1..(n + 1), y = e + j PROVE FALSE
      OBVIOUS
    <3>1. CASE j \in 1..n
      BY <2>1, <2>2, <3>1
    <3>2. CASE j = n + 1
      BY <2>1, <2>2, <2>3, <3>2
    <3> QED BY <3>1, <3>2
  <2> HIDE DEF y
  <2>5. y > e + (n + 1)
    <3> SUFFICES ASSUME y <= e + (n + 1) PROVE FALSE
      BY <2>1
    <3>1. y - e \in 1..(n + 1) /\ y = e + (y - e)
      BY <2>1
    <3> QED BY <2>4, <3>1
  <2> QED BY <2>5 DEF y
<1>15. OrderedAt(c, b)'
  <2> HIDE DEF b
  <2>1. Got(T)' = Got(OrderedIn(c))'
    BY <1>4 DEF Got
  <2> QED BY <1>4, <1>8, <1>9, <1>11, <1>12, <1>13, <1>14, <2>1 DEF OrderedAt
<1> QED BY <1>8, <1>15

-----------------------------------------------------------------------------
(* A whole message in its stream *)

\* What was delivered last.
Fresh(j) == j \in DOMAIN delivered' /\ j \notin DOMAIN delivered

\* Nothing is delivered.
LEMMA StayExtends ==
  ASSUME StreamType, delivered' = delivered
  PROVE  Extends /\ \A j : ~Fresh(j)
BY DEF StreamType, Extends, Fresh

\* One message is delivered.
LEMMA AppendExtends ==
  ASSUME StreamType, NEW m \in DOMAIN messages, delivered' = Append(delivered, m)
  PROVE  /\ Extends /\ Len(delivered') = Len(delivered) + 1
         /\ \A j : Fresh(j) <=> j = Len(delivered) + 1
         /\ delivered'[Len(delivered) + 1] = m
         /\ m \in Delivered'
<1>1. delivered \in Seq(DOMAIN messages)
  BY DEF StreamType
<1>2. /\ delivered' \in Seq(DOMAIN messages)
      /\ Len(delivered') = Len(delivered) + 1
      /\ \A j \in 1..Len(delivered) : delivered'[j] = delivered[j]
      /\ delivered'[Len(delivered) + 1] = m
  BY <1>1, AppendProperties
<1>3. /\ Len(delivered) \in Nat /\ DOMAIN delivered = 1..Len(delivered)
      /\ DOMAIN delivered' = 1..(Len(delivered) + 1)
  BY <1>1, <1>2
<1>4. Extends
  BY <1>2, <1>3 DEF Extends
<1>5. \A j : Fresh(j) <=> j = Len(delivered) + 1
  BY <1>3 DEF Fresh
<1>6. m \in Delivered'
  BY <1>2, <1>3 DEF Delivered
<1> QED BY <1>2, <1>4, <1>5, <1>6

\* What is delivered beside a stream changes nothing of it.
LEMMA GotKept ==
  ASSUME Extends, NEW T, \A j : Fresh(j) => delivered'[j] \notin T
  PROVE  /\ Got(T)' = Got(T)
         /\ \A j \in Got(T) : delivered'[j] = delivered[j]
         /\ \A m \in T : m \in Delivered' <=> m \in Delivered
<1>1. /\ \A j \in DOMAIN delivered : j \in DOMAIN delivered'
      /\ \A j \in DOMAIN delivered : delivered'[j] = delivered[j]
  BY DEF Extends
<1>2. \A j : j \in Got(T)' <=> j \in Got(T)
  BY <1>1 DEF Got, Fresh
<1>3. \A m \in T : m \in Delivered' <=> m \in Delivered
  BY <1>1 DEF Delivered, Fresh
<1> QED BY <1>1, <1>2, <1>3 DEF Got

\* An ordered stream of which nothing is delivered stays as it is.
LEMMA OrderedKept ==
  ASSUME messages' = messages, Extends, NEW c \in Channel, NEW e \in Nat,
         OrderedAt(c, e), expected'[c] = expected[c],
         \A h \in ordered'[c] : messages[h].index > e,
         \A j : Fresh(j) => delivered'[j] \notin OrderedIn(c)
  PROVE  OrderedAt(c, e)'
<1> PICK T : T = OrderedIn(c)
  OBVIOUS
<1>1. T = OrderedIn(c)'
  BY DEF OrderedIn
<1>2. /\ Got(T)' = Got(T)
      /\ \A j \in Got(T) : delivered'[j] = delivered[j]
      /\ \A m \in T : m \in Delivered' <=> m \in Delivered
  BY GotKept
<1>3. Got(T)' = Got(OrderedIn(c))' /\ Got(T) = Got(OrderedIn(c))
  BY <1>1 DEF Got
<1> QED BY <1>1, <1>2, <1>3 DEF OrderedAt

\* So does a sequenced stream.
LEMMA SequencedKept ==
  ASSUME messages' = messages, Extends, NEW c \in Channel, SequencedAt(c),
         sequenced'[c] = sequenced[c],
         \A j : Fresh(j) => delivered'[j] \notin SequencedIn(c)
  PROVE  SequencedAt(c)'
<1> PICK T : T = SequencedIn(c)
  OBVIOUS
<1>1. T = SequencedIn(c)' /\ \A d : Slot(d)' = Slot(d)
  BY DEF SequencedIn, Slot
<1>2. /\ Got(T)' = Got(T)
      /\ \A j \in Got(T) : delivered'[j] = delivered[j]
      /\ \A m \in T : m \in Delivered' <=> m \in Delivered
  BY GotKept
<1>3. Got(T)' = Got(SequencedIn(c))' /\ Got(T) = Got(SequencedIn(c))
  BY <1>1 DEF Got
<1>4. \A d : NewestIs(c, d) => NewestIs(c, d)'
  BY <1>1, <1>2 DEF NewestIs
<1>5. \A j, k \in Got(T)' : j < k => delivered'[j] < delivered'[k]
  BY <1>2, <1>3 DEF SequencedAt
<1>6. \/ sequenced'[c] = {} /\ Delivered' \cap T = {}
      \/ \E d \in DOMAIN messages : NewestIs(c, d)'
  BY <1>2, <1>4 DEF SequencedAt
<1> QED BY <1>1, <1>3, <1>5, <1>6 DEF SequencedAt

\* What is done with stays so.
LEMMA DoneStays ==
  ASSUME ServerType, messages' = messages, Extends, lost \subseteq lost',
         \A c \in Channel : \A h \in ordered[c] : h \in ordered'[c] \/ h \in Delivered',
         NEW m \in DOMAIN messages, Done(m)
  PROVE  Done(m)'
<1> PICK c : c = messages[m].channel
  OBVIOUS
<1>1. c \in Channel
  BY StreamSets
<1>2. \A l \in Delivered : l \in Delivered'
  BY DEF Extends, Delivered
<1>3. OrderedIn(c)' = OrderedIn(c) /\ SequencedIn(c)' = SequencedIn(c)
  BY DEF OrderedIn, SequencedIn
<1>4. Broken(m) => Broken(m)'
  BY <1>3 DEF Broken
<1>5. c = messages'[m].channel
  OBVIOUS
<1>6. \/ m \in lost \/ m \in ordered[c] \/ m \in Delivered
      \/ m \in SequencedIn(c) /\ \E d \in Delivered \cap SequencedIn(c) : d > m
      \/ Broken(m)
  BY DEF Done
<1>7. \/ m \in lost' \/ m \in ordered'[c] \/ m \in Delivered'
      \/ m \in SequencedIn(c)' /\ \E d \in Delivered' \cap SequencedIn(c)' : d > m
      \/ Broken(m)'
  BY <1>1, <1>2, <1>3, <1>4, <1>6
<1> QED BY <1>5, <1>7 DEF Done

\* The streams are kept, what is done with stays so, and so is the message m.
Placed(m) ==
  /\ OrderedInv' /\ SequencedInv' /\ Done(m)'
  /\ \A l \in DOMAIN messages : Done(l) => Done(l)'

\* What accept needs to know of the streams and of what is under way.
GoodInv == TypeInv /\ ServerInv /\ AccountedInv /\ OrderedInv /\ SequencedInv

\* No message is in two streams.
LEMMA StreamsApart ==
  ASSUME NEW c \in Channel
  PROVE  /\ OrderedIn(c) \cap SequencedIn(c) = {}
         /\ \A d \in Channel : d # c => /\ OrderedIn(c) \cap OrderedIn(d) = {}
                                        /\ SequencedIn(c) \cap SequencedIn(d) = {}
                                        /\ OrderedIn(c) \cap SequencedIn(d) = {}
                                        /\ OrderedIn(d) \cap SequencedIn(c) = {}
BY DEF OrderedIn, SequencedIn, Ordered, Sequenced

\* The next ordered message takes its turn, with those that waited for it.
LEMMA PlaceInOrder ==
  ASSUME GoodInv, NEW c \in Channel, NEW k \in UnderWay,
         NEW m, m = frames[k].message, m \in OrderedIn(c),
         InOrder(m, c, Slot(m)), messages' = messages
  PROVE  Placed(m)
<1>1. PICK n \in Nat : Turn(c, m, n)
  BY InOrderDelivers DEF GoodInv
<1>2. /\ Extends /\ Len(delivered) \in Nat
      /\ Len(delivered') = Len(delivered) + 1 + n
      /\ DOMAIN delivered = 1..Len(delivered)
      /\ DOMAIN delivered' = 1..(Len(delivered) + 1 + n)
      /\ delivered'[Len(delivered) + 1] = m
      /\ \A j \in 1..n :
           /\ delivered'[Len(delivered) + 1 + j] \in ordered[c]
           /\ Slot(delivered'[Len(delivered) + 1 + j]) = (Slot(m) + j) % Space
      /\ ordered'[c] = {h \in ordered[c] :
                          \A j \in 1..n : Slot(h) # (Slot(m) + j) % Space}
      /\ \A d \in Channel \ {c} :
           ordered'[d] = ordered[d] /\ expected'[d] = expected[d]
      /\ sequenced' = sequenced /\ lost' = lost
  BY <1>1 DEF Turn, Extends
<1>3. ServerType /\ m \in DOMAIN messages /\ ordered[c] \subseteq OrderedIn(c)
  BY StreamSets DEF GoodInv, TypeInv, HeldInv
<1>4. \A j : Fresh(j) => delivered'[j] \in OrderedIn(c)
  <2> SUFFICES ASSUME NEW j \in (Len(delivered) + 1)..(Len(delivered) + 1 + n)
               PROVE  delivered'[j] \in OrderedIn(c)
    BY <1>2 DEF Fresh
  <2>1. CASE j = Len(delivered) + 1
    BY <1>2, <2>1
  <2>2. CASE j # Len(delivered) + 1
    <3> DEFINE i == j - (Len(delivered) + 1)
    <3>1. i \in 1..n /\ j = Len(delivered) + 1 + i
      BY <1>2, <2>2
    <3> HIDE DEF i
    <3> QED BY <1>2, <1>3, <3>1
  <2> QED BY <2>1, <2>2
<1>5. \A d \in Channel : OrderedIn(d)' = OrderedIn(d) /\ SequencedIn(d)' = SequencedIn(d)
  BY DEF OrderedIn, SequencedIn
<1>6. OrderedInv'
  <2> SUFFICES ASSUME NEW d \in Channel, lost \cap OrderedIn(d) = {}
               PROVE  \E e \in Nat : OrderedAt(d, e)'
    BY <1>2, <1>5 DEF OrderedInv
  <2>1. PICK e \in Nat : OrderedAt(d, e)
    BY DEF GoodInv, OrderedInv
  <2>2. CASE d = c
    BY <2>1, <2>2, InOrderKeeps DEF GoodInv
  <2>3. CASE d # c
    <3>1. ordered'[d] = ordered[d] /\ expected'[d] = expected[d]
      BY <1>2, <2>3
    <3>2. \A j : Fresh(j) => delivered'[j] \notin OrderedIn(d)
      BY <1>4, <2>3, StreamsApart
    <3>3. \A h \in ordered'[d] : messages[h].index > e
      BY <2>1, <3>1 DEF OrderedAt
    <3> QED BY <1>2, <2>1, <3>1, <3>2, <3>3, OrderedKept
  <2> QED BY <2>2, <2>3
<1>7. SequencedInv'
  <2> SUFFICES ASSUME NEW d \in Channel PROVE SequencedAt(d)'
    BY DEF SequencedInv
  <2>1. \A j : Fresh(j) => delivered'[j] \notin SequencedIn(d)
    BY <1>4, StreamsApart
  <2> QED BY <1>2, <2>1, SequencedKept DEF GoodInv, SequencedInv
<1>8. \A d \in Channel : \A h \in ordered[d] : h \in ordered'[d] \/ h \in Delivered'
  <2> SUFFICES ASSUME NEW h \in ordered[c], h \notin ordered'[c]
               PROVE  h \in Delivered'
    BY <1>2
  <2>1. PICK j \in 1..n : Slot(h) = (Slot(m) + j) % Space
    BY <1>2
  <2>2. delivered'[Len(delivered) + 1 + j] = h
    BY <1>2, <2>1 DEF GoodInv, TypeInv, HeldInv
  <2>3. Len(delivered) + 1 + j \in DOMAIN delivered'
    BY <1>2
  <2> QED BY <2>2, <2>3 DEF Delivered
<1>9. \A l \in DOMAIN messages : Done(l) => Done(l)'
  <2>1. lost \subseteq lost'
    BY <1>2
  <2> QED BY <1>2, <1>3, <1>8, <2>1, DoneStays
<1>10. Done(m)'
  <2>1. Len(delivered) + 1 \in DOMAIN delivered'
    BY <1>2
  <2>2. m \in Delivered'
    BY <1>2, <2>1 DEF Delivered
  <2> QED BY <2>2 DEF Done
<1> QED BY <1>6, <1>7, <1>9, <1>10 DEF Placed

\* An ordered message ahead of its turn is held, or given up at the limit.
LEMMA PlaceAhead ==
  ASSUME GoodInv, NEW c \in Channel, NEW k \in UnderWay,
         NEW m, m = frames[k].message, m \in OrderedIn(c),
         Ahead(m, c, Slot(m)), messages' = messages
  PROVE  Placed(m)
<1>1. /\ ServerType /\ StreamType /\ m \in DOMAIN messages
      /\ messages[m].channel = c
      /\ ordered \in [Channel -> SUBSET DOMAIN messages]
  BY DEF GoodInv, TypeInv, StreamType, OrderedIn
<1>2. /\ SequenceNewer(Slot(m), expected[c])
      /\ delivered' = delivered /\ expected' = expected /\ sequenced' = sequenced
      /\ \/ /\ ordered' = [ordered EXCEPT ![c] = @ \cup {m}] /\ lost' = lost
         \/ /\ ordered' = ordered /\ lost' = lost \cup {m}
  BY DEF Ahead
<1>3. Extends /\ \A j : ~Fresh(j)
  BY <1>1, <1>2, StayExtends
<1>4. \A d \in Channel : OrderedIn(d)' = OrderedIn(d) /\ SequencedIn(d)' = SequencedIn(d)
  BY DEF OrderedIn, SequencedIn
<1>5. /\ lost \subseteq lost'
      /\ \A d \in Channel : \A h \in ordered[d] : h \in ordered'[d]
      /\ \A d \in Channel : \A h \in ordered'[d] :
           h \in ordered[d] \/ (d = c /\ h = m)
      /\ m \in lost' \/ m \in ordered'[c]
  BY <1>1, <1>2
<1>6. OrderedInv'
  <2> SUFFICES ASSUME NEW d \in Channel, lost' \cap OrderedIn(d) = {}
               PROVE  \E e \in Nat : OrderedAt(d, e)'
    BY <1>4 DEF OrderedInv
  <2>1. lost \cap OrderedIn(d) = {}
    BY <1>5
  <2>2. PICK e \in Nat : OrderedAt(d, e)
    BY <2>1 DEF GoodInv, OrderedInv
  <2>3. d = c => messages[m].index > e
    BY <1>2, <2>1, <2>2, OrderedJudged DEF GoodInv
  <2>4. \A h \in ordered'[d] : messages[h].index > e
    BY <1>5, <2>2, <2>3 DEF OrderedAt
  <2>5. expected'[d] = expected[d]
    BY <1>2
  <2> QED BY <1>3, <2>2, <2>4, <2>5, OrderedKept
<1>7. SequencedInv'
  <2> SUFFICES ASSUME NEW d \in Channel PROVE SequencedAt(d)'
    BY DEF SequencedInv
  <2> QED BY <1>2, <1>3, SequencedKept DEF GoodInv, SequencedInv
<1>8. \A l \in DOMAIN messages : Done(l) => Done(l)'
  BY <1>1, <1>3, <1>5, DoneStays
<1>9. Done(m)'
  BY <1>1, <1>5 DEF Done
<1> QED BY <1>6, <1>7, <1>8, <1>9 DEF Placed

\* An ordered message that is neither was delivered before or is held already,
\* however often the indices wrapped.
LEMMA PlaceBehind ==
  ASSUME GoodInv, NEW c \in Channel, NEW k \in UnderWay,
         NEW m, m = frames[k].message, m \in OrderedIn(c),
         Behind(c, Slot(m)), messages' = messages
  PROVE  Placed(m)
<1> USE DEF streams
<1>1. /\ ServerType /\ StreamType /\ m \in DOMAIN messages
      /\ messages[m].channel = c /\ messages[m].index \in Nat
  BY StreamSets DEF GoodInv, TypeInv, OrderedIn
<1>2. /\ UNCHANGED <<delivered, ordered, expected, sequenced, lost>>
      /\ Slot(m) # expected[c]
      /\ SequenceNewer(Slot(m), expected[c]) => Taken(c, Slot(m))
  BY DEF Behind
<1>3. Extends /\ \A j : ~Fresh(j)
  BY <1>1, <1>2, StayExtends
<1>4. \A d \in Channel : OrderedIn(d)' = OrderedIn(d) /\ SequencedIn(d)' = SequencedIn(d)
  BY DEF OrderedIn, SequencedIn
<1>5. OrderedInv'
  <2> SUFFICES ASSUME NEW d \in Channel, lost \cap OrderedIn(d) = {}
               PROVE  \E e \in Nat : OrderedAt(d, e)'
    BY <1>2, <1>4 DEF OrderedInv
  <2>1. PICK e \in Nat : OrderedAt(d, e)
    BY DEF GoodInv, OrderedInv
  <2>2. \A h \in ordered'[d] : messages[h].index > e
    BY <1>2, <2>1 DEF OrderedAt
  <2>3. expected'[d] = expected[d]
    BY <1>2
  <2> QED BY <1>3, <2>1, <2>2, <2>3, OrderedKept
<1>6. SequencedInv'
  <2> SUFFICES ASSUME NEW d \in Channel PROVE SequencedAt(d)'
    BY DEF SequencedInv
  <2> QED BY <1>2, <1>3, SequencedKept DEF GoodInv, SequencedInv
<1>7. \A l \in DOMAIN messages : Done(l) => Done(l)'
  <2>1. /\ lost \subseteq lost'
        /\ \A d \in Channel : \A h \in ordered[d] : h \in ordered'[d]
    BY <1>2
  <2> QED BY <1>1, <1>3, <2>1, DoneStays
<1>8. Done(m)
  <2>1. CASE lost \cap OrderedIn(c) # {}
    BY <1>1, <2>1 DEF Done, Broken
  <2>2. CASE lost \cap OrderedIn(c) = {}
    <3>1. PICK e \in Nat : OrderedAt(c, e)
      BY <2>2 DEF GoodInv, OrderedInv
    <3>2. /\ messages[m].index # e
          /\ messages[m].index > e => SequenceNewer(Slot(m), expected[c])
          /\ \A h \in ordered[c] : Slot(h) = Slot(m) => h = m
      BY <1>2, <2>2, <3>1, OrderedJudged DEF GoodInv
    <3>3. CASE messages[m].index > e
      <4>1. Taken(c, Slot(m))
        BY <1>2, <3>2, <3>3
      <4>2. m \in ordered[c]
        BY <3>2, <4>1 DEF Taken
      <4> QED BY <1>1, <4>2 DEF Done
    <3>4. CASE messages[m].index < e
      <4>1. m \in Delivered
        BY <3>1, <3>4 DEF OrderedAt
      <4> QED BY <4>1 DEF Done
    <3> QED BY <1>1, <3>2, <3>3, <3>4
  <2> QED BY <2>1, <2>2
<1> QED BY <1>1, <1>5, <1>6, <1>7, <1>8 DEF Placed

\* A message of no stream is delivered.
LEMMA PlaceUnordered ==
  ASSUME GoodInv, NEW m \in DOMAIN messages,
         ~Ordered(messages[m].reliability), ~Sequenced(messages[m].reliability),
         Unordered(m), messages' = messages
  PROVE  Placed(m)
<1> USE DEF streams
<1>1. ServerType /\ StreamType
  BY DEF GoodInv, TypeInv
<1>2. delivered' = Append(delivered, m) /\ UNCHANGED <<ordered, expected, sequenced, lost>>
  BY DEF Unordered
<1>3. /\ Extends /\ m \in Delivered'
      /\ \A j : Fresh(j) => delivered'[j] = m
  BY <1>1, <1>2, AppendExtends
<1>4. \A d \in Channel : /\ OrderedIn(d)' = OrderedIn(d) /\ SequencedIn(d)' = SequencedIn(d)
                         /\ m \notin OrderedIn(d) /\ m \notin SequencedIn(d)
  BY DEF OrderedIn, SequencedIn
<1>5. OrderedInv'
  <2> SUFFICES ASSUME NEW d \in Channel, lost \cap OrderedIn(d) = {}
               PROVE  \E e \in Nat : OrderedAt(d, e)'
    BY <1>2, <1>4 DEF OrderedInv
  <2>1. PICK e \in Nat : OrderedAt(d, e)
    BY DEF GoodInv, OrderedInv
  <2>2. \A h \in ordered'[d] : messages[h].index > e
    BY <1>2, <2>1 DEF OrderedAt
  <2>3. /\ expected'[d] = expected[d]
        /\ \A j : Fresh(j) => delivered'[j] \notin OrderedIn(d)
    BY <1>2, <1>3, <1>4
  <2> QED BY <1>3, <2>1, <2>2, <2>3, OrderedKept
<1>6. SequencedInv'
  <2> SUFFICES ASSUME NEW d \in Channel PROVE SequencedAt(d)'
    BY DEF SequencedInv
  <2>1. \A j : Fresh(j) => delivered'[j] \notin SequencedIn(d)
    BY <1>3, <1>4
  <2> QED BY <1>2, <1>3, <2>1, SequencedKept DEF GoodInv, SequencedInv
<1>7. \A l \in DOMAIN messages : Done(l) => Done(l)'
  <2>1. /\ lost \subseteq lost'
        /\ \A d \in Channel : \A h \in ordered[d] : h \in ordered'[d]
    BY <1>2
  <2> QED BY <1>1, <1>3, <2>1, DoneStays
<1>8. Done(m)'
  BY <1>3 DEF Done
<1> QED BY <1>5, <1>6, <1>7, <1>8 DEF Placed

\* A sequenced message is delivered if it is newer than all before it, and
\* overtaken if not.
LEMMA PlaceNewest ==
  ASSUME GoodInv, NEW c \in Channel, NEW k \in UnderWay,
         NEW m, m = frames[k].message, m \in SequencedIn(c),
         Newest(m, c, Slot(m)), messages' = messages
  PROVE  Placed(m)
<1>1. /\ ServerType /\ StreamType /\ m \in DOMAIN messages
      /\ messages[m].channel = c /\ m \in Nat
      /\ sequenced \in [Channel -> SUBSET Wire]
      /\ SequencedIn(c) \subseteq Nat
  BY StreamSets DEF GoodInv, TypeInv, StreamType, SequencedIn
<1>2. UNCHANGED <<ordered, expected, lost>>
  BY DEF Newest
<1>3. \A d \in Channel : OrderedIn(d)' = OrderedIn(d) /\ SequencedIn(d)' = SequencedIn(d)
  BY DEF OrderedIn, SequencedIn
<1>4. ASSUME Extends, \A j : Fresh(j) => delivered'[j] = m
      PROVE  /\ OrderedInv'
             /\ \A d \in Channel : d # c /\ sequenced'[d] = sequenced[d] => SequencedAt(d)'
             /\ \A l \in DOMAIN messages : Done(l) => Done(l)'
  <2>1. ASSUME NEW d \in Channel, lost \cap OrderedIn(d) = {}
        PROVE  \E e \in Nat : OrderedAt(d, e)'
    <3>1. PICK e \in Nat : OrderedAt(d, e)
      BY <2>1 DEF GoodInv, OrderedInv
    <3>2. \A h \in ordered'[d] : messages[h].index > e
      BY <1>2, <3>1 DEF OrderedAt
    <3>3. /\ expected'[d] = expected[d]
          /\ \A j : Fresh(j) => delivered'[j] \notin OrderedIn(d)
      BY <1>2, <1>4, StreamsApart
    <3> QED BY <1>4, <3>1, <3>2, <3>3, OrderedKept
  <2>2. OrderedInv'
    BY <1>2, <1>3, <2>1 DEF OrderedInv
  <2>3. ASSUME NEW d \in Channel, d # c, sequenced'[d] = sequenced[d]
        PROVE  SequencedAt(d)'
    <3>1. \A j : Fresh(j) => delivered'[j] \notin SequencedIn(d)
      BY <1>4, <2>3, StreamsApart
    <3> QED BY <1>4, <2>3, <3>1, SequencedKept DEF GoodInv, SequencedInv
  <2>4. \A l \in DOMAIN messages : Done(l) => Done(l)'
    <3>1. /\ lost \subseteq lost'
          /\ \A d \in Channel : \A h \in ordered[d] : h \in ordered'[d]
      BY <1>2
    <3> QED BY <1>1, <1>4, <3>1, DoneStays
  <2> QED BY <2>2, <2>3, <2>4
<1>5. CASE \E s \in sequenced[c] : ~SequenceNewer(Slot(m), s)
  <2>1. delivered' = delivered /\ sequenced' = sequenced
    BY <1>5 DEF Newest
  <2>2. Extends /\ \A j : ~Fresh(j)
    BY <1>1, <2>1, StayExtends
  <2>3. SequencedInv'
    <3> SUFFICES ASSUME NEW d \in Channel PROVE SequencedAt(d)'
      BY DEF SequencedInv
    <3> QED BY <2>1, <2>2, SequencedKept DEF GoodInv, SequencedInv
  <2>4. PICK d \in DOMAIN messages : NewestIs(c, d)
    BY <1>5 DEF GoodInv, SequencedInv, SequencedAt
  <2>5. ~SequenceNewer(Slot(m), Slot(d))
    BY <1>5, <2>4 DEF NewestIs
  <2>6. m > d => lost \cap SequencedIn(c) # {}
    BY <2>4, <2>5, SequencedJudged DEF GoodInv
  <2>7. d \in Delivered \cap SequencedIn(c) /\ d \in Nat
    BY <1>1, <2>4 DEF NewestIs
  <2>8. Done(m)
    <3>1. CASE m > d
      BY <1>1, <2>6, <3>1 DEF Done, Broken
    <3>2. CASE m = d
      BY <2>7, <3>2 DEF Done
    <3>3. CASE d > m
      BY <1>1, <2>7, <3>3 DEF Done
    <3> QED BY <1>1, <2>7, <3>1, <3>2, <3>3
  <2> QED BY <1>1, <1>4, <2>2, <2>3, <2>8 DEF Placed
<1>6. CASE ~(\E s \in sequenced[c] : ~SequenceNewer(Slot(m), s))
  <2>1. /\ sequenced' = [sequenced EXCEPT ![c] = {Slot(m)}]
        /\ delivered' = Append(delivered, m)
    BY <1>6 DEF Newest
  <2>2. /\ Extends /\ m \in Delivered' /\ Len(delivered) \in Nat
        /\ DOMAIN delivered = 1..Len(delivered)
        /\ DOMAIN delivered' = 1..(Len(delivered) + 1)
        /\ \A j : Fresh(j) <=> j = Len(delivered) + 1
        /\ \A j \in 1..Len(delivered) : delivered'[j] = delivered[j]
        /\ delivered'[Len(delivered) + 1] = m
    BY <1>1, <2>1, AppendExtends DEF Extends
  <2>3. /\ sequenced'[c] = {Slot(m)}
        /\ \A d \in Channel : d # c => sequenced'[d] = sequenced[d]
    BY <1>1, <2>1
  <2>4. \A l \in Delivered \cap SequencedIn(c) : l < m
    <3>1. CASE Delivered \cap SequencedIn(c) = {}
      BY <3>1
    <3>2. CASE \E d \in DOMAIN messages : NewestIs(c, d)
      <4>1. PICK d \in DOMAIN messages : NewestIs(c, d)
        BY <3>2
      <4>2. SequenceNewer(Slot(m), Slot(d)) /\ d \in SequencedIn(c)
            /\ \A l \in Delivered \cap SequencedIn(c) : l <= d
        BY <1>6, <4>1 DEF NewestIs
      <4>3. m > d
        BY <4>1, <4>2, SequencedJudged DEF GoodInv
      <4> QED BY <1>1, <4>2, <4>3
    <3> QED BY <3>1, <3>2 DEF GoodInv, SequencedInv, SequencedAt
  <2>5. \A l : l \in Delivered' <=> l \in Delivered \/ l = m
    BY <2>2 DEF Delivered
  <2>6. SequencedAt(c)'
    <3> PICK T : T = SequencedIn(c)
      OBVIOUS
    <3>1. T = SequencedIn(c)' /\ Slot(m)' = Slot(m) /\ T \subseteq Nat
      BY <1>1, <1>3 DEF Slot
    <3>2. NewestIs(c, m)'
      BY <1>1, <2>2, <2>3, <2>4, <2>5, <3>1 DEF NewestIs
    <3>3. ASSUME NEW i \in Got(T)', NEW j \in Got(T)', i < j
          PROVE  delivered'[i] < delivered'[j]
      <4>1. i \in 1..(Len(delivered) + 1) /\ j \in 1..(Len(delivered) + 1)
            /\ delivered'[i] \in T /\ delivered'[j] \in T
        BY <2>2 DEF Got
      <4>2. i \in Got(T) /\ delivered'[i] = delivered[i] /\ delivered[i] \in Delivered
        BY <2>2, <3>3, <4>1 DEF Got, Delivered
      <4>3. CASE j = Len(delivered) + 1
        BY <2>2, <2>4, <4>1, <4>2, <4>3
      <4>4. CASE j # Len(delivered) + 1
        <5>1. j \in Got(T) /\ delivered'[j] = delivered[j]
          BY <2>2, <4>1, <4>4 DEF Got
        <5> QED BY <3>3, <4>2, <5>1 DEF GoodInv, SequencedInv, SequencedAt
      <4> QED BY <4>3, <4>4
    <3>4. Got(T)' = Got(SequencedIn(c))'
      BY <3>1 DEF Got
    <3> QED BY <1>1, <3>2, <3>3, <3>4 DEF SequencedAt
  <2>7. SequencedInv'
    BY <1>4, <2>2, <2>3, <2>6 DEF SequencedInv
  <2>8. Done(m)'
    BY <2>2 DEF Done
  <2> QED BY <1>4, <2>2, <2>7, <2>8 DEF Placed
<1> QED BY <1>5, <1>6

\* Whatever way a whole message goes.
LEMMA PlaceKeeps ==
  ASSUME GoodInv, NEW k \in UnderWay, NEW m, m = frames[k].message,
         Place(m), messages' = messages
  PROVE  Placed(m)
<1> DEFINE c == messages[m].channel
<1>1. m \in DOMAIN messages /\ c \in Channel
  BY StreamSets DEF GoodInv, TypeInv, ServerType, UnderWay
<1>2. CASE Ordered(messages[m].reliability)
  <2>1. m \in OrderedIn(c) /\ ~Sequenced(messages[m].reliability)
    BY <1>1, <1>2 DEF OrderedIn, Ordered, Sequenced
  <2>2. InOrder(m, c, Slot(m)) \/ Ahead(m, c, Slot(m)) \/ Behind(c, Slot(m))
    BY <1>2, <2>1 DEF Place
  <2> QED BY <1>1, <2>1, <2>2, PlaceInOrder, PlaceAhead, PlaceBehind
<1>3. CASE Sequenced(messages[m].reliability)
  <2>1. m \in SequencedIn(c) /\ ~Ordered(messages[m].reliability)
    BY <1>1, <1>3 DEF SequencedIn, Ordered, Sequenced
  <2>2. Newest(m, c, Slot(m))
    BY <1>3, <2>1 DEF Place
  <2> QED BY <1>1, <2>1, <2>2, PlaceNewest
<1>4. CASE /\ ~Ordered(messages[m].reliability)
           /\ ~Sequenced(messages[m].reliability)
  BY <1>1, <1>4, PlaceUnordered DEF Place
<1> QED BY <1>2, <1>3, <1>4

-----------------------------------------------------------------------------
(* The steps *)

\* The streams are kept, and what is done with stays so.
Kept == /\ OrderedInv' /\ SequencedInv'
        /\ \A l \in DOMAIN messages : Done(l) => Done(l)'

\* A message given up, or a part that is held, disturbs no stream.
LEMMA GivenUp ==
  ASSUME GoodInv, UNCHANGED <<messages, streams, delivered>>, lost \subseteq lost'
  PROVE  Kept
<1>1. /\ UNCHANGED <<messages, delivered, ordered, expected, sequenced>>
      /\ ServerType /\ StreamType
  BY DEF streams, GoodInv, TypeInv
<1>2. Extends /\ \A j : ~Fresh(j)
  BY <1>1, StayExtends
<1>3. \A d \in Channel : OrderedIn(d)' = OrderedIn(d)
  BY <1>1 DEF OrderedIn
<1>4. OrderedInv'
  <2> SUFFICES ASSUME NEW d \in Channel, lost' \cap OrderedIn(d) = {}
               PROVE  \E e \in Nat : OrderedAt(d, e)'
    BY <1>3 DEF OrderedInv
  <2>1. lost \cap OrderedIn(d) = {}
    OBVIOUS
  <2>2. PICK e \in Nat : OrderedAt(d, e)
    BY <2>1 DEF GoodInv, OrderedInv
  <2>3. \A h \in ordered'[d] : messages[h].index > e
    BY <1>1, <2>2 DEF OrderedAt
  <2>4. expected'[d] = expected[d] /\ messages' = messages
    BY <1>1
  <2> QED BY <1>2, <2>2, <2>3, <2>4, OrderedKept
<1>5. SequencedInv'
  <2> SUFFICES ASSUME NEW d \in Channel PROVE SequencedAt(d)'
    BY DEF SequencedInv
  <2> QED BY <1>1, <1>2, SequencedKept DEF GoodInv, SequencedInv
<1>6. \A l \in DOMAIN messages : Done(l) => Done(l)'
  <2>1. \A d \in Channel : \A h \in ordered[d] : h \in ordered'[d]
    BY <1>1
  <2> QED BY <1>1, <1>2, <2>1, DoneStays
<1> QED BY <1>4, <1>5, <1>6 DEF Kept

\* The parts held of a message go when it is done with, and no others.
LEMMA AssemblyDone ==
  ASSUME GoodInv, UNCHANGED <<messages, frames>>, NEW m, splits' \subseteq splits,
         \A f \in splits : f.message # m => f \in splits',
         \A k \in arrived' : k \in arrived \/ frames[k].message = m,
         \A l \in DOMAIN messages : Done(l) => Done(l)', Done(m)'
  PROVE  OpenInv' /\ AccountInv'
<1>1. OpenInv'
  BY DEF GoodInv, AccountedInv, OpenInv
<1>2. ASSUME NEW k \in arrived'
      PROVE  \/ messages[frames[k].message].reliability = "unreliable"
             \/ frames[k] \in splits'
             \/ Done(frames[k].message)'
  <2>1. CASE frames[k].message = m
    BY <2>1
  <2>2. CASE frames[k].message # m
    <3>1. k \in arrived
      BY <2>2
    <3>2. frames[k].message \in DOMAIN messages
      BY <3>1 DEF GoodInv, TypeInv, WindowType, ServerType
    <3> QED BY <2>2, <3>1, <3>2 DEF GoodInv, AccountedInv, AccountInv
  <2> QED BY <2>1, <2>2
<1> QED BY <1>1, <1>2 DEF AccountInv

\* The parts P are those of the message m, which has q.
AllParts(P, m, q) ==
  /\ P \subseteq Frame
  /\ \A f \in P : f.message = m /\ f.part <= q
  /\ \A p \in 1..q : [message |-> m, part |-> p] \in P

\* All its parts are as many as a message has.
LEMMA WholeMessage ==
  ASSUME NEW q \in Nat, NEW m, NEW P, AllParts(P, m, q)
  PROVE  Cardinality(P) = q
<1> USE DEF AllParts
<1> DEFINE g == [p \in 1..q |-> [message |-> m, part |-> p]]
<1>1. g \in [1..q -> P] /\ \A i, j \in 1..q : g[i] = g[j] => i = j
  <2>1. ASSUME NEW i \in 1..q, NEW j \in 1..q, g[i] = g[j]
        PROVE  i = j
    <3>1. g[i].part = i /\ g[j].part = j
      OBVIOUS
    <3> QED BY <2>1, <3>1, Zenon
  <2>2. g \in [1..q -> P]
    OBVIOUS
  <2> QED BY <2>1, <2>2
<1>2. ASSUME NEW f \in P PROVE \E p \in 1..q : g[p] = f
  <2>1. f \in [message : Id, part : 1..MaxParts] /\ f.message = m /\ f.part <= q
    BY DEF Frame
  <2>2. f.part \in 1..q
    BY <2>1, Bounds
  <2>3. f = [message |-> m, part |-> f.part]
    BY <2>1
  <2> QED BY <2>2, <2>3
<1> HIDE DEF g
<1>3. g \in Bijection(1..q, P)
  BY <1>1, <1>2 DEF Bijection, Injection, Surjection, IsInjective
<1>4. IsFiniteSet(1..q) /\ Cardinality(1..q) = q
  BY FS_Interval
<1> QED BY <1>3, <1>4, FS_Bijection DEF ExistsBijection

\* A part that joins a message leaves it without another one.
LEMMA AssemblyJoined ==
  ASSUME GoodInv, UNCHANGED <<messages, frames>>, NEW k \in UnderWay,
         NEW m, m = frames[k].message, splits' = splits \cup {frames[k]},
         Cardinality(Parts(m) \cup {frames[k]}) # messages[m].parts,
         \A j \in arrived' : j \in arrived \/ j = k,
         \A l \in DOMAIN messages : Done(l) => Done(l)'
  PROVE  OpenInv' /\ AccountInv'
<1>1. /\ k \in DOMAIN frames /\ frames[k] \in Frame /\ m \in DOMAIN messages
      /\ messages[m].parts \in Nat /\ splits \subseteq Frame
      /\ frames[k].part <= messages[m].parts
  BY StreamSets
  DEF UnderWay, GoodInv, TypeInv, ServerType, ServerInv, FrameInv, SplitInv
<1>2. \A f \in splits' : f.part <= messages[f.message].parts
  BY <1>1 DEF GoodInv, AccountedInv, OpenInv
<1>3. ASSUME NEW l \in DOMAIN messages
      PROVE  \E p \in 1..messages[l].parts : [message |-> l, part |-> p] \notin splits'
  <2>1. CASE l # m
    <3>1. PICK p \in 1..messages[l].parts : [message |-> l, part |-> p] \notin splits
      BY DEF GoodInv, AccountedInv, OpenInv
    <3>2. [message |-> l, part |-> p] # frames[k]
      BY <2>1
    <3> QED BY <3>1, <3>2
  <2>2. CASE l = m
    <3> SUFFICES ASSUME \A p \in 1..messages[m].parts :
                          [message |-> m, part |-> p] \in splits'
                 PROVE  FALSE
      BY <2>2
    <3>0. PICK P : P = Parts(m) \cup {frames[k]}
      OBVIOUS
    <3>1. P \subseteq Frame /\ \A f \in P : f.message = m /\ f.part <= messages[m].parts
      BY <1>1, <1>2, <3>0 DEF Parts
    <3>2. \A p \in 1..messages[m].parts : [message |-> m, part |-> p] \in P
      <4> SUFFICES ASSUME NEW p \in 1..messages[m].parts
                   PROVE  [message |-> m, part |-> p] \in P
        OBVIOUS
      <4> PICK f : f = [message |-> m, part |-> p]
        OBVIOUS
      <4>1. f \in splits' /\ f.message = m
        OBVIOUS
      <4>2. f \in splits \/ f = frames[k]
        BY <4>1
      <4>3. f \in P
        BY <3>0, <4>1, <4>2 DEF Parts
      <4> QED BY <4>3
    <3>3. Cardinality(P) = messages[m].parts
      <4>1. AllParts(P, m, messages[m].parts)
        BY <3>1, <3>2 DEF AllParts
      <4> QED BY <1>1, <4>1, WholeMessage
    <3> QED BY <3>0, <3>3, Zenon
  <2> QED BY <2>1, <2>2
<1>4. ASSUME NEW j \in arrived'
      PROVE  \/ messages[frames[j].message].reliability = "unreliable"
             \/ frames[j] \in splits'
             \/ Done(frames[j].message)'
  <2>1. CASE j = k
    BY <2>1
  <2>2. CASE j # k
    <3>1. j \in arrived
      BY <2>2
    <3>2. frames[j].message \in DOMAIN messages
      BY <3>1 DEF GoodInv, TypeInv, WindowType, ServerType
    <3> QED BY <3>1, <3>2 DEF GoodInv, AccountedInv, AccountInv
  <2> QED BY <2>1, <2>2
<1> QED BY <1>2, <1>3, <1>4 DEF OpenInv, AccountInv

\* Whatever accept does with a frame.
LEMMA AcceptKeeps ==
  ASSUME GoodInv, UNCHANGED <<messages, frames>>, NEW k \in UnderWay,
         Accept(frames[k]), arrived' = arrived \cup {k}
  PROVE  OrderedInv' /\ SequencedInv' /\ OpenInv' /\ AccountInv'
<1> PICK m : m = frames[k].message
  OBVIOUS
<1>1. \A j \in arrived' : j \in arrived \/ j = k
  OBVIOUS
<1>2. m \in DOMAIN messages
  BY StreamSets DEF UnderWay, GoodInv, TypeInv, ServerType
<1>3. ASSUME Kept, Done(m)', splits' = splits \/ DropSplit(m)
      PROVE  OrderedInv' /\ SequencedInv' /\ OpenInv' /\ AccountInv'
  <2>1. splits' \subseteq splits /\ \A f \in splits : f.message # m => f \in splits'
    BY <1>3 DEF DropSplit, Parts
  <2>2. \A j \in arrived' : j \in arrived \/ frames[j].message = m
    BY <1>1
  <2> QED BY <1>3, <2>1, <2>2, AssemblyDone DEF Kept
<1>4. CASE Place(m) /\ (splits' = splits \/ DropSplit(m))
  <2>1. Placed(m)
    BY <1>4, PlaceKeeps
  <2> QED BY <1>3, <1>4, <2>1 DEF Placed, Kept
<1>5. CASE /\ lost' = lost \cup {m} /\ UNCHANGED <<streams, delivered>>
           /\ splits' = splits \/ DropSplit(m)
  <2>1. Kept /\ m \in lost'
    BY <1>5, GivenUp
  <2> QED BY <1>3, <1>5, <2>1 DEF Done
<1>6. CASE /\ splits' = splits \cup {frames[k]}
           /\ Cardinality(Parts(m) \cup {frames[k]}) # messages[m].parts
           /\ UNCHANGED <<streams, delivered, lost>>
  <2>1. Kept
    BY <1>6, GivenUp
  <2> QED BY <1>1, <1>6, <2>1, AssemblyJoined DEF Kept
<1>7. CASE messages[m].parts = 1
  BY <1>4, <1>7 DEF Accept, assembly
<1>8. CASE messages[m].parts # 1 /\ SplitRefused(frames[k])
  BY <1>5, <1>8 DEF SplitRefused, assembly
<1>9. CASE messages[m].parts # 1 /\ SplitPart(frames[k])
  BY <1>4, <1>5, <1>6, <1>9 DEF SplitPart
<1> QED BY <1>7, <1>8, <1>9 DEF Accept

\* What the server sent does not change when it sends nothing.
LEMMA ServerStays ==
  ASSUME ServerInv, UNCHANGED <<messages, frames>>
  PROVE  ServerInv'
<1>1. \A c \in Channel : /\ OrderedIn(c)' = OrderedIn(c)
                         /\ SequencedIn(c)' = SequencedIn(c)
  BY DEF OrderedIn, SequencedIn
<1>2. \A T : InRow(T)' <=> InRow(T)
  BY DEF InRow
<1>3. IndexInv'
  BY <1>1, <1>2 DEF ServerInv, IndexInv
<1>4. FrameInv'
  BY DEF ServerInv, FrameInv
<1> QED BY <1>3, <1>4 DEF ServerInv

\* The inductive invariant.
WholeInv == ReceiverInv /\ GoodInv /\ NumberInv

\* A frame that arrives, for the first time or again.
LEMMA ReceiveKeeps ==
  ASSUME WholeInv, NEW k \in UnderWay, Receive(k)
  PROVE  WholeInv'
<1>1. ReceiverInv'
  BY ReceiveStep DEF WholeInv
<1>2. /\ UNCHANGED <<messages, frames>> /\ arrived' = arrived \cup {k}
  BY DEF Receive, server
<1>3. WindowInv /\ ServerType /\ WindowType
  BY DEF WholeInv, WindowInv, GoodInv, AccountedInv, TypeInv
<1>4. WindowInv'
  BY <1>3, WindowReceive
<1>5. ServerInv'
  BY <1>2, ServerStays DEF WholeInv, GoodInv
<1>6. OrderedInv' /\ SequencedInv' /\ OpenInv' /\ AccountInv'
  <2>1. CASE Number(k) \in received
    <3>1. UNCHANGED <<messages, frames, arrived, streams, splits, delivered, lost>>
      <4>1. k \in arrived
        BY <1>3, <2>1, DuplicateArrived DEF WindowInv
      <4> QED BY <1>2, <2>1, <4>1 DEF Receive, assembly
    <3>2. Kept
      BY <3>1, GivenUp DEF WholeInv
    <3>3. OpenInv'
      BY <3>1 DEF WholeInv, GoodInv, AccountedInv, OpenInv
    <3>4. AccountInv'
      <4>1. \A j \in arrived : frames[j].message \in DOMAIN messages
        BY <1>3 DEF WindowType, ServerType
      <4> QED BY <3>1, <3>2, <4>1 DEF Kept, WholeInv, GoodInv, AccountedInv, AccountInv
    <3> QED BY <3>2, <3>3, <3>4 DEF Kept
  <2>2. CASE Number(k) \notin received
    <3>1. Accept(frames[k])
      BY <2>2 DEF Receive
    <3> QED BY <1>2, <3>1, AcceptKeeps DEF WholeInv
  <2> QED BY <2>1, <2>2
<1> QED
  BY <1>1, <1>4, <1>5, <1>6
     DEF WholeInv, WindowInv, GoodInv, AccountedInv, TypeInv, ReceiverInv

\* An assembly that expires.
LEMMA ExpireKeeps ==
  ASSUME WholeInv, NEW m \in Assemblies, Expire(m)
  PROVE  WholeInv'
<1>1. ReceiverInv'
  BY ExpireStep DEF WholeInv
<1>2. /\ UNCHANGED <<messages, frames, arrived, received, streams, delivered>>
      /\ lost' = lost \cup {m} /\ splits' = splits \ Parts(m)
  BY DEF Expire, server, DropSplit
<1>3. \A k : Number(k)' = Number(k)
  BY DEF Number
<1>4. FlightInv' /\ NumberInv'
  BY <1>2, <1>3 DEF WholeInv, GoodInv, AccountedInv, FlightInv, NumberInv
<1>5. ServerInv'
  BY <1>2, ServerStays DEF WholeInv, GoodInv
<1>6. Kept
  BY <1>2, GivenUp DEF WholeInv
<1>7. Done(m)'
  BY <1>2 DEF Done
<1>8. OpenInv' /\ AccountInv'
  <2>1. splits' \subseteq splits /\ \A f \in splits : f.message # m => f \in splits'
    BY <1>2 DEF Parts
  <2> QED BY <1>2, <1>6, <1>7, <2>1, AssemblyDone DEF Kept, WholeInv
<1> QED
  BY <1>1, <1>4, <1>5, <1>6, <1>8
     DEF Kept, WholeInv, GoodInv, AccountedInv, TypeInv, ReceiverInv

\* A new message joins its stream behind all that was delivered of it.
LEMMA SendKeeps ==
  ASSUME GoodInv, NEW w \in Workload, Send(w)
  PROVE  OrderedInv' /\ SequencedInv' /\ OpenInv' /\ AccountInv'
<1> USE DEF streams, assembly
<1> PICK m : m = Len(messages) + 1
  OBVIOUS
<1>1. /\ ServerType /\ ServerType' /\ StreamType /\ WindowType
      /\ \A j \in DOMAIN messages : j \in DOMAIN messages' /\ messages'[j] = messages[j]
      /\ \A k \in DOMAIN frames : frames'[k] = frames[k]
      /\ Len(messages') = m /\ messages'[m].parts \in 1..MaxParts
  BY SendEffect DEF GoodInv, TypeInv
<1>2. UNCHANGED <<arrived, ordered, expected, sequenced, splits, delivered, lost>>
  BY DEF Send
<1>3. /\ m \notin DOMAIN messages /\ DOMAIN messages' = DOMAIN messages \cup {m}
      /\ \A j \in DOMAIN delivered : delivered[j] \in DOMAIN messages
      /\ \A k \in arrived : k \in DOMAIN frames /\ frames[k].message \in DOMAIN messages
  <2>1. DOMAIN messages' = 1..Len(messages')
    BY <1>1 DEF ServerType
  <2>2. \A j \in DOMAIN delivered : delivered[j] \in DOMAIN messages
    BY <1>1 DEF StreamType
  <2> QED BY <1>1, <2>1, <2>2, StreamSets DEF WindowType, ServerType
<1>4. ASSUME NEW T \in SUBSET DOMAIN messages, NEW U, U = T \/ U = T \cup {m}
      PROVE  /\ Got(U)' = Got(T)
             /\ \A d : d \in Delivered' \cap U <=> d \in Delivered \cap T
             /\ \A d \in T : d \in U
             /\ \A d \in U : d \notin T => d = m
  <2>1. \A j : j \in Got(U)' <=> j \in Got(T)
    BY <1>2, <1>3, <1>4 DEF Got
  <2>2. \A d : d \in Delivered' \cap U <=> d \in Delivered \cap T
    BY <1>2, <1>3, <1>4 DEF Delivered
  <2>3. Got(U)' = Got(T)
    BY <2>1 DEF Got
  <2> QED BY <1>3, <1>4, <2>2, <2>3
<1>5. ASSUME NEW c \in Channel, lost' \cap OrderedIn(c)' = {}
      PROVE  \E e \in Nat : OrderedAt(c, e)'
  <2> PICK T : T = OrderedIn(c)
    OBVIOUS
  <2> PICK U : U = OrderedIn(c)'
    OBVIOUS
  <2>1. /\ \/ U = T
           \/ U = T \cup {m} /\ messages'[m].index = Cardinality(T)
        /\ T \in SUBSET DOMAIN messages
    BY <1>1, StreamsSent, StreamSets
  <2>2. /\ Got(U)' = Got(T)
        /\ \A d : d \in Delivered' \cap U <=> d \in Delivered \cap T
        /\ \A d \in T : d \in U
        /\ \A d \in U : d \notin T => d = m
    BY <1>4, <2>1
  <2>3. lost \cap T = {}
    BY <1>2, <1>5, <2>2
  <2>4. PICK e \in Nat : OrderedAt(c, e)
    BY <2>3 DEF GoodInv, OrderedInv
  <2>5. /\ e <= Cardinality(T) /\ expected'[c] = e % Space
        /\ Cardinality(Got(T)) = e
        /\ \A j \in Got(T) : messages[delivered[j]].index = Cardinality(Before(Got(T), j))
        /\ \A x \in T : messages[x].index < e <=> x \in Delivered
        /\ \A h \in ordered[c] : messages[h].index > e
    BY <1>2, <2>4 DEF OrderedAt
  <2>6. e <= Cardinality(U)
    <3>1. IsFiniteSet(T) /\ Cardinality(T) \in Nat /\ m \notin T
      BY <1>1, <1>3, <2>1, StreamSets
    <3>2. U = T \cup {m} => Cardinality(U) = Cardinality(T) + 1
      BY <3>1, FS_AddElement
    <3> QED BY <2>1, <2>5, <3>1, <3>2
  <2>7. \A j \in Got(T) :
          messages'[delivered'[j]].index = Cardinality(Before(Got(T), j))
    BY <1>1, <1>2, <1>3, <2>5 DEF Got
  <2>8. \A x \in U : messages'[x].index < e <=> x \in Delivered'
    <3>1. ASSUME NEW x \in T PROVE messages'[x].index < e <=> x \in Delivered'
      BY <1>1, <2>1, <2>2, <2>5
    <3>2. ASSUME m \in U, m \notin T
          PROVE  ~(messages'[m].index < e) /\ m \notin Delivered'
      <4>1. messages'[m].index = Cardinality(T) /\ Cardinality(T) \in Nat
        BY <1>1, <2>1, <3>2, StreamSets
      <4> QED BY <2>2, <2>5, <3>2, <4>1
    <3> QED BY <2>2, <3>1, <3>2
  <2>9. \A h \in ordered'[c] : messages'[h].index > e
    <3>1. \A h \in ordered[c] : h \in DOMAIN messages
      BY <1>1 DEF StreamType
    <3> QED BY <1>1, <1>2, <2>5, <3>1
  <2>10. Got(U)' = Got(OrderedIn(c))' /\ \A S, j : Before(S, j)' = Before(S, j)
    BY DEF Got, Before
  <2> QED BY <2>2, <2>5, <2>6, <2>7, <2>8, <2>9, <2>10 DEF OrderedAt
<1>6. ASSUME NEW c \in Channel
      PROVE  SequencedAt(c)'
  <2> PICK T : T = SequencedIn(c)
    OBVIOUS
  <2> PICK U : U = SequencedIn(c)'
    OBVIOUS
  <2>1. (U = T \/ U = T \cup {m}) /\ T \in SUBSET DOMAIN messages
    BY <1>1, StreamsSent, StreamSets
  <2>2. /\ Got(U)' = Got(T)
        /\ \A d : d \in Delivered' \cap U <=> d \in Delivered \cap T
    BY <1>4, <2>1
  <2>3. SequencedAt(c)
    BY DEF GoodInv, SequencedInv
  <2>4. \A j, k \in Got(T) : j < k => delivered'[j] < delivered'[k]
    BY <1>2, <2>3 DEF SequencedAt
  <2>5. ASSUME NEW d \in DOMAIN messages, NewestIs(c, d)
        PROVE  d \in DOMAIN messages' /\ NewestIs(c, d)'
    <3>1. Slot(d)' = Slot(d) /\ d \in DOMAIN messages'
      BY <1>1 DEF Slot
    <3> QED BY <1>2, <2>2, <2>5, <3>1 DEF NewestIs
  <2>6. \/ sequenced'[c] = {} /\ Delivered' \cap U = {}
        \/ \E d \in DOMAIN messages' : NewestIs(c, d)'
    BY <1>2, <2>2, <2>3, <2>5 DEF SequencedAt
  <2>7. Got(U)' = Got(SequencedIn(c))'
    BY DEF Got
  <2> QED BY <2>2, <2>4, <2>6, <2>7 DEF SequencedAt
<1>7. OpenInv'
  <2>1. \A f \in splits : f.message \in DOMAIN messages
    BY DEF GoodInv, TypeInv, SplitInv
  <2>2. \A f \in splits' : f.part <= messages'[f.message].parts
    BY <1>1, <1>2, <2>1 DEF GoodInv, AccountedInv, OpenInv
  <2>3. \A l \in DOMAIN messages : \E p \in 1..messages'[l].parts :
          [message |-> l, part |-> p] \notin splits'
    BY <1>1, <1>2 DEF GoodInv, AccountedInv, OpenInv
  <2>4. 1 \in 1..messages'[m].parts /\ [message |-> m, part |-> 1] \notin splits'
    <3>1. 1 \in 1..messages'[m].parts
      BY <1>1, Bounds
    <3> QED BY <1>2, <1>3, <2>1, <3>1
  <2> QED BY <1>3, <2>2, <2>3, <2>4 DEF OpenInv
<1>8. ASSUME NEW l \in DOMAIN messages, Done(l)
      PROVE  Done(l)'
  <2> PICK c : c = messages[l].channel
    OBVIOUS
  <2>1. c \in Channel /\ c = messages'[l].channel
    BY <1>1, StreamSets
  <2>2. /\ \A x \in OrderedIn(c) : x \in OrderedIn(c)'
        /\ \A x \in SequencedIn(c) : x \in SequencedIn(c)'
    BY <1>1 DEF OrderedIn, SequencedIn
  <2>3. Delivered' = Delivered
    BY <1>2 DEF Delivered
  <2>4. Broken(l) => Broken(l)'
    BY <1>2, <2>1, <2>2 DEF Broken
  <2>5. \/ l \in lost' \/ l \in ordered'[c] \/ l \in Delivered'
        \/ l \in SequencedIn(c)' /\ \E d \in Delivered' \cap SequencedIn(c)' : d > l
        \/ Broken(l)'
    BY <1>2, <1>8, <2>2, <2>3, <2>4 DEF Done
  <2> QED BY <2>1, <2>5 DEF Done
<1>9. AccountInv'
  BY <1>1, <1>2, <1>3, <1>8 DEF GoodInv, AccountedInv, AccountInv
<1> QED BY <1>5, <1>6, <1>7, <1>9 DEF OrderedInv, SequencedInv

\* A message that is sent.
LEMMA SendWhole ==
  ASSUME WholeInv, NEW w \in Workload, Send(w)
  PROVE  WholeInv'
<1>1. ReceiverInv' /\ OrderedInv' /\ SequencedInv' /\ OpenInv' /\ AccountInv'
  BY SendStep, SendKeeps DEF WholeInv
<1>2. ServerType /\ WindowType /\ WindowInv /\ IndexInv /\ FrameInv
  BY DEF WholeInv, GoodInv, TypeInv, ServerInv, AccountedInv, WindowInv
<1>3. WindowInv' /\ IndexInv' /\ FrameInv'
  BY <1>2, WindowSend, IndexStep, FrameStep
<1> QED
  BY <1>1, <1>3
     DEF WholeInv, WindowInv, GoodInv, AccountedInv, TypeInv, ServerInv,
         ReceiverInv

\* Nothing was sent.
LEMMA WholeInit == Init => WholeInv
<1> SUFFICES ASSUME Init PROVE WholeInv
  OBVIOUS
<1>1. ReceiverInv
  BY ReceiverInit
<1>2. /\ messages = <<>> /\ frames = <<>> /\ arrived = {} /\ received = {}
      /\ splits = {} /\ delivered = <<>>
      /\ \A c \in Channel : ordered[c] = {} /\ expected[c] = 0 /\ sequenced[c] = {}
  BY DEF Init
<1>3. \A c \in Channel : OrderedIn(c) = {} /\ SequencedIn(c) = {}
  BY <1>2 DEF OrderedIn, SequencedIn
<1>4. Cardinality({}) = 0 /\ IsFiniteSet({})
  BY FS_EmptySet
<1>5. ServerInv
  <2>1. InRow({})
    BY <1>4 DEF InRow
  <2>2. IndexInv
    BY <1>3, <2>1, Zenon DEF IndexInv
  <2>3. FrameInv
    BY <1>2 DEF FrameInv
  <2> QED BY <2>2, <2>3 DEF ServerInv
<1>6. AccountedInv /\ NumberInv
  BY <1>2, <1>4, Bounds
  DEF AccountedInv, FlightInv, OpenInv, AccountInv, NumberInv
<1>7. \A T : Got(T) = {}
  BY <1>2 DEF Got
<1>8. Delivered = {}
  BY <1>2 DEF Delivered
<1>9. OrderedInv
  <2>1. 0 % Space = 0
    BY SpaceNumber
  <2>2. /\ \A c \in Channel : Cardinality(OrderedIn(c)) = 0
        /\ \A T : Cardinality(Got(T)) = 0
    BY <1>3, <1>4, <1>7, Zenon
  <2>3. \A c \in Channel : OrderedAt(c, 0)
    BY <1>2, <1>3, <1>7, <2>1, <2>2 DEF OrderedAt
  <2> QED BY <2>3 DEF OrderedInv
<1>10. SequencedInv
  BY <1>2, <1>7, <1>8 DEF SequencedInv, SequencedAt
<1> QED
  BY <1>1, <1>5, <1>6, <1>9, <1>10 DEF WholeInv, GoodInv, TypeInv, ReceiverInv

\* The receiver keeps its streams and accounts for what arrived, in every state.
LEMMA WholeCorrect == Spec => []WholeInv
<1>1. WholeInv /\ UNCHANGED vars => WholeInv'
  <2> SUFFICES ASSUME WholeInv, UNCHANGED vars PROVE WholeInv'
    OBVIOUS
  <2>1. /\ UNCHANGED <<messages, frames, arrived, received, splits, splitBytes>>
        /\ UNCHANGED <<ordered, expected, sequenced, orderedCount, streams>>
        /\ UNCHANGED <<delivered, lost, expired>>
    BY DEF vars, server, streams, assembly
  <2>2. ReceiverInv'
    <3>1. ServerType' /\ WindowType' /\ StreamType'
      BY <2>1 DEF WholeInv, ReceiverInv, ServerType, WindowType, StreamType
    <3>2. HeldInv' /\ SplitInv' /\ CountInv'
      BY <2>1
         DEF WholeInv, ReceiverInv, HeldInv, Slot, OrderedIn, SplitInv,
             CountInv, Held
    <3> QED BY <3>1, <3>2 DEF ReceiverInv
  <2>3. Kept
    BY <2>1, GivenUp DEF WholeInv
  <2>4. ServerInv'
    BY <2>1, ServerStays DEF WholeInv, GoodInv
  <2>5. FlightInv' /\ NumberInv' /\ OpenInv'
    <3>1. \A k : Number(k)' = Number(k)
      BY DEF Number
    <3> QED
      BY <2>1, <3>1
      DEF WholeInv, GoodInv, AccountedInv, FlightInv, NumberInv, OpenInv
  <2>6. AccountInv'
    <3>1. \A j \in arrived : frames[j].message \in DOMAIN messages
      BY DEF WholeInv, ReceiverInv, WindowType, ServerType
    <3> QED BY <2>1, <2>3, <3>1 DEF Kept, WholeInv, GoodInv, AccountedInv, AccountInv
  <2> QED
    BY <2>2, <2>3, <2>4, <2>5, <2>6
       DEF Kept, WholeInv, GoodInv, AccountedInv, TypeInv, ReceiverInv
<1>2. WholeInv /\ [Next]_vars => WholeInv'
  BY <1>1, SendWhole, ReceiveKeeps, ExpireKeeps DEF Next
<1> QED BY <1>2, WholeInit, PTL DEF Spec

-----------------------------------------------------------------------------
(* The theorems *)

\* The streams, the assemblies and the window hold what was sent, and neither
\* counter of accept ever runs below zero.
THEOREM TypeCorrect == Spec => []TypeOK
<1>1. ReceiverInv => TypeOK
  <2> SUFFICES ASSUME ReceiverInv PROVE TypeOK
    OBVIOUS
  <2>1. orderedCount \in Nat /\ splitBytes \in Nat
    BY HeldFinite, FS_CardinalityType DEF ReceiverInv, CountInv, SplitInv
  <2> QED
    BY <2>1
    DEF TypeOK, ReceiverInv, ServerType, StreamType, WindowType, SplitInv
<1> QED BY <1>1, ReceiverCorrect, PTL

\* What accept delivers of an ordered channel is what the server sent on it, in
\* that order and without a gap, and no sequenced message comes after a newer one
\* or twice: over lost, repeated and reordered frames, a window that is cleared,
\* assemblies that expire and numbers that wrap.
THEOREM StreamsKept == Spec => []StreamsInOrder
<1>1. WholeInv => StreamsInOrder
  <2> SUFFICES ASSUME WholeInv PROVE StreamsInOrder
    OBVIOUS
  <2>1. ASSUME NEW c \in Channel, lost \cap OrderedIn(c) = {},
               NEW j \in Got(OrderedIn(c))
        PROVE  messages[delivered[j]].index
                 = Cardinality({i \in Got(OrderedIn(c)) : i < j})
    <3>1. PICK e \in Nat : OrderedAt(c, e)
      BY <2>1 DEF WholeInv, GoodInv, OrderedInv
    <3> QED BY <3>1 DEF OrderedAt, Before
  <2>2. ASSUME NEW c \in Channel
        PROVE  \A j, k \in Got(SequencedIn(c)) : j < k => delivered[j] < delivered[k]
    BY DEF WholeInv, GoodInv, SequencedInv, SequencedAt
  <2>3. OrderedIsPrefix
    BY <2>1 DEF OrderedIsPrefix, Got
  <2>4. SequencedIncreases
    BY <2>2 DEF SequencedIncreases, Got
  <2> QED BY <2>3, <2>4 DEF StreamsInOrder
<1> QED BY <1>1, WholeCorrect, PTL

\* No reliable frame that run acknowledged is dropped in silence: its message was
\* delivered, is held, was overtaken or was given up at a limit, or follows one
\* of its stream that was; and the limits are checked against what is held.
THEOREM AcknowledgedAccounted == Spec => []AcknowledgedIsAccounted
<1>1. WholeInv => AcknowledgedIsAccounted
  <2> SUFFICES ASSUME WholeInv PROVE AcknowledgedIsAccounted
    OBVIOUS
  <2>1. ASSUME NEW k \in arrived, NEW m, m = frames[k].message,
               NEW c, c = messages[m].channel
        PROVE  \/ ~Reliable(messages[m].reliability)
               \/ m \in lost \/ frames[k] \in splits \/ m \in ordered[c] \/ m \in Delivered
               \/ m \in SequencedIn(c) /\ \E d \in Delivered \cap SequencedIn(c) : d > m
               \/ Broken(m)
    BY <2>1 DEF WholeInv, GoodInv, AccountedInv, AccountInv, Reliable, Done
  <2>2. /\ splitBytes = Cardinality(splits)
        /\ orderedCount = Cardinality(UNION {ordered[c] : c \in Channel})
    BY DEF WholeInv, ReceiverInv, CountInv, Held
  <2> QED BY <2>1, <2>2 DEF AcknowledgedIsAccounted
<1> QED BY <1>1, WholeCorrect, PTL
=============================================================================
