------------------------- MODULE OtaManagerProofs -------------------------
(***************************************************************************)
(* Proofs about the over-the-air channel, for packets of any shape, any    *)
(* MTU, any thresholds and any number of packets and of lives of the       *)
(* sender.                                                                 *)
(***************************************************************************)
EXTENDS OtaManager, FiniteSets, FiniteSetTheorems, WellFoundedInduction, TLAPS

(***************************************************************************)
(* The inductive invariant.                                                *)
(***************************************************************************)
(* A byte of the message lies in the part. *)
CoversByte(p, k) == p.offset < k /\ k <= p.offset + p.size

(* The bytes of its message an entry holds. *)
BytesHeld(entry) ==
    {k \in 1..Total(entry.msg.shape) : \E p \in entry.parts : CoversByte(p, k)}

(* An entry holds parts of one message, and counts its bytes right. *)
EntryOK(entry) ==
    /\ entry.msg \in Messages
    /\ entry.parts \subseteq Cut(entry.msg)
    /\ entry.total_size = Cardinality(BytesHeld(entry))

(* The numbers, clocks and histories are well formed. *)
EndsOK ==
    /\ uuid \in 1..MaxUuid /\ sequence \in 0..MaxSequence /\ now \in 0..MaxTime
    /\ sent \subseteq Messages /\ excused \subseteq sent
    /\ last_check \in 0..now /\ last_cleanup \in 0..now

(* Datagrams are parts of messages that were sent. *)
WireOK == \A d \in wire : d.msg \in sent /\ d \in Cut(d.msg)

(* Entries are filed under the number of a message that was sent, and what *)
(* is complete does not stay.                                              *)
StoreOK(store) ==
    /\ DOMAIN store \subseteq 1..MaxSequence
    /\ \A q \in DOMAIN store :
         /\ EntryOK(store[q]) /\ ~Complete(store[q])
         /\ store[q].msg \in sent /\ store[q].msg.sequence = q
         /\ store[q].time \in 0..now

(* What the store holds of a message. *)
HeldOf(store, m) ==
    IF m.sequence \in DOMAIN store /\ store[m.sequence].msg = m
    THEN store[m.sequence].parts ELSE {}

(* Nothing of a message that is neither delivered nor excused is missing:  *)
(* each of its parts is on its way or held.                                *)
NoneMissing ==
    \A m \in sent \ excused :
      \/ \E x \in delivered : x.msg = m
      \/ Cut(m) \subseteq wire \cup HeldOf(part_store, m)

(* No entry was out of date when the store was last checked, or it came    *)
(* after that.                                                             *)
Fresh(entry) ==
    \/ last_check - entry.time < TimeoutThreshold
    \/ last_check <= entry.time /\ CheckThreshold > 0

AgesOK == \A q \in DOMAIN part_store : Fresh(part_store[q])

(* The cleanup checked the store, or had done so not long ago. *)
ChecksOK == \/ last_cleanup - last_check < CheckThreshold
            \/ last_cleanup = last_check

IInv == /\ EndsOK /\ WireOK /\ StoreOK(part_store) /\ AgesOK /\ ChecksOK
        /\ NoneMissing /\ DeliveredAsSent

-----------------------------------------------------------------------------
(***************************************************************************)
(* Numbers.                                                                *)
(***************************************************************************)
(* A set of numbers that is not empty has a least member: the order of the *)
(* natural numbers is well founded.                                        *)
LEMMA LeastOf ==
  ASSUME NEW S, S \subseteq Nat, S # {}
  PROVE  \E i \in S : \A j \in S : i <= j
<1> DEFINE R == OpToRel(<, Nat)
<1>1. IsWellFoundedOn(R, Nat)
  BY NatLessThanWellFounded
<1>2. PICK x \in S : TRUE
  OBVIOUS
<1>3. PICK i \in S : \A j \in S : ~(<<j, i>> \in R)
  BY <1>1, <1>2, WFMin
<1>4. ASSUME NEW j \in S
      PROVE  i <= j
  <2>1. ~(j < i)
    BY <1>3 DEF OpToRel
  <2> QED
    BY <2>1
<1> QED
  BY <1>4

(* Products grow with their factors. *)
LEMMA Products ==
  ASSUME NEW z \in Nat \ {0}, NEW a \in Nat, NEW b \in Nat
  PROVE  /\ a * z \in Nat /\ a <= a * z /\ (a + 1) * z = a * z + z
         /\ (a < b => a * z + z <= b * z)
<1>1. \A c \in Nat : c * z \in Nat
  OBVIOUS
<1>2. (a + 1) * z = a * z + z
  OBVIOUS
<1>3. a <= a * z
  <2>1. a * z = a + a * (z - 1)
    OBVIOUS
  <2>2. a * (z - 1) \in Nat
    OBVIOUS
  <2> QED
    BY <2>1, <2>2
<1>4. ASSUME a < b
      PROVE  a * z + z <= b * z
  <2> DEFINE c == b - (a + 1)
  <2>1. c \in Nat /\ b = (a + 1) + c
    BY <1>4
  <2>2. ((a + 1) + c) * z = (a + 1) * z + c * z
    BY <2>1
  <2>3. c * z \in Nat /\ a * z \in Nat
    BY <1>1, <2>1
  <2> HIDE DEF c
  <2> QED
    BY <1>2, <2>1, <2>2, <2>3
<1> QED
  BY <1>1, <1>2, <1>3, <1>4

-----------------------------------------------------------------------------
(***************************************************************************)
(* The parts of a message.                                                 *)
(***************************************************************************)
(* A message is not empty, nor is a full part of it. *)
LEMMA MessageFacts ==
  ASSUME NEW m \in Messages
  PROVE  /\ m.shape \in Shapes /\ m.uuid \in 1..MaxUuid /\ m.sequence \in 1..MaxSequence
         /\ Total(m.shape) \in Nat \ {0} /\ FullPart(m) \in Nat \ {0}
<1>1. m.shape \in Shapes /\ m.uuid \in 1..MaxUuid /\ m.sequence \in 1..MaxSequence
  BY DEF Messages
<1>2. /\ m.shape.event \in Nat /\ m.shape.control \in Nat /\ m.shape.data \in Nat
      /\ m.shape.event + m.shape.control + m.shape.data > 0
  BY <1>1, OtaAssumption
<1>3. Total(m.shape) \in Nat \ {0}
  BY <1>2 DEF Total
<1> QED
  BY <1>1, <1>3, OtaAssumption DEF FullPart

(* What a part of a message is: a stretch of it, full if more is to come,  *)
(* else up to its end.                                                     *)
LEMMA PartFacts ==
  ASSUME NEW m \in Messages, NEW p \in Cut(m)
  PROVE  /\ \E n \in Nat : p.offset = n * FullPart(m)
         /\ p.msg = m /\ p.more \in BOOLEAN
         /\ p.offset \in Nat /\ p.size \in Nat \ {0}
         /\ p.size <= FullPart(m)
         /\ p.offset + p.size <= Total(m.shape)
         /\ p.more <=> p.offset + p.size < Total(m.shape)
         /\ p.more => p.size = FullPart(m)
<1> DEFINE T == Total(m.shape)
           z == FullPart(m)
<1>1. PICK n \in {k \in 0..(Total(m.shape) - 1) : k * FullPart(m) < Total(m.shape)} :
        p = Part(m, n)
  BY DEF Cut
<1>2. T \in Nat \ {0} /\ z \in Nat \ {0} /\ n \in Nat
  BY MessageFacts
<1>3. n * z \in Nat /\ n * z < T
  BY <1>1, <1>2, Products
<1>4. /\ p.msg = m /\ p.offset = n * z /\ p.more = (n * z + z < T)
      /\ p.size = IF n * z + z < T THEN z ELSE T - n * z
  BY <1>1 DEF Part
<1> HIDE DEF T, z
<1> DEFINE o == n * z
<1>5. o \in Nat /\ o < T
  BY <1>3
<1>6. p.msg = m /\ p.offset = o /\ p.more = (o + z < T)
      /\ p.size = IF o + z < T THEN z ELSE T - o
  BY <1>4
<1> HIDE DEF o
<1>7. /\ p.msg = m /\ p.more \in BOOLEAN /\ p.offset \in Nat /\ p.size \in Nat \ {0}
      /\ p.size <= z /\ p.offset + p.size <= T
      /\ p.more <=> p.offset + p.size < T
      /\ p.more => p.size = z
  <2>1. CASE o + z < T
    <3>1. p.more = TRUE /\ p.more \in BOOLEAN
      <4>1. (o + z < T) = TRUE
        BY <2>1
      <4> QED
        BY <1>6, <4>1
    <3>2. p.msg = m /\ p.offset = o /\ p.size = z
      BY <1>6, <2>1
    <3>3. /\ p.offset \in Nat /\ p.size \in Nat \ {0} /\ p.size <= z
          /\ p.offset + p.size <= T /\ p.offset + p.size < T
      BY <1>2, <1>5, <2>1, <3>2
    <3> QED
      BY <3>1, <3>2, <3>3
  <2>2. CASE ~(o + z < T)
    <3>1. p.more = FALSE /\ p.more \in BOOLEAN
      <4>1. (o + z < T) = FALSE
        BY <2>2
      <4> QED
        BY <1>6, <4>1
    <3>2. p.msg = m /\ p.offset = o /\ p.size = T - o
      BY <1>6, <2>2
    <3>3. /\ p.offset \in Nat /\ p.size \in Nat \ {0} /\ p.size <= z
          /\ p.offset + p.size <= T /\ ~(p.offset + p.size < T)
      BY <1>2, <1>5, <2>2, <3>2
    <3> QED
      BY <3>1, <3>2, <3>3
  <2> QED
    BY <2>1, <2>2
<1>8. n \in Nat /\ p.offset = n * z
  BY <1>2, <1>6 DEF o
<1> QED
  BY <1>7, <1>8 DEF T, z

(* A part is all of the stretch from its offset: the offset determines it. *)
LEMMA PartAt ==
  ASSUME NEW m \in Messages, NEW p \in Cut(m), NEW r \in Cut(m), p.offset = r.offset
  PROVE  p = r
<1>1. PICK n \in Nat : p = Part(m, n)
  BY MessageFacts DEF Cut
<1>2. PICK k \in Nat : r = Part(m, k)
  BY MessageFacts DEF Cut
<1>3. p.offset = n * FullPart(m) /\ r.offset = k * FullPart(m)
  BY <1>1, <1>2 DEF Part
<1> QED
  BY <1>1, <1>2, <1>3 DEF Part

(* Different parts do not overlap. *)
LEMMA PartsApart ==
  ASSUME NEW m \in Messages, NEW p \in Cut(m), NEW r \in Cut(m), p # r
  PROVE  \/ p.offset + p.size <= r.offset
         \/ r.offset + r.size <= p.offset
<1> DEFINE z == FullPart(m)
<1>0. z \in Nat \ {0}
  BY MessageFacts
<1>1. PICK n \in Nat : p.offset = n * z
  BY PartFacts
<1>2. PICK k \in Nat : r.offset = k * z
  BY PartFacts
<1>3. /\ p.offset \in Nat /\ p.size \in Nat /\ p.size <= z
      /\ r.offset \in Nat /\ r.size \in Nat /\ r.size <= z
  BY PartFacts
<1> HIDE DEF z
<1>4. n # k
  BY <1>1, <1>2, PartAt
<1>5. CASE n < k
  <2>1. n * z + z <= k * z
    BY <1>0, <1>5, Products
  <2>2. p.offset + z <= r.offset
    BY <1>1, <1>2, <2>1
  <2> QED
    BY <1>0, <1>3, <2>2
<1>6. CASE k < n
  <2>1. k * z + z <= n * z
    BY <1>0, <1>6, Products
  <2>2. r.offset + z <= p.offset
    BY <1>1, <1>2, <2>1
  <2> QED
    BY <1>0, <1>3, <2>2
<1> QED
  BY <1>4, <1>5, <1>6

(* Every byte of a message is in a part of it. *)
LEMMA PartOfByte ==
  ASSUME NEW m \in Messages, NEW k \in 1..Total(m.shape)
  PROVE  \E p \in Cut(m) : CoversByte(p, k)
<1> DEFINE T == Total(m.shape)
           z == FullPart(m)
           S == {i \in Nat : k <= i * z + z}
<1>1. T \in Nat \ {0} /\ z \in Nat \ {0} /\ k \in Nat \ {0} /\ k <= T
  BY MessageFacts
<1> HIDE DEF T, z
<1>2. k \in S
  <2>1. k <= k * z /\ k * z \in Nat
    BY <1>1, Products
  <2> QED
    BY <1>1, <2>1
<1>3. PICK n \in S : \A j \in S : n <= j
  BY <1>2, LeastOf
<1>4. n \in Nat /\ n * z \in Nat /\ n <= n * z /\ k <= n * z + z
  BY <1>1, <1>3, Products
<1>5. n * z < k
  <2> SUFFICES ASSUME k <= n * z
               PROVE  FALSE
    BY <1>1, <1>4
  <2>1. n # 0
    BY <1>1
  <2>2. n - 1 \in Nat /\ ((n - 1) + 1) * z = (n - 1) * z + z /\ (n - 1) + 1 = n
    BY <1>1, <1>4, <2>1, Products
  <2>3. n - 1 \in S
    BY <2>2
  <2> QED
    BY <1>3, <1>4, <2>3
<1>6. n \in 0..(T - 1) /\ n * z < T
  BY <1>1, <1>4, <1>5
<1> DEFINE p == Part(m, n)
<1>7. p \in Cut(m)
  BY <1>6 DEF Cut, T, z
<1>8. p.offset = n * z /\ p.size = IF n * z + z < T THEN z ELSE T - n * z
  BY DEF Part, T, z
<1>9. CoversByte(p, k)
  <2> DEFINE o == n * z
  <2>1. o \in Nat /\ o < k /\ k <= o + z /\ p.offset = o
        /\ p.size = IF o + z < T THEN z ELSE T - o
    BY <1>4, <1>5, <1>8
  <2> HIDE DEF o, p
  <2> QED
    BY <1>1, <2>1 DEF CoversByte
<1> QED
  BY <1>7, <1>9

(* A part that is not the first follows another. *)
LEMMA PartBefore ==
  ASSUME NEW m \in Messages, NEW p \in Cut(m), p.offset # 0
  PROVE  \E r \in Cut(m) : /\ r.offset < p.offset /\ r.offset + r.size = p.offset
                           /\ \A s \in Cut(m) : s.offset < p.offset => s.offset <= r.offset
<1>1. p.offset \in Nat /\ p.size \in Nat \ {0} /\ p.offset + p.size <= Total(m.shape)
      /\ Total(m.shape) \in Nat
  BY PartFacts, MessageFacts
<1>2. p.offset \in 1..Total(m.shape)
  BY <1>1
<1>3. PICK r \in Cut(m) : CoversByte(r, p.offset)
  BY <1>2, PartOfByte
<1>4. r.offset \in Nat /\ r.size \in Nat \ {0} /\ r.offset < p.offset
      /\ p.offset <= r.offset + r.size /\ r # p
  BY <1>1, <1>3, PartFacts DEF CoversByte
<1>5. r.offset + r.size = p.offset
  <2>1. \/ p.offset + p.size <= r.offset
        \/ r.offset + r.size <= p.offset
    BY <1>4, PartsApart
  <2> QED
    BY <1>1, <1>4, <2>1
<1>6. ASSUME NEW s \in Cut(m), s.offset < p.offset
      PROVE  s.offset <= r.offset
  <2>1. s.offset \in Nat /\ s.size \in Nat \ {0}
    BY PartFacts
  <2>2. CASE s = r
    BY <2>1, <2>2
  <2>3. CASE s # r
    <3>1. \/ s.offset + s.size <= r.offset
          \/ r.offset + r.size <= s.offset
      BY <2>3, PartsApart
    <3> QED
      BY <1>1, <1>4, <1>5, <1>6, <2>1, <3>1
  <2> QED
    BY <2>2, <2>3
<1> QED
  BY <1>4, <1>5, <1>6

(* The part with the last byte is the last one. *)
LEMMA LastPart ==
  ASSUME NEW m \in Messages
  PROVE  \E p \in Cut(m) : /\ \A r \in Cut(m) : r.offset <= p.offset
                           /\ p.offset + p.size = Total(m.shape)
<1>1. Total(m.shape) \in Nat \ {0} /\ Total(m.shape) \in 1..Total(m.shape)
  BY MessageFacts
<1>2. PICK p \in Cut(m) : CoversByte(p, Total(m.shape))
  BY <1>1, PartOfByte
<1>3. p.offset \in Nat /\ p.size \in Nat \ {0} /\ p.offset + p.size = Total(m.shape)
  BY <1>1, <1>2, PartFacts DEF CoversByte
<1>4. ASSUME NEW r \in Cut(m)
      PROVE  r.offset <= p.offset
  <2>1. r.offset \in Nat /\ r.size \in Nat \ {0} /\ r.offset + r.size <= Total(m.shape)
    BY PartFacts
  <2>2. CASE r = p
    BY <2>1, <2>2
  <2>3. CASE r # p
    <3>1. \/ p.offset + p.size <= r.offset
          \/ r.offset + r.size <= p.offset
      BY <2>3, PartsApart
    <3> QED
      BY <1>1, <1>3, <2>1, <3>1
  <2> QED
    BY <2>2, <2>3
<1> QED
  BY <1>3, <1>4

-----------------------------------------------------------------------------
(***************************************************************************)
(* Entries.                                                                *)
(***************************************************************************)
(* The bytes an entry holds are finitely many, no more than its message    *)
(* has, and all of them only if every byte is in a part.                   *)
LEMMA BytesFacts ==
  ASSUME NEW e, e.msg \in Messages
  PROVE  /\ IsFiniteSet(BytesHeld(e)) /\ Cardinality(BytesHeld(e)) \in Nat
         /\ Cardinality(BytesHeld(e)) = Total(e.msg.shape) <=>
              BytesHeld(e) = 1..Total(e.msg.shape)
<1> DEFINE T == Total(e.msg.shape)
<1>1. T \in Nat \ {0}
  BY MessageFacts
<1>2. BytesHeld(e) \subseteq 1..T
  BY DEF BytesHeld
<1> HIDE DEF T
<1>3. IsFiniteSet(1..T) /\ Cardinality(1..T) = T
  BY <1>1, FS_Interval
<1>4. /\ IsFiniteSet(BytesHeld(e))
      /\ Cardinality(1..T) = Cardinality(BytesHeld(e)) => 1..T = BytesHeld(e)
  BY <1>2, <1>3, FS_Subset
<1>5. Cardinality(BytesHeld(e)) \in Nat
  BY <1>4, FS_CardinalityType
<1> QED
  BY <1>3, <1>4, <1>5 DEF T

(* An entry with all the parts of its message is complete. *)
LEMMA AllPartsComplete ==
  ASSUME NEW e, EntryOK(e), e.parts = Cut(e.msg)
  PROVE  Complete(e)
<1>1. e.msg \in Messages /\ e.total_size = Cardinality(BytesHeld(e))
  BY DEF EntryOK
<1>2. e.total_size = Total(e.msg.shape)
  <2>1. \A k \in 1..Total(e.msg.shape) : \E p \in e.parts : CoversByte(p, k)
    BY <1>1, PartOfByte
  <2>2. BytesHeld(e) = 1..Total(e.msg.shape)
    BY <2>1 DEF BytesHeld
  <2> QED
    BY <1>1, <2>2, BytesFacts
<1>3. Contiguous(e)
  <2> SUFFICES ASSUME NEW p \in e.parts, p.offset # 0
               PROVE  Follows(e, p)
    BY DEF Contiguous
  <2> QED
    BY <1>1, PartBefore DEF Follows
<1>4. EndsAt(e, Total(e.msg.shape))
  BY <1>1, LastPart DEF EndsAt
<1> QED
  BY <1>2, <1>3, <1>4 DEF Complete

(* A byte of a part is the byte of its message at the same place. *)
LEMMA PayloadFacts ==
  ASSUME NEW m \in Messages, NEW p \in Cut(m), NEW k \in Int, CoversByte(p, k)
  PROVE  /\ Payload(p)[k - p.offset] = <<m.uuid, m.sequence, k>>
         /\ k \in 1..Total(m.shape)
<1>1. p.msg = m /\ p.offset \in Nat /\ p.size \in Nat /\ p.offset + p.size <= Total(m.shape)
      /\ Total(m.shape) \in Nat
  BY PartFacts, MessageFacts
<1>2. k - p.offset \in 1..p.size /\ p.offset + (k - p.offset) = k
      /\ k \in 1..Total(m.shape)
  BY <1>1 DEF CoversByte
<1> QED
  BY <1>1, <1>2 DEF Payload

(* What is put together from a complete entry is its message. *)
LEMMA CompleteIsWhole ==
  ASSUME NEW e, EntryOK(e), Complete(e)
  PROVE  Assembled(e) = Bytes(e.msg)
<1> DEFINE m == e.msg
           T == Total(m.shape)
<1>1. m \in Messages /\ e.parts \subseteq Cut(m) /\ e.total_size = T
      /\ Cardinality(BytesHeld(e)) = T
  BY DEF EntryOK, Complete
<1>2. BytesHeld(e) = 1..T
  BY <1>1, BytesFacts
<1>3. ASSUME NEW k \in 1..T
      PROVE  Assembled(e)[k] = Bytes(m)[k]
  <2> DEFINE p == CHOOSE p \in e.parts : p.offset < k /\ k <= p.offset + p.size
  <2>1. \E r \in e.parts : r.offset < k /\ k <= r.offset + r.size
    BY <1>2 DEF BytesHeld, CoversByte
  <2>2. p \in e.parts /\ CoversByte(p, k)
    BY <2>1 DEF CoversByte
  <2>3. Assembled(e)[k] = Payload(p)[k - p.offset]
    BY <1>1 DEF Assembled
  <2> HIDE DEF p
  <2>4. k \in Int
    BY <1>1, MessageFacts
  <2>5. Payload(p)[k - p.offset] = <<m.uuid, m.sequence, k>>
    BY <1>1, <2>2, <2>4, PayloadFacts
  <2>6. Bytes(m)[k] = <<m.uuid, m.sequence, k>>
    BY DEF Bytes
  <2> QED
    BY <2>3, <2>5, <2>6
<1>4. /\ Assembled(e) = [k \in 1..T |-> Assembled(e)[k]]
      /\ Bytes(m) = [k \in 1..T |-> Bytes(m)[k]]
  BY <1>1 DEF Assembled, Bytes
<1> QED
  BY <1>3, <1>4

(* A message in one datagram is what that datagram carries. *)
LEMMA SingleIsWhole ==
  ASSUME NEW m \in Messages, NEW d \in Cut(m), ~d.more, d.offset = 0
  PROVE  Payload(d) = Bytes(m)
<1>1. d.msg = m /\ d.size = Total(m.shape) /\ Total(m.shape) \in Nat
  <2>1. /\ d.msg = m /\ d.size \in Nat /\ d.offset + d.size <= Total(m.shape)
        /\ d.more <=> d.offset + d.size < Total(m.shape)
    BY PartFacts
  <2>2. ~(d.offset + d.size < Total(m.shape))
    BY <2>1
  <2>3. Total(m.shape) \in Nat
    BY MessageFacts
  <2> QED
    BY <2>1, <2>2, <2>3
<1>2. \A k \in 1..Total(m.shape) : d.offset + k = k
  BY <1>1
<1> QED
  BY <1>1, <1>2 DEF Payload, Bytes

(* An entry a first part is filed in. *)
LEMMA NewEntryOK ==
  ASSUME NEW d, d.msg \in Messages
  PROVE  EntryOK(NewEntry(d)) /\ NewEntry(d).msg = d.msg
<1>1. /\ NewEntry(d).msg = d.msg /\ NewEntry(d).parts = {} /\ NewEntry(d).total_size = 0
  BY DEF NewEntry
<1>2. BytesHeld(NewEntry(d)) = {}
  BY <1>1 DEF BytesHeld
<1> QED
  BY <1>1, <1>2, FS_EmptySet DEF EntryOK

(* A part is filed: the entry holds it as well, and still counts right,    *)
(* whether the part is new or came before.                                 *)
LEMMA FiledOK ==
  ASSUME NEW e, EntryOK(e), NEW d \in Cut(e.msg)
  PROVE  /\ EntryOK(Filed(e, d)) /\ Filed(e, d).msg = e.msg
         /\ Filed(e, d).parts = e.parts \cup {d} /\ Filed(e, d).time = now
<1> DEFINE f == Filed(e, d)
           T == Total(e.msg.shape)
           new == (d.offset + 1)..(d.offset + d.size)
<1>1. e.msg \in Messages /\ e.parts \subseteq Cut(e.msg)
      /\ e.total_size = Cardinality(BytesHeld(e))
  BY DEF EntryOK
<1>2. /\ f.msg = e.msg /\ f.time = now
      /\ f.parts = (e.parts \ Replaced(e, d)) \cup {d}
      /\ f.total_size = e.total_size - SizeReplaced(e, d) + d.size
  BY DEF Filed
<1>3. /\ d.offset \in Nat /\ d.size \in Nat \ {0} /\ d.offset + d.size <= T /\ T \in Nat
  BY <1>1, PartFacts, MessageFacts
<1>4. \A p \in e.parts : p.offset = d.offset <=> p = d
  BY <1>1, PartAt
<1>5. Replaced(e, d) = e.parts \cap {d}
  BY <1>4 DEF Replaced
<1>6. f.parts = e.parts \cup {d} /\ f.parts \subseteq Cut(e.msg)
  BY <1>1, <1>2, <1>5
<1>7. IsFiniteSet(BytesHeld(e)) /\ Cardinality(BytesHeld(e)) \in Nat
  BY <1>1, BytesFacts
<1> HIDE DEF f
<1>8. CASE d \in e.parts
  <2>1. Replaced(e, d) = {d}
    BY <1>5, <1>8
  <2>2. SizeReplaced(e, d) = d.size
    BY <2>1 DEF SizeReplaced
  <2>3. f.total_size = e.total_size
    BY <1>1, <1>2, <1>3, <1>7, <2>2
  <2>4. f.parts = e.parts
    BY <1>6, <1>8
  <2>5. BytesHeld(f) = BytesHeld(e)
    BY <1>2, <2>4 DEF BytesHeld
  <2> QED
    BY <1>1, <1>2, <1>6, <2>3, <2>4, <2>5 DEF EntryOK, f
<1>9. CASE d \notin e.parts
  <2>1. SizeReplaced(e, d) = 0
    BY <1>5, <1>9 DEF SizeReplaced
  <2>2. f.total_size = Cardinality(BytesHeld(e)) + d.size
    BY <1>1, <1>2, <1>3, <1>7, <2>1
  <2>3. \A k \in 1..T : CoversByte(d, k) <=> k \in new
    BY <1>3 DEF CoversByte
  <2>4. new \subseteq 1..T
    BY <1>3
  <2>5. BytesHeld(f) = BytesHeld(e) \cup new
    BY <1>2, <1>6, <2>3, <2>4 DEF BytesHeld
  <2>6. BytesHeld(e) \cap new = {}
    <3> SUFFICES ASSUME NEW k \in 1..T, NEW p \in e.parts, CoversByte(p, k), CoversByte(d, k)
                 PROVE  FALSE
      BY <2>3, <2>4 DEF BytesHeld
    <3>1. \/ p.offset + p.size <= d.offset
          \/ d.offset + d.size <= p.offset
      BY <1>1, <1>9, PartsApart
    <3>2. p.offset \in Nat /\ p.size \in Nat /\ k \in Nat
      BY <1>1, <1>3, PartFacts
    <3> QED
      BY <1>3, <3>1, <3>2 DEF CoversByte
  <2>7. IsFiniteSet(new) /\ Cardinality(new) = d.size
    <3>1. d.offset + 1 \in Int /\ d.offset + d.size \in Int /\ ~(d.offset + 1 > d.offset + d.size)
          /\ (d.offset + d.size) - (d.offset + 1) + 1 = d.size
      BY <1>3
    <3> QED
      BY <3>1, FS_Interval
  <2>8. Cardinality(BytesHeld(f)) = Cardinality(BytesHeld(e)) + d.size
    <3> HIDE DEF new
    <3>1. Cardinality(BytesHeld(e) \cup new) =
            Cardinality(BytesHeld(e)) + Cardinality(new) - Cardinality(BytesHeld(e) \cap new)
      BY <1>7, <2>7, FS_Union
    <3>2. Cardinality(BytesHeld(e) \cap new) = 0
      BY <2>6, FS_EmptySet
    <3> QED
      BY <1>3, <1>7, <2>5, <2>7, <3>1, <3>2
  <2> QED
    BY <1>1, <1>2, <1>6, <2>2, <2>8 DEF EntryOK, f
<1> QED
  BY <1>8, <1>9

-----------------------------------------------------------------------------
(***************************************************************************)
(* The steps.                                                              *)
(***************************************************************************)
(* The invariant says that the two ends are well formed. *)
LEMMA WellFormed ==
  ASSUME IInv
  PROVE  TypeOK
<1>1. \A m \in Messages : Cut(m) \subseteq Datagrams
  BY DEF Datagrams
<1>2. wire \subseteq Datagrams
  BY <1>1 DEF IInv, WireOK, EndsOK
<1>3. ASSUME NEW q \in DOMAIN part_store
      PROVE  /\ part_store[q].msg \in Messages /\ part_store[q].parts \subseteq Datagrams
             /\ part_store[q].total_size \in Nat /\ part_store[q].time \in 0..now
  <2>1. EntryOK(part_store[q]) /\ part_store[q].time \in 0..now
    BY DEF IInv, StoreOK
  <2> QED
    BY <1>1, <2>1, BytesFacts DEF EntryOK
<1>4. DOMAIN part_store \subseteq 1..MaxSequence
  BY DEF IInv, StoreOK
<1> QED
  BY <1>2, <1>3, <1>4 DEF IInv, EndsOK, TypeOK

(* After the cleanup nothing out of date is left, or the last check was    *)
(* not long ago; what was dropped is excused, the rest is as it was.       *)
LEMMA CleanupKeeps ==
  ASSUME EndsOK, NEW store, StoreOK(store),
         \A q \in DOMAIN store : \/ last_check - store[q].time < TimeoutThreshold
                                 \/ last_check <= store[q].time,
         Cleanup(store), last_cleanup' = now, now' = now, sent' = sent
  PROVE  /\ StoreOK(part_store)' /\ AgesOK' /\ ChecksOK'
         /\ last_check' \in 0..now' /\ last_cleanup' \in 0..now'
         /\ TimedOut(store) \subseteq sent
         /\ \A m \in sent \ TimedOut(store) :
              HeldOf(store, m) \subseteq HeldOf(part_store', m)
<1>0. /\ last_check \in Nat /\ now \in Nat /\ last_check <= now /\ last_check \in 0..now
      /\ CheckThreshold \in Nat /\ TimeoutThreshold \in Nat
  BY OtaAssumption DEF EndsOK
<1>1. /\ DOMAIN part_store' \subseteq DOMAIN store
      /\ \A q \in DOMAIN part_store' : part_store'[q] = store[q]
  BY DEF Cleanup
<1>2. StoreOK(part_store)'
  <2>1. DOMAIN part_store' \subseteq 1..MaxSequence
    BY <1>1 DEF StoreOK
  <2>2. ASSUME NEW q \in DOMAIN part_store'
        PROVE  /\ EntryOK(part_store'[q]) /\ ~Complete(part_store'[q])
               /\ part_store'[q].msg \in sent' /\ part_store'[q].msg.sequence = q
               /\ part_store'[q].time \in 0..now'
    BY <1>1 DEF StoreOK
  <2> QED
    BY <2>1, <2>2 DEF StoreOK
<1>3. TimedOut(store) \subseteq sent
  BY DEF TimedOut, StoreOK
<1>4. ASSUME NEW m \in sent \ TimedOut(store)
      PROVE  HeldOf(store, m) \subseteq HeldOf(part_store', m)
  <2>1. CASE m.sequence \in DOMAIN store /\ store[m.sequence].msg = m
    <3>1. m.sequence \in DOMAIN part_store'
      BY <2>1 DEF TimedOut
    <3> QED
      BY <1>1, <2>1, <3>1 DEF HeldOf
  <2>2. CASE ~(m.sequence \in DOMAIN store /\ store[m.sequence].msg = m)
    BY <2>2 DEF HeldOf
  <2> QED
    BY <2>1, <2>2
<1>t. \A q \in DOMAIN part_store' : part_store'[q].time \in 0..now
  BY <1>1 DEF StoreOK
<1>5. CASE now - last_check >= CheckThreshold
  <2>1. last_check' = now /\ \A q \in DOMAIN part_store' :
                               now - part_store'[q].time < TimeoutThreshold
    BY <1>0, <1>5 DEF Cleanup
  <2>2. AgesOK' /\ ChecksOK'
    BY <2>1 DEF AgesOK, Fresh, ChecksOK
  <2> QED
    BY <1>0, <1>2, <1>3, <1>4, <2>1, <2>2
<1>6. CASE ~(now - last_check >= CheckThreshold)
  <2>1. last_check' = last_check /\ now - last_check < CheckThreshold /\ CheckThreshold > 0
    BY <1>0, <1>6 DEF Cleanup
  <2>2. AgesOK'
    BY <1>1, <2>1 DEF AgesOK, Fresh
  <2>3. ChecksOK'
    BY <2>1 DEF ChecksOK
  <2> QED
    BY <1>0, <1>2, <1>3, <1>4, <2>1, <2>2, <2>3
<1> QED
  BY <1>5, <1>6

(* The store has no entry out of date as far as the cleanup is concerned. *)
LEMMA StoreAges ==
  ASSUME IInv
  PROVE  \A q \in DOMAIN part_store : \/ last_check - part_store[q].time < TimeoutThreshold
                                      \/ last_check <= part_store[q].time
  BY DEF IInv, AgesOK, Fresh

(* A datagram on its way belongs to a message; the entry it meets is for a *)
(* message with the same number.                                           *)
LEMMA DatagramFacts ==
  ASSUME IInv, NEW d \in wire
  PROVE  /\ d.msg \in sent /\ d.msg \in Messages /\ d \in Cut(d.msg)
         /\ \A m \in Messages : d \in Cut(m) => m = d.msg
         /\ EntryOK(EntryFor(d)) /\ EntryFor(d).msg \in sent
         /\ EntryFor(d).msg.sequence = d.msg.sequence
         /\ d.msg.sequence \in 1..MaxSequence
<1>1. d.msg \in sent /\ d.msg \in Messages /\ d \in Cut(d.msg)
  BY DEF IInv, WireOK, EndsOK
<1>2. \A m \in Messages : d \in Cut(m) => m = d.msg
  BY PartFacts
<1>3. d.msg.sequence \in 1..MaxSequence
  BY <1>1, MessageFacts
<1>4. CASE d.msg.sequence \in DOMAIN part_store
  BY <1>1, <1>2, <1>3, <1>4 DEF EntryFor, IInv, StoreOK
<1>5. CASE d.msg.sequence \notin DOMAIN part_store
  <2>1. EntryFor(d) = NewEntry(d)
    BY <1>5 DEF EntryFor
  <2> QED
    BY <1>1, <1>2, <1>3, <2>1, NewEntryOK
<1> QED
  BY <1>4, <1>5

(* A part that matches its entry belongs to the entry's message. *)
LEMMA MatchesSame ==
  ASSUME IInv, NEW d \in wire, Matches(EntryFor(d), d)
  PROVE  EntryFor(d).msg = d.msg
<1>1. /\ d.msg \in Messages /\ EntryFor(d).msg \in Messages
      /\ EntryFor(d).msg.sequence = d.msg.sequence
  BY DatagramFacts DEF EntryOK
<1>2. EntryFor(d).msg.shape = d.msg.shape /\ EntryFor(d).msg.uuid = d.msg.uuid
  BY DEF Matches
<1> QED
  BY <1>1, <1>2 DEF Messages

(* What the receiver does with a datagram keeps the histories right, if it *)
(* delivers only what was sent and loses track of nothing it has to        *)
(* answer for.                                                             *)
LEMMA ReceivedKeeps ==
  ASSUME IInv, NEW d, wire' \subseteq wire, wire \ {d} \subseteq wire',
         UNCHANGED <<uuid, sequence, sent, now>>,
         excused \subseteq excused', excused' \subseteq sent, delivered \subseteq delivered',
         \A x \in delivered' \ delivered : x.msg \in sent /\ x.payload = Bytes(x.msg),
         last_check' \in 0..now', last_cleanup' \in 0..now',
         StoreOK(part_store)', AgesOK', ChecksOK',
         \A m \in sent \ excused' :
           \/ \E x \in delivered' : x.msg = m
           \/ /\ HeldOf(part_store, m) \subseteq HeldOf(part_store', m)
              /\ d \in Cut(m) => d \in HeldOf(part_store', m)
  PROVE  IInv'
<1>1. EndsOK'
  BY DEF IInv, EndsOK
<1>2. WireOK'
  BY DEF IInv, WireOK
<1>3. DeliveredAsSent'
  BY DEF IInv, DeliveredAsSent
<1>4. NoneMissing'
  <2> SUFFICES ASSUME NEW m \in sent \ excused', ~\E x \in delivered' : x.msg = m
               PROVE  Cut(m) \subseteq wire' \cup HeldOf(part_store', m)
    BY DEF NoneMissing
  <2>1. Cut(m) \subseteq wire \cup HeldOf(part_store, m)
    BY DEF IInv, NoneMissing
  <2>2. /\ HeldOf(part_store, m) \subseteq HeldOf(part_store', m)
        /\ d \in Cut(m) => d \in HeldOf(part_store', m)
    OBVIOUS
  <2> QED
    BY <2>1, <2>2
<1> QED
  BY <1>1, <1>2, <1>3, <1>4 DEF IInv

(* The parts of a message go out. *)
LEMMA SendKeeps ==
  ASSUME IInv, NEW s \in Shapes, SendOtaPacket(s)
  PROVE  IInv'
<1> DEFINE m == [uuid |-> uuid, sequence |-> sequence', shape |-> s]
<1>1. /\ sequence' = sequence + 1 /\ sequence < MaxSequence
      /\ sent' = sent \cup {m} /\ wire' = wire \cup Cut(m)
      /\ UNCHANGED <<uuid, part_store, last_check, now, last_cleanup, delivered, excused>>
  BY DEF SendOtaPacket
<1>2. sequence \in 0..MaxSequence /\ MaxSequence \in Nat /\ uuid \in 1..MaxUuid
  BY OtaAssumption DEF IInv, EndsOK
<1>3. sequence' \in 1..MaxSequence
  BY <1>1, <1>2
<1>4. m \in Messages
  BY <1>2, <1>3 DEF Messages
<1> HIDE DEF m
<1>5. EndsOK'
  BY <1>1, <1>2, <1>3, <1>4 DEF IInv, EndsOK
<1>6. WireOK'
  BY <1>1, <1>4, PartFacts DEF IInv, WireOK
<1>7. StoreOK(part_store)'
  BY <1>1 DEF IInv, StoreOK
<1>8. AgesOK' /\ ChecksOK' /\ DeliveredAsSent'
  BY <1>1 DEF IInv, AgesOK, Fresh, ChecksOK, DeliveredAsSent
<1>9. NoneMissing'
  BY <1>1 DEF IInv, NoneMissing
<1> QED
  BY <1>5, <1>6, <1>7, <1>8, <1>9 DEF IInv

(* A datagram is lost: its message is excused, and it is part of no other. *)
LEMMA LoseKeeps ==
  ASSUME IInv, NEW d \in wire, Lose(d)
  PROVE  IInv'
<1>1. /\ wire' = wire \ {d} /\ excused' = excused \cup {d.msg}
      /\ UNCHANGED <<uuid, sequence, sent, part_store, last_check, now, last_cleanup,
                     delivered>>
  BY DEF Lose
<1>2. d.msg \in sent /\ \A m \in Messages : d \in Cut(m) => m = d.msg
  BY DatagramFacts
<1>3. sent \subseteq Messages
  BY DEF IInv, EndsOK
<1>4. EndsOK' /\ WireOK'
  BY <1>1, <1>2 DEF IInv, EndsOK, WireOK
<1>5. StoreOK(part_store)'
  BY <1>1 DEF IInv, StoreOK
<1>6. AgesOK' /\ ChecksOK' /\ DeliveredAsSent'
  BY <1>1 DEF IInv, AgesOK, Fresh, ChecksOK, DeliveredAsSent
<1>7. NoneMissing'
  <2> SUFFICES ASSUME NEW m \in sent, m \notin excused, m # d.msg,
                      ~\E x \in delivered : x.msg = m
               PROVE  Cut(m) \subseteq (wire \ {d}) \cup HeldOf(part_store, m)
    BY <1>1 DEF NoneMissing
  <2>1. Cut(m) \subseteq wire \cup HeldOf(part_store, m)
    BY DEF IInv, NoneMissing
  <2>2. d \notin Cut(m)
    BY <1>2, <1>3
  <2> QED
    BY <2>1, <2>2
<1> QED
  BY <1>4, <1>5, <1>6, <1>7 DEF IInv

(* A message in one datagram comes. *)
LEMMA SingleKeeps ==
  ASSUME IInv, NEW d \in wire, ReceiveSingle(d)
  PROVE  IInv'
<1> DEFINE new == {[msg |-> d.msg, payload |-> Payload(d)]}
           lost == TimedOut(part_store)
<1>1. /\ ~d.more /\ d.offset = 0 /\ delivered' = delivered \cup new
      /\ Cleanup(part_store) /\ excused' = excused \cup lost /\ last_cleanup' = now
      /\ wire' \in {wire, wire \ {d}} /\ UNCHANGED <<uuid, sequence, sent, now>>
  BY DEF ReceiveSingle, Handle
<1>2. /\ d.msg \in sent /\ d.msg \in Messages /\ d \in Cut(d.msg)
      /\ \A m \in Messages : d \in Cut(m) => m = d.msg
  BY DatagramFacts
<1>3. \A x \in new : x.msg \in sent /\ x.payload = Bytes(x.msg)
  BY <1>1, <1>2, SingleIsWhole
<1>e. EndsOK /\ StoreOK(part_store) /\ sent \subseteq Messages
  BY DEF IInv, EndsOK
<1>4. /\ StoreOK(part_store)' /\ AgesOK' /\ ChecksOK'
      /\ last_check' \in 0..now' /\ last_cleanup' \in 0..now' /\ lost \subseteq sent
      /\ \A m \in sent \ lost : HeldOf(part_store, m) \subseteq HeldOf(part_store', m)
  BY <1>1, <1>e, StoreAges, CleanupKeeps
<1>5. \E x \in new : x.msg = d.msg
  OBVIOUS
<1> HIDE DEF new, lost
<1>6. \A m \in sent \ lost : \/ \E x \in new : x.msg = m
                             \/ /\ HeldOf(part_store, m) \subseteq HeldOf(part_store', m)
                                /\ d \in Cut(m) => d \in HeldOf(part_store', m)
  BY <1>2, <1>4, <1>5, <1>e
<1> QED
  <2>1. wire' \subseteq wire /\ wire \ {d} \subseteq wire'
    BY <1>1
  <2>2. excused \subseteq excused' /\ excused' \subseteq sent
    BY <1>1, <1>4 DEF IInv, EndsOK
  <2>3. /\ delivered \subseteq delivered'
       /\ \A x \in delivered' \ delivered : x.msg \in sent /\ x.payload = Bytes(x.msg)
    BY <1>1, <1>3
  <2>4. ASSUME NEW m \in sent \ excused'
       PROVE  \/ \E x \in delivered' : x.msg = m
              \/ /\ HeldOf(part_store, m) \subseteq HeldOf(part_store', m)
                 /\ d \in Cut(m) => d \in HeldOf(part_store', m)
    BY <1>1, <1>6
  <2> QED
    BY <1>1, <1>4, <2>1, <2>2, <2>3, <2>4, ReceivedKeeps

(* A part meets the entry of another message, which goes with it. *)
LEMMA MismatchKeeps ==
  ASSUME IInv, NEW d \in wire, ReceiveMismatch(d)
  PROVE  IInv'
<1> DEFINE lost == {EntryFor(d).msg, d.msg}
           q == d.msg.sequence
<1>1. /\ part_store' = Remove(part_store, q) /\ excused' = excused \cup lost
      /\ wire' \in {wire, wire \ {d}}
      /\ UNCHANGED <<uuid, sequence, sent, last_check, now, last_cleanup, delivered>>
  BY DEF ReceiveMismatch
<1>2. /\ d.msg \in sent /\ d.msg \in Messages /\ EntryFor(d).msg \in sent
      /\ \A m \in Messages : d \in Cut(m) => m = d.msg
  BY DatagramFacts
<1>3. /\ DOMAIN part_store' = DOMAIN part_store \ {q}
      /\ \A r \in DOMAIN part_store' : part_store'[r] = part_store[r]
  BY <1>1 DEF Remove
<1>e. last_check' \in 0..now' /\ last_cleanup' \in 0..now' /\ sent \subseteq Messages
  BY <1>1 DEF IInv, EndsOK
<1>4. StoreOK(part_store)'
  BY <1>1, <1>3 DEF IInv, StoreOK
<1>5. AgesOK' /\ ChecksOK'
  BY <1>1, <1>3 DEF IInv, AgesOK, Fresh, ChecksOK
<1>6. ASSUME NEW m \in sent \ lost
      PROVE  /\ HeldOf(part_store, m) \subseteq HeldOf(part_store', m)
             /\ d \in Cut(m) => d \in HeldOf(part_store', m)
  <2>1. d \notin Cut(m)
    BY <1>2, <1>e
  <2>2. CASE m.sequence \in DOMAIN part_store /\ part_store[m.sequence].msg = m
    <3>1. m.sequence # q
      BY <2>2 DEF EntryFor
    <3> QED
      BY <1>3, <2>1, <2>2, <3>1 DEF HeldOf
  <2>3. CASE ~(m.sequence \in DOMAIN part_store /\ part_store[m.sequence].msg = m)
    BY <2>1, <2>3 DEF HeldOf
  <2> QED
    BY <2>2, <2>3
<1>7. lost \subseteq sent
  BY <1>2
<1> HIDE DEF lost
<1> QED
  <2>1. wire' \subseteq wire /\ wire \ {d} \subseteq wire'
    BY <1>1
  <2>2. excused \subseteq excused' /\ excused' \subseteq sent
    BY <1>1, <1>7 DEF IInv, EndsOK
  <2>3. /\ delivered \subseteq delivered'
       /\ \A x \in delivered' \ delivered : x.msg \in sent /\ x.payload = Bytes(x.msg)
    BY <1>1
  <2>4. ASSUME NEW m \in sent \ excused'
       PROVE  \/ \E x \in delivered' : x.msg = m
              \/ /\ HeldOf(part_store, m) \subseteq HeldOf(part_store', m)
                 /\ d \in Cut(m) => d \in HeldOf(part_store', m)
    BY <1>1, <1>6
  <2> QED
    BY <1>1, <1>4, <1>5, <1>e, <2>1, <2>2, <2>3, <2>4, ReceivedKeeps

(* A part is filed, and the message delivered if it was the last one. *)
LEMMA PartKeeps ==
  ASSUME IInv, NEW d \in wire, ReceivePart(d)
  PROVE  IInv'
<1> DEFINE e == EntryFor(d)
           f == Filed(e, d)
           q == d.msg.sequence
           store == StoreAfter(d)
           lost == TimedOut(store)
<1>1. /\ Matches(e, d) /\ Cleanup(store) /\ excused' = excused \cup lost
      /\ last_cleanup' = now /\ wire' \in {wire, wire \ {d}}
      /\ UNCHANGED <<uuid, sequence, sent, now>>
  BY DEF ReceivePart
<1>2. /\ d.msg \in sent /\ d.msg \in Messages /\ d \in Cut(d.msg) /\ EntryOK(e)
      /\ \A m \in Messages : d \in Cut(m) => m = d.msg
      /\ q \in 1..MaxSequence
  BY DatagramFacts
<1>3. e.msg = d.msg
  BY <1>1, MatchesSame
<1>4. /\ EntryOK(f) /\ f.msg = d.msg /\ f.parts = e.parts \cup {d} /\ f.time = now
  BY <1>2, <1>3, FiledOK
<1>e. EndsOK /\ StoreOK(part_store) /\ sent \subseteq Messages
  BY DEF IInv, EndsOK
<1>n. last_check <= now /\ now \in 0..now
  BY OtaAssumption DEF EndsOK, IInv
<1>a. /\ q \in DOMAIN part_store => e = part_store[q]
      /\ q \notin DOMAIN part_store => e.parts = {}
  BY DEF EntryFor, NewEntry
<1>5. CASE Complete(f)
  <2> DEFINE new == {[msg |-> e.msg, payload |-> Assembled(f)]}
  <2>1. delivered' = delivered \cup new /\ store = Remove(part_store, q)
    BY <1>5 DEF ReceivePart, Handle, StoreAfter
  <2>2. \A x \in new : x.msg \in sent /\ x.payload = Bytes(x.msg)
    BY <1>2, <1>3, <1>4, <1>5, CompleteIsWhole
  <2>3. \E x \in new : x.msg = d.msg
    BY <1>3
  <2> HIDE DEF new, e, f, store
  <2>4. /\ DOMAIN store = DOMAIN part_store \ {q}
        /\ \A r \in DOMAIN store : store[r] = part_store[r]
    BY <2>1 DEF Remove
  <2>5. StoreOK(store)
    BY <1>e, <2>4 DEF StoreOK
  <2>6. \A r \in DOMAIN store : \/ last_check - store[r].time < TimeoutThreshold
                                \/ last_check <= store[r].time
    BY <2>4, StoreAges
  <2>7. /\ StoreOK(part_store)' /\ AgesOK' /\ ChecksOK'
        /\ last_check' \in 0..now' /\ last_cleanup' \in 0..now' /\ lost \subseteq sent
        /\ \A m \in sent \ lost : HeldOf(store, m) \subseteq HeldOf(part_store', m)
    BY <1>1, <1>e, <2>5, <2>6, CleanupKeeps
  <2> HIDE DEF lost
  <2>8. ASSUME NEW m \in sent \ lost
        PROVE  \/ \E x \in new : x.msg = m
               \/ /\ HeldOf(part_store, m) \subseteq HeldOf(part_store', m)
                  /\ d \in Cut(m) => d \in HeldOf(part_store', m)
    <3>1. CASE m = d.msg
      BY <2>3, <3>1
    <3>2. CASE m # d.msg
      <4>1. d \notin Cut(m)
        BY <1>2, <1>e, <3>2
      <4>2. HeldOf(part_store, m) \subseteq HeldOf(store, m)
        <5>1. CASE m.sequence = q
          BY <1>3, <1>a, <3>2, <5>1 DEF HeldOf
        <5>2. CASE m.sequence # q
          BY <2>4, <5>2 DEF HeldOf
        <5> QED
          BY <5>1, <5>2
      <4> QED
        BY <2>7, <4>1, <4>2
    <3> QED
      BY <3>1, <3>2
  <2> QED
    <3>1. wire' \subseteq wire /\ wire \ {d} \subseteq wire'
      BY <1>1
    <3>2. excused \subseteq excused' /\ excused' \subseteq sent
      BY <1>1, <2>7 DEF IInv, EndsOK
    <3>3. /\ delivered \subseteq delivered'
         /\ \A x \in delivered' \ delivered : x.msg \in sent /\ x.payload = Bytes(x.msg)
      BY <2>1, <2>2
    <3>4. ASSUME NEW m \in sent \ excused'
         PROVE  \/ \E x \in delivered' : x.msg = m
                \/ /\ HeldOf(part_store, m) \subseteq HeldOf(part_store', m)
                   /\ d \in Cut(m) => d \in HeldOf(part_store', m)
      BY <1>1, <2>1, <2>8
    <3> QED
      BY <1>1, <2>7, <3>1, <3>2, <3>3, <3>4, ReceivedKeeps
<1>6. CASE ~Complete(f)
  <2>1. delivered' = delivered /\ store = Put(part_store, q, f)
    BY <1>6 DEF ReceivePart, StoreAfter
  <2> HIDE DEF e, f, store
  <2>4. /\ DOMAIN store = DOMAIN part_store \cup {q} /\ store[q] = f
        /\ \A r \in DOMAIN store \ {q} : r \in DOMAIN part_store /\ store[r] = part_store[r]
    BY <2>1 DEF Put
  <2>5. StoreOK(store)
    <3>1. DOMAIN store \subseteq 1..MaxSequence
      BY <1>2, <1>e, <2>4 DEF StoreOK
    <3>2. /\ EntryOK(store[q]) /\ ~Complete(store[q])
          /\ store[q].msg \in sent /\ store[q].msg.sequence = q /\ store[q].time \in 0..now
      BY <1>2, <1>4, <1>6, <1>n, <2>4
    <3>3. \A r \in DOMAIN store \ {q} :
            /\ EntryOK(store[r]) /\ ~Complete(store[r])
            /\ store[r].msg \in sent /\ store[r].msg.sequence = r /\ store[r].time \in 0..now
      BY <1>e, <2>4 DEF StoreOK
    <3> HIDE DEF q
    <3> QED
      BY <3>1, <3>2, <3>3 DEF StoreOK
  <2>6. \A r \in DOMAIN store : \/ last_check - store[r].time < TimeoutThreshold
                                \/ last_check <= store[r].time
    BY <1>4, <1>n, <2>4, StoreAges
  <2>7. /\ StoreOK(part_store)' /\ AgesOK' /\ ChecksOK'
        /\ last_check' \in 0..now' /\ last_cleanup' \in 0..now' /\ lost \subseteq sent
        /\ \A m \in sent \ lost : HeldOf(store, m) \subseteq HeldOf(part_store', m)
    BY <1>1, <1>e, <2>5, <2>6, CleanupKeeps
  <2> HIDE DEF lost
  <2>8. ASSUME NEW m \in sent \ lost
        PROVE  /\ HeldOf(part_store, m) \subseteq HeldOf(part_store', m)
               /\ d \in Cut(m) => d \in HeldOf(part_store', m)
    <3>1. CASE m = d.msg
      <4>1. HeldOf(store, m) = e.parts \cup {d}
        BY <1>4, <2>4, <3>1 DEF HeldOf
      <4>2. HeldOf(part_store, m) \subseteq e.parts
        BY <1>a, <3>1 DEF HeldOf
      <4> QED
        BY <2>7, <4>1, <4>2
    <3>2. CASE m # d.msg
      <4>1. d \notin Cut(m)
        BY <1>2, <1>e, <3>2
      <4>2. HeldOf(part_store, m) \subseteq HeldOf(store, m)
        <5>1. CASE m.sequence = q
          BY <1>3, <1>a, <3>2, <5>1 DEF HeldOf
        <5>2. CASE m.sequence # q
          BY <2>4, <5>2 DEF HeldOf
        <5> QED
          BY <5>1, <5>2
      <4> QED
        BY <2>7, <4>1, <4>2
    <3> QED
      BY <3>1, <3>2
  <2> QED
    <3>1. wire' \subseteq wire /\ wire \ {d} \subseteq wire'
      BY <1>1
    <3>2. excused \subseteq excused' /\ excused' \subseteq sent
      BY <1>1, <2>7 DEF IInv, EndsOK
    <3>3. /\ delivered \subseteq delivered'
         /\ \A x \in delivered' \ delivered : x.msg \in sent /\ x.payload = Bytes(x.msg)
      BY <2>1
    <3>4. ASSUME NEW m \in sent \ excused'
         PROVE  \/ \E x \in delivered' : x.msg = m
                \/ /\ HeldOf(part_store, m) \subseteq HeldOf(part_store', m)
                   /\ d \in Cut(m) => d \in HeldOf(part_store', m)
      BY <1>1, <2>8
    <3> QED
      BY <1>1, <2>7, <3>1, <3>2, <3>3, <3>4, ReceivedKeeps
<1> QED
  BY <1>5, <1>6

(* A datagram of its own makes the receiver look at the store. *)
LEMMA OwnKeeps ==
  ASSUME IInv, ReceiveOwn
  PROVE  IInv'
<1> DEFINE lost == TimedOut(part_store)
<1>1. /\ Cleanup(part_store) /\ excused' = excused \cup lost /\ last_cleanup' = now
      /\ UNCHANGED <<uuid, sequence, sent, wire, now, delivered>>
  BY DEF ReceiveOwn
<1>e. EndsOK /\ StoreOK(part_store)
  BY DEF IInv
<1>2. /\ StoreOK(part_store)' /\ AgesOK' /\ ChecksOK'
      /\ last_check' \in 0..now' /\ last_cleanup' \in 0..now' /\ lost \subseteq sent
      /\ \A m \in sent \ lost : HeldOf(part_store, m) \subseteq HeldOf(part_store', m)
  BY <1>1, <1>e, StoreAges, CleanupKeeps
<1> HIDE DEF lost
<1>3. EndsOK'
  BY <1>1, <1>2 DEF IInv, EndsOK
<1>4. WireOK' /\ DeliveredAsSent'
  BY <1>1 DEF IInv, WireOK, DeliveredAsSent
<1>5. NoneMissing'
  BY <1>1, <1>2 DEF IInv, NoneMissing
<1> QED
  BY <1>2, <1>3, <1>4, <1>5 DEF IInv

(* The sender starts again, or time passes. *)
LEMMA RestKeeps ==
  ASSUME IInv, \/ SenderRestarts
               \/ Tick
               \/ UNCHANGED vars
  PROVE  IInv'
<1>1. /\ UNCHANGED <<sent, wire, part_store, last_check, last_cleanup, delivered, excused>>
      /\ now' \in {now, now + 1} /\ (now' # now => now < MaxTime)
      /\ uuid' \in {uuid, uuid + 1} /\ (uuid' # uuid => uuid < MaxUuid)
      /\ sequence' \in {0, sequence}
  BY DEF SenderRestarts, Tick, vars
<1>n. /\ now \in Nat /\ uuid \in Nat \ {0} /\ MaxUuid \in Nat /\ MaxTime \in Nat
      /\ MaxSequence \in Nat /\ now <= MaxTime
  BY OtaAssumption DEF IInv, EndsOK
<1>2. EndsOK'
  BY <1>1, <1>n DEF IInv, EndsOK
<1>3. StoreOK(part_store)'
  <2>1. 0..now \subseteq 0..now'
    BY <1>1, <1>n
  <2> QED
    BY <1>1, <2>1 DEF IInv, StoreOK
<1>4. WireOK' /\ AgesOK' /\ ChecksOK' /\ NoneMissing' /\ DeliveredAsSent'
  BY <1>1 DEF IInv, WireOK, AgesOK, Fresh, ChecksOK, NoneMissing, DeliveredAsSent
<1> QED
  BY <1>2, <1>3, <1>4 DEF IInv

-----------------------------------------------------------------------------
(***************************************************************************)
(* Theorems.                                                               *)
(***************************************************************************)
(* The invariant holds at the start and is kept by every step of sender,   *)
(* network and receiver.                                                   *)
THEOREM Invariance == Spec => []IInv
<1>1. Init => IInv
  <2> SUFFICES ASSUME Init
               PROVE  IInv
    OBVIOUS
  <2>1. EndsOK
    BY OtaAssumption DEF Init, EndsOK
  <2>2. DOMAIN part_store = {}
    BY DEF Init
  <2> QED
    BY <2>1, <2>2 DEF Init, IInv, WireOK, StoreOK, AgesOK, ChecksOK, NoneMissing,
                      DeliveredAsSent
<1>2. IInv /\ [Next]_vars => IInv'
  BY SendKeeps, LoseKeeps, SingleKeeps, PartKeeps, MismatchKeeps, OwnKeeps, RestKeeps
     DEF Next
<1> QED
  BY <1>1, <1>2, PTL DEF Spec

(* The two ends are always well formed. *)
THEOREM TypesHold == Spec => []TypeOK
<1>1. IInv => TypeOK
  BY WellFormed
<1> QED
  BY <1>1, Invariance, PTL

(* What the receiver hands on from its reassembly (and from a datagram     *)
(* that needs none) is byte for byte a message one life of the sender      *)
(* sent, and a message that stays incomplete is forgotten within the       *)
(* timeout and one check interval, as long as datagrams come.              *)
THEOREM ReassemblyIsSound == Spec => []ReassemblySound
<1>1. IInv => DeliveredAsSent
  BY DEF IInv
<1>2. IInv => PartialsAgeOut
  <2> SUFFICES ASSUME IInv, NEW q \in DOMAIN part_store
               PROVE  last_cleanup - part_store[q].time < TimeoutThreshold + CheckThreshold
    BY DEF PartialsAgeOut
  <2> DEFINE t == part_store[q].time
  <2>1. t \in Nat /\ last_check \in Nat /\ last_cleanup \in Nat
        /\ CheckThreshold \in Nat /\ TimeoutThreshold \in Nat
    <3>1. now \in Nat
      BY OtaAssumption DEF IInv, EndsOK
    <3> QED
      BY <3>1, OtaAssumption DEF IInv, EndsOK, StoreOK
  <2>2. \/ last_check - t < TimeoutThreshold
        \/ last_check <= t /\ CheckThreshold > 0
    BY DEF IInv, AgesOK, Fresh
  <2>3. \/ last_cleanup - last_check < CheckThreshold
        \/ last_cleanup = last_check
    BY DEF IInv, ChecksOK
  <2> HIDE DEF t
  <2>4. last_cleanup - t < TimeoutThreshold + CheckThreshold
    BY <2>1, <2>2, <2>3
  <2> QED
    BY <2>4 DEF t
<1> QED
  BY <1>1, <1>2, Invariance, PTL DEF ReassemblySound

(* A message none of whose datagrams is on its way has been delivered,     *)
(* unless one was lost, came too late or met the remains of another life   *)
(* of the sender: else all its parts would be in an entry, which would be  *)
(* complete, and complete entries do not stay.                             *)
THEOREM SentArrives == Spec => []SentIsDelivered
<1>1. IInv => SentIsDelivered
  <2> SUFFICES ASSUME IInv, NEW m \in sent, Cut(m) \cap wire = {}, m \notin excused,
                      ~\E x \in delivered : x.msg = m
               PROVE  FALSE
    BY DEF SentIsDelivered
  <2>1. Cut(m) \subseteq HeldOf(part_store, m)
    BY DEF IInv, NoneMissing
  <2>2. m \in Messages
    BY DEF IInv, EndsOK
  <2>3. Cut(m) # {}
    BY <2>2, LastPart
  <2>4. m.sequence \in DOMAIN part_store /\ part_store[m.sequence].msg = m
        /\ HeldOf(part_store, m) = part_store[m.sequence].parts
    BY <2>1, <2>3 DEF HeldOf
  <2>5. EntryOK(part_store[m.sequence]) /\ ~Complete(part_store[m.sequence])
    BY <2>4 DEF IInv, StoreOK
  <2>6. part_store[m.sequence].parts = Cut(m)
    BY <2>1, <2>4, <2>5 DEF EntryOK
  <2> QED
    BY <2>4, <2>5, <2>6, AllPartsComplete
<1> QED
  BY <1>1, Invariance, PTL
=============================================================================
