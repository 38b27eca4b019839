----------------------------- MODULE OtaManager -----------------------------
(***************************************************************************)
(* The over-the-air channel between two emulators: one cuts the packets of *)
(* a NEM into datagrams that fit the MTU, the other puts them together     *)
(* again.  Datagrams may be lost, duplicated and reordered; the sender may *)
(* be restarted, which gives it a new UUID and starts its sequence numbers *)
(* again.  Parts are filed under source and sequence number only, so parts *)
(* of two lives of the sender meet in the same entry.                      *)
(*                                                                         *)
(* A byte of payload is the triple of its message and its position, which  *)
(* makes a payload put together from the wrong parts visible.              *)
(***************************************************************************)
EXTENDS Integers

CONSTANTS Shapes,          \* section lengths [event, control, data] to send
          PartSize,        \* ota_mtu less the overhead of a datagram, 0: no MTU
          CheckThreshold,  \* otamanagerpartcheckthreshold
          TimeoutThreshold,\* otamanagerparttimeoutthreshold
          MaxSequence,     \* bound on the packets one life of the sender sends
          MaxUuid,         \* bound on the lives of the sender
          MaxTime          \* bound on the clock

ASSUME OtaAssumption ==
    /\ \A s \in Shapes : /\ {s.event, s.control, s.data} \subseteq Nat
                         /\ s.event + s.control + s.data > 0
    /\ {PartSize, CheckThreshold, TimeoutThreshold} \subseteq Nat
    /\ {MaxSequence, MaxTime} \subseteq Nat
    /\ MaxUuid \in Nat \ {0}

VARIABLES
    uuid,         \* the sender's UUID
    sequence,     \* the sender's u64_sequence_number
    sent,         \* history: the messages sent
    wire,         \* datagrams in flight
    part_store,   \* the receiver's partial messages, by sequence number
    last_check,   \* last_part_check_time
    now,          \* the receiver's clock
    last_cleanup, \* history: when a datagram last led to the cleanup
    delivered,    \* history: what handle_ota_message was given
    excused       \* history: messages with a part lost, dropped or timed out

vars == <<uuid, sequence, sent, wire, part_store, last_check, now,
          last_cleanup, delivered, excused>>

Total(shape) == shape.event + shape.control + shape.data

Messages == [uuid : 1..MaxUuid, sequence : 1..MaxSequence, shape : Shapes]

(* The bytes of a message, and of a part of it. *)
Bytes(m) == [k \in 1..Total(m.shape) |-> <<m.uuid, m.sequence, k>>]
Payload(p) == [k \in 1..p.size |-> <<p.msg.uuid, p.msg.sequence, p.offset + k>>]

(* How long a full part of a message is. *)
FullPart(m) == IF PartSize = 0 THEN Total(m.shape) ELSE PartSize

(* The part that begins after n full ones: another full one if more is to  *)
(* come, else the rest, which announces no more.                           *)
Part(m, n) ==
    LET offset == n * FullPart(m)
        more == offset + FullPart(m) < Total(m.shape)
    IN  [msg |-> m, offset |-> offset, more |-> more,
         size |-> IF more THEN FullPart(m) ELSE Total(m.shape) - offset]

(* Slip: the last part is cut as long as the others. *)
CutWithoutRest(m) ==
    {[Part(m, n) EXCEPT !.size = FullPart(m)] :
       n \in {k \in 0..(Total(m.shape) - 1) : k * FullPart(m) < Total(m.shape)}}

(* The datagrams of a message: parts are cut until all of it is sent. *)
Cut(m) ==
    {Part(m, n) :
       n \in {k \in 0..(Total(m.shape) - 1) : k * FullPart(m) < Total(m.shape)}}

-----------------------------------------------------------------------------
Init ==
    /\ uuid = 1
    /\ sequence = 0
    /\ sent = {}
    /\ wire = {}
    /\ part_store = [q \in {} |-> {}]
    /\ last_check = 0
    /\ now = 0
    /\ last_cleanup = 0
    /\ delivered = {}
    /\ excused = {}

(***************************************************************************)
(* The sender and the network.  A send that fails half way, or a process   *)
(* that dies there, is a send whose remaining datagrams are lost.          *)
(***************************************************************************)

SendOtaPacket(shape) ==
    /\ sequence < MaxSequence
    /\ sequence' = sequence + 1
    /\ LET m == [uuid |-> uuid, sequence |-> sequence', shape |-> shape]
       IN  /\ sent' = sent \cup {m}
           /\ wire' = wire \cup Cut(m)
    /\ UNCHANGED <<uuid, part_store, last_check, now, last_cleanup, delivered,
                   excused>>

(* A new process draws a new UUID and counts from zero. *)
SenderRestarts ==
    /\ uuid < MaxUuid
    /\ uuid' = uuid + 1
    /\ sequence' = 0
    /\ UNCHANGED <<sent, wire, part_store, last_check, now, last_cleanup,
                   delivered, excused>>

Lose(d) ==
    /\ wire' = wire \ {d}
    /\ excused' = excused \cup {d.msg}
    /\ UNCHANGED <<uuid, sequence, sent, part_store, last_check, now,
                   last_cleanup, delivered>>

Tick ==
    /\ now < MaxTime
    /\ now' = now + 1
    /\ UNCHANGED <<uuid, sequence, sent, wire, part_store, last_check,
                   last_cleanup, delivered, excused>>

(***************************************************************************)
(* The receiver.                                                           *)
(***************************************************************************)

Remove(store, q) == [r \in DOMAIN store \ {q} |-> store[r]]

Put(store, q, entry) ==
    [r \in DOMAIN store \cup {q} |-> IF r = q THEN entry ELSE store[r]]

NewEntry(d) == [msg |-> d.msg, parts |-> {}, total_size |-> 0, time |-> now]

(* What the entry holds at the offset of the part: its length is taken off *)
(* the total when BTreeMap::insert replaces it.                            *)
Replaced(entry, d) == {p \in entry.parts : p.offset = d.offset}

SizeReplaced(entry, d) ==
    IF Replaced(entry, d) = {} THEN 0
    ELSE (CHOOSE p \in Replaced(entry, d) : TRUE).size

Filed(entry, d) ==
    [msg |-> entry.msg,
     parts |-> (entry.parts \ Replaced(entry, d)) \cup {d},
     total_size |-> entry.total_size - SizeReplaced(entry, d) + d.size,
     time |-> now]

(* The part that comes next before p, in the order of the offsets, ends    *)
(* where p begins.                                                         *)
Follows(entry, p) ==
    \E r \in entry.parts :
      /\ r.offset < p.offset /\ r.offset + r.size = p.offset
      /\ \A s \in entry.parts : s.offset < p.offset => s.offset <= r.offset

Contiguous(entry) == \A p \in entry.parts : p.offset = 0 \/ Follows(entry, p)

(* next_offset: where the last part ends. *)
EndsAt(entry, n) ==
    \E p \in entry.parts : /\ \A r \in entry.parts : r.offset <= p.offset
                          /\ p.offset + p.size = n

Complete(entry) == /\ entry.total_size = Total(entry.msg.shape)
                   /\ Contiguous(entry)
                   /\ EndsAt(entry, Total(entry.msg.shape))

(* full_payload: the parts in the order of their offsets. *)
Assembled(entry) ==
    [k \in 1..entry.total_size |->
       LET p == CHOOSE p \in entry.parts : p.offset < k /\ k <= p.offset + p.size
       IN  Payload(p)[k - p.offset]]

(* Slip: a part is accepted whatever the UUID of the entry it meets. *)
MatchesSizesOnly(entry, d) == entry.msg.shape = d.msg.shape

(* The part belongs to the message the entry was made for. *)
Matches(entry, d) == /\ entry.msg.shape = d.msg.shape
                     /\ entry.msg.uuid = d.msg.uuid

(* After every datagram, at most once per CheckThreshold, entries no part  *)
(* reached for TimeoutThreshold are dropped.                               *)
Cleanup(store) ==
    \/ /\ now - last_check >= CheckThreshold
       /\ part_store' = [q \in {r \in DOMAIN store :
                                  now - store[r].time < TimeoutThreshold} |-> store[q]]
       /\ last_check' = now
    \/ /\ now - last_check < CheckThreshold
       /\ part_store' = store
       /\ UNCHANGED last_check

TimedOut(store) == {store[q].msg : q \in DOMAIN store \ DOMAIN part_store'}

(* The entry the part is filed in. *)
EntryFor(d) ==
    IF d.msg.sequence \in DOMAIN part_store THEN part_store[d.msg.sequence]
    ELSE NewEntry(d)

(* What filing a part does to the store: a complete entry leaves it. *)
StoreAfter(d) ==
    IF Complete(Filed(EntryFor(d), d))
    THEN Remove(part_store, d.msg.sequence)
    ELSE Put(part_store, d.msg.sequence, Filed(EntryFor(d), d))

(* handle_ota_message: events are routed and data goes to every user. *)
Handle(m, payload) ==
    delivered' = delivered \cup {[msg |-> m, payload |-> payload]}

(* A message in one datagram does not touch the store. *)
ReceiveSingle(d) ==
    /\ d \in wire
    /\ ~d.more /\ d.offset = 0
    /\ Handle(d.msg, Payload(d))
    /\ Cleanup(part_store)
    /\ excused' = excused \cup TimedOut(part_store)
    /\ last_cleanup' = now
    /\ wire' \in {wire, wire \ {d}}
    /\ UNCHANGED <<uuid, sequence, sent, now>>

(* A part that meets the entry of another message takes it away and is     *)
(* dropped itself, and the cleanup is skipped.                             *)
ReceiveMismatch(d) ==
    /\ d \in wire
    /\ d.more \/ d.offset # 0
    /\ ~Matches(EntryFor(d), d)
    /\ part_store' = Remove(part_store, d.msg.sequence)
    /\ excused' = excused \cup {EntryFor(d).msg, d.msg}
    /\ wire' \in {wire, wire \ {d}}
    /\ UNCHANGED <<uuid, sequence, sent, last_check, now, last_cleanup, delivered>>

ReceivePart(d) ==
    /\ d \in wire
    /\ d.more \/ d.offset # 0
    /\ Matches(EntryFor(d), d)
    /\ IF Complete(Filed(EntryFor(d), d))
       THEN Handle(EntryFor(d).msg, Assembled(Filed(EntryFor(d), d)))
       ELSE UNCHANGED delivered
    /\ Cleanup(StoreAfter(d))
    /\ excused' = excused \cup TimedOut(StoreAfter(d))
    /\ last_cleanup' = now
    /\ wire' \in {wire, wire \ {d}}
    /\ UNCHANGED <<uuid, sequence, sent, now>>

(* A datagram of this emulator's own, looped back: only the cleanup runs. *)
ReceiveOwn ==
    /\ Cleanup(part_store)
    /\ excused' = excused \cup TimedOut(part_store)
    /\ last_cleanup' = now
    /\ UNCHANGED <<uuid, sequence, sent, wire, now, delivered>>

-----------------------------------------------------------------------------
Next ==
    \/ \E s \in Shapes : SendOtaPacket(s)
    \/ SenderRestarts
    \/ \E d \in wire : Lose(d)
    \/ \E d \in wire : ReceiveSingle(d)
    \/ \E d \in wire : ReceivePart(d)
    \/ \E d \in wire : ReceiveMismatch(d)
    \/ ReceiveOwn
    \/ Tick

Spec == Init /\ [][Next]_vars

Datagrams == UNION {Cut(m) : m \in Messages}

-----------------------------------------------------------------------------
(***************************************************************************)
(* Properties.                                                             *)
(***************************************************************************)
(* The two ends are well formed. *)
TypeOK ==
    /\ uuid \in 1..MaxUuid
    /\ sequence \in 0..MaxSequence
    /\ sent \subseteq Messages
    /\ wire \subseteq Datagrams
    /\ DOMAIN part_store \subseteq 1..MaxSequence
    /\ \A q \in DOMAIN part_store : /\ part_store[q].msg \in Messages
                                    /\ part_store[q].parts \subseteq Datagrams
                                    /\ part_store[q].total_size \in Nat
                                    /\ part_store[q].time \in 0..now
    /\ now \in 0..MaxTime
    /\ {last_check, last_cleanup} \subseteq 0..now
    /\ excused \subseteq sent

(* No message is ever put together from parts of different messages, or    *)
(* with a part missing, repeated or out of place: what is delivered is     *)
(* byte for byte a message that was sent, although the store is keyed      *)
(* without the UUID and the sender's numbers repeat after a restart.       *)
DeliveredAsSent ==
    \A x \in delivered : /\ x.msg \in sent
                         /\ x.payload = Bytes(x.msg)

(* As long as datagrams lead to the cleanup, a dead entry is gone within   *)
(* the timeout and one check interval.                                     *)
PartialsAgeOut ==
    \A q \in DOMAIN part_store :
      last_cleanup - part_store[q].time < TimeoutThreshold + CheckThreshold

(* Reassembly is sound: what completes is as sent, what does not is        *)
(* forgotten in time.                                                      *)
ReassemblySound == DeliveredAsSent /\ PartialsAgeOut

(* A message none of whose datagrams is on its way any more has been       *)
(* delivered, whatever order they came in and however often, unless a part *)
(* was lost, came too late or met the remains of another life of the       *)
(* sender.                                                                 *)
SentIsDelivered ==
    \A m \in sent :
      Cut(m) \cap wire = {} => (\E x \in delivered : x.msg = m) \/ m \in excused
=============================================================================
