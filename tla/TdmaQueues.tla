----------------------------- MODULE TdmaQueues -----------------------------
(***************************************************************************)
(* What the slots of the TDMA radio model carry: packets wait in queues by *)
(* priority, a transmit slot takes as much as it has room for, whole       *)
(* packets and fragments of packets together, and the receiver puts        *)
(* fragments together again under source, priority and sequence number.    *)
(* Frames are received in the order of their slots, or lost; the sender    *)
(* may be restarted, which starts its sequence numbers again; the receiver *)
(* drops what it holds when a full schedule arrives or a timeout is over.  *)
(*                                                                         *)
(* A fragment carries the packet it was cut from, which makes a payload    *)
(* put together from the wrong fragments visible.  Filling a slot and      *)
(* unpacking a frame happen under the mutex of the MAC: they are several   *)
(* actions here, and nothing else happens between them.                    *)
(***************************************************************************)
EXTENDS Integers, Sequences, FiniteSets

CONSTANTS
    Capacity,     \* bytes a slot has room for
    Threshold,    \* bytes after which aggregation ends
    Depth,        \* queue.depth
    Tokens,       \* flowcontroltokens
    FragmentTimeout,
    Modes         \* the instances to explore, one of which is chosen at first

(* flow, aggregate, fragment and strict are the settings                   *)
(* flowcontrolenable, aggregation-, fragmentation- and strictdequeueenable *)
(* of the MAC; classes are the queues in use, nems the destinations (0 in  *)
(* a slot is no destination), mine those the receiver takes packets for;   *)
(* sizes are payload sizes; packets, lives and time bound the packets of   *)
(* one life of the sender, its lives and the receiver's clock.             *)
ConstantsOK ==
    /\ {Capacity, Threshold, Depth, Tokens, FragmentTimeout} \subseteq Nat
    /\ \A m \in Modes :
         /\ {m.flow, m.aggregate, m.fragment, m.strict} \subseteq BOOLEAN
         /\ m.classes \subseteq 0..4 /\ m.sizes \subseteq Nat
         /\ m.nems \subseteq Nat \ {0} /\ m.mine \subseteq m.nems
         /\ {m.packets, m.lives, m.time} \subseteq Nat

VARIABLES
    mode,
    started,
    available_tokens,
    queues,            \* packets waiting, by class
    sequence,
    slot,              \* the slot being filled and the bytes used, or NoSlot
    items,             \* what it holds so far
    air,               \* the frame on its way, <<>> when none
    unpacking,         \* what the receiver has still to unpack
    reassembly,        \* incomplete packets, by class and sequence
    now,               \* the receiver's clock
    life,              \* how often the sender was started
    early,             \* history: packets waiting when the sender started
    left,              \* history: packets sent completely, oldest first
    delivered          \* history: packets passed up by the receiver

sender == <<started, available_tokens, queues, sequence, life, early, left>>
filling == <<slot, items>>
receiver == <<unpacking, reassembly, now, delivered>>
vars == <<mode, sender, filling, air, receiver>>

Classes == mode.classes
Nems == mode.nems
Mine == mode.mine
Sizes == mode.sizes
MaxPackets == mode.packets
MaxLives == mode.lives
MaxTime == mode.time

NoSlot == [class |-> -1, destination |-> 0, used |-> 0]

Init ==
    /\ mode \in Modes
    /\ started = FALSE
    /\ available_tokens = Tokens
    /\ queues = [c \in Classes |-> <<>>]
    /\ sequence = 0
    /\ slot = NoSlot
    /\ items = <<>>
    /\ air = <<>>
    /\ unpacking = <<>>
    /\ reassembly = {}
    /\ now = 0
    /\ life = 1
    /\ early = 0
    /\ left = <<>>
    /\ delivered = {}

(* The mutex of the sender is free. *)
Unlocked == slot = NoSlot

Without(q, i) == SubSeq(q, 1, i - 1) \o SubSeq(q, i + 1, Len(q))

(* The packets waiting, by queue and place. *)
Places == UNION {{c} \X (1..Len(queues[c])) : c \in Classes}

Waiting == Cardinality(Places)

Credited == IF available_tokens < Tokens THEN available_tokens + 1 ELSE Tokens

Credit == available_tokens' = IF mode.flow THEN Credited ELSE available_tokens

-----------------------------------------------------------------------------
(***************************************************************************)
(* process_downstream.                                                     *)
(***************************************************************************)
(* A full queue loses its first packet of which nothing was sent yet, or   *)
(* its first packet if all have been begun.                                *)
Victim(q) ==
    IF \E i \in 1..Len(q) : q[i].fragment_index = 0
    THEN CHOOSE i \in 1..Len(q) : /\ q[i].fragment_index = 0
                                  /\ \A j \in 1..(i - 1) : q[j].fragment_index # 0
    ELSE 1

Kept(q) == IF Len(q) >= Depth THEN Without(q, Victim(q)) ELSE q

TokensAfter(q) == (IF Len(q) >= Depth THEN Credited ELSE available_tokens) - 1

Downstream(class, destination, size) ==
    /\ Unlocked
    /\ sequence < MaxPackets
    /\ ~(mode.flow /\ available_tokens = 0)
    /\ Depth # 0
    /\ sequence' = sequence + 1
    /\ available_tokens' = IF mode.flow THEN TokensAfter(queues[class])
                           ELSE available_tokens
    /\ queues' = [queues EXCEPT ![class] =
                    Append(Kept(@), [life |-> life, sequence |-> sequence',
                                     destination |-> destination, size |-> size,
                                     offset |-> 0, fragment_index |-> 0])]
    /\ UNCHANGED <<mode, started, life, early, left, filling, air, receiver>>

-----------------------------------------------------------------------------
(***************************************************************************)
(* transmit_slot, take_transmission and queue_index.                       *)
(***************************************************************************)
Eligible(p) == slot.destination \in {0, p.destination}

HasEligible(c) == \E i \in 1..Len(queues[c]) : Eligible(queues[c][i])

(* The queue the slot is meant for, or the highest that has something. *)
QueueIndex(c) ==
    \/ c = slot.class /\ HasEligible(c)
    \/ /\ ~(slot.class \in Classes /\ HasEligible(slot.class))
       /\ ~mode.strict
       /\ HasEligible(c)
       /\ \A d \in Classes : HasEligible(d) => d <= c

(* Slip: any packet for the destination will do. *)
IsNextAny(c, i) == i \in 1..Len(queues[c]) /\ Eligible(queues[c][i])

IsNext(c, i) == /\ i \in 1..Len(queues[c])
                /\ Eligible(queues[c][i])
                /\ \A j \in 1..(i - 1) : ~Eligible(queues[c][j])

Available == IF slot.used < Capacity THEN Capacity - slot.used ELSE 0

Remaining(p) == p.size - p.offset

(* The aggregation loop goes on after the last item taken. *)
GoesOn == items # <<>> => /\ mode.aggregate
                          /\ ~items[Len(items)].more
                          /\ slot.used < Capacity
                          /\ slot.used < Threshold

BeginSlot(class, destination) ==
    /\ Unlocked
    /\ started
    /\ air = <<>>
    /\ slot' = [class |-> class, destination |-> destination, used |-> 0]
    /\ UNCHANGED <<mode, sender, items, air, receiver>>

Chosen(c, i) == /\ slot # NoSlot
                /\ GoesOn
                /\ QueueIndex(c)
                /\ Available # 0
                /\ IsNext(c, i)

TooBig(p) == Remaining(p) > Available /\ ~mode.fragment

DropTooBig(c, i) ==
    /\ Chosen(c, i)
    /\ TooBig(queues[c][i]) /\ slot.used = 0
    /\ queues' = [queues EXCEPT ![c] = Without(@, i)]
    /\ Credit
    /\ UNCHANGED <<mode, started, sequence, life, early, left, filling, air, receiver>>

FragmentLeft(p, taken) ==
    [p EXCEPT !.offset = @ + taken, !.fragment_index = @ + 1]

Taken(p) == IF Remaining(p) < Available THEN Remaining(p) ELSE Available

HasMore(p) == p.offset + Taken(p) < p.size

Item(c, p) == [life |-> p.life, class |-> c, sequence |-> p.sequence,
               destination |-> p.destination, whole |-> p.size,
               offset |-> p.offset, size |-> Taken(p), more |-> HasMore(p)]

(* What is left of the queue, or of the packet, whose i-th packet is taken. *)
TakeAll(c, i) ==
    LET p == queues[c][i]
    IN  /\ queues' = [queues EXCEPT ![c] = Without(@, i)]
        /\ left' = Append(left, [life |-> p.life, sequence |-> p.sequence,
                                 class |-> c, destination |-> p.destination])
        /\ Credit

TakeSome(c, i) ==
    /\ queues' = [queues EXCEPT ![c][i] = FragmentLeft(@, Taken(@))]
    /\ UNCHANGED <<available_tokens, left>>

TakePart(c, i) ==
    /\ Chosen(c, i)
    /\ ~TooBig(queues[c][i])
    /\ items' = Append(items, Item(c, queues[c][i]))
    /\ slot' = [slot EXCEPT !.used = @ + Taken(queues[c][i])]
    /\ IF HasMore(queues[c][i]) THEN TakeSome(c, i) ELSE TakeAll(c, i)
    /\ UNCHANGED <<mode, started, sequence, life, early, air, receiver>>

(* There is nothing more to take: the frame goes on the air. *)
SendFrame ==
    /\ slot # NoSlot
    /\ \A c \in Classes : \A i \in 1..Len(queues[c]) :
         Chosen(c, i) => TooBig(queues[c][i]) /\ slot.used # 0
    /\ air' = items
    /\ items' = <<>>
    /\ slot' = NoSlot
    /\ UNCHANGED <<mode, sender, receiver>>

-----------------------------------------------------------------------------
(***************************************************************************)
(* start, and a new process.                                               *)
(***************************************************************************)
Start ==
    /\ ~started
    /\ started' = TRUE
    /\ available_tokens' = Tokens
    /\ early' = Waiting
    /\ UNCHANGED <<mode, queues, sequence, life, left, filling, air, receiver>>

SenderRestarts ==
    /\ Unlocked
    /\ life < MaxLives
    /\ life' = life + 1
    /\ started' = FALSE
    /\ available_tokens' = Tokens
    /\ queues' = [c \in Classes |-> <<>>]
    /\ sequence' = 0
    /\ early' = 0
    /\ UNCHANGED <<mode, left, filling, air, receiver>>

-----------------------------------------------------------------------------
(***************************************************************************)
(* complete_receive.                                                       *)
(***************************************************************************)
Lose ==
    /\ air # <<>>
    /\ air' = <<>>
    /\ UNCHANGED <<mode, sender, filling, receiver>>

(* expire_reassembly *)
Alive == {e \in reassembly : now - e.last_update < FragmentTimeout}

ReceiveFrame ==
    /\ air # <<>> /\ unpacking = <<>>
    /\ unpacking' = air
    /\ air' = <<>>
    /\ reassembly' = Alive
    /\ UNCHANGED <<mode, sender, filling, now, delivered>>

End(p) == p.offset + p.size

(* The piece that comes next before p, in the order of the offsets, ends   *)
(* where p begins.                                                         *)
Follows(pieces, p) ==
    \E q \in pieces :
      /\ q.offset < p.offset /\ End(q) = p.offset
      /\ \A r \in pieces : r.offset < p.offset => r.offset <= q.offset

(* The pieces that follow each other without a gap from the beginning. *)
Contiguous(pieces) ==
    {p \in pieces : \A q \in pieces :
       q.offset <= p.offset => q.offset = 0 \/ Follows(pieces, q)}

Piece(m) == [life |-> m.life, sequence |-> m.sequence, whole |-> m.whole,
             offset |-> m.offset, size |-> m.size]

EntryOf(m) == {e \in reassembly : e.class = m.class /\ e.sequence = m.sequence}

NewEntry(m) == [class |-> m.class, sequence |-> m.sequence, total |-> 0, pieces |-> {},
                last_update |-> now, gap |-> 0, lives |-> {}]

(* A piece already there at the same offset is kept.  gap and lives are    *)
(* history: the longest time the entry was left alone and the lives of the *)
(* sender whose fragments it has seen.                                     *)
Filed(e, m) ==
    LET pieces == IF \E p \in e.pieces : p.offset = m.offset THEN e.pieces
                  ELSE e.pieces \cup {Piece(m)}
        stored == CHOOSE p \in pieces : p.offset = m.offset
    IN  [e EXCEPT !.pieces = pieces, !.last_update = now, !.lives = @ \cup {m.life},
                  !.total = IF m.more THEN @ ELSE m.offset + stored.size,
                  !.gap = IF now - e.last_update > @ THEN now - e.last_update ELSE @]

(* Slip: the last fragment ends the packet. *)
CompleteAtLast(e) == e.total # 0

(* total is 0 while the last fragment has not been seen. *)
Complete(e) ==
    /\ e.total # 0
    /\ \E p \in Contiguous(e.pieces) :
         /\ End(p) = e.total
         /\ \A q \in Contiguous(e.pieces) : q.offset <= p.offset

SkipForeign(m) ==
    /\ m.destination \notin Mine
    /\ UNCHANGED <<reassembly, delivered>>

UnpackWhole(m) ==
    /\ m.destination \in Mine
    /\ m.offset = 0 /\ ~m.more
    /\ delivered' = delivered \cup {[pieces |-> {Piece(m)}, gap |-> 0, lives |-> {m.life}]}
    /\ UNCHANGED reassembly

UnpackFragment(m) ==
    /\ m.destination \in Mine
    /\ m.offset # 0 \/ m.more
    /\ \E e \in IF EntryOf(m) = {} THEN {NewEntry(m)} ELSE EntryOf(m) :
         IF Complete(Filed(e, m))
         THEN /\ delivered' = delivered \cup
                   {[pieces |-> Contiguous(Filed(e, m).pieces),
                     gap |-> Filed(e, m).gap, lives |-> Filed(e, m).lives]}
              /\ reassembly' = reassembly \ {e}
         ELSE /\ reassembly' = (reassembly \ {e}) \cup {Filed(e, m)}
              /\ UNCHANGED delivered

Unpack ==
    /\ unpacking # <<>>
    /\ \/ SkipForeign(Head(unpacking))
       \/ UnpackWhole(Head(unpacking))
       \/ UnpackFragment(Head(unpacking))
    /\ unpacking' = Tail(unpacking)
    /\ UNCHANGED <<mode, sender, filling, air, now>>

(* The timed event of the reassembly check. *)
ReassemblyCheck ==
    /\ unpacking = <<>>
    /\ reassembly # Alive
    /\ reassembly' = Alive
    /\ UNCHANGED <<mode, sender, filling, air, unpacking, now, delivered>>

(* A full schedule is installed. *)
FullSchedule ==
    /\ unpacking = <<>>
    /\ reassembly # {}
    /\ reassembly' = {}
    /\ UNCHANGED <<mode, sender, filling, air, unpacking, now, delivered>>

Tick ==
    /\ now < MaxTime
    /\ unpacking = <<>>
    /\ now' = now + 1
    /\ UNCHANGED <<mode, sender, filling, air, unpacking, reassembly, delivered>>

-----------------------------------------------------------------------------
Next ==
    \/ \E c \in Classes, d \in Nems, n \in Sizes : Downstream(c, d, n)
    \/ \E c \in Classes, d \in Nems \cup {0} : BeginSlot(c, d)
    \/ \E c \in Classes : \E i \in 1..Len(queues[c]) : DropTooBig(c, i)
    \/ \E c \in Classes : \E i \in 1..Len(queues[c]) : TakePart(c, i)
    \/ SendFrame
    \/ Start
    \/ SenderRestarts
    \/ Lose
    \/ ReceiveFrame
    \/ Unpack
    \/ ReassemblyCheck
    \/ FullSchedule
    \/ Tick

Spec == Init /\ [][Next]_vars
-----------------------------------------------------------------------------
(***************************************************************************)
(* Properties.                                                             *)
(***************************************************************************)
(* No token is lost by overflow, by packets too big, by fragmentation or   *)
(* by start: what is available and what waits make up all tokens, and more *)
(* only by the packets that start found waiting.                           *)
TokensKept ==
    started /\ mode.flow =>
      /\ available_tokens \in 0..Tokens
      /\ available_tokens + Waiting \in Tokens..(Tokens + early)

(* Packets of one queue for one destination are finished in the order they *)
(* came, through slots for all destinations and slots for one, fragments   *)
(* and overflow.                                                           *)
FinishedInOrder ==
    \A i, j \in 1..Len(left) :
      /\ i < j /\ left[i].life = left[j].life
      /\ left[i].class = left[j].class /\ left[i].destination = left[j].destination
      => left[i].sequence < left[j].sequence

Has(p, byte) == p.offset < byte /\ byte <= End(p)

(* The pieces are of one packet and make it up: every byte is in one of    *)
(* them and none in two.                                                   *)
OnePacket(pieces) ==
    \E p \in pieces :
      /\ \A q \in pieces : q.life = p.life /\ q.sequence = p.sequence /\ End(q) <= p.whole
      /\ \A byte \in 1..p.whole : \E q \in pieces : Has(q, byte)
      /\ \A q, r \in pieces : q # r => End(q) <= r.offset \/ End(r) <= q.offset

(* What is passed up is exactly one packet, no fragment missing, repeated  *)
(* or foreign; except where fragments of two lives of the sender met under *)
(* one sequence number, and that only if they followed each other within   *)
(* the timeout.                                                            *)
WholeOrMixed ==
    \A d \in delivered :
      \/ OnePacket(d.pieces)
      \/ Cardinality(d.lives) > 1 /\ d.gap < FragmentTimeout
=============================================================================
