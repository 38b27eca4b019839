----------------------------- MODULE BentPipe -----------------------------
(***************************************************************************)
(* The bent-pipe (satellite) radio model: one transmitting transponder of  *)
(* a node, the air, and one receiving transponder of another node.         *)
(*                                                                         *)
(* The sender queues packets from above and packets it relays (receive     *)
(* action ubend), fills a frame of at most mtu bytes from the queue,       *)
(* aggregating and fragmenting as configured, and transmits in its slots.  *)
(* The receiver is locked to one frame at a time, collects fragments by    *)
(* the sender's packet sequence number, and passes a packet up at the end  *)
(* of the frame that completed it.                                         *)
(*                                                                         *)
(* A call of a handler is one step, apart from drive, which decides under  *)
(* the lock, by the time it was called with, and sends and arms a timer    *)
(* after it has let the lock go: a transmission is stamped with the time   *)
(* of the sending, and the sender may be stopped in between.  A byte is a  *)
(* unit of size; the airtime of a frame is computed from its size as in    *)
(* the code, in ticks.  Statistics and tables are left out.                *)
(***************************************************************************)
EXTENDS Integers, Sequences, SequencesExt

CONSTANTS
    BentSettings,     \* configurations, and bounds, to explore (see below)
    Sizes,            \* packet sizes
    FragmentTimeout,  \* reassemblyfragmenttimeoutthreshold
    CheckInterval     \* reassemblyfragmentcheckinterval

(***************************************************************************)
(* A setting has the mtu, bytes per tick (rate), queue depth,              *)
(* aggregation and fragmentation, the slots (a set; empty when not         *)
(* slotted), slots per frame and slot size, the transponder's transmit     *)
(* delay, whether it relays, whether the receiver hears it and whether the *)
(* receiver restarts, and bounds on the packets, the lives of the sender   *)
(* and the clock (time).  start refuses a transponder without a data rate, *)
(* an mtu or its antennas, and a configuration of a started model takes    *)
(* none of them away.                                                      *)
(***************************************************************************)
ConstantsOK ==
    /\ Sizes \subseteq Nat
    /\ \A s \in BentSettings :
         /\ {s.depth, s.delay, s.time} \subseteq Nat
         /\ {s.mtu, s.rate, s.slotsPerFrame, s.slotSize} \subseteq Nat \ {0}
         /\ s.slots \subseteq 0..s.slotsPerFrame - 1

VARIABLES
    now,
    setting,
    started,
    life,             \* which run of the sender's process this is
    queue,            \* packets waiting, oldest first
    packet_sequence,
    current_eot,      \* end of the current transmission
    wakeup,           \* the expected wakeup, -1 when there is none
    timers,           \* armed transmit timers, by the time they carry
    driving,          \* what drive has decided on, not yet sent and armed
    left_over,        \* history: the queue held something when it was started
    arrived,          \* packets from above, relayed ones included
    relay_times,      \* history: wakeups asked for by the relay
    last,             \* history: the last transmission
    air,              \* frames on their way
    receive_end,      \* until when the receiver is locked
    reassembly,       \* packet sequence -> fragments collected
    pending_receptions,
    next_check,       \* when the reassembly check timer fires
    passed_up         \* history: the parts of the packet last passed up

sender == <<started, life, queue, packet_sequence, current_eot, wakeup, timers,
            driving, left_over, arrived, relay_times, last>>
receiver == <<receive_end, reassembly, pending_receptions, next_check, passed_up>>
vars == <<now, setting, sender, air, receiver>>

NoPackets == [s \in {} |-> {}]
NoFrame == [start |-> 0, end |-> 0, decided |-> 0, life |-> 0, expected |-> -1]
Idle == [busy |-> FALSE, pieces |-> <<>>, bytes |-> 0, decided |-> 0, expected |-> -1,
         next |-> -1]

Init ==
    /\ now = 0
    /\ setting \in BentSettings
    /\ started = TRUE
    /\ life = 1
    /\ queue = <<>>
    /\ packet_sequence = 0
    /\ current_eot = 0
    /\ wakeup = -1
    /\ timers = {}
    /\ driving = Idle
    /\ left_over = FALSE
    /\ arrived = 0
    /\ relay_times = {}
    /\ last = NoFrame
    /\ air = {}
    /\ receive_end = 0
    /\ reassembly = NoPackets
    /\ pending_receptions = {}
    /\ next_check = CheckInterval
    /\ passed_up = {}

-----------------------------------------------------------------------------
(***************************************************************************)
(* Slots and air time.                                                     *)
(***************************************************************************)
Slotted == setting.slots # {}

InSlot(t) == (t \div setting.slotSize) % setting.slotsPerFrame \in setting.slots

(* next_slot: the first beginning of an own slot that is not over.         *)
NextSlot(t) ==
    IF ~Slotted THEN t
    ELSE Min({u \in t..t + (setting.slotsPerFrame + 1) * setting.slotSize :
                u % setting.slotSize = 0 /\ InSlot(u)})

AirTime(bytes) == (bytes + setting.rate - 1) \div setting.rate

-----------------------------------------------------------------------------
(***************************************************************************)
(* enqueue: a full queue loses its first packet none of which is sent yet, *)
(* or its first one.                                                       *)
(***************************************************************************)
Without(q, i) == SubSeq(q, 1, i - 1) \o SubSeq(q, i + 1, Len(q))

Victim(q) ==
    LET unsent == {i \in 1..Len(q) : q[i].offset = 0}
    IN  IF unsent = {} THEN 1 ELSE Min(unsent)

Enqueue(size, ready) ==
    LET packet == [id |-> <<life, arrived>>, size |-> size, sequence |-> packet_sequence,
                   offset |-> 0, index |-> 0, ready |-> ready]
    IN  IF setting.depth = 0 THEN queue
        ELSE Append(IF Len(queue) >= setting.depth THEN Without(queue, Victim(queue))
                    ELSE queue, packet)

(***************************************************************************)
(* dequeue_components: what the next frame carries, and what stays.        *)
(***************************************************************************)
Piece(p, len, more) ==
    [id |-> p.id, size |-> p.size, sequence |-> p.sequence, offset |-> p.offset,
     index |-> p.index, len |-> len, more |-> more, fragmented |-> more \/ p.offset # 0]

(* used[i] bytes of the frame are filled when the first i packets of the   *)
(* queue have been looked at.  A packet that does not fit adds nothing: it *)
(* is dropped, unless it may be cut, which ends the loop.                  *)
Remaining(p) == p.size - p.offset

Adds(p, filled) == IF Remaining(p) <= setting.mtu - filled THEN Remaining(p) ELSE 0

Cuts(p, filled) == setting.fragment /\ Remaining(p) > setting.mtu - filled

Filling(q) ==
    {used \in [0..Len(q) -> 0..setting.mtu] :
       /\ used[0] = 0
       /\ \A i \in 1..Len(q) : used[i] = used[i - 1] + Adds(q[i], used[i - 1])}

(* The loop has come to an end before packet n + 1. *)
Closed(q, used, n) ==
    used[n] >= setting.mtu \/ n = Len(q) \/ q[n + 1].ready > now
    \/ (~setting.aggregate /\ used[n] > 0)

Ends(q, used, n) == Closed(q, used, n) \/ Cuts(q[n + 1], used[n])

Taken(q, used, n) ==
    LET cut == ~Closed(q, used, n)
        whole == SelectSeq([i \in 1..n |-> Piece(q[i], used[i] - used[i - 1], FALSE)],
                           LAMBDA x : x.len > 0)
        available == setting.mtu - used[n]
    IN  IF cut
          THEN [queue |-> <<[q[n + 1] EXCEPT !.offset = @ + available, !.index = @ + 1]>>
                          \o SubSeq(q, n + 2, Len(q)),
                pieces |-> Append(whole, Piece(q[n + 1], available, TRUE)),
                bytes |-> setting.mtu]
          ELSE [queue |-> SubSeq(q, n + 1, Len(q)), pieces |-> whole, bytes |-> used[n]]

(* The frame that is taken from the queue: one, but stated as a set. *)
Dequeued(q) ==
    UNION {{Taken(q, used, n) : n \in {n \in 0..Len(q) : /\ Ends(q, used, n)
                                                        /\ \A m \in 0..n - 1 : ~Ends(q, used, m)}}
           : used \in Filling(q)}

-----------------------------------------------------------------------------
(***************************************************************************)
(* drive and schedule_transmit.  expected is the wakeup that caused the    *)
(* call, -1 for a packet.                                                  *)
(***************************************************************************)
Later(a, b) == IF a > b THEN a ELSE b

(* old is the expected wakeup, armed the timers that have not fired. *)
ScheduleTransmit(old, armed, when) ==
    IF ~started \/ (old # -1 /\ old <= when)
      THEN wakeup' = old /\ timers' = armed
      ELSE wakeup' = when /\ timers' = armed \cup {when}

Missed(expected) ==
    expected # -1 /\ Slotted /\ now >= expected + setting.slotSize

Allowed(expected) == IF expected # -1 /\ Slotted THEN expected ELSE NextSlot(now)

(* Slip: the end of the transmission before is not waited for. *)
CanSendAtOnce(q, expected) ==
    q # <<>> /\ Head(q).ready <= now /\ Allowed(expected) <= now

CanSend(q, expected) ==
    q # <<>> /\ Head(q).ready <= now /\ current_eot <= now /\ Allowed(expected) <= now

(* What drive takes from the queue q; nothing when it may not send. *)
Frames(q, expected) ==
    IF ~Missed(expected) /\ CanSend(q, expected) THEN Dequeued(q)
    ELSE {[queue |-> q, pieces |-> <<>>, bytes |-> 0]}

DriveWith(frame, old, armed, expected) ==
    LET eot == IF frame.bytes > 0 THEN now + AirTime(frame.bytes) ELSE current_eot
        ready == Later(Head(frame.queue).ready, eot)
    IN  /\ queue' = frame.queue
        /\ current_eot' = eot
        /\ wakeup' = old
        /\ timers' = armed
        /\ driving' = [busy |-> TRUE, pieces |-> frame.pieces, bytes |-> frame.bytes,
                       decided |-> now, expected |-> expected,
                       next |-> IF Missed(expected) THEN NextSlot(now)
                                ELSE IF frame.queue # <<>> THEN NextSlot(Later(ready, now))
                                ELSE -1]
        /\ left_over' = FALSE

(***************************************************************************)
(* The decision.  A transponder without its antenna, for which drive       *)
(* returns at once, was never started (see ConstantsOK).                   *)
(***************************************************************************)
Drive(q, old, armed, expected) ==
    /\ ~driving.busy
    /\ \E frame \in Frames(q, expected) : DriveWith(frame, old, armed, expected)

(***************************************************************************)
(* The end of drive: send_downstream, which looks at the clock for the     *)
(* start of the transmission, and schedule_transmit.                       *)
(***************************************************************************)
SendAndArm ==
    LET end == now + AirTime(driving.bytes)
    IN  /\ driving.busy
        /\ driving' = Idle
        /\ IF driving.bytes > 0
             THEN /\ air' = IF ~setting.hears THEN air
                            ELSE air \cup {[start |-> now, end |-> end,
                                            pieces |-> driving.pieces]}
                  /\ last' = [start |-> now, end |-> end, decided |-> driving.decided,
                              life |-> life, expected |-> driving.expected]
             ELSE UNCHANGED <<air, last>>
        /\ IF driving.next # -1 THEN ScheduleTransmit(wakeup, timers, driving.next)
           ELSE UNCHANGED <<wakeup, timers>>
        /\ UNCHANGED <<now, setting, started, life, queue, packet_sequence, current_eot,
                       left_over, arrived, relay_times, receiver>>

-----------------------------------------------------------------------------
Numbered ==
    /\ arrived < setting.packets
    /\ arrived' = arrived + 1
    /\ packet_sequence' = packet_sequence + (IF setting.depth = 0 THEN 0 ELSE 1)

(* downstream: a packet from above, for a transponder that transmits. *)
Downstream(size) ==
    /\ Numbered
    /\ Drive(Enqueue(size, now), wakeup, timers, -1)
    /\ UNCHANGED <<now, setting, started, life, relay_times, last, air, receiver>>

(* upstream, receive action ubend, of a packet whose frame ends at end. *)
Relay(size, end) ==
    LET when == Later(end, now) + setting.delay
    IN  /\ setting.relays /\ ~driving.busy /\ Numbered
        /\ IF when <= now
             THEN /\ Drive(Enqueue(size, when), wakeup, timers, -1)
                  /\ UNCHANGED relay_times
             ELSE /\ queue' = Enqueue(size, when)
                  /\ ScheduleTransmit(wakeup, timers, when)
                  /\ relay_times' = relay_times \cup {when}
                  /\ UNCHANGED <<current_eot, driving, left_over>>
        /\ UNCHANGED <<now, setting, started, life, last, air, receiver>>

(* timed: a transmit timer; a superseded one is ignored. *)
TransmitWakeup(t) ==
    /\ ~driving.busy
    /\ t <= now
    /\ \A u \in timers : t <= u
    /\ IF t = wakeup THEN Drive(queue, -1, timers \ {t}, t)
       ELSE /\ timers' = timers \ {t}
            /\ UNCHANGED <<queue, current_eot, wakeup, driving, left_over>>
    /\ UNCHANGED <<now, setting, started, life, packet_sequence, arrived, relay_times, last,
                   air, receiver>>

-----------------------------------------------------------------------------
(***************************************************************************)
(* The sender is stopped and started again, while its worker may be at a   *)
(* drive, or its process ends and a new one is started.                    *)
(***************************************************************************)
Stop ==
    /\ started
    /\ started' = FALSE
    /\ queue' = <<>>
    /\ wakeup' = -1
    /\ timers' = {}
    /\ UNCHANGED <<now, setting, life, packet_sequence, current_eot, driving, left_over,
                   arrived, relay_times, last, air, receiver>>

Start ==
    /\ ~started
    /\ started' = TRUE
    /\ left_over' = (queue # <<>>)
    /\ UNCHANGED <<now, setting, life, queue, packet_sequence, current_eot, wakeup, timers,
                   driving, arrived, relay_times, last, air, receiver>>

NewProcess ==
    /\ life < setting.lives
    /\ life' = life + 1
    /\ started' = TRUE
    /\ queue' = <<>>
    /\ packet_sequence' = 0
    /\ current_eot' = 0
    /\ wakeup' = -1
    /\ timers' = {}
    /\ driving' = Idle
    /\ left_over' = FALSE
    /\ relay_times' = {}
    /\ UNCHANGED <<now, setting, arrived, last, air, receiver>>

-----------------------------------------------------------------------------
(***************************************************************************)
(* The receiver.                                                           *)
(***************************************************************************)
Lose(f) ==
    /\ air' = air \ {f}
    /\ UNCHANGED <<now, setting, sender, receiver>>

(* Slip: fragments are kept until the last one comes. *)
KeepAll(collected) == collected

(* expire_reassembly: what no fragment was added to for the timeout. *)
Unexpired(collected) ==
    Restrict(collected,
             {s \in DOMAIN collected : now - collected[s].update < FragmentTimeout})

(* The parts of a packet, once the fragment p is among them. *)
Extended(collected, p) ==
    LET entry == IF p.sequence \in DOMAIN collected THEN collected[p.sequence]
                 ELSE [parts |-> {}, last |-> -1, update |-> now]
    IN  IF \E q \in entry.parts : q.index = p.index THEN entry
        ELSE [parts |-> {q \in entry.parts : q.offset # p.offset} \cup
                        {[id |-> p.id, size |-> p.size, offset |-> p.offset,
                          index |-> p.index, len |-> p.len, at |-> now]},
              last |-> IF p.more THEN entry.last ELSE p.index,
              update |-> now]

(* All indices are there, and the parts follow each other without a gap. *)
Complete(entry) ==
    /\ entry.last # -1
    /\ {q.index : q \in entry.parts} = 0..entry.last
    /\ Cardinality(entry.parts) = entry.last + 1
    /\ \A q \in entry.parts :
         q.offset = 0 \/ \E r \in entry.parts : r.offset + r.len = q.offset
    /\ \E q \in entry.parts : q.offset = 0

Forgotten(collected, s) == Restrict(collected, DOMAIN collected \ {s})

(* One component of a frame: the parts it completes, and what stays. *)
Collect(state, p) ==
    IF ~p.fragmented
      THEN [state EXCEPT !.done = @ \cup
              {{[id |-> p.id, size |-> p.size, offset |-> 0, index |-> 0, len |-> p.len,
                 at |-> now]}}]
      ELSE LET kept == Unexpired(state.collected)
               repeated == p.sequence \in DOMAIN kept
                           /\ \E q \in kept[p.sequence].parts : q.index = p.index
               entry == Extended(kept, p)
           IN  IF ~repeated /\ Complete(entry)
                 THEN [collected |-> Forgotten(kept, p.sequence),
                       done |-> state.done \cup {entry.parts}]
                 ELSE [state EXCEPT !.collected =
                         [s \in DOMAIN kept \cup {p.sequence} |->
                            IF s = p.sequence THEN entry ELSE kept[s]]]

(***************************************************************************)
(* upstream, receive action process.  A frame that begins while another is *)
(* received is lost, and so is one the curve's probability decides against.*)
(***************************************************************************)
Upstream(f, received) ==
    /\ air' = air \ {f}
    /\ IF f.start < receive_end
         THEN UNCHANGED <<receive_end, reassembly, pending_receptions>>
         ELSE /\ receive_end' = f.end
              /\ IF ~received THEN UNCHANGED <<reassembly, pending_receptions>>
                 ELSE LET result == FoldLeft(Collect, [collected |-> reassembly, done |-> {}],
                                             f.pieces)
                      IN  /\ reassembly' = result.collected
                          /\ pending_receptions' = pending_receptions \cup
                               {[parts |-> d, when |-> Later(f.end, now)] : d \in result.done}
    /\ UNCHANGED <<now, setting, sender, next_check, passed_up>>

(* timed: the end of a reception. *)
Receive(r) ==
    /\ r.when <= now
    /\ pending_receptions' = pending_receptions \ {r}
    /\ passed_up' = r.parts
    /\ UNCHANGED <<now, setting, sender, air, receive_end, reassembly, next_check>>

(* timed: the reassembly check, which re-arms itself. *)
ReassemblyCheck ==
    /\ next_check <= now
    /\ reassembly' = Unexpired(reassembly)
    /\ next_check' = now + CheckInterval
    /\ UNCHANGED <<now, setting, sender, air, receive_end, pending_receptions, passed_up>>

(* stop and start of the receiver. *)
RestartReceiver ==
    /\ setting.restart
    /\ receive_end' = 0
    /\ reassembly' = NoPackets
    /\ pending_receptions' = {}
    /\ next_check' = now + CheckInterval
    /\ UNCHANGED <<now, setting, sender, air, passed_up>>

-----------------------------------------------------------------------------
Tick ==
    /\ now < setting.time
    /\ now' = now + 1
    /\ UNCHANGED <<setting, sender, air, receiver>>

Next ==
    \/ \E size \in Sizes : Downstream(size) \/ \E end \in now..now + 1 : Relay(size, end)
    \/ \E t \in timers : TransmitWakeup(t)
    \/ SendAndArm
    \/ Stop
    \/ Start
    \/ NewProcess
    \/ \E f \in air : Lose(f) \/ \E received \in BOOLEAN : Upstream(f, received)
    \/ \E r \in pending_receptions : Receive(r)
    \/ ReassemblyCheck
    \/ RestartReceiver
    \/ Tick

Spec == Init /\ [][Next]_vars

-----------------------------------------------------------------------------
(* A started sender whose queue holds a packet has a wakeup coming with a  *)
(* timer behind it, or its worker is about to ask for one, whatever        *)
(* wakeups were superseded, relayed or missed and whenever it was stopped  *)
(* and started.  The exception is a packet that was taken while the sender *)
(* was stopped: the start arms nothing for it.                             *)
WakeupComing ==
    started /\ queue # <<>> => wakeup \in timers \/ driving.next # -1 \/ left_over

(* A slotted sender decides on a transmission within its own slots.  Only  *)
(* the wakeup of a relayed packet, which is not aligned, opens one         *)
(* elsewhere, and no later than a slot's length after it.  Within one life *)
(* of the sender transmissions follow each other: as they are stamped they *)
(* overlap by no more than the time the first one left after it was        *)
(* decided on.                                                             *)
SlotDiscipline ==
    last' # last =>
        /\ Slotted => \/ InSlot(last'.decided)
                      \/ /\ last'.expected \in relay_times
                         /\ last'.decided < last'.expected + setting.slotSize
        /\ last'.decided <= last'.start
        /\ last'.life = last.life =>
             last.end <= last'.decided + (last.start - last.decided)

Whole(parts) ==
    /\ Cardinality({q.id : q \in parts}) = 1
    /\ MapThenSumSet(LAMBDA q : q.len, parts) = (CHOOSE q \in parts : TRUE).size

(* What is passed up is one whole packet as it was queued.  A sender whose *)
(* process is started again numbers from zero, and the receiver may put    *)
(* parts of two packets together, but only when each came within the       *)
(* fragment timeout of another.                                            *)
WholeOrRecent ==
    \/ passed_up = {}
    \/ Whole(passed_up)
    \/ /\ \E q, r \in passed_up : q.id[1] # r.id[1]
       /\ \A q, r \in passed_up :
            q.at - r.at < FragmentTimeout * (Cardinality(passed_up) - 1)
=============================================================================
