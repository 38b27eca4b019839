--------------------------- MODULE Ieee80211Mac ---------------------------
(***************************************************************************)
(* The IEEE 802.11abg radio model: the sending side of one station and the *)
(* receiving side of another that hears it, with the air in between.       *)
(*                                                                         *)
(* The sender has one queue for each access category.  The packet it works *)
(* on goes through three phases: Idle, where its delays are drawn, Pre,    *)
(* until it is transmitted, and Post, until its end and the post delay; a  *)
(* drawn collision sends it through the phases again, under its first      *)
(* sequence number.  The receiver keeps what it hears until the end of the *)
(* reception and drops what it has heard before.  Each of the two keeps    *)
(* and publishes the stations active lately, itself among them when it     *)
(* transmits.  The CTS frames the receiver answers with are left out;      *)
(* those of others are OverhearCts.                                        *)
(*                                                                         *)
(* One call of a handler is one step, except for the loop of drive, whose  *)
(* rounds are steps of their own that nothing else comes between: drive    *)
(* holds the lock for the whole loop.  Draws of random numbers are choices.*)
(* Delays and air times are counted in ticks.  The report timer and the    *)
(* interleaving of stop with a running call are as in the RF-pipe MAC.     *)
(***************************************************************************)
EXTENDS Integers, Sequences, FiniteSets

CONSTANTS
    WifiSettings,    \* configurations, and bounds, to explore (see below)
    PreDelays,       \* outcomes of the pre-transmission delay
    PostDelays,      \* outcomes of the post-transmission delay
    AirTimes,        \* packet durations
    HistorySize,     \* DUPLICATE_HISTORY_SIZE
    Validity,        \* DUPLICATE_VALIDITY_US
    NeighborTimeout  \* neighbortimeout

(***************************************************************************)
(* A setting has the number of access categories, flow control and its     *)
(* tokens, the depth of a queue, the transmit opportunity (txop, 0 for     *)
(* none), the retries, the estimation interval (estimate), and bounds on   *)
(* the packets from above, on the CTS frames of other stations             *)
(* (overheard), on the starts (lives) and on the clock (time).             *)
(***************************************************************************)
ConstantsOK ==
    /\ PreDelays \cup PostDelays \cup AirTimes \subseteq Nat
    /\ \A s \in WifiSettings :
         /\ {s.categories, s.tokens, s.depth, s.txop, s.retries, s.lives, s.time} \subseteq Nat
         /\ s.flow \in BOOLEAN

VARIABLES
    now,               \* the clock
    setting,           \* the configuration
    started,
    lives,             \* how often the stations were started
    available_tokens,
    queues,            \* category -> packets waiting
    active_tx,         \* the packet being worked on, a set of at most one
    sequence,
    next_wakeup,       \* 0 when none is expected
    wakeups,           \* armed transmit timers, by the time they carry
    step,              \* where the call of the sender is
    arrived,           \* number of packets from above
    air,               \* frames on their way
    pending_rx,        \* frames the receiver waits out
    duplicate_history, \* (sequence, end of reception), oldest first
    channel_activity,  \* station -> its one-hop neighbours -> last activity
    two_hop_activity,  \* the receiver's two-hop neighbours -> last activity
    next_estimate,     \* station -> when its channel estimate timer fires
    published,         \* station -> the one-hop neighbours it published last
    rows,              \* station -> rows of its one-hop neighbour table
    overheard,         \* number of CTS frames of other stations
    delivered          \* history: packet ids passed up, oldest first

sender == <<started, lives, available_tokens, queues, active_tx, sequence, next_wakeup,
            wakeups, step, arrived>>
neighbours == <<channel_activity, published, rows>>
receiver == <<pending_rx, duplicate_history, two_hop_activity, next_estimate, overheard, delivered>>
vars == <<now, setting, sender, air, neighbours, receiver>>

Stations == {"sender", "receiver"}

Categories == 0..setting.categories - 1

Empty == [n \in {} |-> 0]

Init ==
    /\ now = 1
    /\ setting \in WifiSettings
    /\ started = FALSE
    /\ lives = 0
    /\ available_tokens = setting.tokens
    /\ queues = [c \in Categories |-> <<>>]
    /\ active_tx = {}
    /\ sequence = 0
    /\ next_wakeup = 0
    /\ wakeups = {}
    /\ step = "idle"
    /\ arrived = 0
    /\ air = {}
    /\ pending_rx = {}
    /\ duplicate_history = <<>>
    /\ channel_activity = [s \in Stations |-> Empty]
    /\ two_hop_activity = Empty
    /\ next_estimate = [s \in Stations |-> 0]
    /\ published = [s \in Stations |-> {}]
    /\ rows = [s \in Stations |-> {}]
    /\ overheard = 0
    /\ delivered = <<>>

-----------------------------------------------------------------------------
(***************************************************************************)
(* start and stop.  The two stations are started and stopped together.     *)
(***************************************************************************)
Start ==
    /\ step = "idle" /\ ~started /\ lives < setting.lives
    /\ started' = TRUE
    /\ lives' = lives + 1
    /\ available_tokens' = setting.tokens
    /\ channel_activity' = [s \in Stations |-> Empty]
    /\ next_estimate' = [s \in Stations |-> now + setting.estimate]
    /\ UNCHANGED <<now, setting, queues, active_tx, sequence, next_wakeup, wakeups,
                   step, arrived, air, pending_rx, duplicate_history,
                   two_hop_activity, published, rows, overheard, delivered>>

Stop ==
    /\ step = "idle" /\ started
    /\ started' = FALSE
    /\ queues' = [c \in Categories |-> <<>>]
    /\ active_tx' = {}
    /\ pending_rx' = {}
    /\ next_wakeup' = 0
    /\ wakeups' = {}
    /\ next_estimate' = [s \in Stations |-> 0]
    /\ UNCHANGED <<now, setting, lives, available_tokens, sequence, step, arrived,
                   air, duplicate_history, neighbours, two_hop_activity, overheard, delivered>>

-----------------------------------------------------------------------------
(***************************************************************************)
(* The sender: process_downstream.                                         *)
(***************************************************************************)
FlowControl == setting.flow

Credited(tokens, n) ==
    IF ~FlowControl THEN tokens
    ELSE IF tokens + n < setting.tokens THEN tokens + n ELSE setting.tokens

Admits == started /\ ~(FlowControl /\ available_tokens = 0)

(* What a full queue keeps, and how many of its oldest packets it loses. *)
MakeRoom(q) ==
    IF Len(q) < setting.depth THEN <<q, 0>>
    ELSE <<SubSeq(q, Len(q) - setting.depth + 2, Len(q)), Len(q) - setting.depth + 1>>

AcceptDownstream(category, unicast) ==
    /\ step = "idle" /\ arrived < setting.packets
    /\ Admits /\ setting.depth > 0
    /\ arrived' = arrived + 1
    /\ LET room == MakeRoom(queues[category])
           packet == [id |-> arrived + 1, category |-> category, unicast |-> unicast,
                      acquired_at |-> now, phase |-> "Idle", ready_at |-> now,
                      post_delay |-> 0, collision |-> FALSE, retries |-> 0,
                      sequence |-> -1]
       IN  /\ queues' = [queues EXCEPT ![category] = Append(room[1], packet)]
           /\ available_tokens' =
                IF FlowControl THEN Credited(available_tokens - 1, room[2])
                ELSE available_tokens
    /\ step' = "expire"
    /\ UNCHANGED <<now, setting, started, lives, active_tx, sequence, next_wakeup, wakeups,
                   air, neighbours, receiver>>

(* Not started, no token, larger than the category allows, or no queue. *)
RefuseDownstream ==
    /\ step = "idle" /\ arrived < setting.packets
    /\ ~Admits \/ setting.depth = 0
    /\ arrived' = arrived + 1
    /\ UNCHANGED <<now, setting, started, lives, available_tokens, queues, active_tx,
                   sequence, next_wakeup, wakeups, step, air, neighbours, receiver>>

-----------------------------------------------------------------------------
(***************************************************************************)
(* drive.                                                                  *)
(***************************************************************************)
TxopExpired(p) == setting.txop # 0 /\ p.acquired_at + setting.txop < now

HeadExpired(c) == queues[c] # <<>> /\ TxopExpired(Head(queues[c]))

(* The expired heads of the queues go, category by category. *)
ExpireHead(c) ==
    /\ step = "expire" /\ HeadExpired(c)
    /\ \A d \in Categories : d < c => ~HeadExpired(d)
    /\ queues' = [queues EXCEPT ![c] = Tail(@)]
    /\ available_tokens' = Credited(available_tokens, 1)
    /\ UNCHANGED <<now, setting, started, lives, active_tx, sequence, next_wakeup, wakeups,
                   step, arrived, air, neighbours, receiver>>

NoneExpired ==
    /\ step = "expire"
    /\ \A c \in Categories : ~HeadExpired(c)
    /\ step' = "loop"
    /\ UNCHANGED <<now, setting, started, lives, available_tokens, queues, active_tx, sequence,
                   next_wakeup, wakeups, arrived, air, neighbours, receiver>>

Waiting == {c \in Categories : queues[c] # <<>>}

(* The highest category that has a packet goes first. *)
SelectPacket ==
    /\ step = "loop" /\ active_tx = {}
    /\ \/ /\ Waiting = {}
          /\ step' = "schedule"
          /\ UNCHANGED <<queues, active_tx>>
       \/ \E c \in Waiting :
            /\ \A d \in Waiting : d <= c
            /\ active_tx' = {Head(queues[c])}
            /\ queues' = [queues EXCEPT ![c] = Tail(@)]
            /\ UNCHANGED step
    /\ UNCHANGED <<now, setting, started, lives, available_tokens, sequence, next_wakeup,
                   wakeups, arrived, air, neighbours, receiver>>

(* A packet is done with: its token goes back. *)
Leave(p) ==
    /\ active_tx' = {}
    /\ available_tokens' = Credited(available_tokens, 1)
    /\ UNCHANGED step

(* calculate_tx_delay: the delays before and after, and the collision. *)
TxDelays == [pre : PreDelays, post : PostDelays, collision : BOOLEAN]

(* publish_one_hop_neighbors: the others are told. *)
Publish(s) == published' = [published EXCEPT ![s] = DOMAIN channel_activity'[s]]

(* record_channel_activity of station s, and what its callers do for a new *)
(* neighbour.                                                              *)
NoteOneHop(s, source, at) ==
    /\ channel_activity' =
         [channel_activity EXCEPT ![s] = [n \in DOMAIN @ \cup {source} |->
                                            IF n = source THEN at ELSE channel_activity[s][n]]]
    /\ IF source \in DOMAIN channel_activity[s] THEN UNCHANGED <<rows, published>>
       ELSE rows' = [rows EXCEPT ![s] = @ \cup {source}] /\ Publish(s)

(* Idle: draw the delays, and whether the transmission will collide. *)
PhaseIdle(p, d) ==
    /\ p.phase = "Idle"
    /\ IF TxopExpired(p) THEN Leave(p)
       ELSE /\ active_tx' = {[p EXCEPT !.phase = "Pre", !.ready_at = now + d.pre,
                                       !.post_delay = d.post,
                                       !.collision = d.collision /\ p.unicast]}
            /\ UNCHANGED <<available_tokens, step>>
    /\ UNCHANGED <<sequence, air, neighbours>>

(* A packet keeps the sequence number of its first transmission. *)
SequenceOf(p) == IF p.sequence = -1 THEN sequence ELSE p.sequence

(* send_downstream: the frame on the air. *)
SendDownstream(p, duration) ==
    air' = air \cup {[id |-> p.id, sequence |-> SequenceOf(p), end |-> now + duration]}

(* A station that transmits is its own neighbour too. *)
PhasePre(p, duration) ==
    /\ p.phase = "Pre"
    /\ step' = "schedule"
    /\ IF p.ready_at > now THEN UNCHANGED <<active_tx, sequence, air, neighbours>>
       ELSE /\ sequence' = IF SequenceOf(p) = sequence THEN sequence + 1 ELSE sequence
            /\ active_tx' = {[p EXCEPT !.phase = "Post", !.sequence = SequenceOf(p),
                                       !.ready_at = now + duration + p.post_delay]}
            /\ NoteOneHop("sender", "sender", now)
            /\ SendDownstream(p, duration)
    /\ UNCHANGED available_tokens

PhasePost(p) ==
    /\ p.phase = "Post"
    /\ IF p.ready_at > now THEN step' = "schedule" /\ UNCHANGED <<active_tx, available_tokens>>
       ELSE IF p.collision /\ p.retries < setting.retries
         THEN /\ active_tx' = {[p EXCEPT !.retries = @ + 1, !.phase = "Idle"]}
              /\ UNCHANGED <<step, available_tokens>>
         ELSE Leave(p)
    /\ UNCHANGED <<sequence, air, neighbours>>

(* One round of the loop for the packet being worked on. *)
WorkOn(p) ==
    /\ step = "loop"
    /\ \/ \E d \in TxDelays : PhaseIdle(p, d)
       \/ \E duration \in AirTimes : PhasePre(p, duration)
       \/ PhasePost(p)
    /\ UNCHANGED <<now, setting, started, lives, queues, next_wakeup, wakeups, arrived, receiver>>

(* schedule_transmit: an earlier wakeup already expected is enough. *)
ScheduleTransmit ==
    /\ step = "schedule"
    /\ step' = "idle"
    /\ IF active_tx = {} THEN UNCHANGED <<next_wakeup, wakeups>>
       ELSE LET when == (CHOOSE p \in active_tx : TRUE).ready_at
            IN  IF next_wakeup # 0 /\ next_wakeup <= when
                  THEN UNCHANGED <<next_wakeup, wakeups>>
                  ELSE next_wakeup' = when /\ wakeups' = wakeups \cup {when}
    /\ UNCHANGED <<now, setting, started, lives, available_tokens, queues, active_tx, sequence,
                   arrived, air, neighbours, receiver>>

(* Slip: the wakeup that has come stays the expected one. *)
TransmitStillExpecting ==
    /\ step = "idle"
    /\ \E t \in wakeups :
         /\ t <= now
         /\ \A u \in wakeups : t <= u
         /\ wakeups' = wakeups \ {t}
         /\ IF t = next_wakeup THEN UNCHANGED next_wakeup /\ step' = "expire"
            ELSE UNCHANGED <<next_wakeup, step>>
    /\ UNCHANGED <<now, setting, started, lives, available_tokens, queues, active_tx, sequence,
                   arrived, air, neighbours, receiver>>

(* timed: the event of a transmit timer; a superseded one is ignored. *)
TransmitWakeup ==
    /\ step = "idle"
    /\ \E t \in wakeups :
         /\ t <= now
         /\ \A u \in wakeups : t <= u
         /\ wakeups' = wakeups \ {t}
         /\ IF t = next_wakeup THEN next_wakeup' = 0 /\ step' = "expire"
            ELSE UNCHANGED <<next_wakeup, step>>
    /\ UNCHANGED <<now, setting, started, lives, available_tokens, queues, active_tx, sequence,
                   arrived, air, neighbours, receiver>>

-----------------------------------------------------------------------------
(***************************************************************************)
(* The air may lose a frame; what arrives is waited out by the receiver.   *)
(***************************************************************************)
Lose(f) ==
    /\ step = "idle"
    /\ air' = air \ {f}
    /\ UNCHANGED <<now, setting, sender, neighbours, receiver>>

(* process_upstream: a frame is kept until the end of its reception, or    *)
(* the timer's next turn when that is past; id 0 is the CTS of another.    *)
Pending(id, number, end) ==
    [id |-> id, sequence |-> number, end |-> end, acquired_at |-> now,
     due |-> IF end > now THEN end ELSE now]

AcceptUpstream(f) ==
    /\ step = "idle" /\ started
    /\ air' = air \ {f}
    /\ pending_rx' = pending_rx \cup {Pending(f.id, f.sequence, f.end)}
    /\ UNCHANGED <<now, setting, sender, neighbours, duplicate_history, two_hop_activity,
                   next_estimate, overheard, delivered>>

(* A CTS of another station, to a station hidden from this one. *)
OverhearCts(duration) ==
    /\ step = "idle" /\ started /\ overheard < setting.overheard
    /\ overheard' = overheard + 1
    /\ pending_rx' = pending_rx \cup {Pending(0, overheard, now + duration)}
    /\ UNCHANGED <<now, setting, sender, air, neighbours, duplicate_history, two_hop_activity,
                   next_estimate, delivered>>

(* is_duplicate: what is still valid is kept, the oldest entry makes room. *)
Valid(end) == SelectSeq(duplicate_history, LAMBDA h : h.at + Validity >= end)

Seen(f) == \E i \in 1..Len(Valid(f.end)) : Valid(f.end)[i].sequence = f.sequence

Remembered(f) ==
    LET kept == Valid(f.end)
    IN  IF Seen(f) THEN kept
        ELSE Append(IF Len(kept) = HistorySize THEN Tail(kept) ELSE kept,
                    [sequence |-> f.sequence, at |-> f.end])

(***************************************************************************)
(* complete_receive, for the frame whose reception ends next.  The noise   *)
(* query may fail; otherwise the draws decide whether one of the simulated *)
(* tries gets through.                                                     *)
(***************************************************************************)
EndsNext(f) == f.due <= now /\ \A g \in pending_rx : f.due <= g.due

QueryFails(f) ==
    /\ step = "idle" /\ EndsNext(f)
    /\ pending_rx' = pending_rx \ {f}
    /\ UNCHANGED <<now, setting, sender, air, neighbours, duplicate_history, two_hop_activity,
                   next_estimate, overheard, delivered>>

(* check_rx_collision and the reception curve: whether a try gets through. *)
Tries == BOOLEAN

(* send_upstream. *)
PassUp(f, ok) == delivered' = IF ok /\ ~Seen(f) THEN Append(delivered, f.id) ELSE delivered

CompleteReceive(f, ok) ==
    /\ step = "idle" /\ EndsNext(f) /\ f.id # 0
    /\ pending_rx' = pending_rx \ {f}
    /\ NoteOneHop("receiver", "sender", f.acquired_at)
    /\ duplicate_history' = Remembered(f)
    /\ PassUp(f, ok)
    /\ UNCHANGED <<now, setting, sender, air, two_hop_activity, next_estimate, overheard>>

(* A CTS tells of the station it answers, unless that is a neighbour. *)
CompleteCts(f) ==
    /\ step = "idle" /\ EndsNext(f) /\ f.id = 0
    /\ pending_rx' = pending_rx \ {f}
    /\ NoteOneHop("receiver", "other", f.acquired_at)
    /\ two_hop_activity' =
         IF "hidden" \in DOMAIN channel_activity'["receiver"] THEN two_hop_activity
         ELSE [n \in DOMAIN two_hop_activity \cup {"hidden"} |-> f.acquired_at]
    /\ UNCHANGED <<now, setting, sender, air, duplicate_history, next_estimate, overheard,
                   delivered>>

(***************************************************************************)
(* estimate_channel_activity: neighbours not heard for the timeout are     *)
(* forgotten; the timer re-arms itself.                                    *)
(***************************************************************************)
Recent(activity) ==
    LET kept == {n \in DOMAIN activity : NeighborTimeout = 0
                                         \/ now - activity[n] <= NeighborTimeout}
    IN  [n \in kept |-> activity[n]]

EstimateChannel(s) ==
    /\ step = "idle" /\ started
    /\ next_estimate[s] # 0 /\ next_estimate[s] <= now
    /\ channel_activity' = [channel_activity EXCEPT ![s] = Recent(@)]
    /\ two_hop_activity' = IF s = "receiver" THEN Recent(two_hop_activity) ELSE two_hop_activity
    /\ LET removed == DOMAIN channel_activity[s] \ DOMAIN channel_activity'[s]
       IN  /\ rows' = [rows EXCEPT ![s] = @ \ removed]
           /\ IF removed = {} THEN UNCHANGED published ELSE Publish(s)
    /\ next_estimate' = [next_estimate EXCEPT ![s] = now + setting.estimate]
    /\ UNCHANGED <<now, setting, sender, air, pending_rx, duplicate_history, overheard, delivered>>

-----------------------------------------------------------------------------
Tick ==
    /\ step = "idle" /\ now < setting.time
    /\ now' = now + 1
    /\ UNCHANGED <<setting, sender, air, neighbours, receiver>>

SenderStep ==
    \/ Start
    \/ Stop
    \/ \E c \in Categories, unicast \in BOOLEAN : AcceptDownstream(c, unicast)
    \/ RefuseDownstream
    \/ \E c \in Categories : ExpireHead(c)
    \/ NoneExpired
    \/ SelectPacket
    \/ \E p \in active_tx : WorkOn(p)
    \/ ScheduleTransmit
    \/ TransmitWakeup

ReceiverStep ==
    \/ \E f \in air : Lose(f) \/ AcceptUpstream(f)
    \/ \E f \in pending_rx :
         QueryFails(f) \/ CompleteCts(f) \/ \E ok \in Tries : CompleteReceive(f, ok)
    \/ \E duration \in AirTimes : OverhearCts(duration)

Next ==
    \/ SenderStep
    \/ ReceiverStep
    \/ \E s \in Stations : EstimateChannel(s)
    \/ Tick

Spec == Init /\ [][Next]_vars

-----------------------------------------------------------------------------
(* The places in the queues that a packet has, and the packets in the MAC. *)
Places == UNION {{c} \X (1..Len(queues[c])) : c \in Categories}

InMac == Cardinality(active_tx) + Cardinality(Places)

(* Between two calls every token is with the transport or with a packet    *)
(* the MAC holds: overflow, expiry in the queue and in the Idle phase of a *)
(* retry, the end of the retries and normal completion each give back one. *)
TokensAccounted ==
    started /\ FlowControl /\ step = "idle" => available_tokens + InMac = setting.tokens

(* A packet being worked on has a wakeup coming no later than its time,    *)
(* whatever wakeups were superseded or came while a packet from above had  *)
(* already driven the transmission.                                        *)
WakeupComing ==
    step = "idle" /\ active_tx # {} =>
        /\ next_wakeup \in wakeups
        /\ \A p \in active_tx : next_wakeup <= p.ready_at \/ next_wakeup <= now

(* However often the sender repeats a packet, the receiver passes it up at *)
(* most once.                                                              *)
DeliveredOnce ==
    \A i, j \in 1..Len(delivered) : delivered[i] = delivered[j] => i = j

(* What the other stations were last told, and the rows of the neighbour   *)
(* table, are the stations the estimates are made from, each of them known *)
(* from a transmission or a reception.  A restart forgets the neighbours   *)
(* but not what was told and shown of them.                                *)
NeighborsPublished ==
    \A s \in Stations :
      /\ DOMAIN channel_activity[s] \subseteq rows[s]
      /\ lives < 2 => published[s] = DOMAIN channel_activity[s] /\ rows[s] = published[s]
=============================================================================
