----------------------------- MODULE RfPipeMac -----------------------------
(***************************************************************************)
(* The RF-pipe MAC: packets from above wait for their delay and for the    *)
(* end of the transmission before them, woken by timed events; packets     *)
(* from below wait for the end of their reception; flow-control tokens     *)
(* limit what the transport may have in the MAC; a report timer re-arms    *)
(* itself.                                                                 *)
(*                                                                         *)
(* The worker of the layer's queue executes one call at a time, but a call *)
(* is several critical sections with the framework called in between, and  *)
(* start and stop run on the main thread while the worker runs.            *)
(*                                                                         *)
(* Time is counted in ticks; delay plus jitter and air time are the choice *)
(* of each packet, since a running MAC may be given a new data rate, delay *)
(* and jitter at any time.  Rejecting a packet from below changes nothing  *)
(* here and is no step.                                                    *)
(***************************************************************************)
EXTENDS Integers, Sequences, FiniteSets

CONSTANTS
    QueueCapacity,   \* QUEUE_CAPACITY
    ReportInterval,  \* radiometricreportinterval
    MacSettings      \* what to explore together: records of
                     \*   tokens       values of flowcontroltokens
                     \*   radiometric  radiometricenable
                     \*   delays       delay and jitter of a packet
                     \*   durations    air times
                     \*   packets      bound on the packets from above
                     \*   receptions   bound on the packets accepted from below
                     \*   arrivals     packets come up to this time
                     \*   time         bound on the clock

ASSUME MacAssumption ==
    /\ QueueCapacity \in Nat \ {0}
    /\ ReportInterval \in Nat \ {0}
    /\ \A s \in MacSettings : /\ s.tokens \subseteq Nat /\ s.delays \subseteq Nat
                              /\ s.durations \subseteq Nat \ {0}
                              /\ s.radiometric \in BOOLEAN
                              /\ {s.packets, s.receptions, s.arrivals, s.time} \subseteq Nat

VARIABLES
    now,                          \* the clock
    setting,                      \* the setting a behaviour is about
    flow_control_enable,
    flow_control_tokens,          \* configuration, fixed while running
    started,
    available_tokens,
    queue,                        \* packets waiting to be transmitted
    current_end_of_transmission,
    next_transmit_wakeup,         \* 0 when none is expected
    pending_receptions,
    timers,                       \* timer ids stop will cancel
    main,                         \* where the main thread is
    report,                       \* the timer id start is noting
    cancelling,                   \* timer ids stop has still to cancel
    step,                         \* where the worker is in its call
    seen,                         \* the time the call has read
    when,                         \* the time it wants to be woken
    event,                        \* the timed event it is scheduling
    handed,                       \* the packet it is about to send
    update,                       \* the token count it is about to tell
    armed,                        \* the timer service's timers of this MAC
    fired,                        \* timed events waiting in the queue
    ids,                          \* number of timer ids given out
    arrived,                      \* number of packets from above
    heard,                        \* number of packets accepted from below
    granted,                      \* the tokens last told to the transport
    overflowed,                   \* history: the full queue has lost a packet
    sent,                         \* history: transmissions, oldest first
    delivered                     \* history: packets passed up

config == <<setting, flow_control_enable, flow_control_tokens>>
transmit == <<available_tokens, queue, current_end_of_transmission,
              next_transmit_wakeup>>
call == <<seen, when, event, handed, update>>
timing == <<armed, fired, ids>>
counts == <<arrived, heard>>
history == <<granted, overflowed, sent, delivered>>
vars == <<now, config, started, transmit, pending_receptions, timers, main,
          report, cancelling, step, call, timing, counts, history>>

None == [id |-> 0, kind |-> "none", data |-> 0]
NoPacket == [id |-> 0, ready_at |-> 0, duration |-> 1]

Init ==
    /\ now = 1
    /\ flow_control_enable \in BOOLEAN
    /\ setting \in MacSettings
    /\ flow_control_tokens \in setting.tokens
    /\ started = FALSE
    /\ available_tokens = flow_control_tokens
    /\ queue = <<>>
    /\ current_end_of_transmission = 0
    /\ next_transmit_wakeup = 0
    /\ pending_receptions = {}
    /\ timers = {}
    /\ main = "new"
    /\ report = 0
    /\ cancelling = {}
    /\ step = "idle"
    /\ seen = 0
    /\ when = 0
    /\ event = None
    /\ handed = NoPacket
    /\ update = 0
    /\ armed = {}
    /\ fired = <<>>
    /\ ids = 0
    /\ arrived = 0
    /\ heard = 0
    /\ granted = 0
    /\ overflowed = FALSE
    /\ sent = <<>>
    /\ delivered = <<>>

Later(a, b) == IF a < b THEN b ELSE a

Credited(tokens, n) == IF tokens + n < flow_control_tokens THEN tokens + n
                       ELSE flow_control_tokens

-----------------------------------------------------------------------------
(***************************************************************************)
(* process_downstream: admission.  A full queue loses its oldest packets.  *)
(***************************************************************************)
Kept == IF Len(queue) < QueueCapacity THEN queue
        ELSE SubSeq(queue, Len(queue) - QueueCapacity + 2, Len(queue))

Admits == started /\ ~(flow_control_enable /\ available_tokens = 0)

(* Slip: a packet lost to a full queue takes its token along. *)
TokensAfterLosingOne == available_tokens - 1

TokensAfterAdmission == Credited(available_tokens - 1, Len(queue) - Len(Kept))

AcceptDownstream(delay, duration) ==
    /\ main # "closed"
    /\ step = "idle"
    /\ arrived < setting.packets /\ now <= setting.arrivals
    /\ Admits
    /\ arrived' = arrived + 1
    /\ queue' = Append(Kept, [id |-> arrived + 1, ready_at |-> now + delay,
                              duration |-> duration])
    /\ available_tokens' = IF flow_control_enable THEN TokensAfterAdmission
                           ELSE available_tokens
    /\ overflowed' = (overflowed \/ Kept # queue)
    /\ LET ready == Later(now + delay, current_end_of_transmission)
       IN  IF ready <= now
             THEN step' = "drive" /\ seen' = now /\ UNCHANGED when
             ELSE step' = "schedule" /\ when' = ready /\ UNCHANGED seen
    /\ UNCHANGED <<now, config, started, current_end_of_transmission,
                   next_transmit_wakeup, pending_receptions, timers, main, report,
                   cancelling, event, handed, update, timing, heard, granted, sent,
                   delivered>>

RefuseDownstream ==
    /\ main # "closed"
    /\ step = "idle"
    /\ arrived < setting.packets /\ now <= setting.arrivals
    /\ ~Admits
    /\ arrived' = arrived + 1
    /\ UNCHANGED <<now, config, started, transmit, pending_receptions, timers,
                   main, report, cancelling, step, call, timing, heard, history>>

(***************************************************************************)
(* drive_transmit.                                                         *)
(***************************************************************************)
(* Slip: the medium is taken to be free. *)
CanSendAnyTime == queue # <<>> /\ Head(queue).ready_at <= seen

CanSend ==
    /\ current_end_of_transmission <= seen
    /\ queue # <<>>
    /\ Head(queue).ready_at <= seen

(* What is left of the queue asks for the next wakeup. *)
NextWakeup(rest, end) ==
    when' = IF rest = <<>> THEN 0 ELSE Later(Later(Head(rest).ready_at, end), seen)

DriveTransmit ==
    /\ step = "drive"
    /\ started /\ CanSend
    /\ handed' = Head(queue)
    /\ queue' = Tail(queue)
    /\ available_tokens' = IF flow_control_enable THEN Credited(available_tokens, 1)
                           ELSE available_tokens
    /\ update' = available_tokens'
    /\ current_end_of_transmission' = seen + Head(queue).duration
    /\ NextWakeup(Tail(queue), current_end_of_transmission')
    /\ step' = "send"
    /\ UNCHANGED <<now, config, started, next_transmit_wakeup, pending_receptions,
                   timers, main, report, cancelling, seen, event, timing, counts, history>>

DriveFindsNothing ==
    /\ step = "drive"
    /\ ~(started /\ CanSend)
    /\ IF started /\ queue # <<>>
         THEN /\ NextWakeup(queue, current_end_of_transmission)
              /\ step' = "schedule"
         ELSE step' = "idle" /\ UNCHANGED when
    /\ UNCHANGED <<now, config, started, transmit, pending_receptions, timers,
                   main, report, cancelling, seen, event, handed, update, timing, counts, history>>

(* The packet is stamped with the time it is now, which is late by what    *)
(* passed since drive_transmit looked at the clock.                        *)
Transmission ==
    [id |-> handed.id, begin |-> now, end |-> now + handed.duration, late |-> now - seen]

(* Slip: the rest of the queue waits for the next packet from above. *)
SendPacketOnly ==
    /\ step = "send"
    /\ sent' = Append(sent, Transmission)
    /\ granted' = IF flow_control_enable THEN update ELSE granted
    /\ handed' = NoPacket
    /\ step' = "idle"
    /\ UNCHANGED <<now, config, started, transmit, pending_receptions, timers,
                   main, report, cancelling, seen, when, event, update, timing,
                   counts, overflowed, delivered>>

(* send_packet and send_flow_update, outside the lock. *)
SendPacket ==
    /\ step = "send"
    /\ sent' = Append(sent, Transmission)
    /\ granted' = IF flow_control_enable THEN update ELSE granted
    /\ handed' = NoPacket
    /\ step' = IF when = 0 THEN "idle" ELSE "schedule"
    /\ UNCHANGED <<now, config, started, transmit, pending_receptions, timers,
                   main, report, cancelling, seen, when, event, update, timing, counts, overflowed,
                   delivered>>

(***************************************************************************)
(* schedule_transmit and schedule: an earlier wakeup already expected is   *)
(* enough; a later one is superseded, but its timer is not cancelled.      *)
(***************************************************************************)
Superseded == \/ ~started
              \/ next_transmit_wakeup # 0 /\ next_transmit_wakeup <= when

ScheduleTransmit ==
    /\ step = "schedule"
    /\ IF Superseded THEN step' = "idle" /\ UNCHANGED <<next_transmit_wakeup, event>>
       ELSE /\ next_transmit_wakeup' = when
            /\ event' = [id |-> 0, kind |-> "transmit", data |-> when]
            /\ step' = "arm"
    /\ UNCHANGED <<now, config, started, available_tokens, queue,
                   current_end_of_transmission, pending_receptions, timers, main, report,
                   cancelling, seen, when, handed, update, timing, counts, history>>

(* The framework's schedule_timed_event: a time already past means now. *)
Schedule(e, time) ==
    /\ ids' = ids + 1
    /\ armed' = armed \cup {[id |-> e.id, kind |-> e.kind, data |-> e.data,
                             expire |-> Later(time, now)]}

Arm ==
    /\ step = "arm"
    /\ Schedule([event EXCEPT !.id = ids + 1], when)
    /\ event' = [event EXCEPT !.id = ids + 1]
    /\ step' = "note"
    /\ UNCHANGED <<now, config, started, transmit, pending_receptions, timers,
                   main, report, cancelling, seen, when, handed, update, fired, counts,
                   history>>

NoteTimer ==
    /\ step = "note"
    /\ timers' = timers \cup {event.id}
    /\ step' = "idle"
    /\ UNCHANGED <<now, config, started, transmit, pending_receptions, main, report,
                   cancelling, call, timing, counts, history>>

(***************************************************************************)
(* process_upstream, for a packet that is accepted.                        *)
(***************************************************************************)
AcceptUpstream(duration) ==
    /\ main # "closed"
    /\ step = "idle"
    /\ heard < setting.receptions /\ now <= setting.arrivals
    /\ heard' = heard + 1
    /\ pending_receptions' = pending_receptions \cup {heard + 1}
    /\ when' = now + duration
    /\ event' = [id |-> 0, kind |-> "receive", data |-> heard + 1]
    /\ step' = "arm"
    /\ UNCHANGED <<now, config, started, transmit, timers, main, report, cancelling, seen,
                   handed, update, timing, arrived, history>>

(***************************************************************************)
(* process_timed_event.                                                    *)
(***************************************************************************)
Take(kind) ==
    /\ main # "closed"
    /\ step = "idle"
    /\ fired # <<>>
    /\ Head(fired).kind = kind
    /\ fired' = Tail(fired)
    /\ timers' = timers \ {Head(fired).id}

(* Slip: the wakeup that has come is still taken to be expected. *)
TransmitWakeupKeepingTime ==
    /\ Take("transmit")
    /\ IF Head(fired).data = next_transmit_wakeup
         THEN step' = "drive" /\ seen' = now
         ELSE UNCHANGED <<step, seen>>
    /\ UNCHANGED <<now, config, started, transmit, pending_receptions, main, report,
                   cancelling, when, event, handed, update, armed, ids, counts, history>>

TransmitWakeup ==
    /\ Take("transmit")
    /\ IF Head(fired).data = next_transmit_wakeup
         THEN next_transmit_wakeup' = 0 /\ step' = "drive" /\ seen' = now
         ELSE UNCHANGED <<next_transmit_wakeup, step, seen>>
    /\ UNCHANGED <<now, config, started, available_tokens, queue,
                   current_end_of_transmission, pending_receptions, main, report,
                   cancelling, when, event, handed, update, armed, ids, counts, history>>

ReceptionEnds ==
    /\ Take("receive")
    /\ pending_receptions' = pending_receptions \ {Head(fired).data}
    /\ delivered' = IF Head(fired).data \in pending_receptions
                      THEN Append(delivered, Head(fired).data)
                      ELSE delivered
    /\ UNCHANGED <<now, config, started, transmit, main, report, cancelling, step, call,
                   armed, ids, counts, granted, overflowed, sent>>

Report ==
    /\ Take("report")
    /\ IF started
         THEN /\ when' = now + ReportInterval
              /\ event' = [id |-> 0, kind |-> "report", data |-> 0]
              /\ step' = "arm"
         ELSE UNCHANGED <<when, event, step>>
    /\ UNCHANGED <<now, config, started, transmit, pending_receptions, main, report,
                   cancelling, seen, handed, update, armed, ids, counts, history>>

-----------------------------------------------------------------------------
(***************************************************************************)
(* start and stop, on the main thread.                                     *)
(***************************************************************************)
Start ==
    /\ main = "new"
    /\ started' = TRUE
    /\ available_tokens' = flow_control_tokens
    /\ main' = "grant"
    /\ UNCHANGED <<now, config, queue, current_end_of_transmission,
                   next_transmit_wakeup, pending_receptions, timers, report,
                   cancelling, step, call, timing, counts, history>>

(* The curve of reception probabilities cannot be loaded; the layer's      *)
(* queue is stopped at once.                                               *)
StartFails ==
    /\ main = "new"
    /\ main' = "closed"
    /\ fired' = <<>>
    /\ UNCHANGED <<now, config, started, transmit, pending_receptions, timers,
                   report, cancelling, step, call, armed, ids, counts, history>>

(* Outside the lock: the worker may have told the transport other counts   *)
(* by now.                                                                 *)
GrantAtStart ==
    /\ main = "grant"
    /\ granted' = IF flow_control_enable THEN flow_control_tokens ELSE granted
    /\ main' = IF setting.radiometric THEN "arm report" ELSE "running"
    /\ UNCHANGED <<now, config, started, transmit, pending_receptions, timers, report,
                   cancelling, step, call, timing, counts, overflowed, sent, delivered>>

(* Its timer may fire before the id is noted. *)
ArmReport ==
    /\ main = "arm report"
    /\ Schedule([id |-> ids + 1, kind |-> "report", data |-> 0], now + ReportInterval)
    /\ report' = ids + 1
    /\ main' = "note report"
    /\ UNCHANGED <<now, config, started, transmit, pending_receptions, timers,
                   cancelling, step, call, fired, counts, history>>

NoteReport ==
    /\ main = "note report"
    /\ timers' = timers \cup {report}
    /\ main' = "running"
    /\ UNCHANGED <<now, config, started, transmit, pending_receptions, report,
                   cancelling, step, call, timing, counts, history>>

Stop ==
    /\ main = "running"
    /\ started' = FALSE
    /\ queue' = <<>>
    /\ pending_receptions' = {}
    /\ next_transmit_wakeup' = 0
    /\ cancelling' = timers
    /\ timers' = {}
    /\ main' = "cancel"
    /\ UNCHANGED <<now, config, available_tokens, current_end_of_transmission,
                   report, step, call, timing, counts, history>>

CancelTimer(id) ==
    /\ main = "cancel"
    /\ id \in cancelling
    /\ cancelling' = cancelling \ {id}
    /\ armed' = {t \in armed : t.id # id}
    /\ UNCHANGED <<now, config, started, transmit, pending_receptions, timers, main,
                   report, step, call, fired, ids, counts, history>>

(* The layer's queue is stopped next; what waits in it is dropped. *)
CloseQueue ==
    /\ main = "cancel"
    /\ cancelling = {}
    /\ main' = "closed"
    /\ fired' = <<>>
    /\ UNCHANGED <<now, config, started, transmit, pending_receptions, timers,
                   report, cancelling, step, call, armed, ids, counts, history>>

(***************************************************************************)
(* The timer service and the clock.                                        *)
(***************************************************************************)
TimerFires(t) ==
    /\ t \in armed
    /\ t.expire <= now
    /\ \A u \in armed : t.expire <= u.expire
    /\ armed' = armed \ {t}
    /\ fired' = IF main = "closed" THEN fired ELSE Append(fired, t)
    /\ UNCHANGED <<now, config, started, transmit, pending_receptions, timers, main, report,
                   cancelling, step, call, ids, counts, history>>

(* Beyond the last arrival the clock runs only while a timer waits for it. *)
Tick ==
    /\ now < setting.time
    /\ now < setting.arrivals \/ \E t \in armed : now < t.expire
    /\ now' = now + 1
    /\ UNCHANGED <<config, started, transmit, pending_receptions, timers, main, report,
                   cancelling, step, call, timing, counts, history>>

-----------------------------------------------------------------------------
WorkerStep ==
    \/ DriveTransmit \/ DriveFindsNothing \/ SendPacket \/ ScheduleTransmit \/ Arm
    \/ NoteTimer \/ TransmitWakeup \/ ReceptionEnds \/ Report

Packet ==
    \/ \E delay \in setting.delays, duration \in setting.durations : AcceptDownstream(delay, duration)
    \/ RefuseDownstream
    \/ \E duration \in setting.durations : AcceptUpstream(duration)

MainStep ==
    \/ Start \/ StartFails \/ GrantAtStart \/ ArmReport \/ NoteReport \/ CloseQueue
    \/ \E id \in cancelling : CancelTimer(id)

Next ==
    \/ WorkerStep
    \/ Packet
    \/ MainStep
    \/ Stop
    \/ \E t \in armed : TimerFires(t)
    \/ Tick

Spec == Init /\ [][Next]_vars

(* The worker and the timer thread run, and time passes. *)
FairSpec ==
    /\ Spec
    /\ WF_vars(WorkerStep)
    /\ WF_vars(\E t \in armed : TimerFires(t))
    /\ WF_vars(Tick)

-----------------------------------------------------------------------------
(***************************************************************************)
(* Properties.                                                             *)
(***************************************************************************)
Packets == [id : Nat, ready_at : Nat, duration : Nat \ {0}]
Transmissions == [id : Nat, begin : Nat, end : Nat, late : Nat]
Kinds == {"transmit", "receive", "report"}
Timers == [id : Nat, kind : Kinds, data : Nat, expire : Nat]

ClockOK ==
    /\ now \in Nat \ {0} /\ seen \in 0..now /\ when \in Nat
    /\ current_end_of_transmission \in Nat /\ next_transmit_wakeup \in Nat

PlacesOK ==
    /\ setting \in MacSettings /\ started \in BOOLEAN /\ overflowed \in BOOLEAN
    /\ main \in {"new", "grant", "arm report", "note report", "running", "cancel", "closed"}
    /\ step \in {"idle", "drive", "send", "schedule", "arm", "note"}

TokensOK ==
    /\ flow_control_enable \in BOOLEAN /\ flow_control_tokens \in Nat
    /\ available_tokens \in 0..flow_control_tokens
    /\ update \in 0..flow_control_tokens /\ granted \in 0..flow_control_tokens

PacketsOK ==
    /\ queue \in Seq(Packets) /\ Len(queue) <= QueueCapacity /\ handed \in Packets
    /\ arrived \in Nat /\ sent \in Seq(Transmissions)

TimersOK ==
    /\ ids \in Nat /\ heard \in Nat /\ report \in 0..ids
    /\ timers \subseteq 0..ids /\ cancelling \subseteq 0..ids
    /\ armed \subseteq Timers /\ fired \in Seq(Timers)
    /\ event \in [id : 0..ids, kind : Kinds \cup {"none"}, data : Nat]
    /\ step = "arm" => event.kind # "none"
    /\ pending_receptions \subseteq 1..heard /\ delivered \in Seq(Nat)

(* The state is well formed; the queue never exceeds its capacity. *)
TypeOK == ClockOK /\ PlacesOK /\ TokensOK /\ PacketsOK /\ TimersOK

(* Every token is either available or held by a packet in the queue: none  *)
(* is lost or made up by overflow, transmission, start or stop.            *)
TokensAccounted ==
    started /\ flow_control_enable =>
      available_tokens + Len(queue) = flow_control_tokens

(* The timed events on their way to process_timed_event. *)
Coming == armed \cup {fired[i] : i \in 1..Len(fired)}

(* The medium carries one transmission at a time, and packets leave in the *)
(* order they came: by the times the packets are stamped with, one reaches *)
(* into the next by no more than it was stamped late, however long the     *)
(* worker took between the two and whatever superseded wakeups came.       *)
OneAtATime ==
    \A i, j \in 1..Len(sent) :
      i < j => /\ sent[i].end <= sent[j].begin + sent[i].late
               /\ sent[i].begin <= sent[j].begin
               /\ sent[i].id < sent[j].id

(* Every timer that something waits for is coming.  While packets wait    *)
(* and the worker is between calls, the wakeup they need is on its way,    *)
(* with the very time process_timed_event will look for, and not later     *)
(* than the first packet needs, unless a full queue has lost the packet it *)
(* was set for.  A packet being received is passed up once, when its timer *)
(* fires, and that timer is on its way; the report timer re-arms itself,   *)
(* so between calls exactly one is coming.  And nothing that was under way *)
(* when stop came leaves a packet or an expected wakeup behind.            *)
TimersComing ==
    /\ started /\ queue # <<>> /\ step = "idle" =>
         /\ \E t \in Coming : t.kind = "transmit" /\ t.data = next_transmit_wakeup
         /\ ~overflowed =>
              next_transmit_wakeup
                <= Later(Later(Head(queue).ready_at, current_end_of_transmission), seen)
    /\ started /\ step = "idle" =>
         \A r \in pending_receptions :
           \E t \in Coming : t.kind = "receive" /\ t.data = r
    /\ \A i, j \in 1..Len(delivered) : delivered[i] = delivered[j] => i = j
    /\ setting.radiometric /\ main = "running" /\ step = "idle" =>
         Cardinality({t \in Coming : t.kind = "report"}) = 1
    /\ main \in {"cancel", "closed"} => queue = <<>> /\ next_transmit_wakeup = 0

PacketIds == UNION {1..s.packets : s \in MacSettings}

(* A packet that was admitted leaves the queue: it is sent, or lost to a   *)
(* full queue or to stop.                                                  *)
QueueDrains ==
    \A id \in PacketIds :
      (\E i \in 1..Len(queue) : queue[i].id = id) ~>
        ~(\E i \in 1..Len(queue) : queue[i].id = id)
=============================================================================
