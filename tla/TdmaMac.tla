------------------------------ MODULE TdmaMac ------------------------------
(***************************************************************************)
(* The time axis of the TDMA radio model: a schedule of transmit, receive  *)
(* and idle slots that events replace or update, a chain of timed events   *)
(* from one transmit slot to the next, one reception per receive slot that *)
(* is judged when the slot ends, and two periodic timers.                  *)
(*                                                                         *)
(* The worker of the layer's queue executes one call at a time; start and  *)
(* stop run on the main thread beside it, and the mutex is released        *)
(* between planning a wakeup, arming its timer and noting it.              *)
(*                                                                         *)
(* What a slot carries is in TdmaQueues; here there is always something to *)
(* send.  All schedules have slots of the same length, so that a slot      *)
(* number is the same time in each.  A packet or an event that is rejected *)
(* changes nothing and is no step.                                         *)
(***************************************************************************)
EXTENDS Integers, Sequences, FiniteSets

CONSTANTS
    Settings       \* the instances to explore, one of which is chosen at first

(* duration is slot_duration_us, schedules the slot patterns events can    *)
(* carry (one multiframe each), periods the interval of each periodic      *)
(* timer by kind; events, frames and time bound the schedule events and    *)
(* frames accepted and the clock.                                          *)
ASSUME TdmaAssumption ==
    \A x \in Settings :
      /\ x.duration \in Nat \ {0}
      /\ \A s \in x.schedules :
           s # <<>> /\ s \in Seq({"tx", "rx", "idle"})
      /\ DOMAIN x.periods \subseteq {"check", "status"}
      /\ \A k \in DOMAIN x.periods : x.periods[k] \in Nat \ {0}
      /\ {x.events, x.frames, x.time} \subseteq Nat

VARIABLES
    setting,
    now,           \* the clock
    schedule,      \* <<>> before the first event
    started,
    next_tx_slot,  \* NoSlot when no wakeup is expected
    pending_rx,    \* the reception held for a slot
    timers,        \* timers stop will cancel
    main,          \* where the main thread is
    plan,          \* the timer start is arming
    todo,          \* the periodic timers start has still to arm
    cancelling,    \* timers being cancelled by stop
    step,          \* where the worker is in its call
    slot,          \* the transmit slot it handles
    first,         \* schedule_next_tx waits for the next multiframe
    event,         \* the timed event it is arming
    withdrawn,     \* timers it is cancelling
    armed,         \* the timer service's timers of this MAC
    fired,         \* timed events waiting in the queue
    ids,           \* number of timer ids given out
    events,        \* number of schedule events accepted
    heard,         \* history: the frames accepted
    received,      \* history: the receptions judged good
    sent,          \* history: the slots transmitted in
    late,          \* history: frames sent after stop
    raced          \* history: a wakeup was taken while start armed its own

lifecycle == <<started, main, plan, todo, cancelling>>
call == <<step, slot, first, event, withdrawn>>
timing == <<armed, fired, ids>>
history == <<heard, received, sent, late, raced>>
vars == <<setting, now, schedule, next_tx_slot, pending_rx, timers, lifecycle, call,
          timing, events, history>>

Duration == setting.duration
Schedules == setting.schedules
Periods == setting.periods
MaxEvents == setting.events
MaxFrames == setting.frames
MaxTime == setting.time

NoSlot == -1
NoTimer == [id |-> 0, kind |-> "none", data |-> 0, expire |-> 0]

Init ==
    /\ setting \in Settings
    /\ now = 0
    /\ schedule = <<>>
    /\ started = FALSE
    /\ next_tx_slot = NoSlot
    /\ pending_rx = {}
    /\ timers = {}
    /\ main = "new"
    /\ plan = NoTimer
    /\ todo = DOMAIN Periods
    /\ cancelling = {}
    /\ step = "idle"
    /\ slot = NoSlot
    /\ first = FALSE
    /\ event = NoTimer
    /\ withdrawn = {}
    /\ armed = {}
    /\ fired = <<>>
    /\ ids = 0
    /\ events = 0
    /\ heard = {}
    /\ received = {}
    /\ sent = <<>>
    /\ late = 0
    /\ raced = FALSE

-----------------------------------------------------------------------------
(***************************************************************************)
(* The schedule.                                                           *)
(***************************************************************************)
Kind(s, absolute) == s[(absolute % Len(s)) + 1]

AbsoluteSlot(time) == time \div Duration

SlotStart(absolute) == absolute * Duration

HasTx(s) == \E i \in 1..Len(s) : s[i] = "tx"

(* The first transmit slot within a multiframe after the given one. *)
NextTx(s, after) ==
    CHOOSE n \in (after + 1)..(after + Len(s)) :
      /\ Kind(s, n) = "tx"
      /\ \A m \in (after + 1)..(n - 1) : Kind(s, m) # "tx"

(* schedule_next_tx: from the next multiframe on after a full schedule,    *)
(* from the next slot on otherwise.                                        *)
PlannedSlot(afresh) ==
    LET current == AbsoluteSlot(now)
        cycle == Len(schedule)
    IN  NextTx(schedule, IF afresh THEN (current \div cycle) * cycle + cycle - 1
                         ELSE current)

CanPlan == started /\ schedule # <<>> /\ HasTx(schedule)

TxTimer(absolute) == [id |-> 0, kind |-> "tx", data |-> absolute,
                      expire |-> SlotStart(absolute)]

PeriodicTimer(kind) == [id |-> 0, kind |-> kind, data |-> 0,
                        expire |-> now + Periods[kind]]

(* The framework's schedule_timed_event: a time already past means now. *)
Schedule(t) ==
    /\ ids' = ids + 1
    /\ armed' = armed \cup {[t EXCEPT !.id = ids + 1,
                               !.expire = IF t.expire < now THEN now ELSE t.expire]}

-----------------------------------------------------------------------------
(***************************************************************************)
(* process_event, for an event that is accepted.                           *)
(***************************************************************************)
(* Slip: the timer of the old schedule is forgotten with nothing to        *)
(* replace it.                                                             *)
InstallScheduleOnly(s, full) ==
    /\ main # "closed" /\ step = "idle"
    /\ events < MaxEvents
    /\ full \/ (schedule # <<>> /\ Len(s) = Len(schedule))
    /\ events' = events + 1
    /\ schedule' = s
    /\ next_tx_slot' = NoSlot
    /\ timers' = {t \in timers : t.kind # "tx"}
    /\ UNCHANGED <<setting, now, pending_rx, lifecycle, call, timing, history>>

InstallSchedule(s, full) ==
    /\ main # "closed" /\ step = "idle"
    /\ events < MaxEvents
    /\ full \/ (schedule # <<>> /\ Len(s) = Len(schedule))
    /\ events' = events + 1
    /\ schedule' = s
    /\ next_tx_slot' = NoSlot
    /\ withdrawn' = {t \in timers : t.kind = "tx"}
    /\ timers' = timers \ withdrawn'
    /\ first' = full
    /\ step' = "withdraw"
    /\ UNCHANGED <<setting, now, pending_rx, lifecycle, slot, event, timing,
                   history>>

(* A timer that has fired already is in the queue, out of reach. *)
WithdrawTimers ==
    /\ step = "withdraw"
    /\ armed' = {t \in armed : \A w \in withdrawn : w.id # t.id}
    /\ withdrawn' = {}
    /\ step' = "plan"
    /\ UNCHANGED <<setting, now, schedule, next_tx_slot, pending_rx, timers,
                   lifecycle, slot,
                   first, event, fired, ids, events, history>>

(***************************************************************************)
(* schedule_next_tx on the worker, and the arming of any timer there.      *)
(***************************************************************************)
PlanNextTx ==
    /\ step = "plan"
    /\ IF CanPlan THEN event' = TxTimer(PlannedSlot(first)) /\ step' = "arm"
       ELSE step' = "idle" /\ UNCHANGED event
    /\ first' = FALSE
    /\ UNCHANGED <<setting, now, schedule, next_tx_slot, pending_rx, timers,
                   lifecycle, slot,
                   withdrawn, timing, events, history>>

Arm ==
    /\ step = "arm"
    /\ Schedule(event)
    /\ event' = [event EXCEPT !.id = ids + 1]
    /\ step' = "note"
    /\ UNCHANGED <<setting, now, schedule, next_tx_slot, pending_rx, timers,
                   lifecycle, slot,
                   first, withdrawn, fired, events, history>>

Note(t) == /\ timers' = timers \cup {[id |-> t.id, kind |-> t.kind]}
           /\ next_tx_slot' = IF t.kind = "tx" THEN t.data ELSE next_tx_slot

NoteTimer ==
    /\ step = "note"
    /\ Note(event)
    /\ event' = NoTimer
    /\ step' = "idle"
    /\ UNCHANGED <<setting, now, schedule, pending_rx, lifecycle, slot, first,
                   withdrawn, timing,
                   events, history>>

(***************************************************************************)
(* process_timed_event.                                                    *)
(***************************************************************************)
Take(kind) ==
    /\ main # "closed" /\ step = "idle"
    /\ fired # <<>> /\ Head(fired).kind = kind
    /\ fired' = Tail(fired)
    /\ timers' = {t \in timers : t.id # Head(fired).id}

TxWakeup ==
    /\ Take("tx")
    /\ IF Head(fired).data = next_tx_slot
         THEN /\ next_tx_slot' = NoSlot
              /\ slot' = Head(fired).data
              /\ step' = "transmit"
         ELSE UNCHANGED <<next_tx_slot, slot, step>>
    /\ raced' = (raced \/ main \in {"arm", "note"})
    /\ UNCHANGED <<setting, now, schedule, pending_rx, lifecycle, first, event,
                   withdrawn,
                   armed, ids, events, heard, received, sent, late>>

(* A slot that is over when the wakeup is handled is missed. *)
OnTime == AbsoluteSlot(now) = slot /\ Kind(schedule, slot) = "tx"

TransmitSlot ==
    /\ step = "transmit"
    /\ \/ /\ OnTime
          /\ sent' = Append(sent, slot)
          /\ late' = IF main \in {"cancel", "closed"} THEN late + 1 ELSE late
       \/ ~OnTime /\ UNCHANGED <<sent, late>>
    /\ slot' = NoSlot
    /\ step' = "plan"
    /\ UNCHANGED <<setting, now, schedule, next_tx_slot, pending_rx, timers,
                   lifecycle, first,
                   event, withdrawn, timing, events, heard, received, raced>>

(* complete_receive: the spectrum or the curve may decide against it. *)
CompleteReceive ==
    /\ Take("rx")
    /\ pending_rx' = {p \in pending_rx : p.slot # Head(fired).data}
    /\ \E good \in BOOLEAN :
         received' = IF good /\ started THEN received \cup (pending_rx \ pending_rx')
                     ELSE received
    /\ UNCHANGED <<setting, now, schedule, next_tx_slot, lifecycle, call,
                   armed, ids, events,
                   heard, sent, late, raced>>

PeriodicEvent(kind) ==
    /\ Take(kind)
    /\ IF started THEN event' = PeriodicTimer(kind) /\ step' = "arm"
       ELSE UNCHANGED <<event, step>>
    /\ UNCHANGED <<setting, now, schedule, next_tx_slot, pending_rx, lifecycle,
                   slot, first,
                   withdrawn, armed, ids, events, history>>

(***************************************************************************)
(* process_upstream, for a frame that belongs to a present receive slot:   *)
(* it ends within the slot it was sent in, which is the present one.       *)
(***************************************************************************)
(* Slip: a frame that comes after its slot is taken all the same. *)
BelongsThen(frame) ==
    /\ schedule # <<>>
    /\ AbsoluteSlot(frame.start + frame.duration - 1) = frame.slot
    /\ Kind(schedule, frame.slot) = "rx"

Belongs(frame) ==
    /\ schedule # <<>>
    /\ AbsoluteSlot(frame.start + frame.duration - 1) = frame.slot
    /\ AbsoluteSlot(now) = frame.slot
    /\ Kind(schedule, frame.slot) = "rx"

(* A frame comes while it is on the air, or a little earlier or later. *)
Frames == [slot : {AbsoluteSlot(now) + d : d \in {-1, 0, 1}} \cap Nat,
           start : {now - 1, now, now + 1} \cap Nat, duration : 1..Duration]

Reception(frame) == [slot |-> frame.slot, start |-> frame.start,
                     id |-> Cardinality(heard) + 1]

Upstream(frame) ==
    /\ main # "closed" /\ step = "idle"
    /\ Cardinality(heard) < MaxFrames
    /\ started
    /\ Belongs(frame)
    /\ heard' = heard \cup {Reception(frame)}
    /\ IF \E p \in pending_rx : p.slot = frame.slot
         THEN /\ pending_rx' = {IF p.slot = frame.slot /\ frame.start < p.start
                                  THEN Reception(frame) ELSE p : p \in pending_rx}
              /\ UNCHANGED <<event, step>>
         ELSE /\ pending_rx' = pending_rx \cup {Reception(frame)}
              /\ event' = [id |-> 0, kind |-> "rx", data |-> frame.slot,
                           expire |-> SlotStart(frame.slot + 1)]
              /\ step' = "arm"
    /\ UNCHANGED <<setting, now, schedule, next_tx_slot, timers, lifecycle,
                   slot, first,
                   withdrawn, timing, events, received, sent, late, raced>>

-----------------------------------------------------------------------------
(***************************************************************************)
(* start and stop, on the main thread.                                     *)
(***************************************************************************)
Start ==
    /\ main = "new"
    /\ started' = TRUE
    /\ main' = "plan"
    /\ UNCHANGED <<setting, now, schedule, next_tx_slot, pending_rx, timers,
                   plan, todo,
                   cancelling, call, timing, events, history>>

(* The curve of reception probabilities cannot be loaded. *)
StartFails ==
    /\ main = "new"
    /\ main' = "closed"
    /\ fired' = <<>>
    /\ UNCHANGED <<setting, now, schedule, next_tx_slot, pending_rx, timers,
                   started, plan,
                   todo, cancelling, call, armed, ids, events, history>>

StartPlans ==
    /\ main = "plan"
    /\ IF CanPlan THEN plan' = TxTimer(PlannedSlot(TRUE)) /\ main' = "arm"
       ELSE main' = "periodic" /\ UNCHANGED plan
    /\ UNCHANGED <<setting, now, schedule, next_tx_slot, pending_rx, timers,
                   started, todo,
                   cancelling, call, timing, events, history>>

StartArms ==
    /\ main = "arm"
    /\ Schedule(plan)
    /\ plan' = [plan EXCEPT !.id = ids + 1]
    /\ main' = "note"
    /\ UNCHANGED <<setting, now, schedule, next_tx_slot, pending_rx, timers,
                   started, todo,
                   cancelling, call, fired, events, history>>

StartNotes ==
    /\ main = "note"
    /\ Note(plan)
    /\ plan' = NoTimer
    /\ main' = "periodic"
    /\ UNCHANGED <<setting, now, schedule, pending_rx, started, todo,
                   cancelling, call, timing,
                   events, history>>

(* schedule_reassembly_check, then schedule_neighbor_status. *)
StartPeriodic(kind) ==
    /\ main = "periodic"
    /\ kind \in todo
    /\ kind = "check" \/ "check" \notin todo
    /\ Schedule(PeriodicTimer(kind))
    /\ plan' = [PeriodicTimer(kind) EXCEPT !.id = ids + 1]
    /\ todo' = todo \ {kind}
    /\ main' = "note"
    /\ UNCHANGED <<setting, now, schedule, next_tx_slot, pending_rx, timers,
                   started, cancelling,
                   call, fired, events, history>>

Started ==
    /\ main = "periodic"
    /\ todo = {}
    /\ main' = "running"
    /\ UNCHANGED <<setting, now, schedule, next_tx_slot, pending_rx, timers,
                   started, plan,
                   todo, cancelling, call, timing, events, history>>

Stop ==
    /\ main = "running"
    /\ started' = FALSE
    /\ next_tx_slot' = NoSlot
    /\ pending_rx' = {}
    /\ cancelling' = timers
    /\ timers' = {}
    /\ main' = "cancel"
    /\ UNCHANGED <<setting, now, schedule, plan, todo, call, timing, events,
                   history>>

CancelTimers ==
    /\ main = "cancel"
    /\ cancelling # {}
    /\ armed' = {t \in armed : \A c \in cancelling : c.id # t.id}
    /\ cancelling' = {}
    /\ UNCHANGED <<setting, now, schedule, next_tx_slot, pending_rx, timers,
                   started, main, plan,
                   todo, call, fired, ids, events, history>>

(* The layer's queue is stopped next; what waits in it is dropped. *)
CloseQueue ==
    /\ main = "cancel"
    /\ cancelling = {}
    /\ main' = "closed"
    /\ fired' = <<>>
    /\ UNCHANGED <<setting, now, schedule, next_tx_slot, pending_rx, timers,
                   started, plan,
                   todo, cancelling, call, armed, ids, events, history>>

(***************************************************************************)
(* The timer service and the clock.                                        *)
(***************************************************************************)
TimerFires(t) ==
    /\ t \in armed
    /\ t.expire <= now
    /\ \A u \in armed : t.expire <= u.expire
    /\ armed' = armed \ {t}
    /\ fired' = IF main = "closed" THEN fired ELSE Append(fired, t)
    /\ UNCHANGED <<setting, now, schedule, next_tx_slot, pending_rx, timers,
                   lifecycle, call,
                   ids, events, history>>

Tick ==
    /\ now < MaxTime
    /\ now' = now + 1
    /\ UNCHANGED <<setting, schedule, next_tx_slot, pending_rx, timers,
                   lifecycle, call, timing,
                   events, history>>

-----------------------------------------------------------------------------
Next ==
    \/ \E s \in Schedules, full \in BOOLEAN : InstallSchedule(s, full)
    \/ WithdrawTimers \/ PlanNextTx \/ Arm \/ NoteTimer
    \/ TxWakeup \/ TransmitSlot \/ CompleteReceive
    \/ \E kind \in DOMAIN Periods : PeriodicEvent(kind)
    \/ \E frame \in Frames : Upstream(frame)
    \/ Start \/ StartFails \/ StartPlans \/ StartArms \/ StartNotes \/ Started
    \/ \E kind \in todo : StartPeriodic(kind)
    \/ Stop \/ CancelTimers \/ CloseQueue
    \/ \E t \in armed : TimerFires(t)
    \/ Tick

Spec == Init /\ [][Next]_vars
-----------------------------------------------------------------------------
(***************************************************************************)
(* Properties.                                                             *)
(***************************************************************************)
(* The timed events on their way to process_timed_event. *)
Coming == armed \cup {fired[i] : i \in 1..Len(fired)}

(* The chains of wakeups never break: while the MAC runs and the worker is *)
(* between calls, the transmit wakeup of the very slot it expects is on    *)
(* its way whenever the schedule has a transmit slot, every held reception *)
(* has the end of its slot coming, and each periodic timer is coming once. *)
(* Excepted is a start whose own wakeup was handled before it was noted.   *)
WakeupsComing ==
    started /\ main = "running" /\ step = "idle" =>
      /\ schedule # <<>> /\ HasTx(schedule) /\ ~raced =>
           \E t \in Coming : t.kind = "tx" /\ t.data = next_tx_slot
      /\ \A p \in pending_rx : \E t \in Coming : t.kind = "rx" /\ t.data = p.slot
      /\ \A k \in DOMAIN Periods : Cardinality({t \in Coming : t.kind = k}) = 1

(* No slot is transmitted in twice, in whatever way schedules change and   *)
(* superseded wakeups arrive.                                              *)
SlotUsedOnce ==
    ~raced => \A i, j \in 1..Len(sent) : i < j => sent[i] < sent[j]

(* Stop does not look at the worker, but at most one frame leaves after    *)
(* it: the one whose wakeup was being handled or being armed.              *)
SilentAfterStop == late <= 1

(* A slot yields one reception at most, and it is the frame that began     *)
(* first of those the slot accepted, in whatever order they arrived.       *)
EarliestWins ==
    /\ \A p, q \in received : p.slot = q.slot => p = q
    /\ \A p \in received, q \in heard : p.slot = q.slot => p.start <= q.start

(* The chains of wakeups neither break while the MAC runs nor go on after  *)
(* stop.                                                                   *)
WakeupsWhileStarted == WakeupsComing /\ SilentAfterStop

(* A slot carries one transmission and yields one reception, the earliest. *)
SlotsAreExclusive == SlotUsedOnce /\ EarliestWins
=============================================================================
