--------------------------- MODULE TdmaMacProofs ---------------------------
(***************************************************************************)
(* Proofs about the time axis of the TDMA radio model, for any slot        *)
(* length, any schedules, any periods and any number of events and frames, *)
(* and then about what its slots carry (TdmaQueues).                       *)
(***************************************************************************)
EXTENDS TdmaMac, MCTdmaQueues, SequenceTheorems, FiniteSetTheorems, WellFoundedInduction, TLAPS

TimerKinds == {"tx", "rx"} \cup DOMAIN Periods

Timers == [id : Nat, kind : TimerKinds, data : Nat, expire : Nat]

FiredTimers == {fired[i] : i \in 1..Len(fired)}

(* start has set started, and stop has not cleared it. *)
Up == main \in {"plan", "arm", "note", "periodic", "running"}

(* The worker, or start, has a transmit wakeup in its hands. *)
EventTx == step \in {"arm", "note"} /\ event.kind = "tx"
PlanTx == main \in {"arm", "note"} /\ plan.kind = "tx"

TypesOK ==
    /\ setting \in Settings /\ now \in Nat /\ schedule \in Schedules \cup {<<>>}
    /\ next_tx_slot \in Nat \cup {NoSlot}
    /\ \A p \in pending_rx \cup heard \cup received : p.slot \in Nat /\ p.start \in Nat
    /\ armed \subseteq Timers /\ fired \in Seq(Timers) /\ ids \in Nat
    /\ sent \in Seq(Nat) /\ {raced, first} \subseteq BOOLEAN /\ late \in {0, 1}

PlacesOK ==
    /\ main \in {"new", "plan", "arm", "note", "periodic", "running", "cancel", "closed"}
    /\ step \in {"idle", "withdraw", "plan", "arm", "note", "transmit"}
    /\ started \in BOOLEAN /\ (started <=> Up)
    /\ main \in {"arm", "note"} => plan \in Timers
    /\ main = "arm" => plan.kind = "tx"
    /\ main = "new" => next_tx_slot = NoSlot /\ step \in {"idle", "withdraw", "plan"}
    /\ step \in {"arm", "note"} => event \in Timers
    /\ step = "transmit" => slot \in Nat
    /\ todo \subseteq DOMAIN Periods /\ (main = "running" => todo = {})
    /\ main = "new" => todo = DOMAIN Periods
    /\ step \in {"arm", "note"} => event.kind \notin todo
    /\ withdrawn # {} => step = "withdraw"
    /\ cancelling # {} => main = "cancel"

(* No timer id is used twice, and what is noted of a timer is its id. *)
IdsOK ==
    /\ \A t \in Coming : t.id <= ids
    /\ \A t, u \in armed : t.id = u.id => t = u
    /\ \A i, j \in 1..Len(fired) : fired[i].id = fired[j].id => i = j
    /\ \A t \in armed, u \in FiredTimers : t.id # u.id

(* The timer among C with the given id, if any, has the given kind. *)
Agrees(C, id, kind) == \A t \in C : t.id = id => t.kind = kind

NotedOK ==
    /\ \A r \in timers \cup withdrawn :
         r.id <= ids /\ r.id \in Nat /\ Agrees(Coming, r.id, r.kind)
    /\ step = "note" =>
         event.id <= ids /\ Agrees(Coming, event.id, event.kind)
    /\ main = "note" =>
         /\ plan.id <= ids /\ Agrees(Coming, plan.id, plan.kind)
         /\ \A r \in timers \cup withdrawn : r.id # plan.id
         /\ step = "note" => event.id # plan.id
    /\ \A r \in withdrawn : r.kind = "tx"

(* A timer does not fire before the slot it is for, or the end of it. *)
NotEarly(t) ==
    /\ t.kind = "tx" => SlotStart(t.data) <= t.expire
    /\ t.kind = "rx" => SlotStart(t.data + 1) <= t.expire

TimesOK ==
    /\ \A t \in Coming : NotEarly(t)
    /\ \A t \in FiredTimers : t.expire <= now
    /\ step = "arm" => NotEarly(event)
    /\ main = "arm" => NotEarly(plan)
    /\ step = "transmit" => slot <= AbsoluteSlot(now)

(* The timer that was armed and is not noted yet is on its way. *)
ArmedOK ==
    /\ step = "note" /\ Up =>
         \E t \in Coming : t.id = event.id /\ t.kind = event.kind /\ t.data = event.data
    /\ main = "note" /\ plan.kind = "tx" /\ ~raced =>
         \E t \in Coming : t.id = plan.id /\ t.kind = "tx" /\ t.data = plan.data

(* The wakeup of the expected slot is coming, or a wakeup will be planned. *)
WakeupPromised ==
    Up /\ schedule # <<>> /\ HasTx(schedule) /\ ~raced =>
      \/ step \in {"withdraw", "plan", "transmit"} \/ EventTx
      \/ main = "plan" \/ PlanTx
      \/ \E t \in Coming : t.kind = "tx" /\ t.data = next_tx_slot

EndsPromised ==
    /\ pending_rx # {} => Up
    /\ \A p \in pending_rx :
         \/ step = "arm" /\ event.kind = "rx" /\ event.data = p.slot
         \/ \E t \in Coming : t.kind = "rx" /\ t.data = p.slot

(* Of a kind: none among the timers C, or exactly one. *)
NoneOf(C, k) == \A t \in C : t.kind # k
OneOf(C, k) == \E t \in C : t.kind = k /\ \A u \in C : u.kind = k => u = t

(* Of a kind that start has armed, one timer is coming or in the worker's  *)
(* hands; of the others, none.                                             *)
PeriodicPromised ==
    Up \/ main = "new" =>
      \A k \in DOMAIN Periods :
        IF k \in todo \/ (step = "arm" /\ event.kind = k) THEN NoneOf(Coming, k)
                                                       ELSE OneOf(Coming, k)

LateOK ==
    /\ main \notin {"cancel", "closed"} => late = 0
    /\ ~Up /\ (late = 1 \/ step = "transmit") => next_tx_slot = NoSlot /\ ~EventTx
    /\ ~Up /\ EventTx => next_tx_slot = NoSlot
    /\ late = 1 => step # "transmit"

(* Every slot that may still be transmitted in comes after those that were. *)
After(s, n) == \A i \in 1..Len(s) : s[i] < n
Increasing(s) == \A i, j \in 1..Len(s) : i < j => s[i] < s[j]

SlotsOK ==
    /\ After(sent, AbsoluteSlot(now) + 1)
    /\ ~raced =>
         /\ Increasing(sent)
         /\ next_tx_slot = NoSlot \/ After(sent, next_tx_slot)
         /\ EventTx => After(sent, event.data)
         /\ PlanTx => After(sent, plan.data)
         /\ step = "transmit" =>
              /\ After(sent, slot)
              /\ next_tx_slot = NoSlot \/ slot < next_tx_slot
              /\ PlanTx => slot < plan.data

(* While a slot lasts, the earliest of its frames is held; after it, none  *)
(* is accepted any more.                                                   *)
HeldOK ==
    /\ \A p, q \in pending_rx : p.slot = q.slot => p = q
    /\ \A p \in pending_rx, q \in heard : p.slot = q.slot => p.start <= q.start
    /\ \A p \in pending_rx, q \in received : p.slot # q.slot
    /\ \A p \in received : p.slot < AbsoluteSlot(now)
    /\ Up \/ main = "new" =>
         \A q \in heard : \/ q.slot < AbsoluteSlot(now)
                           \/ \E p \in pending_rx : p.slot = q.slot

(* The inductive invariant. *)
IInv ==
    /\ TypesOK /\ PlacesOK /\ IdsOK /\ NotedOK /\ TimesOK /\ ArmedOK
    /\ WakeupPromised /\ EndsPromised /\ PeriodicPromised /\ LateOK
    /\ SlotsOK /\ HeldOK /\ EarliestWins

-----------------------------------------------------------------------------
(***************************************************************************)
(* Slots and times.                                                        *)
(***************************************************************************)
(* A number lies between a multiple of D and the next. *)
LEMMA Divided ==
  ASSUME NEW n \in Nat, NEW D \in Nat \ {0}
  PROVE  /\ n \div D \in Nat /\ (n \div D) * D \in Nat
         /\ (n \div D) * D <= n /\ n < (n \div D) * D + D
<1>1. (n \div D) * D <= n
  OBVIOUS
<1>2. n < (n \div D) * D + D
  OBVIOUS
<1>3. n \div D \in Nat
  OBVIOUS
<1> QED
  BY <1>1, <1>2, <1>3

(* What starts by a time is not later than the slot of that time. *)
LEMMA SlotOfTime ==
  ASSUME NEW n \in Nat, NEW D \in Nat \ {0}, NEW x \in Nat, x * D <= n
  PROVE  x <= n \div D
  OBVIOUS

(* Slots grow with time. *)
LEMMA SlotGrows ==
  ASSUME NEW n \in Nat, NEW m \in Nat, NEW D \in Nat \ {0}, n <= m
  PROVE  n \div D <= m \div D
  OBVIOUS

(* Every remainder occurs in a window as long as the divisor. *)
LEMMA Window ==
  ASSUME NEW a \in Nat, NEW D \in Nat \ {0}, NEW r \in 0..(D - 1)
  PROVE  \E n \in a..(a + D - 1) : n % D = r
<1>1. PICK q \in Nat, m \in 0..(D - 1) : a = q * D + m
  <2> DEFINE q0 == a \div D
             m0 == a - q0 * D
  <2>1. q0 \in Nat /\ q0 * D \in Nat /\ q0 * D <= a /\ a < q0 * D + D
    BY Divided
  <2>2. m0 \in 0..(D - 1) /\ a = q0 * D + m0
    BY <2>1
  <2> QED
    BY <2>1, <2>2
<1>2. (q * D + r) % D = r /\ ((q + 1) * D + r) % D = r
  OBVIOUS
<1>3. q * D \in Int /\ (q + 1) * D = q * D + D
  OBVIOUS
<1>4. CASE r >= m
  <2>1. q * D + r \in a..(a + D - 1)
    BY <1>1, <1>3, <1>4
  <2> QED
    BY <1>2, <2>1
<1>5. CASE r < m
  <2>1. (q + 1) * D + r \in a..(a + D - 1)
    BY <1>1, <1>3, <1>5
  <2> QED
    BY <1>2, <2>1
<1> QED
  BY <1>4, <1>5

(* A set of natural numbers has a least one. *)
LEMMA Least ==
  ASSUME NEW S, S \subseteq Nat, S # {}
  PROVE  \E i \in S : \A j \in S : i <= j
<1> DEFINE R == OpToRel(<, Nat)
<1>1. IsWellFoundedOn(R, Nat)
  BY NatLessThanWellFounded
<1>2. PICK x \in S : TRUE
  OBVIOUS
<1>3. PICK i \in S : \A j \in S : ~(<<j, i>> \in R)
  BY <1>1, <1>2, WFMin
<1>4. ASSUME NEW j \in S
      PROVE  i <= j
  <2>1. ~(j < i)
    BY <1>3 DEF OpToRel
  <2> QED
    BY <2>1
<1> QED
  BY <1>4

(* A schedule that transmits has a next transmit slot. *)
LEMMA NextTxLater ==
  ASSUME NEW s \in Seq({"tx", "rx", "idle"}), s # <<>>, HasTx(s), NEW after \in Nat
  PROVE  NextTx(s, after) \in Nat /\ NextTx(s, after) > after
<1> DEFINE L == Len(s)
           S == {n \in (after + 1)..(after + L) : Kind(s, n) = "tx"}
<1>1. L \in Nat \ {0}
  BY EmptySeq, LenProperties
<1>2. PICK i \in 1..L : s[i] = "tx"
  BY DEF HasTx
<1>3. PICK n \in (after + 1)..((after + 1) + L - 1) : n % L = i - 1
  <2>1. i - 1 \in 0..(L - 1) /\ after + 1 \in Nat
    BY <1>1
  <2> QED
    BY <1>1, <2>1, Window
<1>4. n \in S
  <2>1. n \in (after + 1)..(after + L) /\ (n % L) + 1 = i
    BY <1>1, <1>3
  <2> QED
    BY <1>2, <2>1 DEF Kind
<1>5. S \subseteq Nat
  BY <1>1
<1>6. PICK x \in S : \A y \in S : x <= y
  BY <1>4, <1>5, Least
<1>7. \A m \in (after + 1)..(x - 1) : Kind(s, m) # "tx"
  <2> SUFFICES ASSUME NEW m \in (after + 1)..(x - 1), Kind(s, m) = "tx"
               PROVE  FALSE
    OBVIOUS
  <2>1. x \in (after + 1)..(after + L) /\ x \in Nat
    BY <1>1, <1>6
  <2>2. m \in (after + 1)..(after + L) /\ ~(x <= m)
    BY <1>1, <2>1
  <2> QED
    BY <1>6, <2>2
<1>8. \E y \in (after + 1)..(after + L) :
        Kind(s, y) = "tx" /\ \A m \in (after + 1)..(y - 1) : Kind(s, m) # "tx"
  BY <1>6, <1>7
<1>9. NextTx(s, after) \in (after + 1)..(after + L)
  BY <1>8 DEF NextTx
<1> QED
  BY <1>1, <1>9

(* What the assumption says of the chosen setting. *)
LEMMA SettingFacts ==
  ASSUME TypesOK
  PROVE  /\ Duration \in Nat \ {0} /\ AbsoluteSlot(now) \in Nat
         /\ \A s \in Schedules : s # <<>> /\ s \in Seq({"tx", "rx", "idle"})
         /\ DOMAIN Periods \subseteq {"check", "status"}
         /\ \A k \in DOMAIN Periods : Periods[k] \in Nat \ {0}
<1>1. setting \in Settings /\ now \in Nat
  BY DEF TypesOK
<1>2. /\ Duration \in Nat \ {0}
      /\ \A s \in Schedules : s # <<>> /\ s \in Seq({"tx", "rx", "idle"})
      /\ DOMAIN Periods \subseteq {"check", "status"}
      /\ \A k \in DOMAIN Periods : Periods[k] \in Nat \ {0}
  BY <1>1, TdmaAssumption DEF Duration, Schedules, Periods
<1>3. AbsoluteSlot(now) \in Nat
  BY <1>1, <1>2, Divided DEF AbsoluteSlot
<1> QED
  BY <1>2, <1>3

(* The slot that is planned is still to come. *)
LEMMA PlannedLater ==
  ASSUME TypesOK, CanPlan, NEW afresh \in BOOLEAN
  PROVE  PlannedSlot(afresh) \in Nat /\ PlannedSlot(afresh) > AbsoluteSlot(now)
<1> DEFINE c == AbsoluteSlot(now)
           cycle == Len(schedule)
           after == IF afresh THEN (c \div cycle) * cycle + cycle - 1 ELSE c
<1>1. schedule \in Seq({"tx", "rx", "idle"}) /\ schedule # <<>> /\ HasTx(schedule) /\ c \in Nat
  BY SettingFacts DEF TypesOK, CanPlan
<1>2. cycle \in Nat \ {0}
  BY <1>1, EmptySeq, LenProperties
<1> HIDE DEF c, cycle
<1>3. after \in Nat /\ after >= c
  <2>1. /\ c \div cycle \in Nat /\ (c \div cycle) * cycle \in Nat
        /\ (c \div cycle) * cycle <= c /\ c < (c \div cycle) * cycle + cycle
    BY <1>1, <1>2, Divided
  <2> QED
    BY <1>1, <1>2, <2>1
<1>4. PlannedSlot(afresh) = NextTx(schedule, after)
  BY DEF PlannedSlot, c, cycle
<1> HIDE DEF after
<1>5. NextTx(schedule, after) \in Nat /\ NextTx(schedule, after) > after
  BY <1>1, <1>3, NextTxLater
<1> QED
  BY <1>1, <1>3, <1>4, <1>5 DEF c

-----------------------------------------------------------------------------
(***************************************************************************)
(* The timer service and the queue of timed events.                        *)
(***************************************************************************)
(* Timers are records, and those that fired wait in the queue. *)
LEMMA ComingFacts ==
  ASSUME TypesOK
  PROVE  /\ Coming = armed \cup FiredTimers /\ Coming \subseteq Timers
         /\ Len(fired) \in Nat /\ \A i \in 1..Len(fired) : fired[i] \in Timers
         /\ \A t \in Timers : /\ t.id \in Nat /\ t.data \in Nat /\ t.expire \in Nat
                              /\ t.kind \in {"tx", "rx"} \cup DOMAIN Periods
<1>1. Len(fired) \in Nat /\ \A i \in 1..Len(fired) : fired[i] \in Timers
  BY ElementOfSeq, LenProperties DEF TypesOK
<1>2. Coming = armed \cup FiredTimers
  BY DEF Coming, FiredTimers
<1>3. \A t \in Timers : /\ t.id \in Nat /\ t.data \in Nat /\ t.expire \in Nat
                        /\ t.kind \in {"tx", "rx"} \cup DOMAIN Periods
  BY DEF Timers, TimerKinds
<1> QED
  BY <1>1, <1>2, <1>3 DEF TypesOK, FiredTimers

(* The service arms a timer. *)
LEMMA Scheduled ==
  ASSUME TypesOK, IdsOK, NEW t \in Timers, Schedule(t), UNCHANGED <<setting, fired>>
  PROVE  \E u \in Timers :
           /\ u.kind = t.kind /\ u.data = t.data /\ u.id = ids + 1 /\ ids' = ids + 1
           /\ NotEarly(t) => NotEarly(u)
           /\ armed' = armed \cup {u} /\ Coming' = Coming \cup {u} /\ IdsOK'
           /\ armed' \subseteq Timers
<1> DEFINE e == IF t.expire < now THEN now ELSE t.expire
           u == [t EXCEPT !.id = ids + 1, !.expire = e]
<1>1. ids \in Nat /\ now \in Nat
  BY DEF TypesOK
<1>2. /\ u \in Timers /\ u.kind = t.kind /\ u.data = t.data /\ u.id = ids + 1
      /\ u.expire = e
  <2>1. e \in Nat /\ ids + 1 \in Nat
    BY <1>1, ComingFacts
  <2> HIDE DEF e
  <2> QED
    BY <2>1 DEF Timers
<1>3. armed' = armed \cup {u} /\ ids' = ids + 1
  BY DEF Schedule
<1> HIDE DEF u
<1>4. u.expire \in Nat /\ t.expire \in Nat /\ u.expire >= t.expire
  BY <1>1, <1>2, ComingFacts
<1>5. NotEarly(t) => NotEarly(u)
  <2>1. t.data \in Nat /\ Duration \in Nat
    BY ComingFacts, SettingFacts
  <2>2. SlotStart(t.data) \in Nat /\ SlotStart(t.data + 1) \in Nat
    BY <2>1 DEF SlotStart
  <2> QED
    BY <1>2, <1>4, <2>2 DEF NotEarly
<1>6. Coming' = Coming \cup {u} /\ FiredTimers' = FiredTimers
  BY <1>3 DEF Coming, FiredTimers
<1>7. \A v \in Coming : v.id \in Nat /\ v.id <= ids /\ v.id # ids + 1
  <2>1. \A v \in Coming : v.id \in Nat /\ v.id <= ids
    BY ComingFacts DEF IdsOK
  <2> QED
    BY <1>1, <2>1
<1>8. \A v \in armed \cup FiredTimers : v.id # u.id
  BY <1>2, <1>7, ComingFacts
<1>9. IdsOK'
  <2>1. \A v \in Coming' : v.id <= ids'
    BY <1>1, <1>2, <1>3, <1>6, <1>7
  <2>2. \A v, w \in armed' : v.id = w.id => v = w
    BY <1>3, <1>8 DEF IdsOK
  <2>3. \A i, j \in 1..Len(fired') : fired'[i].id = fired'[j].id => i = j
    BY DEF IdsOK
  <2>4. \A v \in armed', w \in FiredTimers' : v.id # w.id
    BY <1>3, <1>6, <1>8 DEF IdsOK
  <2> QED
    BY <2>1, <2>2, <2>3, <2>4 DEF IdsOK
<1>10. armed' \subseteq Timers
  BY <1>2, <1>3 DEF TypesOK
<1> QED
  BY <1>2, <1>3, <1>5, <1>6, <1>9, <1>10

(* The worker takes the oldest timed event. *)
LEMMA Taken ==
  ASSUME TypesOK, IdsOK, fired # <<>>, fired' = Tail(fired), UNCHANGED <<armed, ids>>
  PROVE  /\ Head(fired) \in FiredTimers /\ Head(fired) \in Coming /\ Head(fired) \in Timers
         /\ Coming' = Coming \ {Head(fired)} /\ FiredTimers' \subseteq FiredTimers
         /\ IdsOK' /\ fired' \in Seq(Timers)
<1>1. /\ Head(fired) = fired[1] /\ fired' \in Seq(Timers) /\ Len(fired) \in Nat \ {0}
      /\ Len(fired') = Len(fired) - 1 /\ 1 \in 1..Len(fired)
      /\ \A i \in 1..Len(fired') : i + 1 \in 2..Len(fired) /\ fired'[i] = fired[i + 1]
  <2>1. fired \in Seq(Timers) /\ Len(fired) \in Nat \ {0}
    BY EmptySeq, LenProperties DEF TypesOK
  <2> QED
    BY <2>1, HeadTailProperties
<1>2. \A j \in 2..Len(fired) : j \in 1..Len(fired) /\ j - 1 \in 1..Len(fired') /\ (j - 1) + 1 = j
                               /\ j # 1
  BY <1>1
<1>3. FiredTimers = FiredTimers' \cup {Head(fired)}
  <2>1. FiredTimers' = {fired[j] : j \in 2..Len(fired)}
    <3>1. \A i \in 1..Len(fired') : fired'[i] \in {fired[j] : j \in 2..Len(fired)}
      BY <1>1
    <3>2. ASSUME NEW j \in 2..Len(fired)
          PROVE  fired[j] \in {fired'[i] : i \in 1..Len(fired')}
      <4>1. j - 1 \in 1..Len(fired') /\ (j - 1) + 1 = j
        BY <1>2
      <4>2. fired'[j - 1] = fired[j]
        BY <1>1, <4>1
      <4> QED
        BY <4>1, <4>2
    <3> QED
      BY <3>1, <3>2 DEF FiredTimers
  <2>2. \A j \in 1..Len(fired) : j = 1 \/ j \in 2..Len(fired)
    BY <1>1
  <2> QED
    BY <1>1, <1>2, <2>1, <2>2 DEF FiredTimers
<1>4. \A t \in FiredTimers' : t.id # Head(fired).id /\ t # Head(fired)
  <2> SUFFICES ASSUME NEW i \in 1..Len(fired')
               PROVE  fired'[i].id # Head(fired).id
    BY DEF FiredTimers
  <2>1. i + 1 \in 1..Len(fired) /\ i + 1 # 1
    BY <1>1
  <2> QED
    BY <1>1, <2>1 DEF IdsOK
<1>5. \A t \in armed : t.id # Head(fired).id /\ t # Head(fired)
  BY <1>3 DEF IdsOK
<1>6. Coming = armed \cup FiredTimers /\ Coming' = armed \cup FiredTimers'
  BY DEF Coming, FiredTimers
<1>7. Coming' = Coming \ {Head(fired)}
  BY <1>3, <1>4, <1>5, <1>6
<1>8. IdsOK'
  <2>1. \A i, j \in 1..Len(fired') : fired'[i].id = fired'[j].id => i = j
    <3> SUFFICES ASSUME NEW i \in 1..Len(fired'), NEW j \in 1..Len(fired'),
                        fired'[i].id = fired'[j].id
                 PROVE  i = j
      OBVIOUS
    <3>1. i + 1 \in 1..Len(fired) /\ j + 1 \in 1..Len(fired)
      BY <1>1
    <3>2. i + 1 = j + 1
      BY <1>1, <3>1 DEF IdsOK
    <3> QED
      BY <3>2
  <2>2. \A t \in Coming' : t.id <= ids'
    BY <1>7 DEF IdsOK
  <2>3. \A t \in armed', u \in FiredTimers' : t.id # u.id
    BY <1>3 DEF IdsOK
  <2>4. \A t, u \in armed' : t.id = u.id => t = u
    BY DEF IdsOK
  <2> QED
    BY <2>1, <2>2, <2>3, <2>4 DEF IdsOK
<1> QED
  BY <1>1, <1>3, <1>6, <1>7, <1>8, ComingFacts

(* Timers are cancelled, or the queue is emptied. *)
LEMMA Removed ==
  ASSUME TypesOK, IdsOK, armed' \subseteq armed, fired' = fired \/ fired' = <<>>,
         UNCHANGED ids
  PROVE  /\ Coming' \subseteq Coming /\ FiredTimers' \subseteq FiredTimers /\ IdsOK'
         /\ fired' \in Seq(Timers) /\ armed' \subseteq Timers
         /\ fired' = fired => \A t \in Coming : t \in armed => t \in armed' \/ t \notin Coming'
         /\ fired' = fired => \A t \in Coming : t \notin armed => t \in Coming'
<1>1. fired' = <<>> => 1..Len(fired') = {}
  <2>1. Len(<<>>) = 0
    BY EmptySeq
  <2> QED
    BY <2>1
<1>2. FiredTimers' \subseteq FiredTimers
  BY <1>1 DEF FiredTimers
<1>3. Coming = armed \cup FiredTimers /\ Coming' = armed' \cup FiredTimers'
  BY DEF Coming, FiredTimers
<1>4. IdsOK'
  <2>1. \A i, j \in 1..Len(fired') : fired'[i].id = fired'[j].id => i = j
    BY <1>1 DEF IdsOK
  <2>2. \A t \in Coming' : t.id <= ids'
    BY <1>2, <1>3 DEF IdsOK
  <2> QED
    BY <1>2, <2>1, <2>2 DEF IdsOK
<1>5. fired' \in Seq(Timers)
  BY EmptySeq DEF TypesOK
<1>6. fired' = fired => FiredTimers' = FiredTimers
  BY DEF FiredTimers
<1>7. \A t \in armed, u \in FiredTimers : t # u
  BY DEF IdsOK
<1> QED
  BY <1>2, <1>3, <1>4, <1>5, <1>6, <1>7 DEF TypesOK

(* A timer fires. *)
LEMMA Fired ==
  ASSUME TypesOK, IdsOK, NEW t \in armed, TimerFires(t)
  PROVE  /\ IdsOK' /\ fired' \in Seq(Timers) /\ armed' \subseteq Timers
         /\ Coming' \subseteq Coming /\ (main # "closed" => Coming' = Coming)
         /\ FiredTimers' \subseteq FiredTimers \cup {t} /\ t.expire <= now
<1>1. /\ armed' = armed \ {t} /\ UNCHANGED ids /\ t.expire <= now /\ t \in Timers
      /\ fired' = IF main = "closed" THEN fired ELSE Append(fired, t)
      /\ fired \in Seq(Timers)
  BY DEF TimerFires, TypesOK
<1>2. CASE main = "closed"
  <2>1. fired' = fired /\ armed' \subseteq armed
    BY <1>1, <1>2
  <2> QED
    BY <1>1, <1>2, <2>1, Removed
<1>3. CASE main # "closed"
  <2>1. /\ fired' \in Seq(Timers) /\ Len(fired) \in Nat /\ Len(fired') = Len(fired) + 1
        /\ fired'[Len(fired) + 1] = t /\ \A i \in 1..Len(fired) : fired'[i] = fired[i]
    BY <1>1, <1>3, AppendProperties, LenProperties
  <2>2. \A i \in 1..Len(fired') : i \in 1..Len(fired) \/ i = Len(fired) + 1
    BY <2>1
  <2>3. /\ Len(fired) + 1 \in 1..Len(fired') /\ \A i \in 1..Len(fired) : i \in 1..Len(fired')
    BY <2>1
  <2>4. FiredTimers' = FiredTimers \cup {t}
    <3>1. \A i \in 1..Len(fired') : fired'[i] \in {fired[j] : j \in 1..Len(fired)} \cup {t}
      BY <2>1, <2>2
    <3>2. \A j \in 1..Len(fired) : fired[j] \in {fired'[i] : i \in 1..Len(fired')}
      BY <2>1, <2>3
    <3>3. t \in {fired'[i] : i \in 1..Len(fired')}
      BY <2>1, <2>3
    <3> QED
      BY <3>1, <3>2, <3>3 DEF FiredTimers
  <2>5. Coming = armed \cup FiredTimers /\ Coming' = armed' \cup FiredTimers'
    BY DEF Coming, FiredTimers
  <2>6. Coming' = Coming
    BY <1>1, <2>4, <2>5
  <2>7. IdsOK'
    <3>1. \A j \in 1..Len(fired) : fired[j].id # t.id
      BY DEF IdsOK, FiredTimers
    <3>2. \A i, j \in 1..Len(fired') : fired'[i].id = fired'[j].id => i = j
      BY <2>1, <2>2, <3>1 DEF IdsOK
    <3>3. \A u \in armed', v \in FiredTimers' : u.id # v.id
      BY <1>1, <2>4 DEF IdsOK
    <3>4. \A u, v \in armed' : u.id = v.id => u = v
      BY <1>1 DEF IdsOK
    <3>5. \A u \in Coming' : u.id <= ids'
      BY <1>1, <2>6 DEF IdsOK
    <3> QED
      BY <3>2, <3>3, <3>4, <3>5 DEF IdsOK
  <2> QED
    BY <1>1, <2>1, <2>4, <2>6, <2>7 DEF TypesOK
<1> QED
  BY <1>2, <1>3

-----------------------------------------------------------------------------
(***************************************************************************)
(* The steps, one part of the invariant after the other.                   *)
(***************************************************************************)
(* No step changes the setting. *)
LEMMA SettingKept ==
  ASSUME Next
  PROVE  /\ UNCHANGED setting /\ Timers' = Timers /\ Schedules' = Schedules
         /\ Periods' = Periods /\ Duration' = Duration
<1>1. UNCHANGED setting
  BY DEF Next, InstallSchedule, WithdrawTimers, PlanNextTx, Arm, NoteTimer, TxWakeup,
         TransmitSlot, CompleteReceive, PeriodicEvent, Upstream, Start, StartFails,
         StartPlans, StartArms, StartNotes, Started, StartPeriodic, Stop, CancelTimers,
         CloseQueue, TimerFires, Tick
<1> QED
  BY <1>1 DEF Timers, TimerKinds, Schedules, Periods, Duration

(* A transmit wakeup that is planned is for a later slot. *)
LEMMA TxTimerFacts ==
  ASSUME TypesOK, CanPlan, NEW afresh \in BOOLEAN
  PROVE  /\ TxTimer(PlannedSlot(afresh)) \in Timers
         /\ TxTimer(PlannedSlot(afresh)).kind = "tx"
         /\ TxTimer(PlannedSlot(afresh)).data > AbsoluteSlot(now)
         /\ NotEarly(TxTimer(PlannedSlot(afresh)))
<1> DEFINE n == PlannedSlot(afresh)
<1>1. n \in Nat /\ n > AbsoluteSlot(now)
  BY PlannedLater
<1> HIDE DEF n
<1>2. SlotStart(n) \in Nat
  BY <1>1, SettingFacts DEF SlotStart
<1>3. /\ TxTimer(n) \in Timers /\ TxTimer(n).kind = "tx" /\ TxTimer(n).data = n
      /\ TxTimer(n).expire = SlotStart(n)
  BY <1>1, <1>2 DEF TxTimer, Timers, TimerKinds
<1>4. NotEarly(TxTimer(n))
  BY <1>2, <1>3 DEF NotEarly
<1> QED
  BY <1>1, <1>3, <1>4 DEF n

(* A periodic timer is of no other kind. *)
LEMMA PeriodicTimerFacts ==
  ASSUME TypesOK, NEW k \in DOMAIN Periods
  PROVE  /\ PeriodicTimer(k) \in Timers /\ PeriodicTimer(k).kind = k
         /\ k \notin {"tx", "rx"} /\ NotEarly(PeriodicTimer(k))
<1>1. now + Periods[k] \in Nat /\ k \notin {"tx", "rx"}
  BY SettingFacts, SMTT(30) DEF TypesOK
<1>2. PeriodicTimer(k) \in Timers /\ PeriodicTimer(k).kind = k
  BY <1>1 DEF PeriodicTimer, Timers, TimerKinds
<1> QED
  BY <1>1, <1>2 DEF NotEarly

(* The types. *)
LEMMA TypesKept ==
  ASSUME IInv, Next
  PROVE  TypesOK'
<1> USE SettingKept
<1>0. TypesOK /\ IdsOK /\ PlacesOK /\ LateOK
  BY DEF IInv
<1>1. CASE \E s \in Schedules, full \in BOOLEAN : InstallSchedule(s, full)
  BY <1>0, <1>1 DEF InstallSchedule, TypesOK, call, timing, history
<1>2. CASE WithdrawTimers
  <2>1. armed' \subseteq Timers
    BY <1>0, <1>2 DEF WithdrawTimers, TypesOK
  <2> QED
    BY <1>0, <1>2, <2>1 DEF WithdrawTimers, TypesOK, history
<1>3. CASE PlanNextTx \/ Start \/ StartPlans \/ Started
  BY <1>0, <1>3 DEF PlanNextTx, Start, StartPlans, Started, TypesOK, call, timing, history
<1>4. CASE Arm
  <2>1. event \in Timers /\ Schedule(event) /\ UNCHANGED <<setting, fired>>
    BY <1>0, <1>4 DEF Arm, PlacesOK
  <2>2. armed' \subseteq Timers /\ ids' = ids + 1
    BY <1>0, <2>1, Scheduled
  <2> QED
    BY <1>0, <1>4, <2>2 DEF Arm, TypesOK, history
<1>5. CASE NoteTimer
  <2>1. event.data \in Nat /\ next_tx_slot' \in {event.data, next_tx_slot}
    BY <1>0, <1>5, ComingFacts DEF NoteTimer, Note, PlacesOK
  <2> QED
    BY <1>0, <1>5, <2>1 DEF NoteTimer, TypesOK, call, timing, history
<1>6. CASE TxWakeup
  <2>1. fired' \in Seq(Timers)
    BY <1>0, <1>6, Taken DEF TxWakeup, Take
  <2>2. next_tx_slot' \in {next_tx_slot, NoSlot} /\ raced' \in BOOLEAN
    BY <1>0, <1>6 DEF TxWakeup, TypesOK
  <2> QED
    BY <1>0, <1>6, <2>1, <2>2 DEF TxWakeup, TypesOK
<1>7. CASE TransmitSlot
  <2>1. slot \in Nat /\ late = 0 /\ sent \in Seq(Nat)
    BY <1>0, <1>7 DEF TransmitSlot, PlacesOK, LateOK, TypesOK
  <2>2. sent' \in Seq(Nat) /\ late' \in {0, 1}
    <3>1. sent' \in {sent, Append(sent, slot)} /\ late' \in {late, late + 1}
      BY <1>7 DEF TransmitSlot
    <3>2. Append(sent, slot) \in Seq(Nat)
      BY <2>1, AppendProperties
    <3> QED
      BY <2>1, <3>1, <3>2
  <2> QED
    BY <1>0, <1>7, <2>2 DEF TransmitSlot, TypesOK, timing
<1>8. CASE CompleteReceive
  <2>1. fired' \in Seq(Timers)
    BY <1>0, <1>8, Taken DEF CompleteReceive, Take
  <2>2. pending_rx' \subseteq pending_rx /\ received' \subseteq received \cup pending_rx
    BY <1>8 DEF CompleteReceive
  <2> QED
    BY <1>0, <1>8, <2>1, <2>2 DEF CompleteReceive, TypesOK, call
<1>9. CASE \E kind \in DOMAIN Periods : PeriodicEvent(kind)
  <2>1. fired' \in Seq(Timers)
    BY <1>0, <1>9, Taken DEF PeriodicEvent, Take
  <2> QED
    BY <1>0, <1>9, <2>1 DEF PeriodicEvent, TypesOK, history
<1>10. CASE \E frame \in Frames : Upstream(frame)
  <2> PICK frame \in Frames : Upstream(frame)
    BY <1>10
  <2>1. Reception(frame).slot \in Nat /\ Reception(frame).start \in Nat
    BY DEF Frames, Reception
  <2>2. /\ pending_rx' \subseteq pending_rx \cup {Reception(frame)}
        /\ heard' = heard \cup {Reception(frame)}
    BY DEF Upstream
  <2> QED
    BY <1>0, <2>1, <2>2 DEF Upstream, TypesOK, timing
<1>11. CASE StartArms
  <2>1. plan \in Timers /\ Schedule(plan) /\ UNCHANGED <<setting, fired>>
    BY <1>0, <1>11 DEF StartArms, PlacesOK
  <2>2. armed' \subseteq Timers /\ ids' = ids + 1
    BY <1>0, <2>1, Scheduled
  <2> QED
    BY <1>0, <1>11, <2>2 DEF StartArms, TypesOK, call, history
<1>12. CASE StartNotes
  <2>1. plan.data \in Nat /\ next_tx_slot' \in {plan.data, next_tx_slot}
    BY <1>0, <1>12, ComingFacts DEF StartNotes, Note, PlacesOK
  <2> QED
    BY <1>0, <1>12, <2>1 DEF StartNotes, TypesOK, call, timing, history
<1>13. CASE \E kind \in todo : StartPeriodic(kind)
  <2> PICK kind \in todo : StartPeriodic(kind)
    BY <1>13
  <2>1. PeriodicTimer(kind) \in Timers /\ Schedule(PeriodicTimer(kind))
        /\ UNCHANGED <<setting, fired>>
    BY <1>0, PeriodicTimerFacts DEF StartPeriodic, PlacesOK
  <2>2. armed' \subseteq Timers /\ ids' = ids + 1
    BY <1>0, <2>1, Scheduled
  <2> QED
    BY <1>0, <2>2 DEF StartPeriodic, TypesOK, call, history
<1>14. CASE StartFails \/ CloseQueue \/ CancelTimers
  <2>1. armed' \subseteq armed /\ fired' \in {fired, <<>>} /\ UNCHANGED ids
    BY <1>14 DEF StartFails, CloseQueue, CancelTimers
  <2>2. armed' \subseteq Timers /\ fired' \in Seq(Timers)
    BY <1>0, <2>1, Removed
  <2> QED
    BY <1>0, <1>14, <2>2 DEF StartFails, CloseQueue, CancelTimers, TypesOK, call, history
<1>15. CASE Stop
  BY <1>0, <1>15 DEF Stop, TypesOK, call, timing, history
<1>16. CASE \E t \in armed : TimerFires(t)
  <2>1. armed' \subseteq Timers /\ fired' \in Seq(Timers)
    BY <1>0, <1>16, Fired
  <2> QED
    BY <1>0, <1>16, <2>1 DEF TimerFires, TypesOK, call, history
<1>17. CASE Tick
  BY <1>0, <1>17 DEF Tick, TypesOK, call, timing, history
<1> QED
  BY <1>1, <1>2, <1>3, <1>4, <1>5, <1>6, <1>7, <1>8, <1>9, <1>10, <1>11, <1>12, <1>13,
     <1>14, <1>15, <1>16, <1>17 DEF Next

(* Where the two threads are. *)
LEMMA PlacesKept ==
  ASSUME IInv, Next
  PROVE  PlacesOK'
<1> USE SettingKept DEF PlacesOK, Up, EventTx
<1>0. TypesOK /\ PlacesOK
  BY DEF IInv
<1>a. "tx" \notin todo /\ "rx" \notin todo
  BY <1>0, SettingFacts
<1>1. CASE \E s \in Schedules, full \in BOOLEAN : InstallSchedule(s, full)
  BY <1>0, <1>1 DEF InstallSchedule, lifecycle
<1>2. CASE WithdrawTimers
  BY <1>0, <1>2 DEF WithdrawTimers, lifecycle
<1>3. CASE PlanNextTx
  <2>1. CanPlan => \A afresh \in BOOLEAN : /\ TxTimer(PlannedSlot(afresh)) \in Timers
                                          /\ TxTimer(PlannedSlot(afresh)).kind = "tx"
    BY <1>0, TxTimerFacts
  <2>2. CASE CanPlan
    <3>1. event' \in Timers /\ event'.kind = "tx"
      BY <1>3, <2>1, <2>2 DEF PlanNextTx, IInv, TypesOK
    <3>2. main # "new"
      BY <1>0, <2>2 DEF CanPlan
    <3> QED
      BY <1>0, <1>3, <1>a, <2>2, <3>1, <3>2 DEF PlanNextTx, lifecycle
  <2>3. CASE ~CanPlan
    BY <1>0, <1>3, <2>3 DEF PlanNextTx, lifecycle
  <2> QED
    BY <2>2, <2>3
<1>4. CASE Arm
  <2>1. event \in Timers /\ event' = [event EXCEPT !.id = ids + 1] /\ ids + 1 \in Nat
    BY <1>0, <1>4 DEF Arm, TypesOK
  <2>2. event' \in Timers /\ event'.kind = event.kind
    BY <2>1 DEF Timers
  <2> QED
    BY <1>0, <1>4, <2>2 DEF Arm, lifecycle
<1>5. CASE NoteTimer
  BY <1>0, <1>5 DEF NoteTimer, Note, lifecycle
<1>6. CASE TxWakeup
  <2>1. Head(fired).data \in Nat
    <3>1. Head(fired) \in Timers
      BY <1>6, Taken DEF TxWakeup, Take, IInv
    <3> QED
      BY <1>0, <3>1, ComingFacts
  <2>2. Head(fired).data # NoSlot
    BY <2>1 DEF NoSlot
  <2> QED
    BY <1>0, <1>6, <2>1, <2>2 DEF TxWakeup, Take, lifecycle
<1>7. CASE TransmitSlot
  BY <1>0, <1>7 DEF TransmitSlot, lifecycle
<1>8. CASE CompleteReceive
  BY <1>0, <1>8 DEF CompleteReceive, lifecycle, call
<1>9. CASE \E kind \in DOMAIN Periods : PeriodicEvent(kind)
  <2> PICK kind \in DOMAIN Periods : PeriodicEvent(kind)
    BY <1>9
  <2>1. /\ PeriodicTimer(kind) \in Timers /\ PeriodicTimer(kind).kind = kind
        /\ kind \notin {"tx", "rx"}
    BY <1>0, PeriodicTimerFacts
  <2>2. /\ step = "idle" /\ step' \in {"idle", "arm"}
        /\ step' = "arm" => event' = PeriodicTimer(kind) /\ started
    BY DEF PeriodicEvent, Take
  <2>3. Head(fired) \in Coming /\ Head(fired).kind = kind
    BY Taken DEF PeriodicEvent, Take, IInv
  <2>4. Up => kind \notin todo
    BY <2>3 DEF IInv, PeriodicPromised, NoneOf
  <2>5. step' = "arm" => event' \in Timers /\ event'.kind # "tx" /\ event'.kind \notin todo
    BY <1>0, <2>1, <2>2, <2>4
  <2>6. UNCHANGED <<main, started, plan, next_tx_slot, todo, cancelling, withdrawn>>
    BY DEF PeriodicEvent, lifecycle
  <2> QED
    BY <1>0, <2>2, <2>5, <2>6
<1>10. CASE \E frame \in Frames : Upstream(frame)
  <2> PICK frame \in Frames : Upstream(frame)
    BY <1>10
  <2>1. step = "idle" /\ step' \in {"idle", "arm"}
        /\ (step' = "arm" => event' = [id |-> 0, kind |-> "rx", data |-> frame.slot,
                                       expire |-> SlotStart(frame.slot + 1)])
    BY <1>0 DEF Upstream
  <2>2. frame.slot \in Nat /\ SlotStart(frame.slot + 1) \in Nat
    BY <1>0, SettingFacts DEF Frames, SlotStart
  <2>3. step' = "arm" => event' \in Timers /\ event'.kind = "rx"
    BY <2>1, <2>2 DEF Timers, TimerKinds
  <2> QED
    BY <1>0, <1>a, <2>1, <2>3 DEF Upstream, lifecycle
<1>11. CASE Start
  BY <1>0, <1>11 DEF Start, call
<1>12. CASE StartFails \/ CloseQueue
  BY <1>0, <1>12 DEF StartFails, CloseQueue, call
<1>13. CASE StartPlans
  <2>1. CASE CanPlan
    <3>1. plan' \in Timers /\ plan'.kind = "tx"
      BY <1>0, <1>13, <2>1, TxTimerFacts DEF StartPlans
    <3> QED
      <4>1. /\ main = "plan" /\ main' = "arm"
            /\ UNCHANGED <<next_tx_slot, started, todo, cancelling, call>>
        BY <1>13, <2>1 DEF StartPlans
      <4> QED
        BY <1>0, <3>1, <4>1 DEF call
  <2>2. CASE ~CanPlan
    BY <1>0, <1>13, <2>2 DEF StartPlans, call
  <2> QED
    BY <2>1, <2>2
<1>14. CASE StartArms
  <2>1. plan \in Timers /\ plan' = [plan EXCEPT !.id = ids + 1] /\ ids + 1 \in Nat
    BY <1>0, <1>14 DEF StartArms, TypesOK
  <2>2. plan' \in Timers /\ plan'.kind = plan.kind
    BY <2>1 DEF Timers
  <2> QED
    BY <1>0, <1>14, <2>2 DEF StartArms, call
<1>15. CASE StartNotes
  BY <1>0, <1>15 DEF StartNotes, Note, call
<1>16. CASE \E kind \in todo : StartPeriodic(kind)
  <2> PICK kind \in todo : StartPeriodic(kind)
    BY <1>16
  <2>1. PeriodicTimer(kind) \in Timers /\ ids + 1 \in Nat
    BY <1>0, PeriodicTimerFacts DEF TypesOK
  <2>2. plan' \in Timers
    BY <2>1 DEF StartPeriodic, Timers
  <2> QED
    BY <1>0, <2>2 DEF StartPeriodic, call
<1>17. CASE Started \/ Stop
  <2>1. CASE Started
    BY <1>0, <2>1 DEF Started, call
  <2>2. CASE Stop
    <3>1. /\ main' = "cancel" /\ started' = FALSE /\ next_tx_slot' = NoSlot
          /\ UNCHANGED <<plan, todo, step, slot, event, withdrawn>>
      BY <2>2 DEF Stop, call
    <3>2. started' \in BOOLEAN /\ ~started' /\ ~Up'
      BY <3>1
    <3> QED
      BY <1>0, <3>1, <3>2
  <2> QED
    BY <1>17, <2>1, <2>2
<1>18. CASE CancelTimers
  BY <1>0, <1>18 DEF CancelTimers, call
<1>19. CASE \E t \in armed : TimerFires(t)
  BY <1>0, <1>19 DEF TimerFires, lifecycle, call
<1>20. CASE Tick
  BY <1>0, <1>20 DEF Tick, lifecycle, call
<1> QED
  BY <1>1, <1>2, <1>3, <1>4, <1>5, <1>6, <1>7, <1>8, <1>9, <1>10, <1>11, <1>12, <1>13,
     <1>14, <1>15, <1>16, <1>17, <1>18, <1>19, <1>20 DEF Next

(* Steps that leave the timer service and the queue alone. *)
LEMMA ServiceQuiet ==
  ASSUME Next, \/ \E s \in Schedules, full \in BOOLEAN : InstallSchedule(s, full)
               \/ PlanNextTx \/ NoteTimer \/ TransmitSlot
               \/ \E frame \in Frames : Upstream(frame)
               \/ Start \/ StartPlans \/ StartNotes \/ Started \/ Stop \/ Tick
  PROVE  /\ UNCHANGED <<armed, fired, ids>> /\ Coming' = Coming /\ FiredTimers' = FiredTimers
         /\ IdsOK => IdsOK'
<1>1. UNCHANGED <<armed, fired, ids>>
  BY DEF InstallSchedule, PlanNextTx, NoteTimer, TransmitSlot, Upstream, Start, StartPlans,
         StartNotes, Started, Stop, Tick, timing
<1>2. Coming' = Coming /\ FiredTimers' = FiredTimers
  BY <1>1 DEF Coming, FiredTimers
<1> QED
  BY <1>1, <1>2 DEF IdsOK

(* The ids. *)
LEMMA IdsKept ==
  ASSUME IInv, Next
  PROVE  IdsOK'
<1>0. TypesOK /\ IdsOK /\ PlacesOK
  BY DEF IInv
<1>1. CASE \/ \E s \in Schedules, full \in BOOLEAN : InstallSchedule(s, full)
           \/ PlanNextTx \/ NoteTimer \/ TransmitSlot
           \/ \E frame \in Frames : Upstream(frame)
           \/ Start \/ StartPlans \/ StartNotes \/ Started \/ Stop \/ Tick
  BY <1>0, <1>1, ServiceQuiet
<1>2. CASE Arm
  <2>1. event \in Timers /\ Schedule(event) /\ UNCHANGED <<setting, fired>>
    BY <1>0, <1>2 DEF Arm, PlacesOK
  <2> QED
    BY <1>0, <2>1, Scheduled
<1>3. CASE StartArms
  <2>1. plan \in Timers /\ Schedule(plan) /\ UNCHANGED <<setting, fired>>
    BY <1>0, <1>3 DEF StartArms, PlacesOK
  <2> QED
    BY <1>0, <2>1, Scheduled
<1>4. CASE \E kind \in todo : StartPeriodic(kind)
  <2> PICK kind \in todo : StartPeriodic(kind)
    BY <1>4
  <2>1. /\ PeriodicTimer(kind) \in Timers /\ Schedule(PeriodicTimer(kind))
        /\ UNCHANGED <<setting, fired>>
    BY <1>0, PeriodicTimerFacts DEF StartPeriodic, PlacesOK
  <2> QED
    BY <1>0, <2>1, Scheduled
<1>5. CASE TxWakeup \/ CompleteReceive \/ \E kind \in DOMAIN Periods : PeriodicEvent(kind)
  <2>1. fired # <<>> /\ fired' = Tail(fired) /\ UNCHANGED <<armed, ids>>
    BY <1>5 DEF TxWakeup, CompleteReceive, PeriodicEvent, Take
  <2> QED
    BY <1>0, <2>1, Taken
<1>6. CASE WithdrawTimers \/ StartFails \/ CloseQueue \/ CancelTimers
  <2>1. armed' \subseteq armed /\ (fired' = fired \/ fired' = <<>>) /\ UNCHANGED ids
    BY <1>6 DEF WithdrawTimers, StartFails, CloseQueue, CancelTimers
  <2> QED
    BY <1>0, <2>1, Removed
<1>7. CASE \E t \in armed : TimerFires(t)
  BY <1>0, <1>7, Fired
<1> QED
  BY <1>1, <1>2, <1>3, <1>4, <1>5, <1>6, <1>7 DEF Next

(* Nothing is noted, armed or planned anew. *)
LEMMA NotedFewer ==
  ASSUME NotedOK, Coming' \subseteq Coming, UNCHANGED ids,
         timers' \cup withdrawn' \subseteq timers \cup withdrawn,
         \A r \in withdrawn' : r.kind = "tx",
         step' = "note" => step = "note" /\ event' = event,
         main' = "note" => main = "note" /\ plan' = plan
  PROVE  NotedOK'
<1>1. \A r \in timers' \cup withdrawn' :
        r.id <= ids' /\ r.id \in Nat /\ Agrees(Coming', r.id, r.kind)
  BY DEF NotedOK, Agrees
<1>2. step' = "note" =>
        event'.id <= ids' /\ Agrees(Coming', event'.id, event'.kind)
  BY DEF NotedOK, Agrees
<1>3. main' = "note" =>
         /\ plan'.id <= ids' /\ Agrees(Coming', plan'.id, plan'.kind)
         /\ \A r \in timers' \cup withdrawn' : r.id # plan'.id
         /\ step' = "note" => event'.id # plan'.id
  BY DEF NotedOK, Agrees
<1> QED
  BY <1>1, <1>2, <1>3 DEF NotedOK

(* A timer u is armed: its id is not that of anything noted. *)
LEMMA FreshId ==
  ASSUME TypesOK, IdsOK, NEW u \in Timers, u.id = ids + 1,
         Coming' = Coming \cup {u}, ids' = ids + 1
  PROVE  /\ \A n \in Nat : \A k :
              n <= ids /\ Agrees(Coming, n, k) =>
                n <= ids' /\ n # u.id /\ Agrees(Coming', n, k)
         /\ u.id <= ids' /\ u.id \in Nat /\ \A t \in Coming' : t.id = u.id => t = u
<1>1. ids \in Nat /\ u.id \in Nat
  BY DEF TypesOK
<1>2. \A n \in Nat : n <= ids => n <= ids' /\ n # u.id
  BY <1>1
<1>3. \A t \in Coming : t.id \in Nat /\ t.id <= ids
  BY ComingFacts DEF IdsOK
<1>4. \A t \in Coming : t.id # u.id
  BY <1>2, <1>3
<1>5. u.id <= ids'
  BY <1>1
<1> QED
  BY <1>1, <1>2, <1>4, <1>5 DEF Agrees

(* What is noted of the timers. *)
LEMMA NotedKept ==
  ASSUME IInv, Next
  PROVE  NotedOK'
<1>0. TypesOK /\ IdsOK /\ PlacesOK /\ NotedOK
  BY DEF IInv
<1>1. CASE \E s \in Schedules, full \in BOOLEAN : InstallSchedule(s, full)
  <2>1. Coming' = Coming /\ UNCHANGED ids
    BY <1>1, ServiceQuiet
  <2>2. /\ timers' \cup withdrawn' \subseteq timers \cup withdrawn
        /\ \A r \in withdrawn' : r.kind = "tx"
        /\ step' = "withdraw" /\ UNCHANGED <<main, plan>>
    BY <1>1 DEF InstallSchedule, lifecycle
  <2> QED
    BY <1>0, <2>1, <2>2, NotedFewer
<1>2. CASE WithdrawTimers
  <2>1. armed' \subseteq armed /\ fired' = fired /\ UNCHANGED ids
    BY <1>2 DEF WithdrawTimers
  <2>2. Coming' \subseteq Coming
    BY <1>0, <2>1, Removed
  <2>3. timers' = timers /\ withdrawn' = {} /\ step' = "plan" /\ UNCHANGED <<main, plan>>
    BY <1>2 DEF WithdrawTimers, lifecycle
  <2> QED
    BY <1>0, <2>1, <2>2, <2>3, NotedFewer
<1>3. CASE PlanNextTx \/ TransmitSlot \/ \E frame \in Frames : Upstream(frame)
  <2>1. Coming' = Coming /\ UNCHANGED ids
    BY <1>3, ServiceQuiet
  <2>2. UNCHANGED <<timers, withdrawn, main, plan>> /\ step' # "note"
    BY <1>3 DEF PlanNextTx, TransmitSlot, Upstream, lifecycle
  <2> QED
    BY <1>0, <2>1, <2>2, NotedFewer DEF NotedOK
<1>4. CASE Arm
  <2>1. event \in Timers /\ Schedule(event) /\ UNCHANGED <<setting, fired>>
    BY <1>0, <1>4 DEF Arm, PlacesOK
  <2>2. PICK u \in Timers : /\ u.kind = event.kind /\ u.id = ids + 1
                            /\ ids' = ids + 1 /\ Coming' = Coming \cup {u}
    BY <1>0, <2>1, Scheduled
  <2>3. /\ \A n \in Nat : \A k :
             n <= ids /\ Agrees(Coming, n, k) =>
               n <= ids' /\ n # u.id /\ Agrees(Coming', n, k)
        /\ u.id <= ids' /\ \A t \in Coming' : t.id = u.id => t = u
    BY <1>0, <2>2, FreshId
  <2>4. /\ UNCHANGED <<timers, withdrawn, main, plan>> /\ step' = "note"
        /\ event'.id = u.id /\ event'.kind = u.kind
    BY <1>4, <2>1, <2>2 DEF Arm, lifecycle, Timers
  <2>5. main = "note" => plan.id \in Nat
    BY <1>0, ComingFacts DEF PlacesOK
  <2>6. \A r \in timers' \cup withdrawn' :
          r.id <= ids' /\ r.id \in Nat /\ Agrees(Coming', r.id, r.kind)
    BY <1>0, <2>3, <2>4 DEF NotedOK
  <2>7. event'.id <= ids' /\ Agrees(Coming', event'.id, event'.kind)
    BY <2>3, <2>4 DEF Agrees
  <2>8. main' = "note" =>
          /\ plan'.id <= ids' /\ Agrees(Coming', plan'.id, plan'.kind)
          /\ event'.id # plan'.id
    BY <1>0, <2>3, <2>4, <2>5 DEF NotedOK
  <2> QED
    BY <1>0, <2>4, <2>6, <2>7, <2>8 DEF NotedOK
<1>5. CASE NoteTimer
  <2>1. Coming' = Coming /\ UNCHANGED ids
    BY <1>5, ServiceQuiet
  <2>2. /\ timers' = timers \cup {[id |-> event.id, kind |-> event.kind]}
        /\ UNCHANGED <<withdrawn, main, plan>> /\ step = "note" /\ step' = "idle"
    BY <1>5 DEF NoteTimer, Note, lifecycle
  <2>3. event.id \in Nat
    BY <1>0, <2>2, ComingFacts DEF PlacesOK
  <2> QED
    BY <1>0, <2>1, <2>2, <2>3 DEF NotedOK
<1>6. CASE TxWakeup \/ CompleteReceive \/ \E kind \in DOMAIN Periods : PeriodicEvent(kind)
  <2>1. fired # <<>> /\ fired' = Tail(fired) /\ UNCHANGED <<armed, ids>> /\ step = "idle"
    BY <1>6 DEF TxWakeup, CompleteReceive, PeriodicEvent, Take
  <2>2. Coming' \subseteq Coming
    BY <1>0, <2>1, Taken
  <2>3. timers' \subseteq timers /\ UNCHANGED <<withdrawn, main, plan>> /\ step' # "note"
    BY <1>6, <2>1 DEF TxWakeup, CompleteReceive, PeriodicEvent, Take, lifecycle, call
  <2> QED
    BY <1>0, <2>1, <2>2, <2>3, NotedFewer DEF NotedOK
<1>7. CASE Start \/ StartPlans \/ Started \/ Stop \/ Tick
  <2>1. Coming' = Coming /\ UNCHANGED ids
    BY <1>7, ServiceQuiet
  <2>2. /\ timers' \subseteq timers /\ UNCHANGED <<withdrawn, step, event>>
        /\ main' = "note" => UNCHANGED <<main, plan>>
    BY <1>7 DEF Start, StartPlans, Started, Stop, Tick, call, lifecycle
  <2> QED
    BY <1>0, <2>1, <2>2, NotedFewer DEF NotedOK
<1>8. CASE StartArms \/ \E kind \in todo : StartPeriodic(kind)
  <2>1. PICK t \in Timers : /\ Schedule(t) /\ UNCHANGED <<setting, fired>>
                            /\ plan' = [t EXCEPT !.id = ids + 1]
    <3>1. CASE StartArms
      <4>1. plan \in Timers
        BY <1>0, <3>1 DEF StartArms, PlacesOK
      <4> QED
        BY <3>1, <4>1 DEF StartArms
    <3>2. CASE \E kind \in todo : StartPeriodic(kind)
      <4> PICK kind \in todo : StartPeriodic(kind)
        BY <3>2
      <4>1. PeriodicTimer(kind) \in Timers
        BY <1>0, PeriodicTimerFacts DEF PlacesOK
      <4> QED
        BY <4>1 DEF StartPeriodic
    <3> QED
      BY <1>8, <3>1, <3>2
  <2>2. PICK u \in Timers : /\ u.kind = t.kind /\ u.id = ids + 1
                            /\ ids' = ids + 1 /\ Coming' = Coming \cup {u}
    BY <1>0, <2>1, Scheduled
  <2>3. /\ \A n \in Nat : \A k :
             n <= ids /\ Agrees(Coming, n, k) =>
               n <= ids' /\ n # u.id /\ Agrees(Coming', n, k)
        /\ u.id <= ids' /\ \A v \in Coming' : v.id = u.id => v = u
    BY <1>0, <2>2, FreshId
  <2>4. UNCHANGED <<timers, withdrawn, step, event>> /\ main' = "note"
    BY <1>8 DEF StartArms, StartPeriodic, call
  <2>5. plan'.id = u.id /\ plan'.kind = u.kind
    BY <2>1, <2>2 DEF Timers
  <2>6. step = "note" => event.id \in Nat
    BY <1>0, ComingFacts DEF PlacesOK
  <2>7. \A r \in timers' \cup withdrawn' :
          /\ r.id <= ids' /\ r.id \in Nat /\ Agrees(Coming', r.id, r.kind)
          /\ r.id # u.id
    BY <1>0, <2>3, <2>4 DEF NotedOK
  <2>8. step' = "note" =>
          /\ event'.id <= ids' /\ Agrees(Coming', event'.id, event'.kind)
          /\ event'.id # u.id
    BY <1>0, <2>3, <2>4, <2>6 DEF NotedOK
  <2>9. plan'.id <= ids' /\ Agrees(Coming', plan'.id, plan'.kind)
    BY <2>3, <2>5 DEF Agrees
  <2> QED
    BY <1>0, <2>4, <2>5, <2>7, <2>8, <2>9 DEF NotedOK
<1>9. CASE StartNotes
  <2>1. Coming' = Coming /\ UNCHANGED ids
    BY <1>9, ServiceQuiet
  <2>2. /\ timers' = timers \cup {[id |-> plan.id, kind |-> plan.kind]}
        /\ UNCHANGED <<withdrawn, step, event>> /\ main = "note" /\ main' = "periodic"
    BY <1>9 DEF StartNotes, Note, call
  <2>3. plan.id \in Nat
    BY <1>0, <2>2, ComingFacts DEF PlacesOK
  <2> QED
    BY <1>0, <2>1, <2>2, <2>3 DEF NotedOK
<1>10. CASE StartFails \/ CloseQueue \/ CancelTimers
  <2>1. /\ armed' \subseteq armed /\ (fired' = fired \/ fired' = <<>>) /\ UNCHANGED ids
        /\ UNCHANGED <<timers, withdrawn, step, event>> /\ main' # "note"
    BY <1>10 DEF StartFails, CloseQueue, CancelTimers, call
  <2>2. Coming' \subseteq Coming
    BY <1>0, <2>1, Removed
  <2> QED
    BY <1>0, <2>1, <2>2, NotedFewer DEF NotedOK
<1>11. CASE \E t \in armed : TimerFires(t)
  <2>1. Coming' \subseteq Coming
    BY <1>0, <1>11, Fired
  <2>2. UNCHANGED <<ids, timers, withdrawn, step, event, main, plan>>
    BY <1>11 DEF TimerFires, lifecycle, call
  <2> QED
    BY <1>0, <2>1, <2>2, NotedFewer DEF NotedOK
<1> QED
  BY <1>1, <1>2, <1>3, <1>4, <1>5, <1>6, <1>7, <1>8, <1>9, <1>10, <1>11 DEF Next

(* The worker arms its timer. *)
LEMMA ArmFacts ==
  ASSUME IInv, Arm
  PROVE  \E u \in Timers :
           /\ u.kind = event.kind /\ u.data = event.data /\ NotEarly(u)
           /\ event'.id = u.id /\ event'.kind = u.kind /\ event'.data = u.data
           /\ Coming' = Coming \cup {u} /\ FiredTimers' = FiredTimers
<1>1. /\ event \in Timers /\ Schedule(event) /\ UNCHANGED <<setting, fired>>
      /\ event' = [event EXCEPT !.id = ids + 1] /\ NotEarly(event)
  BY DEF Arm, IInv, PlacesOK, TimesOK
<1>2. TypesOK /\ IdsOK
  BY DEF IInv
<1>3. PICK u \in Timers : /\ u.kind = event.kind /\ u.data = event.data /\ u.id = ids + 1
                          /\ NotEarly(event) => NotEarly(u)
                          /\ Coming' = Coming \cup {u}
  BY <1>1, <1>2, Scheduled
<1>4. event'.id = u.id /\ event'.kind = u.kind /\ event'.data = u.data
  BY <1>1, <1>3 DEF Timers
<1> QED
  BY <1>1, <1>3, <1>4 DEF FiredTimers

(* start arms its transmit wakeup or a periodic timer. *)
LEMMA StartArmFacts ==
  ASSUME IInv, StartArms \/ \E kind \in todo : StartPeriodic(kind)
  PROVE  \E u \in Timers :
           /\ plan'.id = u.id /\ plan'.kind = u.kind /\ plan'.data = u.data /\ NotEarly(u)
           /\ Coming' = Coming \cup {u} /\ FiredTimers' = FiredTimers /\ main' = "note"
           /\ \/ /\ main = "arm" /\ plan.kind = "tx" /\ u.kind = "tx" /\ u.data = plan.data
                 /\ todo' = todo
              \/ /\ main = "periodic" /\ u.kind \in todo /\ todo' = todo \ {u.kind}
                 /\ u.kind \notin {"tx", "rx"}
<1>0. TypesOK /\ IdsOK
  BY DEF IInv
<1>1. CASE StartArms
  <2>1. /\ plan \in Timers /\ Schedule(plan) /\ UNCHANGED <<setting, fired, todo>>
        /\ plan' = [plan EXCEPT !.id = ids + 1] /\ NotEarly(plan) /\ plan.kind = "tx"
        /\ main = "arm" /\ main' = "note"
    BY <1>1 DEF StartArms, IInv, PlacesOK, TimesOK
  <2>2. PICK u \in Timers : /\ u.kind = plan.kind /\ u.data = plan.data /\ u.id = ids + 1
                            /\ NotEarly(plan) => NotEarly(u)
                            /\ Coming' = Coming \cup {u}
    BY <1>0, <2>1, Scheduled
  <2>3. plan'.id = u.id /\ plan'.kind = u.kind /\ plan'.data = u.data
    BY <2>1, <2>2 DEF Timers
  <2> QED
    BY <2>1, <2>2, <2>3 DEF FiredTimers
<1>2. CASE \E kind \in todo : StartPeriodic(kind)
  <2> PICK kind \in todo : StartPeriodic(kind)
    BY <1>2
  <2> DEFINE t == PeriodicTimer(kind)
  <2>1. t \in Timers /\ t.kind = kind /\ kind \notin {"tx", "rx"} /\ NotEarly(t)
    BY <1>0, PeriodicTimerFacts DEF IInv, PlacesOK
  <2>2. /\ Schedule(t) /\ UNCHANGED <<setting, fired>> /\ plan' = [t EXCEPT !.id = ids + 1]
        /\ main = "periodic" /\ main' = "note" /\ todo' = todo \ {kind}
    BY DEF StartPeriodic
  <2> HIDE DEF t
  <2>3. PICK u \in Timers : /\ u.kind = t.kind /\ u.data = t.data /\ u.id = ids + 1
                            /\ NotEarly(t) => NotEarly(u)
                            /\ Coming' = Coming \cup {u}
    BY <1>0, <2>1, <2>2, Scheduled
  <2>4. plan'.id = u.id /\ plan'.kind = u.kind /\ plan'.data = u.data
    BY <2>1, <2>2, <2>3 DEF Timers
  <2> QED
    BY <2>1, <2>2, <2>3, <2>4 DEF FiredTimers
<1> QED
  BY <1>1, <1>2

(* A timed event is taken from the queue. *)
LEMMA TakeFacts ==
  ASSUME IInv,
         TxWakeup \/ CompleteReceive \/ \E kind \in DOMAIN Periods : PeriodicEvent(kind)
  PROVE  /\ Head(fired) \in Coming /\ Head(fired) \in FiredTimers /\ Head(fired) \in Timers
         /\ Coming' = Coming \ {Head(fired)} /\ FiredTimers' \subseteq FiredTimers
         /\ step = "idle" /\ main # "closed"
<1>1. /\ fired # <<>> /\ fired' = Tail(fired) /\ UNCHANGED <<armed, ids>> /\ step = "idle"
      /\ main # "closed"
  BY DEF TxWakeup, CompleteReceive, PeriodicEvent, Take
<1> QED
  BY <1>1, Taken DEF IInv

(* Timers of a superseded schedule are withdrawn: transmit wakeups that    *)
(* were noted.                                                             *)
LEMMA WithdrawFacts ==
  ASSUME IInv, WithdrawTimers
  PROVE  /\ Coming' \subseteq Coming /\ FiredTimers' \subseteq FiredTimers
         /\ \A t \in Coming : t.kind # "tx" \/ (main = "note" /\ t.id = plan.id) => t \in Coming'
<1>1. /\ armed' = {t \in armed : \A w \in withdrawn : w.id # t.id}
      /\ UNCHANGED <<fired, ids>>
  BY DEF WithdrawTimers
<1>2. /\ Coming' \subseteq Coming /\ FiredTimers' \subseteq FiredTimers
      /\ \A t \in Coming : t \notin armed => t \in Coming'
  BY <1>1, Removed DEF IInv
<1>3. \A t \in armed' : t \in Coming'
  BY DEF Coming
<1>4. \A t \in Coming : \A w \in withdrawn :
        t.kind # "tx" \/ (main = "note" /\ t.id = plan.id) => w.id # t.id
  BY DEF IInv, NotedOK, Agrees
<1> QED
  BY <1>1, <1>2, <1>3, <1>4

(* A timer that fired is for a slot that has begun, or is over. *)
LEMMA FiredSlot ==
  ASSUME TypesOK, TimesOK, NEW t \in FiredTimers
  PROVE  /\ t.kind = "tx" => t.data <= AbsoluteSlot(now)
         /\ t.kind = "rx" => t.data + 1 <= AbsoluteSlot(now)
<1>1. t \in Coming /\ t.data \in Nat /\ t.expire \in Nat /\ now \in Nat
  BY ComingFacts DEF TypesOK
<1>2. Duration \in Nat \ {0}
  BY SettingFacts
<1>3. t.expire <= now /\ NotEarly(t)
  BY <1>1 DEF TimesOK
<1>4. ASSUME t.kind = "tx"
      PROVE  t.data <= AbsoluteSlot(now)
  <2>1. t.data * Duration <= t.expire /\ t.data * Duration \in Nat
    BY <1>1, <1>2, <1>3, <1>4 DEF NotEarly, SlotStart
  <2>2. t.data * Duration <= now
    BY <1>1, <1>3, <2>1
  <2> QED
    BY <1>1, <1>2, <2>2, SlotOfTime DEF AbsoluteSlot
<1>5. ASSUME t.kind = "rx"
      PROVE  t.data + 1 <= AbsoluteSlot(now)
  <2> DEFINE n == t.data + 1
  <2>0. n \in Nat
    BY <1>1
  <2>1. n * Duration <= t.expire
    BY <1>3, <1>5 DEF NotEarly, SlotStart
  <2> HIDE DEF n
  <2>2. n * Duration \in Nat
    BY <1>2, <2>0
  <2>3. n * Duration <= now
    BY <1>1, <1>3, <2>1, <2>2
  <2>4. n <= AbsoluteSlot(now)
    BY <1>1, <1>2, <2>0, <2>3, SlotOfTime DEF AbsoluteSlot
  <2> QED
    BY <2>4 DEF n
<1> QED
  BY <1>4, <1>5

(* The times of timers, put together again after a step. *)
LEMMA TimesTogether ==
  ASSUME UNCHANGED setting, \A t \in Coming' : NotEarly(t),
         \A t \in FiredTimers' : t.expire <= now',
         step' = "arm" => NotEarly(event'), main' = "arm" => NotEarly(plan'),
         step' = "transmit" => slot' <= AbsoluteSlot(now')
  PROVE  TimesOK'
  BY DEF TimesOK, NotEarly, SlotStart, AbsoluteSlot, Duration

(* No timer fires early, and what fired is due. *)
LEMMA TimesKept ==
  ASSUME IInv, Next
  PROVE  TimesOK'
<1> USE SettingKept
<1>0. TypesOK /\ TimesOK /\ PlacesOK
  BY DEF IInv
<1>1. CASE (\E s \in Schedules, full \in BOOLEAN : InstallSchedule(s, full)) \/ NoteTimer
           \/ TransmitSlot
  <2>1. Coming' = Coming /\ FiredTimers' = FiredTimers
    BY <1>1, ServiceQuiet
  <2>2. UNCHANGED <<now, main, plan>> /\ step' \in {"withdraw", "idle", "plan"}
    BY <1>1 DEF InstallSchedule, NoteTimer, TransmitSlot, lifecycle
  <2> QED
    BY <1>0, <2>1, <2>2, TimesTogether DEF TimesOK
<1>2. CASE WithdrawTimers
  <2>1. Coming' \subseteq Coming /\ FiredTimers' \subseteq FiredTimers
    BY <1>2, WithdrawFacts
  <2>2. UNCHANGED <<now, main, plan>> /\ step' = "plan"
    BY <1>2 DEF WithdrawTimers, lifecycle
  <2> QED
    BY <1>0, <2>1, <2>2, TimesTogether DEF TimesOK
<1>3. CASE PlanNextTx
  <2>1. Coming' = Coming /\ FiredTimers' = FiredTimers
    BY <1>3, ServiceQuiet
  <2>2. UNCHANGED <<now, main, plan>> /\ step' \in {"arm", "idle"}
    BY <1>3 DEF PlanNextTx, lifecycle
  <2>3. step' = "arm" => NotEarly(event')
    <3>1. first \in BOOLEAN
      BY <1>0 DEF TypesOK
    <3> QED
      BY <1>0, <1>3, <3>1, TxTimerFacts DEF PlanNextTx
  <2> QED
    BY <1>0, <2>1, <2>2, <2>3, TimesTogether DEF TimesOK
<1>4. CASE Arm
  <2>1. (\A t \in Coming' : NotEarly(t)) /\ FiredTimers' = FiredTimers
    BY <1>0, <1>4, ArmFacts DEF TimesOK
  <2>2. UNCHANGED <<now, main, plan>> /\ step' = "note"
    BY <1>4 DEF Arm, lifecycle
  <2> QED
    BY <1>0, <2>1, <2>2, TimesTogether DEF TimesOK
<1>5. CASE TxWakeup
  <2>1. /\ Head(fired) \in FiredTimers /\ Coming' \subseteq Coming
        /\ FiredTimers' \subseteq FiredTimers
    BY <1>5, TakeFacts
  <2>2. UNCHANGED <<now, main, plan>> /\ step' \in {"idle", "transmit"}
        /\ (step' = "transmit" => slot' = Head(fired).data) /\ Head(fired).kind = "tx"
    BY <1>5 DEF TxWakeup, Take, lifecycle
  <2>3. Head(fired).data <= AbsoluteSlot(now)
    BY <1>0, <2>1, <2>2, FiredSlot
  <2> QED
    BY <1>0, <2>1, <2>2, <2>3, TimesTogether DEF TimesOK
<1>6. CASE CompleteReceive
  <2>1. Coming' \subseteq Coming /\ FiredTimers' \subseteq FiredTimers /\ step = "idle"
    BY <1>6, TakeFacts
  <2>2. UNCHANGED <<now, main, plan, step>>
    BY <1>6 DEF CompleteReceive, lifecycle, call
  <2> QED
    BY <1>0, <2>1, <2>2, TimesTogether DEF TimesOK
<1>7. CASE \E kind \in DOMAIN Periods : PeriodicEvent(kind)
  <2> PICK kind \in DOMAIN Periods : PeriodicEvent(kind)
    BY <1>7
  <2>1. Coming' \subseteq Coming /\ FiredTimers' \subseteq FiredTimers /\ step = "idle"
    BY <1>7, TakeFacts
  <2>2. UNCHANGED <<now, main, plan>> /\ step' \in {"idle", "arm"}
        /\ (step' = "arm" => event' = PeriodicTimer(kind))
    BY <2>1 DEF PeriodicEvent, lifecycle
  <2>3. NotEarly(PeriodicTimer(kind))
    BY <1>0, PeriodicTimerFacts
  <2> QED
    BY <1>0, <2>1, <2>2, <2>3, TimesTogether DEF TimesOK
<1>8. CASE \E frame \in Frames : Upstream(frame)
  <2> PICK frame \in Frames : Upstream(frame)
    BY <1>8
  <2>1. Coming' = Coming /\ FiredTimers' = FiredTimers
    BY <1>8, ServiceQuiet
  <2>2. UNCHANGED <<now, main, plan>> /\ step' \in {"idle", "arm"}
        /\ (step' = "arm" => event' = [id |-> 0, kind |-> "rx", data |-> frame.slot,
                                       expire |-> SlotStart(frame.slot + 1)])
    BY DEF Upstream, lifecycle
  <2>3. SlotStart(frame.slot + 1) \in Nat
    BY <1>0, SettingFacts DEF Frames, SlotStart
  <2>4. step' = "arm" => NotEarly(event')
    BY <2>2, <2>3 DEF NotEarly
  <2> QED
    BY <1>0, <2>1, <2>2, <2>4, TimesTogether DEF TimesOK
<1>9. CASE Start \/ StartNotes \/ Started \/ Stop
  <2>1. Coming' = Coming /\ FiredTimers' = FiredTimers
    BY <1>9, ServiceQuiet
  <2>2. UNCHANGED <<now, step, event, slot>> /\ main' # "arm"
    BY <1>9 DEF Start, StartNotes, Started, Stop, call
  <2> QED
    BY <1>0, <2>1, <2>2, TimesTogether DEF TimesOK
<1>10. CASE StartPlans
  <2>1. Coming' = Coming /\ FiredTimers' = FiredTimers
    BY <1>10, ServiceQuiet
  <2>2. UNCHANGED <<now, step, event, slot>>
    BY <1>10 DEF StartPlans, call
  <2>3. main' = "arm" => NotEarly(plan')
    BY <1>0, <1>10, TxTimerFacts DEF StartPlans
  <2> QED
    BY <1>0, <2>1, <2>2, <2>3, TimesTogether DEF TimesOK
<1>11. CASE StartArms \/ \E kind \in todo : StartPeriodic(kind)
  <2>1. (\A t \in Coming' : NotEarly(t)) /\ FiredTimers' = FiredTimers /\ main' = "note"
    BY <1>0, <1>11, StartArmFacts DEF TimesOK
  <2>2. UNCHANGED <<now, step, event, slot>>
    BY <1>11 DEF StartArms, StartPeriodic, call
  <2> QED
    BY <1>0, <2>1, <2>2, TimesTogether DEF TimesOK
<1>12. CASE StartFails \/ CloseQueue \/ CancelTimers
  <2>1. /\ armed' \subseteq armed /\ (fired' = fired \/ fired' = <<>>) /\ UNCHANGED ids
        /\ UNCHANGED <<now, step, event, slot>> /\ main' # "arm"
    BY <1>12 DEF StartFails, CloseQueue, CancelTimers, call
  <2>2. Coming' \subseteq Coming /\ FiredTimers' \subseteq FiredTimers
    BY <2>1, Removed DEF IInv
  <2> QED
    BY <1>0, <2>1, <2>2, TimesTogether DEF TimesOK
<1>13. CASE \E t \in armed : TimerFires(t)
  <2> PICK t \in armed : TimerFires(t)
    BY <1>13
  <2>1. /\ Coming' \subseteq Coming /\ FiredTimers' \subseteq FiredTimers \cup {t}
        /\ t.expire <= now
    BY Fired DEF IInv
  <2>2. UNCHANGED <<now, step, event, slot, main, plan>>
    BY DEF TimerFires, lifecycle, call
  <2> QED
    BY <1>0, <2>1, <2>2, TimesTogether DEF TimesOK
<1>14. CASE Tick
  <2>1. Coming' = Coming /\ FiredTimers' = FiredTimers
    BY <1>14, ServiceQuiet
  <2>2. UNCHANGED <<step, event, slot, main, plan>> /\ now' = now + 1 /\ now \in Nat
    BY <1>0, <1>14 DEF Tick, lifecycle, call, TypesOK
  <2>3. \A t \in FiredTimers : t.expire <= now'
    <3>1. \A t \in FiredTimers : t.expire \in Nat /\ t.expire <= now
      BY <1>0, ComingFacts DEF TimesOK
    <3> QED
      BY <2>2, <3>1
  <2>4. step = "transmit" => slot <= AbsoluteSlot(now')
    <3>1. AbsoluteSlot(now) <= AbsoluteSlot(now') /\ AbsoluteSlot(now') \in Nat
      BY <1>0, <2>2, SettingFacts, SlotGrows, Divided DEF AbsoluteSlot
    <3>2. step = "transmit" => slot \in Nat /\ slot <= AbsoluteSlot(now)
      BY <1>0 DEF PlacesOK, TimesOK
    <3> QED
      BY <1>0, <3>1, <3>2, SettingFacts
  <2> QED
    BY <1>0, <2>1, <2>2, <2>3, <2>4, TimesTogether DEF TimesOK
<1> QED
  BY <1>1, <1>2, <1>3, <1>4, <1>5, <1>6, <1>7, <1>8, <1>9, <1>10, <1>11, <1>12, <1>13,
     <1>14 DEF Next

(* Once the layer is stopped, or its start has failed, it holds nothing.   *)
LEMMA Down ==
  ASSUME IInv,
         \/ StartFails \/ Stop \/ CancelTimers \/ CloseQueue
         \/ main = "closed" /\ \E t \in armed : TimerFires(t)
  PROVE  main' \in {"cancel", "closed"} /\ ~Up' /\ pending_rx' = {}
<1>1. main' \in {"cancel", "closed"} /\ (pending_rx' = {} \/ (~Up /\ pending_rx' = pending_rx))
  BY DEF StartFails, Stop, CancelTimers, CloseQueue, TimerFires, lifecycle, Up
<1> QED
  BY <1>1 DEF IInv, EndsPromised, Up

(* A timer that fires while the queue is open is still coming. *)
LEMMA FiresQuietly ==
  ASSUME IInv, main # "closed", \E t \in armed : TimerFires(t)
  PROVE  /\ Coming' = Coming
         /\ UNCHANGED <<now, schedule, next_tx_slot, pending_rx, lifecycle, call, history>>
<1> PICK t \in armed : TimerFires(t)
  OBVIOUS
<1>1. Coming' = Coming
  BY Fired DEF IInv
<1> QED
  BY <1>1 DEF TimerFires

(* The timers that were armed and are not noted yet. *)
LEMMA ArmedKept ==
  ASSUME IInv, Next
  PROVE  ArmedOK'
<1> USE DEF Up
<1>0. ArmedOK /\ PlacesOK
  BY DEF IInv
<1>1. CASE \/ StartFails \/ Stop \/ CancelTimers \/ CloseQueue
           \/ main = "closed" /\ \E t \in armed : TimerFires(t)
  BY <1>1, Down DEF ArmedOK
<1>2. CASE \/ \E s \in Schedules, full \in BOOLEAN : InstallSchedule(s, full)
           \/ PlanNextTx \/ NoteTimer \/ TransmitSlot
           \/ \E frame \in Frames : Upstream(frame)
  <2>1. Coming' = Coming
    BY <1>2, ServiceQuiet
  <2>2. step' # "note" /\ UNCHANGED <<main, plan, raced>>
    BY <1>2 DEF InstallSchedule, PlanNextTx, NoteTimer, TransmitSlot, Upstream, lifecycle,
                history
  <2> QED
    BY <1>0, <2>1, <2>2 DEF ArmedOK
<1>3. CASE Start \/ StartPlans \/ StartNotes \/ Started \/ Tick
  <2>1. Coming' = Coming
    BY <1>3, ServiceQuiet
  <2>2. /\ UNCHANGED <<step, event, raced>> /\ (main' = main \/ main' # "note")
        /\ (main' = main => plan' = plan) /\ (main = "new" \/ (Up' => Up))
    BY <1>3 DEF Start, StartPlans, StartNotes, Started, Tick, lifecycle, call, history
  <2> QED
    BY <1>0, <2>1, <2>2 DEF ArmedOK, PlacesOK
<1>4. CASE main # "closed" /\ \E t \in armed : TimerFires(t)
  <2>1. Coming' = Coming /\ UNCHANGED <<step, event, main, plan, raced>>
    BY <1>4, FiresQuietly DEF lifecycle, call, history
  <2> QED
    BY <1>0, <2>1 DEF ArmedOK
<1>5. CASE WithdrawTimers
  <2>1. step' = "plan" /\ UNCHANGED <<main, plan, raced>>
    BY <1>5 DEF WithdrawTimers, lifecycle, history
  <2>2. \A t \in Coming : main = "note" /\ t.id = plan.id => t \in Coming'
    BY <1>5, WithdrawFacts
  <2> QED
    BY <1>0, <2>1, <2>2 DEF ArmedOK
<1>6. CASE Arm
  <2>1. PICK u \in Timers : /\ event'.id = u.id /\ event'.kind = u.kind /\ event'.data = u.data
                            /\ Coming' = Coming \cup {u}
    BY <1>6, ArmFacts
  <2>2. UNCHANGED <<main, plan, raced>>
    BY <1>6 DEF Arm, lifecycle, history
  <2> QED
    BY <1>0, <2>1, <2>2 DEF ArmedOK
<1>7. CASE StartArms \/ \E kind \in todo : StartPeriodic(kind)
  <2>1. PICK u \in Timers : /\ plan'.id = u.id /\ plan'.kind = u.kind /\ plan'.data = u.data
                            /\ Coming' = Coming \cup {u}
    BY <1>7, StartArmFacts
  <2>2. UNCHANGED <<step, event, raced>> /\ (Up' => Up)
    BY <1>7 DEF StartArms, StartPeriodic, call, history
  <2> QED
    BY <1>0, <2>1, <2>2 DEF ArmedOK
<1>8. CASE TxWakeup
  BY <1>8 DEF TxWakeup, Take, ArmedOK, lifecycle
<1>9. CASE CompleteReceive \/ \E kind \in DOMAIN Periods : PeriodicEvent(kind)
  <2>1. Coming' = Coming \ {Head(fired)} /\ step = "idle"
    BY <1>9, TakeFacts
  <2>2. Head(fired).kind # "tx"
    BY <1>9, SettingFacts DEF IInv, CompleteReceive, PeriodicEvent, Take
  <2>3. step' # "note" /\ UNCHANGED <<main, plan, raced>>
    BY <1>9, <2>1 DEF CompleteReceive, PeriodicEvent, lifecycle, call, history
  <2> QED
    BY <1>0, <2>1, <2>2, <2>3 DEF ArmedOK
<1> QED
  BY <1>1, <1>2, <1>3, <1>4, <1>5, <1>6, <1>7, <1>8, <1>9 DEF Next

(* A step that leaves the schedule and the expected slot alone and loses   *)
(* none of what promises a wakeup.                                         *)
LEMMA WakeupSame ==
  ASSUME WakeupPromised, UNCHANGED <<schedule, next_tx_slot>>, Up' => Up, raced => raced',
         step \in {"withdraw", "plan", "transmit"} => step' \in {"withdraw", "plan", "transmit"},
         EventTx => EventTx', main = "plan" => main' = "plan", PlanTx => PlanTx',
         \A t \in Coming : t.kind = "tx" => t \in Coming'
  PROVE  WakeupPromised'
<1>1. UNCHANGED (schedule # <<>> /\ HasTx(schedule))
  BY DEF HasTx
<1> QED
  BY <1>1 DEF WakeupPromised

(* The chain of transmit wakeups. *)
LEMMA WakeupKept ==
  ASSUME IInv, Next
  PROVE  WakeupPromised'
<1> USE DEF Up
<1>0. WakeupPromised /\ PlacesOK /\ ArmedOK /\ TypesOK
  BY DEF IInv
<1>1. CASE \/ StartFails \/ Stop \/ CancelTimers \/ CloseQueue
           \/ main = "closed" /\ \E t \in armed : TimerFires(t)
  BY <1>1, Down DEF WakeupPromised
<1>2. CASE \/ \E s \in Schedules, full \in BOOLEAN : InstallSchedule(s, full)
           \/ WithdrawTimers \/ TransmitSlot
  <2>1. step' \in {"withdraw", "plan", "transmit"}
    BY <1>2 DEF InstallSchedule, WithdrawTimers, TransmitSlot
  <2> QED
    BY <2>1 DEF WakeupPromised
<1>3. CASE PlanNextTx
  <2>1. UNCHANGED <<main, started, schedule>> /\ UNCHANGED (schedule # <<>> /\ HasTx(schedule))
    BY <1>3 DEF PlanNextTx, lifecycle, HasTx
  <2>2. ASSUME CanPlan
        PROVE  EventTx'
    <3>1. first \in BOOLEAN
      BY <1>0 DEF TypesOK
    <3>2. event' = TxTimer(PlannedSlot(first)) /\ step' = "arm"
      BY <1>3, <2>2 DEF PlanNextTx
    <3> QED
      BY <1>0, <2>2, <3>1, <3>2, TxTimerFacts DEF EventTx
  <2>3. Up' /\ (schedule # <<>> /\ HasTx(schedule))' => CanPlan
    BY <1>0, <2>1 DEF CanPlan, PlacesOK
  <2> QED
    BY <2>2, <2>3 DEF WakeupPromised
<1>4. CASE Arm
  <2>1. PICK u \in Timers : u.kind = event.kind /\ event'.kind = u.kind /\ Coming' = Coming \cup {u}
    BY <1>4, ArmFacts
  <2>2. /\ step = "arm" /\ step' = "note"
        /\ UNCHANGED <<schedule, next_tx_slot, main, plan, raced>>
    BY <1>4 DEF Arm, lifecycle, history
  <2>3. (EventTx => EventTx') /\ (PlanTx => PlanTx')
    BY <2>1, <2>2 DEF EventTx, PlanTx
  <2> QED
    BY <1>0, <2>1, <2>2, <2>3, WakeupSame
<1>5. CASE NoteTimer
  <2>1. Coming' = Coming
    BY <1>5, ServiceQuiet
  <2>2. /\ step = "note" /\ UNCHANGED <<schedule, main, plan, raced>>
        /\ next_tx_slot' = IF event.kind = "tx" THEN event.data ELSE next_tx_slot
    BY <1>5 DEF NoteTimer, Note, lifecycle, history
  <2>3. CASE event.kind = "tx"
    BY <1>0, <2>1, <2>2, <2>3 DEF ArmedOK, WakeupPromised
  <2>4. CASE event.kind # "tx"
    <3>1. ~EventTx /\ (PlanTx => PlanTx')
      BY <2>2, <2>4 DEF EventTx, PlanTx
    <3> QED
      BY <1>0, <2>1, <2>2, <2>4, <3>1, WakeupSame
  <2> QED
    BY <2>3, <2>4
<1>6. CASE TxWakeup
  <2>1. Coming' = Coming \ {Head(fired)} /\ step = "idle"
    BY <1>6, TakeFacts
  <2>2. CASE Head(fired).data = next_tx_slot
    BY <1>6, <2>2 DEF TxWakeup, WakeupPromised
  <2>3. CASE Head(fired).data # next_tx_slot
    <3>1. /\ UNCHANGED <<schedule, next_tx_slot, step, event, main, plan>>
          /\ raced => raced'
      BY <1>6, <2>3 DEF TxWakeup, lifecycle
    <3>2. UNCHANGED (schedule # <<>> /\ HasTx(schedule)) /\ (PlanTx => PlanTx') /\ ~EventTx
      BY <2>1, <3>1 DEF HasTx, PlanTx, EventTx
    <3>3. \A t \in Coming : t.data = next_tx_slot => t \in Coming'
      BY <2>1, <2>3
    <3> QED
      BY <1>0, <2>1, <3>1, <3>2, <3>3 DEF WakeupPromised
  <2> QED
    BY <2>2, <2>3
<1>7. CASE CompleteReceive \/ \E kind \in DOMAIN Periods : PeriodicEvent(kind)
  <2>1. Coming' = Coming \ {Head(fired)} /\ step = "idle"
    BY <1>7, TakeFacts
  <2>2. Head(fired).kind # "tx"
    BY <1>0, <1>7, SettingFacts DEF CompleteReceive, PeriodicEvent, Take
  <2>3. UNCHANGED <<schedule, next_tx_slot, main, plan, raced>>
    BY <1>7 DEF CompleteReceive, PeriodicEvent, lifecycle, history
  <2>4. ~EventTx /\ (PlanTx => PlanTx')
    BY <2>1, <2>3 DEF EventTx, PlanTx
  <2> QED
    BY <1>0, <2>1, <2>2, <2>3, <2>4, WakeupSame
<1>8. CASE \E frame \in Frames : Upstream(frame)
  <2>1. Coming' = Coming
    BY <1>8, ServiceQuiet
  <2>2. step = "idle" /\ UNCHANGED <<schedule, next_tx_slot, main, plan, raced>>
    BY <1>8 DEF Upstream, lifecycle, history
  <2>3. ~EventTx /\ (PlanTx => PlanTx')
    BY <2>2 DEF EventTx, PlanTx
  <2> QED
    BY <1>0, <2>1, <2>2, <2>3, WakeupSame
<1>9. CASE Start
  BY <1>9 DEF Start, WakeupPromised
<1>10. CASE StartPlans
  <2>1. UNCHANGED <<started, schedule>> /\ UNCHANGED (schedule # <<>> /\ HasTx(schedule))
    BY <1>10 DEF StartPlans, HasTx
  <2>2. ASSUME CanPlan
        PROVE  PlanTx'
    BY <1>0, <1>10, <2>2, TxTimerFacts DEF StartPlans, PlanTx
  <2>3. (schedule # <<>> /\ HasTx(schedule))' => CanPlan
    BY <1>0, <1>10, <2>1 DEF CanPlan, PlacesOK, StartPlans
  <2> QED
    BY <2>2, <2>3 DEF WakeupPromised
<1>11. CASE StartArms \/ \E kind \in todo : StartPeriodic(kind)
  <2>1. PICK u \in Timers :
          /\ Coming' = Coming \cup {u} /\ main' = "note" /\ plan'.kind = u.kind
          /\ \/ main = "arm" /\ plan.kind = "tx" /\ u.kind = "tx"
             \/ main = "periodic"
    BY <1>11, StartArmFacts
  <2>2. UNCHANGED <<schedule, next_tx_slot, step, event, raced>>
    BY <1>11 DEF StartArms, StartPeriodic, call, history
  <2>3. (EventTx => EventTx') /\ (PlanTx => PlanTx') /\ Up /\ main # "plan"
    BY <2>1, <2>2 DEF EventTx, PlanTx
  <2> QED
    BY <1>0, <2>1, <2>2, <2>3, WakeupSame
<1>12. CASE StartNotes
  <2>1. Coming' = Coming
    BY <1>12, ServiceQuiet
  <2>2. /\ main = "note" /\ main' = "periodic" /\ UNCHANGED <<schedule, step, event, raced>>
        /\ next_tx_slot' = IF plan.kind = "tx" THEN plan.data ELSE next_tx_slot
    BY <1>12 DEF StartNotes, Note, call, history
  <2>3. CASE plan.kind = "tx"
    BY <1>0, <2>1, <2>2, <2>3 DEF ArmedOK, WakeupPromised
  <2>4. CASE plan.kind # "tx"
    <3>1. ~PlanTx /\ (EventTx => EventTx')
      BY <2>2, <2>4 DEF EventTx, PlanTx
    <3> QED
      BY <1>0, <2>1, <2>2, <2>4, <3>1, WakeupSame
  <2> QED
    BY <2>3, <2>4
<1>13. CASE Started \/ Tick
  <2>1. Coming' = Coming
    BY <1>13, ServiceQuiet
  <2>2. /\ UNCHANGED <<schedule, next_tx_slot, step, event, plan, raced>>
        /\ main' = main \/ (main = "periodic" /\ main' = "running")
    BY <1>13 DEF Started, Tick, lifecycle, call, history
  <2>3. (EventTx => EventTx') /\ (PlanTx => PlanTx')
    BY <2>2 DEF EventTx, PlanTx
  <2> QED
    BY <1>0, <2>1, <2>2, <2>3, WakeupSame
<1>14. CASE main # "closed" /\ \E t \in armed : TimerFires(t)
  <2>1. /\ Coming' = Coming
        /\ UNCHANGED <<schedule, next_tx_slot, step, event, main, plan, raced>>
    BY <1>14, FiresQuietly DEF lifecycle, call, history
  <2>2. (EventTx => EventTx') /\ (PlanTx => PlanTx')
    BY <2>1 DEF EventTx, PlanTx
  <2> QED
    BY <1>0, <2>1, <2>2, WakeupSame
<1> QED
  BY <1>1, <1>2, <1>3, <1>4, <1>5, <1>6, <1>7, <1>8, <1>9, <1>10, <1>11, <1>12, <1>13,
     <1>14 DEF Next

(* The ends of the slots whose receptions are held. *)
LEMMA EndsKept ==
  ASSUME IInv, Next
  PROVE  EndsPromised'
<1> USE DEF Up
<1>0. EndsPromised /\ PlacesOK /\ TypesOK
  BY DEF IInv
<1>1. CASE \/ StartFails \/ Stop \/ CancelTimers \/ CloseQueue
           \/ main = "closed" /\ \E t \in armed : TimerFires(t)
  BY <1>1, Down DEF EndsPromised
<1>2. ASSUME UNCHANGED pending_rx, Up => Up',
             step = "arm" /\ event.kind = "rx" => UNCHANGED <<step, event>>,
             \A t \in Coming : t.kind = "rx" => t \in Coming'
      PROVE  EndsPromised'
  BY <1>0, <1>2 DEF EndsPromised
<1>3. CASE \/ \E s \in Schedules, full \in BOOLEAN : InstallSchedule(s, full)
           \/ PlanNextTx \/ NoteTimer \/ TransmitSlot
  <2>1. Coming' = Coming
    BY <1>3, ServiceQuiet
  <2>2. step # "arm" /\ UNCHANGED <<main, pending_rx>>
    BY <1>3 DEF InstallSchedule, PlanNextTx, NoteTimer, TransmitSlot, lifecycle
  <2> QED
    BY <1>2, <2>1, <2>2
<1>4. CASE Start \/ StartPlans \/ StartNotes \/ Started \/ Tick
  <2>1. Coming' = Coming
    BY <1>4, ServiceQuiet
  <2>2. UNCHANGED <<step, event, pending_rx>> /\ (Up => Up')
    BY <1>4 DEF Start, StartPlans, StartNotes, Started, Tick, lifecycle, call
  <2> QED
    BY <1>2, <2>1, <2>2
<1>5. CASE main # "closed" /\ \E t \in armed : TimerFires(t)
  <2>1. Coming' = Coming /\ UNCHANGED <<step, event, pending_rx, main>>
    BY <1>5, FiresQuietly DEF lifecycle, call
  <2> QED
    BY <1>2, <2>1
<1>6. CASE WithdrawTimers
  <2>1. \A t \in Coming : t.kind # "tx" => t \in Coming'
    BY <1>6, WithdrawFacts
  <2>2. step # "arm" /\ UNCHANGED <<main, pending_rx>>
    BY <1>6 DEF WithdrawTimers, lifecycle
  <2> QED
    BY <1>2, <2>1, <2>2
<1>7. CASE Arm
  <2>1. PICK u \in Timers : u.kind = event.kind /\ u.data = event.data /\ Coming' = Coming \cup {u}
    BY <1>7, ArmFacts
  <2>2. UNCHANGED <<main, pending_rx>>
    BY <1>7 DEF Arm, lifecycle
  <2> QED
    BY <1>0, <2>1, <2>2 DEF EndsPromised
<1>8. CASE StartArms \/ \E kind \in todo : StartPeriodic(kind)
  <2>1. Coming \subseteq Coming' /\ main' = "note"
    BY <1>8, StartArmFacts
  <2>2. UNCHANGED <<step, event, pending_rx>>
    BY <1>8 DEF StartArms, StartPeriodic, call
  <2> QED
    BY <1>2, <2>1, <2>2
<1>9. CASE TxWakeup \/ \E kind \in DOMAIN Periods : PeriodicEvent(kind)
  <2>1. Coming' = Coming \ {Head(fired)} /\ step = "idle"
    BY <1>9, TakeFacts
  <2>2. Head(fired).kind # "rx"
    BY <1>0, <1>9, SettingFacts DEF TxWakeup, PeriodicEvent, Take
  <2>3. UNCHANGED <<main, pending_rx>>
    BY <1>9 DEF TxWakeup, PeriodicEvent, lifecycle
  <2> QED
    BY <1>2, <2>1, <2>2, <2>3
<1>10. CASE CompleteReceive
  <2>1. Coming' = Coming \ {Head(fired)} /\ step = "idle"
    BY <1>10, TakeFacts
  <2>2. pending_rx' = {p \in pending_rx : p.slot # Head(fired).data} /\ UNCHANGED main
    BY <1>10 DEF CompleteReceive, lifecycle
  <2>3. \A t \in Coming : t.data # Head(fired).data => t \in Coming'
    BY <2>1
  <2> QED
    BY <1>0, <2>1, <2>2, <2>3 DEF EndsPromised
<1>11. CASE \E frame \in Frames : Upstream(frame)
  <2> PICK frame \in Frames : Upstream(frame)
    BY <1>11
  <2> DEFINE r == Reception(frame)
  <2>1. Coming' = Coming
    BY <1>11, ServiceQuiet
  <2>2. step = "idle" /\ UNCHANGED main /\ Up /\ r.slot = frame.slot
    BY <1>0 DEF Upstream, lifecycle, PlacesOK, Reception
  <2>3. CASE \E p \in pending_rx : p.slot = frame.slot
    <3>1. \A p \in pending_rx' : \E q \in pending_rx : q.slot = p.slot
      <4>1. pending_rx' = {IF p.slot = frame.slot /\ frame.start < p.start THEN r ELSE p :
                             p \in pending_rx}
        BY <2>3 DEF Upstream
      <4> HIDE DEF r
      <4> QED
        BY <2>2, <4>1
    <3> QED
      BY <1>0, <2>1, <2>2, <3>1 DEF EndsPromised
  <2>4. CASE ~\E p \in pending_rx : p.slot = frame.slot
    <3>1. /\ pending_rx' = pending_rx \cup {r} /\ step' = "arm"
          /\ event' = [id |-> 0, kind |-> "rx", data |-> frame.slot,
                       expire |-> SlotStart(frame.slot + 1)]
      BY <2>4 DEF Upstream
    <3>2. event'.kind = "rx" /\ event'.data = r.slot
      BY <2>2, <3>1
    <3> HIDE DEF r
    <3> QED
      BY <1>0, <2>1, <2>2, <3>1, <3>2 DEF EndsPromised
  <2> QED
    BY <2>3, <2>4
<1> QED
  BY <1>1, <1>3, <1>4, <1>5, <1>6, <1>7, <1>8, <1>9, <1>10, <1>11 DEF Next

(* Only the timers of a kind matter for how many there are of it. *)
LEMMA OfSame ==
  ASSUME NEW C, NEW D, NEW k, \A t \in C : t.kind = k => t \in D,
         \A t \in D : t.kind = k => t \in C
  PROVE  (NoneOf(C, k) => NoneOf(D, k)) /\ (OneOf(C, k) => OneOf(D, k))
  BY DEF NoneOf, OneOf

(* A step that leaves the timers of the periodic kinds alone. *)
LEMMA PeriodicSame ==
  ASSUME PeriodicPromised, UNCHANGED <<setting, todo>>,
         Up' \/ main' = "new" => Up \/ main = "new",
         \A k \in DOMAIN Periods :
           /\ step' = "arm" /\ event'.kind = k <=> step = "arm" /\ event.kind = k
           /\ \A t \in Coming : t.kind = k => t \in Coming'
           /\ \A t \in Coming' : t.kind = k => t \in Coming
  PROVE  PeriodicPromised'
<1> SUFFICES ASSUME (Up \/ main = "new")', NEW k \in DOMAIN Periods
             PROVE  (IF k \in todo \/ (step = "arm" /\ event.kind = k) THEN NoneOf(Coming, k)
                                                                 ELSE OneOf(Coming, k))'
  BY DEF PeriodicPromised, Periods
<1>1. IF k \in todo \/ (step = "arm" /\ event.kind = k) THEN NoneOf(Coming, k)
                                                 ELSE OneOf(Coming, k)
  BY DEF PeriodicPromised
<1>2. (NoneOf(Coming, k) => NoneOf(Coming', k)) /\ (OneOf(Coming, k) => OneOf(Coming', k))
  BY OfSame
<1>3. NoneOf(Coming, k)' = NoneOf(Coming', k) /\ OneOf(Coming, k)' = OneOf(Coming', k)
  BY DEF NoneOf, OneOf
<1> QED
  BY <1>1, <1>2, <1>3

(* One more timer, or one less, of a kind. *)
LEMMA OneMore ==
  ASSUME NEW C, NEW u, NoneOf(C, u.kind)
  PROVE  OneOf(C \cup {u}, u.kind)
  BY DEF NoneOf, OneOf

(* The only timer of a kind is taken. *)
LEMMA OneLess ==
  ASSUME NEW C, NEW u \in C, OneOf(C, u.kind)
  PROVE  NoneOf(C \ {u}, u.kind)
  BY DEF NoneOf, OneOf

(* The periodic timers. *)
LEMMA PeriodicKept ==
  ASSUME IInv, Next
  PROVE  PeriodicPromised'
<1> USE SettingKept DEF Up
<1>0. PeriodicPromised /\ PlacesOK /\ TypesOK
  BY DEF IInv
<1>a. "tx" \notin DOMAIN Periods /\ "rx" \notin DOMAIN Periods
  BY <1>0, SettingFacts
<1>1. CASE \/ StartFails \/ Stop \/ CancelTimers \/ CloseQueue
           \/ main = "closed" /\ \E t \in armed : TimerFires(t)
  BY <1>1, Down DEF PeriodicPromised
<1>2. CASE \/ \E s \in Schedules, full \in BOOLEAN : InstallSchedule(s, full)
           \/ NoteTimer \/ TransmitSlot
  <2>1. Coming' = Coming
    BY <1>2, ServiceQuiet
  <2>2. step # "arm" /\ step' # "arm" /\ UNCHANGED <<main, todo>>
    BY <1>2 DEF InstallSchedule, NoteTimer, TransmitSlot, lifecycle
  <2> QED
    BY <1>0, <2>1, <2>2, PeriodicSame
<1>3. CASE PlanNextTx
  <2>1. Coming' = Coming
    BY <1>3, ServiceQuiet
  <2>2. /\ step # "arm" /\ UNCHANGED <<main, todo>>
        /\ step' = "arm" => CanPlan /\ event' = TxTimer(PlannedSlot(first))
    BY <1>3 DEF PlanNextTx, lifecycle
  <2>3. step' = "arm" => event'.kind = "tx"
    BY <2>2 DEF TxTimer
  <2> QED
    BY <1>0, <1>a, <2>1, <2>2, <2>3, PeriodicSame
<1>4. CASE \E frame \in Frames : Upstream(frame)
  <2> PICK frame \in Frames : Upstream(frame)
    BY <1>4
  <2>1. Coming' = Coming
    BY <1>4, ServiceQuiet
  <2>2. /\ step = "idle" /\ UNCHANGED <<main, todo>>
        /\ step' = "arm" => event' = [id |-> 0, kind |-> "rx", data |-> frame.slot,
                                      expire |-> SlotStart(frame.slot + 1)]
    BY DEF Upstream, lifecycle
  <2>3. step' = "arm" => event'.kind = "rx"
    BY <2>2
  <2> QED
    BY <1>0, <1>a, <2>1, <2>2, <2>3, PeriodicSame
<1>5. CASE Start \/ StartPlans \/ StartNotes \/ Started \/ Tick
  <2>1. Coming' = Coming
    BY <1>5, ServiceQuiet
  <2>2. UNCHANGED <<step, event, todo>> /\ (Up' \/ main' = "new" => Up \/ main = "new")
    BY <1>5 DEF Start, StartPlans, StartNotes, Started, Tick, lifecycle, call
  <2> QED
    BY <1>0, <2>1, <2>2, PeriodicSame
<1>6. CASE main # "closed" /\ \E t \in armed : TimerFires(t)
  <2>1. Coming' = Coming /\ UNCHANGED <<step, event, todo, main>>
    BY <1>6, FiresQuietly DEF lifecycle, call
  <2> QED
    BY <1>0, <2>1, PeriodicSame
<1>7. CASE WithdrawTimers
  <2>1. Coming' \subseteq Coming /\ \A t \in Coming : t.kind # "tx" => t \in Coming'
    BY <1>7, WithdrawFacts
  <2>2. step # "arm" /\ step' # "arm" /\ UNCHANGED <<main, todo>>
    BY <1>7 DEF WithdrawTimers, lifecycle
  <2> QED
    BY <1>0, <1>a, <2>1, <2>2, PeriodicSame
<1>8. CASE Arm
  <2>1. PICK u \in Timers : u.kind = event.kind /\ Coming' = Coming \cup {u}
    BY <1>8, ArmFacts
  <2>2. step = "arm" /\ step' = "note" /\ UNCHANGED <<main, todo>>
    BY <1>8 DEF Arm, lifecycle
  <2>3. event.kind \notin todo
    BY <1>0, <2>2 DEF PlacesOK
  <2> SUFFICES ASSUME Up \/ main = "new", NEW k \in DOMAIN Periods
               PROVE  IF k \in todo THEN NoneOf(Coming', k) ELSE OneOf(Coming', k)
    BY <2>2 DEF PeriodicPromised, NoneOf, OneOf
  <2>4. CASE k = u.kind
    <3>1. NoneOf(Coming, k)
      BY <1>0, <2>1, <2>2, <2>4 DEF PeriodicPromised
    <3> QED
      BY <2>1, <2>3, <2>4, <3>1, OneMore
  <2>5. CASE k # u.kind
    <3>1. IF k \in todo THEN NoneOf(Coming, k) ELSE OneOf(Coming, k)
      BY <1>0, <2>1, <2>2, <2>5 DEF PeriodicPromised
    <3> QED
      BY <2>1, <2>5, <3>1, OfSame
  <2> QED
    BY <2>4, <2>5
<1>9. CASE StartArms \/ \E kind \in todo : StartPeriodic(kind)
  <2>1. PICK u \in Timers :
          /\ Coming' = Coming \cup {u} /\ main' = "note"
          /\ \/ main = "arm" /\ u.kind = "tx" /\ todo' = todo
             \/ main = "periodic" /\ u.kind \in todo /\ todo' = todo \ {u.kind}
    BY <1>9, StartArmFacts
  <2>2. UNCHANGED <<step, event>>
    BY <1>9 DEF StartArms, StartPeriodic, call
  <2>3. CASE u.kind = "tx" /\ todo' = todo
    BY <1>0, <1>a, <2>1, <2>2, <2>3, PeriodicSame
  <2>4. CASE u.kind \in todo /\ todo' = todo \ {u.kind} /\ main = "periodic"
    <3> SUFFICES ASSUME NEW k \in DOMAIN Periods
                 PROVE  IF k \in todo' \/ (step = "arm" /\ event.kind = k)
                          THEN NoneOf(Coming', k) ELSE OneOf(Coming', k)
      BY <2>2 DEF PeriodicPromised, NoneOf, OneOf
    <3>1. IF k \in todo \/ (step = "arm" /\ event.kind = k)
            THEN NoneOf(Coming, k) ELSE OneOf(Coming, k)
      BY <1>0, <2>4 DEF PeriodicPromised
    <3>2. CASE k = u.kind
      <4>1. ~(step = "arm" /\ event.kind = k)
        BY <1>0, <2>4, <3>2 DEF PlacesOK
      <4> QED
        BY <2>1, <2>4, <3>1, <3>2, <4>1, OneMore
    <3>3. CASE k # u.kind
      BY <2>1, <2>4, <3>1, <3>3, OfSame
    <3> QED
      BY <3>2, <3>3
  <2> QED
    BY <2>1, <2>3, <2>4
<1>10. CASE TxWakeup \/ CompleteReceive
  <2>1. Coming' = Coming \ {Head(fired)} /\ step = "idle"
    BY <1>10, TakeFacts
  <2>2. Head(fired).kind \in {"tx", "rx"} /\ step' # "arm" /\ UNCHANGED <<main, todo>>
    BY <1>10, <2>1 DEF TxWakeup, CompleteReceive, Take, lifecycle, call
  <2> QED
    BY <1>0, <1>a, <2>1, <2>2, PeriodicSame
<1>11. CASE \E kind \in DOMAIN Periods : PeriodicEvent(kind)
  <2> PICK kind \in DOMAIN Periods : PeriodicEvent(kind)
    BY <1>11
  <2>1. Coming' = Coming \ {Head(fired)} /\ step = "idle" /\ Head(fired) \in Coming
    BY <1>11, TakeFacts
  <2>2. /\ Head(fired).kind = kind /\ UNCHANGED <<main, todo>>
        /\ started => event' = PeriodicTimer(kind) /\ step' = "arm"
    BY DEF PeriodicEvent, Take, lifecycle
  <2> SUFFICES ASSUME Up \/ main = "new", NEW k \in DOMAIN Periods
               PROVE  IF k \in todo \/ (step' = "arm" /\ event'.kind = k)
                        THEN NoneOf(Coming', k) ELSE OneOf(Coming', k)
    BY <2>2 DEF PeriodicPromised, NoneOf, OneOf
  <2>3. \A j \in DOMAIN Periods : IF j \in todo THEN NoneOf(Coming, j) ELSE OneOf(Coming, j)
    BY <1>0, <2>1 DEF PeriodicPromised
  <2>4. kind \notin todo
    BY <2>1, <2>2, <2>3 DEF NoneOf
  <2>5. Up /\ started
    BY <1>0, <2>4 DEF PlacesOK
  <2>6. event'.kind = kind /\ step' = "arm"
    BY <1>0, <2>2, <2>5, PeriodicTimerFacts
  <2>7. CASE k = kind
    BY <2>1, <2>2, <2>3, <2>4, <2>6, <2>7, OneLess
  <2>8. CASE k # kind
    BY <2>1, <2>2, <2>3, <2>6, <2>8, OfSame
  <2> QED
    BY <2>7, <2>8
<1> QED
  BY <1>1, <1>2, <1>3, <1>4, <1>5, <1>6, <1>7, <1>8, <1>9, <1>10, <1>11 DEF Next

(* What still leaves after stop. *)
LEMMA LateKept ==
  ASSUME IInv, Next
  PROVE  LateOK'
<1> USE DEF LateOK, Up, EventTx
<1>0. LateOK /\ PlacesOK /\ TypesOK
  BY DEF IInv
<1>1. CASE \/ \E s \in Schedules, full \in BOOLEAN : InstallSchedule(s, full)
           \/ WithdrawTimers
  BY <1>0, <1>1 DEF InstallSchedule, WithdrawTimers, lifecycle, history
<1>2. CASE PlanNextTx
  BY <1>0, <1>2 DEF PlanNextTx, CanPlan, PlacesOK, lifecycle, history
<1>3. CASE Arm
  <2>1. event'.kind = event.kind
    BY <1>3, ArmFacts
  <2> QED
    BY <1>0, <1>3, <2>1 DEF Arm, lifecycle, history
<1>4. CASE NoteTimer
  BY <1>0, <1>4 DEF NoteTimer, Note, lifecycle, history
<1>5. CASE TxWakeup
  <2>1. Head(fired).data \in Nat
    BY <1>0, <1>5, TakeFacts, ComingFacts
  <2>2. Head(fired).data # NoSlot
    BY <2>1 DEF NoSlot
  <2> QED
    BY <1>0, <1>5, <2>2 DEF TxWakeup, Take, lifecycle
<1>6. CASE TransmitSlot
  <2>1. late = 0 /\ step' = "plan" /\ UNCHANGED <<main, next_tx_slot>>
    BY <1>0, <1>6 DEF TransmitSlot, TypesOK, lifecycle
  <2>2. late' \in {0, 1} /\ (late' = 1 => main \in {"cancel", "closed"})
    BY <1>6, <2>1 DEF TransmitSlot
  <2> QED
    BY <1>0, <1>6, <2>1, <2>2 DEF TransmitSlot
<1>7. CASE CompleteReceive
  BY <1>0, <1>7 DEF CompleteReceive, lifecycle, call
<1>8. CASE \E kind \in DOMAIN Periods : PeriodicEvent(kind)
  BY <1>0, <1>8 DEF PeriodicEvent, Take, PlacesOK, lifecycle, history
<1>9. CASE \E frame \in Frames : Upstream(frame)
  BY <1>0, <1>9 DEF Upstream, PlacesOK, lifecycle
<1>10. CASE Start \/ StartFails \/ StartPlans \/ StartArms \/ Started \/ Tick
            \/ CancelTimers \/ CloseQueue
  <2>1. CASE Start \/ StartFails \/ StartPlans
    BY <1>0, <2>1 DEF Start, StartFails, StartPlans, PlacesOK, lifecycle, call, history
  <2>2. CASE StartArms \/ Started \/ Tick
    BY <1>0, <2>2 DEF StartArms, Started, Tick, PlacesOK, lifecycle, call, history
  <2>3. CASE CancelTimers \/ CloseQueue
    BY <1>0, <2>3 DEF CancelTimers, CloseQueue, PlacesOK, lifecycle, call, history
  <2> QED
    BY <1>10, <2>1, <2>2, <2>3
<1>11. CASE StartNotes \/ \E kind \in todo : StartPeriodic(kind)
  BY <1>0, <1>11 DEF StartNotes, Note, StartPeriodic, call, history
<1>12. CASE Stop
  BY <1>0, <1>12 DEF Stop, call, history
<1>13. CASE \E t \in armed : TimerFires(t)
  BY <1>0, <1>13 DEF TimerFires, lifecycle, call, history
<1> QED
  BY <1>1, <1>2, <1>3, <1>4, <1>5, <1>6, <1>7, <1>8, <1>9, <1>10, <1>11, <1>12, <1>13
     DEF Next

(* What comes after all slots that were used, and one slot more. *)
LEMMA AfterLonger ==
  ASSUME NEW s \in Seq(Nat), NEW n \in Nat
  PROVE  /\ \A m \in Nat : n <= m /\ After(s, n) => After(s, m)
         /\ \A m \in Nat : n < m /\ After(s, n) => After(Append(s, n), m)
         /\ After(s, n) /\ Increasing(s) => Increasing(Append(s, n))
<1> DEFINE a == Append(s, n)
<1>1. Len(s) \in Nat /\ \A i \in 1..Len(s) : s[i] \in Nat
  BY ElementOfSeq, LenProperties
<1>2. /\ Len(a) = Len(s) + 1 /\ a[Len(s) + 1] = n
      /\ \A i \in 1..Len(s) : a[i] = s[i]
  BY AppendProperties, LenProperties
<1>3. \A i \in 1..Len(a) : i \in 1..Len(s) \/ i = Len(s) + 1
  BY <1>1, <1>2
<1> HIDE DEF a
<1>4. \A m \in Nat : n <= m /\ After(s, n) => After(s, m)
  BY <1>1 DEF After
<1>5. \A m \in Nat : n < m /\ After(s, n) => After(a, m)
  <2> SUFFICES ASSUME NEW m \in Nat, n < m, After(s, n), NEW i \in 1..Len(a)
               PROVE  a[i] < m
    BY DEF After
  <2>1. CASE i \in 1..Len(s)
    BY <1>1, <1>2, <2>1 DEF After
  <2>2. CASE i = Len(s) + 1
    BY <1>2, <2>2
  <2> QED
    BY <1>3, <2>1, <2>2
<1>6. ASSUME After(s, n), Increasing(s)
      PROVE  Increasing(a)
  <2> SUFFICES ASSUME NEW i \in 1..Len(a), NEW j \in 1..Len(a), i < j
               PROVE  a[i] < a[j]
    BY DEF Increasing
  <2>1. i \in 1..Len(s)
    BY <1>1, <1>2
  <2>2. CASE j \in 1..Len(s)
    BY <1>2, <1>6, <2>1, <2>2 DEF Increasing
  <2>3. CASE j = Len(s) + 1
    BY <1>2, <1>6, <2>1, <2>3 DEF After
  <2> QED
    BY <1>3, <2>2, <2>3
<1> QED
  BY <1>4, <1>5, <1>6 DEF a

(* A step that uses no slot and expects no other than it did. *)
LEMMA SlotsSame ==
  ASSUME SlotsOK, UNCHANGED <<setting, now, sent>>, raced => raced',
         next_tx_slot' \in {next_tx_slot, NoSlot},
         EventTx' => EventTx /\ event'.data = event.data,
         PlanTx' => PlanTx /\ plan'.data = plan.data,
         step' = "transmit" => step = "transmit" /\ slot' = slot
  PROVE  SlotsOK'
<1>1. UNCHANGED AbsoluteSlot(now) /\ \A n : UNCHANGED After(sent, n)
  BY DEF AbsoluteSlot, Duration, After
<1>2. \A n : After(sent', n) <=> After(sent, n)
  BY DEF After
<1>3. UNCHANGED Increasing(sent)
  BY DEF Increasing
<1> QED
  BY <1>1, <1>2, <1>3 DEF SlotsOK

(* Slots are transmitted in one after the other. *)
LEMMA SlotsKept ==
  ASSUME IInv, Next
  PROVE  SlotsOK'
<1> USE SettingKept DEF PlanTx, EventTx
<1>0. SlotsOK /\ PlacesOK /\ TypesOK /\ TimesOK
  BY DEF IInv
<1>a. sent \in Seq(Nat) /\ AbsoluteSlot(now) \in Nat /\ AbsoluteSlot(now) + 1 \in Nat
  BY <1>0, SettingFacts DEF TypesOK
<1>b. \A n \in Nat : n > AbsoluteSlot(now) => After(sent, n)
  <2>1. After(sent, AbsoluteSlot(now) + 1)
    BY <1>0 DEF SlotsOK
  <2>2. \A n \in Nat : n > AbsoluteSlot(now) => AbsoluteSlot(now) + 1 <= n
    BY <1>a
  <2> QED
    BY <1>a, <2>1, <2>2, AfterLonger
<1>1. CASE \/ \E s \in Schedules, full \in BOOLEAN : InstallSchedule(s, full)
           \/ WithdrawTimers \/ Start \/ StartFails \/ Started \/ Stop
           \/ CancelTimers \/ CloseQueue \/ \E t \in armed : TimerFires(t)
  BY <1>0, <1>1, SlotsSame DEF InstallSchedule, WithdrawTimers, Start, StartFails, Started, Stop,
     CancelTimers, CloseQueue, TimerFires, lifecycle, call, history
<1>2. CASE PlanNextTx
  <2>1. UNCHANGED <<setting, now, sent, raced, next_tx_slot, main, plan>> /\ step = "plan"
    BY <1>2 DEF PlanNextTx, lifecycle, history
  <2>2. CASE CanPlan
    <3>1. step' = "arm" /\ event' = TxTimer(PlannedSlot(first)) /\ first \in BOOLEAN
      BY <1>0, <1>2, <2>2 DEF PlanNextTx, TypesOK
    <3>2. event' \in Timers /\ event'.data > AbsoluteSlot(now)
      BY <1>0, <2>2, <3>1, TxTimerFacts
    <3>3. After(sent, event'.data)
      BY <1>0, <1>b, <3>2, ComingFacts
    <3>4. UNCHANGED AbsoluteSlot(now)
      BY <2>1 DEF AbsoluteSlot
    <3> QED
      BY <1>0, <2>1, <3>1, <3>3, <3>4 DEF SlotsOK, After, Increasing
  <2>3. CASE ~CanPlan
    BY <1>0, <1>2, <2>1, <2>3, SlotsSame DEF PlanNextTx
  <2> QED
    BY <2>2, <2>3
<1>3. CASE Arm
  <2>1. event'.kind = event.kind /\ event'.data = event.data
    BY <1>3, ArmFacts
  <2> QED
    BY <1>0, <1>3, <2>1, SlotsSame DEF Arm, lifecycle, history
<1>4. CASE NoteTimer
  <2>1. /\ UNCHANGED <<setting, now, sent, raced, main, plan>> /\ step = "note" /\ step' = "idle"
        /\ next_tx_slot' = IF event.kind = "tx" THEN event.data ELSE next_tx_slot
    BY <1>4 DEF NoteTimer, Note, lifecycle, history
  <2>2. UNCHANGED AbsoluteSlot(now) /\ UNCHANGED Increasing(sent)
    BY <2>1 DEF AbsoluteSlot, Increasing
  <2>3. \A n : After(sent', n) <=> After(sent, n)
    BY <2>1 DEF After
  <2> QED
    BY <1>0, <2>1, <2>2, <2>3 DEF SlotsOK
<1>5. CASE TxWakeup
  <2>1. /\ UNCHANGED <<setting, now, sent, main, plan>> /\ step = "idle"
        /\ raced' = (raced \/ main \in {"arm", "note"})
    BY <1>5 DEF TxWakeup, Take, lifecycle
  <2>2. CASE Head(fired).data = next_tx_slot
    <3>1. Head(fired).data \in Nat
      BY <1>0, <1>5, TakeFacts, ComingFacts
    <3>2. next_tx_slot # NoSlot
      BY <2>2, <3>1 DEF NoSlot
    <3>3. next_tx_slot' = NoSlot /\ slot' = next_tx_slot /\ step' = "transmit"
      BY <1>5, <2>2 DEF TxWakeup
    <3>4. UNCHANGED AbsoluteSlot(now) /\ UNCHANGED Increasing(sent)
      BY <2>1 DEF AbsoluteSlot, Increasing
    <3>5. \A n : After(sent', n) <=> After(sent, n)
      BY <2>1 DEF After
    <3> QED
      BY <1>0, <2>1, <3>2, <3>3, <3>4, <3>5 DEF SlotsOK
  <2>3. CASE Head(fired).data # next_tx_slot
    BY <1>0, <1>5, <2>1, <2>3, SlotsSame DEF TxWakeup
  <2> QED
    BY <2>2, <2>3
<1>6. CASE TransmitSlot
  <2>1. /\ UNCHANGED <<setting, now, raced, main, plan, next_tx_slot>>
        /\ step = "transmit" /\ step' = "plan"
    BY <1>6 DEF TransmitSlot, lifecycle
  <2>2. CASE ~OnTime
    BY <1>0, <1>6, <2>1, <2>2, SlotsSame DEF TransmitSlot
  <2>3. CASE OnTime
    <3>1. sent' = Append(sent, slot) /\ slot = AbsoluteSlot(now)
      BY <1>6, <2>3 DEF TransmitSlot, OnTime
    <3>2. After(sent', AbsoluteSlot(now) + 1)
      <4>1. Len(sent) \in Nat /\ \A i \in 1..Len(sent) : sent[i] \in Nat
        BY <1>a, ElementOfSeq, LenProperties
      <4>2. /\ Len(sent') = Len(sent) + 1 /\ sent'[Len(sent) + 1] = slot
            /\ \A i \in 1..Len(sent) : sent'[i] = sent[i]
        BY <1>a, <3>1, AppendProperties, LenProperties
      <4>3. \A i \in 1..Len(sent') : i \in 1..Len(sent) \/ i = Len(sent) + 1
        BY <4>1, <4>2
      <4>4. \A i \in 1..Len(sent) : sent'[i] < AbsoluteSlot(now) + 1
        BY <1>0, <4>2 DEF SlotsOK, After
      <4>5. sent'[Len(sent) + 1] < AbsoluteSlot(now) + 1
        BY <1>a, <3>1, <4>2
      <4> QED
        BY <4>3, <4>4, <4>5 DEF After
    <3>3. UNCHANGED AbsoluteSlot(now)
      BY <2>1 DEF AbsoluteSlot
    <3>4. ~raced => /\ Increasing(sent) /\ After(sent, slot)
                    /\ next_tx_slot = NoSlot \/ slot < next_tx_slot
                    /\ PlanTx => slot < plan.data
      BY <1>0, <2>1 DEF SlotsOK
    <3>5. ~raced => Increasing(sent')
      BY <1>a, <3>1, <3>4, AfterLonger
    <3>6. ~raced => \A m \in Nat : slot < m => After(sent', m)
      BY <1>a, <3>1, <3>4, AfterLonger
    <3>7. next_tx_slot = NoSlot \/ next_tx_slot \in Nat
      BY <1>0 DEF TypesOK
    <3>8. PlanTx => plan.data \in Nat
      BY <1>0, ComingFacts DEF PlacesOK
    <3>9. Increasing(sent)' <=> Increasing(sent')
      BY DEF Increasing
    <3> QED
      BY <2>1, <3>2, <3>3, <3>4, <3>5, <3>6, <3>7, <3>8, <3>9 DEF SlotsOK, After
  <2> QED
    BY <2>2, <2>3
<1>7. CASE CompleteReceive
  BY <1>0, <1>7, SlotsSame DEF CompleteReceive, lifecycle, call
<1>8. CASE \E kind \in DOMAIN Periods : PeriodicEvent(kind)
  <2> PICK kind \in DOMAIN Periods : PeriodicEvent(kind)
    BY <1>8
  <2>1. PeriodicTimer(kind).kind = kind /\ kind # "tx"
    BY <1>0, PeriodicTimerFacts
  <2>2. /\ UNCHANGED <<setting, now, sent, raced, main, plan, next_tx_slot>> /\ step = "idle"
        /\ step' = "idle" \/ (step' = "arm" /\ event' = PeriodicTimer(kind))
    BY DEF PeriodicEvent, Take, lifecycle, history
  <2>3. ~EventTx' /\ step' # "transmit"
    BY <2>1, <2>2
  <2> QED
    BY <1>0, <2>2, <2>3, SlotsSame
<1>9. CASE \E frame \in Frames : Upstream(frame)
  <2> PICK frame \in Frames : Upstream(frame)
    BY <1>9
  <2>1. /\ UNCHANGED <<setting, now, sent, raced, main, plan, next_tx_slot>> /\ step = "idle"
        /\ \/ step' = "idle"
           \/ /\ step' = "arm"
              /\ event' = [id |-> 0, kind |-> "rx", data |-> frame.slot,
                           expire |-> SlotStart(frame.slot + 1)]
    BY DEF Upstream, lifecycle
  <2>2. ~EventTx' /\ step' # "transmit"
    BY <2>1
  <2> QED
    BY <1>0, <2>1, <2>2, SlotsSame
<1>10. CASE StartPlans
  <2>1. UNCHANGED <<setting, now, sent, raced, next_tx_slot, step, slot, event>> /\ main = "plan"
    BY <1>10 DEF StartPlans, call, history
  <2>2. CASE CanPlan
    <3>1. main' = "arm" /\ plan' = TxTimer(PlannedSlot(TRUE))
      BY <1>10, <2>2 DEF StartPlans
    <3>2. plan' \in Timers /\ plan'.data > AbsoluteSlot(now)
      BY <1>0, <2>2, <3>1, TxTimerFacts
    <3>3. After(sent, plan'.data) /\ plan'.data \in Nat
      BY <1>0, <1>b, <3>2, ComingFacts
    <3>4. step = "transmit" => slot < plan'.data
      <4>1. step = "transmit" => slot \in Nat /\ slot <= AbsoluteSlot(now)
        BY <1>0 DEF PlacesOK, TimesOK
      <4> QED
        BY <1>a, <3>2, <3>3, <4>1
    <3>5. UNCHANGED AbsoluteSlot(now)
      BY <2>1 DEF AbsoluteSlot
    <3> QED
      BY <1>0, <2>1, <3>1, <3>3, <3>4, <3>5 DEF SlotsOK, After, Increasing
  <2>3. CASE ~CanPlan
    BY <1>0, <1>10, <2>1, <2>3, SlotsSame DEF StartPlans
  <2> QED
    BY <2>2, <2>3
<1>11. CASE StartArms \/ \E kind \in todo : StartPeriodic(kind)
  <2>1. PICK u \in Timers :
          /\ plan'.kind = u.kind /\ plan'.data = u.data
          /\ \/ main = "arm" /\ plan.kind = "tx" /\ u.data = plan.data
             \/ u.kind \notin {"tx", "rx"}
    BY <1>11, StartArmFacts
  <2>2. UNCHANGED <<setting, now, sent, raced, next_tx_slot, step, slot, event>>
    BY <1>11 DEF StartArms, StartPeriodic, call, history
  <2>3. PlanTx' => PlanTx /\ plan'.data = plan.data
    BY <2>1
  <2> QED
    BY <1>0, <2>2, <2>3, SlotsSame
<1>12. CASE StartNotes
  <2>1. /\ UNCHANGED <<setting, now, sent, raced, step, slot, event>>
        /\ main = "note" /\ main' = "periodic"
        /\ next_tx_slot' = IF plan.kind = "tx" THEN plan.data ELSE next_tx_slot
    BY <1>12 DEF StartNotes, Note, call, history
  <2>2. UNCHANGED AbsoluteSlot(now) /\ UNCHANGED Increasing(sent)
    BY <2>1 DEF AbsoluteSlot, Increasing
  <2>3. \A n : After(sent', n) <=> After(sent, n)
    BY <2>1 DEF After
  <2> QED
    BY <1>0, <2>1, <2>2, <2>3 DEF SlotsOK
<1>13. CASE Tick
  <2>1. /\ UNCHANGED <<setting, sent, raced, next_tx_slot, step, slot, event, main, plan>>
        /\ now' = now + 1 /\ now \in Nat
    BY <1>0, <1>13 DEF Tick, lifecycle, call, history, TypesOK
  <2>2. AbsoluteSlot(now') \in Nat /\ AbsoluteSlot(now) <= AbsoluteSlot(now')
    BY <1>0, <2>1, SettingFacts, SlotGrows, Divided DEF AbsoluteSlot
  <2>3. After(sent, AbsoluteSlot(now') + 1)
    <3>1. AbsoluteSlot(now') + 1 \in Nat /\ AbsoluteSlot(now') + 1 > AbsoluteSlot(now)
      BY <1>a, <2>2
    <3> QED
      BY <1>b, <3>1
  <2>4. AbsoluteSlot(now)' = AbsoluteSlot(now')
    BY DEF AbsoluteSlot
  <2>5. UNCHANGED Increasing(sent)
    BY <2>1 DEF Increasing
  <2>6. \A n : After(sent', n) <=> After(sent, n)
    BY <2>1 DEF After
  <2> QED
    BY <1>0, <2>1, <2>3, <2>4, <2>5, <2>6 DEF SlotsOK
<1> QED
  BY <1>1, <1>2, <1>3, <1>4, <1>5, <1>6, <1>7, <1>8, <1>9, <1>10, <1>11, <1>12, <1>13
     DEF Next

(* What a reception that is judged, or a frame that is accepted, leaves    *)
(* behind: the slot still holds its earliest frame.                        *)
LEMMA HeldKept ==
  ASSUME IInv, Next
  PROVE  HeldOK' /\ EarliestWins'
<1> USE SettingKept DEF Up
<1>0. HeldOK /\ EarliestWins /\ PlacesOK /\ TypesOK /\ TimesOK
  BY DEF IInv
<1>a. /\ AbsoluteSlot(now) \in Nat
      /\ \A p \in pending_rx \cup heard \cup received : p.slot \in Nat /\ p.start \in Nat
  BY <1>0, SettingFacts DEF TypesOK
<1>b. ASSUME now' = now
      PROVE  UNCHANGED AbsoluteSlot(now)
  BY <1>b DEF AbsoluteSlot
<1>1. ASSUME UNCHANGED <<now, pending_rx, heard, received>>,
             Up' \/ main' = "new" => Up \/ main = "new"
      PROVE  HeldOK' /\ EarliestWins'
  BY <1>0, <1>1, <1>b DEF HeldOK, EarliestWins
<1>2. CASE \/ \E s \in Schedules, full \in BOOLEAN : InstallSchedule(s, full)
           \/ WithdrawTimers \/ PlanNextTx \/ Arm \/ NoteTimer \/ TxWakeup \/ TransmitSlot
           \/ \E kind \in DOMAIN Periods : PeriodicEvent(kind)
           \/ \E t \in armed : TimerFires(t)
  <2>1. UNCHANGED <<now, pending_rx, heard, received, main>>
    BY <1>2 DEF InstallSchedule, WithdrawTimers, PlanNextTx, Arm, NoteTimer, TxWakeup,
                TransmitSlot, PeriodicEvent, TimerFires, lifecycle, history
  <2> QED
    BY <1>1, <2>1
<1>3. CASE \/ Start \/ StartFails \/ StartPlans \/ StartArms \/ StartNotes \/ Started
           \/ \E kind \in todo : StartPeriodic(kind)
           \/ CancelTimers \/ CloseQueue
  <2>1. /\ UNCHANGED <<now, pending_rx, heard, received>>
        /\ Up' \/ main' = "new" => Up \/ main = "new"
    BY <1>3 DEF Start, StartFails, StartPlans, StartArms, StartNotes, Started, StartPeriodic,
                CancelTimers, CloseQueue, history
  <2> QED
    BY <1>1, <2>1
<1>4. CASE Stop
  <2>1. UNCHANGED <<now, heard, received>> /\ pending_rx' = {} /\ main' = "cancel"
    BY <1>4 DEF Stop, history
  <2> QED
    BY <1>0, <1>b, <2>1 DEF HeldOK, EarliestWins
<1>5. CASE CompleteReceive
  <2> DEFINE h == Head(fired)
  <2>1. h \in FiredTimers /\ h \in Timers
    BY <1>5, TakeFacts
  <2>2. h.kind = "rx"
    BY <1>5 DEF CompleteReceive, Take
  <2>3. h.data \in Nat /\ h.data + 1 <= AbsoluteSlot(now)
    BY <1>0, <2>1, <2>2, FiredSlot, ComingFacts
  <2>4. h.data < AbsoluteSlot(now)
    BY <1>a, <2>3
  <2>5. /\ pending_rx' = {p \in pending_rx : p.slot # h.data}
        /\ received' = received \/ received' = received \cup {p \in pending_rx : p.slot = h.data}
        /\ UNCHANGED <<now, heard, main>>
    BY <1>5 DEF CompleteReceive, lifecycle
  <2> HIDE DEF h
  <2>6. UNCHANGED AbsoluteSlot(now)
    BY <1>b, <2>5
  <2>7. HeldOK'
    BY <1>0, <2>4, <2>5, <2>6 DEF HeldOK
  <2>8. EarliestWins'
    BY <1>0, <2>5 DEF HeldOK, EarliestWins
  <2> QED
    BY <2>7, <2>8
<1>6. CASE \E frame \in Frames : Upstream(frame)
  <2> PICK frame \in Frames : Upstream(frame)
    BY <1>6
  <2> DEFINE r == Reception(frame)
             here == AbsoluteSlot(now)
  <2>1. /\ r.slot = here /\ r.start = frame.start /\ frame.slot = here /\ frame.start \in Nat
        /\ here \in Nat
    BY <1>a DEF Upstream, Belongs, Reception, Frames
  <2>2. UNCHANGED <<now, main, received>> /\ heard' = heard \cup {r} /\ Up
    BY <1>0 DEF Upstream, lifecycle, PlacesOK
  <2>3. UNCHANGED here
    BY <1>b, <2>2
  <2>4. \A p \in received : p.slot # r.slot
    <3>1. \A p \in received : p.slot \in Nat /\ p.slot < here
      BY <1>0, <1>a DEF HeldOK
    <3> QED
      BY <2>1, <3>1
  <2>5. EarliestWins'
    <3> HIDE DEF r, here
    <3> QED
      BY <1>0, <2>2, <2>4 DEF EarliestWins
  <2>6. CASE \E p \in pending_rx : p.slot = frame.slot
    <3>1. pending_rx' = {IF p.slot = frame.slot /\ frame.start < p.start THEN r ELSE p :
                           p \in pending_rx}
      BY <2>6 DEF Upstream
    <3> HIDE DEF r
    <3>2. PICK o \in pending_rx : o.slot = frame.slot
      BY <2>6
    <3>3. \A p \in pending_rx : p.slot = frame.slot => p = o
      BY <1>0, <3>2 DEF HeldOK
    <3> DEFINE n == IF frame.start < o.start THEN r ELSE o
    <3>4. /\ n \in pending_rx' /\ n.slot = r.slot
          /\ \A p \in pending_rx' : p = n \/ (p \in pending_rx /\ p.slot # r.slot)
          /\ \A p \in pending_rx : p.slot # r.slot => p \in pending_rx'
      BY <2>1, <3>1, <3>2, <3>3
    <3>5. n.start <= r.start /\ n.start <= o.start /\ n.start \in Nat /\ o.start \in Nat
      BY <1>a, <2>1, <3>2
    <3> HIDE DEF n
    <3>6. \A p, q \in pending_rx' : p.slot = q.slot => p = q
      BY <1>0, <3>4 DEF HeldOK
    <3>7. \A p \in pending_rx', q \in heard' : p.slot = q.slot => p.start <= q.start
      <4>1. \A q \in heard : q.slot = r.slot => n.start <= q.start
        <5>1. \A q \in heard : q.slot = r.slot => q.start \in Nat /\ o.start <= q.start
          BY <1>0, <1>a, <2>1, <3>2 DEF HeldOK
        <5> QED
          BY <3>5, <5>1
      <4> QED
        BY <1>0, <2>2, <3>4, <3>5, <4>1 DEF HeldOK
    <3>8. \A p \in pending_rx', q \in received' : p.slot # q.slot
      BY <1>0, <2>2, <2>4, <3>4 DEF HeldOK
    <3>9. \A q \in heard' : q.slot < here \/ \E p \in pending_rx' : p.slot = q.slot
      BY <1>0, <2>2, <3>4 DEF HeldOK
    <3>10. \A p \in received' : p.slot < here
      BY <1>0, <2>2 DEF HeldOK
    <3> QED
      BY <2>3, <2>5, <3>6, <3>7, <3>8, <3>9, <3>10 DEF HeldOK
  <2>7. CASE ~\E p \in pending_rx : p.slot = frame.slot
    <3>1. pending_rx' = pending_rx \cup {r}
      BY <2>7 DEF Upstream
    <3>2. \A q \in pending_rx : q.slot # r.slot
      BY <2>1, <2>7
    <3>3. \A q \in heard : q.slot # r.slot
      <4>1. \A q \in heard : q.slot \in Nat /\ q.slot # here
        <5>1. \A q \in heard : q.slot \in Nat /\ (q.slot < here \/ \E p \in pending_rx : p.slot = q.slot)
          BY <1>0, <1>a, <2>2 DEF HeldOK
        <5> QED
          BY <2>1, <2>7, <5>1
      <4> QED
        BY <2>1, <4>1
    <3>4. r.start <= r.start
      BY <2>1
    <3> HIDE DEF r
    <3>5. /\ \A p, q \in pending_rx' : p.slot = q.slot => p = q
          /\ \A p \in pending_rx', q \in heard' : p.slot = q.slot => p.start <= q.start
          /\ \A p \in pending_rx', q \in received' : p.slot # q.slot
      BY <1>0, <2>2, <2>4, <3>1, <3>2, <3>3, <3>4 DEF HeldOK
    <3>6. /\ \A q \in heard' : q.slot < here \/ \E p \in pending_rx' : p.slot = q.slot
          /\ \A p \in received' : p.slot < here
      BY <1>0, <2>2, <3>1 DEF HeldOK
    <3> QED
      BY <2>3, <2>5, <3>5, <3>6 DEF HeldOK
  <2> QED
    BY <2>6, <2>7
<1>7. CASE Tick
  <2>1. /\ UNCHANGED <<pending_rx, heard, received, main>> /\ now' = now + 1 /\ now \in Nat
    BY <1>0, <1>7 DEF Tick, lifecycle, history, TypesOK
  <2>2. AbsoluteSlot(now') \in Nat /\ AbsoluteSlot(now) <= AbsoluteSlot(now')
    BY <1>0, <2>1, SettingFacts, SlotGrows, Divided DEF AbsoluteSlot
  <2>3. AbsoluteSlot(now)' = AbsoluteSlot(now')
    BY DEF AbsoluteSlot
  <2>4. \A n \in Nat : n < AbsoluteSlot(now) => n < AbsoluteSlot(now')
    BY <1>a, <2>2
  <2> QED
    BY <1>0, <1>a, <2>1, <2>3, <2>4 DEF HeldOK, EarliestWins
<1> QED
  BY <1>2, <1>3, <1>4, <1>5, <1>6, <1>7 DEF Next

-----------------------------------------------------------------------------
(***************************************************************************)
(* The theorems.                                                           *)
(***************************************************************************)
(* The layer is built with nothing scheduled and nothing held. *)
LEMMA InitIInv ==
  ASSUME Init
  PROVE  IInv
<1>1. /\ armed = {} /\ fired = <<>> /\ sent = <<>> /\ Len(fired) = 0 /\ Len(sent) = 0
      /\ 1..0 = {}
  BY EmptySeq DEF Init
<1>2. Coming = {} /\ FiredTimers = {}
  BY <1>1 DEF Coming, FiredTimers
<1>3. TypesOK
  BY EmptySeq DEF Init, TypesOK, NoSlot
<1>4. PlacesOK
  BY DEF Init, PlacesOK, Up
<1>5. IdsOK /\ NotedOK /\ TimesOK /\ ArmedOK
  BY <1>1, <1>2 DEF Init, IdsOK, NotedOK, TimesOK, ArmedOK
<1>6. WakeupPromised /\ EndsPromised /\ LateOK
  BY DEF Init, WakeupPromised, EndsPromised, LateOK, Up
<1>7. PeriodicPromised
  BY <1>2 DEF Init, PeriodicPromised, NoneOf
<1>8. SlotsOK
  BY <1>1 DEF Init, SlotsOK, After, Increasing, EventTx, PlanTx
<1>9. HeldOK /\ EarliestWins
  BY DEF Init, HeldOK, EarliestWins
<1> QED
  BY <1>3, <1>4, <1>5, <1>6, <1>7, <1>8, <1>9 DEF IInv

(* Nothing happens. *)
LEMMA StutterIInv ==
  ASSUME IInv, UNCHANGED vars
  PROVE  IInv'
<1>1. /\ UNCHANGED <<setting, now, schedule, next_tx_slot, pending_rx, timers, started, main>>
      /\ UNCHANGED <<plan, todo, cancelling, step, slot, first, event, withdrawn>>
      /\ UNCHANGED <<armed, fired, ids, events, heard, received, sent, late, raced>>
  BY DEF vars, lifecycle, call, timing, history
<1>2. /\ Coming' = Coming /\ FiredTimers' = FiredTimers /\ Timers' = Timers
      /\ Periods' = Periods /\ Schedules' = Schedules /\ UNCHANGED AbsoluteSlot(now)
  BY <1>1 DEF Coming, FiredTimers, Timers, TimerKinds, Periods, Schedules, AbsoluteSlot, Duration
<1>3. (Up' <=> Up) /\ (EventTx' <=> EventTx) /\ (PlanTx' <=> PlanTx)
  BY <1>1 DEF Up, EventTx, PlanTx
<1>4. (TypesOK /\ PlacesOK)'
  BY <1>1, <1>2, <1>3 DEF IInv, TypesOK, PlacesOK
<1>5. (IdsOK /\ NotedOK)'
  BY <1>1, <1>2 DEF IInv, IdsOK, NotedOK, Agrees
<1>6. TimesOK'
  BY <1>1, <1>2, TimesTogether DEF IInv, TimesOK
<1>7. (ArmedOK /\ EndsPromised /\ LateOK)'
  BY <1>1, <1>2, <1>3 DEF IInv, ArmedOK, EndsPromised, LateOK
<1>8. WakeupPromised'
  BY <1>1, <1>2, <1>3, WakeupSame DEF IInv
<1>9. PeriodicPromised'
  BY <1>1, <1>2, <1>3, PeriodicSame DEF IInv
<1>10. SlotsOK'
  BY <1>1, <1>3, SlotsSame DEF IInv
<1>11. (HeldOK /\ EarliestWins)'
  BY <1>1, <1>2, <1>3 DEF IInv, HeldOK, EarliestWins
<1> QED
  BY <1>4, <1>5, <1>6, <1>7, <1>8, <1>9, <1>10, <1>11 DEF IInv

(* The inductive invariant holds whatever schedules, frames and timers     *)
(* come: what follows rests on it.                                         *)
THEOREM Invariance == Spec => []IInv
<1>1. Init => IInv
  BY InitIInv
<1>2. IInv /\ [Next]_vars => IInv'
  <2>1. ASSUME IInv, Next
        PROVE  IInv'
    BY <2>1, TypesKept, PlacesKept, IdsKept, NotedKept, TimesKept, ArmedKept, WakeupKept,
       EndsKept, PeriodicKept, LateKept, SlotsKept, HeldKept DEF IInv
  <2> QED
    BY <2>1, StutterIInv
<1> QED
  BY <1>1, <1>2, PTL DEF Spec

(* One timer of a kind among those coming, counted. *)
LEMMA OneCounted ==
  ASSUME NEW C, NEW k, OneOf(C, k)
  PROVE  Cardinality({t \in C : t.kind = k}) = 1
<1>1. PICK t \in C : t.kind = k /\ \A u \in C : u.kind = k => u = t
  BY DEF OneOf
<1>2. {u \in C : u.kind = k} = {t}
  BY <1>1
<1> QED
  BY <1>2, FS_Singleton

(* schedule_next_tx, timed and complete_receive: while the MAC runs its    *)
(* chains of wakeups never break, for transmit slots, held receptions and  *)
(* both periodic timers, and after stop at most one frame leaves.          *)
THEOREM WakeupChainsHold == Spec => []WakeupsWhileStarted
<1>1. IInv => WakeupsWhileStarted
  <2> SUFFICES ASSUME IInv
               PROVE  WakeupsWhileStarted
    OBVIOUS
  <2>1. SilentAfterStop
    BY DEF IInv, TypesOK, SilentAfterStop
  <2>2. ASSUME started, main = "running", step = "idle"
        PROVE  /\ schedule # <<>> /\ HasTx(schedule) /\ ~raced =>
                    \E t \in Coming : t.kind = "tx" /\ t.data = next_tx_slot
               /\ \A p \in pending_rx : \E t \in Coming : t.kind = "rx" /\ t.data = p.slot
    BY <2>2 DEF IInv, WakeupPromised, EndsPromised, Up, EventTx, PlanTx
  <2>3. ASSUME started, main = "running", step = "idle", NEW k \in DOMAIN Periods
        PROVE  Cardinality({t \in Coming : t.kind = k}) = 1
    <3>1. OneOf(Coming, k)
      BY <2>3 DEF IInv, PlacesOK, PeriodicPromised, Up
    <3> QED
      BY <3>1, OneCounted
  <2> QED
    BY <2>1, <2>2, <2>3 DEF WakeupsWhileStarted, WakeupsComing
<1> QED
  BY <1>1, Invariance, PTL

(* transmit_slot and upstream: no slot carries two transmissions, nor      *)
(* yields two receptions, and the one it yields began first.               *)
THEOREM SlotsCarryOne == Spec => []SlotsAreExclusive
<1>1. IInv => SlotsAreExclusive
  BY DEF IInv, SlotsOK, Increasing, SlotsAreExclusive, SlotUsedOnce
<1> QED
  BY <1>1, Invariance, PTL
-----------------------------------------------------------------------------
(***************************************************************************)
(* What the slots carry: the queues and the reassembly of TdmaQueues, for  *)
(* any slot size, depth, tokens and timeout and any instance.              *)
(***************************************************************************)
(* The two names of Cardinality are one operator. *)
LEMMA SameCount == \A S : Q!Cardinality(S) = Cardinality(S)
  BY DEF Q!Cardinality, Cardinality

Packets == [life : Nat, sequence : Nat, destination : Nat, size : Nat, offset : Nat,
            fragment_index : Nat]
Items == [life : Nat, class : Nat, sequence : Nat, destination : Nat, whole : Nat,
          offset : Nat, size : Nat, more : BOOLEAN]
Pieces == [life : Nat, sequence : Nat, whole : Nat, offset : Nat, size : Nat]
Entries == [class : Nat, sequence : Nat, total : Nat, pieces : SUBSET Pieces,
            last_update : Nat, gap : Nat, lives : SUBSET Nat]
Finished == [life : Nat, sequence : Nat, class : Nat, destination : Nat]
Slots == [class : Int, destination : Nat, used : Nat]

SenderTypes ==
    /\ Q!ConstantsOK /\ mode \in Modes /\ sending \in BOOLEAN
    /\ available_tokens \in 0..Tokens
    /\ sequence \in Nat /\ life \in Nat /\ early \in Nat
    /\ left \in Seq(Finished) /\ IsFiniteSet(Q!Places)

FrameTypes == /\ filled \in Slots
              /\ items \in Seq(Items) /\ air \in Seq(Items) /\ unpacking \in Seq(Items)

ReceiverTypes == reassembly \subseteq Entries /\ clock \in Nat

ItemOK(m) ==
    /\ Q!End(m) <= m.whole /\ (~m.more => Q!End(m) = m.whole)
    /\ m.offset # 0 \/ m.more => m.size # 0

(* A frame is of one life of the sender, the one being filled of this one. *)
FrameOK(f) ==
    /\ \A i \in 1..Len(f) : ItemOK(f[i])
    /\ \A i, j \in 1..Len(f) : f[i].life = f[j].life

FramesOK ==
    /\ FrameOK(items) /\ FrameOK(air) /\ FrameOK(unpacking)
    /\ \A i \in 1..Len(items) : items[i].life = life
    /\ filled = Q!NoSlot => items = <<>>

(* Everything that was cut and is still somewhere. *)
InFrame(f) == {Q!Piece(f[i]) : i \in 1..Len(f)}

InStore(store) == UNION {e.pieces : e \in store}

Cut == InFrame(items) \cup InFrame(air) \cup InFrame(unpacking) \cup InStore(reassembly)

SamePacket(x, y) == x.life = y.life /\ x.sequence = y.sequence

Apart(x, y) == Q!End(x) <= y.offset \/ Q!End(y) <= x.offset

(* Up to life l of the sender and number n in that life. *)
UpTo(x, l, n) == x.life <= l /\ (x.life = l => x.sequence <= n)

(* Pieces were cut from packets that came, and those of one packet are     *)
(* equal or do not overlap.                                                *)
CutOK(cut, l, n) ==
    /\ cut \subseteq Pieces
    /\ \A x \in cut : UpTo(x, l, n) /\ (x.size # 0 \/ x.whole = 0) /\ Q!End(x) <= x.whole
    /\ \A x, y \in cut : SamePacket(x, y) => x.whole = y.whole /\ (x = y \/ Apart(x, y))

FinishedUpTo(done, l, n) == \A k \in 1..Len(done) : UpTo(done[k], l, n)

(* What was finished in life l for the destination of a packet p that      *)
(* waits in queue c came before it, and what was cut from it lies before   *)
(* what is left of it.                                                     *)
TurnOK(c, p, l, done) ==
    \A k \in 1..Len(done) :
      done[k].life = l /\ done[k].class = c /\ done[k].destination = p.destination
        => done[k].sequence < p.sequence

RestOK(p, cut) ==
    \A x \in cut : SamePacket(x, p) => x.whole = p.size /\ Q!End(x) <= p.offset

PacketOK(c, p, l, n, done, cut) ==
    /\ p.life = l /\ p.sequence <= n
    /\ p.offset # 0 => p.offset < p.size
    /\ TurnOK(c, p, l, done) /\ RestOK(p, cut)

(* Queues are in the order of the sequence numbers, and share none. *)
InOrder(q) == \A i, j \in 1..Len(q) : i < j => q[i].sequence < q[j].sequence

NoneShared(q, r) == \A i \in 1..Len(q), j \in 1..Len(r) : q[i].sequence # r[j].sequence

QueuesOK(K, qs, l, n, done, cut) ==
    /\ qs \in [K -> Seq(Packets)]
    /\ \A c \in K : InOrder(qs[c])
    /\ \A c \in K : \A i \in 1..Len(qs[c]) : PacketOK(c, qs[c][i], l, n, done, cut)
    /\ \A c, d \in K : c # d => NoneShared(qs[c], qs[d])

(* An entry: its pieces are of its number and of the lives it has seen; if *)
(* that is one, its total is the packet's.                                 *)
EntryOK(e) ==
    /\ \A p \in e.pieces : p.sequence = e.sequence /\ p.life \in e.lives /\ p.size # 0
    /\ IsFiniteSet(e.lives)
    /\ e.pieces = {} => e.total = 0
    /\ \A p \in e.pieces : e.total # 0 /\ e.lives = {p.life} => e.total = p.whole

(* Entries met while the frame u is unpacked are not too old; with no time *)
(* at all they are of this frame.                                          *)
RecentOK(e, t, u) ==
    /\ e.last_update <= t
    /\ IF FragmentTimeout > 0
       THEN /\ e.gap < FragmentTimeout
            /\ u # <<>> => t - e.last_update < FragmentTimeout
       ELSE \A i \in 1..Len(u) : e.lives = {u[i].life}

StoreOK(store, t, u) == \A e \in store : EntryOK(e) /\ RecentOK(e, t, u)

SenderOK ==
    /\ SenderTypes /\ QueuesOK(Q!Classes, queues, life, sequence, left, Cut)
    /\ FinishedUpTo(left, life, sequence) /\ Q!FinishedInOrder /\ Q!TokensKept
    /\ CutOK(Cut, life, sequence)

ReceiverOK ==
    /\ FrameTypes /\ ReceiverTypes /\ FramesOK
    /\ StoreOK(reassembly, clock, unpacking) /\ Q!WholeOrMixed

QueuesInv == SenderOK /\ ReceiverOK

-----------------------------------------------------------------------------
(* A sequence without its i-th element. *)
LEMMA WithoutFacts ==
  ASSUME NEW S, NEW q \in Seq(S), NEW i \in 1..Len(q)
  PROVE  /\ Q!Without(q, i) \in Seq(S) /\ Len(Q!Without(q, i)) = Len(q) - 1
         /\ \A j \in 1..(Len(q) - 1) : Q!Without(q, i)[j] = q[IF j < i THEN j ELSE j + 1]
<1> DEFINE a == SubSeq(q, 1, i - 1)
           b == SubSeq(q, i + 1, Len(q))
<1>1. Len(q) \in Nat /\ i \in Nat /\ i >= 1 /\ i <= Len(q)
  BY LenProperties
<1>2. /\ a \in Seq(S) /\ Len(a) = i - 1 /\ \A j \in 1..(i - 1) : a[j] = q[j]
  BY <1>1, SubSeqProperties
<1>3. /\ b \in Seq(S) /\ Len(b) = Len(q) - i /\ \A j \in 1..(Len(q) - i) : b[j] = q[i + j]
  BY <1>1, SubSeqProperties
<1>4. /\ a \o b \in Seq(S) /\ Len(a \o b) = Len(a) + Len(b)
      /\ \A j \in 1..(Len(a) + Len(b)) : (a \o b)[j] = IF j <= Len(a) THEN a[j] ELSE b[j - Len(a)]
  BY <1>2, <1>3, ConcatProperties
<1>5. Q!Without(q, i) = a \o b
  BY DEF Q!Without
<1> HIDE DEF a, b
<1>6. ASSUME NEW j \in 1..(Len(q) - 1)
      PROVE  (a \o b)[j] = q[IF j < i THEN j ELSE j + 1]
  <2>1. CASE j < i
    BY <1>1, <1>2, <1>3, <1>4, <2>1
  <2>2. CASE ~(j < i)
    <3>1. /\ j - Len(a) \in 1..(Len(q) - i) /\ i + (j - Len(a)) = j + 1
          /\ j \in 1..(Len(a) + Len(b)) /\ ~(j <= Len(a))
      BY <1>1, <1>2, <1>3, <2>2
    <3>2. (a \o b)[j] = b[j - Len(a)]
      BY <1>4, <3>1
    <3> QED
      BY <1>3, <2>2, <3>1, <3>2
  <2> QED
    BY <2>1, <2>2
<1>7. a \o b \in Seq(S) /\ Len(a \o b) = Len(q) - 1
  BY <1>1, <1>2, <1>3, <1>4
<1> QED
  BY <1>5, <1>6, <1>7

(* Queues from which one packet is taken away. *)
LEMMA Shorter ==
  ASSUME NEW K, NEW qs, NEW l, NEW n, NEW done, NEW cut, QueuesOK(K, qs, l, n, done, cut),
         NEW c \in K, NEW i \in 1..Len(qs[c])
  PROVE  QueuesOK(K, [qs EXCEPT ![c] = Q!Without(@, i)], l, n, done, cut)
<1> DEFINE rs == [qs EXCEPT ![c] = Q!Without(@, i)]
           m(j) == IF j < i THEN j ELSE j + 1
<1>1. qs \in [K -> Seq(Packets)] /\ qs[c] \in Seq(Packets) /\ Len(qs[c]) \in Nat
  BY LenProperties DEF QueuesOK
<1>2. /\ Q!Without(qs[c], i) \in Seq(Packets) /\ Len(Q!Without(qs[c], i)) = Len(qs[c]) - 1
      /\ \A j \in 1..(Len(qs[c]) - 1) : Q!Without(qs[c], i)[j] = qs[c][m(j)]
  BY <1>1, WithoutFacts
<1>3. rs \in [K -> Seq(Packets)] /\ rs[c] = Q!Without(qs[c], i)
      /\ \A d \in K : d # c => rs[d] = qs[d]
  BY <1>1, <1>2
<1>4. \A j \in 1..Len(rs[c]) : m(j) \in 1..Len(qs[c]) /\ rs[c][j] = qs[c][m(j)]
  BY <1>1, <1>2, <1>3
<1>5. \A j, k \in 1..Len(rs[c]) : j < k => m(j) < m(k)
  BY <1>1, <1>2, <1>3
<1> HIDE DEF rs, m
<1>6. InOrder(rs[c])
  BY <1>4, <1>5 DEF QueuesOK, InOrder
<1>7. \A j \in 1..Len(rs[c]) : PacketOK(c, rs[c][j], l, n, done, cut)
  BY <1>4 DEF QueuesOK
<1>8. ASSUME NEW d \in K, NEW e \in K, d # e
      PROVE  NoneShared(rs[d], rs[e])
  <2>1. NoneShared(qs[d], qs[e])
    BY <1>8 DEF QueuesOK
  <2>2. CASE d = c
    <3>1. ASSUME NEW j \in 1..Len(rs[c]), NEW k \in 1..Len(qs[e])
          PROVE  rs[c][j].sequence # qs[e][k].sequence
      BY <1>4, <2>1, <2>2 DEF NoneShared
    <3>2. rs[e] = qs[e]
      BY <1>3, <1>8, <2>2
    <3> QED
      BY <2>2, <3>1, <3>2 DEF NoneShared
  <2>3. CASE e = c
    BY <1>3, <1>4, <1>8, <2>1, <2>3 DEF NoneShared
  <2>4. CASE d # c /\ e # c
    BY <1>3, <2>1, <2>4
  <2> QED
    BY <2>2, <2>3, <2>4
<1>9. \A d \in K : \A j \in 1..Len(rs[d]) : PacketOK(d, rs[d][j], l, n, done, cut)
  BY <1>3, <1>7 DEF QueuesOK
<1>10. \A d \in K : InOrder(rs[d])
  BY <1>3, <1>6 DEF QueuesOK
<1>11. QueuesOK(K, rs, l, n, done, cut)
  BY <1>3, <1>8, <1>9, <1>10 DEF QueuesOK
<1> QED
  BY <1>11 DEF rs

(* Pieces that are gone do not matter. *)
LEMMA FewerCut ==
  ASSUME NEW K, NEW qs, NEW l, NEW n, NEW done, NEW cut, QueuesOK(K, qs, l, n, done, cut),
         NEW fewer, fewer \subseteq cut
  PROVE  QueuesOK(K, qs, l, n, done, fewer)
  BY DEF QueuesOK, PacketOK, RestOK

(* A packet that comes is put behind those that wait. *)
LEMMA Longer ==
  ASSUME NEW K, NEW qs, NEW l \in Nat, NEW n \in Nat, NEW done \in Seq(Finished), NEW cut,
         QueuesOK(K, qs, l, n, done, cut), CutOK(cut, l, n), FinishedUpTo(done, l, n),
         NEW c \in K, NEW p \in Packets, p.life = l, p.sequence = n + 1, p.offset = 0
  PROVE  QueuesOK(K, [qs EXCEPT ![c] = Append(@, p)], l, n + 1, done, cut)
<1> DEFINE rs == [qs EXCEPT ![c] = Append(@, p)]
<1>1. qs \in [K -> Seq(Packets)] /\ \A d \in K : qs[d] \in Seq(Packets) /\ Len(qs[d]) \in Nat
  BY LenProperties DEF QueuesOK
<1>2. /\ Append(qs[c], p) \in Seq(Packets) /\ Len(Append(qs[c], p)) = Len(qs[c]) + 1
      /\ \A j \in 1..Len(qs[c]) : Append(qs[c], p)[j] = qs[c][j]
      /\ Append(qs[c], p)[Len(qs[c]) + 1] = p
  BY <1>1, AppendProperties
<1>3. rs \in [K -> Seq(Packets)] /\ rs[c] = Append(qs[c], p)
      /\ \A d \in K : d # c => rs[d] = qs[d]
  BY <1>1, <1>2
<1> HIDE DEF rs
<1>4. \A d \in K : \A j \in 1..Len(qs[d]) : qs[d][j] \in Packets /\ qs[d][j].sequence <= n
  BY <1>1, ElementOfSeq DEF QueuesOK, PacketOK
<1>5. \A j \in 1..Len(rs[c]) : (j \in 1..Len(qs[c]) /\ rs[c][j] = qs[c][j])
                                \/ (j = Len(qs[c]) + 1 /\ rs[c][j] = p)
  <2>1. Len(qs[c]) \in Nat /\ Len(rs[c]) = Len(qs[c]) + 1
    BY <1>1, <1>2, <1>3
  <2>2. \A j \in 1..Len(rs[c]) : j \in 1..Len(qs[c]) \/ j = Len(qs[c]) + 1
    BY <2>1
  <2>3. \A j \in 1..Len(qs[c]) : rs[c][j] = qs[c][j]
    BY <1>2, <1>3
  <2>4. rs[c][Len(qs[c]) + 1] = p
    BY <1>2, <1>3
  <2> QED
    BY <2>2, <2>3, <2>4
<1>6. InOrder(rs[c])
  <2>1. ASSUME NEW i \in 1..Len(rs[c]), NEW j \in 1..Len(rs[c]), i < j
        PROVE  rs[c][i].sequence < rs[c][j].sequence
    <3>1. i \in 1..Len(qs[c]) /\ rs[c][i] = qs[c][i]
      BY <1>1, <1>2, <1>3, <1>5, <2>1
    <3>2. CASE j \in 1..Len(qs[c]) /\ rs[c][j] = qs[c][j]
      BY <2>1, <3>1, <3>2 DEF QueuesOK, InOrder
    <3>3. CASE rs[c][j] = p
      <4>1. qs[c][i].sequence \in Nat /\ qs[c][i].sequence <= n
        BY <1>4, <3>1 DEF Packets
      <4> QED
        BY <3>1, <3>3, <4>1
    <3> QED
      BY <1>5, <3>2, <3>3
  <2> QED
    BY <2>1 DEF InOrder
<1>7. PacketOK(c, p, l, n + 1, done, cut)
  <2>1. \A k \in 1..Len(done) : done[k] \in Finished
    BY ElementOfSeq
  <2>2. TurnOK(c, p, l, done)
    BY <2>1 DEF TurnOK, FinishedUpTo, UpTo, Finished
  <2>3. RestOK(p, cut)
    BY DEF RestOK, CutOK, UpTo, SamePacket, Pieces
  <2> QED
    BY <2>2, <2>3 DEF PacketOK
<1>8. ASSUME NEW d \in K, NEW j \in 1..Len(qs[d])
      PROVE  PacketOK(d, qs[d][j], l, n + 1, done, cut)
  <2>1. PacketOK(d, qs[d][j], l, n, done, cut) /\ qs[d][j].sequence \in Nat
    BY <1>4 DEF QueuesOK, Packets
  <2> QED
    BY <2>1 DEF PacketOK
<1>9. \A d \in K : \A j \in 1..Len(rs[d]) : PacketOK(d, rs[d][j], l, n + 1, done, cut)
  BY <1>3, <1>5, <1>7, <1>8
<1>10. \A d \in K : InOrder(rs[d])
  BY <1>3, <1>6 DEF QueuesOK
<1>11. ASSUME NEW d \in K, NEW e \in K, d # e
      PROVE  NoneShared(rs[d], rs[e])
  <2>1. NoneShared(qs[d], qs[e])
    BY <1>11 DEF QueuesOK
  <2>2. \A f \in K : \A j \in 1..Len(qs[f]) : qs[f][j].sequence # p.sequence
    BY <1>4 DEF Packets
  <2>3. ASSUME NEW i \in 1..Len(rs[d]), NEW j \in 1..Len(rs[e])
        PROVE  rs[d][i].sequence # rs[e][j].sequence
    <3>1. CASE d = c
      <4>1. rs[e] = qs[e]
        BY <1>3, <1>11, <3>1
      <4> QED
        BY <1>5, <2>1, <2>2, <2>3, <3>1, <4>1 DEF NoneShared
    <3>2. CASE d # c
      <4>1. rs[d] = qs[d]
        BY <1>3, <3>2
      <4>2. CASE e = c
        BY <1>5, <2>1, <2>2, <2>3, <4>1, <4>2 DEF NoneShared
      <4>3. CASE e # c
        BY <1>3, <2>1, <2>3, <4>1, <4>3 DEF NoneShared
      <4> QED
        BY <4>2, <4>3
    <3> QED
      BY <3>1, <3>2
  <2> QED
    BY <2>3 DEF NoneShared
<1>12. QueuesOK(K, rs, l, n + 1, done, cut)
  BY <1>3, <1>9, <1>10, <1>11 DEF QueuesOK
<1> QED
  BY <1>12 DEF rs

(* A sequence number is in one place only. *)
LEMMA OnePlace ==
  ASSUME NEW K, NEW qs, NEW l, NEW n, NEW done, NEW cut, QueuesOK(K, qs, l, n, done, cut),
         NEW c \in K, NEW d \in K, NEW i \in 1..Len(qs[c]), NEW j \in 1..Len(qs[d]),
         qs[c][i].sequence = qs[d][j].sequence
  PROVE  c = d /\ i = j
<1>1. c = d
  BY DEF QueuesOK, NoneShared
<1>2. /\ qs[c] \in Seq(Packets) /\ Len(qs[c]) \in Nat
  BY LenProperties DEF QueuesOK
<1>3. qs[c][i].sequence \in Nat /\ InOrder(qs[c]) /\ j \in 1..Len(qs[c])
  <2>1. qs[c][i] \in Packets
    BY <1>2, ElementOfSeq
  <2> QED
    BY <1>1, <2>1 DEF QueuesOK, Packets
<1>4. ~(i < j) /\ ~(j < i)
  BY <1>1, <1>3 DEF InOrder
<1>5. i \in Int /\ j \in Int
  BY <1>2, <1>3
<1> QED
  BY <1>1, <1>4, <1>5

(* y is cut from the packet p, which has the beginning of y left. *)
CutFrom(y, p) ==
    /\ y \in Pieces /\ SamePacket(y, p) /\ y.whole = p.size /\ y.offset = p.offset
    /\ Q!End(y) <= y.whole /\ (y.size # 0 \/ y.whole = 0)

(* What is cut next overlaps nothing that was cut before. *)
LEMMA OneMoreCut ==
  ASSUME NEW K, NEW qs, NEW l \in Nat, NEW n \in Nat, NEW done, NEW cut,
         QueuesOK(K, qs, l, n, done, cut), CutOK(cut, l, n),
         NEW c \in K, NEW i \in 1..Len(qs[c]), NEW y, CutFrom(y, qs[c][i])
  PROVE  CutOK(cut \cup {y}, l, n)
<1> DEFINE p == qs[c][i]
<1>1. PacketOK(c, p, l, n, done, cut)
  BY DEF QueuesOK
<1> HIDE DEF p
<1>2. y \in Pieces /\ SamePacket(y, p) /\ y.whole = p.size /\ y.offset = p.offset
      /\ Q!End(y) <= y.whole /\ (y.size # 0 \/ y.whole = 0)
  BY DEF CutFrom, p
<1>3. UpTo(y, l, n)
  BY <1>1, <1>2 DEF PacketOK, SamePacket, UpTo
<1>4. \A x \in cut : SamePacket(x, y) => x.whole = y.whole /\ Q!End(x) <= y.offset
  BY <1>1, <1>2 DEF PacketOK, RestOK, SamePacket
<1>5. \A x, z \in cut \cup {y} : SamePacket(x, z) => x.whole = z.whole /\ (x = z \/ Apart(x, z))
  BY <1>4 DEF CutOK, Apart, SamePacket
<1>6. \A x \in cut \cup {y} : UpTo(x, l, n) /\ (x.size # 0 \/ x.whole = 0) /\ Q!End(x) <= x.whole
  BY <1>2, <1>3 DEF CutOK
<1>7. cut \cup {y} \subseteq Pieces
  BY <1>2 DEF CutOK
<1> QED
  BY <1>5, <1>6, <1>7 DEF CutOK

(* What is cut from one packet is no matter of another. *)
LEMMA OthersRest ==
  ASSUME NEW K, NEW qs, NEW l, NEW n, NEW done, NEW cut, QueuesOK(K, qs, l, n, done, cut),
         NEW c \in K, NEW i \in 1..Len(qs[c]), NEW y, CutFrom(y, qs[c][i]),
         NEW d \in K, NEW j \in 1..Len(qs[d]), d # c \/ j # i
  PROVE  RestOK(qs[d][j], cut \cup {y})
<1>1. RestOK(qs[d][j], cut)
  BY DEF QueuesOK, PacketOK
<1>2. qs[d][j].sequence # qs[c][i].sequence
  BY OnePlace
<1>3. ~SamePacket(y, qs[d][j])
  BY <1>2 DEF CutFrom, SamePacket
<1> QED
  BY <1>1, <1>3 DEF RestOK

(* A part of a packet is taken, and the rest of it stays. *)
LEMMA SomeTaken ==
  ASSUME NEW K, NEW qs, NEW l, NEW n, NEW done, NEW cut, QueuesOK(K, qs, l, n, done, cut),
         cut \subseteq Pieces,
         NEW c \in K, NEW i \in 1..Len(qs[c]), NEW y, CutFrom(y, qs[c][i]),
         NEW r \in Packets, SamePacket(r, qs[c][i]), r.destination = qs[c][i].destination,
         r.size = qs[c][i].size, r.offset = Q!End(y), r.offset < r.size
  PROVE  QueuesOK(K, [qs EXCEPT ![c][i] = r], l, n, done, cut \cup {y})
<1> DEFINE rs == [qs EXCEPT ![c][i] = r]
           p == qs[c][i]
<1>1. qs \in [K -> Seq(Packets)] /\ qs[c] \in Seq(Packets)
  BY DEF QueuesOK
<1>2. /\ [qs[c] EXCEPT ![i] = r] \in Seq(Packets) /\ Len([qs[c] EXCEPT ![i] = r]) = Len(qs[c])
      /\ \A j \in 1..Len(qs[c]) : [qs[c] EXCEPT ![i] = r][j] = IF j = i THEN r ELSE qs[c][j]
  BY <1>1, ExceptSeq
<1>3. /\ rs \in [K -> Seq(Packets)] /\ rs[c] = [qs[c] EXCEPT ![i] = r]
      /\ \A d \in K : d # c => rs[d] = qs[d]
  BY <1>1, <1>2
<1> HIDE DEF rs
<1>4. \A d \in K : Len(rs[d]) = Len(qs[d])
  BY <1>2, <1>3
<1>5. \A d \in K : \A j \in 1..Len(qs[d]) : d # c \/ j # i => rs[d][j] = qs[d][j]
  BY <1>2, <1>3
<1>6. rs[c][i] = r
  BY <1>2, <1>3
<1>7. \A d \in K : \A j \in 1..Len(qs[d]) : rs[d][j].sequence = qs[d][j].sequence
  BY <1>5, <1>6 DEF SamePacket
<1>8. \A d \in K : InOrder(rs[d])
  BY <1>4, <1>7 DEF QueuesOK, InOrder
<1>9. \A d, e \in K : d # e => NoneShared(rs[d], rs[e])
  BY <1>4, <1>7 DEF QueuesOK, NoneShared
<1>10. PacketOK(c, r, l, n, done, cut \cup {y})
  <2>1. PacketOK(c, p, l, n, done, cut)
    BY DEF QueuesOK
  <2>2. p.offset = y.offset /\ r.offset = y.offset + y.size /\ y.offset \in Nat /\ y.size \in Nat
    BY DEF CutFrom, Q!End, Pieces
  <2>3. ASSUME NEW x \in cut, SamePacket(x, r)
        PROVE  x.whole = r.size /\ Q!End(x) <= r.offset
    <3>1. x.whole = p.size /\ Q!End(x) <= p.offset
      BY <2>1, <2>3 DEF PacketOK, RestOK, SamePacket
    <3>2. Q!End(x) \in Nat
      BY DEF Q!End, Pieces
    <3> QED
      BY <2>2, <3>1, <3>2
  <2>4. y.whole = r.size /\ Q!End(y) <= r.offset
    BY <2>2 DEF CutFrom, Q!End
  <2>5. RestOK(r, cut \cup {y})
    BY <2>3, <2>4 DEF RestOK
  <2>6. TurnOK(c, r, l, done)
    BY <2>1 DEF PacketOK, TurnOK, SamePacket
  <2> QED
    BY <2>1, <2>5, <2>6 DEF PacketOK, SamePacket
<1>11. ASSUME NEW d \in K, NEW j \in 1..Len(qs[d]), d # c \/ j # i
       PROVE  PacketOK(d, rs[d][j], l, n, done, cut \cup {y})
  <2>1. PacketOK(d, qs[d][j], l, n, done, cut) /\ rs[d][j] = qs[d][j]
    BY <1>5, <1>11 DEF QueuesOK
  <2>2. RestOK(qs[d][j], cut \cup {y})
    BY <1>11, OthersRest
  <2> QED
    BY <2>1, <2>2 DEF PacketOK
<1>12. \A d \in K : \A j \in 1..Len(rs[d]) : PacketOK(d, rs[d][j], l, n, done, cut \cup {y})
  BY <1>4, <1>6, <1>10, <1>11
<1>13. QueuesOK(K, rs, l, n, done, cut \cup {y})
  BY <1>3, <1>8, <1>9, <1>12 DEF QueuesOK
<1> QED
  BY <1>13 DEF rs

(* The rest of a packet is taken, the first for its destination. *)
LEMMA AllTaken ==
  ASSUME NEW K, NEW qs, NEW l, NEW n, NEW done \in Seq(Finished), NEW cut,
         QueuesOK(K, qs, l, n, done, cut),
         NEW c \in K, NEW i \in 1..Len(qs[c]), NEW y, CutFrom(y, qs[c][i]),
         \A j \in 1..(i - 1) : qs[c][j].destination # qs[c][i].destination,
         NEW f \in Finished, SamePacket(f, qs[c][i]), f.class = c,
         f.destination = qs[c][i].destination
  PROVE  QueuesOK(K, [qs EXCEPT ![c] = Q!Without(@, i)], l, n, Append(done, f), cut \cup {y})
<1> DEFINE rs == [qs EXCEPT ![c] = Q!Without(@, i)]
           m(j) == IF j < i THEN j ELSE j + 1
<1>1. QueuesOK(K, rs, l, n, done, cut)
  BY Shorter
<1>2. qs \in [K -> Seq(Packets)] /\ qs[c] \in Seq(Packets) /\ Len(qs[c]) \in Nat
  BY LenProperties DEF QueuesOK
<1>3. /\ Q!Without(qs[c], i) \in Seq(Packets) /\ Len(Q!Without(qs[c], i)) = Len(qs[c]) - 1
      /\ \A j \in 1..(Len(qs[c]) - 1) : Q!Without(qs[c], i)[j] = qs[c][m(j)]
  BY <1>2, WithoutFacts
<1>4. rs[c] = Q!Without(qs[c], i) /\ \A d \in K : d # c => rs[d] = qs[d]
  BY <1>2
<1>5. \A j \in 1..Len(rs[c]) : /\ m(j) \in 1..Len(qs[c]) /\ m(j) # i
                               /\ rs[c][j] = qs[c][m(j)]
  BY <1>2, <1>3, <1>4
<1> HIDE DEF rs, m
<1>6. /\ Append(done, f) \in Seq(Finished) /\ Len(done) \in Nat
      /\ Len(Append(done, f)) = Len(done) + 1 /\ Append(done, f)[Len(done) + 1] = f
      /\ \A k \in 1..Len(done) : Append(done, f)[k] = done[k]
  BY AppendProperties, LenProperties
<1>7. ASSUME NEW d \in K, NEW j \in 1..Len(rs[d])
      PROVE  \E k \in 1..Len(qs[d]) : (d # c \/ k # i) /\ rs[d][j] = qs[d][k]
  BY <1>4, <1>5
<1>8. ASSUME NEW d \in K, NEW k \in 1..Len(qs[d]), d # c \/ k # i
      PROVE  PacketOK(d, qs[d][k], l, n, Append(done, f), cut \cup {y})
  <2>1. PacketOK(d, qs[d][k], l, n, done, cut)
    BY DEF QueuesOK
  <2>2. RestOK(qs[d][k], cut \cup {y})
    BY <1>8, OthersRest, ZenonT(30)
  <2>3. ASSUME d = c, f.destination = qs[d][k].destination
        PROVE  f.sequence < qs[d][k].sequence
    <3>1. k \in 1..Len(qs[c]) /\ k # i /\ ~(k \in 1..(i - 1))
      BY <1>8, <2>3
    <3>2. k > i
      BY <1>2, <3>1
    <3> QED
      BY <2>3, <3>1, <3>2 DEF QueuesOK, InOrder, SamePacket
  <2>4. TurnOK(d, qs[d][k], l, Append(done, f))
    <3>1. ASSUME NEW h \in 1..Len(Append(done, f)), Append(done, f)[h].life = l,
                 Append(done, f)[h].class = d,
                 Append(done, f)[h].destination = qs[d][k].destination
          PROVE  Append(done, f)[h].sequence < qs[d][k].sequence
      <4>1. CASE h \in 1..Len(done)
        BY <1>6, <2>1, <3>1, <4>1 DEF PacketOK, TurnOK
      <4>2. CASE h = Len(done) + 1
        BY <1>6, <2>3, <3>1, <4>2
      <4> QED
        BY <1>6, <4>1, <4>2
    <3> QED
      BY <3>1 DEF TurnOK
  <2> QED
    BY <2>1, <2>2, <2>4 DEF PacketOK
<1>9. \A d \in K : \A j \in 1..Len(rs[d]) :
        PacketOK(d, rs[d][j], l, n, Append(done, f), cut \cup {y})
  BY <1>7, <1>8
<1>10. QueuesOK(K, rs, l, n, Append(done, f), cut \cup {y})
  BY <1>1, <1>9 DEF QueuesOK
<1> QED
  BY <1>10 DEF rs

(* One packet more waits, or one less. *)
LEMMA OneMorePlace ==
  ASSUME IsFiniteSet(Q!Places), UNCHANGED mode, NEW c \in Q!Classes, Len(queues[c]) \in Nat,
         \A d \in Q!Classes : d # c => Len(queues'[d]) = Len(queues[d]),
         Len(queues'[c]) = Len(queues[c]) + 1
  PROVE  IsFiniteSet(Q!Places') /\ Q!Waiting' = Q!Waiting + 1
<1>1. Q!Places' = Q!Places \cup {<<c, Len(queues[c]) + 1>>}
  <2>1. ASSUME NEW x
        PROVE  x \in Q!Places' <=> x \in Q!Places \/ x = <<c, Len(queues[c]) + 1>>
    <3>1. x \in Q!Places <=> \E d \in Q!Classes : \E j \in 1..Len(queues[d]) : x = <<d, j>>
      BY DEF Q!Places
    <3>2. x \in Q!Places' <=> \E d \in Q!Classes : \E j \in 1..Len(queues'[d]) : x = <<d, j>>
      BY DEF Q!Places, Q!Classes
    <3>3. 1..Len(queues'[c]) = (1..Len(queues[c])) \cup {Len(queues[c]) + 1}
      OBVIOUS
    <3> QED
      BY <3>1, <3>2, <3>3
  <2> QED
    BY <2>1
<1>2. <<c, Len(queues[c]) + 1>> \notin Q!Places
  BY DEF Q!Places
<1> QED
  BY <1>1, <1>2, FS_AddElement, SameCount DEF Q!Waiting

(* One packet less waits. *)
LEMMA OneLessPlace ==
  ASSUME IsFiniteSet(Q!Places), UNCHANGED mode, NEW c \in Q!Classes, Len(queues[c]) \in Nat \ {0},
         \A d \in Q!Classes : d # c => Len(queues'[d]) = Len(queues[d]),
         Len(queues'[c]) = Len(queues[c]) - 1
  PROVE  IsFiniteSet(Q!Places') /\ Q!Waiting' = Q!Waiting - 1 /\ Q!Waiting \in Nat \ {0}
<1>1. Q!Places' = Q!Places \ {<<c, Len(queues[c])>>}
  <2>1. ASSUME NEW x
        PROVE  x \in Q!Places' <=> x \in Q!Places /\ x # <<c, Len(queues[c])>>
    <3>1. x \in Q!Places <=> \E d \in Q!Classes : \E j \in 1..Len(queues[d]) : x = <<d, j>>
      BY DEF Q!Places
    <3>2. x \in Q!Places' <=> \E d \in Q!Classes : \E j \in 1..Len(queues'[d]) : x = <<d, j>>
      BY DEF Q!Places, Q!Classes
    <3>3. 1..Len(queues'[c]) = (1..Len(queues[c])) \ {Len(queues[c])}
      OBVIOUS
    <3> QED
      BY <3>1, <3>2, <3>3
  <2> QED
    BY <2>1
<1>2. <<c, Len(queues[c])>> \in Q!Places
  BY DEF Q!Places
<1>3. Q!Waiting \in Nat
  BY FS_CardinalityType, SameCount DEF Q!Waiting
<1>4. Q!Waiting # 0
  BY <1>2, FS_EmptySet, SameCount DEF Q!Waiting
<1> QED
  BY <1>1, <1>2, <1>3, <1>4, FS_RemoveElement, SameCount DEF Q!Waiting

(* As many packets wait. *)
LEMMA SamePlaces ==
  ASSUME UNCHANGED mode, \A d \in Q!Classes : Len(queues'[d]) = Len(queues[d])
  PROVE  Q!Places' = Q!Places /\ Q!Waiting' = Q!Waiting
<1>1. Q!Places' = Q!Places
  BY DEF Q!Places, Q!Classes
<1> QED
  BY <1>1, SameCount DEF Q!Waiting
-----------------------------------------------------------------------------
(***************************************************************************)
(* The sender's steps.                                                     *)
(***************************************************************************)
(* What the assumption says of the constants and the instance. *)
LEMMA ModeFacts ==
  ASSUME SenderTypes
  PROVE  /\ Tokens \in Nat /\ Capacity \in Nat /\ Depth \in Nat /\ FragmentTimeout \in Nat
         /\ Q!Classes \subseteq Nat /\ Q!Nems \subseteq Nat /\ Q!Sizes \subseteq Nat
         /\ -1 \notin Q!Classes /\ mode.flow \in BOOLEAN
  BY DEF SenderTypes, Q!ConstantsOK, Q!Classes, Q!Nems, Q!Sizes

(* A queue and the packets in it. *)
LEMMA QueueFacts ==
  ASSUME QueuesOK(Q!Classes, queues, life, sequence, left, Cut), NEW c \in Q!Classes
  PROVE  /\ queues \in [Q!Classes -> Seq(Packets)] /\ queues[c] \in Seq(Packets)
         /\ Len(queues[c]) \in Nat
         /\ \A i \in 1..Len(queues[c]) : queues[c][i] \in Packets
<1>1. queues \in [Q!Classes -> Seq(Packets)] /\ queues[c] \in Seq(Packets)
  BY DEF QueuesOK
<1> QED
  BY <1>1, LenProperties, ElementOfSeq

(* The place of the packet a full queue loses. *)
LEMMA VictimPlace ==
  ASSUME NEW q \in Seq(Packets), q # <<>>
  PROVE  Q!Victim(q) \in 1..Len(q)
<1>1. Len(q) \in Nat /\ 1 \in 1..Len(q)
  BY EmptySeq, LenProperties
<1>2. CASE \E i \in 1..Len(q) : q[i].fragment_index = 0
  <2> DEFINE S == {i \in 1..Len(q) : q[i].fragment_index = 0}
  <2>1. S \subseteq Nat /\ S # {}
    BY <1>1, <1>2
  <2>2. PICK i \in S : \A j \in S : i <= j
    BY <2>1, Least
  <2>3. \A j \in 1..(i - 1) : q[j].fragment_index # 0
    BY <1>1, <2>2
  <2>4. \E k \in 1..Len(q) : /\ q[k].fragment_index = 0
                             /\ \A j \in 1..(k - 1) : q[j].fragment_index # 0
    BY <2>2, <2>3
  <2> QED
    BY <1>2, <2>4 DEF Q!Victim
<1>3. CASE ~\E i \in 1..Len(q) : q[i].fragment_index = 0
  BY <1>1, <1>3 DEF Q!Victim
<1> QED
  BY <1>2, <1>3

(* What came before comes before a larger number. *)
LEMMA LaterNumber ==
  ASSUME NEW cut, NEW l \in Nat, NEW n \in Nat, CutOK(cut, l, n), NEW done \in Seq(Finished),
         FinishedUpTo(done, l, n)
  PROVE  CutOK(cut, l, n + 1) /\ FinishedUpTo(done, l, n + 1)
<1>1. \A k \in 1..Len(done) : done[k].sequence \in Nat
  <2>1. \A k \in 1..Len(done) : done[k] \in Finished
    BY ElementOfSeq
  <2> QED
    BY <2>1 DEF Finished
<1>2. \A x \in cut : x.sequence \in Nat
  BY DEF CutOK, Pieces
<1>3. \A x \in cut : UpTo(x, l, n + 1)
  BY <1>2 DEF CutOK, UpTo
<1>4. \A k \in 1..Len(done) : UpTo(done[k], l, n + 1)
  BY <1>1 DEF FinishedUpTo, UpTo
<1> QED
  BY <1>3, <1>4 DEF CutOK, FinishedUpTo

(* What came before comes before a later life. *)
LEMMA LaterLife ==
  ASSUME NEW cut, NEW l \in Nat, NEW n \in Nat, CutOK(cut, l, n), NEW done \in Seq(Finished),
         FinishedUpTo(done, l, n)
  PROVE  CutOK(cut, l + 1, 0) /\ FinishedUpTo(done, l + 1, 0)
<1>1. \A k \in 1..Len(done) : done[k].life \in Nat
  <2>1. \A k \in 1..Len(done) : done[k] \in Finished
    BY ElementOfSeq
  <2> QED
    BY <2>1 DEF Finished
<1>2. \A x \in cut : x.life \in Nat
  BY DEF CutOK, Pieces
<1>3. \A x \in cut : UpTo(x, l + 1, 0)
  BY <1>2 DEF CutOK, UpTo
<1>4. \A k \in 1..Len(done) : UpTo(done[k], l + 1, 0)
  BY <1>1 DEF FinishedUpTo, UpTo
<1> QED
  BY <1>3, <1>4 DEF CutOK, FinishedUpTo

(* Tokens are credited and spent. *)
LEMMA CreditedFacts ==
  ASSUME SenderTypes
  PROVE  /\ Q!Credited \in 0..Tokens /\ Q!Credited >= available_tokens
         /\ available_tokens < Tokens => Q!Credited = available_tokens + 1
         /\ available_tokens = Tokens => Q!Credited = Tokens
<1>1. Tokens \in Nat /\ available_tokens \in 0..Tokens
  BY ModeFacts DEF SenderTypes
<1> QED
  BY <1>1 DEF Q!Credited

(* A packet comes, and a full queue loses one. *)
LEMMA DownstreamSender ==
  ASSUME QueuesInv, NEW c \in Q!Classes, NEW dest \in Q!Nems, NEW size \in Q!Sizes,
         Q!Downstream(c, dest, size)
  PROVE  SenderOK'
<1> DEFINE q == queues[c]
           p == [life |-> life, sequence |-> sequence + 1, destination |-> dest, size |-> size,
                 offset |-> 0, fragment_index |-> 0]
           kept == [queues EXCEPT ![c] = Q!Kept(@)]
<1>1. SenderTypes /\ QueuesOK(Q!Classes, queues, life, sequence, left, Cut)
      /\ FinishedUpTo(left, life, sequence) /\ CutOK(Cut, life, sequence)
      /\ Q!FinishedInOrder /\ Q!TokensKept
  BY DEF QueuesInv, SenderOK
<1>2. /\ Depth # 0 /\ sequence' = sequence + 1 /\ mode' = mode /\ sending' = sending
      /\ life' = life /\ early' = early /\ left' = left /\ Cut' = Cut
      /\ queues' = [queues EXCEPT ![c] = Append(Q!Kept(@), p)]
      /\ ~(mode.flow /\ available_tokens = 0)
      /\ available_tokens' = IF mode.flow THEN Q!TokensAfter(q) ELSE available_tokens
  BY DEF Q!Downstream, Q!filling, Q!receiver, Cut
<1>3. /\ queues \in [Q!Classes -> Seq(Packets)] /\ q \in Seq(Packets) /\ Len(q) \in Nat
      /\ Tokens \in Nat /\ Depth \in Nat /\ mode.flow \in BOOLEAN
      /\ sequence \in Nat /\ life \in Nat /\ left \in Seq(Finished) /\ IsFiniteSet(Q!Places)
      /\ available_tokens \in 0..Tokens
  BY <1>1, QueueFacts, ModeFacts DEF SenderTypes
<1>4. p \in Packets
  BY <1>1, <1>3, ModeFacts DEF Packets
<1>5. Len(q) >= Depth => q # <<>> /\ Q!Victim(q) \in 1..Len(q)
  <2>1. ASSUME Len(q) >= Depth
        PROVE  q # <<>>
    BY <1>2, <1>3, <2>1, EmptySeq
  <2> QED
    BY <1>3, <2>1, VictimPlace
<1>6. QueuesOK(Q!Classes, kept, life, sequence, left, Cut)
  <2>1. CASE Len(q) >= Depth
    <3>1. kept = [queues EXCEPT ![c] = Q!Without(@, Q!Victim(@))]
      BY <2>1 DEF Q!Kept
    <3>2. kept = [queues EXCEPT ![c] = Q!Without(@, Q!Victim(q))]
      BY <3>1
    <3> QED
      BY <1>1, <1>5, <2>1, <3>2, Shorter
  <2>2. CASE ~(Len(q) >= Depth)
    <3>1. kept = queues
      BY <1>3, <2>2 DEF Q!Kept
    <3> QED
      BY <1>1, <3>1
  <2> QED
    BY <2>1, <2>2
<1>7. queues' = [kept EXCEPT ![c] = Append(@, p)]
  BY <1>2, <1>3
<1>8. QueuesOK(Q!Classes, queues', life, sequence + 1, left, Cut)
  <2> HIDE DEF p, kept
  <2>1. p.life = life /\ p.sequence = sequence + 1 /\ p.offset = 0
    BY DEF p
  <2> QED
    BY <1>1, <1>3, <1>4, <1>6, <1>7, <2>1, Longer
<1>9. CutOK(Cut, life, sequence + 1) /\ FinishedUpTo(left, life, sequence + 1)
  BY <1>1, <1>3, LaterNumber
<1>10. \A d \in Q!Classes : d # c => queues'[d] = queues[d]
  BY <1>2, <1>3
<1>11. queues'[c] = Append(Q!Kept(q), p)
  BY <1>2, <1>3
<1>12. /\ IsFiniteSet(Q!Places') /\ Q!Waiting \in Nat
       /\ Len(q) >= Depth => Q!Waiting' = Q!Waiting /\ Q!Waiting > 0
       /\ ~(Len(q) >= Depth) => Q!Waiting' = Q!Waiting + 1
  <2>1. Q!Waiting \in Nat
    BY <1>3, FS_CardinalityType, SameCount DEF Q!Waiting
  <2>2. CASE Len(q) >= Depth
    <3>1. Q!Without(q, Q!Victim(q)) \in Seq(Packets) /\ Len(Q!Without(q, Q!Victim(q))) = Len(q) - 1
      BY <1>3, <1>5, <2>2, WithoutFacts
    <3>2. Q!Kept(q) = Q!Without(q, Q!Victim(q))
      BY <2>2 DEF Q!Kept
    <3>3. Len(queues'[c]) = Len(queues[c])
      BY <1>3, <1>4, <1>11, <3>1, <3>2, AppendProperties
    <3>4. Q!Places' = Q!Places /\ Q!Waiting' = Q!Waiting
      BY <1>2, <1>10, <3>3, SamePlaces
    <3>5. <<c, 1>> \in Q!Places
      <4>1. 1 \in 1..Len(queues[c])
        BY <1>2, <1>3, <2>2
      <4> QED
        BY <4>1 DEF Q!Places
    <3>6. Q!Waiting # 0
      BY <1>3, <3>5, FS_EmptySet, SameCount DEF Q!Waiting
    <3> QED
      BY <1>3, <2>1, <2>2, <3>4, <3>6
  <2>3. CASE ~(Len(q) >= Depth)
    <3>1. Q!Kept(q) = q
      BY <2>3 DEF Q!Kept
    <3>2. Len(queues'[c]) = Len(queues[c]) + 1
      BY <1>3, <1>4, <1>11, <3>1, AppendProperties
    <3>3. IsFiniteSet(Q!Places') /\ Q!Waiting' = Q!Waiting + 1
      BY <1>2, <1>3, <1>10, <3>2, OneMorePlace
    <3> QED
      BY <2>1, <2>3, <3>3
  <2> QED
    BY <2>2, <2>3
<1>13. available_tokens' \in 0..Tokens
  <2>1. Q!Credited \in 0..Tokens /\ Q!Credited >= available_tokens
    BY <1>1, CreditedFacts
  <2> QED
    BY <1>2, <1>3, <2>1 DEF Q!TokensAfter
<1>14. Q!TokensKept'
  <2> SUFFICES ASSUME sending, mode.flow
               PROVE  available_tokens' + Q!Waiting' \in Tokens..(Tokens + early)
    BY <1>2, <1>13 DEF Q!TokensKept
  <2>1. available_tokens + Q!Waiting \in Tokens..(Tokens + early) /\ early \in Nat
    BY <1>1 DEF Q!TokensKept, SenderTypes
  <2>2. available_tokens' = Q!TokensAfter(q)
    BY <1>2
  <2>3. CASE Len(q) >= Depth
    <3>1. available_tokens' = Q!Credited - 1
      BY <2>2, <2>3 DEF Q!TokensAfter
    <3> QED
      BY <1>1, <1>3, <1>12, <2>1, <2>3, <3>1, CreditedFacts
  <2>4. CASE ~(Len(q) >= Depth)
    <3>1. available_tokens' = available_tokens - 1
      BY <2>2, <2>4 DEF Q!TokensAfter
    <3> QED
      BY <1>3, <1>12, <2>1, <2>4, <3>1
  <2> QED
    BY <2>3, <2>4
<1>15. Q!FinishedInOrder'
  BY <1>1, <1>2 DEF Q!FinishedInOrder
<1>16. SenderTypes'
  BY <1>1, <1>2, <1>3, <1>12, <1>13 DEF SenderTypes, Q!ConstantsOK
<1>17. Q!Classes' = Q!Classes
  BY <1>2 DEF Q!Classes
<1> QED
  BY <1>2, <1>8, <1>9, <1>14, <1>15, <1>16, <1>17 DEF SenderOK

(* The token of a packet that leaves the queues comes back. *)
LEMMA TokenBack ==
  ASSUME SenderTypes, Q!TokensKept, Q!Credit, UNCHANGED <<mode, sending, early>>,
         Q!Waiting \in Nat \ {0}, Q!Waiting' = Q!Waiting - 1
  PROVE  available_tokens' \in 0..Tokens /\ Q!TokensKept'
<1>1. Tokens \in Nat /\ available_tokens \in 0..Tokens /\ early \in Nat /\ mode.flow \in BOOLEAN
  BY ModeFacts DEF SenderTypes
<1>2. /\ Q!Credited \in 0..Tokens
      /\ available_tokens < Tokens => Q!Credited = available_tokens + 1
      /\ available_tokens = Tokens => Q!Credited = Tokens
  BY CreditedFacts
<1>3. available_tokens' \in 0..Tokens
  BY <1>1, <1>2 DEF Q!Credit
<1>4. ASSUME sending, mode.flow
      PROVE  available_tokens' + Q!Waiting' \in Tokens..(Tokens + early)
  <2>1. available_tokens + Q!Waiting \in Tokens..(Tokens + early)
    BY <1>4 DEF Q!TokensKept
  <2>2. available_tokens' = Q!Credited
    BY <1>4 DEF Q!Credit
  <2> QED
    BY <1>1, <1>2, <2>1, <2>2
<1> QED
  BY <1>3, <1>4 DEF Q!TokensKept

(* The i-th packet of queue c is taken away. *)
LEMMA PlaceTaken ==
  ASSUME SenderTypes, QueuesOK(Q!Classes, queues, life, sequence, left, Cut), UNCHANGED mode,
         NEW c \in Q!Classes, NEW i \in 1..Len(queues[c]),
         queues' = [queues EXCEPT ![c] = Q!Without(@, i)]
  PROVE  IsFiniteSet(Q!Places') /\ Q!Waiting' = Q!Waiting - 1 /\ Q!Waiting \in Nat \ {0}
<1>1. /\ queues \in [Q!Classes -> Seq(Packets)] /\ queues[c] \in Seq(Packets)
      /\ Len(queues[c]) \in Nat
  BY QueueFacts
<1>2. Len(Q!Without(queues[c], i)) = Len(queues[c]) - 1
  BY <1>1, WithoutFacts
<1>3. /\ Len(queues'[c]) = Len(queues[c]) - 1
      /\ \A d \in Q!Classes : d # c => Len(queues'[d]) = Len(queues[d])
  BY <1>1, <1>2
<1>4. Len(queues[c]) \in Nat \ {0}
  BY <1>1
<1>5. IsFiniteSet(Q!Places)
  BY DEF SenderTypes
<1> QED
  BY <1>3, <1>4, <1>5, OneLessPlace

(* A packet too big for a slot is dropped. *)
LEMMA DropSender ==
  ASSUME QueuesInv, NEW c \in Q!Classes, NEW i \in 1..Len(queues[c]), Q!DropTooBig(c, i)
  PROVE  SenderOK'
<1>1. SenderTypes /\ QueuesOK(Q!Classes, queues, life, sequence, left, Cut)
      /\ FinishedUpTo(left, life, sequence) /\ CutOK(Cut, life, sequence)
      /\ Q!FinishedInOrder /\ Q!TokensKept
  BY DEF QueuesInv, SenderOK
<1>2. /\ sequence' = sequence /\ mode' = mode /\ sending' = sending
      /\ life' = life /\ early' = early /\ left' = left /\ Cut' = Cut
      /\ queues' = [queues EXCEPT ![c] = Q!Without(@, i)] /\ Q!Credit
  BY DEF Q!DropTooBig, Q!filling, Q!receiver, Cut
<1>3. QueuesOK(Q!Classes, queues', life, sequence, left, Cut)
  BY <1>1, <1>2, Shorter
<1>4. IsFiniteSet(Q!Places') /\ Q!Waiting' = Q!Waiting - 1 /\ Q!Waiting \in Nat \ {0}
  BY <1>1, <1>2, PlaceTaken
<1>5. available_tokens' \in 0..Tokens /\ Q!TokensKept'
  BY <1>1, <1>2, <1>4, TokenBack
<1>6. SenderTypes'
  BY <1>1, <1>2, <1>4, <1>5 DEF SenderTypes, Q!ConstantsOK
<1>7. Q!FinishedInOrder' /\ Q!Classes' = Q!Classes
  BY <1>1, <1>2 DEF Q!FinishedInOrder, Q!Classes
<1> QED
  BY <1>1, <1>2, <1>3, <1>5, <1>6, <1>7 DEF SenderOK

(* What a slot takes of a packet. *)
LEMMA TakenFacts ==
  ASSUME SenderTypes, filled \in Slots, NEW c \in Nat, NEW p \in Packets, Q!Available # 0,
         p.offset # 0 => p.offset < p.size
  PROVE  /\ Q!Taken(p) \in Nat /\ Q!Item(c, p) \in Items /\ ItemOK(Q!Item(c, p))
         /\ CutFrom(Q!Piece(Q!Item(c, p)), p)
         /\ Q!End(Q!Piece(Q!Item(c, p))) = p.offset + Q!Taken(p)
<1>1. Q!Available \in Nat \ {0}
  <2>1. Capacity \in Nat /\ filled.used \in Nat
    BY ModeFacts DEF Slots
  <2> QED
    BY <2>1 DEF Q!Available
<1>2. /\ p.offset \in Nat /\ p.size \in Nat /\ p.life \in Nat /\ p.sequence \in Nat
      /\ p.destination \in Nat
  BY DEF Packets
<1>3. p.offset <= p.size
  BY <1>2
<1>4. /\ Q!Taken(p) \in Nat /\ p.offset + Q!Taken(p) <= p.size
      /\ Q!Taken(p) # 0 \/ p.offset = p.size
  BY <1>1, <1>2, <1>3 DEF Q!Taken, Q!Remaining
<1>5. p.offset = p.size => p.size = 0
  BY <1>2
<1>6. Q!Item(c, p) \in Items
  BY <1>2, <1>4 DEF Q!Item, Items, Q!HasMore
<1>7. ItemOK(Q!Item(c, p))
  <2>1. /\ Q!Item(c, p).offset = p.offset /\ Q!Item(c, p).size = Q!Taken(p)
        /\ Q!Item(c, p).whole = p.size /\ Q!Item(c, p).more = (p.offset + Q!Taken(p) < p.size)
    BY DEF Q!Item, Q!HasMore
  <2>2. ~(p.offset + Q!Taken(p) < p.size) => p.offset + Q!Taken(p) = p.size
    BY <1>2, <1>4
  <2>3. p.offset # 0 \/ p.offset + Q!Taken(p) < p.size => Q!Taken(p) # 0
    BY <1>2, <1>4, <1>5
  <2> QED
    BY <1>4, <2>1, <2>2, <2>3 DEF ItemOK, Q!End
<1>8. Q!Piece(Q!Item(c, p)) \in Pieces
  BY <1>2, <1>4 DEF Q!Item, Q!Piece, Pieces
<1>9. CutFrom(Q!Piece(Q!Item(c, p)), p) /\ Q!End(Q!Piece(Q!Item(c, p))) = p.offset + Q!Taken(p)
  BY <1>4, <1>5, <1>8 DEF Q!Item, Q!Piece, CutFrom, SamePacket, Q!End
<1> QED
  BY <1>4, <1>6, <1>7, <1>9

(* A frame with one item more. *)
LEMMA FrameAppend ==
  ASSUME NEW f \in Seq(Items), NEW m \in Items
  PROVE  /\ Append(f, m) \in Seq(Items) /\ InFrame(Append(f, m)) = InFrame(f) \cup {Q!Piece(m)}
         /\ Len(f) \in Nat /\ Len(Append(f, m)) = Len(f) + 1
         /\ \A i \in 1..Len(Append(f, m)) :
              IF i = Len(f) + 1 THEN Append(f, m)[i] = m
              ELSE i \in 1..Len(f) /\ Append(f, m)[i] = f[i]
<1>1. /\ Append(f, m) \in Seq(Items) /\ Len(f) \in Nat /\ Len(Append(f, m)) = Len(f) + 1
      /\ \A i \in 1..Len(f) : Append(f, m)[i] = f[i]
      /\ Append(f, m)[Len(f) + 1] = m
  BY AppendProperties, LenProperties
<1>2. \A i \in 1..Len(Append(f, m)) :
        IF i = Len(f) + 1 THEN Append(f, m)[i] = m
        ELSE i \in 1..Len(f) /\ Append(f, m)[i] = f[i]
  BY <1>1
<1>3. 1..Len(Append(f, m)) = (1..Len(f)) \cup {Len(f) + 1}
  BY <1>1
<1>4. InFrame(Append(f, m)) = InFrame(f) \cup {Q!Piece(m)}
  BY <1>1, <1>3 DEF InFrame
<1> QED
  BY <1>1, <1>2, <1>4

(* A sequence with one element more. *)
LEMMA AppendFacts ==
  ASSUME NEW S, NEW q \in Seq(S), NEW x \in S
  PROVE  /\ Append(q, x) \in Seq(S) /\ Len(q) \in Nat /\ Len(Append(q, x)) = Len(q) + 1
         /\ \A k \in 1..Len(Append(q, x)) :
              IF k = Len(q) + 1 THEN Append(q, x)[k] = x
              ELSE k \in 1..Len(q) /\ Append(q, x)[k] = q[k]
<1>1. /\ Append(q, x) \in Seq(S) /\ Len(q) \in Nat
      /\ Len(Append(q, x)) = Len(q) + 1 /\ Append(q, x)[Len(q) + 1] = x
      /\ \A k \in 1..Len(q) : Append(q, x)[k] = q[k]
  BY AppendProperties, LenProperties
<1> QED
  BY <1>1

(* A packet, or a part of one, is taken: the first for its destination. *)
LEMMA TakeSender ==
  ASSUME QueuesInv, NEW c \in Q!Classes, NEW i \in 1..Len(queues[c]), Q!TakePart(c, i)
  PROVE  SenderOK'
<1> DEFINE p == queues[c][i]
           y == Q!Piece(Q!Item(c, p))
<1>1. SenderTypes /\ QueuesOK(Q!Classes, queues, life, sequence, left, Cut)
      /\ FinishedUpTo(left, life, sequence) /\ CutOK(Cut, life, sequence)
      /\ Q!FinishedInOrder /\ Q!TokensKept /\ filled \in Slots /\ items \in Seq(Items)
  BY DEF QueuesInv, SenderOK, ReceiverOK, FrameTypes
<1>2. /\ sequence' = sequence /\ mode' = mode /\ sending' = sending
      /\ life' = life /\ early' = early /\ air' = air /\ unpacking' = unpacking
      /\ reassembly' = reassembly /\ items' = Append(items, Q!Item(c, p))
      /\ Q!Available # 0 /\ Q!IsNext(c, i)
      /\ IF Q!HasMore(p) THEN Q!TakeSome(c, i) ELSE Q!TakeAll(c, i)
  BY DEF Q!TakePart, Q!receiver, Q!Chosen
<1>3. /\ p \in Packets /\ c \in Nat /\ PacketOK(c, p, life, sequence, left, Cut)
      /\ sequence \in Nat /\ life \in Nat /\ left \in Seq(Finished)
      /\ queues \in [Q!Classes -> Seq(Packets)] /\ queues[c] \in Seq(Packets)
  BY <1>1, QueueFacts, ModeFacts DEF QueuesOK, SenderTypes
<1>4. p.offset # 0 => p.offset < p.size
  BY <1>3 DEF PacketOK
<1> HIDE DEF p
<1>5. /\ Q!Taken(p) \in Nat /\ Q!Item(c, p) \in Items /\ CutFrom(y, p)
      /\ Q!End(y) = p.offset + Q!Taken(p)
  BY <1>1, <1>2, <1>3, <1>4, TakenFacts
<1> HIDE DEF y
<1>6. Cut' = Cut \cup {y}
  <2>1. InFrame(items') = InFrame(items) \cup {y}
    BY <1>1, <1>2, <1>5, FrameAppend DEF y
  <2> QED
    BY <1>2, <2>1 DEF Cut, InFrame, InStore
<1>7. CutOK(Cut', life, sequence)
  BY <1>1, <1>3, <1>5, <1>6, OneMoreCut DEF p
<1>8. Q!Classes' = Q!Classes
  BY <1>2 DEF Q!Classes
<1>9. CASE Q!HasMore(p)
  <2> DEFINE r == Q!FragmentLeft(p, Q!Taken(p))
  <2>1. /\ queues' = [queues EXCEPT ![c][i] = Q!FragmentLeft(@, Q!Taken(@))]
        /\ available_tokens' = available_tokens /\ left' = left
    BY <1>2, <1>9 DEF Q!TakeSome
  <2>2. queues' = [queues EXCEPT ![c][i] = r]
    BY <1>3, <2>1 DEF p
  <2>3. /\ r \in Packets /\ SamePacket(r, p) /\ r.destination = p.destination
        /\ r.size = p.size /\ r.offset = Q!End(y) /\ r.offset < r.size
    <3>1. r = [p EXCEPT !.offset = p.offset + Q!Taken(p), !.fragment_index = p.fragment_index + 1]
      BY DEF Q!FragmentLeft
    <3>2. p.offset + Q!Taken(p) \in Nat /\ p.fragment_index + 1 \in Nat
      <4>1. p.offset \in Nat /\ p.fragment_index \in Nat
        BY <1>3 DEF Packets
      <4>2. Q!Taken(p) \in Nat
        BY <1>5
      <4> QED
        BY <4>1, <4>2
    <3> HIDE DEF r
    <3>3. r \in Packets /\ r.offset = p.offset + Q!Taken(p)
      BY <1>3, <3>1, <3>2 DEF Packets
    <3>4. /\ r.life = p.life /\ r.sequence = p.sequence
          /\ r.destination = p.destination /\ r.size = p.size
      BY <1>3, <3>1 DEF Packets
    <3> QED
      BY <1>5, <1>9, <3>3, <3>4 DEF SamePacket, Q!HasMore
  <2> HIDE DEF r
  <2>4. QueuesOK(Q!Classes, queues', life, sequence, left, Cut')
    <3>1. Cut \subseteq Pieces
      BY <1>1 DEF CutOK
    <3> QED
      BY <1>1, <1>5, <1>6, <2>2, <2>3, <3>1, SomeTaken DEF p
  <2>5. \A d \in Q!Classes : Len(queues'[d]) = Len(queues[d])
    <3>1. /\ queues'[c] = [queues[c] EXCEPT ![i] = r]
          /\ \A d \in Q!Classes : d # c => queues'[d] = queues[d]
      BY <1>3, <2>2
    <3> QED
      BY <1>3, <2>3, <3>1, ExceptSeq
  <2>6. Q!Places' = Q!Places /\ Q!Waiting' = Q!Waiting
    BY <1>2, <2>5, SamePlaces
  <2>7. SenderTypes' /\ Q!TokensKept'
    BY <1>1, <1>2, <2>1, <2>6 DEF SenderTypes, Q!TokensKept, Q!ConstantsOK
  <2>8. Q!FinishedInOrder'
    BY <1>1, <2>1 DEF Q!FinishedInOrder
  <2> QED
    BY <1>1, <1>2, <1>7, <1>8, <2>1, <2>4, <2>7, <2>8 DEF SenderOK
<1>10. CASE ~Q!HasMore(p)
  <2> DEFINE f == [life |-> p.life, sequence |-> p.sequence, class |-> c,
                   destination |-> p.destination]
  <2>1. /\ queues' = [queues EXCEPT ![c] = Q!Without(@, i)] /\ left' = Append(left, f) /\ Q!Credit
    BY <1>2, <1>10 DEF Q!TakeAll, p
  <2>2. /\ f \in Finished /\ SamePacket(f, p) /\ f.class = c /\ f.destination = p.destination
    BY <1>3 DEF Finished, SamePacket, Packets
  <2> HIDE DEF f
  <2>3. \A j \in 1..(i - 1) : queues[c][j].destination # p.destination
    BY <1>2 DEF Q!IsNext, Q!Eligible, p
  <2>4. QueuesOK(Q!Classes, queues', life, sequence, left', Cut')
    BY <1>1, <1>3, <1>5, <1>6, <2>1, <2>2, <2>3, AllTaken DEF p
  <2>5. IsFiniteSet(Q!Places') /\ Q!Waiting' = Q!Waiting - 1 /\ Q!Waiting \in Nat \ {0}
    BY <1>1, <1>2, <2>1, PlaceTaken
  <2>6. available_tokens' \in 0..Tokens /\ Q!TokensKept'
    BY <1>1, <1>2, <2>1, <2>5, TokenBack
  <2>7. /\ left' \in Seq(Finished) /\ Len(left) \in Nat /\ Len(left') = Len(left) + 1
        /\ \A k \in 1..Len(left') : IF k = Len(left) + 1 THEN left'[k] = f
                                    ELSE k \in 1..Len(left) /\ left'[k] = left[k]
    BY <1>3, <2>1, <2>2, AppendFacts
  <2>10. \A k \in 1..Len(left) :
           left[k].life = f.life /\ left[k].class = f.class
             /\ left[k].destination = f.destination
             => left[k].sequence < f.sequence
    BY <1>3, <2>2 DEF PacketOK, TurnOK, SamePacket
  <2>11. FinishedUpTo(left', life, sequence)
    <3>1. UpTo(f, life, sequence)
      BY <1>3, <2>2 DEF PacketOK, UpTo, SamePacket
    <3> QED
      BY <1>1, <2>7, <3>1 DEF FinishedUpTo
  <2>8. Q!FinishedInOrder'
    <3>1. ASSUME NEW j \in 1..Len(left'), NEW k \in 1..Len(left'), j < k,
                 left'[j].life = left'[k].life, left'[j].class = left'[k].class,
                 left'[j].destination = left'[k].destination
          PROVE  left'[j].sequence < left'[k].sequence
      <4>1. j # Len(left) + 1
        BY <2>7, <3>1
      <4>2. CASE k = Len(left) + 1
        BY <2>7, <2>10, <3>1, <4>1, <4>2
      <4>3. CASE k # Len(left) + 1
        BY <1>1, <2>7, <3>1, <4>1, <4>3 DEF Q!FinishedInOrder
      <4> QED
        BY <4>2, <4>3
    <3> QED
      BY <3>1 DEF Q!FinishedInOrder
  <2>9. SenderTypes'
    BY <1>1, <1>2, <2>5, <2>6, <2>7 DEF SenderTypes, Q!ConstantsOK
  <2> QED
    BY <1>2, <1>7, <1>8, <2>4, <2>6, <2>8, <2>9, <2>11 DEF SenderOK
<1> QED
  BY <1>9, <1>10

(* start sets the tokens to the full count. *)
LEMMA StartSender ==
  ASSUME QueuesInv, Q!Start
  PROVE  SenderOK'
<1>1. SenderTypes /\ QueuesOK(Q!Classes, queues, life, sequence, left, Cut)
      /\ FinishedUpTo(left, life, sequence) /\ CutOK(Cut, life, sequence)
      /\ Q!FinishedInOrder /\ Q!TokensKept
  BY DEF QueuesInv, SenderOK
<1>2. /\ sequence' = sequence /\ mode' = mode /\ sending' = TRUE
      /\ life' = life /\ early' = Q!Waiting /\ left' = left /\ Cut' = Cut
      /\ queues' = queues /\ available_tokens' = Tokens
  BY DEF Q!Start, Q!filling, Q!receiver, Cut
<1>3. Q!Places' = Q!Places /\ Q!Waiting' = Q!Waiting
  BY <1>2, SamePlaces
<1>4. Q!Waiting \in Nat /\ Tokens \in Nat
  BY <1>1, ModeFacts, FS_CardinalityType, SameCount DEF Q!Waiting, SenderTypes
<1>5. Q!TokensKept'
  BY <1>2, <1>3, <1>4 DEF Q!TokensKept
<1>6. SenderTypes'
  BY <1>1, <1>2, <1>3, <1>4 DEF SenderTypes, Q!ConstantsOK
<1>7. Q!FinishedInOrder' /\ Q!Classes' = Q!Classes
  BY <1>1, <1>2 DEF Q!FinishedInOrder, Q!Classes
<1> QED
  BY <1>1, <1>2, <1>5, <1>6, <1>7 DEF SenderOK

(* A new life of the sender begins with empty queues. *)
LEMMA RestartSender ==
  ASSUME QueuesInv, Q!SenderRestarts
  PROVE  SenderOK'
<1>1. SenderTypes /\ FinishedUpTo(left, life, sequence) /\ CutOK(Cut, life, sequence)
      /\ Q!FinishedInOrder
  BY DEF QueuesInv, SenderOK
<1>2. /\ sequence' = 0 /\ mode' = mode /\ sending' = FALSE
      /\ life' = life + 1 /\ early' = 0 /\ left' = left /\ Cut' = Cut
      /\ queues' = [c \in Q!Classes |-> <<>>] /\ available_tokens' = Tokens
  BY DEF Q!SenderRestarts, Q!filling, Q!receiver, Cut
<1>3. life \in Nat /\ sequence \in Nat /\ left \in Seq(Finished) /\ Tokens \in Nat
  BY <1>1, ModeFacts DEF SenderTypes
<1>4. CutOK(Cut, life + 1, 0) /\ FinishedUpTo(left, life + 1, 0)
  BY <1>1, <1>3, LaterLife
<1>5. Q!Classes' = Q!Classes
  BY <1>2 DEF Q!Classes
<1>6. \A c \in Q!Classes : queues'[c] = <<>> /\ Len(queues'[c]) = 0 /\ 1..Len(queues'[c]) = {}
  BY <1>2, EmptySeq
<1>7. QueuesOK(Q!Classes, queues', life + 1, 0, left, Cut)
  <2>1. queues' \in [Q!Classes -> Seq(Packets)]
    BY <1>2, EmptySeq
  <2> QED
    BY <1>6, <2>1 DEF QueuesOK, InOrder, NoneShared
<1>8. Q!Places' = {}
  BY <1>5, <1>6 DEF Q!Places
<1>9. IsFiniteSet(Q!Places')
  BY <1>8, FS_EmptySet
<1>10. SenderTypes'
  <2>1. /\ available_tokens' \in 0..Tokens /\ life' \in Nat /\ sequence' \in Nat /\ early' \in Nat
        /\ sending' \in BOOLEAN
    <3>1. available_tokens' \in 0..Tokens
      BY <1>2, <1>3
    <3>2. life' \in Nat
      BY <1>2, <1>3
    <3> QED
      BY <1>2, <3>1, <3>2
  <2> QED
    BY <1>1, <1>2, <1>9, <2>1 DEF SenderTypes, Q!ConstantsOK
<1>11. Q!FinishedInOrder' /\ Q!TokensKept'
  BY <1>1, <1>2 DEF Q!FinishedInOrder, Q!TokensKept
<1> QED
  BY <1>2, <1>4, <1>5, <1>7, <1>10, <1>11 DEF SenderOK

(* Steps that leave the sender alone and cut nothing. *)
LEMMA QuietSender ==
  ASSUME SenderOK, UNCHANGED <<mode, Q!sender>>, Cut' \subseteq Cut
  PROVE  SenderOK'
<1>1. SenderTypes /\ QueuesOK(Q!Classes, queues, life, sequence, left, Cut)
      /\ FinishedUpTo(left, life, sequence) /\ CutOK(Cut, life, sequence)
      /\ Q!FinishedInOrder /\ Q!TokensKept
  BY DEF SenderOK
<1>2. /\ sequence' = sequence /\ mode' = mode /\ sending' = sending
      /\ life' = life /\ early' = early /\ left' = left
      /\ queues' = queues /\ available_tokens' = available_tokens
  BY DEF Q!sender
<1>3. Q!Places' = Q!Places /\ Q!Waiting' = Q!Waiting
  BY <1>2, SamePlaces
<1>4. QueuesOK(Q!Classes, queues, life, sequence, left, Cut')
  BY <1>1, FewerCut
<1>5. CutOK(Cut', life, sequence)
  BY <1>1 DEF CutOK
<1>6. SenderTypes' /\ Q!TokensKept'
  BY <1>1, <1>2, <1>3 DEF SenderTypes, Q!ConstantsOK, Q!TokensKept
<1>7. Q!FinishedInOrder' /\ Q!Classes' = Q!Classes
  BY <1>1, <1>2 DEF Q!FinishedInOrder, Q!Classes
<1> QED
  BY <1>1, <1>2, <1>4, <1>5, <1>6, <1>7 DEF SenderOK
-----------------------------------------------------------------------------
(***************************************************************************)
(* The receiver's steps.                                                   *)
(***************************************************************************)
(* A frame of nothing. *)
LEMMA EmptyFrame == FrameOK(<<>>) /\ <<>> \in Seq(Items) /\ InFrame(<<>>) = {}
<1>1. <<>> \in Seq(Items) /\ 1..Len(<<>>) = {}
  BY EmptySeq
<1> QED
  BY <1>1 DEF FrameOK, InFrame

(* Steps that leave the frames and the receiver alone. *)
LEMMA QuietReceiver ==
  ASSUME ReceiverOK, UNCHANGED <<Q!filling, air, Q!receiver>>, life' = life \/ items = <<>>
  PROVE  ReceiverOK' /\ Cut' = Cut
<1>1. /\ filled' = filled /\ items' = items /\ air' = air /\ unpacking' = unpacking
      /\ reassembly' = reassembly /\ clock' = clock /\ delivered' = delivered
  BY DEF Q!filling, Q!receiver
<1>2. FrameTypes /\ ReceiverTypes /\ FramesOK /\ StoreOK(reassembly, clock, unpacking)
      /\ Q!WholeOrMixed
  BY DEF ReceiverOK
<1>3. FrameTypes' /\ ReceiverTypes'
  BY <1>1, <1>2 DEF FrameTypes, ReceiverTypes
<1>4. items = <<>> => 1..Len(items) = {}
  BY EmptySeq
<1>5. FramesOK'
  BY <1>1, <1>2, <1>4 DEF FramesOK, Q!NoSlot
<1>6. Q!WholeOrMixed'
  BY <1>1, <1>2 DEF Q!WholeOrMixed
<1>7. Cut' = Cut
  BY <1>1 DEF Cut
<1> QED
  BY <1>1, <1>2, <1>3, <1>5, <1>6, <1>7 DEF ReceiverOK

(* A slot begins with an empty frame. *)
LEMMA BeginReceiver ==
  ASSUME QueuesInv, NEW c \in Q!Classes, NEW d \in Q!Nems \cup {0}, Q!BeginSlot(c, d)
  PROVE  ReceiverOK' /\ Cut' = Cut
<1>1. /\ filled' = [class |-> c, destination |-> d, used |-> 0] /\ items' = items /\ air' = air
      /\ unpacking' = unpacking /\ reassembly' = reassembly /\ clock' = clock
      /\ delivered' = delivered /\ filled = Q!NoSlot /\ life' = life
  BY DEF Q!BeginSlot, Q!receiver, Q!Unlocked, Q!sender
<1>2. FrameTypes /\ ReceiverTypes /\ FramesOK /\ StoreOK(reassembly, clock, unpacking)
      /\ Q!WholeOrMixed /\ SenderTypes
  BY DEF QueuesInv, ReceiverOK, SenderOK
<1>3. c \in Int /\ d \in Nat
  BY <1>2, ModeFacts
<1>4. FrameTypes' /\ ReceiverTypes'
  BY <1>1, <1>2, <1>3 DEF FrameTypes, ReceiverTypes, Slots
<1>5. FramesOK'
  BY <1>1, <1>2 DEF FramesOK
<1>6. Q!WholeOrMixed'
  BY <1>1, <1>2 DEF Q!WholeOrMixed
<1>7. Cut' = Cut
  BY <1>1 DEF Cut
<1> QED
  BY <1>1, <1>2, <1>4, <1>5, <1>6, <1>7 DEF ReceiverOK

(* What is taken goes into the frame. *)
LEMMA TakeReceiver ==
  ASSUME QueuesInv, NEW c \in Q!Classes, NEW i \in 1..Len(queues[c]), Q!TakePart(c, i)
  PROVE  ReceiverOK'
<1> DEFINE p == queues[c][i]
           m == Q!Item(c, p)
<1>1. SenderTypes /\ QueuesOK(Q!Classes, queues, life, sequence, left, Cut)
  BY DEF QueuesInv, SenderOK
<1>2. /\ life' = life /\ air' = air /\ unpacking' = unpacking
      /\ reassembly' = reassembly /\ clock' = clock /\ delivered' = delivered
      /\ items' = Append(items, m) /\ Q!Available # 0
      /\ filled' = [filled EXCEPT !.used = @ + Q!Taken(p)] /\ filled # Q!NoSlot
  BY DEF Q!TakePart, Q!receiver, Q!Chosen
<1>3. FrameTypes /\ ReceiverTypes /\ FramesOK /\ StoreOK(reassembly, clock, unpacking)
      /\ Q!WholeOrMixed
  BY DEF QueuesInv, ReceiverOK
<1>4. p \in Packets /\ c \in Nat /\ PacketOK(c, p, life, sequence, left, Cut)
  BY <1>1, QueueFacts, ModeFacts DEF QueuesOK
<1> HIDE DEF p
<1>5. Q!Taken(p) \in Nat /\ m \in Items /\ ItemOK(m)
  BY <1>1, <1>2, <1>3, <1>4, TakenFacts DEF PacketOK, FrameTypes
<1>6. m.life = life
  BY <1>4 DEF PacketOK, Q!Item
<1> HIDE DEF m
<1>7. /\ items' \in Seq(Items) /\ Len(items) \in Nat /\ Len(items') = Len(items) + 1
      /\ \A k \in 1..Len(items') : IF k = Len(items) + 1 THEN items'[k] = m
                                   ELSE k \in 1..Len(items) /\ items'[k] = items[k]
  BY <1>2, <1>3, <1>5, AppendFacts DEF FrameTypes
<1>8. \A k \in 1..Len(items') : ItemOK(items'[k]) /\ items'[k].life = life
  BY <1>3, <1>5, <1>6, <1>7 DEF FramesOK, FrameOK
<1>9. FrameOK(items')
  BY <1>8 DEF FrameOK
<1>10. filled' \in Slots /\ filled' # Q!NoSlot
  <2>1. /\ filled \in Slots /\ filled.class \in Int
        /\ filled.destination \in Nat /\ filled.used \in Nat
    BY <1>3 DEF FrameTypes, Slots
  <2>2. filled.class # -1 \/ filled.destination # 0 \/ filled.used # 0
    BY <1>2, <2>1 DEF Q!NoSlot, Slots
  <2>3. /\ filled' \in Slots /\ filled'.class = filled.class
        /\ filled'.destination = filled.destination
        /\ filled'.used = filled.used + Q!Taken(p)
    BY <1>2, <1>5, <2>1 DEF Slots
  <2>4. filled.used # 0 => filled'.used # 0
    BY <1>5, <2>1, <2>3
  <2> QED
    BY <2>2, <2>3, <2>4 DEF Q!NoSlot
<1>11. FrameTypes' /\ ReceiverTypes'
  BY <1>2, <1>3, <1>7, <1>10 DEF FrameTypes, ReceiverTypes
<1>12. FramesOK'
  BY <1>2, <1>3, <1>8, <1>9, <1>10 DEF FramesOK, Q!NoSlot
<1>13. Q!WholeOrMixed'
  BY <1>2, <1>3 DEF Q!WholeOrMixed
<1> QED
  BY <1>2, <1>3, <1>11, <1>12, <1>13 DEF ReceiverOK

(* The frame goes on the air. *)
LEMMA SendReceiver ==
  ASSUME QueuesInv, Q!SendFrame
  PROVE  ReceiverOK' /\ Cut' \subseteq Cut
<1>1. /\ filled' = Q!NoSlot /\ items' = <<>> /\ air' = items /\ life' = life
      /\ unpacking' = unpacking /\ reassembly' = reassembly /\ clock' = clock
      /\ delivered' = delivered
  BY DEF Q!SendFrame, Q!receiver, Q!sender
<1>2. FrameTypes /\ ReceiverTypes /\ FramesOK /\ StoreOK(reassembly, clock, unpacking)
      /\ Q!WholeOrMixed
  BY DEF QueuesInv, ReceiverOK
<1>3. Q!NoSlot \in Slots
  BY DEF Q!NoSlot, Slots
<1>4. FrameTypes' /\ ReceiverTypes'
  BY <1>1, <1>2, <1>3, EmptyFrame DEF FrameTypes, ReceiverTypes
<1>5. 1..Len(<<>>) = {}
  BY EmptySeq
<1>6. FramesOK'
  BY <1>1, <1>2, <1>5, EmptyFrame DEF FramesOK
<1>7. Q!WholeOrMixed'
  BY <1>1, <1>2 DEF Q!WholeOrMixed
<1>8. Cut' \subseteq Cut
  BY <1>1, EmptyFrame DEF Cut
<1> QED
  BY <1>1, <1>2, <1>4, <1>6, <1>7, <1>8 DEF ReceiverOK

(* The frame is lost. *)
LEMMA LoseReceiver ==
  ASSUME QueuesInv, Q!Lose
  PROVE  ReceiverOK' /\ Cut' \subseteq Cut
<1>1. /\ filled' = filled /\ items' = items /\ air' = <<>> /\ life' = life
      /\ unpacking' = unpacking /\ reassembly' = reassembly /\ clock' = clock
      /\ delivered' = delivered
  BY DEF Q!Lose, Q!receiver, Q!sender, Q!filling
<1>2. FrameTypes /\ ReceiverTypes /\ FramesOK /\ StoreOK(reassembly, clock, unpacking)
      /\ Q!WholeOrMixed
  BY DEF QueuesInv, ReceiverOK
<1>3. FrameTypes' /\ ReceiverTypes'
  BY <1>1, <1>2, EmptyFrame DEF FrameTypes, ReceiverTypes
<1>4. FramesOK'
  BY <1>1, <1>2, EmptyFrame DEF FramesOK, Q!NoSlot
<1>5. Q!WholeOrMixed'
  BY <1>1, <1>2 DEF Q!WholeOrMixed
<1>6. Cut' \subseteq Cut
  BY <1>1, EmptyFrame DEF Cut
<1> QED
  BY <1>1, <1>2, <1>3, <1>4, <1>5, <1>6 DEF ReceiverOK

(* The frame is received, and what is too old is dropped first. *)
LEMMA ReceiveReceiver ==
  ASSUME QueuesInv, Q!ReceiveFrame
  PROVE  ReceiverOK' /\ Cut' \subseteq Cut
<1>1. /\ filled' = filled /\ items' = items /\ air' = <<>> /\ life' = life
      /\ unpacking' = air /\ reassembly' = Q!Alive /\ clock' = clock
      /\ delivered' = delivered
  BY DEF Q!ReceiveFrame, Q!sender, Q!filling
<1>2. FrameTypes /\ ReceiverTypes /\ FramesOK /\ StoreOK(reassembly, clock, unpacking)
      /\ Q!WholeOrMixed /\ SenderTypes
  BY DEF QueuesInv, ReceiverOK, SenderOK
<1>3. Q!Alive \subseteq reassembly /\ \A e \in Q!Alive : clock - e.last_update < FragmentTimeout
  BY DEF Q!Alive
<1>4. FrameTypes' /\ ReceiverTypes'
  BY <1>1, <1>2, <1>3, EmptyFrame DEF FrameTypes, ReceiverTypes
<1>5. FramesOK'
  BY <1>1, <1>2, EmptyFrame DEF FramesOK, Q!NoSlot
<1>6. StoreOK(Q!Alive, clock, air)
  <2>1. ASSUME NEW e \in Q!Alive
        PROVE  EntryOK(e) /\ RecentOK(e, clock, air)
    <3>1. EntryOK(e) /\ RecentOK(e, clock, unpacking) /\ e.last_update \in Nat /\ e.gap \in Nat
      BY <1>2, <1>3 DEF StoreOK, ReceiverTypes, Entries
    <3>2. clock \in Nat /\ FragmentTimeout \in Nat
      BY <1>2, ModeFacts DEF ReceiverTypes
    <3>3. e.last_update <= clock /\ (FragmentTimeout > 0 => e.gap < FragmentTimeout)
      BY <3>1 DEF RecentOK
    <3>4. FragmentTimeout > 0
      BY <1>3, <3>1, <3>2, <3>3
    <3> QED
      BY <1>3, <3>1, <3>3, <3>4 DEF RecentOK
  <2> QED
    BY <2>1 DEF StoreOK
<1>7. Q!WholeOrMixed'
  BY <1>1, <1>2 DEF Q!WholeOrMixed
<1>8. Cut' \subseteq Cut
  <2>1. InStore(Q!Alive) \subseteq InStore(reassembly)
    BY <1>3 DEF InStore
  <2> QED
    BY <1>1, <2>1, EmptyFrame DEF Cut
<1> QED
  BY <1>1, <1>2, <1>4, <1>5, <1>6, <1>7, <1>8 DEF ReceiverOK

(* Entries are dropped between two frames, by the check of their age or by *)
(* a full schedule, or time passes.                                        *)
LEMMA StoreReceiver ==
  ASSUME QueuesInv, unpacking = <<>>, UNCHANGED <<Q!sender, Q!filling, air, unpacking, delivered>>,
         reassembly' \subseteq reassembly, clock' = clock \/ clock' = clock + 1
  PROVE  ReceiverOK' /\ Cut' \subseteq Cut
<1>1. /\ filled' = filled /\ items' = items /\ air' = air /\ life' = life
      /\ unpacking' = unpacking /\ delivered' = delivered
  BY DEF Q!sender, Q!filling
<1>2. FrameTypes /\ ReceiverTypes /\ FramesOK /\ StoreOK(reassembly, clock, unpacking)
      /\ Q!WholeOrMixed
  BY DEF QueuesInv, ReceiverOK
<1>3. FrameTypes' /\ ReceiverTypes'
  BY <1>1, <1>2 DEF FrameTypes, ReceiverTypes
<1>4. FramesOK'
  BY <1>1, <1>2 DEF FramesOK, Q!NoSlot
<1>5. StoreOK(reassembly', clock', unpacking')
  <2>1. ASSUME NEW e \in reassembly'
        PROVE  EntryOK(e) /\ RecentOK(e, clock', unpacking')
    <3>1. EntryOK(e) /\ RecentOK(e, clock, unpacking) /\ e.last_update \in Nat /\ clock \in Nat
      BY <1>2 DEF StoreOK, ReceiverTypes, Entries
    <3>2. e.last_update <= clock'
      BY <3>1 DEF RecentOK
    <3>3. 1..Len(unpacking) = {}
      BY EmptySeq
    <3> QED
      BY <1>1, <3>1, <3>2, <3>3 DEF RecentOK
  <2> QED
    BY <2>1 DEF StoreOK
<1>6. Q!WholeOrMixed'
  BY <1>1, <1>2 DEF Q!WholeOrMixed
<1>7. Cut' \subseteq Cut
  BY <1>1 DEF Cut, InStore
<1> QED
  BY <1>1, <1>2, <1>3, <1>4, <1>5, <1>6, <1>7 DEF ReceiverOK

(* The entry a fragment m is filed in at time t. *)
Fits(e, m, t) ==
    /\ e \in Entries /\ e.sequence = m.sequence /\ EntryOK(e) /\ e.last_update <= t
    /\ IF FragmentTimeout > 0
       THEN e.gap < FragmentTimeout /\ t - e.last_update < FragmentTimeout
       ELSE e.lives \subseteq {m.life}

(* x is the piece of the entry with the offset of the fragment. *)
FiledWith(e, m, f, x) ==
    /\ x \in f.pieces /\ x.offset = m.offset
    /\ e.pieces \subseteq f.pieces /\ f.pieces \subseteq e.pieces \cup {Q!Piece(m)}
    /\ f.total = IF m.more THEN e.total ELSE m.offset + x.size
    /\ f.class = e.class /\ f.sequence = e.sequence /\ f.lives = e.lives \cup {m.life}

(* What an entry is after a fragment is filed in it. *)
LEMMA FiledFacts ==
  ASSUME NEW e \in Entries, NEW m \in Items, clock \in Nat, e.last_update <= clock
  PROVE  /\ Q!Filed(e, m) \in Entries /\ Q!Filed(e, m).last_update = clock
         /\ \E x \in Pieces : FiledWith(e, m, Q!Filed(e, m), x)
         /\ Q!Filed(e, m).gap \in {e.gap, clock - e.last_update}
<1> DEFINE pieces == IF \E p \in e.pieces : p.offset = m.offset THEN e.pieces
                     ELSE e.pieces \cup {Q!Piece(m)}
           stored == CHOOSE p \in pieces : p.offset = m.offset
           total == IF m.more THEN e.total ELSE m.offset + stored.size
           gap == IF clock - e.last_update > e.gap THEN clock - e.last_update ELSE e.gap
           lives == e.lives \cup {m.life}
<1>1. Q!Piece(m) \in Pieces /\ Q!Piece(m).offset = m.offset
  BY DEF Q!Piece, Items, Pieces
<1>2. e.pieces \subseteq Pieces /\ e.total \in Nat /\ e.gap \in Nat /\ e.last_update \in Nat
      /\ e.lives \subseteq Nat /\ m.life \in Nat /\ m.offset \in Nat /\ m.more \in BOOLEAN
  BY DEF Entries, Items
<1>3. /\ \E p \in pieces : p.offset = m.offset
      /\ pieces \subseteq Pieces /\ e.pieces \subseteq pieces
      /\ pieces \subseteq e.pieces \cup {Q!Piece(m)}
  BY <1>1, <1>2
<1> HIDE DEF pieces
<1>4. stored \in pieces /\ stored.offset = m.offset
  BY <1>3
<1> HIDE DEF stored
<1>5. total \in Nat /\ gap \in Nat /\ lives \subseteq Nat /\ gap \in {e.gap, clock - e.last_update}
  <2>1. stored.size \in Nat
    BY <1>3, <1>4 DEF Pieces
  <2>2. total \in Nat
    BY <1>2, <2>1
  <2>3. gap \in Nat /\ gap \in {e.gap, clock - e.last_update}
    BY <1>2
  <2> QED
    BY <1>2, <2>2, <2>3
<1>6. Q!Filed(e, m) = [e EXCEPT !.pieces = pieces, !.last_update = clock, !.lives = lives,
                              !.total = total, !.gap = gap]
  BY DEF Q!Filed, pieces, stored
<1> HIDE DEF total, gap, lives
<1>7. /\ Q!Filed(e, m) \in Entries /\ Q!Filed(e, m).last_update = clock
      /\ Q!Filed(e, m).pieces = pieces /\ Q!Filed(e, m).total = total /\ Q!Filed(e, m).gap = gap
      /\ Q!Filed(e, m).lives = lives /\ Q!Filed(e, m).class = e.class
      /\ Q!Filed(e, m).sequence = e.sequence
  BY <1>3, <1>5, <1>6 DEF Entries
<1>8. FiledWith(e, m, Q!Filed(e, m), stored)
  BY <1>3, <1>4, <1>7 DEF FiledWith, total, lives
<1> QED
  BY <1>3, <1>4, <1>5, <1>7, <1>8

(* Pieces of one packet with one offset are one piece. *)
LEMMA SameOffset ==
  ASSUME NEW cut, NEW l, NEW n, CutOK(cut, l, n), NEW x \in cut, NEW y \in cut,
         SamePacket(x, y), x.offset = y.offset, x.size # 0, y.size # 0
  PROVE  x = y
<1>1. x \in Pieces /\ y \in Pieces /\ (x = y \/ Apart(x, y))
  BY DEF CutOK
<1>2. x.offset \in Nat /\ x.size \in Nat /\ y.offset \in Nat /\ y.size \in Nat
  BY <1>1 DEF Pieces
<1>3. ~Apart(x, y)
  BY <1>2 DEF Apart, Q!End
<1> QED
  BY <1>1, <1>3

(* A fragment filed leaves the entry consistent. *)
LEMMA FiledOK ==
  ASSUME NEW cut, NEW l, NEW n, CutOK(cut, l, n), NEW t, NEW m \in Items, ItemOK(m),
         m.offset # 0 \/ m.more, NEW e, Fits(e, m, t), NEW f \in Entries, NEW x \in Pieces,
         FiledWith(e, m, f, x), e.pieces \cup {Q!Piece(m)} \subseteq cut
  PROVE  EntryOK(f)
<1>1. /\ x \in f.pieces /\ x.offset = m.offset /\ e.pieces \subseteq f.pieces
      /\ f.pieces \subseteq e.pieces \cup {Q!Piece(m)} /\ f.pieces \subseteq cut
      /\ f.total = (IF m.more THEN e.total ELSE m.offset + x.size)
      /\ f.sequence = e.sequence /\ f.lives = e.lives \cup {m.life}
  BY DEF FiledWith
<1>2. e \in Entries /\ e.sequence = m.sequence /\ EntryOK(e)
  BY DEF Fits
<1>3. /\ Q!Piece(m).life = m.life /\ Q!Piece(m).sequence = m.sequence /\ Q!Piece(m).size = m.size
      /\ Q!Piece(m).whole = m.whole /\ Q!Piece(m).offset = m.offset
  BY DEF Q!Piece
<1>4. m.size # 0
  BY DEF ItemOK
<1>5. \A p \in f.pieces : p.sequence = f.sequence /\ p.life \in f.lives /\ p.size # 0
  BY <1>1, <1>2, <1>3, <1>4 DEF EntryOK
<1>6. IsFiniteSet(f.lives)
  BY <1>1, <1>2, FS_AddElement DEF EntryOK
<1>7. f.pieces # {}
  BY <1>1
<1>8. ASSUME NEW p \in f.pieces, f.total # 0, f.lives = {p.life}
      PROVE  f.total = p.whole
  <2>1. \A q \in f.pieces : SamePacket(q, p) /\ q.whole = p.whole
    <3>1. \A q \in f.pieces : SamePacket(q, p)
      BY <1>5, <1>8 DEF SamePacket
    <3> QED
      BY <1>1, <1>8, <3>1 DEF CutOK
  <2>2. CASE m.more
    <3>1. f.total = e.total
      BY <1>1, <2>2
    <3>2. PICK q \in e.pieces : TRUE
      BY <1>2, <1>8, <3>1 DEF EntryOK
    <3>3. q.life \in e.lives /\ q \in f.pieces
      BY <1>1, <1>2 DEF EntryOK
    <3>4. q.life = p.life /\ e.lives = {q.life}
      BY <1>1, <1>8, <3>3
    <3> QED
      BY <1>2, <1>8, <2>1, <3>1, <3>3, <3>4 DEF EntryOK
  <2>3. CASE ~m.more
    <3>1. f.total = m.offset + x.size
      BY <1>1, <2>3
    <3>2. x.life = m.life /\ x.sequence = m.sequence
      BY <1>1, <1>2, <1>5, <1>8
    <3>3. x = Q!Piece(m)
      BY <1>1, <1>3, <1>4, <1>5, <3>2, SameOffset DEF SamePacket
    <3>4. m.offset + m.size = m.whole
      BY <2>3 DEF ItemOK, Q!End
    <3> QED
      BY <1>1, <1>3, <2>1, <3>1, <3>3, <3>4
  <2> QED
    BY <2>2, <2>3
<1> QED
  BY <1>5, <1>6, <1>7, <1>8 DEF EntryOK

(* Every byte before the end of a piece without a gap before it is in some *)
(* piece.                                                                  *)
LEMMA NoGap ==
  ASSUME NEW pieces, pieces \subseteq Pieces, NEW p \in Q!Contiguous(pieces),
         NEW byte \in Nat, byte >= 1, byte <= Q!End(p)
  PROVE  \E q \in Q!Contiguous(pieces) : Q!Has(q, byte)
<1> DEFINE S == {q.offset : q \in {r \in Q!Contiguous(pieces) : byte <= Q!End(r)}}
<1>1. Q!Contiguous(pieces) \subseteq pieces
  BY DEF Q!Contiguous
<1>2. \A q \in pieces : q.offset \in Nat /\ Q!End(q) \in Nat
  BY DEF Q!End, Pieces
<1>3. S \subseteq Nat /\ S # {}
  BY <1>1, <1>2
<1>4. PICK n \in S : \A k \in S : n <= k
  BY <1>3, Least
<1>5. PICK q \in Q!Contiguous(pieces) : byte <= Q!End(q) /\ q.offset = n
  OBVIOUS
<1>6. q \in pieces /\ q.offset \in Nat
  BY <1>1, <1>2
<1>7. ASSUME ~(q.offset < byte)
      PROVE  FALSE
  <2>1. q.offset # 0 /\ q.offset >= byte
    BY <1>6, <1>7
  <2>2. Q!Follows(pieces, q)
    BY <1>6, <2>1 DEF Q!Contiguous
  <2>3. PICK r \in pieces : r.offset < q.offset /\ Q!End(r) = q.offset
    BY <2>2 DEF Q!Follows
  <2>4. \A s \in pieces : s.offset <= r.offset => s.offset <= q.offset
    BY <1>2, <1>6, <2>3
  <2>5. r \in Q!Contiguous(pieces)
    BY <1>5, <2>4 DEF Q!Contiguous
  <2>6. r.offset \in S
    BY <2>1, <2>3, <2>5
  <2> QED
    BY <1>2, <1>4, <1>5, <2>3, <2>6
<1> QED
  BY <1>5, <1>7 DEF Q!Has

(* An entry of one life that is complete is one packet. *)
LEMMA CompleteIsOne ==
  ASSUME NEW cut, NEW l, NEW n, CutOK(cut, l, n), NEW f \in Entries, f.pieces \subseteq cut,
         EntryOK(f), NEW a, f.lives = {a}, Q!Complete(f)
  PROVE  Q!OnePacket(Q!Contiguous(f.pieces))
<1> DEFINE C == Q!Contiguous(f.pieces)
<1>1. PICK p \in C : Q!End(p) = f.total
  BY DEF Q!Complete
<1>2. f.total # 0 /\ f.pieces \subseteq Pieces
  BY DEF Q!Complete, Entries
<1>3. C \subseteq f.pieces
  BY DEF Q!Contiguous
<1>4. \A q \in C : q.life = a /\ q.sequence = f.sequence
  BY <1>3 DEF EntryOK
<1>5. Q!End(p) = p.whole /\ p.whole \in Nat
  BY <1>1, <1>2, <1>3, <1>4 DEF EntryOK, Pieces
<1>6. \A q \in C : q.life = p.life /\ q.sequence = p.sequence /\ Q!End(q) <= p.whole
  BY <1>3, <1>4 DEF CutOK, SamePacket
<1>7. \A byte \in 1..p.whole : \E q \in C : Q!Has(q, byte)
  BY <1>2, <1>5, NoGap
<1>8. \A q, r \in C : q # r => Q!End(q) <= r.offset \/ Q!End(r) <= q.offset
  BY <1>3, <1>4 DEF CutOK, SamePacket, Apart
<1> HIDE DEF C
<1>9. Q!OnePacket(C)
  BY <1>6, <1>7, <1>8 DEF Q!OnePacket
<1> QED
  BY <1>9 DEF C

(* A finite set with another element than a has more than one. *)
LEMMA TwoLives ==
  ASSUME NEW S, IsFiniteSet(S), NEW a \in S, S # {a}
  PROVE  Cardinality(S) > 1
<1>1. PICK b \in S : b # a
  OBVIOUS
<1>2. IsFiniteSet({b}) /\ Cardinality({b}) = 1
  BY FS_Singleton
<1>3. IsFiniteSet({a, b}) /\ Cardinality({a, b}) = 2
  <2>1. {a, b} = {b} \cup {a} /\ a \notin {b}
    BY <1>1
  <2> QED
    <3>1. IsFiniteSet({b} \cup {a}) /\ Cardinality({b} \cup {a}) = Cardinality({b}) + 1
      BY <1>2, <2>1, FS_AddElement
    <3> QED
      BY <1>2, <2>1, <3>1
<1>4. {a, b} \subseteq S
  OBVIOUS
<1>5. Cardinality({a, b}) <= Cardinality(S) /\ Cardinality(S) \in Nat
  BY <1>4, FS_Subset, FS_CardinalityType
<1> QED
  BY <1>3, <1>5

(* The frame being unpacked without its first item. *)
LEMMA TailFacts ==
  ASSUME NEW u \in Seq(Items), u # <<>>, FrameOK(u)
  PROVE  /\ Tail(u) \in Seq(Items) /\ FrameOK(Tail(u)) /\ Head(u) \in Items
         /\ ItemOK(Head(u)) /\ InFrame(Tail(u)) \subseteq InFrame(u)
         /\ Q!Piece(Head(u)) \in InFrame(u)
         /\ 1 \in 1..Len(u) /\ Head(u) = u[1]
         /\ \A i \in 1..Len(Tail(u)) : i + 1 \in 1..Len(u) /\ Tail(u)[i] = u[i + 1]
<1>1. /\ Head(u) \in Items /\ Head(u) = u[1] /\ Tail(u) \in Seq(Items)
      /\ Len(Tail(u)) = Len(u) - 1 /\ \A i \in 1..Len(Tail(u)) : Tail(u)[i] = u[i + 1]
  BY HeadTailProperties
<1>2. Len(u) \in Nat /\ 1 \in 1..Len(u)
  BY EmptySeq, LenProperties
<1>3. \A i \in 1..Len(Tail(u)) : i + 1 \in 1..Len(u) /\ Tail(u)[i] = u[i + 1]
  BY <1>1, <1>2
<1>4. FrameOK(Tail(u))
  BY <1>3 DEF FrameOK
<1>5. InFrame(Tail(u)) \subseteq InFrame(u)
  BY <1>3 DEF InFrame
<1>6. ItemOK(Head(u)) /\ Q!Piece(Head(u)) \in InFrame(u)
  BY <1>1, <1>2 DEF FrameOK, InFrame
<1> QED
  BY <1>1, <1>2, <1>3, <1>4, <1>5, <1>6

(* The age of an entry while the rest of a frame is unpacked. *)
LEMMA TailRecent ==
  ASSUME NEW u \in Seq(Items), u # <<>>, FrameOK(u), NEW e, NEW t, RecentOK(e, t, u)
  PROVE  RecentOK(e, t, Tail(u))
<1>1. \A i \in 1..Len(Tail(u)) : i + 1 \in 1..Len(u) /\ Tail(u)[i] = u[i + 1]
  BY TailFacts
<1> QED
  BY <1>1 DEF RecentOK

(* The entry of a fragment, found or new, is one it fits. *)
LEMMA EntryFits ==
  ASSUME FrameTypes, ReceiverTypes, FramesOK, StoreOK(reassembly, clock, unpacking), SenderTypes,
         unpacking # <<>>, NEW m, m = Head(unpacking),
         NEW e \in IF Q!EntryOf(m) = {} THEN {Q!NewEntry(m)} ELSE Q!EntryOf(m)
  PROVE  Fits(e, m, clock) /\ (e \in reassembly \/ e.pieces = {})
<1>1. m \in Items /\ m = unpacking[1] /\ 1 \in 1..Len(unpacking)
  BY TailFacts DEF FrameTypes, FramesOK
<1>2. FragmentTimeout \in Nat /\ clock \in Nat
  BY ModeFacts DEF ReceiverTypes
<1>3. CASE e \in Q!EntryOf(m)
  <2>1. e \in reassembly /\ e.sequence = m.sequence /\ e \in Entries
    BY <1>3 DEF Q!EntryOf, ReceiverTypes
  <2>2. EntryOK(e) /\ RecentOK(e, clock, unpacking)
    BY <2>1 DEF StoreOK
  <2> QED
    BY <1>1, <2>1, <2>2 DEF Fits, RecentOK
<1>4. CASE e = Q!NewEntry(m)
  <2>1. /\ e.sequence = m.sequence /\ e.pieces = {} /\ e.lives = {} /\ e.total = 0
        /\ e.last_update = clock /\ e.gap = 0 /\ e.class = m.class
    BY <1>4 DEF Q!NewEntry
  <2>2. e \in Entries
    BY <1>1, <1>2, <1>4 DEF Q!NewEntry, Entries, Items
  <2>3. EntryOK(e)
    BY <2>1, FS_EmptySet DEF EntryOK
  <2>4. clock - e.last_update = 0
    BY <1>2, <2>1
  <2> QED
    BY <1>2, <2>1, <2>2, <2>3, <2>4 DEF Fits
<1> QED
  BY <1>3, <1>4

(* An item is skipped, passed up, filed, or completes its packet. *)
LEMMA UnpackReceiver ==
  ASSUME QueuesInv, Q!Unpack
  PROVE  ReceiverOK' /\ Cut' \subseteq Cut
<1> DEFINE m == Head(unpacking)
<1>1. /\ filled' = filled /\ items' = items /\ air' = air /\ life' = life /\ mode' = mode
      /\ unpacking # <<>> /\ unpacking' = Tail(unpacking) /\ clock' = clock
      /\ Q!SkipForeign(m) \/ Q!UnpackWhole(m) \/ Q!UnpackFragment(m)
  BY DEF Q!Unpack, Q!sender, Q!filling
<1>2. FrameTypes /\ ReceiverTypes /\ FramesOK /\ StoreOK(reassembly, clock, unpacking)
      /\ Q!WholeOrMixed /\ SenderTypes /\ CutOK(Cut, life, sequence)
  BY DEF QueuesInv, ReceiverOK, SenderOK
<1>3. unpacking \in Seq(Items) /\ FrameOK(unpacking)
  BY <1>2 DEF FrameTypes, FramesOK
<1>4. /\ Tail(unpacking) \in Seq(Items) /\ FrameOK(Tail(unpacking)) /\ m \in Items
      /\ ItemOK(m) /\ InFrame(Tail(unpacking)) \subseteq InFrame(unpacking)
      /\ Q!Piece(m) \in InFrame(unpacking) /\ 1 \in 1..Len(unpacking) /\ m = unpacking[1]
      /\ \A i \in 1..Len(Tail(unpacking)) :
           i + 1 \in 1..Len(unpacking) /\ Tail(unpacking)[i] = unpacking[i + 1]
  BY <1>1, <1>3, TailFacts
<1>5. FrameTypes' /\ FramesOK'
  BY <1>1, <1>2, <1>4 DEF FrameTypes, FramesOK, Q!NoSlot
<1>6. \A e \in reassembly : EntryOK(e) /\ RecentOK(e, clock, Tail(unpacking))
  BY <1>1, <1>2, <1>3, TailRecent DEF StoreOK
<1>7. ASSUME reassembly' = reassembly, Q!WholeOrMixed'
      PROVE  ReceiverOK' /\ Cut' \subseteq Cut
  <2>1. ReceiverTypes'
    BY <1>1, <1>2, <1>7 DEF ReceiverTypes
  <2>2. StoreOK(reassembly', clock', unpacking')
    BY <1>1, <1>6, <1>7 DEF StoreOK
  <2>3. Cut' \subseteq Cut
    BY <1>1, <1>4, <1>7 DEF Cut
  <2> QED
    BY <1>5, <1>7, <2>1, <2>2, <2>3 DEF ReceiverOK
<1> HIDE DEF m
<1>8. CASE Q!SkipForeign(m)
  <2>1. reassembly' = reassembly /\ delivered' = delivered
    BY <1>8 DEF Q!SkipForeign
  <2>2. Q!WholeOrMixed'
    BY <1>2, <2>1 DEF Q!WholeOrMixed
  <2> QED
    BY <1>7, <2>1, <2>2
<1>9. CASE Q!UnpackWhole(m)
  <2> DEFINE d == [pieces |-> {Q!Piece(m)}, gap |-> 0, lives |-> {m.life}]
  <2>1. reassembly' = reassembly /\ delivered' = delivered \cup {d} /\ m.offset = 0 /\ ~m.more
    BY <1>9 DEF Q!UnpackWhole
  <2>2. Q!OnePacket({Q!Piece(m)})
    <3>1. /\ Q!Piece(m).offset = 0 /\ Q!End(Q!Piece(m)) = m.whole /\ Q!Piece(m).whole = m.whole
          /\ m.whole \in Nat
      BY <1>4, <2>1 DEF ItemOK, Q!Piece, Q!End, Items
    <3>2. \A byte \in 1..m.whole : Q!Has(Q!Piece(m), byte)
      BY <3>1 DEF Q!Has
    <3> QED
      BY <3>1, <3>2 DEF Q!OnePacket
  <2>3. d.pieces = {Q!Piece(m)}
    OBVIOUS
  <2> HIDE DEF d
  <2>4. Q!WholeOrMixed'
    BY <1>2, <2>1, <2>2, <2>3 DEF Q!WholeOrMixed
  <2> QED
    BY <1>7, <2>1, <2>4
<1>10. CASE Q!UnpackFragment(m)
  <2>1. m.offset # 0 \/ m.more
    BY <1>10 DEF Q!UnpackFragment
  <2>2. PICK e \in IF Q!EntryOf(m) = {} THEN {Q!NewEntry(m)} ELSE Q!EntryOf(m) :
           IF Q!Complete(Q!Filed(e, m))
           THEN /\ delivered' = delivered \cup
                     {[pieces |-> Q!Contiguous(Q!Filed(e, m).pieces),
                       gap |-> Q!Filed(e, m).gap, lives |-> Q!Filed(e, m).lives]}
                /\ reassembly' = reassembly \ {e}
           ELSE /\ reassembly' = (reassembly \ {e}) \cup {Q!Filed(e, m)}
                /\ UNCHANGED delivered
    BY <1>10 DEF Q!UnpackFragment
  <2> DEFINE f == Q!Filed(e, m)
             d == [pieces |-> Q!Contiguous(f.pieces), gap |-> f.gap, lives |-> f.lives]
  <2>3. Fits(e, m, clock) /\ (e \in reassembly \/ e.pieces = {})
    BY <1>1, <1>2, EntryFits DEF m
  <2>4. e \in Entries /\ clock \in Nat /\ e.last_update <= clock /\ FragmentTimeout \in Nat
    BY <1>2, <2>3, ModeFacts DEF Fits, ReceiverTypes
  <2>5. /\ f \in Entries /\ f.last_update = clock /\ f.gap \in {e.gap, clock - e.last_update}
        /\ \E x \in Pieces : FiledWith(e, m, f, x)
    BY <1>4, <2>4, FiledFacts
  <2> HIDE DEF f
  <2>6. PICK x \in Pieces : FiledWith(e, m, f, x)
    BY <2>5
  <2>7. e.pieces \cup {Q!Piece(m)} \subseteq Cut
    BY <1>4, <2>3 DEF Cut, InStore
  <2>8. f.pieces \subseteq e.pieces \cup {Q!Piece(m)} /\ f.lives = e.lives \cup {m.life}
    BY <2>6 DEF FiledWith
  <2>9. EntryOK(f)
    BY <1>2, <1>4, <2>1, <2>3, <2>5, <2>6, <2>7, FiledOK
  <2>10. FragmentTimeout > 0 => f.gap < FragmentTimeout
    BY <2>3, <2>5 DEF Fits
  <2>11. ~(FragmentTimeout > 0) => f.lives = {m.life}
    BY <2>3, <2>8 DEF Fits
  <2>12. RecentOK(f, clock, Tail(unpacking))
    <3>1. \A i \in 1..Len(Tail(unpacking)) : Tail(unpacking)[i].life = m.life
      BY <1>3, <1>4 DEF FrameOK
    <3>2. f.last_update <= clock /\ clock - f.last_update = 0
      BY <2>4, <2>5
    <3> QED
      BY <2>4, <2>10, <2>11, <3>1, <3>2 DEF RecentOK
  <2>13. CASE Q!Complete(f)
    <3>1. delivered' = delivered \cup {d} /\ reassembly' = reassembly \ {e}
      BY <2>2, <2>13 DEF f
    <3>2. Q!OnePacket(d.pieces) \/ (Cardinality(d.lives) > 1 /\ d.gap < FragmentTimeout)
      <4>1. d.pieces = Q!Contiguous(f.pieces) /\ d.lives = f.lives /\ d.gap = f.gap
        OBVIOUS
      <4> HIDE DEF d
      <4>2. CASE f.lives = {m.life}
        <5>1. Q!OnePacket(Q!Contiguous(f.pieces))
          BY <1>2, <2>5, <2>7, <2>8, <2>9, <2>13, <4>2, CompleteIsOne
        <5> QED
          BY <4>1, <5>1
      <4>3. CASE f.lives # {m.life}
        <5>1. Cardinality(f.lives) > 1
          BY <2>8, <2>9, <4>3, TwoLives DEF EntryOK
        <5> QED
          BY <2>10, <2>11, <4>1, <4>3, <5>1
      <4> QED
        BY <4>2, <4>3
    <3> HIDE DEF d
    <3>3. Q!WholeOrMixed'
      BY <1>2, <3>1, <3>2, SameCount DEF Q!WholeOrMixed
    <3>4. ReceiverTypes'
      BY <1>1, <1>2, <3>1 DEF ReceiverTypes
    <3>5. StoreOK(reassembly', clock', unpacking')
      BY <1>1, <1>6, <3>1 DEF StoreOK
    <3>6. Cut' \subseteq Cut
      <4>1. InStore(reassembly') \subseteq InStore(reassembly)
        BY <3>1 DEF InStore
      <4> QED
        BY <1>1, <1>4, <4>1 DEF Cut
    <3> QED
      BY <1>5, <3>3, <3>4, <3>5, <3>6 DEF ReceiverOK
  <2>14. CASE ~Q!Complete(f)
    <3>1. delivered' = delivered /\ reassembly' = (reassembly \ {e}) \cup {f}
      BY <2>2, <2>14 DEF f
    <3>2. Q!WholeOrMixed'
      BY <1>2, <3>1 DEF Q!WholeOrMixed
    <3>3. ReceiverTypes'
      BY <1>1, <1>2, <2>5, <3>1 DEF ReceiverTypes
    <3>4. StoreOK(reassembly', clock', unpacking')
      BY <1>1, <1>6, <2>9, <2>12, <3>1 DEF StoreOK
    <3>5. Cut' \subseteq Cut
      <4>1. InStore(reassembly') \subseteq InStore(reassembly) \cup f.pieces
        BY <3>1 DEF InStore
      <4>2. InStore(reassembly') \subseteq Cut
        BY <2>7, <2>8, <4>1 DEF Cut
      <4> QED
        BY <1>1, <1>4, <4>2 DEF Cut
    <3> QED
      BY <1>5, <3>2, <3>3, <3>4, <3>5 DEF ReceiverOK
  <2> QED
    BY <2>13, <2>14
<1> QED
  BY <1>1, <1>8, <1>9, <1>10
-----------------------------------------------------------------------------
(***************************************************************************)
(* The invariant.                                                          *)
(***************************************************************************)
(* The invariant holds at first. *)
LEMMA InitQueuesInv ==
  ASSUME Q!ConstantsOK, Q!Init
  PROVE  QueuesInv
<1>1. /\ mode \in Modes /\ sending = FALSE /\ available_tokens = Tokens
      /\ queues = [c \in Q!Classes |-> <<>>] /\ sequence = 0 /\ life = 1 /\ early = 0
      /\ left = <<>> /\ filled = Q!NoSlot /\ items = <<>> /\ air = <<>> /\ unpacking = <<>>
      /\ reassembly = {} /\ clock = 0 /\ delivered = {}
  BY DEF Q!Init
<1>2. Tokens \in Nat
  BY DEF Q!ConstantsOK
<1>3. \A c \in Q!Classes : queues[c] = <<>> /\ Len(queues[c]) = 0 /\ 1..Len(queues[c]) = {}
  BY <1>1, EmptySeq
<1>4. Q!Places = {}
  BY <1>3 DEF Q!Places
<1>5. IsFiniteSet(Q!Places)
  BY <1>4, FS_EmptySet
<1>6. left \in Seq(Finished) /\ 1..Len(left) = {}
  BY <1>1, EmptySeq
<1>7. SenderTypes
  <2>1. /\ available_tokens \in 0..Tokens /\ sequence \in Nat /\ life \in Nat /\ early \in Nat
    BY <1>1, <1>2
  <2> QED
    BY <1>1, <1>5, <1>6, <2>1 DEF SenderTypes
<1>8. Cut = {}
  BY <1>1, EmptyFrame DEF Cut, InStore
<1>9. QueuesOK(Q!Classes, queues, life, sequence, left, Cut)
  <2>1. queues \in [Q!Classes -> Seq(Packets)]
    BY <1>1, EmptySeq
  <2> QED
    BY <1>3, <2>1 DEF QueuesOK, InOrder, NoneShared
<1>10. FinishedUpTo(left, life, sequence) /\ Q!FinishedInOrder
  BY <1>6 DEF FinishedUpTo, Q!FinishedInOrder
<1>11. Q!TokensKept /\ CutOK(Cut, life, sequence)
  BY <1>1, <1>8 DEF Q!TokensKept, CutOK
<1>12. FrameTypes /\ ReceiverTypes
  BY <1>1, EmptyFrame DEF FrameTypes, ReceiverTypes, Q!NoSlot, Slots
<1>13. FramesOK
  <2>1. 1..Len(items) = {}
    BY <1>1, EmptySeq
  <2> QED
    BY <1>1, <2>1, EmptyFrame DEF FramesOK
<1>14. StoreOK(reassembly, clock, unpacking) /\ Q!WholeOrMixed
  BY <1>1 DEF StoreOK, Q!WholeOrMixed
<1> QED
  BY <1>7, <1>9, <1>10, <1>11, <1>12, <1>13, <1>14 DEF QueuesInv, SenderOK, ReceiverOK

(* Every step preserves the invariant. *)
LEMMA NextQueuesInv ==
  ASSUME QueuesInv, [Q!Next]_Q!vars
  PROVE  QueuesInv'
<1>1. SenderOK /\ ReceiverOK
  BY DEF QueuesInv
<1>2. ASSUME NEW c \in Q!Classes, NEW d \in Q!Nems, NEW n \in Q!Sizes, Q!Downstream(c, d, n)
      PROVE  QueuesInv'
  <2>1. UNCHANGED <<Q!filling, air, Q!receiver>> /\ life' = life
    BY <1>2 DEF Q!Downstream
  <2>2. ReceiverOK'
    BY <1>1, <2>1, QuietReceiver
  <2>3. SenderOK'
    BY <1>2, DownstreamSender
  <2> QED
    BY <2>2, <2>3 DEF QueuesInv
<1>3. ASSUME NEW c \in Q!Classes, NEW d \in Q!Nems \cup {0}, Q!BeginSlot(c, d)
      PROVE  QueuesInv'
  <2>1. UNCHANGED <<mode, Q!sender>>
    BY <1>3 DEF Q!BeginSlot
  <2>2. ReceiverOK' /\ Cut' = Cut
    BY <1>3, BeginReceiver
  <2> QED
    BY <1>1, <2>1, <2>2, QuietSender DEF QueuesInv
<1>4. ASSUME NEW c \in Q!Classes, NEW i \in 1..Len(queues[c]), Q!DropTooBig(c, i)
      PROVE  QueuesInv'
  <2>1. UNCHANGED <<Q!filling, air, Q!receiver>> /\ life' = life
    BY <1>4 DEF Q!DropTooBig
  <2>2. ReceiverOK'
    BY <1>1, <2>1, QuietReceiver
  <2>3. SenderOK'
    BY <1>4, DropSender
  <2> QED
    BY <2>2, <2>3 DEF QueuesInv
<1>5. ASSUME NEW c \in Q!Classes, NEW i \in 1..Len(queues[c]), Q!TakePart(c, i)
      PROVE  QueuesInv'
  BY <1>5, TakeSender, TakeReceiver DEF QueuesInv
<1>6. CASE Q!SendFrame
  <2>1. UNCHANGED <<mode, Q!sender>>
    BY <1>6 DEF Q!SendFrame
  <2> QED
    BY <1>1, <1>6, <2>1, SendReceiver, QuietSender DEF QueuesInv
<1>7. CASE Q!Start
  <2>1. UNCHANGED <<Q!filling, air, Q!receiver>> /\ life' = life
    BY <1>7 DEF Q!Start
  <2> QED
    BY <1>1, <1>7, <2>1, QuietReceiver, StartSender DEF QueuesInv
<1>8. CASE Q!SenderRestarts
  <2>1. UNCHANGED <<Q!filling, air, Q!receiver>> /\ filled = Q!NoSlot
    BY <1>8 DEF Q!SenderRestarts, Q!Unlocked
  <2>2. items = <<>>
    BY <1>1, <2>1 DEF ReceiverOK, FramesOK
  <2> QED
    BY <1>1, <1>8, <2>1, <2>2, QuietReceiver, RestartSender DEF QueuesInv
<1>9. CASE Q!Lose
  <2>1. UNCHANGED <<mode, Q!sender>>
    BY <1>9 DEF Q!Lose
  <2> QED
    BY <1>1, <1>9, <2>1, LoseReceiver, QuietSender DEF QueuesInv
<1>10. CASE Q!ReceiveFrame
  <2>1. UNCHANGED <<mode, Q!sender>>
    BY <1>10 DEF Q!ReceiveFrame
  <2> QED
    BY <1>1, <1>10, <2>1, ReceiveReceiver, QuietSender DEF QueuesInv
<1>11. CASE Q!Unpack
  <2>1. UNCHANGED <<mode, Q!sender>>
    BY <1>11 DEF Q!Unpack
  <2> QED
    BY <1>1, <1>11, <2>1, UnpackReceiver, QuietSender DEF QueuesInv
<1>12. ASSUME Q!ReassemblyCheck \/ Q!FullSchedule \/ Q!Tick
       PROVE  QueuesInv'
  <2>1. /\ unpacking = <<>> /\ UNCHANGED <<Q!sender, Q!filling, air, unpacking, delivered>>
        /\ mode' = mode /\ reassembly' \subseteq reassembly
        /\ clock' = clock \/ clock' = clock + 1
    BY <1>12 DEF Q!ReassemblyCheck, Q!FullSchedule, Q!Tick, Q!Alive
  <2>2. ReceiverOK' /\ Cut' \subseteq Cut
    BY <2>1, StoreReceiver
  <2> QED
    BY <1>1, <2>1, <2>2, QuietSender DEF QueuesInv
<1>13. CASE UNCHANGED Q!vars
  <2>1. UNCHANGED <<Q!filling, air, Q!receiver>> /\ UNCHANGED <<mode, Q!sender>> /\ life' = life
    BY <1>13 DEF Q!vars, Q!sender
  <2> QED
    BY <1>1, <2>1, QuietReceiver, QuietSender DEF QueuesInv
<1> QED
  BY <1>2, <1>3, <1>4, <1>5, <1>6, <1>7, <1>8, <1>9, <1>10, <1>11, <1>12, <1>13 DEF Q!Next

(* The queues, the frame being filled, the frames on their way and the     *)
(* store of the receiver fit each other at all times: what waits is in     *)
(* order and behind everything finished and cut before it, what was cut of *)
(* one packet does not overlap, and an entry of one life knows the length  *)
(* of its packet.                                                          *)
THEOREM QueuesInvariance == QueuesSpec => []QueuesInv
<1>1. Q!Init => QueuesInv
  BY InitQueuesInv, QueuesAssumption
<1>2. QueuesInv /\ [Q!Next]_Q!vars => QueuesInv'
  BY NextQueuesInv
<1> QED
  BY <1>1, <1>2, PTL DEF Q!Spec, QueuesSpec

(* Overflow, packets too big, fragmentation and start lose no token, and   *)
(* packets of one queue for one destination are finished in the order they *)
(* came (take_transmission, downstream, start).                            *)
THEOREM QueuesSoundAlways == QueuesSpec => []QueuesSound
<1>1. QueuesInv => QueuesSound
  BY DEF QueuesInv, SenderOK, QueuesSound
<1> QED
  BY <1>1, QueuesInvariance, PTL

(* What complete_receive passes up is one packet as it was sent, or        *)
(* fragments of two lives of the sender that followed each other within    *)
(* the timeout.                                                            *)
THEOREM ReassembledAlways == QueuesSpec => []ReassembledAsSent
<1>1. QueuesInv => ReassembledAsSent
  BY DEF QueuesInv, ReceiverOK, ReassembledAsSent
<1> QED
  BY <1>1, QueuesInvariance, PTL
=============================================================================
