------------------------- MODULE TimerServiceProofs -------------------------
(***************************************************************************)
(* Proofs about the timer service, for any number of timers, any clock     *)
(* bound and any set of intervals.                                         *)
(***************************************************************************)
EXTENDS TimerService, TLAPS

(* The inductive invariant: ContextOwnedOnce says where each timer is,     *)
(* which RevokedIsRecorded and FiringsSpaced need to follow one timer.     *)
IInv == /\ TypeOK
        /\ ContextOwnedOnce
        /\ NoOversleep
        /\ RevokedIsRecorded
        /\ FiringsSpaced

(* What the first state gives: no timer exists. *)
LEMMA InitIInv == Init => IInv
<1> SUFFICES ASSUME Init PROVE IInv
  OBVIOUS
<1> USE TimerAssumption DEF Init
<1>1. TypeOK
  BY DEF TypeOK, Entry, NoEntry, Ids, Issued
<1>2. ContextOwnedOnce
  BY DEF ContextOwnedOnce, Ids, Issued, InHeap, NoEntry
<1>3. NoOversleep
  BY DEF NoOversleep
<1>4. RevokedIsRecorded
  BY DEF RevokedIsRecorded
<1>5. FiringsSpaced
  BY DEF FiringsSpaced, Ids
<1> QED
  BY <1>1, <1>2, <1>3, <1>4, <1>5 DEF IInv

(* Every step keeps it. *)
LEMMA NextIInv == IInv /\ [Next]_vars => IInv'
<1> SUFFICES ASSUME IInv, [Next]_vars PROVE IInv'
  OBVIOUS
<1> USE TimerAssumption DEF IInv, TypeOK, Entry, NoEntry, Ids, Issued, history
<1>1. CASE \E x \in 0..MaxTime, n \in Intervals : Schedule(x, n)
  <2> PICK x \in 0..MaxTime, n \in Intervals : Schedule(x, n)
    BY <1>1
  <2>1. TypeOK'
    BY SMTT(30) DEF Schedule, Woken
  <2>2. ContextOwnedOnce'
    <3> DEFINE new == [id |-> next_event_id, expire |-> x, interval |-> n]
    <3>0. new.id = next_event_id
      OBVIOUS
    <3>1. /\ timers' = timers \cup {new}
          /\ next_event_id' = next_event_id + 1
          /\ UNCHANGED <<top, frees>>
      BY DEF Schedule
    <3>2. Issued' = Issued \cup {next_event_id} /\ next_event_id \notin Issued
      BY <3>1
    <3> HIDE DEF new
    <3>3. \A i \in Ids : InHeap(i)' <=> InHeap(i) \/ i = next_event_id
      BY <3>0, <3>1 DEF InHeap
    <3>4. /\ \A e, f \in timers' : e.id = f.id => e = f
          /\ \A e \in timers' : e.id \in Issued' /\ top'.id # e.id
      <4>1. /\ \A e \in timers : e.id \in Issued /\ top.id # e.id
            /\ top.id \in Issued \cup {0}
        BY DEF ContextOwnedOnce
      <4>2. new.id \notin Issued /\ top.id # new.id
        BY <3>0, <3>2, <4>1
      <4> HIDE DEF Issued
      <4> QED
        BY <3>0, <3>1, <3>2, <4>1, <4>2 DEF ContextOwnedOnce
    <3>5. top'.id \in Issued' \cup {0}
      BY <3>1, <3>2 DEF ContextOwnedOnce
    <3>6. frees[next_event_id] = 0 /\ top.id # next_event_id
      BY <3>2 DEF ContextOwnedOnce, Schedule
    <3> HIDE DEF Issued
    <3>7. \A i \in Ids :
            /\ frees'[i] \in {0, 1}
            /\ frees'[i] = 1 => i \in Issued' /\ ~InHeap(i)' /\ top'.id # i
            /\ i \in Issued' /\ frees'[i] = 0 => InHeap(i)' \/ top'.id = i
      BY <3>1, <3>2, <3>3, <3>6 DEF ContextOwnedOnce
    <3> QED
      BY <3>4, <3>5, <3>7 DEF ContextOwnedOnce
  <2>3. NoOversleep'
    BY SMTT(30) DEF Schedule, Woken, NoOversleep, IsTop, Earlier
  <2>4. RevokedIsRecorded'
    BY SMTT(30) DEF Schedule, Woken, ContextOwnedOnce, RevokedIsRecorded, InHeap
  <2>5. FiringsSpaced'
    <3> DEFINE new == [id |-> next_event_id, expire |-> x, interval |-> n]
    <3>1. /\ timers' = timers \cup {new} /\ new.id = next_event_id
          /\ next_event_id' = next_event_id + 1
          /\ UNCHANGED <<top, fire_time, last_fire>>
      BY DEF Schedule
    <3>2. thread' = "callback" => thread = "callback"
      BY DEF Schedule, Woken
    <3> HIDE DEF new
    <3>3. next_event_id \in Ids /\ ~(last_fire[next_event_id] >= 0)
      BY DEF Schedule, FiringsSpaced
    <3>4. \A i \in Ids : last_fire'[i] >= 0 => i \in Issued'
      BY <3>1 DEF FiringsSpaced
    <3>5. \A e \in timers' : last_fire'[e.id] >= 0
                               => e.expire >= last_fire'[e.id] + e.interval
      BY <3>1, <3>3 DEF FiringsSpaced
    <3>6. thread' = "callback" => last_fire'[top'.id] = fire_time'
      BY <3>1, <3>2 DEF FiringsSpaced
    <3> QED
      BY <3>4, <3>5, <3>6 DEF FiringsSpaced
  <2> QED
    BY <2>1, <2>2, <2>3, <2>4, <2>5
<1>2. CASE \E i \in Issued : Cancel(i)
  <2> PICK i \in Issued : Cancel(i)
    BY <1>2
  <2>1. TypeOK'
    BY DEF Cancel, Woken
  <2>2. ContextOwnedOnce'
    BY DEF Cancel, Woken, ContextOwnedOnce, InHeap
  <2>3. NoOversleep'
    BY DEF Cancel, Woken, NoOversleep, IsTop, Earlier
  <2>4. RevokedIsRecorded'
    BY DEF Cancel, Woken, ContextOwnedOnce, RevokedIsRecorded, InHeap
  <2>5. FiringsSpaced'
    BY DEF Cancel, Woken, ContextOwnedOnce, FiringsSpaced
  <2> QED
    BY <2>1, <2>2, <2>3, <2>4, <2>5
<1>3. CASE \E e \in timers : DiscardCancelled(e)
  <2> PICK e \in timers : DiscardCancelled(e)
    BY <1>3
  <2>1. TypeOK'
    <3>1. e \in Entry /\ e # NoEntry
      OBVIOUS
    <3> HIDE DEF Entry, NoEntry
    <3> QED
      BY <3>1 DEF DiscardCancelled
  <2>2. ContextOwnedOnce'
    BY SMTT(30) DEF DiscardCancelled, IsTop, ContextOwnedOnce, InHeap
  <2>3. NoOversleep'
    BY DEF DiscardCancelled, IsTop, NoOversleep, Earlier
  <2>4. RevokedIsRecorded'
    <3>1. ~InHeap(e.id)' /\ \A i \in Ids : InHeap(i)' => InHeap(i)
      BY DEF DiscardCancelled, InHeap, ContextOwnedOnce
    <3>2. /\ thread' = "free" /\ cancelled' = cancelled \ {e.id}
          /\ revoked' = revoked /\ e.id \in cancelled
      BY DEF DiscardCancelled
    <3>3. revoked \subseteq Ids
      OBVIOUS
    <3> HIDE DEF Ids, Issued, Entry, NoEntry
    <3> QED
      BY <3>1, <3>2, <3>3 DEF RevokedIsRecorded
  <2>5. FiringsSpaced'
    BY DEF DiscardCancelled, IsTop, ContextOwnedOnce, FiringsSpaced
  <2> QED
    BY <2>1, <2>2, <2>3, <2>4, <2>5
<1>4. CASE \E e \in timers : Fire(e)
  <2> PICK e \in timers : Fire(e)
    BY <1>4
  <2>1. TypeOK'
    BY SMTT(30) DEF Fire, IsTop
  <2>2. ContextOwnedOnce'
    BY SMTT(30) DEF Fire, IsTop, ContextOwnedOnce, InHeap
  <2>3. NoOversleep'
    BY DEF Fire, IsTop, NoOversleep, Earlier
  <2>4. RevokedIsRecorded'
    BY DEF Fire, IsTop, ContextOwnedOnce, RevokedIsRecorded, InHeap
  <2>5. FiringsSpaced'
    BY DEF Fire, IsTop, ContextOwnedOnce, FiringsSpaced
  <2> QED
    BY <2>1, <2>2, <2>3, <2>4, <2>5
<1>5. CASE CallbackReturns
  <2> DEFINE again == [top EXCEPT !.expire = fire_time + top.interval]
  <2>a. /\ top \in Entry /\ top # NoEntry
        /\ again \in Entry /\ again.id = top.id
        /\ again.expire = fire_time + top.interval
        /\ again.interval = top.interval
    <3>1. top \in Entry /\ top # NoEntry
      BY <1>5 DEF CallbackReturns
    <3>2. PICK i \in Ids, x \in Nat, n \in Intervals :
            top = [id |-> i, expire |-> x, interval |-> n]
      BY <3>1
    <3>3. again = [id |-> i, expire |-> fire_time + n, interval |-> n]
      BY <3>2, SMTT(30)
    <3> QED
      BY <3>1, <3>2, <3>3
  <2>b. /\ \/ timers' = timers \cup {again} /\ top' = NoEntry /\ thread' = "loop"
             /\ top.id \notin cancelled /\ cancelled' = cancelled
           \/ timers' = timers /\ top' = top /\ thread' = "free"
             /\ cancelled' = cancelled \ {top.id}
        /\ UNCHANGED <<next_event_id, now, deadline, fire_time, frees, revoked,
                       last_fire>>
    BY <1>5 DEF CallbackReturns
  <2> HIDE DEF again
  <2>1. TypeOK'
    <3> HIDE DEF Entry, NoEntry
    <3> QED
      BY <2>a, <2>b
  <2>2. ContextOwnedOnce'
    <3>1. CASE timers' = timers \cup {again} /\ top' = NoEntry
      <4>1. \A i \in Ids : InHeap(i)' <=> InHeap(i) \/ i = top.id
        BY <3>1, <2>a DEF InHeap
      <4>2. NoEntry.id = 0 /\ top.id \in Ids
        BY <2>a
      <4> QED
        BY <3>1, <4>1, <4>2, <2>a, <2>b, SMTT(30) DEF ContextOwnedOnce
    <3>2. CASE timers' = timers /\ top' = top
      BY <3>2, <2>b DEF ContextOwnedOnce, InHeap
    <3> QED
      BY <2>b, <3>1, <3>2
  <2>3. NoOversleep'
    BY <1>5 DEF CallbackReturns, NoOversleep, IsTop, Earlier
  <2>4. RevokedIsRecorded'
    BY <1>5 DEF CallbackReturns, ContextOwnedOnce, RevokedIsRecorded, InHeap
  <2>5. FiringsSpaced'
    BY <1>5, <2>a, <2>b DEF CallbackReturns, ContextOwnedOnce, FiringsSpaced
  <2> QED
    BY <2>1, <2>2, <2>3, <2>4, <2>5
<1>6. CASE FreeReturns
  <2>1. TypeOK'
    <3>1. top.id \in Ids
      BY <1>6 DEF FreeReturns
    <3>2. frees' \in [Ids -> Nat]
      BY <1>6, <3>1 DEF FreeReturns
    <3> QED
      BY <1>6, <3>2 DEF FreeReturns
  <2>2. ContextOwnedOnce'
    BY <1>6, SMTT(30) DEF FreeReturns, ContextOwnedOnce, InHeap
  <2>3. NoOversleep'
    BY <1>6 DEF FreeReturns, NoOversleep, IsTop, Earlier
  <2>4. RevokedIsRecorded'
    BY <1>6 DEF FreeReturns, ContextOwnedOnce, RevokedIsRecorded, InHeap
  <2>5. FiringsSpaced'
    BY <1>6 DEF FreeReturns, ContextOwnedOnce, FiringsSpaced
  <2> QED
    BY <2>1, <2>2, <2>3, <2>4, <2>5
<1>7. CASE \E e \in timers : WaitForHead(e)
  <2> PICK e \in timers : WaitForHead(e)
    BY <1>7
  <2>1. TypeOK'
    BY DEF WaitForHead
  <2>2. ContextOwnedOnce'
    BY DEF WaitForHead, ContextOwnedOnce, InHeap
  <2>3. NoOversleep'
    <3>1. \A f \in timers : f.expire >= e.expire
      BY SMTT(30) DEF WaitForHead, IsTop, Earlier
    <3>2. \A f \in timers : IsTop(f) => f = e
      BY SMTT(30) DEF WaitForHead, IsTop, Earlier
    <3>3. \A f \in timers : IsTop(f)' <=> IsTop(f)
      BY DEF WaitForHead, IsTop, Earlier
    <3> QED
      BY <3>1, <3>2, <3>3 DEF WaitForHead, NoOversleep
  <2>4. RevokedIsRecorded'
    BY DEF WaitForHead, ContextOwnedOnce, RevokedIsRecorded, InHeap
  <2>5. FiringsSpaced'
    BY DEF WaitForHead, ContextOwnedOnce, FiringsSpaced
  <2> QED
    BY <2>1, <2>2, <2>3, <2>4, <2>5
<1>8. CASE WaitForTimer
  <2>1. TypeOK'
    BY <1>8 DEF WaitForTimer
  <2>2. ContextOwnedOnce'
    BY <1>8 DEF WaitForTimer, ContextOwnedOnce, InHeap
  <2>3. NoOversleep'
    BY <1>8 DEF WaitForTimer, NoOversleep, IsTop, Earlier
  <2>4. RevokedIsRecorded'
    BY <1>8 DEF WaitForTimer, ContextOwnedOnce, RevokedIsRecorded, InHeap
  <2>5. FiringsSpaced'
    BY <1>8 DEF WaitForTimer, ContextOwnedOnce, FiringsSpaced
  <2> QED
    BY <2>1, <2>2, <2>3, <2>4, <2>5
<1>9. CASE WaitTimesOut
  <2>1. TypeOK'
    BY <1>9 DEF WaitTimesOut
  <2>2. ContextOwnedOnce'
    BY <1>9 DEF WaitTimesOut, ContextOwnedOnce, InHeap
  <2>3. NoOversleep'
    BY <1>9 DEF WaitTimesOut, NoOversleep, IsTop, Earlier
  <2>4. RevokedIsRecorded'
    BY <1>9 DEF WaitTimesOut, ContextOwnedOnce, RevokedIsRecorded, InHeap
  <2>5. FiringsSpaced'
    BY <1>9 DEF WaitTimesOut, ContextOwnedOnce, FiringsSpaced
  <2> QED
    BY <2>1, <2>2, <2>3, <2>4, <2>5
<1>10. CASE SpuriousWakeup
  <2>1. TypeOK'
    BY <1>10 DEF SpuriousWakeup
  <2>2. ContextOwnedOnce'
    BY <1>10 DEF SpuriousWakeup, ContextOwnedOnce, InHeap
  <2>3. NoOversleep'
    BY <1>10 DEF SpuriousWakeup, NoOversleep, IsTop, Earlier
  <2>4. RevokedIsRecorded'
    BY <1>10 DEF SpuriousWakeup, ContextOwnedOnce, RevokedIsRecorded, InHeap
  <2>5. FiringsSpaced'
    BY <1>10 DEF SpuriousWakeup, ContextOwnedOnce, FiringsSpaced
  <2> QED
    BY <2>1, <2>2, <2>3, <2>4, <2>5
<1>11. CASE Tick
  <2>1. TypeOK'
    BY <1>11 DEF Tick
  <2>2. ContextOwnedOnce'
    BY <1>11 DEF Tick, ContextOwnedOnce, InHeap
  <2>3. NoOversleep'
    BY <1>11 DEF Tick, NoOversleep, IsTop, Earlier
  <2>4. RevokedIsRecorded'
    BY <1>11 DEF Tick, ContextOwnedOnce, RevokedIsRecorded, InHeap
  <2>5. FiringsSpaced'
    BY <1>11 DEF Tick, ContextOwnedOnce, FiringsSpaced
  <2> QED
    BY <2>1, <2>2, <2>3, <2>4, <2>5
<1>12. CASE UNCHANGED vars
  <2>1. TypeOK'
    BY <1>12 DEF vars
  <2>2. ContextOwnedOnce'
    BY <1>12 DEF vars, ContextOwnedOnce, InHeap
  <2>3. NoOversleep'
    BY <1>12 DEF vars, NoOversleep, IsTop, Earlier
  <2>4. RevokedIsRecorded'
    BY <1>12 DEF vars, ContextOwnedOnce, RevokedIsRecorded, InHeap
  <2>5. FiringsSpaced'
    BY <1>12 DEF vars, ContextOwnedOnce, FiringsSpaced
  <2> QED
    BY <2>1, <2>2, <2>3, <2>4, <2>5
<1> QED
  BY <1>1, <1>2, <1>3, <1>4, <1>5, <1>6, <1>7, <1>8, <1>9, <1>10, <1>11, <1>12 DEF Next, TimerThread

(* The inductive invariant holds in every behaviour of the service. *)
THEOREM Invariance == Spec => []IInv
<1>1. Init => IInv
  BY InitIInv
<1>2. IInv /\ [Next]_vars => IInv'
  BY NextIInv
<1> QED
  BY <1>1, <1>2, PTL DEF Spec

(* The state of timer_thread and of TimerState is always well formed. *)
THEOREM TypeCorrect == Spec => []TypeOK
<1>1. IInv => TypeOK
  BY DEF IInv
<1> QED
  BY <1>1, Invariance, PTL

(* The user context handed to emane_rs_timer_schedule is never leaked,     *)
(* never freed twice and never freed while a callback can still use it.    *)
THEOREM ContextsOwned == Spec => []ContextOwnedOnce
<1>1. IInv => ContextOwnedOnce
  BY DEF IInv
<1> QED
  BY <1>1, Invariance, PTL

(* timer_thread never sleeps past a timer, although                        *)
(* emane_rs_timer_schedule notifies it only when the head changes.         *)
THEOREM NoLostWakeup == Spec => []NoOversleep
<1>1. IInv => NoOversleep
  BY DEF IInv
<1> QED
  BY <1>1, Invariance, PTL

(* After emane_rs_timer_cancel has returned timer_thread does not start    *)
(* the callback of that timer any more.                                    *)
THEOREM CancelIsFinal == Spec => CancelledNeverFires
<1>1. ASSUME IInv, [Next]_vars
      PROVE  [\A i \in revoked : ~Begins(i)]_vars
  <2> SUFFICES ASSUME NEW i \in revoked, Begins(i), Next PROVE FALSE
    BY <1>1 DEF vars
  <2>1. \E e \in timers : Fire(e)
    BY DEF Begins, Next, TimerThread, Schedule, Woken, Cancel, DiscardCancelled,
           CallbackReturns, FreeReturns, WaitForHead, WaitForTimer,
           WaitTimesOut, SpuriousWakeup, Tick
  <2>2. PICK e \in timers : Fire(e)
    BY <2>1
  <2>3. e.id = i /\ InHeap(i)
    BY <2>2 DEF Fire, Begins, InHeap
  <2> QED
    BY <1>1, <2>2, <2>3 DEF Fire, IInv, RevokedIsRecorded
<1> QED
  BY <1>1, Invariance, PTL DEF Spec, CancelledNeverFires

(* Two firings of an interval timer are at least its interval apart,       *)
(* however late timer_thread ran the first of them.                        *)
THEOREM IntervalIsKept == Spec => IntervalKept
<1>1. ASSUME IInv, [Next]_vars
      PROVE  [\A i \in Ids : Begins(i) /\ last_fire[i] >= 0
                        => now >= last_fire[i] + top'.interval]_vars
  <2> SUFFICES ASSUME NEW i \in Ids, Begins(i), last_fire[i] >= 0, Next
               PROVE  now >= last_fire[i] + top'.interval
    BY <1>1 DEF vars
  <2>1. \E e \in timers : Fire(e)
    BY DEF Begins, Next, TimerThread, Schedule, Woken, Cancel, DiscardCancelled,
           CallbackReturns, FreeReturns, WaitForHead, WaitForTimer,
           WaitTimesOut, SpuriousWakeup, Tick
  <2>2. PICK e \in timers : Fire(e)
    BY <2>1
  <2>3. e.id = i /\ top' = e /\ e.expire <= now
    BY <2>2 DEF Fire, Begins
  <2>4. e.expire >= last_fire[i] + e.interval
    BY <1>1, <2>3 DEF IInv, FiringsSpaced
  <2>5. /\ e.expire \in Nat /\ e.interval \in Nat /\ now \in Nat
        /\ last_fire[i] \in Int
    <3>1. e \in Entry /\ now \in 0..MaxTime /\ last_fire \in [Ids -> Int]
      BY <1>1 DEF IInv, TypeOK
    <3>2. e.expire \in Nat /\ e.interval \in Nat
      BY <3>1, TimerAssumption DEF Entry
    <3>3. now \in Nat
      BY <3>1, TimerAssumption
    <3> QED
      BY <3>1, <3>2, <3>3
  <2> QED
    BY <2>3, <2>4, <2>5
<1> QED
  BY <1>1, Invariance, PTL DEF Spec, IntervalKept

(* The state the contract gives the timers, and how a step that moves one  *)
(* timer changes it.                                                       *)
Mapped == [i \in Ids |-> TimerState(i)]

(* One timer of the contract moves, the others stay.                       *)
LEMMA MoveOne ==
  ASSUME NEW j \in Ids, NEW to, TimerState(j)' = to,
         \A i \in Ids \ {j} : TimerState(i)' = TimerState(i)
  PROVE  Mapped' = [Mapped EXCEPT ![j] = to]
BY DEF Mapped

(* What the service holds decides where the contract sees the timer. *)
LEMMA Located ==
  ASSUME IInv, NEW i \in Ids
  PROVE  /\ TimerState(i) = "armed" <=> InHeap(i)
         /\ TimerState(i) = "running" <=> thread = "callback" /\ top.id = i
         /\ TimerState(i) = "releasing" <=> thread = "free" /\ top.id = i
         /\ TimerState(i) = "released" <=> frees[i] = 1
         /\ TimerState(i) = "new" <=> i \notin Issued
         /\ TimerState(i) \in {"new", "armed", "running", "releasing", "released"}
<1>1. /\ frees[i] \in {0, 1}
      /\ frees[i] = 1 => i \in Issued /\ ~InHeap(i) /\ top.id # i
      /\ i \in Issued /\ frees[i] = 0 => InHeap(i) \/ top.id = i
      /\ InHeap(i) => i \in Issued /\ top.id # i
      /\ top.id = i => i \in Issued
  BY DEF IInv, ContextOwnedOnce, InHeap, Ids
<1>2. top.id = i => thread \in {"callback", "free"}
  BY DEF IInv, TypeOK, NoEntry, Ids
<1> HIDE DEF IInv, Ids
<1> QED
  BY <1>1, <1>2 DEF TimerState

(* Every step of the service is a step of the contract or a stutter.       *)
LEMMA StepKeepsContract ==
  ASSUME IInv, IInv', [Next]_vars
  PROVE  [Contract!Next]_(Contract!vars)
<1> USE DEF Contract!Next, Contract!vars, Contract!Move
<1>a. ASSUME UNCHANGED <<timers, top, frees, revoked>>,
             \/ thread' = thread
             \/ thread \notin {"callback", "free"} /\ thread' \notin {"callback", "free"}
      PROVE  UNCHANGED Contract!vars
  <2>1. \A i \in Ids : InHeap(i)' <=> InHeap(i)
    BY <1>a DEF InHeap
  <2>2. top.id \in Ids => thread \in {"callback", "free"}
    BY DEF IInv, TypeOK, NoEntry, Ids
  <2> QED
    BY <1>a, <2>1, <2>2 DEF TimerState
<1>1. CASE \E x \in 0..MaxTime, n \in Intervals : Schedule(x, n)
  <2> PICK x \in 0..MaxTime, n \in Intervals : Schedule(x, n)
    BY <1>1
  <2>0. next_event_id \in Ids
    BY TimerAssumption DEF Schedule, IInv, TypeOK, Ids
  <2> PICK j \in Ids : j = next_event_id
    BY <2>0
  <2> DEFINE new == [id |-> j, expire |-> x, interval |-> n]
  <2>1. j \in Ids /\ j \notin Issued
    BY DEF Ids, Issued
  <2>2. /\ timers' = timers \cup {new} /\ new.id = j
        /\ UNCHANGED <<top, frees, revoked>>
    BY DEF Schedule, history
  <2> HIDE DEF new
  <2>3. \A i \in Ids : InHeap(i)' <=> InHeap(i) \/ i = j
    BY <2>2 DEF InHeap
  <2>4. \A i \in Ids : top.id = i => thread' = thread
    BY DEF Schedule, Woken, IInv, TypeOK, NoEntry, Ids
  <2>5. TimerState(j) = "new" /\ TimerState(j)' = "armed"
    BY <2>1, <2>3, Located DEF TimerState
  <2>6. \A i \in Ids \ {j} : TimerState(i)' = TimerState(i)
    BY <2>2, <2>3, <2>4 DEF TimerState
  <2>7. Mapped' = [Mapped EXCEPT ![j] = "armed"] /\ Mapped[j] = "new"
    BY <2>1, <2>5, <2>6, MoveOne DEF Mapped
  <2> QED
    BY <2>1, <2>2, <2>7 DEF Mapped, Contract!Arm
<1>2. CASE \E i \in Issued : Cancel(i)
  <2> PICK i \in Issued : Cancel(i)
    BY <1>2
  <2>1. i \in Ids /\ TimerState(i) # "new"
    <3>1. i \in Ids
      BY TimerAssumption DEF IInv, TypeOK, Ids, Issued
    <3> QED
      BY <3>1, Located
  <2>2. \A k \in Ids : InHeap(k)' <=> InHeap(k)
    BY DEF Cancel, InHeap
  <2>3. \A k \in Ids : top.id = k => thread' = thread
    BY DEF Cancel, Woken, IInv, TypeOK, NoEntry, Ids
  <2>4. Mapped' = Mapped
    BY <2>2, <2>3 DEF Mapped, TimerState, Cancel
  <2> QED
    BY <2>1, <2>4 DEF Cancel, Mapped, Contract!Revoke
<1>3. CASE \E e \in timers : DiscardCancelled(e)
  <2> PICK e \in timers : DiscardCancelled(e)
    BY <1>3
  <2>1. e.id \in Ids /\ thread = "loop" /\ thread' = "free" /\ top' = e
    BY DEF DiscardCancelled, IInv, TypeOK, Entry
  <2>2. e.id \in revoked
    BY DEF DiscardCancelled, IInv, RevokedIsRecorded
  <2>3. /\ UNCHANGED <<frees, revoked>>
        /\ \A i \in Ids : InHeap(i) <=> InHeap(i)' \/ i = e.id
        /\ ~InHeap(e.id)'
    BY DEF DiscardCancelled, InHeap, history, IInv, ContextOwnedOnce
  <2>4. top.id \notin Ids
    BY <2>1 DEF IInv, TypeOK, NoEntry, Ids
  <2>5. TimerState(e.id) = "armed" /\ TimerState(e.id)' = "releasing"
    BY <2>1, <2>3 DEF TimerState
  <2>6. \A i \in Ids \ {e.id} : TimerState(i)' = TimerState(i)
    BY <2>1, <2>3, <2>4 DEF TimerState
  <2>7. Mapped' = [Mapped EXCEPT ![e.id] = "releasing"] /\ Mapped[e.id] = "armed"
    BY <2>1, <2>5, <2>6, MoveOne DEF Mapped
  <2> QED
    BY <2>1, <2>2, <2>3, <2>7 DEF Mapped, Contract!Drop
<1>4. CASE \E e \in timers : Fire(e)
  <2> PICK e \in timers : Fire(e)
    BY <1>4
  <2>1. e.id \in Ids /\ thread = "loop" /\ thread' = "callback" /\ top' = e
    BY DEF Fire, IInv, TypeOK, Entry
  <2>2. e.id \notin revoked
    BY DEF Fire, IInv, RevokedIsRecorded, InHeap
  <2>3. /\ UNCHANGED <<frees, revoked>>
        /\ \A i \in Ids : InHeap(i) <=> InHeap(i)' \/ i = e.id
        /\ ~InHeap(e.id)'
    BY DEF Fire, InHeap, IInv, ContextOwnedOnce
  <2>4. top.id \notin Ids
    BY <2>1 DEF IInv, TypeOK, NoEntry, Ids
  <2>5. TimerState(e.id) = "armed" /\ TimerState(e.id)' = "running"
    BY <2>1, <2>3 DEF TimerState
  <2>6. \A i \in Ids \ {e.id} : TimerState(i)' = TimerState(i)
    BY <2>1, <2>3, <2>4 DEF TimerState
  <2>7. Mapped' = [Mapped EXCEPT ![e.id] = "running"] /\ Mapped[e.id] = "armed"
    BY <2>1, <2>5, <2>6, MoveOne DEF Mapped
  <2> QED
    BY <2>1, <2>2, <2>3, <2>7 DEF Mapped, Contract!Start
<1>5. CASE CallbackReturns
  <2>0. top.id \in Ids /\ top \in Entry
    BY <1>5 DEF CallbackReturns, IInv, TypeOK, Entry, NoEntry
  <2> PICK j \in Ids : j = top.id
    BY <2>0
  <2> DEFINE again == [top EXCEPT !.expire = fire_time + top.interval]
  <2>1. /\ j \in Ids /\ thread = "callback" /\ UNCHANGED <<frees, revoked>>
        /\ again.id = j
    BY <1>5, <2>0 DEF CallbackReturns, Entry, history
  <2>2. ~InHeap(j)
    BY <2>1 DEF InHeap, IInv, ContextOwnedOnce
  <2>3. Mapped[j] = "running"
    BY <2>1, <2>2 DEF TimerState, Mapped
  <2>4. CASE /\ timers' = timers \cup {again} /\ j \notin cancelled
             /\ top' = NoEntry /\ thread' = "loop"
    <3>1. j \notin revoked
      BY <2>1, <2>4 DEF IInv, RevokedIsRecorded
    <3> HIDE DEF again
    <3>2. \A i \in Ids : InHeap(i)' <=> InHeap(i) \/ i = j
      BY <2>1, <2>4 DEF InHeap
    <3>3. top'.id \notin Ids
      BY <2>4 DEF NoEntry, Ids
    <3>4. TimerState(j)' = "armed"
      BY <2>1, <3>2 DEF TimerState
    <3>5. \A i \in Ids \ {j} : TimerState(i)' = TimerState(i)
      BY <2>1, <2>4, <3>2, <3>3 DEF TimerState
    <3>6. Mapped' = [Mapped EXCEPT ![j] = "armed"]
      BY <2>1, <3>4, <3>5, MoveOne
    <3> QED
      BY <2>1, <2>3, <3>1, <3>6 DEF Mapped, Contract!Rearm
  <2>5. CASE timers' = timers /\ top' = top /\ thread' = "free"
    <3>1. \A i \in Ids : InHeap(i)' <=> InHeap(i)
      BY <2>5 DEF InHeap
    <3>2. TimerState(j)' = "releasing"
      BY <2>1, <2>2, <2>5, <3>1 DEF TimerState
    <3>3. \A i \in Ids \ {j} : TimerState(i)' = TimerState(i)
      BY <2>1, <2>5, <3>1 DEF TimerState
    <3>4. Mapped' = [Mapped EXCEPT ![j] = "releasing"]
      BY <2>1, <3>2, <3>3, MoveOne
    <3> QED
      BY <2>1, <2>3, <3>4 DEF Mapped, Contract!Finish
  <2> QED
    BY <1>5, <2>4, <2>5 DEF CallbackReturns
<1>6. CASE FreeReturns
  <2>0. top.id \in Ids
    BY <1>6 DEF FreeReturns, IInv, TypeOK, Entry, NoEntry
  <2> PICK j \in Ids : j = top.id
    BY <2>0
  <2>1. /\ j \in Ids /\ thread = "free" /\ thread' = "loop" /\ top' = NoEntry
        /\ frees' = [frees EXCEPT ![j] = @ + 1] /\ UNCHANGED <<timers, revoked>>
    BY <1>6 DEF FreeReturns
  <2>2. ~InHeap(j)
    BY <2>1 DEF InHeap, IInv, ContextOwnedOnce
  <2>3. \A i \in Ids : InHeap(i)' <=> InHeap(i)
    BY <2>1 DEF InHeap
  <2>4. top'.id \notin Ids
    BY <2>1 DEF NoEntry, Ids
  <2>5. /\ frees'[j] > 0
        /\ \A i \in Ids \ {j} : frees'[i] = frees[i]
    BY <2>1 DEF IInv, TypeOK
  <2>6. Mapped[j] = "releasing"
    BY <2>1, <2>2 DEF TimerState, Mapped
  <2>7. TimerState(j)' = "released"
    BY <2>1, <2>2, <2>3, <2>4, <2>5 DEF TimerState
  <2>8. \A i \in Ids \ {j} : TimerState(i)' = TimerState(i)
    BY <2>1, <2>3, <2>4, <2>5 DEF TimerState
  <2>9. Mapped' = [Mapped EXCEPT ![j] = "released"]
    BY <2>1, <2>7, <2>8, MoveOne
  <2> QED
    BY <2>1, <2>6, <2>9 DEF Mapped, Contract!Release
<1>7. CASE \E e \in timers : WaitForHead(e)
  BY <1>7, <1>a DEF WaitForHead, history
<1>8. CASE WaitForTimer
  BY <1>8, <1>a DEF WaitForTimer, history
<1>9. CASE WaitTimesOut
  BY <1>9, <1>a DEF WaitTimesOut, history
<1>10. CASE SpuriousWakeup
  BY <1>10, <1>a DEF SpuriousWakeup, history
<1>11. CASE Tick
  BY <1>11, <1>a DEF Tick, history
<1>12. CASE UNCHANGED vars
  BY <1>12, <1>a DEF vars
<1> QED
  BY <1>1, <1>2, <1>3, <1>4, <1>5, <1>6, <1>7, <1>8, <1>9, <1>10, <1>11, <1>12
     DEF Next, TimerThread

(* The service with its heap, clock and thread implements TimerContract. *)
THEOREM KeepsContract == Spec => ContractKept
<1>1. Init => Contract!Init
  BY DEF Init, Contract!Init, TimerState, InHeap, NoEntry, Ids
<1>2. IInv /\ IInv' /\ [Next]_vars => [Contract!Next]_(Contract!vars)
  BY StepKeepsContract
<1> QED
  BY <1>1, <1>2, Invariance, PTL DEF Spec, ContractKept, Contract!Spec
=============================================================================
