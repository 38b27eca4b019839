---------------------------- MODULE TimerService ----------------------------
(***************************************************************************)
(* The process-wide timer service: a heap of timers and a set of cancelled *)
(* identifiers behind one mutex, a condition variable, and one thread that *)
(* pops expired timers and calls them with the mutex released.             *)
(*                                                                         *)
(* Every action is one critical section of the mutex, or the return of a   *)
(* callback the thread runs outside it.  Clients call schedule and cancel  *)
(* at any moment, from any thread, the timer thread's callbacks included.  *)
(* A timer identifier stands for the user context handed over with it: the *)
(* service owns that context until it calls the free callback.             *)
(***************************************************************************)
EXTENDS Integers, FiniteSets

CONSTANTS MaxTimers,    \* bound on the timers scheduled (next_event_id)
          MaxTime,      \* bound on the clock and on requested expirations
          Intervals     \* the repeat intervals clients ask for, 0 = one-shot

ASSUME TimerAssumption ==
    /\ MaxTimers \in Nat \ {0}
    /\ MaxTime \in Nat
    /\ Intervals \subseteq Nat

VARIABLES
    timers,         \* TimerState.timers: the heap, as a set of entries
    cancelled,      \* TimerState.cancelled
    next_event_id,  \* TimerState.next_event_id
    now,            \* SystemTime::now(), in ticks
    thread,         \* what the timer thread is doing
    top,            \* the entry the thread has popped, or NoEntry
    deadline,       \* when its wait_timeout ends
    fire_time,      \* now_micros of the firing in progress
    frees,          \* history: calls of free_callback per timer
    revoked,        \* history: timers a returned cancel call named
    last_fire       \* history: when the timer's callback last began, or -1

vars == <<timers, cancelled, next_event_id, now, thread, top, deadline,
          fire_time, frees, revoked, last_fire>>

history == <<frees, revoked, last_fire>>

Ids == 1..MaxTimers
Entry == [id : Ids, expire : Nat, interval : Intervals]
NoEntry == [id |-> 0, expire |-> 0, interval |-> 0]

Issued == 1..(next_event_id - 1)
InHeap(i) == \E e \in timers : e.id = i

(* Ord for TimerEntry: earliest expiration first, then lowest identifier. *)
Earlier(e, f) == \/ e.expire < f.expire
                 \/ e.expire = f.expire /\ e.id < f.id

(* BinaryHeap::peek *)
IsTop(e) == e \in timers /\ \A f \in timers \ {e} : Earlier(e, f)

-----------------------------------------------------------------------------
Init ==
    /\ timers = {}
    /\ cancelled = {}
    /\ next_event_id = 1
    /\ now = 0
    /\ thread = "unborn"
    /\ top = NoEntry
    /\ deadline = 0
    /\ fire_time = 0
    /\ frees = [i \in Ids |-> 0]
    /\ revoked = {}
    /\ last_fire = [i \in Ids |-> -1]

(* Condvar::notify_one: the timer thread is the only waiter. *)
Woken == IF thread \in {"wait", "wait_timeout"} THEN "loop" ELSE thread

(***************************************************************************)
(* Clients.                                                                *)
(***************************************************************************)

(* Slip: notify only when the heap was empty. *)
ScheduleWakesOnEmptyOnly(expire, interval) ==
    /\ next_event_id <= MaxTimers
    /\ next_event_id' = next_event_id + 1
    /\ timers' = timers \cup {[id |-> next_event_id, expire |-> expire,
                               interval |-> interval]}
    /\ thread' = IF thread = "unborn" THEN "loop"
                 ELSE IF timers = {} THEN Woken ELSE thread
    /\ UNCHANGED <<cancelled, now, top, deadline, fire_time, history>>

(* emane_rs_timer_schedule: INIT_THREAD spawns the thread on the first     *)
(* call; the thread is notified only when the new timer becomes the head.  *)
Schedule(expire, interval) ==
    LET wake_thread == \A f \in timers : IsTop(f) => expire < f.expire
    IN  /\ next_event_id <= MaxTimers
        /\ next_event_id' = next_event_id + 1
        /\ timers' = timers \cup {[id |-> next_event_id, expire |-> expire,
                                   interval |-> interval]}
        /\ thread' = IF thread = "unborn" THEN "loop"
                     ELSE IF wake_thread THEN Woken ELSE thread
        /\ UNCHANGED <<cancelled, now, top, deadline, fire_time, history>>

(* emane_rs_timer_cancel: records the identifier, whatever the timer's     *)
(* state, and always notifies.                                             *)
Cancel(i) ==
    /\ cancelled' = cancelled \cup {i}
    /\ revoked' = revoked \cup {i}
    /\ thread' = Woken
    /\ UNCHANGED <<timers, next_event_id, now, top, deadline, fire_time,
                   frees, last_fire>>

(***************************************************************************)
(* The timer thread.                                                       *)
(***************************************************************************)

(* Slip: the cancelled head is dropped without freeing its context. *)
DiscardWithoutFree(e) ==
    /\ thread = "loop"
    /\ IsTop(e)
    /\ e.id \in cancelled
    /\ timers' = timers \ {e}
    /\ cancelled' = cancelled \ {e.id}
    /\ UNCHANGED <<next_event_id, now, thread, top, deadline, fire_time,
                   history>>

(* Slip: the cancelled head is freed but left in the heap. *)
DiscardWithoutPop(e) ==
    /\ thread = "loop"
    /\ IsTop(e)
    /\ e.id \in cancelled
    /\ cancelled' = cancelled \ {e.id}
    /\ top' = e
    /\ thread' = "free"
    /\ UNCHANGED <<timers, next_event_id, now, deadline, fire_time, history>>

(* The head has been cancelled: forget it and free its context with the    *)
(* mutex released.                                                         *)
DiscardCancelled(e) ==
    /\ thread = "loop"
    /\ IsTop(e)
    /\ e.id \in cancelled
    /\ timers' = timers \ {e}
    /\ cancelled' = cancelled \ {e.id}
    /\ top' = e
    /\ thread' = "free"
    /\ UNCHANGED <<next_event_id, now, deadline, fire_time, history>>

(* Slip: an expired head is called although it was cancelled. *)
FireCancelled(e) ==
    /\ thread = "loop"
    /\ IsTop(e)
    /\ e.expire <= now
    /\ timers' = timers \ {e}
    /\ top' = e
    /\ fire_time' = now
    /\ last_fire' = [last_fire EXCEPT ![e.id] = now]
    /\ thread' = "callback"
    /\ UNCHANGED <<cancelled, next_event_id, now, deadline, frees, revoked>>

(* The head has expired: pop it, release the mutex, start its callback.    *)
Fire(e) ==
    /\ thread = "loop"
    /\ IsTop(e)
    /\ e.id \notin cancelled
    /\ e.expire <= now
    /\ timers' = timers \ {e}
    /\ top' = e
    /\ fire_time' = now
    /\ last_fire' = [last_fire EXCEPT ![e.id] = now]
    /\ thread' = "callback"
    /\ UNCHANGED <<cancelled, next_event_id, now, deadline, frees, revoked>>

(* Slip: an interval timer cancelled while it runs is pushed back and the  *)
(* cancellation forgotten.                                                 *)
CallbackReturnsForgettingCancel ==
    /\ thread = "callback"
    /\ \/ /\ top.interval > 0
          /\ timers' = timers \cup
                         {[top EXCEPT !.expire = fire_time + top.interval]}
          /\ cancelled' = cancelled \ {top.id}
          /\ top' = NoEntry
          /\ thread' = "loop"
       \/ /\ top.interval = 0
          /\ cancelled' = cancelled \ {top.id}
          /\ thread' = "free"
          /\ UNCHANGED <<timers, top>>
    /\ UNCHANGED <<next_event_id, now, deadline, fire_time, history>>

(* The callback returns and the mutex is taken again: an interval timer    *)
(* that was not cancelled meanwhile is pushed back, counted from the time  *)
(* it fired; any other timer is finished and its context freed.            *)
CallbackReturns ==
    /\ thread = "callback"
    /\ \/ /\ top.interval > 0
          /\ top.id \notin cancelled
          /\ timers' = timers \cup
                         {[top EXCEPT !.expire = fire_time + top.interval]}
          /\ top' = NoEntry
          /\ thread' = "loop"
          /\ UNCHANGED cancelled
       \/ /\ top.interval = 0 \/ top.id \in cancelled
          /\ cancelled' = cancelled \ {top.id}
          /\ thread' = "free"
          /\ UNCHANGED <<timers, top>>
    /\ UNCHANGED <<next_event_id, now, deadline, fire_time, history>>

(* The free callback returns and the mutex is taken again. *)
FreeReturns ==
    /\ thread = "free"
    /\ frees' = [frees EXCEPT ![top.id] = @ + 1]
    /\ top' = NoEntry
    /\ thread' = "loop"
    /\ UNCHANGED <<timers, cancelled, next_event_id, now, deadline, fire_time,
                   revoked, last_fire>>

(* The head is not due: wait_timeout until it is. *)
WaitForHead(e) ==
    /\ thread = "loop"
    /\ IsTop(e)
    /\ e.id \notin cancelled
    /\ e.expire > now
    /\ thread' = "wait_timeout"
    /\ deadline' = e.expire
    /\ UNCHANGED <<timers, cancelled, next_event_id, now, top, fire_time,
                   history>>

(* No timer at all: wait to be notified. *)
WaitForTimer ==
    /\ thread = "loop"
    /\ timers = {}
    /\ thread' = "wait"
    /\ UNCHANGED <<timers, cancelled, next_event_id, now, top, deadline,
                   fire_time, history>>

WaitTimesOut ==
    /\ thread = "wait_timeout"
    /\ deadline <= now
    /\ thread' = "loop"
    /\ UNCHANGED <<timers, cancelled, next_event_id, now, top, deadline,
                   fire_time, history>>

(* A condition variable may wake its waiter for no reason. *)
SpuriousWakeup ==
    /\ thread \in {"wait", "wait_timeout"}
    /\ thread' = "loop"
    /\ UNCHANGED <<timers, cancelled, next_event_id, now, top, deadline,
                   fire_time, history>>

Tick ==
    /\ now < MaxTime
    /\ now' = now + 1
    /\ UNCHANGED <<timers, cancelled, next_event_id, thread, top, deadline,
                   fire_time, history>>

-----------------------------------------------------------------------------
TimerThread ==
    \/ \E e \in timers : DiscardCancelled(e)
    \/ \E e \in timers : Fire(e)
    \/ CallbackReturns
    \/ FreeReturns
    \/ \E e \in timers : WaitForHead(e)
    \/ WaitForTimer
    \/ WaitTimesOut

Next ==
    \/ \E x \in 0..MaxTime, n \in Intervals : Schedule(x, n)
    \/ \E i \in Issued : Cancel(i)
    \/ TimerThread
    \/ SpuriousWakeup
    \/ Tick

Spec == Init /\ [][Next]_vars

(* The thread keeps running, its callbacks return, a timed wait ends and   *)
(* the clock advances.                                                     *)
FairSpec == Spec /\ WF_vars(TimerThread) /\ WF_vars(Tick)
-----------------------------------------------------------------------------
(***************************************************************************)
(* Properties.                                                             *)
(***************************************************************************)
(* The state of the service is well formed: the thread holds an entry      *)
(* exactly while it runs one of its callbacks.                             *)
TypeOK ==
    /\ timers \subseteq Entry
    /\ cancelled \subseteq Issued
    /\ next_event_id \in 1..(MaxTimers + 1)
    /\ now \in 0..MaxTime
    /\ thread \in {"unborn", "loop", "callback", "free", "wait",
                   "wait_timeout"}
    /\ top \in Entry \cup {NoEntry}
    /\ (top # NoEntry) <=> (thread \in {"callback", "free"})
    /\ deadline \in Nat
    /\ fire_time \in Nat
    /\ frees \in [Ids -> Nat]
    /\ revoked \subseteq Issued
    /\ last_fire \in [Ids -> Int]

(* No leak, no double free, no use after free: the context of every timer  *)
(* ever issued is owned by the heap, or by the callback the thread is      *)
(* running, or has been freed once; never two of these and never none.     *)
ContextOwnedOnce ==
    /\ \A e, f \in timers : e.id = f.id => e = f
    /\ \A e \in timers : e.id \in Issued /\ top.id # e.id
    /\ top.id \in Issued \cup {0}
    /\ \A i \in Ids :
         /\ frees[i] \in {0, 1}
         /\ frees[i] = 1 => i \in Issued /\ ~InHeap(i) /\ top.id # i
         /\ i \in Issued /\ frees[i] = 0 => InHeap(i) \/ top.id = i

(* No lost wakeup: while the thread sleeps without a deadline there is no  *)
(* timer, and while it sleeps with one no timer is due before it wakes and *)
(* the head is not a cancelled timer waiting to be freed.  Schedule        *)
(* notifies only when the new timer is the head, so this is what makes     *)
(* that optimisation sound.                                                *)
NoOversleep ==
    /\ thread = "unborn" => timers = {}
    /\ thread = "wait" => timers = {}
    /\ thread = "wait_timeout" =>
         \A e \in timers : /\ e.expire >= deadline
                           /\ IsTop(e) => e.id \notin cancelled

(* The callback of timer i begins in this step. *)
Begins(i) == thread # "callback" /\ thread' = "callback" /\ top'.id = i

(* Once cancel has returned, the timer's callback never begins again; the  *)
(* one that is already running when cancel is called may still finish.     *)
CancelledNeverFires == [][\A i \in revoked : ~Begins(i)]_vars

(* Two firings of an interval timer are never closer than its interval,    *)
(* however late the thread got round to the first.                         *)
IntervalKept ==
    [][\A i \in Ids : Begins(i) /\ last_fire[i] >= 0
                        => now >= last_fire[i] + top'.interval]_vars

(* A timer that is due is eventually called, unless it is cancelled. *)
DueTimerFires ==
    \A i \in Ids :
      (\E e \in timers : e.id = i /\ e.expire <= now)
        ~> (thread = "callback" /\ top.id = i) \/ i \in revoked

(* And a cancelled timer's context is freed once the clock has reached     *)
(* its expiration: a cancelled timer below the head stays in the heap      *)
(* until then.                                                             *)
CancelledTimerFreed ==
    \A i \in Ids :
      (i \in revoked /\ (InHeap(i) => \E e \in timers :
                                        e.id = i /\ e.expire <= MaxTime))
        ~> frees[i] = 1

(* Every timer comes to its end: a due one is called, a cancelled one is   *)
(* freed.                                                                  *)
TimersEnd == DueTimerFires /\ CancelledTimerFreed

(* Between its two critical sections a firing can race a cancellation: a    *)
(* revoked timer that could still be called is always recorded in          *)
(* cancelled, so the next critical section that meets it sees it.          *)
RevokedIsRecorded ==
    /\ cancelled \subseteq revoked
    /\ \A i \in revoked :
         InHeap(i) \/ (thread = "callback" /\ top.id = i) => i \in cancelled

(* A timer in the heap that has fired before is due an interval after that *)
(* firing at the earliest, and the firing in progress is the last one.     *)
FiringsSpaced ==
    /\ \A i \in Ids : last_fire[i] >= 0 => i \in Issued
    /\ \A e \in timers :
         last_fire[e.id] >= 0 => e.expire >= last_fire[e.id] + e.interval
    /\ thread = "callback" => last_fire[top.id] = fire_time

(* The service implements its contract. *)
TimerState(i) ==
    IF InHeap(i) THEN "armed"
    ELSE IF top.id = i
         THEN IF thread = "callback" THEN "running" ELSE "releasing"
         ELSE IF frees[i] > 0 THEN "released" ELSE "new"

Contract == INSTANCE TimerContract
                WITH Timers <- Ids, state <- [i \in Ids |-> TimerState(i)]

(* Every behaviour of the service is one its contract allows. *)
ContractKept == Contract!Spec
=============================================================================
