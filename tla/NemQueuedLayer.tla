--------------------------- MODULE NemQueuedLayer ---------------------------
(***************************************************************************)
(* The queue in front of every component of a NEM: a deque behind a mutex, *)
(* an event descriptor that wakes one worker through epoll, file           *)
(* descriptor callbacks on the same worker, and a lifecycle that start and *)
(* stop drive from other threads.  Callers reach the queue through         *)
(* Invocation::process, which calls the component directly while the layer *)
(* has never been started and drops the call once it has been stopped.     *)
(*                                                                         *)
(* An action is one critical section or one system call; the worker and    *)
(* any number of callers interleave between them.  start and stop exclude  *)
(* each other through the mutex on the worker's handle.                    *)
(***************************************************************************)
EXTENDS Integers, Sequences, FiniteSets

CONSTANTS MaxTasks,   \* bound on the calls submitted
          Fds         \* file descriptors that can be added to the layer

ASSUME LayerAssumption ==
    /\ MaxTasks \in Nat
    /\ 0 \notin Fds

VARIABLES
    lifecycle,   \* "created", "running" or "stopped"
    queue,       \* accepted calls, oldest first
    cancel,      \* the stop request
    event_fd,    \* the event descriptor's counter is not zero
    callbacks,   \* descriptors with a registered callback
    control,     \* "idle", or where the thread inside stop() is
    worker,      \* where the worker thread is, "none" when not spawned
    ready,       \* events epoll_wait returned that are not handled yet
    batch,       \* the worker's current_queue
    running,     \* the call the worker executes, 0 when none
    submitted,   \* number of calls submitted so far
    signalling,  \* calls pushed whose caller has not written event_fd yet
    refused,     \* calls refused by enqueue, not yet decided on
    direct,      \* calls executing on their caller's thread
    fate         \* history: how each call ended, "none" until then

vars == <<lifecycle, queue, cancel, event_fd, callbacks, control, worker,
          ready, batch, running, submitted, signalling, refused, direct, fate>>

Tasks == 1..MaxTasks
EventFd == 0

caller == <<submitted, signalling, refused, direct>>
loop == <<worker, ready, batch, running>>

Init ==
    /\ lifecycle = "created"
    /\ queue = <<>>
    /\ cancel = FALSE
    /\ event_fd = FALSE
    /\ callbacks = {}
    /\ control = "idle"
    /\ worker = "none"
    /\ ready = {}
    /\ batch = <<>>
    /\ running = 0
    /\ submitted = 0
    /\ signalling = {}
    /\ refused = {}
    /\ direct = {}
    /\ fate = [t \in Tasks |-> "none"]

(***************************************************************************)
(* Callers.                                                                *)
(***************************************************************************)

(* Slip: the caller signals only while the worker has no batch. *)
EnqueueSignalsIdleOnly ==
    /\ submitted < MaxTasks
    /\ submitted' = submitted + 1
    /\ IF lifecycle = "running"
       THEN /\ queue' = Append(queue, submitted')
            /\ signalling' = IF batch = <<>> THEN signalling \cup {submitted'}
                             ELSE signalling
            /\ UNCHANGED refused
       ELSE /\ refused' = refused \cup {submitted'}
            /\ UNCHANGED <<queue, signalling>>
    /\ UNCHANGED <<lifecycle, cancel, event_fd, callbacks, control, loop,
                   direct, fate>>

(* Under the queue's mutex: refused unless the layer is running. *)
Enqueue ==
    /\ submitted < MaxTasks
    /\ submitted' = submitted + 1
    /\ \/ /\ lifecycle = "running"
          /\ queue' = Append(queue, submitted')
          /\ signalling' = signalling \cup {submitted'}
          /\ UNCHANGED refused
       \/ /\ lifecycle # "running"
          /\ refused' = refused \cup {submitted'}
          /\ UNCHANGED <<queue, signalling>>
    /\ UNCHANGED <<lifecycle, cancel, event_fd, callbacks, control, loop,
                   direct, fate>>

(* The mutex is released; the caller writes the event descriptor. *)
Signal(t) ==
    /\ t \in signalling
    /\ signalling' = signalling \ {t}
    /\ event_fd' = TRUE
    /\ UNCHANGED <<lifecycle, queue, cancel, callbacks, control, loop,
                   submitted, refused, direct, fate>>

(* Slip: a refused call is made directly whatever the lifecycle. *)
DecideAlwaysDirect(t) ==
    /\ t \in refused
    /\ refused' = refused \ {t}
    /\ direct' = direct \cup {t}
    /\ UNCHANGED <<lifecycle, queue, cancel, event_fd, callbacks, control,
                   loop, submitted, signalling, fate>>

(* A refused call: accepts_direct_calls is read outside the mutex.  The    *)
(* call is made on the caller's thread, or dropped.                        *)
Decide(t) ==
    /\ t \in refused
    /\ refused' = refused \ {t}
    /\ \/ /\ lifecycle = "created"
          /\ direct' = direct \cup {t}
          /\ UNCHANGED fate
       \/ /\ lifecycle # "created"
          /\ fate' = [fate EXCEPT ![t] = "refused"]
          /\ UNCHANGED direct
    /\ UNCHANGED <<lifecycle, queue, cancel, event_fd, callbacks, control,
                   loop, submitted, signalling>>

DirectReturns(t) ==
    /\ t \in direct
    /\ direct' = direct \ {t}
    /\ fate' = [fate EXCEPT ![t] = "direct"]
    /\ UNCHANGED <<lifecycle, queue, cancel, event_fd, callbacks, control,
                   loop, submitted, signalling, refused>>

AddFd(f) ==
    /\ callbacks' = callbacks \cup {f}
    /\ UNCHANGED <<lifecycle, queue, cancel, event_fd, control, loop, caller,
                   fate>>

RemoveFd(f) ==
    /\ callbacks' = callbacks \ {f}
    /\ UNCHANGED <<lifecycle, queue, cancel, event_fd, control, loop, caller,
                   fate>>

(***************************************************************************)
(* Start and stop.                                                         *)
(***************************************************************************)

(* Nothing happens when there is a worker already. *)
Start ==
    /\ control = "idle"
    /\ worker = "none"
    /\ cancel' = FALSE
    /\ lifecycle' = "running"
    /\ worker' = "events"
    /\ UNCHANGED <<queue, event_fd, callbacks, control, ready, batch, running,
                   caller, fate>>

(* stop: under the queue's mutex, request cancellation and refuse calls. *)
StopBegins ==
    /\ control = "idle"
    /\ control' = "signal"
    /\ cancel' = TRUE
    /\ lifecycle' = "stopped"
    /\ UNCHANGED <<queue, event_fd, callbacks, loop, caller, fate>>

(* Slip: stop relies on the next call to wake the worker. *)
StopForgetsSignal ==
    /\ control = "signal"
    /\ control' = "join"
    /\ UNCHANGED <<lifecycle, queue, cancel, event_fd, callbacks, loop, caller,
                   fate>>

StopSignals ==
    /\ control = "signal"
    /\ control' = "join"
    /\ event_fd' = TRUE
    /\ UNCHANGED <<lifecycle, queue, cancel, callbacks, loop, caller, fate>>

(* Slip: stop returns without joining the worker. *)
StopReturnsWithoutJoin ==
    /\ control = "join"
    /\ control' = "idle"
    /\ cancel' = FALSE
    /\ UNCHANGED <<lifecycle, queue, event_fd, callbacks, loop, caller, fate>>

(* The worker, if there is one, has been joined. *)
StopReturns ==
    /\ control = "join"
    /\ worker \in {"none", "exited"}
    /\ control' = "idle"
    /\ worker' = "none"
    /\ cancel' = FALSE
    /\ UNCHANGED <<lifecycle, queue, event_fd, callbacks, ready, batch, running,
                   caller, fate>>

(***************************************************************************)
(* The worker.                                                             *)
(***************************************************************************)

(* epoll_wait is level-triggered: it reports the event descriptor whenever *)
(* its counter is not zero, with any registered descriptors that are ready. *)
Poll ==
    /\ worker = "events"
    /\ ready = {}
    /\ \E fds \in SUBSET callbacks :
         ready' = fds \cup (IF event_fd THEN {EventFd} ELSE {})
    /\ ready' # {}
    /\ UNCHANGED <<lifecycle, queue, cancel, event_fd, callbacks, control,
                   worker, batch, running, caller, fate>>

(* Reading the descriptor resets its counter. *)
ReadEventFd ==
    /\ worker = "events"
    /\ EventFd \in ready
    /\ ready' = ready \ {EventFd}
    /\ event_fd' = FALSE
    /\ worker' = "swap"
    /\ UNCHANGED <<lifecycle, queue, cancel, callbacks, control, batch, running,
                   caller, fate>>

(* Slip: the queue is taken without emptying it. *)
SwapWithoutClearing ==
    /\ worker = "swap"
    /\ batch' = queue
    /\ worker' = "check"
    /\ UNCHANGED <<lifecycle, queue, cancel, event_fd, callbacks, control,
                   ready, running, caller, fate>>

(* Under the queue's mutex, take everything accepted so far. *)
Swap ==
    /\ worker = "swap"
    /\ batch' = queue
    /\ queue' = <<>>
    /\ worker' = "check"
    /\ UNCHANGED <<lifecycle, cancel, event_fd, callbacks, control, ready,
                   running, caller, fate>>

InBatch(t) == \E k \in DOMAIN batch : batch[k] = t
InQueue(t) == \E k \in DOMAIN queue : queue[k] = t

(* Cancelled: the thread returns and its batch is dropped with it.  Calls  *)
(* accepted after the swap stay in the queue.                              *)
Exit ==
    /\ worker = "check"
    /\ cancel
    /\ fate' = [t \in Tasks |-> IF InBatch(t) THEN "discarded" ELSE fate[t]]
    /\ batch' = <<>>
    /\ ready' = {}
    /\ worker' = "exited"
    /\ UNCHANGED <<lifecycle, queue, cancel, event_fd, callbacks, control,
                   running, caller>>

KeepOn ==
    /\ worker = "check"
    /\ ~cancel
    /\ worker' = "run"
    /\ UNCHANGED <<lifecycle, queue, cancel, event_fd, callbacks, control,
                   ready, batch, running, caller, fate>>

RunTask ==
    /\ worker = "run"
    /\ running = 0
    /\ batch # <<>>
    /\ running' = Head(batch)
    /\ batch' = Tail(batch)
    /\ UNCHANGED <<lifecycle, queue, cancel, event_fd, callbacks, control,
                   worker, ready, caller, fate>>

TaskReturns ==
    /\ running # 0
    /\ running' = 0
    /\ fate' = [fate EXCEPT ![running] = "executed"]
    /\ UNCHANGED <<lifecycle, queue, cancel, event_fd, callbacks, control,
                   worker, ready, batch, caller>>

BatchDone ==
    /\ worker = "run"
    /\ running = 0
    /\ batch = <<>>
    /\ worker' = "events"
    /\ UNCHANGED <<lifecycle, queue, cancel, event_fd, callbacks, control,
                   ready, batch, running, caller, fate>>

(* A descriptor's callback is looked up when its event is handled, not     *)
(* when it was reported.                                                   *)
HandleFd(f) ==
    /\ worker = "events"
    /\ f \in ready
    /\ ready' = ready \ {f}
    /\ worker' = IF f \in callbacks THEN "callback" ELSE "events"
    /\ UNCHANGED <<lifecycle, queue, cancel, event_fd, callbacks, control,
                   batch, running, caller, fate>>

CallbackReturns ==
    /\ worker = "callback"
    /\ worker' = "events"
    /\ UNCHANGED <<lifecycle, queue, cancel, event_fd, callbacks, control,
                   ready, batch, running, caller, fate>>

-----------------------------------------------------------------------------
Worker ==
    \/ Poll
    \/ ReadEventFd
    \/ Swap
    \/ Exit
    \/ KeepOn
    \/ RunTask
    \/ TaskReturns
    \/ BatchDone
    \/ \E f \in Fds : HandleFd(f)
    \/ CallbackReturns

Stop == StopBegins \/ StopSignals \/ StopReturns

Next ==
    \/ Enqueue
    \/ \E t \in Tasks : Signal(t) \/ Decide(t) \/ DirectReturns(t)
    \/ \E f \in Fds : AddFd(f) \/ RemoveFd(f)
    \/ Start
    \/ Stop
    \/ Worker

Spec == Init /\ [][Next]_vars

(* Threads inside enqueue, stop and the worker keep running, and the calls *)
(* they make return.                                                       *)
FairSpec ==
    /\ Spec
    /\ WF_vars(Worker)
    /\ WF_vars(StopSignals \/ StopReturns)
    /\ \A t \in Tasks : WF_vars(Signal(t))
-----------------------------------------------------------------------------
(***************************************************************************)
(* Properties.                                                             *)
(***************************************************************************)
(* The state of the layer is well formed. *)
TypeOK ==
    /\ lifecycle \in {"created", "running", "stopped"}
    /\ queue \in Seq(Tasks)
    /\ cancel \in BOOLEAN
    /\ event_fd \in BOOLEAN
    /\ callbacks \subseteq Fds
    /\ control \in {"idle", "signal", "join"}
    /\ worker \in {"none", "events", "swap", "check", "run", "callback",
                   "exited"}
    /\ ready \subseteq Fds \cup {EventFd}
    /\ batch \in Seq(Tasks)
    /\ batch # <<>> => worker \in {"check", "run"}
    /\ running \in Tasks \cup {0}
    /\ running # 0 => worker = "run"
    /\ submitted \in 0..MaxTasks
    /\ signalling \subseteq 1..submitted
    /\ refused \subseteq 1..submitted
    /\ direct \subseteq 1..submitted
    /\ fate \in [Tasks -> {"none", "refused", "direct", "discarded", "executed"}]

Pending == batch \o queue

(* While a stopped layer is not being stopped, it has no worker, executes  *)
(* nothing and has no cancellation left over that would kill the worker of *)
(* the next start.                                                         *)
StoppedIsQuiet ==
    control = "idle" =>
      /\ ~cancel
      /\ lifecycle # "running" => worker = "none" /\ running = 0 /\ batch = <<>>
      /\ lifecycle = "running" => worker \notin {"none", "exited"}

(* No lost wakeup: when the worker is about to block in epoll_wait with    *)
(* calls in the queue or a cancellation requested, the event descriptor is *)
(* set or some thread is still on its way to set it.                       *)
WakeupComing ==
    worker = "events" /\ (queue # <<>> \/ cancel)
      => \/ event_fd
         \/ EventFd \in ready
         \/ signalling # {}
         \/ control = "signal"

(* A call made on its caller's thread may overlap the worker, because      *)
(* accepts_direct_calls is read outside the mutex and start can come       *)
(* between; but it never overtakes: every call the queue holds or the      *)
(* worker executes at that moment was submitted after it.                  *)
DirectNeverOvertakes ==
    \A t \in direct : /\ running # 0 => t < running
                      /\ \A k \in DOMAIN Pending : t < Pending[k]

(* A call accepted by a running layer is executed, unless the layer is     *)
(* stopped.                                                                *)
AcceptedIsExecuted ==
    \A t \in Tasks : InQueue(t) ~> fate[t] = "executed" \/ lifecycle = "stopped"

(* stop returns, whatever the worker was doing and whatever callers do. *)
StopTerminates == control # "idle" ~> control = "idle"

(* Both: neither a caller nor stop waits for a worker that sleeps on. *)
CallsAndStopEnd == AcceptedIsExecuted /\ StopTerminates

Phase == IF control # "idle" THEN "closing"
         ELSE IF lifecycle = "running" THEN "open" ELSE "closed"

Contract == INSTANCE SerialExecutor
                WITH Calls <- Tasks,
                     pending <- Pending,
                     current <- {running} \ {0},
                     phase <- Phase

(* The queue, its worker and its stop protocol implement a serial executor. *)
SerialExecution == Contract!Spec
=============================================================================
