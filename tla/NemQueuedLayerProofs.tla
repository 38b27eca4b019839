------------------------ MODULE NemQueuedLayerProofs ------------------------
(***************************************************************************)
(* Proofs about the layer queue, for any number of calls and any set of    *)
(* file descriptors.                                                       *)
(***************************************************************************)
EXTENDS NemQueuedLayer, SequenceTheorems, TLAPS

(* Where the lifecycle, the stop protocol and the worker stand to each     *)
(* other: stop is under way exactly while cancel is set, and only a worker *)
(* that is being stopped can have left its loop.                           *)
LifecycleAgrees ==
    /\ control # "idle" <=> cancel
    /\ control # "idle" => lifecycle = "stopped"
    /\ control = "idle" /\ lifecycle # "running" => worker = "none"
    /\ lifecycle = "running" => worker \notin {"none", "exited"}
    /\ lifecycle = "created" => queue = <<>> /\ batch = <<>>

(* A wakeup is owed from the moment a call is pushed or stop begins until  *)
(* the worker has read the descriptor, wherever the worker is.             *)
WakeupOwed ==
    /\ EventFd \in ready => worker \in {"events", "callback"} /\ event_fd
    /\ queue # <<>> /\ worker # "swap" =>
         event_fd \/ signalling # {} \/ control = "signal"
    /\ cancel /\ worker \in {"events", "run", "callback"} =>
         event_fd \/ control = "signal"

(* A call on its caller's thread is older than anything accepted. *)
DirectIsOlder ==
    \A t \in direct : /\ running # 0 => t < running
                      /\ \A k \in 1..Len(queue) : t < queue[k]
                      /\ \A k \in 1..Len(batch) : t < batch[k]

(* The inductive invariant. *)
IInv == TypeOK /\ LifecycleAgrees /\ WakeupOwed /\ DirectIsOlder

(* Taking the oldest call out of a sequence, and adding one. *)
LEMMA TakeFirst ==
  ASSUME NEW S, NEW s \in Seq(S), s # <<>>
  PROVE  /\ Head(s) \in S /\ Head(s) = s[1] /\ Tail(s) \in Seq(S)
         /\ Len(s) \in Nat \ {0} /\ Len(Tail(s)) = Len(s) - 1
         /\ \A k \in 1..Len(Tail(s)) : Tail(s)[k] = s[k + 1]
  BY HeadTailProperties, LenProperties, EmptySeq

(* A call added to a sequence is the last of it.                           *)
LEMMA AddLast ==
  ASSUME NEW S, NEW s \in Seq(S), NEW e \in S
  PROVE  /\ Append(s, e) \in Seq(S) /\ Append(s, e) # <<>>
         /\ \A k \in 1..Len(Append(s, e)) :
              Append(s, e)[k] = e \/ (k \in 1..Len(s) /\ Append(s, e)[k] = s[k])
<1>1. Append(s, e) \in Seq(S) /\ Append(s, e) # <<>> /\ Len(Append(s, e)) = Len(s) + 1
  BY AppendProperties
<1>2. Len(s) \in Nat
  BY LenProperties
<1>3. \A k \in 1..Len(s) : Append(s, e)[k] = s[k]
  BY AppendProperties
<1>4. Append(s, e)[Len(s) + 1] = e
  BY AppendProperties
<1>5. ASSUME NEW k \in 1..Len(Append(s, e))
      PROVE  Append(s, e)[k] = e \/ (k \in 1..Len(s) /\ Append(s, e)[k] = s[k])
  <2>1. k = Len(s) + 1 \/ k \in 1..Len(s)
    BY <1>1, <1>2
  <2> QED
    BY <2>1, <1>3, <1>4
<1> QED
  BY <1>1, <1>5

(* What the first state gives: no call, no worker. *)
LEMMA InitIInv == Init => IInv
<1> SUFFICES ASSUME Init PROVE IInv
  OBVIOUS
<1> USE LayerAssumption DEF Init
<1>1. TypeOK
  <2>1. queue \in Seq(Tasks) /\ batch \in Seq(Tasks)
    BY EmptySeq
  <2>2. submitted \in 0..MaxTasks
    OBVIOUS
  <2> QED
    BY <2>1, <2>2 DEF TypeOK
<1>2. LifecycleAgrees
  BY DEF LifecycleAgrees
<1>3. WakeupOwed
  BY DEF WakeupOwed
<1>4. DirectIsOlder
  BY DEF DirectIsOlder
<1> QED
  BY <1>1, <1>2, <1>3, <1>4 DEF IInv

(* Every step keeps it. *)
LEMMA NextIInv == IInv /\ [Next]_vars => IInv'
<1> SUFFICES ASSUME IInv, [Next]_vars PROVE IInv'
  OBVIOUS
<1> USE LayerAssumption DEF IInv, TypeOK, Tasks, EventFd, caller, loop
<1>1. CASE Enqueue
  <2>a. submitted' \in Tasks /\ submitted' = submitted + 1
    BY <1>1 DEF Enqueue
  <2>b. /\ queue' \in Seq(Tasks)
        /\ \A k \in 1..Len(queue') :
             queue'[k] = submitted' \/ (k \in 1..Len(queue) /\ queue'[k] = queue[k])
    <3>1. queue \in Seq(Tasks) /\ (queue' = queue \/ queue' = Append(queue, submitted'))
      BY <1>1 DEF Enqueue
    <3>2. submitted' \in Tasks
      BY <2>a
    <3> HIDE DEF Tasks, IInv
    <3>3. CASE queue' = queue
      BY <3>1, <3>3
    <3>4. CASE queue' = Append(queue, submitted')
      <4>1. PICK e \in Tasks : e = submitted'
        BY <3>2
      <4>2. /\ Append(queue, e) \in Seq(Tasks)
            /\ \A k \in 1..Len(Append(queue, e)) :
                 Append(queue, e)[k] = e \/ (k \in 1..Len(queue) /\ Append(queue, e)[k] = queue[k])
        BY <3>1, AddLast
      <4> QED
        BY <3>4, <4>1, <4>2
    <3> QED
      BY <3>1, <3>3, <3>4
  <2>1. TypeOK'
    <3>1. /\ submitted' \in 0..MaxTasks
          /\ 1..submitted' = (1..submitted) \cup {submitted'}
      BY <2>a
    <3>2. /\ signalling' \subseteq 1..submitted' /\ refused' \subseteq 1..submitted'
          /\ direct' \subseteq 1..submitted'
      <4>1. /\ signalling' \subseteq signalling \cup {submitted'}
            /\ refused' \subseteq refused \cup {submitted'}
            /\ direct' = direct
        BY <1>1 DEF Enqueue
      <4> QED
        BY <3>1, <4>1
    <3> QED
      BY <1>1, <2>b, <3>1, <3>2 DEF Enqueue
  <2>2. LifecycleAgrees'
    BY <1>1 DEF Enqueue, LifecycleAgrees
  <2>3. WakeupOwed'
    BY <1>1 DEF Enqueue, WakeupOwed
  <2>4. DirectIsOlder'
    <3>1. \A t \in direct : t < submitted'
      BY <2>a
    <3> QED
      BY <1>1, <2>b, <3>1 DEF Enqueue, DirectIsOlder
  <2> QED
    BY <2>1, <2>2, <2>3, <2>4
<1>2. CASE \E t \in Tasks : Signal(t)
  <2> PICK t \in Tasks : Signal(t)
    BY <1>2
  <2>1. TypeOK'
    BY DEF Signal
  <2>2. LifecycleAgrees'
    BY DEF Signal, LifecycleAgrees
  <2>3. WakeupOwed'
    BY DEF Signal, WakeupOwed
  <2>4. DirectIsOlder'
    BY DEF Signal, DirectIsOlder
  <2> QED
    BY <2>1, <2>2, <2>3, <2>4
<1>3. CASE \E t \in Tasks : Decide(t)
  <2> PICK t \in Tasks : Decide(t)
    BY <1>3
  <2>1. TypeOK'
    BY DEF Decide
  <2>2. LifecycleAgrees'
    BY DEF Decide, LifecycleAgrees
  <2>3. WakeupOwed'
    BY DEF Decide, WakeupOwed
  <2>4. DirectIsOlder'
    <3>1. CASE lifecycle = "created"
      <4>1. running' = 0 /\ queue' = <<>> /\ batch' = <<>>
        BY <3>1 DEF Decide, LifecycleAgrees
      <4> QED
        BY <4>1 DEF DirectIsOlder
    <3>2. CASE lifecycle # "created"
      BY <3>2 DEF Decide, DirectIsOlder
    <3> QED
      BY <3>1, <3>2
  <2> QED
    BY <2>1, <2>2, <2>3, <2>4
<1>4. CASE \E t \in Tasks : DirectReturns(t)
  <2> PICK t \in Tasks : DirectReturns(t)
    BY <1>4
  <2>1. TypeOK'
    BY DEF DirectReturns
  <2>2. LifecycleAgrees'
    BY DEF DirectReturns, LifecycleAgrees
  <2>3. WakeupOwed'
    BY DEF DirectReturns, WakeupOwed
  <2>4. DirectIsOlder'
    BY DEF DirectReturns, DirectIsOlder
  <2> QED
    BY <2>1, <2>2, <2>3, <2>4
<1>5. CASE \E f \in Fds : AddFd(f)
  <2> PICK f \in Fds : AddFd(f)
    BY <1>5
  <2>1. TypeOK'
    BY DEF AddFd
  <2>2. LifecycleAgrees'
    BY DEF AddFd, LifecycleAgrees
  <2>3. WakeupOwed'
    BY DEF AddFd, WakeupOwed
  <2>4. DirectIsOlder'
    BY DEF AddFd, DirectIsOlder
  <2> QED
    BY <2>1, <2>2, <2>3, <2>4
<1>6. CASE \E f \in Fds : RemoveFd(f)
  <2> PICK f \in Fds : RemoveFd(f)
    BY <1>6
  <2>1. TypeOK'
    BY DEF RemoveFd
  <2>2. LifecycleAgrees'
    BY DEF RemoveFd, LifecycleAgrees
  <2>3. WakeupOwed'
    BY DEF RemoveFd, WakeupOwed
  <2>4. DirectIsOlder'
    BY DEF RemoveFd, DirectIsOlder
  <2> QED
    BY <2>1, <2>2, <2>3, <2>4
<1>7. CASE Start
  <2>1. TypeOK'
    BY <1>7 DEF Start
  <2>2. LifecycleAgrees'
    BY <1>7 DEF Start, LifecycleAgrees
  <2>3. WakeupOwed'
    BY <1>7 DEF Start, WakeupOwed
  <2>4. DirectIsOlder'
    BY <1>7 DEF Start, DirectIsOlder
  <2> QED
    BY <2>1, <2>2, <2>3, <2>4
<1>8. CASE StopBegins
  <2>1. TypeOK'
    BY <1>8 DEF StopBegins
  <2>2. LifecycleAgrees'
    BY <1>8 DEF StopBegins, LifecycleAgrees
  <2>3. WakeupOwed'
    BY <1>8 DEF StopBegins, WakeupOwed
  <2>4. DirectIsOlder'
    BY <1>8 DEF StopBegins, DirectIsOlder
  <2> QED
    BY <2>1, <2>2, <2>3, <2>4
<1>9. CASE StopSignals
  <2>1. TypeOK'
    BY <1>9 DEF StopSignals
  <2>2. LifecycleAgrees'
    BY <1>9 DEF StopSignals, LifecycleAgrees
  <2>3. WakeupOwed'
    BY <1>9 DEF StopSignals, WakeupOwed
  <2>4. DirectIsOlder'
    BY <1>9 DEF StopSignals, DirectIsOlder
  <2> QED
    BY <2>1, <2>2, <2>3, <2>4
<1>10. CASE StopReturns
  <2>1. TypeOK'
    BY <1>10 DEF StopReturns
  <2>2. LifecycleAgrees'
    BY <1>10 DEF StopReturns, LifecycleAgrees
  <2>3. WakeupOwed'
    BY <1>10 DEF StopReturns, WakeupOwed
  <2>4. DirectIsOlder'
    BY <1>10 DEF StopReturns, DirectIsOlder
  <2> QED
    BY <2>1, <2>2, <2>3, <2>4
<1>11. CASE Poll
  <2>1. TypeOK'
    BY <1>11 DEF Poll
  <2>2. LifecycleAgrees'
    BY <1>11 DEF Poll, LifecycleAgrees
  <2>3. WakeupOwed'
    BY <1>11 DEF Poll, WakeupOwed
  <2>4. DirectIsOlder'
    BY <1>11 DEF Poll, DirectIsOlder
  <2> QED
    BY <2>1, <2>2, <2>3, <2>4
<1>12. CASE ReadEventFd
  <2>1. TypeOK'
    BY <1>12 DEF ReadEventFd
  <2>2. LifecycleAgrees'
    BY <1>12 DEF ReadEventFd, LifecycleAgrees
  <2>3. WakeupOwed'
    BY <1>12 DEF ReadEventFd, WakeupOwed
  <2>4. DirectIsOlder'
    BY <1>12 DEF ReadEventFd, DirectIsOlder
  <2> QED
    BY <2>1, <2>2, <2>3, <2>4
<1>13. CASE Swap
  <2>1. TypeOK'
    BY <1>13 DEF Swap
  <2>2. LifecycleAgrees'
    BY <1>13 DEF Swap, LifecycleAgrees
  <2>3. WakeupOwed'
    BY <1>13 DEF Swap, WakeupOwed
  <2>4. DirectIsOlder'
    BY <1>13 DEF Swap, DirectIsOlder
  <2> QED
    BY <2>1, <2>2, <2>3, <2>4
<1>14. CASE Exit
  <2>1. TypeOK'
    BY <1>14 DEF Exit
  <2>2. LifecycleAgrees'
    BY <1>14 DEF Exit, LifecycleAgrees
  <2>3. WakeupOwed'
    BY <1>14 DEF Exit, WakeupOwed
  <2>4. DirectIsOlder'
    BY <1>14 DEF Exit, DirectIsOlder
  <2> QED
    BY <2>1, <2>2, <2>3, <2>4
<1>15. CASE KeepOn
  <2>1. TypeOK'
    BY <1>15 DEF KeepOn
  <2>2. LifecycleAgrees'
    BY <1>15 DEF KeepOn, LifecycleAgrees
  <2>3. WakeupOwed'
    BY <1>15 DEF KeepOn, WakeupOwed
  <2>4. DirectIsOlder'
    BY <1>15 DEF KeepOn, DirectIsOlder
  <2> QED
    BY <2>1, <2>2, <2>3, <2>4
<1>16. CASE RunTask
  <2>1. TypeOK'
    BY <1>16 DEF RunTask
  <2>2. LifecycleAgrees'
    BY <1>16 DEF RunTask, LifecycleAgrees
  <2>3. WakeupOwed'
    BY <1>16 DEF RunTask, WakeupOwed
  <2>4. DirectIsOlder'
    BY <1>16 DEF RunTask, DirectIsOlder
  <2> QED
    BY <2>1, <2>2, <2>3, <2>4
<1>17. CASE TaskReturns
  <2>1. TypeOK'
    BY <1>17 DEF TaskReturns
  <2>2. LifecycleAgrees'
    BY <1>17 DEF TaskReturns, LifecycleAgrees
  <2>3. WakeupOwed'
    BY <1>17 DEF TaskReturns, WakeupOwed
  <2>4. DirectIsOlder'
    BY <1>17 DEF TaskReturns, DirectIsOlder
  <2> QED
    BY <2>1, <2>2, <2>3, <2>4
<1>18. CASE BatchDone
  <2>1. TypeOK'
    BY <1>18 DEF BatchDone
  <2>2. LifecycleAgrees'
    BY <1>18 DEF BatchDone, LifecycleAgrees
  <2>3. WakeupOwed'
    BY <1>18 DEF BatchDone, WakeupOwed
  <2>4. DirectIsOlder'
    BY <1>18 DEF BatchDone, DirectIsOlder
  <2> QED
    BY <2>1, <2>2, <2>3, <2>4
<1>19. CASE \E f \in Fds : HandleFd(f)
  <2> PICK f \in Fds : HandleFd(f)
    BY <1>19
  <2>1. TypeOK'
    BY DEF HandleFd
  <2>2. LifecycleAgrees'
    BY DEF HandleFd, LifecycleAgrees
  <2>3. WakeupOwed'
    BY DEF HandleFd, WakeupOwed
  <2>4. DirectIsOlder'
    BY DEF HandleFd, DirectIsOlder
  <2> QED
    BY <2>1, <2>2, <2>3, <2>4
<1>20. CASE CallbackReturns
  <2>1. TypeOK'
    BY <1>20 DEF CallbackReturns
  <2>2. LifecycleAgrees'
    BY <1>20 DEF CallbackReturns, LifecycleAgrees
  <2>3. WakeupOwed'
    BY <1>20 DEF CallbackReturns, WakeupOwed
  <2>4. DirectIsOlder'
    BY <1>20 DEF CallbackReturns, DirectIsOlder
  <2> QED
    BY <2>1, <2>2, <2>3, <2>4
<1>21. CASE UNCHANGED vars
  <2>1. TypeOK'
    BY <1>21 DEF vars
  <2>2. LifecycleAgrees'
    BY <1>21 DEF vars, LifecycleAgrees
  <2>3. WakeupOwed'
    BY <1>21 DEF vars, WakeupOwed
  <2>4. DirectIsOlder'
    BY <1>21 DEF vars, DirectIsOlder
  <2> QED
    BY <2>1, <2>2, <2>3, <2>4
<1> QED
  BY <1>1, <1>2, <1>3, <1>4, <1>5, <1>6, <1>7, <1>8, <1>9, <1>10, <1>11, <1>12, <1>13, <1>14, <1>15, <1>16, <1>17, <1>18, <1>19, <1>20, <1>21
     DEF Next, Stop, Worker

(* The inductive invariant holds in every state, whatever the clients and  *)
(* however start, stop and the worker of nem_queued_layer.rs interleave.   *)
THEOREM Invariance == Spec => []IInv
<1> QED
  BY InitIInv, NextIInv, PTL DEF Spec

(* The type invariant, and with it that the worker holds a batch and       *)
(* executes calls only inside its loop.                                    *)
THEOREM Typed == Spec => []TypeOK
<1>1. IInv => TypeOK
  BY DEF IInv
<1> QED
  BY <1>1, Invariance, PTL

(* A layer that is stopped has no worker, executes nothing and leaves no   *)
(* cancellation to the next start (stop of nem_queued_layer.rs).           *)
THEOREM StoppedLayerIsQuiet == Spec => []StoppedIsQuiet
<1>1. IInv => StoppedIsQuiet
  BY DEF IInv, TypeOK, LifecycleAgrees, StoppedIsQuiet
<1> QED
  BY <1>1, Invariance, PTL

(* The worker never blocks in epoll_wait over a call or a stop that nobody *)
(* is going to signal.                                                     *)
THEOREM NoLostWakeup == Spec => []WakeupComing
<1>1. IInv => WakeupComing
  BY DEF IInv, TypeOK, WakeupOwed, WakeupComing
<1> QED
  BY <1>1, Invariance, PTL

(* A call made directly by Invocation::process was submitted before every  *)
(* call that is queued, in the batch or executing.                         *)
THEOREM DirectFirst == Spec => []DirectNeverOvertakes
<1>1. ASSUME IInv PROVE DirectNeverOvertakes
  <2>1. /\ DOMAIN Pending = 1..(Len(batch) + Len(queue))
        /\ \A k \in DOMAIN Pending :
             \/ k \in 1..Len(batch) /\ Pending[k] = batch[k]
             \/ k - Len(batch) \in 1..Len(queue) /\ Pending[k] = queue[k - Len(batch)]
    <3>1. batch \in Seq(Tasks) /\ queue \in Seq(Tasks)
      BY <1>1 DEF IInv, TypeOK
    <3> QED
      BY <3>1, ConcatProperties, LenProperties DEF Pending
  <2> QED
    BY <1>1, <2>1 DEF IInv, DirectIsOlder, DirectNeverOvertakes
<1> QED
  BY <1>1, Invariance, PTL

(***************************************************************************)
(* The refinement.                                                         *)
(***************************************************************************)
(* Appending to the second of two sequences, and taking from the first.    *)
LEMMA ConcatAppend ==
  ASSUME NEW S, NEW s \in Seq(S), NEW t \in Seq(S), NEW e \in S
  PROVE  s \o Append(t, e) = Append(s \o t, e)
<1>1. <<e>> \in Seq(S)
  OBVIOUS
<1>2. s \o t \in Seq(S)
  BY ConcatProperties
<1>3. Append(t, e) = t \o <<e>> /\ Append(s \o t, e) = (s \o t) \o <<e>>
  BY <1>2, AppendIsConcat
<1> QED
  BY <1>1, <1>3, ConcatAssociative

(* Taking the first call of two sequences that follow each other.          *)
LEMMA ConcatTake ==
  ASSUME NEW S, NEW s \in Seq(S), NEW t \in Seq(S), s # <<>>
  PROVE  s \o t # <<>> /\ Head(s \o t) = Head(s) /\ Tail(s \o t) = Tail(s) \o t
<1>1. s \o t \in Seq(S) /\ s \o t # <<>>
  BY ConcatProperties, ConcatEqualIffEmpty
<1>2. Tail(s) \in Seq(S) /\ Tail(s) \o t \in Seq(S) /\ Tail(s \o t) \in Seq(S)
  BY <1>1, TakeFirst, ConcatProperties
<1>3. /\ Len(s) \in Nat \ {0} /\ Len(t) \in Nat /\ Len(Tail(s)) = Len(s) - 1
      /\ Len(s \o t) = Len(s) + Len(t)
      /\ Len(Tail(s \o t)) = Len(s) + Len(t) - 1
      /\ Len(Tail(s) \o t) = Len(s) - 1 + Len(t)
  BY <1>1, <1>2, TakeFirst, ConcatProperties, LenProperties
<1>4. ASSUME NEW k \in 1..Len(Tail(s \o t))
      PROVE  Tail(s \o t)[k] = (Tail(s) \o t)[k]
  <2>1. Tail(s \o t)[k] = (s \o t)[k + 1]
    BY <1>1, TakeFirst
  <2>2. (s \o t)[k + 1] = IF k + 1 <= Len(s) THEN s[k + 1] ELSE t[k + 1 - Len(s)]
    BY <1>3, ConcatProperties
  <2>3. (Tail(s) \o t)[k] = IF k <= Len(s) - 1 THEN Tail(s)[k] ELSE t[k - (Len(s) - 1)]
    BY <1>2, <1>3, ConcatProperties
  <2>4. k <= Len(s) - 1 => Tail(s)[k] = s[k + 1]
    BY <1>3, TakeFirst
  <2> QED
    BY <1>3, <2>1, <2>2, <2>3, <2>4
<1>5. Tail(s \o t) = Tail(s) \o t
  BY <1>2, <1>3, <1>4, SeqEqual
<1>6. Head(s \o t) = Head(s)
  BY <1>1, <1>3, TakeFirst, ConcatProperties
<1> QED
  BY <1>1, <1>5, <1>6

(* Dropping the first of two sequences leaves the second: the batch goes,  *)
(* the queue stays.                                                        *)
LEMMA DropFirst ==
  ASSUME NEW S, NEW s \in Seq(S), NEW t \in Seq(S)
  PROVE  SubSeq(s \o t, Len(s) + 1, Len(s \o t)) = t
<1>1. /\ s \o t \in Seq(S) /\ Len(s) \in Nat /\ Len(t) \in Nat
      /\ Len(s \o t) = Len(s) + Len(t)
  BY ConcatProperties, LenProperties
<1>2. \A i \in (Len(s) + 1)..Len(s \o t) : (s \o t)[i] \in S
  BY <1>1, ElementOfSeq
<1> DEFINE r == SubSeq(s \o t, Len(s) + 1, Len(s \o t))
<1>3. /\ r \in Seq(S)
      /\ Len(r) = IF Len(s) + 1 <= Len(s \o t) THEN Len(s \o t) - (Len(s) + 1) + 1 ELSE 0
      /\ \A i \in 1..(Len(s \o t) - (Len(s) + 1) + 1) : r[i] = (s \o t)[Len(s) + 1 + i - 1]
  BY <1>1, <1>2, SubSeqProperties
<1> HIDE DEF r
<1>4. Len(r) = Len(t)
  BY <1>1, <1>3
<1>5. ASSUME NEW i \in 1..Len(t) PROVE r[i] = t[i]
  <2>1. r[i] = (s \o t)[Len(s) + i]
    <3>1. \A a, b, j \in Int : j \in 1..b =>
            j \in 1..((a + b) - (a + 1) + 1) /\ a + 1 + j - 1 = a + j
      OBVIOUS
    <3>2. i \in 1..(Len(s \o t) - (Len(s) + 1) + 1) /\ Len(s) + 1 + i - 1 = Len(s) + i
      BY <1>1, <3>1
    <3> QED
      BY <1>3, <3>2
  <2>2. (s \o t)[Len(s) + i] = t[Len(s) + i - Len(s)]
    BY <1>1, ConcatProperties
  <2> QED
    BY <1>1, <2>1, <2>2
<1>6. r = t
  BY <1>3, <1>4, <1>5, SeqEqual
<1> QED
  BY <1>6 DEF r

(* Steps that touch neither calls nor phase stutter; the others are the    *)
(* executor's.                                                             *)
LEMMA StepKeepsContract ==
  ASSUME IInv, [Next]_vars
  PROVE  [Contract!Next]_(Contract!vars)
<1> USE DEF Contract!vars
<1>t. /\ queue \in Seq(Tasks) /\ batch \in Seq(Tasks)
      /\ running # 0 => worker = "run"
      /\ batch # <<>> => worker \in {"check", "run"}
      /\ submitted < MaxTasks => submitted + 1 \in Tasks
  BY LayerAssumption DEF IInv, TypeOK, Tasks
<1>l. LifecycleAgrees
  BY DEF IInv
<1>n. ASSUME UNCHANGED <<queue, batch, running, control, lifecycle>>
      PROVE  UNCHANGED Contract!vars
  BY <1>n DEF Pending, Phase
<1>1. CASE Enqueue /\ lifecycle = "running"
  <2>1. Phase = "open" /\ Phase' = "open" /\ running' = running
    BY <1>1, <1>l DEF Enqueue, Phase, LifecycleAgrees, loop
  <2>2. submitted + 1 \in Tasks
    BY <1>1, <1>t DEF Enqueue
  <2>3. Pending' = Append(Pending, submitted + 1)
    <3>1. queue' = Append(queue, submitted + 1) /\ batch' = batch
      BY <1>1 DEF Enqueue, loop
    <3>2. batch \o Append(queue, submitted + 1) = Append(batch \o queue, submitted + 1)
      BY <1>t, <2>2, ConcatAppend
    <3> QED
      BY <3>1, <3>2 DEF Pending
  <2> QED
    BY <2>1, <2>2, <2>3 DEF Contract!Next, Contract!Accept
<1>2. CASE Enqueue /\ lifecycle # "running"
  BY <1>2, <1>n DEF Enqueue, loop
<1>3. CASE \E t \in Tasks : Signal(t) \/ Decide(t) \/ DirectReturns(t)
  BY <1>3, <1>n DEF Signal, Decide, DirectReturns, loop
<1>4. CASE \E f \in Fds : AddFd(f) \/ RemoveFd(f)
  BY <1>4, <1>n DEF AddFd, RemoveFd, loop
<1>5. CASE Start
  <2>1. Phase = "closed" /\ Phase' = "open"
    BY <1>5, <1>l DEF Start, Phase, LifecycleAgrees
  <2>2. UNCHANGED <<Pending, running>>
    BY <1>5 DEF Start, Pending
  <2> QED
    BY <2>1, <2>2 DEF Contract!Next, Contract!Open
<1>6. CASE StopBegins
  <2>1. Phase' = "closing"
    BY <1>6 DEF StopBegins, Phase
  <2>2. UNCHANGED <<Pending, running>>
    BY <1>6 DEF StopBegins, Pending, loop
  <2> QED
    BY <2>1, <2>2 DEF Contract!Next, Contract!Closing
<1>7. CASE StopSignals
  <2>1. UNCHANGED <<Pending, running, Phase>>
    BY <1>7 DEF StopSignals, Pending, Phase, loop
  <2> QED
    BY <2>1
<1>8. CASE StopReturns
  <2>1. Phase = "closing" /\ Phase' = "closed"
    BY <1>8, <1>l DEF StopReturns, Phase, LifecycleAgrees
  <2>2. UNCHANGED <<Pending, running>> /\ running = 0
    BY <1>8, <1>t DEF StopReturns, Pending
  <2> QED
    BY <2>1, <2>2 DEF Contract!Next, Contract!Close
<1>9. CASE Poll \/ ReadEventFd \/ KeepOn \/ BatchDone \/ CallbackReturns
  BY <1>9, <1>n DEF Poll, ReadEventFd, KeepOn, BatchDone, CallbackReturns
<1>10. CASE \E f \in Fds : HandleFd(f)
  BY <1>10, <1>n DEF HandleFd
<1>11. CASE Swap
  <2>1. batch = <<>>
    BY <1>11, <1>t DEF Swap
  <2>2. Pending' = Pending
    BY <1>11, <1>t, <2>1, ConcatEmptySeq DEF Swap, Pending
  <2>3. UNCHANGED <<running, Phase>>
    BY <1>11 DEF Swap, Phase
  <2> QED
    BY <2>2, <2>3
<1>12. CASE Exit
  <2>1. Phase = "closing" /\ Phase' = "closing" /\ running = 0 /\ running' = 0
    BY <1>12, <1>t, <1>l DEF Exit, Phase, LifecycleAgrees
  <2>2. Pending' = queue
    BY <1>12, <1>t, ConcatEmptySeq DEF Exit, Pending
  <2>3. Pending' = SubSeq(Pending, Len(batch) + 1, Len(Pending))
    BY <1>t, <2>2, DropFirst DEF Pending
  <2>4. Len(batch) \in 0..Len(Pending)
    BY <1>t, ConcatProperties, LenProperties DEF Pending
  <2> QED
    BY <2>1, <2>3, <2>4 DEF Contract!Next, Contract!Discard
<1>13. CASE RunTask
  <2>1. Phase # "closed" /\ Phase' = Phase
    BY <1>13, <1>l DEF RunTask, Phase, LifecycleAgrees
  <2>2. /\ Pending # <<>> /\ Pending' = Tail(Pending)
        /\ running = 0 /\ running' = Head(Pending) /\ Head(Pending) \in Tasks
    <3>1. /\ batch # <<>> /\ batch \in Seq(Tasks) /\ queue \in Seq(Tasks)
          /\ batch' = Tail(batch) /\ queue' = queue
          /\ running = 0 /\ running' = Head(batch)
      BY <1>13, <1>t DEF RunTask
    <3>2. /\ batch \o queue # <<>> /\ Head(batch \o queue) = Head(batch)
          /\ Tail(batch \o queue) = Tail(batch) \o queue
      BY <3>1, ConcatTake
    <3>3. Head(batch) \in Tasks
      BY <3>1, TakeFirst
    <3> QED
      BY <3>1, <3>2, <3>3 DEF Pending
  <2>3. {running} \ {0} = {} /\ {running'} \ {0} = {Head(Pending)}
    BY <2>2 DEF Tasks
  <2> QED
    BY <2>1, <2>2, <2>3 DEF Contract!Next, Contract!Begin
<1>14. CASE TaskReturns
  <2>1. Phase # "closed" /\ Phase' = Phase
    BY <1>14, <1>t, <1>l DEF TaskReturns, Phase, LifecycleAgrees
  <2>2. {running} \ {0} # {} /\ {running'} \ {0} = {} /\ Pending' = Pending
    BY <1>14 DEF TaskReturns, Pending
  <2> QED
    BY <2>1, <2>2 DEF Contract!Next, Contract!End
<1>15. CASE UNCHANGED vars
  BY <1>15, <1>n DEF vars
<1> QED
  BY <1>1, <1>2, <1>3, <1>4, <1>5, <1>6, <1>7, <1>8, <1>9, <1>10, <1>11, <1>12,
     <1>13, <1>14, <1>15 DEF Next, Stop, Worker

(* The deque, the event descriptor, the worker and the stop protocol       *)
(* implement a serial executor: calls run one at a time, in the order they *)
(* were accepted, and what stop discards is the oldest part of them.       *)
THEOREM ImplementsSerialExecutor == Spec => SerialExecution
<1>1. Init => Contract!Init
  <2> SUFFICES ASSUME Init PROVE Contract!Init
    OBVIOUS
  <2>1. Pending = <<>>
    BY EmptySeq, ConcatEmptySeq DEF Init, Pending
  <2>2. Phase = "closed" /\ running = 0
    BY DEF Init, Phase
  <2> QED
    BY <2>1, <2>2 DEF Contract!Init
<1>2. IInv /\ [Next]_vars => [Contract!Next]_(Contract!vars)
  BY StepKeepsContract
<1> QED
  BY <1>1, <1>2, Invariance, PTL DEF Spec, SerialExecution, Contract!Spec
=============================================================================
