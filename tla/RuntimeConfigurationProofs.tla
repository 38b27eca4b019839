--------------------- MODULE RuntimeConfigurationProofs ---------------------
(***************************************************************************)
(* Proofs about configuration updates, for any sessions, parameters,       *)
(* values and component, and any number of updates.                        *)
(***************************************************************************)
EXTENDS RuntimeConfiguration, SequenceTheorems, TLAPS

Labels == {"idle", "lock", "validate", "handler", "enqueue", "direct?", "direct",
           "receive", "failed", "succeeded"}

QueuedCalls == [session : Sessions, number : Nat, items : Updates]

ConfigurationsOK == values \in [Params -> Values] /\ component \in [Params -> Values]

SessionsOK ==
    /\ update_lock \in Sessions \cup {None}
    /\ pc \in [Sessions -> Labels]
    /\ stage \in [Sessions -> {"update", "rollback"}]
    /\ request \in [Sessions -> Updates] /\ rollback \in [Sessions -> Updates]
    /\ calls \in [Sessions -> Nat]
    /\ reply \in [Sessions -> {"none", "configured", "rejected"}]

LayerOK ==
    /\ lifecycle \in {"created", "running", "stopped"}
    /\ phase \in {"open", "closing", "closed"}
    /\ pending \in Seq(QueuedCalls) /\ current \subseteq QueuedCalls
    /\ disturbed \in BOOLEAN

(* The lock is held by the session between taking it and returning. *)
LockHeld == \A s \in Sessions : update_lock = s <=> pc[s] \notin {"idle", "lock"}

Active(s) == pc[s] \notin {"idle", "lock", "validate"}

(* What the registry holds can always be restored, and is what the session *)
(* at work has put aside.                                                  *)
CanRestore ==
    /\ \A p \in Params : <<p, values[p]>> \in Acceptable
    /\ \A s \in Sessions : Active(s) =>
         /\ DOMAIN rollback[s] = DOMAIN request[s]
         /\ \A p \in DOMAIN request[s] : rollback[s][p] = values[p]

NothingQueued == pending = <<>> /\ current = {}

(* The queue takes calls only while the layer runs; as long as it is not   *)
(* started or stopped under an update it runs while it holds one.          *)
LayerAgrees ==
    /\ lifecycle = "running" <=> phase = "open"
    /\ lifecycle = "created" => phase = "closed" /\ NothingQueued
    /\ phase = "closed" => current = {}
    /\ \A c, d \in current : c = d
    /\ ~disturbed =>
         /\ NothingQueued \/ lifecycle = "running"
         /\ \A s \in Sessions :
              /\ pc[s] \in {"enqueue", "receive"} => lifecycle = "running"
              /\ pc[s] = "direct?" => lifecycle # "running"
              /\ pc[s] = "direct" => lifecycle = "created"

Applied(s) ==
    /\ Answer(Items(s)) = "configured"
    /\ \A p \in DOMAIN Items(s) : component[p] = Items(s)[p]

CallNumbers ==
    /\ \A k \in 1..Len(pending) : pending[k].number <= calls[pending[k].session]
    /\ \A c \in current : c.number <= calls[c.session]

NoneWaiting(s) ==
    /\ \A k \in 1..Len(pending) : ~IsWaiting(s, pending[k])
    /\ \A c \in current : ~IsWaiting(s, c)

(* The call a session waits for is the last in the queue, and once it is   *)
(* answered the queue is empty.                                            *)
SessionAgrees(s) ==
    /\ pc[s] \in {"enqueue", "direct?", "direct"} => NoneWaiting(s)
    /\ pc[s] = "enqueue" => reply[s] = "none"
    /\ pc[s] = "direct" => NothingQueued
    /\ pc[s] = "receive" =>
         /\ \A k \in 1..Len(pending) : IsWaiting(s, pending[k]) =>
              k = Len(pending) /\ pending[k].items = Items(s)
         /\ \A c \in current : IsWaiting(s, c) => pending = <<>> /\ c.items = Items(s)
         /\ reply[s] # "none" => NothingQueued
         /\ reply[s] = "configured" => Applied(s)
         /\ reply[s] = "rejected" => Answer(Items(s)) = "rejected"
         /\ ~disturbed /\ reply[s] = "none" => ~NoneWaiting(s)
    /\ pc[s] = "succeeded" => NothingQueued /\ Applied(s)

CallIsLast == CallNumbers /\ \A s \in Sessions : SessionAgrees(s)

Concerns(c, p) == p \in DOMAIN c.items

Untouched(p) ==
    /\ \A k \in 1..Len(pending) : ~Concerns(pending[k], p)
    /\ \A c \in current : ~Concerns(c, p)

(* Registry and component differ, or may come to differ, only where a      *)
(* client was told or a session is at work.                                *)
ClientsTold ==
    \A p \in Params :
      \/ p \in suspect
      \/ \E s \in Sessions : Active(s) /\ p \in DOMAIN request[s]
      \/ Untouched(p) /\ component[p] = values[p]

Restores(c, p) ==
    Answer(c.items) = "configured" /\ Concerns(c, p) /\ c.items[p] = values[p]

(* The last call in the queue that concerns p restores it. *)
WillBeRestored(p) ==
    \/ \E k \in 1..Len(pending) :
         /\ Restores(pending[k], p)
         /\ \A j \in 1..Len(pending) : k < j => ~Concerns(pending[j], p)
    \/ /\ \A k \in 1..Len(pending) : ~Concerns(pending[k], p)
       /\ \E c \in current : Restores(c, p)
    \/ Untouched(p) /\ component[p] = values[p]

(* A session has called for an update and not yet for its undoing. *)
UnderWay(p) ==
    /\ lifecycle # "stopped"
    /\ \E s \in Sessions :
         /\ p \in DOMAIN request[s]
         /\ \/ stage[s] = "update" /\ pc[s] \in {"receive", "failed", "succeeded"}
            \/ stage[s] = "rollback" /\ pc[s] \in {"handler", "enqueue", "direct?", "direct"}

Undone == ~disturbed => \A p \in Params : WillBeRestored(p) \/ UnderWay(p)

(* The inductive invariant. *)
IInv ==
    /\ ConfigurationsOK
    /\ SessionsOK
    /\ LayerOK
    /\ LockHeld
    /\ CanRestore
    /\ LayerAgrees
    /\ CallIsLast
    /\ ClientsTold
    /\ Undone

-----------------------------------------------------------------------------
(***************************************************************************)
(* Facts about updates, the component and the sessions.                    *)
(***************************************************************************)
(* What an update names and gives.                                         *)
LEMMA UpdateFacts ==
  ASSUME NEW u \in Updates
  PROVE  DOMAIN u \subseteq Params /\ \A p \in DOMAIN u : u[p] \in Values
  BY DEF Updates

(* The empty update is one.                                                *)
LEMMA NoUpdate == <<>> \in Updates
<1>1. <<>> = [p \in {} |-> p]
  OBVIOUS
<1>2. <<>> \in [{} -> Values]
  BY <1>1
<1> QED
  BY <1>2 DEF Updates

(* What a session asks the component to apply is an update.                *)
LEMMA ItemsFacts ==
  ASSUME SessionsOK, NEW s \in Sessions
  PROVE  Items(s) \in Updates
  BY DEF SessionsOK, Items

(* What a call of the component's configure does. *)
LEMMA Configured ==
  ASSUME ConfigurationsOK, NEW items \in Updates, Configure(items)
  PROVE  /\ component' \in [Params -> Values]
         /\ \A p \in Params \ DOMAIN items : component'[p] = component[p]
         /\ Answer(items) = "configured" => \A p \in DOMAIN items : component'[p] = items[p]
<1>1. DOMAIN items \subseteq Params /\ \A p \in DOMAIN items : items[p] \in Values
  BY UpdateFacts
<1>2. PICK applied \in SUBSET Accepted(items) :
        /\ Accepted(items) = DOMAIN items => applied = DOMAIN items
        /\ component' = Overlaid([p \in applied |-> items[p]], component)
  BY DEF Configure
<1>3. applied \subseteq DOMAIN items
  BY <1>2 DEF Accepted
<1>4. component' = [p \in Params |-> IF p \in applied THEN items[p] ELSE component[p]]
  BY <1>2 DEF Overlaid, ConfigurationsOK
<1>5. component' \in [Params -> Values]
  BY <1>1, <1>3, <1>4 DEF ConfigurationsOK
<1>6. \A p \in Params \ DOMAIN items : component'[p] = component[p]
  BY <1>3, <1>4
<1>7. Answer(items) = "configured" => \A p \in DOMAIN items : component'[p] = items[p]
  BY <1>1, <1>2, <1>4 DEF Answer
<1> QED
  BY <1>5, <1>6, <1>7

(* Only one session is at work. *)
LEMMA OneSession ==
  ASSUME SessionsOK, LockHeld, NEW s \in Sessions, NEW t \in Sessions,
         pc[s] \notin {"idle", "lock"}, pc[t] \notin {"idle", "lock"}
  PROVE  s = t
  BY DEF LockHeld

(* The component accepts all of a rollback: the values it restores are     *)
(* values it has accepted before.                                          *)
LEMMA RollbackAccepted ==
  ASSUME IInv, NEW s \in Sessions, Active(s), stage[s] = "rollback"
  PROVE  /\ Answer(Items(s)) = "configured"
         /\ DOMAIN Items(s) = DOMAIN request[s]
         /\ \A p \in DOMAIN request[s] : Items(s)[p] = values[p]
<1>1. Items(s) = rollback[s]
  BY DEF Items
<1>2. /\ DOMAIN rollback[s] = DOMAIN request[s]
      /\ \A p \in DOMAIN request[s] : rollback[s][p] = values[p]
  BY DEF IInv, CanRestore
<1>3. DOMAIN request[s] \subseteq Params
  BY UpdateFacts DEF IInv, SessionsOK
<1>4. Accepted(rollback[s]) = DOMAIN rollback[s]
  BY <1>2, <1>3 DEF Accepted, IInv, CanRestore
<1> QED
  BY <1>1, <1>2, <1>4 DEF Answer

-----------------------------------------------------------------------------
(***************************************************************************)
(* Every step keeps the types, the lock, the rollback and the phases.      *)
(***************************************************************************)
(* The call the queue has executed. *)
Executing(c) ==
    /\ current = {c} /\ current' = {} /\ c.items \in Updates /\ c.session \in Sessions
    /\ Configure(c.items)
    /\ reply' = [reply EXCEPT ![c.session] =
                   IF IsWaiting(c.session, c) THEN Answer(c.items) ELSE reply[c.session]]

(* A call that ends has been applied, and answered if its session waits.   *)
LEMMA Executed ==
  ASSUME IInv, TaskEnds
  PROVE  \E c \in QueuedCalls : Executing(c)
<1>1. PICK c \in current :
        /\ Configure(c.items)
        /\ reply' = [reply EXCEPT ![c.session] =
                       IF IsWaiting(c.session, c) THEN Answer(c.items) ELSE @]
  BY DEF TaskEnds
<1>2. c \in QueuedCalls /\ current = {c}
  BY DEF IInv, LayerOK, LayerAgrees
<1>3. c.items \in Updates /\ c.session \in Sessions
  BY <1>2 DEF QueuedCalls
<1>4. current' = {}
  BY DEF TaskEnds, Queue!End
<1> QED
  BY <1>1, <1>2, <1>3, <1>4 DEF Executing

(* The configurations stay configurations. *)
LEMMA ConfigurationsKept ==
  ASSUME IInv, [Next]_vars
  PROVE  ConfigurationsOK'
<1> USE DEF IInv, Goto, session, layer
<1>1. CASE \E s \in Sessions : DirectCall(s)
  <2> PICK s \in Sessions : DirectCall(s)
    BY <1>1
  <2>1. component' \in [Params -> Values] /\ values' = values
    BY ItemsFacts, Configured DEF DirectCall
  <2> QED
    BY <2>1 DEF ConfigurationsOK
<1>2. CASE \E s \in Sessions : Succeeded(s)
  <2> PICK s \in Sessions : Succeeded(s)
    BY <1>2
  <2>1. request[s] \in Updates /\ component' = component
    BY DEF Succeeded, SessionsOK
  <2>2. \A p \in DOMAIN request[s] : request[s][p] \in Values
    BY <2>1, UpdateFacts
  <2>3. values' = values \/ values' = Overlaid(request[s], values)
    BY DEF Succeeded
  <2> QED
    BY <2>1, <2>2, <2>3 DEF Overlaid, ConfigurationsOK
<1>3. CASE TaskEnds
  <2>1. component' \in [Params -> Values] /\ values' = values
    BY <1>3, Executed, Configured DEF TaskEnds, Executing
  <2> QED
    BY <2>1 DEF ConfigurationsOK
<1>4. CASE TaskBegins
  BY <1>4
     DEF TaskBegins, Queue!Begin, ConfigurationsOK
<1>5. CASE StartLayer
  BY <1>5
     DEF StartLayer, Queue!Open, ConfigurationsOK
<1>6. CASE StopLayer
  BY <1>6
     DEF StopLayer, Queue!Closing, ConfigurationsOK
<1>7. CASE LayerStopped
  BY <1>7
     DEF LayerStopped, Queue!Close, ConfigurationsOK
<1>8. CASE \E s \in Sessions : \E u \in Updates : Request(s, u)
  <2> PICK s \in Sessions, u \in Updates : Request(s, u)
    BY <1>8
  <2> QED
    BY  DEF Request, ConfigurationsOK
<1>9. CASE \E s \in Sessions : Lock(s)
  <2> PICK s \in Sessions : Lock(s)
    BY <1>9
  <2> QED
    BY  DEF Lock, ConfigurationsOK
<1>10. CASE \E s \in Sessions : Validate(s)
  <2> PICK s \in Sessions : Validate(s)
    BY <1>10
  <2> QED
    BY  DEF Validate, ConfigurationsOK
<1>11. CASE \E s \in Sessions : HandlerCalled(s)
  <2> PICK s \in Sessions : HandlerCalled(s)
    BY <1>11
  <2> QED
    BY  DEF HandlerCalled, ConfigurationsOK
<1>12. CASE \E s \in Sessions : Enqueue(s)
  <2> PICK s \in Sessions : Enqueue(s)
    BY <1>12
  <2> QED
    BY  DEF Enqueue, Queue!Accept, ConfigurationsOK
<1>13. CASE \E s \in Sessions : DecideDirect(s)
  <2> PICK s \in Sessions : DecideDirect(s)
    BY <1>13
  <2> QED
    BY  DEF DecideDirect, ConfigurationsOK
<1>14. CASE \E s \in Sessions : Receive(s)
  <2> PICK s \in Sessions : Receive(s)
    BY <1>14
  <2> QED
    BY  DEF Receive, ConfigurationsOK
<1>15. CASE \E s \in Sessions : Disconnected(s)
  <2> PICK s \in Sessions : Disconnected(s)
    BY <1>15
  <2> QED
    BY  DEF Disconnected, ConfigurationsOK
<1>16. CASE \E s \in Sessions : TimesOut(s)
  <2> PICK s \in Sessions : TimesOut(s)
    BY <1>16
  <2> QED
    BY  DEF TimesOut, ConfigurationsOK
<1>17. CASE \E s \in Sessions : Failed(s)
  <2> PICK s \in Sessions : Failed(s)
    BY <1>17
  <2> QED
    BY  DEF Failed, ConfigurationsOK
<1>18. CASE \E n \in 0..Len(pending) : DiscardTasks(n)
  <2> PICK n \in 0..Len(pending) : DiscardTasks(n)
    BY <1>18
  <2> QED
    BY  DEF DiscardTasks, Queue!Discard, ConfigurationsOK
<1>19. CASE UNCHANGED vars
  BY <1>19 DEF vars, ConfigurationsOK
<1> QED
  BY <1>1, <1>2, <1>3, <1>4, <1>5, <1>6, <1>7, <1>8, <1>9, <1>10, <1>11, <1>12, <1>13,
     <1>14, <1>15, <1>16, <1>17, <1>18, <1>19
     DEF Next, Session

(* The sessions. *)
LEMMA SessionsKept ==
  ASSUME IInv, [Next]_vars
  PROVE  SessionsOK'
<1> USE DEF IInv, Goto, session, layer
<1>1. CASE \E s \in Sessions : Validate(s)
  <2> PICK s \in Sessions : Validate(s)
    BY <1>1
  <2>1. CASE DOMAIN request[s] \subseteq Modifiable
    <3> DEFINE kept == [p \in DOMAIN request[s] |-> values[p]]
    <3>1. DOMAIN request[s] \subseteq Params
      BY UpdateFacts DEF SessionsOK
    <3>2. kept \in [DOMAIN request[s] -> Values]
      BY <3>1 DEF ConfigurationsOK
    <3>3. kept \in Updates
      BY <3>1, <3>2 DEF Updates
    <3>4. rollback' = [rollback EXCEPT ![s] = kept]
      BY <2>1 DEF Validate
    <3> HIDE DEF kept
    <3>5. rollback' \in [Sessions -> Updates]
      BY <3>3, <3>4 DEF SessionsOK
    <3> QED
      BY <2>1, <3>5 DEF Validate, SessionsOK, Labels
  <2>2. CASE ~(DOMAIN request[s] \subseteq Modifiable)
    BY <2>2 DEF Validate, SessionsOK, Labels
  <2> QED
    BY <2>1, <2>2
<1>2. CASE TaskEnds
  <2>1. reply' \in [Sessions -> {"none", "configured", "rejected"}]
    BY <1>2, Executed DEF SessionsOK, Answer, Executing
  <2> QED
    BY <1>2, <2>1 DEF TaskEnds, SessionsOK
<1>3. CASE TaskBegins
  BY <1>3
     DEF TaskBegins, Queue!Begin, SessionsOK, Labels
<1>4. CASE StartLayer
  BY <1>4
     DEF StartLayer, Queue!Open, SessionsOK, Labels
<1>5. CASE StopLayer
  BY <1>5
     DEF StopLayer, Queue!Closing, SessionsOK, Labels
<1>6. CASE LayerStopped
  BY <1>6
     DEF LayerStopped, Queue!Close, SessionsOK, Labels
<1>7. CASE \E s \in Sessions : \E u \in Updates : Request(s, u)
  <2> PICK s \in Sessions, u \in Updates : Request(s, u)
    BY <1>7
  <2> QED
    BY  DEF Request, SessionsOK, Labels
<1>8. CASE \E s \in Sessions : Lock(s)
  <2> PICK s \in Sessions : Lock(s)
    BY <1>8
  <2> QED
    BY  DEF Lock, SessionsOK, Labels
<1>9. CASE \E s \in Sessions : HandlerCalled(s)
  <2> PICK s \in Sessions : HandlerCalled(s)
    BY <1>9
  <2> QED
    BY  DEF HandlerCalled, SessionsOK, Labels
<1>10. CASE \E s \in Sessions : Enqueue(s)
  <2> PICK s \in Sessions : Enqueue(s)
    BY <1>10
  <2> QED
    BY  DEF Enqueue, Queue!Accept, SessionsOK, Labels
<1>11. CASE \E s \in Sessions : DecideDirect(s)
  <2> PICK s \in Sessions : DecideDirect(s)
    BY <1>11
  <2> QED
    BY  DEF DecideDirect, SessionsOK, Labels
<1>12. CASE \E s \in Sessions : DirectCall(s)
  <2> PICK s \in Sessions : DirectCall(s)
    BY <1>12
  <2> QED
    BY  DEF DirectCall, SessionsOK, Labels
<1>13. CASE \E s \in Sessions : Receive(s)
  <2> PICK s \in Sessions : Receive(s)
    BY <1>13
  <2> QED
    BY  DEF Receive, SessionsOK, Labels
<1>14. CASE \E s \in Sessions : Disconnected(s)
  <2> PICK s \in Sessions : Disconnected(s)
    BY <1>14
  <2> QED
    BY  DEF Disconnected, SessionsOK, Labels
<1>15. CASE \E s \in Sessions : TimesOut(s)
  <2> PICK s \in Sessions : TimesOut(s)
    BY <1>15
  <2> QED
    BY  DEF TimesOut, SessionsOK, Labels
<1>16. CASE \E s \in Sessions : Failed(s)
  <2> PICK s \in Sessions : Failed(s)
    BY <1>16
  <2> QED
    BY  DEF Failed, SessionsOK, Labels
<1>17. CASE \E s \in Sessions : Succeeded(s)
  <2> PICK s \in Sessions : Succeeded(s)
    BY <1>17
  <2> QED
    BY  DEF Succeeded, SessionsOK, Labels
<1>18. CASE \E n \in 0..Len(pending) : DiscardTasks(n)
  <2> PICK n \in 0..Len(pending) : DiscardTasks(n)
    BY <1>18
  <2> QED
    BY  DEF DiscardTasks, Queue!Discard, SessionsOK, Labels
<1>19. CASE UNCHANGED vars
  BY <1>19 DEF vars, SessionsOK, Labels
<1> QED
  BY <1>1, <1>2, <1>3, <1>4, <1>5, <1>6, <1>7, <1>8, <1>9, <1>10, <1>11, <1>12, <1>13,
     <1>14, <1>15, <1>16, <1>17, <1>18, <1>19
     DEF Next, Session

(* The layer's queue. *)
LEMMA LayerKept ==
  ASSUME IInv, [Next]_vars
  PROVE  LayerOK'
<1> USE DEF IInv, Goto, session, layer
<1>1. CASE \E s \in Sessions : Enqueue(s)
  <2> PICK s \in Sessions : Enqueue(s)
    BY <1>1
  <2> DEFINE c == [session |-> s, number |-> calls[s], items |-> Items(s)]
  <2>1. c \in QueuedCalls
    BY ItemsFacts DEF QueuedCalls, SessionsOK
  <2>2. pending' = Append(pending, c) \/ pending' = pending
    BY DEF Enqueue, Queue!Accept
  <2> HIDE DEF c
  <2>3. pending' \in Seq(QueuedCalls)
    BY <2>1, <2>2 DEF LayerOK
  <2> QED
    BY <2>3 DEF Enqueue, Queue!Accept, LayerOK
<1>2. CASE TaskBegins \/ TaskEnds
  BY <1>2
     DEF TaskBegins, TaskEnds, Queue!Begin, Queue!End, LayerOK
<1>3. CASE StartLayer \/ StopLayer
  BY <1>3
     DEF StartLayer, StopLayer, Queue!Closing, Queue!Open, LayerOK
<1>4. CASE LayerStopped
  BY <1>4
     DEF LayerStopped, Queue!Close, LayerOK
<1>5. CASE \E s \in Sessions : \E u \in Updates : Request(s, u)
  <2> PICK s \in Sessions, u \in Updates : Request(s, u)
    BY <1>5
  <2> QED
    BY  DEF Request, LayerOK
<1>6. CASE \E s \in Sessions : Lock(s)
  <2> PICK s \in Sessions : Lock(s)
    BY <1>6
  <2> QED
    BY  DEF Lock, LayerOK
<1>7. CASE \E s \in Sessions : Validate(s)
  <2> PICK s \in Sessions : Validate(s)
    BY <1>7
  <2> QED
    BY  DEF Validate, LayerOK
<1>8. CASE \E s \in Sessions : HandlerCalled(s)
  <2> PICK s \in Sessions : HandlerCalled(s)
    BY <1>8
  <2> QED
    BY  DEF HandlerCalled, LayerOK
<1>9. CASE \E s \in Sessions : DecideDirect(s)
  <2> PICK s \in Sessions : DecideDirect(s)
    BY <1>9
  <2> QED
    BY  DEF DecideDirect, LayerOK
<1>10. CASE \E s \in Sessions : DirectCall(s)
  <2> PICK s \in Sessions : DirectCall(s)
    BY <1>10
  <2> QED
    BY  DEF DirectCall, LayerOK
<1>11. CASE \E s \in Sessions : Receive(s)
  <2> PICK s \in Sessions : Receive(s)
    BY <1>11
  <2> QED
    BY  DEF Receive, LayerOK
<1>12. CASE \E s \in Sessions : Disconnected(s)
  <2> PICK s \in Sessions : Disconnected(s)
    BY <1>12
  <2> QED
    BY  DEF Disconnected, LayerOK
<1>13. CASE \E s \in Sessions : TimesOut(s)
  <2> PICK s \in Sessions : TimesOut(s)
    BY <1>13
  <2> QED
    BY  DEF TimesOut, LayerOK
<1>14. CASE \E s \in Sessions : Failed(s)
  <2> PICK s \in Sessions : Failed(s)
    BY <1>14
  <2> QED
    BY  DEF Failed, LayerOK
<1>15. CASE \E s \in Sessions : Succeeded(s)
  <2> PICK s \in Sessions : Succeeded(s)
    BY <1>15
  <2> QED
    BY  DEF Succeeded, LayerOK
<1>16. CASE \E n \in 0..Len(pending) : DiscardTasks(n)
  <2> PICK n \in 0..Len(pending) : DiscardTasks(n)
    BY <1>16
  <2> QED
    BY  DEF DiscardTasks, Queue!Discard, LayerOK
<1>17. CASE UNCHANGED vars
  BY <1>17 DEF vars, LayerOK
<1> QED
  BY <1>1, <1>2, <1>3, <1>4, <1>5, <1>6, <1>7, <1>8, <1>9, <1>10, <1>11, <1>12, <1>13,
     <1>14, <1>15, <1>16, <1>17
     DEF Next, Session

(* The update lock. *)
LEMMA LockKept ==
  ASSUME IInv, [Next]_vars
  PROVE  LockHeld'
<1> USE DEF IInv, Goto, session, layer
<1>1. CASE TaskBegins \/ TaskEnds
  BY <1>1, ConfigurationAssumption
     DEF TaskBegins, TaskEnds, Queue!Begin, Queue!End, LockHeld, SessionsOK
<1>2. CASE StartLayer \/ StopLayer
  BY <1>2, ConfigurationAssumption
     DEF StartLayer, StopLayer, Queue!Closing, Queue!Open, LockHeld, SessionsOK
<1>3. CASE LayerStopped
  BY <1>3, ConfigurationAssumption
     DEF LayerStopped, Queue!Close, LockHeld, SessionsOK
<1>4. CASE \E s \in Sessions : \E u \in Updates : Request(s, u)
  <2> PICK s \in Sessions, u \in Updates : Request(s, u)
    BY <1>4
  <2> QED
    BY ConfigurationAssumption DEF Request, LockHeld, SessionsOK
<1>5. CASE \E s \in Sessions : Lock(s)
  <2> PICK s \in Sessions : Lock(s)
    BY <1>5
  <2> QED
    BY ConfigurationAssumption DEF Lock, LockHeld, SessionsOK
<1>6. CASE \E s \in Sessions : Validate(s)
  <2> PICK s \in Sessions : Validate(s)
    BY <1>6
  <2> QED
    BY ConfigurationAssumption DEF Validate, LockHeld, SessionsOK
<1>7. CASE \E s \in Sessions : HandlerCalled(s)
  <2> PICK s \in Sessions : HandlerCalled(s)
    BY <1>7
  <2> QED
    BY ConfigurationAssumption DEF HandlerCalled, LockHeld, SessionsOK
<1>8. CASE \E s \in Sessions : Enqueue(s)
  <2> PICK s \in Sessions : Enqueue(s)
    BY <1>8
  <2> QED
    BY ConfigurationAssumption DEF Enqueue, Queue!Accept, LockHeld, SessionsOK
<1>9. CASE \E s \in Sessions : DecideDirect(s)
  <2> PICK s \in Sessions : DecideDirect(s)
    BY <1>9
  <2> QED
    BY ConfigurationAssumption DEF DecideDirect, LockHeld, SessionsOK
<1>10. CASE \E s \in Sessions : DirectCall(s)
  <2> PICK s \in Sessions : DirectCall(s)
    BY <1>10
  <2> QED
    BY ConfigurationAssumption DEF DirectCall, LockHeld, SessionsOK
<1>11. CASE \E s \in Sessions : Receive(s)
  <2> PICK s \in Sessions : Receive(s)
    BY <1>11
  <2> QED
    BY ConfigurationAssumption DEF Receive, LockHeld, SessionsOK
<1>12. CASE \E s \in Sessions : Disconnected(s)
  <2> PICK s \in Sessions : Disconnected(s)
    BY <1>12
  <2> QED
    BY ConfigurationAssumption DEF Disconnected, LockHeld, SessionsOK
<1>13. CASE \E s \in Sessions : TimesOut(s)
  <2> PICK s \in Sessions : TimesOut(s)
    BY <1>13
  <2> QED
    BY ConfigurationAssumption DEF TimesOut, LockHeld, SessionsOK
<1>14. CASE \E s \in Sessions : Failed(s)
  <2> PICK s \in Sessions : Failed(s)
    BY <1>14
  <2> QED
    BY ConfigurationAssumption DEF Failed, LockHeld, SessionsOK
<1>15. CASE \E s \in Sessions : Succeeded(s)
  <2> PICK s \in Sessions : Succeeded(s)
    BY <1>15
  <2> QED
    BY ConfigurationAssumption DEF Succeeded, LockHeld, SessionsOK
<1>16. CASE \E n \in 0..Len(pending) : DiscardTasks(n)
  <2> PICK n \in 0..Len(pending) : DiscardTasks(n)
    BY <1>16
  <2> QED
    BY ConfigurationAssumption DEF DiscardTasks, Queue!Discard, LockHeld, SessionsOK
<1>17. CASE UNCHANGED vars
  BY <1>17, ConfigurationAssumption DEF vars, LockHeld, SessionsOK
<1> QED
  BY <1>1, <1>2, <1>3, <1>4, <1>5, <1>6, <1>7, <1>8, <1>9, <1>10, <1>11, <1>12, <1>13,
     <1>14, <1>15, <1>16, <1>17
     DEF Next, Session

(* The values put aside. *)
LEMMA RestoreKept ==
  ASSUME IInv, [Next]_vars
  PROVE  CanRestore'
<1> USE DEF IInv, Goto, session, layer
<1>1. CASE \E s \in Sessions : Succeeded(s)
  <2> PICK s \in Sessions : Succeeded(s)
    BY <1>1
  <2>1. \A t \in Sessions : ~Active(t)'
    BY DEF Succeeded, Active, LockHeld, SessionsOK
  <2>2. CASE stage[s] = "update"
    <3>1. values' = Overlaid(request[s], values) /\ Items(s) = request[s]
      BY <2>2 DEF Succeeded, Items
    <3>2. Answer(request[s]) = "configured"
      BY <3>1 DEF Succeeded, CallIsLast, SessionAgrees, Applied
    <3>3. \A p \in DOMAIN request[s] : <<p, request[s][p]>> \in Acceptable
      BY <3>2 DEF Answer, Accepted
    <3>4. \A p \in Params :
            values'[p] = IF p \in DOMAIN request[s] THEN request[s][p] ELSE values[p]
      BY <3>1 DEF Overlaid, ConfigurationsOK
    <3> QED
      BY <2>1, <3>3, <3>4 DEF CanRestore
  <2>3. CASE stage[s] = "rollback"
    BY <2>1, <2>3 DEF Succeeded, CanRestore
  <2> QED
    BY <2>2, <2>3 DEF SessionsOK
<1>2. CASE TaskBegins \/ TaskEnds
  BY <1>2
     DEF TaskBegins, TaskEnds, Queue!Begin, Queue!End, CanRestore, SessionsOK, Active,
     LockHeld, ConfigurationsOK
<1>3. CASE StartLayer \/ StopLayer
  BY <1>3
     DEF StartLayer, StopLayer, Queue!Closing, Queue!Open, CanRestore, SessionsOK,
     Active, LockHeld, ConfigurationsOK
<1>4. CASE LayerStopped
  BY <1>4
     DEF LayerStopped, Queue!Close, CanRestore, SessionsOK, Active, LockHeld,
     ConfigurationsOK
<1>5. CASE \E s \in Sessions : \E u \in Updates : Request(s, u)
  <2> PICK s \in Sessions, u \in Updates : Request(s, u)
    BY <1>5
  <2> QED
    BY  DEF Request, CanRestore, SessionsOK, Active, LockHeld, ConfigurationsOK
<1>6. CASE \E s \in Sessions : Lock(s)
  <2> PICK s \in Sessions : Lock(s)
    BY <1>6
  <2> QED
    BY  DEF Lock, CanRestore, SessionsOK, Active, LockHeld, ConfigurationsOK
<1>7. CASE \E s \in Sessions : Validate(s)
  <2> PICK s \in Sessions : Validate(s)
    BY <1>7
  <2> QED
    BY  DEF Validate, CanRestore, SessionsOK, Active, LockHeld, ConfigurationsOK
<1>8. CASE \E s \in Sessions : HandlerCalled(s)
  <2> PICK s \in Sessions : HandlerCalled(s)
    BY <1>8
  <2> QED
    BY  DEF HandlerCalled, CanRestore, SessionsOK, Active, LockHeld, ConfigurationsOK
<1>9. CASE \E s \in Sessions : Enqueue(s)
  <2> PICK s \in Sessions : Enqueue(s)
    BY <1>9
  <2> QED
    BY ZenonT(30) DEF Enqueue, Queue!Accept, CanRestore, SessionsOK, Active, LockHeld,
       ConfigurationsOK
<1>10. CASE \E s \in Sessions : DecideDirect(s)
  <2> PICK s \in Sessions : DecideDirect(s)
    BY <1>10
  <2> QED
    BY  DEF DecideDirect, CanRestore, SessionsOK, Active, LockHeld, ConfigurationsOK
<1>11. CASE \E s \in Sessions : DirectCall(s)
  <2> PICK s \in Sessions : DirectCall(s)
    BY <1>11
  <2> QED
    BY  DEF DirectCall, CanRestore, SessionsOK, Active, LockHeld, ConfigurationsOK
<1>12. CASE \E s \in Sessions : Receive(s)
  <2> PICK s \in Sessions : Receive(s)
    BY <1>12
  <2> QED
    BY  DEF Receive, CanRestore, SessionsOK, Active, LockHeld, ConfigurationsOK
<1>13. CASE \E s \in Sessions : Disconnected(s)
  <2> PICK s \in Sessions : Disconnected(s)
    BY <1>13
  <2> QED
    BY  DEF Disconnected, CanRestore, SessionsOK, Active, LockHeld, ConfigurationsOK
<1>14. CASE \E s \in Sessions : TimesOut(s)
  <2> PICK s \in Sessions : TimesOut(s)
    BY <1>14
  <2> QED
    BY  DEF TimesOut, CanRestore, SessionsOK, Active, LockHeld, ConfigurationsOK
<1>15. CASE \E s \in Sessions : Failed(s)
  <2> PICK s \in Sessions : Failed(s)
    BY <1>15
  <2> QED
    BY  DEF Failed, CanRestore, SessionsOK, Active, LockHeld, ConfigurationsOK
<1>16. CASE \E n \in 0..Len(pending) : DiscardTasks(n)
  <2> PICK n \in 0..Len(pending) : DiscardTasks(n)
    BY <1>16
  <2> QED
    BY  DEF DiscardTasks, Queue!Discard, CanRestore, SessionsOK, Active, LockHeld,
       ConfigurationsOK
<1>17. CASE UNCHANGED vars
  BY <1>17 DEF vars, CanRestore, SessionsOK, Active, LockHeld, ConfigurationsOK
<1> QED
  BY <1>1, <1>2, <1>3, <1>4, <1>5, <1>6, <1>7, <1>8, <1>9, <1>10, <1>11, <1>12, <1>13,
     <1>14, <1>15, <1>16, <1>17
     DEF Next, Session

(* The lifecycle of the queue. *)
LEMMA LayerAgreesKept ==
  ASSUME IInv, [Next]_vars
  PROVE  LayerAgrees'
<1> USE DEF IInv, Goto, session, layer
<1>1. CASE TaskBegins \/ TaskEnds
  BY <1>1, ConfigurationAssumption
     DEF TaskBegins, TaskEnds, Queue!Begin, Queue!End, LayerAgrees, SessionsOK,
     NothingQueued, Quiescent, LayerOK, LockHeld
<1>2. CASE StartLayer \/ StopLayer
  BY <1>2, ConfigurationAssumption
     DEF StartLayer, StopLayer, Queue!Closing, Queue!Open, LayerAgrees, SessionsOK,
     NothingQueued, Quiescent, LayerOK, LockHeld
<1>3. CASE LayerStopped
  BY <1>3, ConfigurationAssumption
     DEF LayerStopped, Queue!Close, LayerAgrees, SessionsOK, NothingQueued, Quiescent,
     LayerOK, LockHeld
<1>4. CASE \E s \in Sessions : \E u \in Updates : Request(s, u)
  <2> PICK s \in Sessions, u \in Updates : Request(s, u)
    BY <1>4
  <2> QED
    BY ConfigurationAssumption DEF Request, LayerAgrees, SessionsOK, NothingQueued,
       Quiescent, LayerOK, LockHeld
<1>5. CASE \E s \in Sessions : Lock(s)
  <2> PICK s \in Sessions : Lock(s)
    BY <1>5
  <2> QED
    BY ConfigurationAssumption DEF Lock, LayerAgrees, SessionsOK, NothingQueued,
       Quiescent, LayerOK, LockHeld
<1>6. CASE \E s \in Sessions : Validate(s)
  <2> PICK s \in Sessions : Validate(s)
    BY <1>6
  <2> QED
    BY ConfigurationAssumption DEF Validate, LayerAgrees, SessionsOK, NothingQueued,
       Quiescent, LayerOK, LockHeld
<1>7. CASE \E s \in Sessions : HandlerCalled(s)
  <2> PICK s \in Sessions : HandlerCalled(s)
    BY <1>7
  <2> QED
    BY ConfigurationAssumption DEF HandlerCalled, LayerAgrees, SessionsOK, NothingQueued,
       Quiescent, LayerOK, LockHeld
<1>8. CASE \E s \in Sessions : Enqueue(s)
  <2> PICK s \in Sessions : Enqueue(s)
    BY <1>8
  <2> QED
    BY ConfigurationAssumption DEF Enqueue, Queue!Accept, LayerAgrees, SessionsOK,
       NothingQueued, Quiescent, LayerOK, LockHeld
<1>9. CASE \E s \in Sessions : DecideDirect(s)
  <2> PICK s \in Sessions : DecideDirect(s)
    BY <1>9
  <2> QED
    BY ConfigurationAssumption DEF DecideDirect, LayerAgrees, SessionsOK, NothingQueued,
       Quiescent, LayerOK, LockHeld
<1>10. CASE \E s \in Sessions : DirectCall(s)
  <2> PICK s \in Sessions : DirectCall(s)
    BY <1>10
  <2> QED
    BY ConfigurationAssumption DEF DirectCall, LayerAgrees, SessionsOK, NothingQueued,
       Quiescent, LayerOK, LockHeld
<1>11. CASE \E s \in Sessions : Receive(s)
  <2> PICK s \in Sessions : Receive(s)
    BY <1>11
  <2> QED
    BY ConfigurationAssumption DEF Receive, LayerAgrees, SessionsOK, NothingQueued,
       Quiescent, LayerOK, LockHeld
<1>12. CASE \E s \in Sessions : Disconnected(s)
  <2> PICK s \in Sessions : Disconnected(s)
    BY <1>12
  <2> QED
    BY ConfigurationAssumption DEF Disconnected, LayerAgrees, SessionsOK, NothingQueued,
       Quiescent, LayerOK, LockHeld
<1>13. CASE \E s \in Sessions : TimesOut(s)
  <2> PICK s \in Sessions : TimesOut(s)
    BY <1>13
  <2> QED
    BY ConfigurationAssumption DEF TimesOut, LayerAgrees, SessionsOK, NothingQueued,
       Quiescent, LayerOK, LockHeld
<1>14. CASE \E s \in Sessions : Failed(s)
  <2> PICK s \in Sessions : Failed(s)
    BY <1>14
  <2> QED
    BY ConfigurationAssumption DEF Failed, LayerAgrees, SessionsOK, NothingQueued,
       Quiescent, LayerOK, LockHeld
<1>15. CASE \E s \in Sessions : Succeeded(s)
  <2> PICK s \in Sessions : Succeeded(s)
    BY <1>15
  <2> QED
    BY ConfigurationAssumption DEF Succeeded, LayerAgrees, SessionsOK, NothingQueued,
       Quiescent, LayerOK, LockHeld
<1>16. CASE \E n \in 0..Len(pending) : DiscardTasks(n)
  <2> PICK n \in 0..Len(pending) : DiscardTasks(n)
    BY <1>16
  <2> QED
    BY ConfigurationAssumption DEF DiscardTasks, Queue!Discard, LayerAgrees, SessionsOK,
       NothingQueued, Quiescent, LayerOK, LockHeld
<1>17. CASE UNCHANGED vars
  BY <1>17, ConfigurationAssumption DEF vars, LayerAgrees, SessionsOK, NothingQueued,
     Quiescent, LayerOK, LockHeld
<1> QED
  BY <1>1, <1>2, <1>3, <1>4, <1>5, <1>6, <1>7, <1>8, <1>9, <1>10, <1>11, <1>12, <1>13,
     <1>14, <1>15, <1>16, <1>17
     DEF Next, Session

-----------------------------------------------------------------------------
(***************************************************************************)
(* The calls in the queue.                                                 *)
(***************************************************************************)
(* What the types say of the calls in the queue.                           *)
LEMMA CallFacts ==
  ASSUME IInv
  PROVE  /\ Len(pending) \in Nat /\ pending \in Seq(QueuedCalls)
         /\ \A k \in 1..Len(pending) : /\ pending[k].session \in Sessions
                                       /\ pending[k].number \in Nat
                                       /\ pending[k].items \in Updates
         /\ \A c \in current : /\ c.session \in Sessions /\ c.number \in Nat
                               /\ c.items \in Updates
<1>1. pending \in Seq(QueuedCalls) /\ current \subseteq QueuedCalls
  BY DEF IInv, LayerOK
<1>2. \A c \in QueuedCalls : c.session \in Sessions /\ c.number \in Nat /\ c.items \in Updates
  BY DEF QueuedCalls
<1>3. \A k \in 1..Len(pending) : pending[k] \in QueuedCalls
  BY <1>1, ElementOfSeq
<1> QED
  BY <1>1, <1>2, <1>3, LenProperties

(* The queue after a call was accepted. *)
LEMMA Accepting ==
  ASSUME IInv, NEW s \in Sessions, Enqueue(s), lifecycle = "running"
  PROVE  \E c \in QueuedCalls :
           /\ c.session = s /\ c.number = calls[s] /\ c.items = Items(s)
           /\ Len(pending) \in Nat /\ Len(pending') = Len(pending) + 1
           /\ pending'[Len(pending) + 1] = c
           /\ \A k \in 1..Len(pending) : pending'[k] = pending[k]
           /\ \A k \in 1..Len(pending') : k \in 1..Len(pending) \/ k = Len(pending) + 1
           /\ UNCHANGED current
<1> DEFINE c == [session |-> s, number |-> calls[s], items |-> Items(s)]
<1>1. c \in QueuedCalls /\ c.session = s /\ c.number = calls[s] /\ c.items = Items(s)
  BY ItemsFacts DEF QueuedCalls, IInv, SessionsOK
<1>2. pending' = Append(pending, c) /\ UNCHANGED current
  BY DEF Enqueue, Queue!Accept
<1> HIDE DEF c
<1>3. /\ Len(pending) \in Nat /\ Len(pending') = Len(pending) + 1
      /\ pending'[Len(pending) + 1] = c
      /\ \A k \in 1..Len(pending) : pending'[k] = pending[k]
  BY <1>1, <1>2, CallFacts, AppendProperties
<1>4. \A k \in 1..Len(pending') : k \in 1..Len(pending) \/ k = Len(pending) + 1
  BY <1>3
<1> QED
  BY <1>1, <1>2, <1>3, <1>4

(* The queue after its first call was begun. *)
LEMMA Beginning ==
  ASSUME IInv, TaskBegins
  PROVE  /\ Len(pending) \in Nat \ {0} /\ Len(pending') = Len(pending) - 1
         /\ pending # <<>> /\ current = {} /\ current' = {pending[1]}
         /\ \A k \in 1..Len(pending') :
              k + 1 \in 1..Len(pending) /\ pending'[k] = pending[k + 1]
         /\ \A k \in 1..Len(pending) :
              k = 1 \/ (k - 1 \in 1..Len(pending') /\ pending'[k - 1] = pending[k])
         /\ Len(pending) = 1 => pending' = <<>>
<1>1. /\ pending \in Seq(QueuedCalls) /\ pending # <<>> /\ pending' = Tail(pending)
      /\ current = {} /\ current' = {Head(pending)}
  BY CallFacts DEF TaskBegins, Queue!Begin
<1>2. Len(pending) \in Nat \ {0}
  BY <1>1, EmptySeq, LenProperties
<1>3. /\ Head(pending) = pending[1] /\ Len(pending') = Len(pending) - 1
      /\ \A k \in 1..Len(pending') :
            k + 1 \in 1..Len(pending) /\ pending'[k] = pending[k + 1]
  BY <1>1, <1>2, HeadTailProperties
<1>4. ASSUME NEW k \in 1..Len(pending), k # 1
      PROVE  k - 1 \in 1..Len(pending') /\ pending'[k - 1] = pending[k]
  <2>1. k - 1 \in 1..Len(pending') /\ (k - 1) + 1 = k
    BY <1>2, <1>3, <1>4
  <2> QED
    BY <1>3, <2>1
<1>5. Len(pending) = 1 => Len(pending') = 0
  BY <1>3
<1>6. Len(pending) = 1 => pending' = <<>>
  BY <1>1, <1>2, <1>5, EmptySeq, HeadTailProperties
<1> QED
  BY <1>1, <1>2, <1>3, <1>4, <1>6

(* The queue after some of its oldest calls were discarded. *)
LEMMA Discarding ==
  ASSUME IInv, NEW n \in 0..Len(pending), DiscardTasks(n)
  PROVE  /\ phase = "closing" /\ current = {} /\ UNCHANGED current
         /\ Len(pending) \in Nat /\ Len(pending') = Len(pending) - n
         /\ \A k \in 1..Len(pending') :
              k + n \in 1..Len(pending) /\ pending'[k] = pending[k + n]
         /\ \A k \in 1..Len(pending') : k + n = Len(pending) => k = Len(pending')
         /\ pending = <<>> => pending' = <<>>
<1>1. /\ phase = "closing" /\ current = {} /\ UNCHANGED current
      /\ pending' = SubSeq(pending, n + 1, Len(pending))
      /\ pending \in Seq(QueuedCalls) /\ Len(pending) \in Nat
  BY CallFacts DEF DiscardTasks, Queue!Discard
<1>2. n + 1 \in 1..(Len(pending) + 1) /\ Len(pending) \in n..Len(pending)
  BY <1>1
<1>3. /\ Len(pending') = Len(pending) - n
      /\ \A k \in 1..(Len(pending) - n) : pending'[k] = pending[k + n]
  BY <1>1, <1>2
<1>4. \A k \in 1..Len(pending') : k + n \in 1..Len(pending)
  BY <1>1, <1>3
<1>5. pending = <<>> => pending' = <<>>
  <2>1. pending' \in Seq(QueuedCalls)
    BY LayerKept DEF LayerOK, Next
  <2> QED
    BY <1>1, <1>3, <2>1, EmptySeq
<1>6. \A k \in 1..Len(pending') : k + n = Len(pending) => k = Len(pending')
  BY <1>1, <1>3
<1> QED
  BY <1>1, <1>3, <1>4, <1>5, <1>6

-----------------------------------------------------------------------------
(***************************************************************************)
(* The call a session waits for.                                           *)
(***************************************************************************)
(* Nothing is claimed of a session that waits for no call.                 *)
LEMMA AgreesOutside ==
  ASSUME NEW t, pc'[t] \in {"idle", "lock", "validate", "handler", "failed"}
  PROVE  SessionAgrees(t)'
  BY DEF SessionAgrees

(* A session agrees with the queue as long as neither changes.             *)
LEMMA AgreesStill ==
  ASSUME NEW t, SessionAgrees(t),
         pc'[t] = pc[t], stage'[t] = stage[t], request'[t] = request[t],
         rollback'[t] = rollback[t], calls'[t] = calls[t], reply'[t] = reply[t],
         disturbed => disturbed', UNCHANGED <<pending, current, component>>
  PROVE  SessionAgrees(t)'
<1>1. Items(t)' = Items(t)
  BY DEF Items
<1>2. \A c : IsWaiting(t, c)' <=> IsWaiting(t, c)
  BY DEF IsWaiting
<1>3. (NothingQueued' <=> NothingQueued) /\ (NoneWaiting(t)' <=> NoneWaiting(t))
  BY <1>2 DEF NothingQueued, NoneWaiting
<1>4. Applied(t)' <=> Applied(t)
  BY <1>1 DEF Applied, Answer, Accepted
<1>5. Answer(Items(t))' = Answer(Items(t))
  BY <1>1 DEF Answer, Accepted
<1> QED
  BY <1>1, <1>2, <1>3, <1>4, <1>5 DEF SessionAgrees

(* While a session is at work the others are outside. *)
LEMMA OthersOutside ==
  ASSUME IInv, NEW s \in Sessions, pc[s] \notin {"idle", "lock"},
         NEW label \in Labels, pc' = [pc EXCEPT ![s] = label]
  PROVE  /\ pc'[s] = label
         /\ \A t \in Sessions : t # s => pc'[t] \in {"idle", "lock"} /\ pc'[t] = pc[t]
         /\ \A t \in Sessions : t # s => SessionAgrees(t)'
<1>1. pc'[s] = label
  BY DEF IInv, SessionsOK
<1>2. \A t \in Sessions : t # s => pc'[t] \in {"idle", "lock"} /\ pc'[t] = pc[t]
  BY DEF IInv, SessionsOK, LockHeld
<1> QED
  BY <1>1, <1>2, AgreesOutside

(* The calls of a session are numbered up to its last one.                 *)
LEMMA NumbersKept ==
  ASSUME IInv, UNCHANGED <<pending, current>>,
         \A t \in Sessions : calls'[t] \in Nat /\ calls[t] <= calls'[t]
  PROVE  CallNumbers'
<1>1. \A t \in Sessions : calls[t] \in Nat
  BY DEF IInv, SessionsOK
<1>2. \A n \in Nat, t \in Sessions : n <= calls[t] => n <= calls'[t]
  BY <1>1
<1> QED
  BY <1>2, CallFacts DEF IInv, CallIsLast, CallNumbers

(* The call a session waits for is the last. *)
LEMMA CallKept ==
  ASSUME IInv, [Next]_vars
  PROVE  CallIsLast'
<1> USE DEF IInv, Goto, session, layer
<1>1. CASE \E s \in Sessions : \E u \in Updates : Request(s, u)
  <2> PICK s \in Sessions, u \in Updates : Request(s, u)
    BY <1>1
  <2>1. /\ pc' = [pc EXCEPT ![s] = "lock"] /\ request' = [request EXCEPT ![s] = u]
        /\ UNCHANGED <<pending, current, calls, stage, rollback, reply, component, disturbed>>
    BY DEF Request
  <2>2. pc'[s] = "lock" /\ \A t \in Sessions : t # s => pc'[t] = pc[t] /\ request'[t] = request[t]
    BY <2>1 DEF SessionsOK
  <2>3. \A t \in Sessions : SessionAgrees(t)'
    BY <2>1, <2>2, AgreesOutside, AgreesStill DEF CallIsLast
  <2>4. CallNumbers'
    BY <2>1 DEF CallIsLast, CallNumbers
  <2> QED
    BY <2>3, <2>4 DEF CallIsLast
<1>2. CASE \E s \in Sessions : Lock(s)
  <2> PICK s \in Sessions : Lock(s)
    BY <1>2
  <2>1. /\ pc' = [pc EXCEPT ![s] = "validate"]
        /\ UNCHANGED <<pending, current, calls, stage, request, rollback, reply, component,
                       disturbed>>
    BY DEF Lock
  <2>2. pc'[s] = "validate" /\ \A t \in Sessions : t # s => pc'[t] = pc[t]
    BY <2>1 DEF SessionsOK
  <2>3. \A t \in Sessions : SessionAgrees(t)'
    BY <2>1, <2>2, AgreesOutside, AgreesStill DEF CallIsLast
  <2>4. CallNumbers'
    BY <2>1 DEF CallIsLast, CallNumbers
  <2> QED
    BY <2>3, <2>4 DEF CallIsLast
<1>3. CASE \E s \in Sessions : Validate(s)
  <2> PICK s \in Sessions : Validate(s)
    BY <1>3
  <2>1. /\ pc[s] \notin {"idle", "lock"} /\ UNCHANGED <<pending, current, calls>>
        /\ \E label \in {"handler", "idle"} : pc' = [pc EXCEPT ![s] = label]
    BY DEF Validate
  <2>2. pc'[s] \in {"handler", "idle"} /\ \A t \in Sessions : t # s => SessionAgrees(t)'
    BY <2>1, OthersOutside DEF Labels
  <2>3. SessionAgrees(s)'
    BY <2>2, AgreesOutside
  <2>4. CallNumbers'
    BY <2>1 DEF CallIsLast, CallNumbers
  <2> QED
    BY <2>2, <2>3, <2>4 DEF CallIsLast
<1>4. CASE \E s \in Sessions : Disconnected(s)
  <2> PICK s \in Sessions : Disconnected(s)
    BY <1>4
  <2>1. /\ pc[s] \notin {"idle", "lock"} /\ UNCHANGED <<pending, current, calls>>
        /\ \E label \in {"failed"} : pc' = [pc EXCEPT ![s] = label]
    BY DEF Disconnected
  <2>2. pc'[s] \in {"failed"} /\ \A t \in Sessions : t # s => SessionAgrees(t)'
    BY <2>1, OthersOutside DEF Labels
  <2>3. SessionAgrees(s)'
    BY <2>2, AgreesOutside
  <2>4. CallNumbers'
    BY <2>1 DEF CallIsLast, CallNumbers
  <2> QED
    BY <2>2, <2>3, <2>4 DEF CallIsLast
<1>5. CASE \E s \in Sessions : TimesOut(s)
  <2> PICK s \in Sessions : TimesOut(s)
    BY <1>5
  <2>1. /\ pc[s] \notin {"idle", "lock"} /\ UNCHANGED <<pending, current, calls>>
        /\ \E label \in {"failed"} : pc' = [pc EXCEPT ![s] = label]
    BY DEF TimesOut
  <2>2. pc'[s] \in {"failed"} /\ \A t \in Sessions : t # s => SessionAgrees(t)'
    BY <2>1, OthersOutside DEF Labels
  <2>3. SessionAgrees(s)'
    BY <2>2, AgreesOutside
  <2>4. CallNumbers'
    BY <2>1 DEF CallIsLast, CallNumbers
  <2> QED
    BY <2>2, <2>3, <2>4 DEF CallIsLast
<1>6. CASE \E s \in Sessions : Failed(s)
  <2> PICK s \in Sessions : Failed(s)
    BY <1>6
  <2>1. /\ pc[s] \notin {"idle", "lock"} /\ UNCHANGED <<pending, current, calls>>
        /\ \E label \in {"handler", "idle"} : pc' = [pc EXCEPT ![s] = label]
    BY DEF Failed
  <2>2. pc'[s] \in {"handler", "idle"} /\ \A t \in Sessions : t # s => SessionAgrees(t)'
    BY <2>1, OthersOutside DEF Labels
  <2>3. SessionAgrees(s)'
    BY <2>2, AgreesOutside
  <2>4. CallNumbers'
    BY <2>1 DEF CallIsLast, CallNumbers
  <2> QED
    BY <2>2, <2>3, <2>4 DEF CallIsLast
<1>7. CASE \E s \in Sessions : Succeeded(s)
  <2> PICK s \in Sessions : Succeeded(s)
    BY <1>7
  <2>1. /\ pc[s] \notin {"idle", "lock"} /\ UNCHANGED <<pending, current, calls>>
        /\ \E label \in {"idle"} : pc' = [pc EXCEPT ![s] = label]
    BY DEF Succeeded
  <2>2. pc'[s] \in {"idle"} /\ \A t \in Sessions : t # s => SessionAgrees(t)'
    BY <2>1, OthersOutside DEF Labels
  <2>3. SessionAgrees(s)'
    BY <2>2, AgreesOutside
  <2>4. CallNumbers'
    BY <2>1 DEF CallIsLast, CallNumbers
  <2> QED
    BY <2>2, <2>3, <2>4 DEF CallIsLast
<1>8. CASE \E s \in Sessions : HandlerCalled(s)
  <2> PICK s \in Sessions : HandlerCalled(s)
    BY <1>8
  <2>1. /\ pc[s] \notin {"idle", "lock"} /\ UNCHANGED <<pending, current>>
        /\ \E label \in {"enqueue", "direct?"} : pc' = [pc EXCEPT ![s] = label]
        /\ calls' = [calls EXCEPT ![s] = calls[s] + 1] /\ reply' = [reply EXCEPT ![s] = "none"]
    BY DEF HandlerCalled
  <2>2. /\ pc'[s] \in {"enqueue", "direct?"}
        /\ \A t \in Sessions : t # s => SessionAgrees(t)'
    BY <2>1, OthersOutside DEF Labels
  <2>3. /\ calls[s] \in Nat /\ calls'[s] = calls[s] + 1 /\ reply'[s] = "none"
        /\ \A t \in Sessions : calls'[t] \in Nat /\ calls[t] <= calls'[t]
    BY <2>1 DEF SessionsOK
  <2>4. NoneWaiting(s)'
    <3>1. \A k \in 1..Len(pending) : pending[k].session = s => pending[k].number # calls'[s]
      BY <2>3, CallFacts DEF CallIsLast, CallNumbers
    <3>2. \A c \in current : c.session = s => c.number # calls'[s]
      BY <2>3, CallFacts DEF CallIsLast, CallNumbers
    <3> QED
      BY <2>1, <3>1, <3>2 DEF NoneWaiting, IsWaiting
  <2>5. SessionAgrees(s)'
    BY <2>2, <2>3, <2>4 DEF SessionAgrees
  <2>6. CallNumbers'
    BY <2>1, <2>3, NumbersKept
  <2> QED
    BY <2>2, <2>5, <2>6 DEF CallIsLast
<1>9. CASE \E s \in Sessions : Enqueue(s)
  <2> PICK s \in Sessions : Enqueue(s)
    BY <1>9
  <2>1. pc[s] = "enqueue" /\ UNCHANGED <<calls, stage, request, rollback, reply>>
    BY DEF Enqueue
  <2>2. CASE lifecycle # "running"
    <3>1. pc' = [pc EXCEPT ![s] = "failed"] /\ UNCHANGED <<pending, current>>
      BY <2>2 DEF Enqueue
    <3>2. pc'[s] = "failed" /\ \A t \in Sessions : t # s => SessionAgrees(t)'
      BY <2>1, <3>1, OthersOutside DEF Labels
    <3>3. SessionAgrees(s)'
      BY <3>2, AgreesOutside
    <3> QED
      BY <2>1, <3>1, <3>2, <3>3 DEF CallIsLast, CallNumbers
  <2>3. CASE lifecycle = "running"
    <3>1. PICK c \in QueuedCalls :
            /\ c.session = s /\ c.number = calls[s] /\ c.items = Items(s)
            /\ Len(pending) \in Nat /\ Len(pending') = Len(pending) + 1
            /\ pending'[Len(pending) + 1] = c
            /\ \A k \in 1..Len(pending) : pending'[k] = pending[k]
            /\ \A k \in 1..Len(pending') : k \in 1..Len(pending) \/ k = Len(pending) + 1
            /\ UNCHANGED current
      BY <2>3, Accepting
    <3>2. pc' = [pc EXCEPT ![s] = "receive"]
      BY <2>3 DEF Enqueue
    <3>3. pc'[s] = "receive" /\ \A t \in Sessions : t # s => SessionAgrees(t)'
      BY <2>1, <3>2, OthersOutside DEF Labels
    <3>4. \A d : IsWaiting(s, d)' <=> IsWaiting(s, d)
      BY <2>1 DEF IsWaiting
    <3>5. NoneWaiting(s) /\ reply'[s] = "none" /\ Items(s)' = Items(s)
      BY <2>1 DEF CallIsLast, SessionAgrees, Items
    <3>6. Len(pending) + 1 \in 1..Len(pending') /\ IsWaiting(s, c)
      BY <3>1 DEF IsWaiting
    <3>7. SessionAgrees(s)'
      <4>1. ~NoneWaiting(s)'
        BY <3>1, <3>4, <3>6 DEF NoneWaiting
      <4>2. \A k \in 1..Len(pending') : IsWaiting(s, pending'[k]) =>
              k = Len(pending') /\ pending'[k].items = Items(s)
        BY <3>1, <3>5 DEF NoneWaiting
      <4>3. \A d \in current' : ~IsWaiting(s, d)'
        BY <3>1, <3>4, <3>5 DEF NoneWaiting
      <4> QED
        BY <3>3, <3>4, <3>5, <4>1, <4>2, <4>3 DEF SessionAgrees
    <3>8. CallNumbers'
      <4>1. calls[s] <= calls[s]
        BY DEF SessionsOK
      <4> QED
        BY <2>1, <3>1, <4>1 DEF CallIsLast, CallNumbers
    <3> QED
      BY <3>3, <3>7, <3>8 DEF CallIsLast
  <2> QED
    BY <2>2, <2>3
<1>10. CASE \E s \in Sessions : DecideDirect(s)
  <2> PICK s \in Sessions : DecideDirect(s)
    BY <1>10
  <2>1. /\ pc[s] = "direct?"
        /\ UNCHANGED <<pending, current, calls, stage, request, rollback, reply>>
        /\ pc' = [pc EXCEPT ![s] = IF lifecycle = "created" THEN "direct" ELSE "failed"]
    BY DEF DecideDirect
  <2>2. /\ pc'[s] = IF lifecycle = "created" THEN "direct" ELSE "failed"
        /\ \A t \in Sessions : t # s => SessionAgrees(t)'
    BY <2>1, OthersOutside DEF Labels
  <2>3. lifecycle = "created" => NothingQueued'
    BY <2>1 DEF LayerAgrees, NothingQueued
  <2>4. NoneWaiting(s)'
    BY <2>1 DEF CallIsLast, SessionAgrees, NoneWaiting, IsWaiting
  <2>5. SessionAgrees(s)'
    BY <2>2, <2>3, <2>4 DEF SessionAgrees
  <2> QED
    BY <2>1, <2>2, <2>5 DEF CallIsLast, CallNumbers
<1>11. CASE \E s \in Sessions : DirectCall(s)
  <2> PICK s \in Sessions : DirectCall(s)
    BY <1>11
  <2>1. /\ pc[s] = "direct" /\ Configure(Items(s))
        /\ UNCHANGED <<pending, current, calls, stage, request, rollback, reply>>
        /\ pc' = [pc EXCEPT ![s] = IF Answer(Items(s)) = "configured" THEN "succeeded"
                                   ELSE "failed"]
    BY DEF DirectCall
  <2>2. /\ pc'[s] = IF Answer(Items(s)) = "configured" THEN "succeeded" ELSE "failed"
        /\ \A t \in Sessions : t # s => SessionAgrees(t)'
    BY <2>1, OthersOutside DEF Labels
  <2>3. NothingQueued' /\ Items(s)' = Items(s)
    BY <2>1 DEF CallIsLast, SessionAgrees, NothingQueued, Items
  <2>4. Answer(Items(s)) = "configured" => Applied(s)'
    BY <2>1, <2>3, ItemsFacts, Configured DEF Applied, Answer, Accepted
  <2>5. SessionAgrees(s)'
    BY <2>2, <2>3, <2>4 DEF SessionAgrees
  <2> QED
    BY <2>1, <2>2, <2>5 DEF CallIsLast, CallNumbers
<1>12. CASE \E s \in Sessions : Receive(s)
  <2> PICK s \in Sessions : Receive(s)
    BY <1>12
  <2>1. /\ pc[s] = "receive" /\ reply[s] # "none"
        /\ UNCHANGED <<pending, current, calls, stage, request, rollback, reply, component>>
        /\ pc' = [pc EXCEPT ![s] = IF reply[s] = "configured" THEN "succeeded" ELSE "failed"]
    BY DEF Receive
  <2>2. /\ pc'[s] = IF reply[s] = "configured" THEN "succeeded" ELSE "failed"
        /\ \A t \in Sessions : t # s => SessionAgrees(t)'
    BY <2>1, OthersOutside DEF Labels
  <2>3. NothingQueued' /\ Items(s)' = Items(s)
    BY <2>1 DEF CallIsLast, SessionAgrees, NothingQueued, Items
  <2>4. reply[s] = "configured" => Applied(s)'
    BY <2>1, <2>3 DEF CallIsLast, SessionAgrees, Applied, Answer, Accepted
  <2>5. SessionAgrees(s)'
    BY <2>2, <2>3, <2>4 DEF SessionAgrees
  <2> QED
    BY <2>1, <2>2, <2>5 DEF CallIsLast, CallNumbers
<1>13. CASE TaskBegins
  <2>1. /\ Len(pending) \in Nat \ {0} /\ Len(pending') = Len(pending) - 1
        /\ pending # <<>> /\ current = {} /\ current' = {pending[1]}
        /\ \A k \in 1..Len(pending') :
             k + 1 \in 1..Len(pending) /\ pending'[k] = pending[k + 1]
        /\ \A k \in 1..Len(pending) :
             k = 1 \/ (k - 1 \in 1..Len(pending') /\ pending'[k - 1] = pending[k])
        /\ Len(pending) = 1 => pending' = <<>>
    BY <1>13, Beginning
  <2>2. UNCHANGED <<pc, calls, stage, request, rollback, reply, component, disturbed>>
    BY <1>13 DEF TaskBegins
  <2>3. 1 \in 1..Len(pending)
    BY <2>1
  <2>4. CallNumbers'
    BY <2>1, <2>2, <2>3 DEF CallIsLast, CallNumbers
  <2>5. ASSUME NEW t \in Sessions PROVE SessionAgrees(t)'
    <3>1. SessionAgrees(t) /\ ~NothingQueued
      BY <2>1 DEF CallIsLast, NothingQueued
    <3>2. \A c : IsWaiting(t, c)' <=> IsWaiting(t, c)
      BY <2>2 DEF IsWaiting
    <3>3. Items(t)' = Items(t)
      BY <2>2 DEF Items
    <3>4. NoneWaiting(t)' <=> NoneWaiting(t)
      BY <2>1, <2>3, <3>2 DEF NoneWaiting
    <3>5. ASSUME pc[t] = "receive"
          PROVE  /\ \A k \in 1..Len(pending') : IsWaiting(t, pending'[k]) =>
                      k = Len(pending') /\ pending'[k].items = Items(t)
                 /\ \A c \in current' : IsWaiting(t, c) =>
                      pending' = <<>> /\ c.items = Items(t)
      <4>1. \A k \in 1..Len(pending) : IsWaiting(t, pending[k]) =>
              k = Len(pending) /\ pending[k].items = Items(t)
        BY <3>1, <3>5 DEF SessionAgrees
      <4>2. \A k \in 1..Len(pending') : k + 1 = Len(pending) => k = Len(pending')
        BY <2>1
      <4> QED
        BY <2>1, <2>3, <4>1, <4>2
    <3> QED
      BY <2>2, <3>1, <3>2, <3>3, <3>4, <3>5 DEF SessionAgrees
  <2> QED
    BY <2>4, <2>5 DEF CallIsLast
<1>14. CASE TaskEnds
  <2> PICK c \in QueuedCalls : Executing(c)
    BY <1>14, Executed
  <2>1. /\ current = {c} /\ current' = {} /\ c.items \in Updates /\ c.session \in Sessions
        /\ Configure(c.items)
        /\ reply' = [reply EXCEPT ![c.session] =
                       IF IsWaiting(c.session, c) THEN Answer(c.items)
                       ELSE reply[c.session]]
    BY DEF Executing
  <2>2. UNCHANGED <<pc, calls, stage, request, rollback, pending, disturbed>>
    BY <1>14 DEF TaskEnds, Queue!End
  <2>3. CallNumbers'
    BY <2>1, <2>2 DEF CallIsLast, CallNumbers
  <2>4. ASSUME NEW t \in Sessions PROVE SessionAgrees(t)'
    <3>1. SessionAgrees(t) /\ ~NothingQueued
      BY <2>1 DEF CallIsLast, NothingQueued
    <3>2. \A d : IsWaiting(t, d)' <=> IsWaiting(t, d)
      BY <2>2 DEF IsWaiting
    <3>3. Items(t)' = Items(t) /\ Answer(Items(t))' = Answer(Items(t))
      BY <2>2 DEF Items, Answer, Accepted
    <3>4. CASE IsWaiting(t, c)
      <4>1. c.session = t
        BY <3>4 DEF IsWaiting
      <4>2. reply'[t] = Answer(c.items)
        BY <2>1, <3>4, <4>1 DEF SessionsOK
      <4>3. ASSUME pc[t] = "receive"
            PROVE  c.items = Items(t) /\ NothingQueued'
        BY <2>1, <2>2, <3>1, <3>4, <4>3 DEF SessionAgrees, NothingQueued
      <4>4. ASSUME pc[t] = "receive", Answer(c.items) = "configured" PROVE Applied(t)'
        BY <2>1, <3>3, <4>3, <4>4, Configured DEF Applied
      <4>5. pc[t] \notin {"enqueue", "direct?", "direct", "succeeded"}
        BY <2>1, <3>1, <3>4 DEF SessionAgrees, NoneWaiting
      <4>6. Answer(c.items) # "none"
        BY DEF Answer
      <4>7. pc[t] = "receive" => Len(pending') = 0
        BY <4>3 DEF NothingQueued
      <4> QED
        BY <2>1, <2>2, <3>3, <4>2, <4>3, <4>4, <4>5, <4>6, <4>7 DEF SessionAgrees
    <3>5. CASE ~IsWaiting(t, c)
      <4>1. reply'[t] = reply[t]
        <5>1. CASE c.session = t
          BY <2>1, <3>5, <5>1 DEF SessionsOK
        <5>2. CASE c.session # t
          BY <2>1, <5>2 DEF SessionsOK
        <5> QED
          BY <5>1, <5>2
      <4>2. NoneWaiting(t)' <=> NoneWaiting(t)
        BY <2>1, <2>2, <3>2, <3>5 DEF NoneWaiting
      <4> QED
        BY <2>1, <2>2, <3>1, <3>2, <3>3, <4>1, <4>2 DEF SessionAgrees
    <3> QED
      BY <3>4, <3>5
  <2> QED
    BY <2>3, <2>4 DEF CallIsLast
<1>15. CASE \E n \in 0..Len(pending) : DiscardTasks(n)
  <2> PICK n \in 0..Len(pending) : DiscardTasks(n)
    BY <1>15
  <2>1. /\ phase = "closing" /\ current = {} /\ UNCHANGED current
        /\ Len(pending) \in Nat /\ Len(pending') = Len(pending) - n
        /\ \A k \in 1..Len(pending') :
             k + n \in 1..Len(pending) /\ pending'[k] = pending[k + n]
        /\ pending = <<>> => pending' = <<>>
    BY Discarding
  <2>2. UNCHANGED <<pc, calls, stage, request, rollback, reply, component, disturbed>>
    BY DEF DiscardTasks
  <2>3. CallNumbers'
    BY <2>1, <2>2 DEF CallIsLast, CallNumbers
  <2>4. ASSUME NEW t \in Sessions PROVE SessionAgrees(t)'
    <3>1. SessionAgrees(t) /\ (NothingQueued => NothingQueued')
      BY <2>1 DEF CallIsLast, NothingQueued
    <3>2. \A d : IsWaiting(t, d)' <=> IsWaiting(t, d)
      BY <2>2 DEF IsWaiting
    <3>3. Items(t)' = Items(t) /\ (Applied(t)' <=> Applied(t))
      BY <2>2 DEF Items, Applied, Answer, Accepted
    <3>4. Answer(Items(t))' = Answer(Items(t))
      BY <3>3 DEF Answer, Accepted
    <3>5. NoneWaiting(t) => NoneWaiting(t)'
      BY <2>1, <3>2 DEF NoneWaiting
    <3>6. pc[t] = "receive" => disturbed
      BY <2>1 DEF LayerAgrees
    <3>7. \A k \in 1..Len(pending') : k + n = Len(pending) => k = Len(pending')
      BY Discarding
    <3>8. ASSUME pc[t] = "receive"
          PROVE  \A k \in 1..Len(pending') : IsWaiting(t, pending'[k]) =>
                   k = Len(pending') /\ pending'[k].items = Items(t)
      BY <2>1, <3>1, <3>7, <3>8 DEF SessionAgrees
    <3> QED
      BY <2>1, <2>2, <3>1, <3>2, <3>3, <3>4, <3>5, <3>6, <3>8 DEF SessionAgrees
  <2> QED
    BY <2>3, <2>4 DEF CallIsLast
<1>16. CASE StartLayer \/ StopLayer
  <2>1. /\ UNCHANGED <<pc, calls, stage, request, rollback, reply, component, pending, current>>
        /\ disturbed => disturbed'
    BY <1>16 DEF StartLayer, StopLayer, Queue!Open, Queue!Closing
  <2>2. \A t \in Sessions : SessionAgrees(t)'
    BY <2>1, AgreesStill DEF CallIsLast
  <2> QED
    BY <2>1, <2>2 DEF CallIsLast, CallNumbers
<1>17. CASE LayerStopped \/ UNCHANGED vars
  <2>1. /\ UNCHANGED <<pc, calls, stage, request, rollback, reply, component, pending, current>>
        /\ disturbed => disturbed'
    BY <1>17 DEF LayerStopped, vars, Queue!Close
  <2>2. \A t \in Sessions : SessionAgrees(t)'
    BY <2>1, AgreesStill DEF CallIsLast
  <2> QED
    BY <2>1, <2>2 DEF CallIsLast, CallNumbers
<1> QED
  BY <1>1, <1>2, <1>3, <1>4, <1>5, <1>6, <1>7, <1>8, <1>9, <1>10, <1>11, <1>12, <1>13,
     <1>14, <1>15, <1>16, <1>17
     DEF Next, Session

-----------------------------------------------------------------------------
(***************************************************************************)
(* Clients are told, and what was begun is undone.                         *)
(***************************************************************************)
(* A session applies or restores exactly the parameters it was asked for.  *)
LEMMA ItemsDomain ==
  ASSUME IInv, NEW s \in Sessions, Active(s)
  PROVE  DOMAIN Items(s) = DOMAIN request[s] /\ DOMAIN request[s] \subseteq Params
<1>1. DOMAIN request[s] \subseteq Params
  BY UpdateFacts DEF IInv, SessionsOK
<1> QED
  BY <1>1 DEF IInv, CanRestore, Items

(* A session that succeeds finds the queue empty and its values applied.   *)
LEMMA SuccessFacts ==
  ASSUME IInv, NEW s \in Sessions, Succeeded(s)
  PROVE  /\ NothingQueued /\ UNCHANGED <<pending, current, component>>
         /\ \A p \in DOMAIN request[s] : component[p] = values'[p]
         /\ \A p \in Params \ DOMAIN request[s] : values'[p] = values[p]
<1>1. /\ pc[s] = "succeeded" /\ UNCHANGED <<pending, current, component>>
      /\ \/ stage[s] = "update" /\ values' = Overlaid(request[s], values)
         \/ stage[s] = "rollback" /\ values' = values
  BY DEF Succeeded, layer
<1>2. NothingQueued /\ Applied(s) /\ Active(s)
  BY <1>1 DEF IInv, CallIsLast, SessionAgrees, Active
<1>3. DOMAIN Items(s) = DOMAIN request[s] /\ DOMAIN request[s] \subseteq Params
  BY <1>2, ItemsDomain
<1>4. CASE stage[s] = "update"
  <2>1. Items(s) = request[s] /\ values' = Overlaid(request[s], values)
    BY <1>1, <1>4 DEF Items
  <2>2. \A p \in Params :
          values'[p] = IF p \in DOMAIN request[s] THEN request[s][p] ELSE values[p]
    BY <2>1 DEF Overlaid, IInv, ConfigurationsOK
  <2> QED
    BY <1>1, <1>2, <1>3, <2>1, <2>2 DEF Applied
<1>5. CASE stage[s] = "rollback"
  <2>1. \A p \in DOMAIN request[s] : Items(s)[p] = values[p]
    BY <1>2, <1>5, RollbackAccepted
  <2> QED
    BY <1>1, <1>2, <1>3, <1>5, <2>1 DEF Applied
<1> QED
  BY <1>1, <1>4, <1>5

(* Registry and component part only where a client was told. *)
LEMMA ToldKept ==
  ASSUME IInv, [Next]_vars
  PROVE  ClientsTold'
<1> USE DEF IInv, Goto, session, layer
<1>1. CASE \E s \in Sessions : Enqueue(s)
  <2> PICK s \in Sessions : Enqueue(s)
    BY <1>1
  <2>1. /\ Active(s) /\ pc'[s] \in {"receive", "failed"}
        /\ \A t \in Sessions : Active(t) => Active(t)'
        /\ UNCHANGED <<request, values, component, suspect, current>>
    BY DEF Enqueue, Active, SessionsOK, Queue!Accept
  <2>2. CASE lifecycle # "running"
    <3>1. UNCHANGED pending
      BY <2>2 DEF Enqueue
    <3> QED
      BY <2>1, <3>1 DEF ClientsTold, Untouched
  <2>3. CASE lifecycle = "running"
    <3>1. PICK c \in QueuedCalls :
            /\ c.items = Items(s) /\ pending'[Len(pending) + 1] = c
            /\ \A k \in 1..Len(pending) : pending'[k] = pending[k]
            /\ \A k \in 1..Len(pending') : k \in 1..Len(pending) \/ k = Len(pending) + 1
      BY <2>3, Accepting
    <3>2. \A p \in Params : p \notin DOMAIN request[s] /\ Untouched(p) => Untouched(p)'
      BY <2>1, <3>1, ItemsDomain DEF Untouched, Concerns
    <3> QED
      BY <2>1, <3>2 DEF ClientsTold
  <2> QED
    BY <2>2, <2>3
<1>2. CASE \E s \in Sessions : DirectCall(s)
  <2> PICK s \in Sessions : DirectCall(s)
    BY <1>2
  <2>1. /\ Active(s) /\ Active(s)' /\ Configure(Items(s))
        /\ \A t \in Sessions : Active(t) => Active(t)'
        /\ UNCHANGED <<request, values, suspect, pending, current>>
    BY DEF DirectCall, Active, SessionsOK
  <2>2. \A p \in Params \ DOMAIN request[s] : component'[p] = component[p]
    BY <2>1, ItemsDomain, ItemsFacts, Configured
  <2> QED
    BY <2>1, <2>2 DEF ClientsTold, Untouched
<1>3. CASE \E s \in Sessions : Succeeded(s)
  <2> PICK s \in Sessions : Succeeded(s)
    BY <1>3
  <2>1. /\ NothingQueued /\ UNCHANGED <<pending, current, component>>
        /\ \A p \in DOMAIN request[s] : component[p] = values'[p]
        /\ \A p \in Params \ DOMAIN request[s] : values'[p] = values[p]
    BY SuccessFacts
  <2>2. /\ \A p \in suspect : p \notin DOMAIN request[s] => p \in suspect'
        /\ \A t \in Sessions : Active(t) => t = s
    BY DEF Succeeded, Active, LockHeld
  <2>3. \A p \in Params : Untouched(p)'
    BY <2>1 DEF Untouched, NothingQueued
  <2> QED
    BY <2>1, <2>2, <2>3 DEF ClientsTold
<1>4. CASE TaskEnds
  <2> PICK c \in QueuedCalls : Executing(c)
    BY <1>4, Executed
  <2>1. current = {c} /\ current' = {} /\ c.items \in Updates /\ Configure(c.items)
    BY DEF Executing
  <2>2. UNCHANGED <<pc, request, values, suspect, pending>>
    BY <1>4 DEF TaskEnds, Queue!End
  <2>3. \A p \in Params : Untouched(p) => Untouched(p)' /\ component'[p] = component[p]
    BY <2>1, <2>2, Configured DEF Untouched, Concerns
  <2> QED
    BY <2>2, <2>3 DEF ClientsTold, Active
<1>5. CASE TaskBegins
  BY <1>5, UpdateFacts
     DEF TaskBegins, Queue!Begin, ClientsTold, LockHeld, SessionsOK, LayerOK, Active,
     Untouched, Concerns, Applied
<1>6. CASE StartLayer
  BY <1>6, UpdateFacts
     DEF StartLayer, Queue!Open, ClientsTold, LockHeld, SessionsOK, LayerOK, Active,
     Untouched, Concerns, Applied
<1>7. CASE StopLayer
  BY <1>7, UpdateFacts
     DEF StopLayer, Queue!Closing, ClientsTold, LockHeld, SessionsOK, LayerOK, Active,
     Untouched, Concerns, Applied
<1>8. CASE LayerStopped
  BY <1>8, UpdateFacts
     DEF LayerStopped, Queue!Close, ClientsTold, LockHeld, SessionsOK, LayerOK, Active,
     Untouched, Concerns, Applied
<1>9. CASE \E s \in Sessions : \E u \in Updates : Request(s, u)
  <2> PICK s \in Sessions, u \in Updates : Request(s, u)
    BY <1>9
  <2> QED
    BY UpdateFacts DEF Request, ClientsTold, LockHeld, SessionsOK, LayerOK, Active,
       Untouched, Concerns, Applied
<1>10. CASE \E s \in Sessions : Lock(s)
  <2> PICK s \in Sessions : Lock(s)
    BY <1>10
  <2> QED
    BY UpdateFacts DEF Lock, ClientsTold, LockHeld, SessionsOK, LayerOK, Active,
       Untouched, Concerns, Applied
<1>11. CASE \E s \in Sessions : Validate(s)
  <2> PICK s \in Sessions : Validate(s)
    BY <1>11
  <2> QED
    BY UpdateFacts DEF Validate, ClientsTold, LockHeld, SessionsOK, LayerOK, Active,
       Untouched, Concerns, Applied
<1>12. CASE \E s \in Sessions : HandlerCalled(s)
  <2> PICK s \in Sessions : HandlerCalled(s)
    BY <1>12
  <2> QED
    BY UpdateFacts DEF HandlerCalled, ClientsTold, LockHeld, SessionsOK, LayerOK, Active,
       Untouched, Concerns, Applied
<1>13. CASE \E s \in Sessions : DecideDirect(s)
  <2> PICK s \in Sessions : DecideDirect(s)
    BY <1>13
  <2> QED
    BY UpdateFacts DEF DecideDirect, ClientsTold, LockHeld, SessionsOK, LayerOK, Active,
       Untouched, Concerns, Applied
<1>14. CASE \E s \in Sessions : Receive(s)
  <2> PICK s \in Sessions : Receive(s)
    BY <1>14
  <2> QED
    BY UpdateFacts DEF Receive, ClientsTold, LockHeld, SessionsOK, LayerOK, Active,
       Untouched, Concerns, Applied
<1>15. CASE \E s \in Sessions : Disconnected(s)
  <2> PICK s \in Sessions : Disconnected(s)
    BY <1>15
  <2> QED
    BY UpdateFacts DEF Disconnected, ClientsTold, LockHeld, SessionsOK, LayerOK, Active,
       Untouched, Concerns, Applied
<1>16. CASE \E s \in Sessions : TimesOut(s)
  <2> PICK s \in Sessions : TimesOut(s)
    BY <1>16
  <2> QED
    BY UpdateFacts DEF TimesOut, ClientsTold, LockHeld, SessionsOK, LayerOK, Active,
       Untouched, Concerns, Applied
<1>17. CASE \E s \in Sessions : Failed(s)
  <2> PICK s \in Sessions : Failed(s)
    BY <1>17
  <2> QED
    BY UpdateFacts DEF Failed, ClientsTold, LockHeld, SessionsOK, LayerOK, Active,
       Untouched, Concerns, Applied
<1>18. CASE \E n \in 0..Len(pending) : DiscardTasks(n)
  <2> PICK n \in 0..Len(pending) : DiscardTasks(n)
    BY <1>18
  <2> QED
    BY UpdateFacts DEF DiscardTasks, Queue!Discard, ClientsTold, LockHeld, SessionsOK,
       LayerOK, Active, Untouched, Concerns, Applied
<1>19. CASE UNCHANGED vars
  BY <1>19, UpdateFacts DEF vars, ClientsTold, LockHeld, SessionsOK, LayerOK, Active,
     Untouched, Concerns, Applied
<1> QED
  BY <1>1, <1>2, <1>3, <1>4, <1>5, <1>6, <1>7, <1>8, <1>9, <1>10, <1>11, <1>12, <1>13,
     <1>14, <1>15, <1>16, <1>17, <1>18, <1>19
     DEF Next, Session

(* A parameter that will be restored still will be while the queue rests.  *)
LEMMA RestoredStill ==
  ASSUME NEW p, WillBeRestored(p), UNCHANGED <<pending, current, component, values>>
  PROVE  WillBeRestored(p)'
  BY DEF WillBeRestored, Untouched, Restores, Concerns, Answer, Accepted

(* The same for all of them.                                               *)
LEMMA UndoneStill ==
  ASSUME IInv, UNCHANGED <<pending, current, component, values>>, disturbed => disturbed',
         \A p \in Params : ~disturbed' /\ UnderWay(p) => UnderWay(p)'
  PROVE  Undone'
  BY RestoredStill DEF IInv, Undone

(* An update is under way in the session that holds the lock. *)
LEMMA UnderWayIn ==
  ASSUME IInv, NEW s \in Sessions, pc[s] \notin {"idle", "lock"}, NEW p, UnderWay(p)
  PROVE  /\ lifecycle # "stopped" /\ p \in DOMAIN request[s]
         /\ \/ stage[s] = "update" /\ pc[s] \in {"receive", "failed", "succeeded"}
            \/ /\ stage[s] = "rollback"
               /\ pc[s] \in {"handler", "enqueue", "direct?", "direct"}
<1>1. PICK t \in Sessions :
        /\ p \in DOMAIN request[t]
        /\ \/ stage[t] = "update" /\ pc[t] \in {"receive", "failed", "succeeded"}
           \/ /\ stage[t] = "rollback"
              /\ pc[t] \in {"handler", "enqueue", "direct?", "direct"}
  BY DEF UnderWay
<1>2. t = s
  BY <1>1, OneSession DEF IInv
<1> QED
  BY <1>1, <1>2 DEF UnderWay

(* What was begun is undone. *)
LEMMA UndoneKept ==
  ASSUME IInv, [Next]_vars
  PROVE  Undone'
<1> USE DEF IInv, Goto, session, layer
<1>1. CASE \E s \in Sessions : \E u \in Updates : Request(s, u)
  <2> PICK s \in Sessions, u \in Updates : Request(s, u)
    BY <1>1
  <2>1. /\ UNCHANGED <<pending, current, component, values, disturbed, lifecycle, stage>>
        /\ pc[s] = "idle"
        /\ \A t \in Sessions : t # s => pc'[t] = pc[t] /\ request'[t] = request[t]
    BY DEF Request, SessionsOK
  <2>2. \A p \in Params : UnderWay(p) => UnderWay(p)'
    BY <2>1 DEF UnderWay
  <2> QED
    BY <2>1, <2>2, UndoneStill
<1>2. CASE \E s \in Sessions : Lock(s)
  <2> PICK s \in Sessions : Lock(s)
    BY <1>2
  <2>1. /\ UNCHANGED <<pending, current, component, values, disturbed, lifecycle, stage,
                       request>>
        /\ pc[s] = "lock" /\ \A t \in Sessions : t # s => pc'[t] = pc[t]
    BY DEF Lock, SessionsOK
  <2>2. \A p \in Params : UnderWay(p) => UnderWay(p)'
    BY <2>1 DEF UnderWay
  <2> QED
    BY <2>1, <2>2, UndoneStill
<1>3. CASE \E s \in Sessions : Validate(s)
  <2> PICK s \in Sessions : Validate(s)
    BY <1>3
  <2>1. /\ UNCHANGED <<pending, current, component, values, disturbed>>
        /\ pc[s] = "validate"
    BY DEF Validate
  <2>2. \A p \in Params : ~UnderWay(p)
    BY <2>1, UnderWayIn
  <2> QED
    BY <2>1, <2>2, UndoneStill
<1>4. CASE \E s \in Sessions : HandlerCalled(s)
  <2> PICK s \in Sessions : HandlerCalled(s)
    BY <1>4
  <2>1. /\ UNCHANGED <<pending, current, component, values, disturbed, lifecycle, request>>
        /\ pc[s] \notin {"idle", "lock"}
    BY DEF HandlerCalled
  <2>2. ASSUME NEW p \in Params, ~disturbed', UnderWay(p) PROVE UnderWay(p)'
    <3>1. /\ lifecycle # "stopped" /\ p \in DOMAIN request[s]
          /\ \/ stage[s] = "update" /\ pc[s] \in {"receive", "failed", "succeeded"}
             \/ /\ stage[s] = "rollback"
                /\ pc[s] \in {"handler", "enqueue", "direct?", "direct"}
      BY <2>1, <2>2, UnderWayIn
    <3>2. \/ stage'[s] = "update" /\ pc'[s] \in {"receive", "failed", "succeeded"}
          \/ /\ stage'[s] = "rollback"
             /\ pc'[s] \in {"handler", "enqueue", "direct?", "direct"}
      BY <3>1 DEF HandlerCalled, SessionsOK
    <3> QED
      BY <2>1, <3>1, <3>2 DEF UnderWay
  <2> QED
    BY <2>1, <2>2, UndoneStill
<1>5. CASE \E s \in Sessions : Enqueue(s)
  <2> PICK s \in Sessions : Enqueue(s)
    BY <1>5
  <2> SUFFICES ASSUME ~disturbed', NEW p \in Params
               PROVE  WillBeRestored(p)' \/ UnderWay(p)'
    BY DEF Undone
  <2>1. /\ ~disturbed /\ pc[s] = "enqueue" /\ Active(s)
        /\ UNCHANGED <<component, values, lifecycle, request, stage>>
    BY DEF Enqueue, Active
  <2>2. lifecycle = "running"
    BY <2>1 DEF LayerAgrees
  <2>3. PICK c \in QueuedCalls :
          /\ c.items = Items(s)
          /\ Len(pending) \in Nat /\ Len(pending') = Len(pending) + 1
          /\ pending'[Len(pending) + 1] = c
          /\ \A k \in 1..Len(pending) : pending'[k] = pending[k]
          /\ \A k \in 1..Len(pending') : k \in 1..Len(pending) \/ k = Len(pending) + 1
          /\ UNCHANGED current
    BY <2>2, Accepting
  <2>4. pc'[s] = "receive"
    BY <2>2 DEF Enqueue, SessionsOK
  <2>5. DOMAIN c.items = DOMAIN request[s]
    BY <2>1, <2>3, ItemsDomain
  <2>6. CASE p \in DOMAIN request[s] /\ stage[s] = "update"
    BY <2>1, <2>2, <2>4, <2>6 DEF UnderWay
  <2>7. CASE p \in DOMAIN request[s] /\ stage[s] = "rollback"
    <3>1. Answer(c.items) = "configured" /\ c.items[p] = values[p]
      BY <2>1, <2>3, <2>7, RollbackAccepted
    <3>2. Restores(c, p)'
      BY <2>1, <2>5, <2>7, <3>1 DEF Restores, Concerns, Answer, Accepted
    <3>3. Len(pending) + 1 \in 1..Len(pending')
      BY <2>3
    <3>4. \A j \in 1..Len(pending') : ~(Len(pending) + 1 < j)
      BY <2>3
    <3> QED
      BY <2>3, <3>2, <3>3, <3>4 DEF WillBeRestored, Restores, Concerns, Answer, Accepted
  <2>8. CASE p \notin DOMAIN request[s]
    <3>1. WillBeRestored(p) /\ ~Concerns(c, p)
      BY <2>1, <2>5, <2>8, UnderWayIn DEF Undone, Concerns
    <3>2. 1..Len(pending) \subseteq 1..Len(pending')
      BY <2>3
    <3> QED
      BY <2>1, <2>3, <3>1, <3>2
         DEF WillBeRestored, Restores, Concerns, Answer, Accepted, Untouched
  <2> QED
    BY <2>6, <2>7, <2>8 DEF SessionsOK
<1>6. CASE \E s \in Sessions : DecideDirect(s)
  <2> PICK s \in Sessions : DecideDirect(s)
    BY <1>6
  <2>1. /\ UNCHANGED <<pending, current, component, values, disturbed, lifecycle, request>>
        /\ pc[s] \notin {"idle", "lock"}
    BY DEF DecideDirect
  <2>2. ASSUME NEW p \in Params, ~disturbed', UnderWay(p) PROVE UnderWay(p)'
    <3>1. /\ lifecycle # "stopped" /\ p \in DOMAIN request[s]
          /\ \/ stage[s] = "update" /\ pc[s] \in {"receive", "failed", "succeeded"}
             \/ /\ stage[s] = "rollback"
                /\ pc[s] \in {"handler", "enqueue", "direct?", "direct"}
      BY <2>1, <2>2, UnderWayIn
    <3>2. \/ stage'[s] = "update" /\ pc'[s] \in {"receive", "failed", "succeeded"}
          \/ /\ stage'[s] = "rollback"
             /\ pc'[s] \in {"handler", "enqueue", "direct?", "direct"}
      BY <2>1, <2>2, <3>1 DEF DecideDirect, SessionsOK, LayerAgrees, LayerOK
    <3> QED
      BY <2>1, <3>1, <3>2 DEF UnderWay
  <2> QED
    BY <2>1, <2>2, UndoneStill
<1>7. CASE \E s \in Sessions : DirectCall(s)
  <2> PICK s \in Sessions : DirectCall(s)
    BY <1>7
  <2> SUFFICES ASSUME ~disturbed', NEW p \in Params
               PROVE  WillBeRestored(p)' \/ UnderWay(p)'
    BY DEF Undone
  <2>1. /\ ~disturbed /\ pc[s] = "direct" /\ Active(s) /\ Configure(Items(s))
        /\ UNCHANGED <<values, lifecycle, request, stage, pending, current>>
        /\ pc'[s] \in {"succeeded", "failed"}
    BY DEF DirectCall, Active, SessionsOK
  <2>2. lifecycle = "created" /\ NothingQueued
    BY <2>1 DEF LayerAgrees
  <2>3. Untouched(p) /\ Untouched(p)'
    BY <2>1, <2>2 DEF NothingQueued, Untouched
  <2>4. CASE p \in DOMAIN request[s] /\ stage[s] = "update"
    BY <2>1, <2>2, <2>4 DEF UnderWay
  <2>5. CASE p \in DOMAIN request[s] /\ stage[s] = "rollback"
    <3>1. component'[p] = values[p]
      BY <2>1, <2>5, RollbackAccepted, ItemsFacts, Configured
    <3> QED
      BY <2>1, <2>3, <3>1 DEF WillBeRestored
  <2>6. CASE p \notin DOMAIN request[s]
    <3>1. component'[p] = component[p]
      BY <2>1, <2>6, ItemsDomain, ItemsFacts, Configured
    <3>2. WillBeRestored(p)
      BY <2>1, <2>6, UnderWayIn DEF Undone
    <3>3. component[p] = values[p]
      BY <2>2, <3>2 DEF WillBeRestored, NothingQueued
    <3> QED
      BY <2>1, <2>3, <3>1, <3>3 DEF WillBeRestored
  <2> QED
    BY <2>4, <2>5, <2>6 DEF SessionsOK
<1>8. CASE \E s \in Sessions : Receive(s)
  <2> PICK s \in Sessions : Receive(s)
    BY <1>8
  <2>1. /\ UNCHANGED <<pending, current, component, values, disturbed, lifecycle, request>>
        /\ pc[s] \notin {"idle", "lock"}
    BY DEF Receive
  <2>2. ASSUME NEW p \in Params, ~disturbed', UnderWay(p) PROVE UnderWay(p)'
    <3>1. /\ lifecycle # "stopped" /\ p \in DOMAIN request[s]
          /\ \/ stage[s] = "update" /\ pc[s] \in {"receive", "failed", "succeeded"}
             \/ /\ stage[s] = "rollback"
                /\ pc[s] \in {"handler", "enqueue", "direct?", "direct"}
      BY <2>1, <2>2, UnderWayIn
    <3>2. \/ stage'[s] = "update" /\ pc'[s] \in {"receive", "failed", "succeeded"}
          \/ /\ stage'[s] = "rollback"
             /\ pc'[s] \in {"handler", "enqueue", "direct?", "direct"}
      BY <3>1 DEF Receive, SessionsOK
    <3> QED
      BY <2>1, <3>1, <3>2 DEF UnderWay
  <2> QED
    BY <2>1, <2>2, UndoneStill
<1>9. CASE \E s \in Sessions : Disconnected(s)
  <2> PICK s \in Sessions : Disconnected(s)
    BY <1>9
  <2>1. /\ UNCHANGED <<pending, current, component, values, disturbed, lifecycle, request>>
        /\ pc[s] \notin {"idle", "lock"}
    BY DEF Disconnected
  <2>2. ASSUME NEW p \in Params, ~disturbed', UnderWay(p) PROVE UnderWay(p)'
    <3>1. /\ lifecycle # "stopped" /\ p \in DOMAIN request[s]
          /\ \/ stage[s] = "update" /\ pc[s] \in {"receive", "failed", "succeeded"}
             \/ /\ stage[s] = "rollback"
                /\ pc[s] \in {"handler", "enqueue", "direct?", "direct"}
      BY <2>1, <2>2, UnderWayIn
    <3>2. \/ stage'[s] = "update" /\ pc'[s] \in {"receive", "failed", "succeeded"}
          \/ /\ stage'[s] = "rollback"
             /\ pc'[s] \in {"handler", "enqueue", "direct?", "direct"}
      BY <3>1 DEF Disconnected, SessionsOK
    <3> QED
      BY <2>1, <3>1, <3>2 DEF UnderWay
  <2> QED
    BY <2>1, <2>2, UndoneStill
<1>10. CASE \E s \in Sessions : TimesOut(s)
  <2> PICK s \in Sessions : TimesOut(s)
    BY <1>10
  <2>1. /\ UNCHANGED <<pending, current, component, values, disturbed, lifecycle, request>>
        /\ pc[s] \notin {"idle", "lock"}
    BY DEF TimesOut
  <2>2. ASSUME NEW p \in Params, ~disturbed', UnderWay(p) PROVE UnderWay(p)'
    <3>1. /\ lifecycle # "stopped" /\ p \in DOMAIN request[s]
          /\ \/ stage[s] = "update" /\ pc[s] \in {"receive", "failed", "succeeded"}
             \/ /\ stage[s] = "rollback"
                /\ pc[s] \in {"handler", "enqueue", "direct?", "direct"}
      BY <2>1, <2>2, UnderWayIn
    <3>2. \/ stage'[s] = "update" /\ pc'[s] \in {"receive", "failed", "succeeded"}
          \/ /\ stage'[s] = "rollback"
             /\ pc'[s] \in {"handler", "enqueue", "direct?", "direct"}
      BY <3>1 DEF TimesOut, SessionsOK
    <3> QED
      BY <2>1, <3>1, <3>2 DEF UnderWay
  <2> QED
    BY <2>1, <2>2, UndoneStill
<1>11. CASE \E s \in Sessions : Failed(s)
  <2> PICK s \in Sessions : Failed(s)
    BY <1>11
  <2>1. /\ UNCHANGED <<pending, current, component, values, disturbed, lifecycle, request>>
        /\ pc[s] \notin {"idle", "lock"}
    BY DEF Failed
  <2>2. ASSUME NEW p \in Params, ~disturbed', UnderWay(p) PROVE UnderWay(p)'
    <3>1. /\ lifecycle # "stopped" /\ p \in DOMAIN request[s]
          /\ \/ stage[s] = "update" /\ pc[s] \in {"receive", "failed", "succeeded"}
             \/ /\ stage[s] = "rollback"
                /\ pc[s] \in {"handler", "enqueue", "direct?", "direct"}
      BY <2>1, <2>2, UnderWayIn
    <3>2. \/ stage'[s] = "update" /\ pc'[s] \in {"receive", "failed", "succeeded"}
          \/ /\ stage'[s] = "rollback"
             /\ pc'[s] \in {"handler", "enqueue", "direct?", "direct"}
      BY <3>1 DEF Failed, SessionsOK
    <3> QED
      BY <2>1, <3>1, <3>2 DEF UnderWay
  <2> QED
    BY <2>1, <2>2, UndoneStill
<1>12. CASE \E s \in Sessions : Succeeded(s)
  <2> PICK s \in Sessions : Succeeded(s)
    BY <1>12
  <2> SUFFICES ASSUME ~disturbed', NEW p \in Params
               PROVE  WillBeRestored(p)'
    BY DEF Undone
  <2>1. /\ NothingQueued /\ UNCHANGED <<pending, current, component>>
        /\ \A q \in DOMAIN request[s] : component[q] = values'[q]
        /\ \A q \in Params \ DOMAIN request[s] : values'[q] = values[q]
    BY SuccessFacts
  <2>2. ~disturbed /\ pc[s] = "succeeded"
    BY DEF Succeeded
  <2>3. Untouched(p)'
    BY <2>1 DEF NothingQueued, Untouched
  <2>4. p \notin DOMAIN request[s] => component[p] = values[p]
    <3>1. p \notin DOMAIN request[s] => WillBeRestored(p)
      BY <2>2, UnderWayIn DEF Undone
    <3> QED
      BY <2>1, <3>1 DEF WillBeRestored, NothingQueued
  <2> QED
    BY <2>1, <2>3, <2>4 DEF WillBeRestored
<1>13. CASE TaskBegins
  <2>1. /\ Len(pending) \in Nat \ {0} /\ Len(pending') = Len(pending) - 1
        /\ current = {} /\ current' = {pending[1]}
        /\ \A k \in 1..Len(pending') :
             k + 1 \in 1..Len(pending) /\ pending'[k] = pending[k + 1]
        /\ \A k \in 1..Len(pending) :
             k = 1 \/ (k - 1 \in 1..Len(pending') /\ pending'[k - 1] = pending[k])
    BY <1>13, Beginning
  <2>2. UNCHANGED <<pc, stage, request, lifecycle, values, component, disturbed>>
    BY <1>13 DEF TaskBegins
  <2>3. \A p \in Params : UnderWay(p) => UnderWay(p)'
    BY <2>2 DEF UnderWay
  <2>4. 1 \in 1..Len(pending) /\ \A k \in 1..Len(pending') : k \in Nat /\ 1 < k + 1
    BY <2>1
  <2>5. ASSUME NEW p \in Params, WillBeRestored(p) PROVE WillBeRestored(p)'
    <3>1. \A c : Restores(c, p)' <=> Restores(c, p)
      BY <2>2 DEF Restores, Concerns, Answer, Accepted
    <3>2. CASE Untouched(p) /\ component[p] = values[p]
      <4>1. Untouched(p)'
        BY <2>1, <2>4, <3>2 DEF Untouched
      <4> QED
        BY <2>2, <3>2, <4>1 DEF WillBeRestored
    <3>3. ASSUME NEW k \in 1..Len(pending), Restores(pending[k], p),
                 \A j \in 1..Len(pending) : k < j => ~Concerns(pending[j], p)
          PROVE  WillBeRestored(p)'
      <4>1. CASE k = 1
        <5>1. \A j \in 1..Len(pending') : ~Concerns(pending'[j], p)
          BY <2>1, <2>4, <3>3, <4>1
        <5> QED
          BY <2>1, <3>1, <3>3, <4>1, <5>1 DEF WillBeRestored, Concerns
      <4>2. CASE k # 1
        <5>1. k - 1 \in 1..Len(pending') /\ pending'[k - 1] = pending[k]
          BY <2>1, <4>2
        <5>2. \A j \in 1..Len(pending') : k - 1 < j => k < j + 1
          OBVIOUS
        <5>3. \A j \in 1..Len(pending') : k - 1 < j => ~Concerns(pending'[j], p)
          BY <2>1, <3>3, <5>2
        <5>4. Restores(pending'[k - 1], p)
          BY <3>3, <5>1
        <5> QED
          BY <3>1, <5>1, <5>3, <5>4 DEF WillBeRestored, Concerns
      <4> QED
        BY <4>1, <4>2
    <3> QED
      BY <2>1, <2>5, <3>2, <3>3 DEF WillBeRestored
  <2> QED
    BY <2>2, <2>3, <2>5 DEF Undone
<1>14. CASE TaskEnds
  <2> PICK c \in QueuedCalls : Executing(c)
    BY <1>14, Executed
  <2>1. current = {c} /\ current' = {} /\ c.items \in Updates /\ Configure(c.items)
    BY DEF Executing
  <2>2. UNCHANGED <<pc, stage, request, lifecycle, values, pending, disturbed>>
    BY <1>14 DEF TaskEnds, Queue!End
  <2>3. \A p \in Params : UnderWay(p) => UnderWay(p)'
    BY <2>2 DEF UnderWay
  <2>4. /\ \A p \in Params \ DOMAIN c.items : component'[p] = component[p]
        /\ Answer(c.items) = "configured" =>
             \A p \in DOMAIN c.items : component'[p] = c.items[p]
    BY <2>1, Configured
  <2>5. ASSUME NEW p \in Params, WillBeRestored(p) PROVE WillBeRestored(p)'
    <3>1. \A d : Restores(d, p)' <=> Restores(d, p)
      BY <2>2 DEF Restores, Concerns, Answer, Accepted
    <3>2. CASE Untouched(p) /\ component[p] = values[p]
      <4>1. Untouched(p)' /\ component'[p] = values'[p]
        BY <2>1, <2>2, <2>4, <3>2 DEF Untouched, Concerns
      <4> QED
        BY <4>1 DEF WillBeRestored
    <3>3. CASE \E k \in 1..Len(pending) :
                 /\ Restores(pending[k], p)
                 /\ \A j \in 1..Len(pending) : k < j => ~Concerns(pending[j], p)
      BY <2>2, <3>1, <3>3 DEF WillBeRestored, Concerns
    <3>4. CASE (\A k \in 1..Len(pending) : ~Concerns(pending[k], p)) /\ Restores(c, p)
      <4>1. Untouched(p)'
        BY <2>1, <2>2, <3>4 DEF Untouched, Concerns
      <4>2. component'[p] = values'[p]
        BY <2>2, <2>4, <3>4 DEF Restores, Concerns
      <4> QED
        BY <4>1, <4>2 DEF WillBeRestored
    <3> QED
      BY <2>1, <2>5, <3>2, <3>3, <3>4 DEF WillBeRestored
  <2> QED
    BY <2>2, <2>3, <2>5 DEF Undone
<1>15. CASE \E n \in 0..Len(pending) : DiscardTasks(n)
  <2> PICK n \in 0..Len(pending) : DiscardTasks(n)
    BY <1>15
  <2>1. UNCHANGED <<pc, stage, request, lifecycle, values, component, disturbed>>
    BY DEF DiscardTasks
  <2>2. \A p \in Params : UnderWay(p) => UnderWay(p)'
    BY <2>1 DEF UnderWay
  <2>3. /\ phase = "closing" /\ current = {} /\ UNCHANGED current
        /\ pending = <<>> => pending' = <<>>
    BY Discarding
  <2>4. ~disturbed => NothingQueued
    BY <2>3 DEF LayerAgrees
  <2>5. ~disturbed => UNCHANGED <<pending, current, component, values>>
    BY <2>1, <2>3, <2>4 DEF NothingQueued
  <2>6. CASE ~disturbed
    BY <2>1, <2>2, <2>5, <2>6, UndoneStill
  <2>7. CASE disturbed
    BY <2>1, <2>7 DEF Undone
  <2> QED
    BY <2>6, <2>7
<1>16. CASE StartLayer \/ StopLayer
  <2>1. /\ UNCHANGED <<pending, current, component, values, pc>>
        /\ disturbed' = (disturbed \/ ~Quiescent)
    BY <1>16 DEF StartLayer, StopLayer, Queue!Open, Queue!Closing
  <2>2. ~disturbed' => \A p \in Params : ~UnderWay(p)
    BY <2>1 DEF Quiescent, UnderWay
  <2> QED
    BY <2>1, <2>2, UndoneStill
<1>17. CASE LayerStopped \/ UNCHANGED vars
  <2>1. UNCHANGED <<pending, current, component, values, pc, stage, request, lifecycle,
                    disturbed>>
    BY <1>17 DEF LayerStopped, vars, Queue!Close
  <2>2. \A p \in Params : UnderWay(p) => UnderWay(p)'
    BY <2>1 DEF UnderWay
  <2> QED
    BY <2>1, <2>2, UndoneStill
<1> QED
  BY <1>1, <1>2, <1>3, <1>4, <1>5, <1>6, <1>7, <1>8, <1>9, <1>10, <1>11, <1>12, <1>13,
     <1>14, <1>15, <1>16, <1>17
     DEF Next, Session

-----------------------------------------------------------------------------
(***************************************************************************)
(* The theorems.                                                           *)
(***************************************************************************)
(* The first state satisfies the inductive invariant.                      *)
LEMMA InitIInv == Init => IInv
<1> SUFFICES ASSUME Init PROVE IInv
  OBVIOUS
<1> USE DEF Init, Queue!Init
<1>1. ConfigurationsOK
  BY ConfigurationAssumption DEF ConfigurationsOK
<1>2. SessionsOK
  BY NoUpdate DEF SessionsOK, Labels
<1>3. pending \in Seq(QueuedCalls) /\ Len(pending) = 0
  BY EmptySeq
<1>4. LayerOK
  BY <1>3 DEF LayerOK
<1>5. \A s \in Sessions : pc[s] = "idle"
  OBVIOUS
<1>6. LockHeld
  BY <1>5, ConfigurationAssumption DEF LockHeld
<1>7. CanRestore
  BY <1>5, ConfigurationAssumption DEF CanRestore, Active
<1>8. LayerAgrees
  BY <1>5 DEF LayerAgrees, NothingQueued
<1>9. CallIsLast
  BY <1>3, <1>5 DEF CallIsLast, CallNumbers, SessionAgrees
<1>10. ClientsTold /\ Undone
  BY <1>3 DEF ClientsTold, Undone, WillBeRestored, Untouched
<1> QED
  BY <1>1, <1>2, <1>4, <1>6, <1>7, <1>8, <1>9, <1>10 DEF IInv

(* Every step keeps it.                                                    *)
LEMMA NextIInv == IInv /\ [Next]_vars => IInv'
  BY ConfigurationsKept, SessionsKept, LayerKept, LockKept, RestoreKept, LayerAgreesKept,
     CallKept, ToldKept, UndoneKept
     DEF IInv

(* The inductive invariant holds in every state, for any sessions, updates *)
(* and component.                                                          *)
THEOREM Invariance == Spec => []IInv
  BY InitIInv, NextIInv, PTL DEF Spec

(* At most one session is between taking the update lock and returning.    *)
THEOREM UpdatesAreExclusive ==
  Spec => [](\A s, t \in Sessions :
               pc[s] \notin {"idle", "lock"} /\ pc[t] \notin {"idle", "lock"} => s = t)
<1>1. IInv => \A s, t \in Sessions :
                pc[s] \notin {"idle", "lock"} /\ pc[t] \notin {"idle", "lock"} => s = t
  BY OneSession DEF IInv
<1> QED
  BY <1>1, Invariance, PTL

(* What the control port reports is what the component does: at success,   *)
(* at rest, and after every late call and its undoing, however calls run   *)
(* out of time, are rejected half way or are discarded by a stop.          *)
THEOREM RegistryStaysTrue == Spec => []RegistryIsTrue
<1>1. ASSUME IInv PROVE RegistryIsTrue
  <2> USE <1>1 DEF IInv
  <2>1. NoSilentDivergence
    BY DEF NoSilentDivergence, ClientsTold, Quiescent, Active
  <2>2. LateUpdatesAreUndone
    <3> SUFFICES ASSUME Quiescent, ~disturbed PROVE values = component
      BY DEF LateUpdatesAreUndone
    <3>1. \A p \in Params : WillBeRestored(p)
      BY DEF Undone, UnderWay, Quiescent
    <3>2. Len(pending) = 0 /\ current = {}
      BY EmptySeq DEF Quiescent
    <3>3. \A p \in Params : component[p] = values[p]
      BY <3>1, <3>2 DEF WillBeRestored
    <3> QED
      BY <3>3 DEF ConfigurationsOK
  <2>3. SuccessMeansApplied
    BY DEF SuccessMeansApplied, CallIsLast, SessionAgrees, Applied
  <2> QED
    BY <2>1, <2>2, <2>3 DEF RegistryIsTrue
<1> QED
  BY <1>1, Invariance, PTL
=============================================================================
