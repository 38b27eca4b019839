------------------------ MODULE RuntimeConfiguration ------------------------
(***************************************************************************)
(* Changing the configuration of a running component through the control   *)
(* port.  A session validates the update against the registry, has the     *)
(* component configured on the component's own queue, waits for the answer *)
(* with a time limit, and then either records the new values or has the    *)
(* old ones restored the same way.  A call that ran out of time is still   *)
(* in the queue, the queue may be stopped and started at any moment, and a *)
(* component that rejects an update may have applied part of it.           *)
(*                                                                         *)
(* The queue is used through its contract, SerialExecutor, which           *)
(* NemQueuedLayer is shown to implement.                                   *)
(***************************************************************************)
EXTENDS Integers, Sequences, FiniteSets

CONSTANTS Sessions,    \* control-port sessions
          Params,      \* the component's parameters
          Modifiable,  \* the parameters that can be changed at run time
          Values,      \* their values
          Acceptable,  \* the pairs <<p, v>> the component accepts
          Initial,     \* the configuration the component was built with
          MaxUpdates,  \* bound on the updates requested
          None         \* no session

ASSUME ConfigurationAssumption ==
    /\ Modifiable \subseteq Params
    /\ Initial \in [Params -> Values]
    /\ \A p \in Params : <<p, Initial[p]>> \in Acceptable
    /\ None \notin Sessions

VARIABLES
    values,      \* the registry's values
    update_lock, \* the session that holds the component's update lock
    pc,          \* where each session is
    stage,       \* whether the session applies the update or the rollback
    request,     \* each session's updates
    rollback,    \* each session's copy of the values to restore
    calls,       \* how often each session called the handler
    reply,       \* what the channel of each session's present call holds
    requested,   \* number of updates requested
    component,   \* the configuration the component works with
    lifecycle,   \* the queue's lifecycle
    pending, current, phase,   \* the queue, see SerialExecutor
    disturbed,   \* history: the queue was started or stopped with updates in it
    suspect      \* history: parameters a client was told may not be restored

session == <<update_lock, pc, stage, request, rollback, calls, requested>>
layer == <<lifecycle, pending, current, phase>>
vars == <<values, session, reply, component, layer, disturbed, suspect>>

(* Updates: some parameters, each with a value. *)
Updates == UNION {[names -> Values] : names \in SUBSET Params}

(* A configuration with some of its values replaced. *)
Overlaid(items, old) == [p \in DOMAIN old |-> IF p \in DOMAIN items THEN items[p] ELSE old[p]]

(* A call of the handler; its number tells its channel from the others. *)
Calls == [session : Sessions, number : 1..(2 * MaxUpdates), items : Updates]

Queue == INSTANCE SerialExecutor

Init ==
    /\ values = Initial
    /\ component = Initial
    /\ update_lock = None
    /\ pc = [s \in Sessions |-> "idle"]
    /\ stage = [s \in Sessions |-> "update"]
    /\ request = [s \in Sessions |-> <<>>]
    /\ rollback = [s \in Sessions |-> <<>>]
    /\ calls = [s \in Sessions |-> 0]
    /\ reply = [s \in Sessions |-> "none"]
    /\ requested = 0
    /\ lifecycle = "created"
    /\ Queue!Init
    /\ disturbed = FALSE
    /\ suspect = {}

(***************************************************************************)
(* The component: items are applied one after the other up to one that is  *)
(* not acceptable.                                                         *)
(***************************************************************************)
Accepted(items) == {p \in DOMAIN items : <<p, items[p]>> \in Acceptable}

Configure(items) ==
    \E applied \in SUBSET Accepted(items) :
      /\ Accepted(items) = DOMAIN items => applied = DOMAIN items
      /\ component' = Overlaid([p \in applied |-> items[p]], component)

Answer(items) == IF Accepted(items) = DOMAIN items THEN "configured" ELSE "rejected"

(***************************************************************************)
(* A session inside native_configuration::update.                          *)
(***************************************************************************)
Goto(s, label) == pc' = [pc EXCEPT ![s] = label]

Request(s, updates) ==
    /\ pc[s] = "idle"
    /\ requested < MaxUpdates
    /\ requested' = requested + 1
    /\ request' = [request EXCEPT ![s] = updates]
    /\ Goto(s, "lock")
    /\ UNCHANGED <<values, update_lock, stage, rollback, calls, reply, component,
                   layer, disturbed, suspect>>

Lock(s) ==
    /\ pc[s] = "lock"
    /\ update_lock = None
    /\ update_lock' = s
    /\ Goto(s, "validate")
    /\ UNCHANGED <<values, stage, request, rollback, calls, reply, requested,
                   component, layer, disturbed, suspect>>

(* Under the registry's lock: an update of a parameter that cannot be      *)
(* modified is refused; otherwise the present values are put aside.        *)
Validate(s) ==
    /\ pc[s] = "validate"
    /\ \/ /\ DOMAIN request[s] \subseteq Modifiable
          /\ rollback' = [rollback EXCEPT ![s] = [p \in DOMAIN request[s] |-> values[p]]]
          /\ stage' = [stage EXCEPT ![s] = "update"]
          /\ Goto(s, "handler")
          /\ UNCHANGED update_lock
       \/ /\ ~(DOMAIN request[s] \subseteq Modifiable)
          /\ update_lock' = None
          /\ Goto(s, "idle")
          /\ UNCHANGED <<rollback, stage>>
    /\ UNCHANGED <<values, request, calls, reply, requested, component, layer,
                   disturbed, suspect>>

(***************************************************************************)
(* The handler registered by add_layer_configured, called with the updates *)
(* and, after a failure, with the rollback.  The lifecycle is read several *)
(* times, and may change in between.                                       *)
(***************************************************************************)
Items(s) == IF stage[s] = "update" THEN request[s] ELSE rollback[s]

HandlerCalled(s) ==
    /\ pc[s] = "handler"
    /\ calls' = [calls EXCEPT ![s] = @ + 1]
    /\ reply' = [reply EXCEPT ![s] = "none"]
    /\ Goto(s, IF lifecycle = "running" THEN "enqueue" ELSE "direct?")
    /\ UNCHANGED <<values, update_lock, stage, request, rollback, requested,
                   component, layer, disturbed, suspect>>

Enqueue(s) ==
    /\ pc[s] = "enqueue"
    /\ \/ /\ lifecycle = "running"
          /\ Queue!Accept([session |-> s, number |-> calls[s], items |-> Items(s)])
          /\ Goto(s, "receive")
       \/ /\ lifecycle # "running"
          /\ Goto(s, "failed")
          /\ UNCHANGED <<pending, current, phase>>
    /\ UNCHANGED <<values, update_lock, stage, request, rollback, calls, reply,
                   requested, component, lifecycle, disturbed, suspect>>

DecideDirect(s) ==
    /\ pc[s] = "direct?"
    /\ Goto(s, IF lifecycle = "created" THEN "direct" ELSE "failed")
    /\ UNCHANGED <<values, update_lock, stage, request, rollback, calls, reply,
                   requested, component, layer, disturbed, suspect>>

DirectCall(s) ==
    /\ pc[s] = "direct"
    /\ Configure(Items(s))
    /\ Goto(s, IF Answer(Items(s)) = "configured" THEN "succeeded" ELSE "failed")
    /\ UNCHANGED <<values, update_lock, stage, request, rollback, calls, reply,
                   requested, layer, disturbed, suspect>>

Receive(s) ==
    /\ pc[s] = "receive"
    /\ reply[s] # "none"
    /\ Goto(s, IF reply[s] = "configured" THEN "succeeded" ELSE "failed")
    /\ UNCHANGED <<values, update_lock, stage, request, rollback, calls, reply,
                   requested, component, layer, disturbed, suspect>>

(* The call was discarded with its end of the channel. *)
IsWaiting(s, c) == c.session = s /\ c.number = calls[s]

Disconnected(s) ==
    /\ pc[s] = "receive"
    /\ reply[s] = "none"
    /\ ~\E k \in DOMAIN pending : IsWaiting(s, pending[k])
    /\ ~\E c \in current : IsWaiting(s, c)
    /\ Goto(s, "failed")
    /\ UNCHANGED <<values, update_lock, stage, request, rollback, calls, reply,
                   requested, component, layer, disturbed, suspect>>

(* Slip: the session waits as long as it takes. *)
NeverTimesOut(s) == FALSE /\ UNCHANGED vars

(* Five seconds have passed; the call stays in the queue. *)
TimesOut(s) ==
    /\ pc[s] = "receive"
    /\ reply[s] = "none"
    /\ Goto(s, "failed")
    /\ UNCHANGED <<values, update_lock, stage, request, rollback, calls, reply,
                   requested, component, layer, disturbed, suspect>>

(* Slip: an update that failed is reported without restoring anything. *)
FailedWithoutRollback(s) ==
    /\ pc[s] = "failed"
    /\ update_lock' = None
    /\ Goto(s, "idle")
    /\ UNCHANGED <<values, stage, request, rollback, calls, reply, requested,
                   component, layer, disturbed, suspect>>

(* A failed update calls the handler again to restore the values; when     *)
(* that fails too the client is told so.                                   *)
Failed(s) ==
    /\ pc[s] = "failed"
    /\ \/ /\ stage[s] = "update"
          /\ stage' = [stage EXCEPT ![s] = "rollback"]
          /\ Goto(s, "handler")
          /\ UNCHANGED <<update_lock, suspect>>
       \/ /\ stage[s] = "rollback"
          /\ update_lock' = None
          /\ suspect' = suspect \cup DOMAIN request[s]
          /\ Goto(s, "idle")
          /\ UNCHANGED stage
    /\ UNCHANGED <<values, request, rollback, calls, reply, requested, component,
                   layer, disturbed>>

(* The registry follows the component only after an update that succeeded. *)
Succeeded(s) ==
    /\ pc[s] = "succeeded"
    /\ \/ /\ stage[s] = "update"
          /\ values' = Overlaid(request[s], values)
          /\ suspect' = suspect \ DOMAIN request[s]
       \/ /\ stage[s] = "rollback"
          /\ UNCHANGED <<values, suspect>>
    /\ update_lock' = None
    /\ Goto(s, "idle")
    /\ UNCHANGED <<stage, request, rollback, calls, reply, requested, component,
                   layer, disturbed>>

(***************************************************************************)
(* The queue.                                                              *)
(***************************************************************************)
TaskBegins ==
    /\ Queue!Begin
    /\ UNCHANGED <<values, session, reply, component, lifecycle, disturbed, suspect>>

(* The answer goes into the channel of this very call; nobody reads it if  *)
(* the session has given up.                                               *)
TaskEnds ==
    /\ Queue!End
    /\ \E c \in current :
         /\ Configure(c.items)
         /\ reply' = [reply EXCEPT ![c.session] =
                        IF IsWaiting(c.session, c) THEN Answer(c.items) ELSE @]
    /\ UNCHANGED <<values, session, lifecycle, disturbed, suspect>>

(* No update is being made and none is left in the queue. *)
Quiescent == /\ \A s \in Sessions : pc[s] = "idle"
             /\ pending = <<>> /\ current = {}

StartLayer ==
    /\ Queue!Open
    /\ lifecycle' = "running"
    /\ disturbed' = (disturbed \/ ~Quiescent)
    /\ UNCHANGED <<values, session, reply, component, suspect>>

StopLayer ==
    /\ lifecycle = "running"
    /\ Queue!Closing
    /\ lifecycle' = "stopped"
    /\ disturbed' = (disturbed \/ ~Quiescent)
    /\ UNCHANGED <<values, session, reply, component, suspect>>

DiscardTasks(n) ==
    /\ Queue!Discard(n)
    /\ UNCHANGED <<values, session, reply, component, lifecycle, disturbed, suspect>>

LayerStopped ==
    /\ Queue!Close
    /\ UNCHANGED <<values, session, reply, component, lifecycle, disturbed, suspect>>

-----------------------------------------------------------------------------
Session(s) ==
    \/ Lock(s)
    \/ Validate(s)
    \/ HandlerCalled(s)
    \/ Enqueue(s)
    \/ DecideDirect(s)
    \/ DirectCall(s)
    \/ Receive(s)
    \/ Disconnected(s)
    \/ TimesOut(s)
    \/ Failed(s)
    \/ Succeeded(s)

Next ==
    \/ \E s \in Sessions : \E u \in Updates : Request(s, u)
    \/ \E s \in Sessions : Session(s)
    \/ TaskBegins
    \/ TaskEnds
    \/ StartLayer
    \/ StopLayer
    \/ \E n \in 0..Len(pending) : DiscardTasks(n)
    \/ LayerStopped

Spec == Init /\ [][Next]_vars

(* A session's thread keeps running; nothing is assumed of the queue. *)
FairSpec == Spec /\ \A s \in Sessions : WF_vars(Session(s))
-----------------------------------------------------------------------------
(***************************************************************************)
(* Properties.                                                             *)
(***************************************************************************)
(* The state is well formed, and the lock is held by exactly the session   *)
(* that is between taking it and returning.                                *)
TypeOK ==
    /\ values \in [Params -> Values]
    /\ component \in [Params -> Values]
    /\ pc \in [Sessions -> {"idle", "lock", "validate", "handler", "enqueue",
                            "direct?", "direct", "receive", "failed",
                            "succeeded"}]
    /\ stage \in [Sessions -> {"update", "rollback"}]
    /\ request \in [Sessions -> Updates]
    /\ rollback \in [Sessions -> Updates]
    /\ calls \in [Sessions -> 0..(2 * MaxUpdates)]
    /\ reply \in [Sessions -> {"none", "configured", "rejected"}]
    /\ requested \in 0..MaxUpdates
    /\ lifecycle \in {"created", "running", "stopped"}
    /\ pending \in Seq(Calls)
    /\ current \subseteq Calls
    /\ phase \in {"open", "closing", "closed"}
    /\ suspect \subseteq Modifiable
    /\ \A s \in Sessions : update_lock = s <=> pc[s] \notin {"idle", "lock"}

(* The registry and the component never part silently: once everything has *)
(* come to rest, a parameter the control port reports differently from     *)
(* what the component uses is one a client was told could not be restored. *)
NoSilentDivergence ==
    Quiescent => \A p \in Params \ suspect : values[p] = component[p]

(* Unless the queue is started or stopped with updates under way, the two  *)
(* agree completely, also when updates or their rollbacks ran out of time: *)
(* a late call is followed in the queue by the call that undoes it.        *)
LateUpdatesAreUndone ==
    Quiescent /\ ~disturbed => values = component

(* When an update is recorded as successful the component has it: the      *)
(* answer came from this update and not from a call that had run out of    *)
(* time before.                                                            *)
SuccessMeansApplied ==
    \A s \in Sessions :
      pc[s] = "succeeded" =>
        \A p \in DOMAIN Items(s) : component[p] = Items(s)[p]

(* What the control port says is what the component does: at success, at   *)
(* rest, and after every late call and its undoing.                        *)
RegistryIsTrue == NoSilentDivergence /\ LateUpdatesAreUndone /\ SuccessMeansApplied

(* Every request is answered, whatever becomes of the queue. *)
RequestReturns == \A s \in Sessions : pc[s] = "lock" ~> pc[s] = "idle"
=============================================================================
