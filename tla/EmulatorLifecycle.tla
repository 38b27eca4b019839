------------------------- MODULE EmulatorLifecycle -------------------------
(***************************************************************************)
(* The life of an emulator process, from the construction of the first     *)
(* layer to the release of the last: the main thread builds the layers,    *)
(* opens the network services, starts the layers, waits for the signal to  *)
(* end, and takes everything down again; any step of building, opening and *)
(* starting may fail.  Meanwhile the OTA worker, the event worker, the     *)
(* timer thread and the control-port sessions call into the layers: they   *)
(* look a layer up, copy its invocation (function table, component and     *)
(* queue) and use the copy after all locks are released.                   *)
(*                                                                         *)
(* A queue is reduced to a call waiting, a call executing and the worker   *)
(* that takes it from one to the other; NemQueuedLayer has the details.    *)
(***************************************************************************)
EXTENDS Integers, FiniteSets

CONSTANTS N    \* number of layers of the NEM; the last one is its PHY

ASSUME LifecycleAssumption == N \in Nat \ {0}

VARIABLES
    pc,          \* where the main thread is
    at,          \* the layer it is working on
    built,       \* layers constructed
    lifecycle,   \* each layer's queue: "created", "running" or "stopped"
    worker,      \* layers whose queue has a worker thread
    waiting,     \* layers with a call in their queue
    executing,   \* layers whose worker is inside the component
    started,     \* layers whose component was started
    destroyed,   \* layers whose component was destroyed
    released,    \* the layers' memory and libraries have been released
    routed,      \* layers in Runtime::invocations
    users,       \* layers known to the OTA manager, the event service and
                 \* the configuration registry
    timers,      \* layers with a timed event scheduled
    open,        \* the services that are running
    thread,      \* where each thread outside the layers is
    target,      \* the layer it is concerned with
    begun,       \* history: layers whose component started
    ended        \* history: layers whose component was stopped again

main == <<pc, at>>
layers == <<built, lifecycle, worker, waiting, executing, started, destroyed,
            released>>
tables == <<routed, users, timers, open>>
history == <<begun, ended>>
vars == <<main, layers, tables, thread, target, history>>

Layers == 1..N
Phy == N

Services == {"session", "event", "ota"}
Threads == Services \cup {"timer"}

(* The threads NetworkServices joins; the timer thread and the sessions    *)
(* are never joined.                                                       *)
Joined == {"event", "ota"}

Init ==
    /\ pc = "adding"
    /\ at = 1
    /\ built = {}
    /\ lifecycle = [i \in Layers |-> "created"]
    /\ worker = {}
    /\ waiting = {}
    /\ executing = {}
    /\ started = {}
    /\ destroyed = {}
    /\ released = FALSE
    /\ routed = {}
    /\ users = [s \in Services |-> {}]
    /\ timers = {}
    /\ open = {}
    /\ thread = [t \in Threads |-> IF t = "timer" THEN "idle" ELSE "off"]
    /\ target = [t \in Threads |-> 1]
    /\ begun = {}
    /\ ended = {}

(***************************************************************************)
(* Building the layers and opening the services.                           *)
(***************************************************************************)
AddLayer ==
    /\ pc = "adding"
    /\ built' = built \cup {at}
    /\ routed' = routed \cup {at}
    /\ users' = [s \in Services |-> IF s = "ota" /\ at # Phy THEN users[s]
                                    ELSE users[s] \cup {at}]
    /\ IF at < N THEN at' = at + 1 /\ UNCHANGED pc
       ELSE at' = 1 /\ pc' = "open session"
    /\ UNCHANGED <<lifecycle, worker, waiting, executing, started, destroyed,
                   released, timers, open, thread, target, history>>

(* The layer under construction has been taken back; the manager is        *)
(* dropped with the layers before it.                                      *)
AddLayerFails ==
    /\ pc = "adding"
    /\ pc' = "clear"
    /\ UNCHANGED <<at, layers, tables, thread, target, history>>

OpenStep == [session |-> "open session", event |-> "open event", ota |-> "open ota"]

AfterOpen == [session |-> "open event", event |-> "open ota", ota |-> "start"]

OpenService(s) ==
    /\ pc = OpenStep[s]
    /\ open' = open \cup {s}
    /\ thread' = [thread EXCEPT ![s] = "idle"]
    /\ pc' = AfterOpen[s]
    /\ UNCHANGED <<at, layers, routed, users, timers, target, history>>

OpenServiceFails(s) ==
    /\ pc = OpenStep[s]
    /\ pc' = "close"
    /\ UNCHANGED <<at, layers, tables, thread, target, history>>

(***************************************************************************)
(* NemManager::start.  The queue of a layer runs before its component is   *)
(* started.                                                                *)
(***************************************************************************)
StartQueue ==
    /\ pc = "start"
    /\ lifecycle' = [lifecycle EXCEPT ![at] = "running"]
    /\ worker' = worker \cup {at}
    /\ pc' = "start component"
    /\ UNCHANGED <<at, built, waiting, executing, started, destroyed, released,
                   tables, thread, target, history>>

StartComponent ==
    /\ pc = "start component"
    /\ started' = started \cup {at}
    /\ begun' = begun \cup {at}
    /\ IF at < N THEN at' = at + 1 /\ pc' = "start"
       ELSE at' = 1 /\ pc' = "post start"
    /\ UNCHANGED <<built, lifecycle, worker, waiting, executing, destroyed,
                   released, tables, thread, target, ended>>

(* The queue of this layer is stopped at once; the layers before it are    *)
(* stopped by the call of stop that follows.                               *)
StartComponentFails ==
    /\ pc = "start component"
    /\ lifecycle' = [lifecycle EXCEPT ![at] = "stopped"]
    /\ pc' = "join failed"
    /\ UNCHANGED <<at, built, worker, waiting, executing, started, destroyed,
                   released, tables, thread, target, history>>

(* The worker has returned; what was waiting is dropped. *)
JoinWorker == /\ at \notin executing
              /\ worker' = worker \ {at}
              /\ waiting' = waiting \ {at}

(* Slip: the queue of the layer that failed is forgotten. *)
JoinFailedForgotten ==
    /\ pc = "join failed"
    /\ at' = 1
    /\ pc' = "stop"
    /\ UNCHANGED <<layers, tables, thread, target, history>>

JoinFailed ==
    /\ pc = "join failed"
    /\ JoinWorker
    /\ at' = 1
    /\ pc' = "stop"
    /\ UNCHANGED <<built, lifecycle, executing, started, destroyed, released,
                   tables, thread, target, history>>

(* post_start runs on the main thread, beside the workers. *)
PostStart ==
    /\ pc = "post start"
    /\ pc' = "running"
    /\ UNCHANGED <<at, layers, tables, thread, target, history>>

Shutdown ==
    /\ pc = "running"
    /\ pc' = "stop"
    /\ UNCHANGED <<at, layers, tables, thread, target, history>>

(***************************************************************************)
(* NemManager::stop, layer by layer.                                       *)
(***************************************************************************)
NextToStop == IF at < N THEN at' = at + 1 /\ pc' = "stop"
              ELSE at' = 1 /\ pc' = "close"

StopComponent ==
    /\ pc = "stop"
    /\ at \in started
    /\ ended' = ended \cup {at}
    /\ pc' = "stop queue"
    /\ UNCHANGED <<at, layers, tables, thread, target, begun>>

(* Slip: stop ends at the first layer that was not started, and takes the  *)
(* rest for not started either.                                            *)
SkipLayerAndRest ==
    /\ pc = "stop"
    /\ at \notin started \/ at > 1
    /\ at' = 1 /\ pc' = "close"
    /\ UNCHANGED <<layers, tables, thread, target, history>>

SkipLayer ==
    /\ pc = "stop"
    /\ at \notin started
    /\ lifecycle[at] # "running"
    /\ NextToStop
    /\ UNCHANGED <<layers, tables, thread, target, history>>

StopQueue ==
    /\ pc = "stop queue"
    /\ lifecycle' = [lifecycle EXCEPT ![at] = "stopped"]
    /\ pc' = "join queue"
    /\ UNCHANGED <<at, built, worker, waiting, executing, started, destroyed,
                   released, tables, thread, target, history>>

JoinQueue ==
    /\ pc = "join queue"
    /\ JoinWorker
    /\ started' = started \ {at}
    /\ NextToStop
    /\ UNCHANGED <<built, lifecycle, executing, destroyed, released, tables,
                   thread, target, history>>

(***************************************************************************)
(* The services are dropped before the manager.                            *)
(***************************************************************************)
(* Slip: the workers are told nothing and would have to be joined as they  *)
(* are.                                                                    *)
CloseServicesSilently ==
    /\ pc = "close"
    /\ pc' = "join services"
    /\ UNCHANGED <<at, layers, tables, thread, target, history>>

CloseServices ==
    /\ pc = "close"
    /\ open' = open \ Joined
    /\ pc' = "join services"
    /\ UNCHANGED <<at, layers, routed, users, timers, thread, target, history>>

(* Slip: the workers are not joined. *)
DetachServices ==
    /\ pc = "join services"
    /\ pc' = "close session"
    /\ UNCHANGED <<at, layers, tables, thread, target, history>>

JoinServices ==
    /\ pc = "join services"
    /\ \A t \in Joined : thread[t] = "off"
    /\ pc' = "close session"
    /\ UNCHANGED <<at, layers, tables, thread, target, history>>

(* The control port joins the thread that accepts sessions, not theirs. *)
CloseControlPort ==
    /\ pc = "close session"
    /\ open' = open \ {"session"}
    /\ pc' = "clear"
    /\ UNCHANGED <<at, layers, routed, users, timers, thread, target, history>>

(***************************************************************************)
(* Dropping the manager, and with it the layers.                           *)
(***************************************************************************)
ClearInvocations ==
    /\ pc = "clear"
    /\ routed' = {}
    /\ pc' = "unregister"
    /\ UNCHANGED <<at, layers, users, timers, open, thread, target, history>>

Unregister ==
    /\ pc = "unregister"
    /\ users' = [s \in Services |-> {}]
    /\ pc' = "destroy"
    /\ UNCHANGED <<at, layers, routed, timers, open, thread, target, history>>

Destroy(i) ==
    /\ pc = "destroy"
    /\ i \in built \ destroyed
    /\ \A j \in built \ destroyed : i <= j
    /\ destroyed' = destroyed \cup {i}
    /\ UNCHANGED <<main, built, lifecycle, worker, waiting, executing, started,
                   released, tables, thread, target, history>>

Release ==
    /\ pc = "destroy"
    /\ built \subseteq destroyed
    /\ released' = TRUE
    /\ pc' = "exit"
    /\ UNCHANGED <<at, built, lifecycle, worker, waiting, executing, started,
                   destroyed, tables, thread, target, history>>

(* The process is gone, and every thread with it. *)
Exit ==
    /\ pc = "exit"
    /\ pc' = "gone"
    /\ UNCHANGED <<at, layers, tables, thread, target, history>>

Gone == pc = "gone" /\ UNCHANGED vars

-----------------------------------------------------------------------------
(***************************************************************************)
(* A layer's worker.                                                       *)
(***************************************************************************)
Execute(i) ==
    /\ pc # "gone"
    /\ i \in worker \cap waiting
    /\ i \notin executing
    /\ waiting' = waiting \ {i}
    /\ executing' = executing \cup {i}
    /\ UNCHANGED <<main, built, lifecycle, worker, started, destroyed, released,
                   tables, thread, target, history>>

(* The component schedules a timed event. *)
ScheduleTimedEvent(i) ==
    /\ pc # "gone"
    /\ i \in executing
    /\ timers' = timers \cup {i}
    /\ UNCHANGED <<main, layers, routed, users, open, thread, target, history>>

(* The component passes something on to the next layer up or down. *)
RouteToNeighbour(i, j) ==
    /\ pc # "gone"
    /\ i \in executing
    /\ j \in {i - 1, i + 1} \cap routed
    /\ waiting' = IF lifecycle[j] = "running" THEN waiting \cup {j} ELSE waiting
    /\ UNCHANGED <<main, built, lifecycle, worker, executing, started, destroyed,
                   released, tables, thread, target, history>>

CallReturns(i) ==
    /\ pc # "gone"
    /\ i \in executing
    /\ executing' = executing \ {i}
    /\ UNCHANGED <<main, built, lifecycle, worker, waiting, started, destroyed,
                   released, tables, thread, target, history>>

(***************************************************************************)
(* The threads outside the layers.                                         *)
(***************************************************************************)
Move(t, place) == thread' = [thread EXCEPT ![t] = place]

(* A packet or an event arrived: the users are copied out of the table and *)
(* called with the address of their framework context.                     *)
Arrives(t, i) ==
    /\ pc # "gone"
    /\ t \in Joined \cap open
    /\ thread[t] = "idle"
    /\ i \in users[t]
    /\ target' = [target EXCEPT ![t] = i]
    /\ Move(t, "context")
    /\ UNCHANGED <<main, layers, tables, history>>

(* ota_packet, framework_event: through the context to the runtime, and    *)
(* from there to a copy of the invocation.                                 *)
LookUp(t) ==
    /\ pc # "gone"
    /\ thread[t] = "context"
    /\ Move(t, IF target[t] \in routed THEN "holding" ELSE "idle")
    /\ UNCHANGED <<main, layers, tables, target, history>>

(* timer_dispatch has a reference to the runtime of its own. *)
TimerFires(i) ==
    /\ pc # "gone"
    /\ thread["timer"] = "idle"
    /\ i \in timers
    /\ timers' = timers \ {i}
    /\ target' = [target EXCEPT !["timer"] = i]
    /\ Move("timer", IF i \in routed THEN "holding" ELSE "idle")
    /\ UNCHANGED <<main, layers, routed, users, open, history>>

(* A session takes the update handler, which holds an invocation. *)
UpdateRequested(i) ==
    /\ pc # "gone"
    /\ "session" \in open
    /\ thread["session"] = "idle"
    /\ i \in users["session"]
    /\ target' = [target EXCEPT !["session"] = i]
    /\ Move("session", "holding")
    /\ UNCHANGED <<main, layers, tables, history>>

(* Invocation::process and its kind: enqueue, call directly, or drop.  A   *)
(* session waits for the answer and may use the handler again.             *)
Submit(t) ==
    /\ pc # "gone"
    /\ thread[t] = "holding"
    /\ waiting' = IF lifecycle[target[t]] = "running" THEN waiting \cup {target[t]}
                  ELSE waiting
    /\ \/ lifecycle[target[t]] = "created" /\ Move(t, "inside")
       \/ lifecycle[target[t]] # "created" /\ Move(t, "idle")
       \/ t = "session" /\ lifecycle[target[t]] = "running" /\ UNCHANGED thread
    /\ UNCHANGED <<main, built, lifecycle, worker, executing, started, destroyed,
                   released, tables, target, history>>

DirectReturns(t) ==
    /\ pc # "gone"
    /\ thread[t] = "inside"
    /\ Move(t, "idle")
    /\ UNCHANGED <<main, layers, tables, target, history>>

(* The loop of a service ends when it finds the service closed. *)
ThreadEnds(t) ==
    /\ pc # "gone"
    /\ t \in Services \ open
    /\ thread[t] = "idle"
    /\ Move(t, "off")
    /\ UNCHANGED <<main, layers, tables, target, history>>

-----------------------------------------------------------------------------
Main ==
    \/ AddLayer \/ AddLayerFails
    \/ \E s \in Services : OpenService(s) \/ OpenServiceFails(s)
    \/ StartQueue \/ StartComponent \/ StartComponentFails \/ JoinFailed
    \/ PostStart
    \/ StopComponent \/ SkipLayer \/ StopQueue \/ JoinQueue
    \/ CloseServices \/ JoinServices \/ CloseControlPort
    \/ ClearInvocations \/ Unregister \/ (\E i \in Layers : Destroy(i))
    \/ Release \/ Exit

Worker(i) == Execute(i) \/ CallReturns(i)

Thread(t) == LookUp(t) \/ Submit(t) \/ DirectReturns(t) \/ ThreadEnds(t)

Next ==
    \/ Main
    \/ Shutdown
    \/ \E i \in Layers : Worker(i)
    \/ \E i \in Layers : ScheduleTimedEvent(i)
    \/ \E i, j \in Layers : RouteToNeighbour(i, j)
    \/ \E t \in Joined, i \in Layers : Arrives(t, i)
    \/ \E i \in Layers : TimerFires(i)
    \/ \E i \in Layers : UpdateRequested(i)
    \/ \E t \in Threads : Thread(t)
    \/ Gone

Spec == Init /\ [][Next]_vars

(* The main thread, the workers and the threads of the services keep       *)
(* running, and the calls they make into components return.                *)
FairSpec ==
    /\ Spec
    /\ WF_vars(Main)
    /\ \A i \in Layers : WF_vars(CallReturns(i))
    /\ \A t \in Joined : WF_vars(Thread(t))
-----------------------------------------------------------------------------
(***************************************************************************)
(* Properties.                                                             *)
(***************************************************************************)
(* The state is well formed. *)
TypeOK ==
    /\ at \in Layers
    /\ built \subseteq Layers /\ waiting \subseteq Layers
    /\ started \subseteq Layers /\ begun \subseteq Layers /\ ended \subseteq Layers
    /\ routed \subseteq Layers /\ timers \subseteq Layers
    /\ released \in BOOLEAN
    /\ lifecycle \in [Layers -> {"created", "running", "stopped"}]
    /\ users \in [Services -> SUBSET Layers]
    /\ open \subseteq Services
    /\ thread \in [Threads -> {"off", "idle", "context", "holding", "inside"}]
    /\ target \in [Threads -> Layers]
    /\ executing \subseteq worker
    /\ worker \subseteq built
    /\ destroyed \subseteq built

(* The layers outlive the workers of the services: a packet or an event    *)
(* that is being delivered never finds its layer destroyed or its memory   *)
(* released, whatever failed and however the process ends.                 *)
ServicesEndFirst ==
    \A t \in Joined :
      thread[t] \in {"context", "holding", "inside"} =>
        ~released /\ target[t] \notin destroyed

(* A component is destroyed only when nothing of its queue is left: no     *)
(* worker that could call it, and not while it counts as started.          *)
DestroyedIsQuiet ==
    \A i \in destroyed : i \notin worker \cup executing \cup started

(* The places the main thread reaches only after stop, or without start. *)
Stopped == {"close", "join services", "close session", "clear", "unregister",
            "destroy", "exit", "gone"}

(* Start and stop are paired: once stop is over, exactly the components    *)
(* that were started have been stopped, also when a later one failed to    *)
(* start.                                                                  *)
StartedIsStopped ==
    pc \in Stopped => begun = ended /\ worker = {}

(* Shutting down always comes to its end: nobody the main thread joins can *)
(* keep it waiting for ever.                                               *)
ShutdownCompletes ==
    pc \in {"stop", "close", "join failed", "clear"} ~> pc = "gone"

(* "The library must outlive every function pointer and plugin instance":  *)
(* no thread holds a layer's invocation once the layers are released.      *)
LibraryOutlivesPointers ==
    released /\ pc # "gone" =>
      \A t \in Threads : thread[t] \notin {"holding", "inside"}
=============================================================================
