---------------------- MODULE EmulatorLifecycleProofs ----------------------
(***************************************************************************)
(* Proofs about the life of an emulator process, for any number of layers. *)
(***************************************************************************)
EXTENDS EmulatorLifecycle, TLAPS

Opening == {"open session", "open event", "open ota"}
Starting == {"start", "start component", "join failed"}
Stopping == {"stop", "stop queue", "join queue"}
Places == {"adding", "post start", "running"} \cup Opening \cup Starting
            \cup Stopping \cup Stopped

(* Layers are built in order, and all of them before anything is opened. *)
BuiltSoFar ==
    /\ pc = "adding" => built = 1..(at - 1)
    /\ pc \notin Stopped \cup {"adding"} => built = Layers

(* How far starting and stopping have come. *)
StartedSoFar ==
    /\ pc \in Opening \cup {"post start", "running"} => at = 1
    /\ pc \in Opening \cup Stopped \cup {"adding"} => started = {}
    /\ pc \in Starting => started = 1..(at - 1)
    /\ pc \in Stopping => \A i \in started : at <= i
    /\ pc \in {"stop queue", "join queue"} => at \in started /\ at \in ended

(* A queue has a worker when its component is started, or being started. *)
WorkersSoFar ==
    worker = started \cup (IF pc \in {"start component", "join failed"}
                           THEN {at} ELSE {})

(* Whatever was started is still started or has been stopped. *)
Paired == begun = ended \cup started

(* Destruction begins after the services have ended. *)
DestroyedLate ==
    /\ destroyed # {} => pc \in {"destroy", "exit", "gone"}
    /\ released => pc \in {"exit", "gone"}

ServicesOff ==
    pc \in {"adding", "close session", "clear", "unregister", "destroy", "exit",
            "gone"}
      => thread["event"] = "off" /\ thread["ota"] = "off"

(* The inductive invariant. *)
IInv == /\ TypeOK
        /\ pc \in Places
        /\ BuiltSoFar
        /\ StartedSoFar
        /\ WorkersSoFar
        /\ Paired
        /\ DestroyedLate
        /\ ServicesOff
(* The part of it that concerns the main thread alone. *)
MainInv == /\ pc \in Places
           /\ BuiltSoFar
           /\ StartedSoFar
           /\ WorkersSoFar
           /\ Paired
           /\ DestroyedLate

(* The first state satisfies it. *)
LEMMA InitIInv == Init => IInv
<1> SUFFICES ASSUME Init PROVE IInv
  OBVIOUS
<1> USE LifecycleAssumption DEF Init, Layers, Services, Threads, Places, Opening,
        Starting, Stopping, Stopped
<1>1. TypeOK
  <2>1. at \in Layers /\ lifecycle \in [Layers -> {"created", "running", "stopped"}]
    OBVIOUS
  <2>2. thread \in [Threads -> {"off", "idle", "context", "holding", "inside"}]
    OBVIOUS
  <2>3. target \in [Threads -> Layers] /\ users \in [Services -> SUBSET Layers]
    OBVIOUS
  <2> QED
    BY <2>1, <2>2, <2>3 DEF TypeOK
<1>2. MainInv
  BY DEF MainInv, BuiltSoFar, StartedSoFar, WorkersSoFar, Paired, DestroyedLate
<1>3. ServicesOff
  BY DEF ServicesOff
<1> QED
  BY <1>1, <1>2, <1>3 DEF IInv, MainInv

(* A step that leaves the main thread and the layers' progress alone keeps *)
(* what is said of them.                                                   *)
LEMMA Unmoved ==
  ASSUME MainInv, UNCHANGED <<main, built, worker, started, destroyed, released,
                              history>>
  PROVE  MainInv'
BY DEF MainInv, main, history, BuiltSoFar, StartedSoFar, WorkersSoFar, Paired,
       DestroyedLate, Places, Opening, Starting, Stopping, Stopped

(* Going from one layer to the next. *)
LEMMA NextLayer ==
  ASSUME NEW a \in Layers
  PROVE  /\ 1 \in Layers
         /\ 1..(a - 1) \cup {a} = 1..a
         /\ a < N => a + 1 \in Layers /\ (a + 1) - 1 = a
         /\ ~(a < N) => a = N
BY LifecycleAssumption DEF Layers

(* What is left above a layer. *)
LEMMA LayersAbove ==
  ASSUME NEW a \in Layers, NEW S \in SUBSET Layers, \A i \in S : a <= i
  PROVE  /\ a < N => \A i \in S \ {a} : a + 1 <= i
         /\ ~(a < N) => S \ {a} = {}
<1>1. \A i \in S \ {a} : i \in Int /\ a < i /\ i <= N
  BY LifecycleAssumption DEF Layers
<1> QED
  BY <1>1, LifecycleAssumption DEF Layers

(* The steps of the main thread. *)
LEMMA MainIInv == IInv /\ (Main \/ Shutdown) => IInv'
<1> SUFFICES ASSUME IInv, Main \/ Shutdown PROVE IInv'
  OBVIOUS
<1>0. TypeOK /\ MainInv /\ ServicesOff
  BY DEF IInv, MainInv
<1> SUFFICES TypeOK' /\ MainInv' /\ ServicesOff'
  BY DEF IInv, MainInv
<1>a. N \in Nat /\ at \in Nat /\ 1 <= at /\ at <= N
  BY <1>0, LifecycleAssumption DEF TypeOK, Layers
<1>b. /\ 1 \in Layers
      /\ 1..(at - 1) \cup {at} = 1..at
      /\ at < N => at + 1 \in Layers /\ (at + 1) - 1 = at
      /\ ~(at < N) => at = N
  BY <1>0, NextLayer DEF TypeOK
<1> USE LifecycleAssumption, <1>0
<1>c. pc \in Stopping => /\ at < N => \A i \in started \ {at} : at + 1 <= i
                         /\ ~(at < N) => started \ {at} = {}
  <2> SUFFICES ASSUME pc \in Stopping
               PROVE  /\ at < N => \A i \in started \ {at} : at + 1 <= i
                      /\ ~(at < N) => started \ {at} = {}
    OBVIOUS
  <2>1. at \in Layers /\ started \in SUBSET Layers
    BY DEF TypeOK
  <2>2. \A i \in started : at <= i
    BY DEF MainInv, StartedSoFar
  <2> QED
    BY <2>1, <2>2, LayersAbove
<1> USE DEF Layers, Services, Threads, main, layers, tables, history
<1>1. CASE AddLayer
  <2>0. /\ pc = "adding" /\ built' = built \cup {at}
        /\ at < N => at' = at + 1 /\ pc' = "adding"
        /\ ~(at < N) => at' = 1 /\ pc' = "open session"
    BY <1>1 DEF AddLayer
  <2>1. TypeOK'
    <3>1. at' \in Layers
      BY <1>b, <2>0
    <3> USE <1>1 DEF AddLayer, TypeOK
    <3>2. lifecycle' \in [Layers -> {"created", "running", "stopped"}]
      OBVIOUS
    <3>3. users' \in [Services -> SUBSET Layers]
      OBVIOUS
    <3>4. built' \subseteq Layers /\ waiting' \subseteq Layers /\ started' \subseteq Layers
      OBVIOUS
    <3>5. worker' \subseteq built'
      BY DEF MainInv, BuiltSoFar, Stopped
    <3>6. executing' \subseteq worker'
      OBVIOUS
    <3> QED
      BY <3>1, <3>2, <3>3, <3>4, <3>5, <3>6
  <2>2. MainInv'
    <3>0. pc' \in Places /\ BuiltSoFar'
      <4>1. built = 1..(at - 1)
        BY <2>0 DEF MainInv, BuiltSoFar
      <4>2. built' = 1..at
        BY <4>1, <2>0, <1>b
      <4>3. at < N => at' - 1 = at
        BY <2>0, <1>b
      <4>4. ~(at < N) => at = N
        BY <1>a
      <4> QED
        BY <4>2, <4>3, <4>4, <2>0 DEF BuiltSoFar, Places, Opening, Stopped
    <3> USE <1>1 DEF AddLayer, TypeOK, MainInv, Places, Opening, Starting, Stopping, Stopped
    <3>2. StartedSoFar'
      BY DEF StartedSoFar
    <3>3. WorkersSoFar' /\ Paired' /\ DestroyedLate'
      BY DEF StartedSoFar, WorkersSoFar, Paired, DestroyedLate
    <3> QED
      BY <3>0, <3>2, <3>3
  <2>3. ServicesOff'
    BY <1>1 DEF AddLayer, TypeOK, ServicesOff
  <2> QED
    BY <2>1, <2>2, <2>3
<1>2. CASE AddLayerFails
  <2>1. TypeOK'
    BY <1>2 DEF AddLayerFails, TypeOK
  <2>2. MainInv'
    <3> USE <1>2 DEF AddLayerFails, TypeOK, MainInv, Places, Opening, Starting, Stopping, Stopped
    <3>1. pc' \in Places /\ BuiltSoFar'
      BY DEF BuiltSoFar
    <3>2. StartedSoFar'
      BY DEF StartedSoFar
    <3>3. WorkersSoFar' /\ Paired' /\ DestroyedLate'
      BY DEF StartedSoFar, WorkersSoFar, Paired, DestroyedLate
    <3> QED
      BY <3>1, <3>2, <3>3
  <2>3. ServicesOff'
    BY <1>2 DEF AddLayerFails, TypeOK, ServicesOff
  <2> QED
    BY <2>1, <2>2, <2>3
<1>3. CASE StartQueue
  <2>1. TypeOK'
    <3> USE <1>3 DEF StartQueue, TypeOK
    <3>1. at' \in Layers
      OBVIOUS
    <3>2. lifecycle' \in [Layers -> {"created", "running", "stopped"}]
      OBVIOUS
    <3>3. users' \in [Services -> SUBSET Layers]
      OBVIOUS
    <3>4. built' \subseteq Layers /\ waiting' \subseteq Layers /\ started' \subseteq Layers
      OBVIOUS
    <3>5. worker' \subseteq built'
      BY DEF MainInv, BuiltSoFar, Stopped
    <3>6. executing' \subseteq worker'
      OBVIOUS
    <3> QED
      BY <3>1, <3>2, <3>3, <3>4, <3>5, <3>6
  <2>2. MainInv'
    <3> USE <1>3 DEF StartQueue, TypeOK, MainInv, Places, Opening, Starting, Stopping, Stopped
    <3>1. pc' \in Places /\ BuiltSoFar'
      BY DEF BuiltSoFar
    <3>2. StartedSoFar'
      BY DEF StartedSoFar
    <3>3. WorkersSoFar' /\ Paired' /\ DestroyedLate'
      BY DEF StartedSoFar, WorkersSoFar, Paired, DestroyedLate
    <3> QED
      BY <3>1, <3>2, <3>3
  <2>3. ServicesOff'
    BY <1>3 DEF StartQueue, TypeOK, ServicesOff
  <2> QED
    BY <2>1, <2>2, <2>3
<1>4. CASE StartComponent
  <2>0. /\ pc = "start component" /\ started' = started \cup {at}
        /\ at < N => at' = at + 1 /\ pc' = "start"
        /\ ~(at < N) => at' = 1 /\ pc' = "post start"
    BY <1>4 DEF StartComponent
  <2>1. TypeOK'
    <3>1. at' \in Layers
      BY <1>b, <2>0
    <3> USE <1>4 DEF StartComponent, TypeOK
    <3>2. lifecycle' \in [Layers -> {"created", "running", "stopped"}]
      OBVIOUS
    <3>3. users' \in [Services -> SUBSET Layers]
      OBVIOUS
    <3>4. built' \subseteq Layers /\ waiting' \subseteq Layers /\ started' \subseteq Layers
      OBVIOUS
    <3>5. worker' \subseteq built'
      BY DEF MainInv, BuiltSoFar, Stopped
    <3>6. executing' \subseteq worker'
      OBVIOUS
    <3> QED
      BY <3>1, <3>2, <3>3, <3>4, <3>5, <3>6
  <2>2. MainInv'
    <3>0. StartedSoFar'
      <4>1. started = 1..(at - 1)
        BY <2>0 DEF MainInv, StartedSoFar, Starting
      <4>2. started' = 1..at
        BY <4>1, <2>0, <1>b
      <4>3. at < N => at' - 1 = at
        BY <2>0, <1>b
      <4> QED
        BY <4>2, <4>3, <2>0 DEF StartedSoFar, Opening, Starting, Stopping, Stopped
    <3> USE <1>4 DEF StartComponent, TypeOK, MainInv, Places, Opening, Starting, Stopping, Stopped
    <3>1. pc' \in Places /\ BuiltSoFar'
      BY DEF BuiltSoFar
    <3>3. WorkersSoFar' /\ Paired' /\ DestroyedLate'
      BY DEF StartedSoFar, WorkersSoFar, Paired, DestroyedLate
    <3> QED
      BY <3>1, <3>0, <3>3
  <2>3. ServicesOff'
    BY <1>4 DEF StartComponent, TypeOK, ServicesOff
  <2> QED
    BY <2>1, <2>2, <2>3
<1>5. CASE StartComponentFails
  <2>1. TypeOK'
    BY <1>5 DEF StartComponentFails, TypeOK
  <2>2. MainInv'
    <3> USE <1>5 DEF StartComponentFails, TypeOK, MainInv, Places, Opening, Starting, Stopping, Stopped
    <3>1. pc' \in Places /\ BuiltSoFar'
      BY DEF BuiltSoFar
    <3>2. StartedSoFar'
      BY DEF StartedSoFar
    <3>3. WorkersSoFar' /\ Paired' /\ DestroyedLate'
      BY DEF StartedSoFar, WorkersSoFar, Paired, DestroyedLate
    <3> QED
      BY <3>1, <3>2, <3>3
  <2>3. ServicesOff'
    BY <1>5 DEF StartComponentFails, TypeOK, ServicesOff
  <2> QED
    BY <2>1, <2>2, <2>3
<1>6. CASE JoinFailed
  <2>0. /\ pc = "join failed" /\ pc' = "stop" /\ at' = 1
        /\ worker' = worker \ {at}
        /\ UNCHANGED <<started, destroyed, released, begun, ended>>
    BY <1>6 DEF JoinFailed, JoinWorker
  <2>1. TypeOK'
    <3>1. at' \in Layers
      BY <1>b, <2>0
    <3> USE <1>6 DEF JoinFailed, JoinWorker, TypeOK
    <3>2. lifecycle' \in [Layers -> {"created", "running", "stopped"}]
      OBVIOUS
    <3>3. users' \in [Services -> SUBSET Layers]
      OBVIOUS
    <3>4. built' \subseteq Layers /\ waiting' \subseteq Layers /\ started' \subseteq Layers
      OBVIOUS
    <3>5. worker' \subseteq built'
      BY DEF MainInv, BuiltSoFar, Stopped
    <3>6. executing' \subseteq worker'
      OBVIOUS
    <3> QED
      BY <3>1, <3>2, <3>3, <3>4, <3>5, <3>6
  <2>2. MainInv'
    <3>a. started = 1..(at - 1) /\ worker = started \cup {at}
      BY <2>0 DEF MainInv, StartedSoFar, WorkersSoFar, Starting
    <3>b. \A i \in started : 1 <= i
      BY <3>a, <1>a
    <3>c. at \notin started
      BY <3>a, <1>a
    <3>d. worker' = started'
      BY <3>a, <3>c, <2>0
    <3>2. StartedSoFar'
      BY <2>0, <3>b DEF StartedSoFar, Opening, Starting, Stopping, Stopped
    <3>3. WorkersSoFar' /\ Paired' /\ DestroyedLate'
      BY <2>0, <3>d DEF MainInv, WorkersSoFar, Paired, DestroyedLate
    <3> USE <1>6 DEF JoinFailed, JoinWorker, TypeOK, MainInv, Places, Opening, Starting, Stopping, Stopped
    <3>1. pc' \in Places /\ BuiltSoFar'
      BY DEF BuiltSoFar
    <3> QED
      BY <3>1, <3>2, <3>3
  <2>3. ServicesOff'
    BY <1>6 DEF JoinFailed, JoinWorker, TypeOK, ServicesOff
  <2> QED
    BY <2>1, <2>2, <2>3
<1>7. CASE PostStart
  <2>1. TypeOK'
    BY <1>7 DEF PostStart, TypeOK
  <2>2. MainInv'
    <3> USE <1>7 DEF PostStart, TypeOK, MainInv, Places, Opening, Starting, Stopping, Stopped
    <3>1. pc' \in Places /\ BuiltSoFar'
      BY DEF BuiltSoFar
    <3>2. StartedSoFar'
      BY DEF StartedSoFar
    <3>3. WorkersSoFar' /\ Paired' /\ DestroyedLate'
      BY DEF StartedSoFar, WorkersSoFar, Paired, DestroyedLate
    <3> QED
      BY <3>1, <3>2, <3>3
  <2>3. ServicesOff'
    BY <1>7 DEF PostStart, TypeOK, ServicesOff
  <2> QED
    BY <2>1, <2>2, <2>3
<1>8. CASE Shutdown
  <2>1. TypeOK'
    BY <1>8 DEF Shutdown, TypeOK
  <2>2. MainInv'
    <3> USE <1>8 DEF Shutdown, TypeOK, MainInv, Places, Opening, Starting, Stopping, Stopped
    <3>1. pc' \in Places /\ BuiltSoFar'
      BY DEF BuiltSoFar
    <3>2. StartedSoFar'
      BY DEF StartedSoFar
    <3>3. WorkersSoFar' /\ Paired' /\ DestroyedLate'
      BY DEF StartedSoFar, WorkersSoFar, Paired, DestroyedLate
    <3> QED
      BY <3>1, <3>2, <3>3
  <2>3. ServicesOff'
    BY <1>8 DEF Shutdown, TypeOK, ServicesOff
  <2> QED
    BY <2>1, <2>2, <2>3
<1>9. CASE StopComponent
  <2>1. TypeOK'
    BY <1>9 DEF StopComponent, TypeOK
  <2>2. MainInv'
    <3>a. /\ pc = "stop" /\ pc' = "stop queue" /\ at \in started
          /\ ended' = ended \cup {at}
          /\ UNCHANGED <<at, worker, started, destroyed, released, begun>>
      BY <1>9 DEF StopComponent
    <3>3. WorkersSoFar' /\ Paired' /\ DestroyedLate'
      BY <3>a DEF MainInv, WorkersSoFar, Paired, DestroyedLate
    <3> USE <1>9 DEF StopComponent, TypeOK, MainInv, Places, Opening, Starting, Stopping, Stopped
    <3>1. pc' \in Places /\ BuiltSoFar'
      BY DEF BuiltSoFar
    <3>2. StartedSoFar'
      BY DEF StartedSoFar
    <3> QED
      BY <3>1, <3>2, <3>3
  <2>3. ServicesOff'
    BY <1>9 DEF StopComponent, TypeOK, ServicesOff
  <2> QED
    BY <2>1, <2>2, <2>3
<1>10. CASE SkipLayer
  <2>1. TypeOK'
    BY <1>10, SMTT(30) DEF SkipLayer, NextToStop, TypeOK
  <2>2. MainInv'
    <3>a. /\ pc = "stop" /\ at \notin started /\ UNCHANGED started
          /\ at < N => at' = at + 1 /\ pc' = "stop"
          /\ ~(at < N) => at' = 1 /\ pc' = "close"
      BY <1>10 DEF SkipLayer, NextToStop
    <3>b. started \ {at} = started
      BY <3>a
    <3>c. at < N => \A i \in started : at + 1 <= i
      BY <3>a, <3>b, <1>c DEF Stopping
    <3>d. ~(at < N) => started = {}
      BY <3>a, <3>b, <1>c DEF Stopping
    <3>2. StartedSoFar'
      BY <3>a, <3>c, <3>d DEF StartedSoFar, Opening, Starting, Stopping, Stopped
    <3> USE <1>10 DEF SkipLayer, NextToStop, TypeOK, MainInv, Places, Opening, Starting, Stopping, Stopped
    <3>1. pc' \in Places /\ BuiltSoFar'
      BY DEF BuiltSoFar
    <3>3. WorkersSoFar' /\ Paired' /\ DestroyedLate'
      BY DEF StartedSoFar, WorkersSoFar, Paired, DestroyedLate
    <3> QED
      BY <3>1, <3>2, <3>3
  <2>3. ServicesOff'
    BY <1>10 DEF SkipLayer, NextToStop, TypeOK, ServicesOff
  <2> QED
    BY <2>1, <2>2, <2>3
<1>11. CASE StopQueue
  <2>1. TypeOK'
    BY <1>11 DEF StopQueue, TypeOK
  <2>2. MainInv'
    <3> USE <1>11 DEF StopQueue, TypeOK, MainInv, Places, Opening, Starting, Stopping, Stopped
    <3>1. pc' \in Places /\ BuiltSoFar'
      BY DEF BuiltSoFar
    <3>2. StartedSoFar'
      BY DEF StartedSoFar
    <3>3. WorkersSoFar' /\ Paired' /\ DestroyedLate'
      BY DEF StartedSoFar, WorkersSoFar, Paired, DestroyedLate
    <3> QED
      BY <3>1, <3>2, <3>3
  <2>3. ServicesOff'
    BY <1>11 DEF StopQueue, TypeOK, ServicesOff
  <2> QED
    BY <2>1, <2>2, <2>3
<1>12. CASE JoinQueue
  <2>0. /\ pc = "join queue" /\ worker' = worker \ {at} /\ started' = started \ {at}
        /\ UNCHANGED <<destroyed, released, begun, ended>>
        /\ at < N => at' = at + 1 /\ pc' = "stop"
        /\ ~(at < N) => at' = 1 /\ pc' = "close"
    BY <1>12 DEF JoinQueue, JoinWorker, NextToStop
  <2>1. TypeOK'
    <3>1. at' \in Layers
      BY <1>b, <2>0
    <3> USE <1>12 DEF JoinQueue, JoinWorker, NextToStop, TypeOK
    <3>2. lifecycle' \in [Layers -> {"created", "running", "stopped"}]
      OBVIOUS
    <3>3. users' \in [Services -> SUBSET Layers]
      OBVIOUS
    <3>4. built' \subseteq Layers /\ waiting' \subseteq Layers /\ started' \subseteq Layers
      OBVIOUS
    <3>5. worker' \subseteq built'
      BY DEF MainInv, BuiltSoFar, Stopped
    <3>6. executing' \subseteq worker'
      OBVIOUS
    <3> QED
      BY <3>1, <3>2, <3>3, <3>4, <3>5, <3>6
  <2>2. MainInv'
    <3>b. at < N => \A i \in started' : at + 1 <= i
      BY <2>0, <1>c DEF Stopping
    <3>c. ~(at < N) => started' = {}
      BY <2>0, <1>c DEF Stopping
    <3>2. StartedSoFar'
      BY <2>0, <3>b, <3>c DEF StartedSoFar, Opening, Starting, Stopping, Stopped
    <3>d. worker = started /\ at \in ended /\ begun = ended \cup started
      BY <2>0 DEF MainInv, StartedSoFar, WorkersSoFar, Paired
    <3>e. worker' = started' /\ begun' = ended' \cup started'
      BY <3>d, <2>0
    <3>3. WorkersSoFar' /\ Paired' /\ DestroyedLate'
      BY <2>0, <3>e DEF MainInv, WorkersSoFar, Paired, DestroyedLate
    <3> USE <1>12 DEF JoinQueue, JoinWorker, NextToStop, TypeOK, MainInv, Places, Opening, Starting, Stopping, Stopped
    <3>1. pc' \in Places /\ BuiltSoFar'
      BY DEF BuiltSoFar
    <3> QED
      BY <3>1, <3>2, <3>3
  <2>3. ServicesOff'
    BY <1>12 DEF JoinQueue, JoinWorker, NextToStop, TypeOK, ServicesOff
  <2> QED
    BY <2>1, <2>2, <2>3
<1>13. CASE CloseServices
  <2>1. TypeOK'
    BY <1>13 DEF CloseServices, TypeOK
  <2>2. MainInv'
    <3> USE <1>13 DEF CloseServices, TypeOK, MainInv, Places, Opening, Starting, Stopping, Stopped
    <3>1. pc' \in Places /\ BuiltSoFar'
      BY DEF BuiltSoFar
    <3>2. StartedSoFar'
      BY DEF StartedSoFar
    <3>3. WorkersSoFar' /\ Paired' /\ DestroyedLate'
      BY DEF StartedSoFar, WorkersSoFar, Paired, DestroyedLate
    <3> QED
      BY <3>1, <3>2, <3>3
  <2>3. ServicesOff'
    BY <1>13 DEF CloseServices, TypeOK, ServicesOff
  <2> QED
    BY <2>1, <2>2, <2>3
<1>14. CASE JoinServices
  <2>1. TypeOK'
    BY <1>14 DEF JoinServices, Joined, TypeOK
  <2>2. MainInv'
    <3> USE <1>14 DEF JoinServices, Joined, TypeOK, MainInv, Places, Opening, Starting, Stopping, Stopped
    <3>1. pc' \in Places /\ BuiltSoFar'
      BY DEF BuiltSoFar
    <3>2. StartedSoFar'
      BY DEF StartedSoFar
    <3>3. WorkersSoFar' /\ Paired' /\ DestroyedLate'
      BY DEF StartedSoFar, WorkersSoFar, Paired, DestroyedLate
    <3> QED
      BY <3>1, <3>2, <3>3
  <2>3. ServicesOff'
    BY <1>14 DEF JoinServices, Joined, TypeOK, ServicesOff
  <2> QED
    BY <2>1, <2>2, <2>3
<1>15. CASE CloseControlPort
  <2>1. TypeOK'
    BY <1>15 DEF CloseControlPort, TypeOK
  <2>2. MainInv'
    <3> USE <1>15 DEF CloseControlPort, TypeOK, MainInv, Places, Opening, Starting, Stopping, Stopped
    <3>1. pc' \in Places /\ BuiltSoFar'
      BY DEF BuiltSoFar
    <3>2. StartedSoFar'
      BY DEF StartedSoFar
    <3>3. WorkersSoFar' /\ Paired' /\ DestroyedLate'
      BY DEF StartedSoFar, WorkersSoFar, Paired, DestroyedLate
    <3> QED
      BY <3>1, <3>2, <3>3
  <2>3. ServicesOff'
    BY <1>15 DEF CloseControlPort, TypeOK, ServicesOff
  <2> QED
    BY <2>1, <2>2, <2>3
<1>16. CASE ClearInvocations
  <2>1. TypeOK'
    BY <1>16 DEF ClearInvocations, TypeOK
  <2>2. MainInv'
    <3> USE <1>16 DEF ClearInvocations, TypeOK, MainInv, Places, Opening, Starting, Stopping, Stopped
    <3>1. pc' \in Places /\ BuiltSoFar'
      BY DEF BuiltSoFar
    <3>2. StartedSoFar'
      BY DEF StartedSoFar
    <3>3. WorkersSoFar' /\ Paired' /\ DestroyedLate'
      BY DEF StartedSoFar, WorkersSoFar, Paired, DestroyedLate
    <3> QED
      BY <3>1, <3>2, <3>3
  <2>3. ServicesOff'
    BY <1>16 DEF ClearInvocations, TypeOK, ServicesOff
  <2> QED
    BY <2>1, <2>2, <2>3
<1>17. CASE Unregister
  <2>1. TypeOK'
    BY <1>17 DEF Unregister, TypeOK
  <2>2. MainInv'
    <3> USE <1>17 DEF Unregister, TypeOK, MainInv, Places, Opening, Starting, Stopping, Stopped
    <3>1. pc' \in Places /\ BuiltSoFar'
      BY DEF BuiltSoFar
    <3>2. StartedSoFar'
      BY DEF StartedSoFar
    <3>3. WorkersSoFar' /\ Paired' /\ DestroyedLate'
      BY DEF StartedSoFar, WorkersSoFar, Paired, DestroyedLate
    <3> QED
      BY <3>1, <3>2, <3>3
  <2>3. ServicesOff'
    BY <1>17 DEF Unregister, TypeOK, ServicesOff
  <2> QED
    BY <2>1, <2>2, <2>3
<1>18. CASE Release
  <2>1. TypeOK'
    BY <1>18 DEF Release, TypeOK
  <2>2. MainInv'
    <3> USE <1>18 DEF Release, TypeOK, MainInv, Places, Opening, Starting, Stopping, Stopped
    <3>1. pc' \in Places /\ BuiltSoFar'
      BY DEF BuiltSoFar
    <3>2. StartedSoFar'
      BY DEF StartedSoFar
    <3>3. WorkersSoFar' /\ Paired' /\ DestroyedLate'
      BY DEF StartedSoFar, WorkersSoFar, Paired, DestroyedLate
    <3> QED
      BY <3>1, <3>2, <3>3
  <2>3. ServicesOff'
    BY <1>18 DEF Release, TypeOK, ServicesOff
  <2> QED
    BY <2>1, <2>2, <2>3
<1>19. CASE Exit
  <2>1. TypeOK'
    BY <1>19 DEF Exit, TypeOK
  <2>2. MainInv'
    <3> USE <1>19 DEF Exit, TypeOK, MainInv, Places, Opening, Starting, Stopping, Stopped
    <3>1. pc' \in Places /\ BuiltSoFar'
      BY DEF BuiltSoFar
    <3>2. StartedSoFar'
      BY DEF StartedSoFar
    <3>3. WorkersSoFar' /\ Paired' /\ DestroyedLate'
      BY DEF StartedSoFar, WorkersSoFar, Paired, DestroyedLate
    <3> QED
      BY <3>1, <3>2, <3>3
  <2>3. ServicesOff'
    BY <1>19 DEF Exit, TypeOK, ServicesOff
  <2> QED
    BY <2>1, <2>2, <2>3
<1>20. CASE \E s \in Services : OpenService(s)
  <2> PICK s \in Services : OpenService(s)
    BY <1>20
  <2>0. /\ pc \in Opening /\ pc' \in {"open event", "open ota", "start"}
        /\ UNCHANGED <<at, built, worker, started, destroyed, released, begun, ended>>
    <3>1. CASE s = "session"
      BY <3>1 DEF OpenService, OpenStep, AfterOpen, Opening
    <3>2. CASE s = "event"
      BY <3>2 DEF OpenService, OpenStep, AfterOpen, Opening
    <3>3. CASE s = "ota"
      BY <3>3 DEF OpenService, OpenStep, AfterOpen, Opening
    <3> QED
      BY <3>1, <3>2, <3>3
  <2>a. at = 1 /\ started = {} /\ built = Layers /\ worker = {}
    BY <2>0 DEF MainInv, BuiltSoFar, StartedSoFar, WorkersSoFar, Opening, Stopped
  <2>b. 1..(at - 1) = {}
    BY <2>a
  <2>2. MainInv'
    <3>1. pc' \in Places /\ BuiltSoFar' /\ DestroyedLate'
      BY <2>0, <2>a DEF MainInv, BuiltSoFar, DestroyedLate, Places, Opening, Starting,
                        Stopped
    <3>2. StartedSoFar'
      BY <2>0, <2>a, <2>b DEF StartedSoFar, Opening, Starting, Stopping, Stopped
    <3>3. WorkersSoFar' /\ Paired'
      BY <2>0, <2>a DEF MainInv, WorkersSoFar, Paired
    <3> QED
      BY <3>1, <3>2, <3>3 DEF MainInv
  <2>3. ServicesOff'
    BY <2>0 DEF ServicesOff
  <2> USE DEF OpenService, OpenStep, AfterOpen
  <2>1. TypeOK'
    BY DEF TypeOK
  <2> QED
    BY <2>1, <2>2, <2>3
<1>21. CASE \E s \in Services : OpenServiceFails(s)
  <2> PICK s \in Services : OpenServiceFails(s)
    BY <1>21
  <2>0. /\ pc \in Opening /\ pc' = "close"
        /\ UNCHANGED <<at, built, worker, started, destroyed, released, begun, ended>>
    <3>1. CASE s = "session"
      BY <3>1 DEF OpenServiceFails, OpenStep, Opening
    <3>2. CASE s = "event"
      BY <3>2 DEF OpenServiceFails, OpenStep, Opening
    <3>3. CASE s = "ota"
      BY <3>3 DEF OpenServiceFails, OpenStep, Opening
    <3> QED
      BY <3>1, <3>2, <3>3
  <2>a. started = {} /\ worker = {}
    BY <2>0 DEF MainInv, StartedSoFar, WorkersSoFar, Opening
  <2>2. MainInv'
    <3>1. pc' \in Places /\ BuiltSoFar' /\ DestroyedLate'
      BY <2>0 DEF MainInv, BuiltSoFar, DestroyedLate, Places, Opening, Stopped
    <3>2. StartedSoFar'
      BY <2>0, <2>a DEF StartedSoFar, Opening, Starting, Stopping, Stopped
    <3>3. WorkersSoFar' /\ Paired'
      BY <2>0, <2>a DEF MainInv, WorkersSoFar, Paired
    <3> QED
      BY <3>1, <3>2, <3>3 DEF MainInv
  <2> USE DEF OpenServiceFails, OpenStep
  <2>1. TypeOK'
    BY DEF TypeOK
  <2>3. ServicesOff'
    BY DEF TypeOK, ServicesOff, MainInv, Places, Opening, Starting, Stopping, Stopped
  <2> QED
    BY <2>1, <2>2, <2>3
<1>22. CASE \E i \in Layers : Destroy(i)
  <2> PICK i \in Layers : Destroy(i)
    BY <1>22
  <2> USE DEF Destroy
  <2>1. TypeOK'
    BY DEF TypeOK
  <2>2. MainInv'
    BY DEF TypeOK, MainInv, BuiltSoFar, StartedSoFar, WorkersSoFar, Paired,
           DestroyedLate, Places, Opening, Starting, Stopping, Stopped
  <2>3. ServicesOff'
    BY DEF TypeOK, ServicesOff, MainInv, Places, Opening, Starting, Stopping, Stopped
  <2> QED
    BY <2>1, <2>2, <2>3
<1> QED
  BY <1>1, <1>2, <1>3, <1>4, <1>5, <1>6, <1>7, <1>8, <1>9, <1>10, <1>11, <1>12, <1>13, <1>14, <1>15, <1>16, <1>17, <1>18, <1>19, <1>20, <1>21, <1>22 DEF Main

(* The steps of the workers and of the threads outside the layers. *)
LEMMA OtherIInv ==
  ASSUME IInv,
         \/ \E i \in Layers : Worker(i) \/ ScheduleTimedEvent(i)
         \/ \E i, j \in Layers : RouteToNeighbour(i, j)
         \/ \E t \in Joined, i \in Layers : Arrives(t, i)
         \/ \E i \in Layers : TimerFires(i) \/ UpdateRequested(i)
         \/ \E t \in Threads : Thread(t)
         \/ UNCHANGED vars
  PROVE  IInv'
<1>0. TypeOK /\ MainInv /\ ServicesOff
  BY DEF IInv, MainInv
<1> SUFFICES TypeOK' /\ MainInv' /\ ServicesOff'
  BY DEF IInv, MainInv
<1> USE LifecycleAssumption, <1>0
<1> USE DEF Layers, Services, Threads, Joined, main, layers, tables, history
<1>1. CASE \E i \in Layers : Execute(i)
  <2> PICK i \in Layers : Execute(i)
    BY <1>1
  <2>1. MainInv'
    BY Unmoved DEF Execute
  <2>2. TypeOK'
    BY DEF TypeOK, Execute
  <2>3. ServicesOff'
    BY DEF TypeOK, ServicesOff, Execute
  <2> QED
    BY <2>1, <2>2, <2>3
<1>2. CASE \E i \in Layers : CallReturns(i)
  <2> PICK i \in Layers : CallReturns(i)
    BY <1>2
  <2>1. MainInv'
    BY Unmoved DEF CallReturns
  <2>2. TypeOK'
    BY DEF TypeOK, CallReturns
  <2>3. ServicesOff'
    BY DEF TypeOK, ServicesOff, CallReturns
  <2> QED
    BY <2>1, <2>2, <2>3
<1>3. CASE \E i \in Layers : ScheduleTimedEvent(i)
  <2> PICK i \in Layers : ScheduleTimedEvent(i)
    BY <1>3
  <2>1. MainInv'
    BY Unmoved DEF ScheduleTimedEvent
  <2>2. TypeOK'
    BY DEF TypeOK, ScheduleTimedEvent
  <2>3. ServicesOff'
    BY DEF TypeOK, ServicesOff, ScheduleTimedEvent
  <2> QED
    BY <2>1, <2>2, <2>3
<1>4. CASE \E i, j \in Layers : RouteToNeighbour(i, j)
  <2> PICK i, j \in Layers : RouteToNeighbour(i, j)
    BY <1>4
  <2>1. MainInv'
    BY Unmoved DEF RouteToNeighbour
  <2>2. TypeOK'
    BY DEF TypeOK, RouteToNeighbour
  <2>3. ServicesOff'
    BY DEF TypeOK, ServicesOff, RouteToNeighbour
  <2> QED
    BY <2>1, <2>2, <2>3
<1>5. CASE \E t \in Joined, i \in Layers : Arrives(t, i)
  <2> PICK t \in Joined, i \in Layers : Arrives(t, i)
    BY <1>5
  <2>1. MainInv'
    BY Unmoved DEF Arrives, Move
  <2>2. TypeOK'
    BY DEF TypeOK, Arrives, Move
  <2>3. ServicesOff'
    BY DEF TypeOK, ServicesOff, Arrives, Move
  <2> QED
    BY <2>1, <2>2, <2>3
<1>6. CASE \E i \in Layers : TimerFires(i)
  <2> PICK i \in Layers : TimerFires(i)
    BY <1>6
  <2>1. MainInv'
    BY Unmoved DEF TimerFires, Move
  <2>2. TypeOK'
    BY DEF TypeOK, TimerFires, Move
  <2>3. ServicesOff'
    BY DEF TypeOK, ServicesOff, TimerFires, Move
  <2> QED
    BY <2>1, <2>2, <2>3
<1>7. CASE \E i \in Layers : UpdateRequested(i)
  <2> PICK i \in Layers : UpdateRequested(i)
    BY <1>7
  <2>1. MainInv'
    BY Unmoved DEF UpdateRequested, Move
  <2>2. TypeOK'
    BY DEF TypeOK, UpdateRequested, Move
  <2>3. ServicesOff'
    BY DEF TypeOK, ServicesOff, UpdateRequested, Move
  <2> QED
    BY <2>1, <2>2, <2>3
<1>8. CASE \E t \in Threads : LookUp(t)
  <2> PICK t \in Threads : LookUp(t)
    BY <1>8
  <2>1. MainInv'
    BY Unmoved DEF LookUp, Move
  <2>2. TypeOK'
    BY DEF TypeOK, LookUp, Move
  <2>3. ServicesOff'
    BY DEF TypeOK, ServicesOff, LookUp, Move
  <2> QED
    BY <2>1, <2>2, <2>3
<1>9. CASE \E t \in Threads : Submit(t)
  <2> PICK t \in Threads : Submit(t)
    BY <1>9
  <2>1. MainInv'
    BY Unmoved DEF Submit, Move
  <2>2. TypeOK'
    <3>1. waiting' \subseteq Layers
      BY ZenonT(60) DEF TypeOK, Submit
    <3>2. thread' \in [Threads -> {"off", "idle", "context", "holding", "inside"}]
      BY DEF TypeOK, Submit, Move
    <3>3. UNCHANGED <<at, built, lifecycle, worker, executing, started, destroyed,
                      released, routed, users, timers, open, target, begun, ended>>
      BY DEF Submit
    <3> QED
      BY <3>1, <3>2, <3>3 DEF TypeOK
  <2>3. ServicesOff'
    BY DEF TypeOK, ServicesOff, Submit, Move
  <2> QED
    BY <2>1, <2>2, <2>3
<1>10. CASE \E t \in Threads : DirectReturns(t)
  <2> PICK t \in Threads : DirectReturns(t)
    BY <1>10
  <2>1. MainInv'
    BY Unmoved DEF DirectReturns, Move
  <2>2. TypeOK'
    BY DEF TypeOK, DirectReturns, Move
  <2>3. ServicesOff'
    BY DEF TypeOK, ServicesOff, DirectReturns, Move
  <2> QED
    BY <2>1, <2>2, <2>3
<1>11. CASE \E t \in Threads : ThreadEnds(t)
  <2> PICK t \in Threads : ThreadEnds(t)
    BY <1>11
  <2>1. MainInv'
    BY Unmoved DEF ThreadEnds, Move
  <2>2. TypeOK'
    BY DEF TypeOK, ThreadEnds, Move
  <2>3. ServicesOff'
    BY DEF TypeOK, ServicesOff, ThreadEnds, Move
  <2> QED
    BY <2>1, <2>2, <2>3
<1>12. CASE UNCHANGED vars
  BY <1>12, Unmoved DEF vars, TypeOK, ServicesOff
<1> QED
  BY <1>1, <1>2, <1>3, <1>4, <1>5, <1>6, <1>7, <1>8, <1>9, <1>10, <1>11, <1>12 DEF Worker, Thread

(* Every step keeps the inductive invariant. *)
LEMMA NextIInv == IInv /\ [Next]_vars => IInv'
BY MainIInv, OtherIInv DEF Next, Gone

(* Every part of the inductive invariant holds in every reachable state. *)
THEOREM Invariance == Spec => []IInv
<1>1. Init => IInv
  BY InitIInv
<1>2. IInv /\ [Next]_vars => IInv'
  BY NextIInv
<1> QED
  BY <1>1, <1>2, PTL DEF Spec

(* The state is well formed, for any number of layers. *)
THEOREM TypeCorrect == Spec => []TypeOK
<1>1. IInv => TypeOK
  BY DEF IInv
<1> QED
  BY <1>1, Invariance, PTL

(* The workers NetworkServices joins never deliver to a layer that was     *)
(* destroyed or released: they have ended before the manager is dropped.   *)
THEOREM ServicesEnd == Spec => []ServicesEndFirst
<1>1. IInv => ServicesEndFirst
  BY DEF IInv, TypeOK, ServicesOff, DestroyedLate, ServicesEndFirst, Joined
<1> QED
  BY <1>1, Invariance, PTL

(* stop has joined every queue before NemManager's drop destroys the       *)
(* components.                                                             *)
THEOREM DestroyQuiet == Spec => []DestroyedIsQuiet
<1>1. IInv => DestroyedIsQuiet
  BY DEF IInv, TypeOK, DestroyedLate, StartedSoFar, WorkersSoFar, Stopped,
         DestroyedIsQuiet
<1> QED
  BY <1>1, Invariance, PTL

(* stop reaches every component that start has started, whichever of them  *)
(* failed.                                                                 *)
THEOREM StartStopPaired == Spec => []StartedIsStopped
<1>1. IInv => StartedIsStopped
  BY DEF IInv, StartedSoFar, WorkersSoFar, Paired, Stopped, StartedIsStopped
<1> QED
  BY <1>1, Invariance, PTL
=============================================================================
