---------------------------- MODULE OperatorProofs ----------------------------
(***************************************************************************)
(* The two reconcilers in one manager, end to end: when both are at rest,  *)
(* the address of the Service has reached the Pki and the API server and   *)
(* the Service selects the API server's pods.  Proved for every set of     *)
(* specs, versions, addresses, names and labels, any number of             *)
(* disturbances and any lag of the garbage collector.                      *)
(***************************************************************************)
EXTENDS Operator, ReconcilerProofs

-----------------------------------------------------------------------------
(* The steps.                                                              *)

\* The objects and the watches of the manager are those of the reconcilers.
LEMMA OperatorNames ==
  /\ OperatorObjects \in SUBSET Objects
  /\ ControlPlaneObjects \subseteq OperatorObjects
  /\ LoadbalancerWatches \subseteq OperatorObjects
  /\ Made \subseteq OperatorObjects
  /\ "controlplane" \in Controllers /\ "loadbalancer" \in Controllers
  /\ DOMAIN Watches \subseteq Controllers
  /\ "controlplane" \in DOMAIN Watches /\ "loadbalancer" \in DOMAIN Watches
  /\ Watches["controlplane"] = ControlPlaneWatches
  /\ Watches["loadbalancer"] = LoadbalancerWatches
  BY OperatorIsPresent
     DEF OperatorObjects, ControlPlaneObjects, Children, LoadbalancerWatches, Made, Watches

\* The environment writes typed versions, or restarts the manager.
LEMMA EnvironmentWrites ==
  ASSUME TypeOK, Environment
  PROVE  \/ Crash
         \/ /\ \E kind : \E o \in OperatorObjects : \E v \in KindOf(o) \cup {Absent} :
                 Interfere(kind, o, v)
            /\ UNCHANGED reconcilerVars
  <1> USE OperatorNames, ControlPlaneNames, LoadbalancerNames
  <1> DEFINE Interfered == \E kind : \E o \in OperatorObjects :
                             \E v \in KindOf(o) \cup {Absent} : Interfere(kind, o, v)
  <1>1. ASSUME NEW spec \in Specs, Apply(spec)
        PROVE  Interfered /\ UNCHANGED reconcilerVars
    <2>1. spec \in KindOf("cp")
      BY Kinds, SpecsAreControlPlanes
    <2> QED BY <1>1, <2>1 DEF Apply
  <1>2. CASE DeleteControlPlane
    BY <1>2 DEF DeleteControlPlane
  <1>3. ASSUME NEW s \in ServiceNames, NEW ingress \in Addresses \cup {NoIngress},
               Provision(s, ingress)
        PROVE  Interfered /\ UNCHANGED reconcilerVars
    <2>1. Store(s) \in Services
      BY <1>3, TypedEnds DEF Provision, Exists, TypeOK
    <2>2. [Store(s) EXCEPT !.ingress = ingress] \in KindOf(s)
      BY <2>1 DEF Services
    <2> QED BY <1>3, <2>2 DEF Provision
  <1>4. ASSUME NEW o \in Made, Remove(o)
        PROVE  Interfered /\ UNCHANGED reconcilerVars
    BY <1>4 DEF Remove
  <1> QED BY <1>1, <1>2, <1>3, <1>4 DEF Environment

\* The heart of the matter: what each reconciler's pass keeps is not disturbed
\* by the other one, which only writes typed versions of the objects they
\* share and leaves its requests in the queue.
LEMMA InductiveStep ==
  ASSUME Inductive, [Next]_vars
  PROVE  Inductive'
  <1> USE OperatorNames
  <1> DEFINE S == OperatorObjects
             Passes == ControlPlanePass /\ CurrentCopy /\ LoadbalancerPass
             Kept == /\ ClusterTyped(S)
                     /\ ControlPlaneLocals /\ LoadbalancerLocals
                     /\ Passes
                     /\ lost => "statusFault" \in Disturbances
  <1>0. Kept
    BY DEF Inductive, TypeOK, ClusterTyped
  <1>1. SUFFICES Kept'
    BY DEF Inductive, TypeOK, ClusterTyped
  <1>a. ASSUME UNCHANGED reconcilerVars
        PROVE  /\ UNCHANGED <<controlPlaneVars, loadbalancerVars>>
               /\ ControlPlaneLocals' /\ LoadbalancerLocals' /\ lost' = lost
    BY <1>a, <1>0 DEF reconcilerVars, controlPlaneVars, loadbalancerVars,
                      ControlPlaneLocals, LoadbalancerLocals
  <1>b. ASSUME Writes(S), UNCHANGED reconcilerVars, queue' = queue, budget' \in Nat
        PROVE  Kept'
    <2>1. ClusterTyped(S)'
      BY <1>b, <1>0, WritesTyped DEF ClusterTyped
    <2>2. Passes'
      BY <1>a, <1>b, <1>0, ControlPlaneAmongOthers, LoadbalancerAmongOthers
    <2> QED BY <1>a, <1>b, <1>0, <2>1, <2>2
  <1>2. CASE ControlPlaneWorker
    <2>1. ControlPlaneReconcile /\ UNCHANGED loadbalancerVars
      BY <1>2 DEF ControlPlaneWorker
    <2>2. /\ Writes(S) /\ queue \subseteq queue' \cup {"controlplane"}
          /\ ClusterTyped(S)' /\ ControlPlaneLocals'
      BY <2>1, <1>0, ControlPlaneTypes
    <2>3. ControlPlanePass'
      BY <2>1, <1>0, ControlPlaneStep
    <2>4. CurrentCopy' /\ LoadbalancerPass'
      BY <2>1, <2>2, <1>0, LoadbalancerAmongOthers
    <2> QED BY <2>1, <2>2, <2>3, <2>4, <1>0 DEF loadbalancerVars, LoadbalancerLocals
  <1>3. CASE LoadbalancerWorker
    <2>1. LoadbalancerReconcile /\ UNCHANGED controlPlaneVars
      BY <1>3 DEF LoadbalancerWorker
    <2>2. /\ UNCHANGED obj \/ Writes(S)
          /\ queue \subseteq queue' \cup {"loadbalancer"}
          /\ ClusterTyped(S)' /\ LoadbalancerLocals'
      BY <2>1, <1>0, LoadbalancerTypes
    <2>3. ControlPlanePass'
      BY <2>1, <2>2, <1>0, ControlPlaneAmongOthers
    <2>4. CurrentCopy' /\ LoadbalancerPass'
      BY <2>1, <1>0, LoadbalancerCopies, LoadbalancerStep
    <2>5. lost' => "statusFault" \in Disturbances
      BY <2>1, <1>0 DEF LoadbalancerReconcile, StartLoadbalancer, EnsureService, FailService,
                        UpdateStatus, StatusConflict, StatusFault, EndLoadbalancer, Disturb
    <2> QED BY <2>1, <2>2, <2>3, <2>4, <2>5, <1>0 DEF controlPlaneVars, ControlPlaneLocals
  <1>4. ASSUME NEW o \in S, Watch(o) PROVE Kept'
    <2>1. Deliver(o, Watches) /\ UNCHANGED reconcilerVars
      BY <1>4 DEF Watch
    <2>2. ClusterTyped(S)'
      BY <2>1, <1>0, WatchTyped
    <2>3. Passes'
      BY <2>1, <1>a, <1>0, ControlPlaneTold, LoadbalancerTold
    <2> QED BY <2>1, <2>2, <2>3, <1>a, <1>0
  <1>5. CASE Crash
    <2>1. Relist(Watches) /\ EndControlPlane /\ EndLoadbalancer
      BY <1>5 DEF Crash
    <2>2. ClusterTyped(S)'
      BY <2>1, <1>0, WatchTyped
    <2>3. Passes'
      BY <2>1, <1>0, ControlPlaneTold, LoadbalancerTold
    <2>4. ControlPlaneLocals' /\ LoadbalancerLocals' /\ lost' = lost
      BY <2>1, <1>0 DEF EndControlPlane, EndLoadbalancer, EndPass,
                        ControlPlaneLocals, LoadbalancerLocals
    <2> QED BY <2>2, <2>3, <2>4, <1>0
  <1>6. ASSUME NEW o \in Made, Collect(o) PROVE Kept'
    <2>1. /\ Writes(S) /\ UNCHANGED reconcilerVars
          /\ queue' = queue /\ budget' = budget
      BY <1>6 DEF Collect, Writes
    <2> QED BY <2>1, <1>0, <1>b DEF ClusterTyped
  <1>7. ASSUME NEW kind, NEW o \in S, NEW v \in KindOf(o) \cup {Absent},
               Interfere(kind, o, v), UNCHANGED reconcilerVars
        PROVE  Kept'
    <2>1. Writes(S) /\ queue' = queue /\ budget' \in Nat
      BY <1>7, <1>0, InterfereTyped DEF ClusterTyped
    <2> QED BY <2>1, <1>7, <1>b
  <1>8. CASE UNCHANGED vars
    <2>1. /\ Writes(S) /\ UNCHANGED reconcilerVars
          /\ queue' = queue /\ budget' = budget
      BY <1>8 DEF vars, clusterVars, Writes
    <2> QED BY <2>1, <1>0, <1>b DEF ClusterTyped
  <1>9. TypeOK
    BY DEF Inductive
  <1> QED BY <1>2, <1>3, <1>4, <1>5, <1>6, <1>7, <1>8, <1>9, EnvironmentWrites DEF Next

-----------------------------------------------------------------------------
(* What the two passes add up to.                                          *)

\* At rest, the chain of copies - from the ControlPlane's spec to the
\* Loadbalancer's and on to the Service's selector, and from the Service's
\* address to the Loadbalancer's status and on to the Pki and the API server -
\* is closed at both ends.
LEMMA EndToEnd ==
  ASSUME Inductive, "statusFault" \notin Disturbances, Settled, Exists("cp")
  PROVE  AddressPropagated /\ TrafficReachesPods
  <1> USE OperatorNames, ControlPlaneNames, LoadbalancerNames, Kinds
  <1> DEFINE cp == Store("cp")
             lb == Store("lb")
             service == Store(cp.name)
  <1>1. ControlPlaneQuiet /\ LoadbalancerQuiet /\ cppc = "idle" /\ lbpc = "idle"
    BY DEF Settled, ControlPlaneQuiet, LoadbalancerQuiet
  <1>2. \A o \in OwnedChildren : Exists("lb") /\ Store(o) = ChildFor(o, cp, lb)
    BY <1>1 DEF Inductive, ControlPlanePass, InSync
  <1>3. {"lb", "pki", "kas"} \subseteq OwnedChildren
    BY DEF Children
  <1>4. /\ Exists("lb")
        /\ lb = LoadbalancerFor(cp, lb.ip)
        /\ Store("pki") = PkiFor(lb)
        /\ Store("kas") = KubeAPIServerFor(cp, lb)
    BY <1>2, <1>3 DEF ChildFor
  <1>5. lb.name = cp.name /\ lb.selectors = cp.selectors
    BY <1>4 DEF LoadbalancerFor
  <1>6. cp \in ControlPlanes
    BY TypedEnds DEF Inductive, TypeOK, Exists
  <1>7. lb \in Loadbalancers
    BY <1>4, TypedEnds DEF Inductive, TypeOK, Exists
  <1>8. Exists("pki") /\ Exists("kas")
    <2>1. \A o \in {"pki", "kas"} : Store(o) \in KindOf(o)
      BY <1>2, <1>3, <1>6, <1>7, ChildForType
    <2>2. \A o \in {"pki", "kas"} : Absent \notin KindOf(o)
      BY AbsentIsNoObject
    <2> QED BY <2>1, <2>2 DEF Exists
  <1>9. Exists(cp.name) /\ service.selector = ServiceSelector(cp.selectors)
    BY <1>1, <1>4, <1>5 DEF Inductive, LoadbalancerPass, ServiceInSync
  <1>10. service.ingress # NoIngress => lb.ip = service.ingress
    BY <1>1, <1>4, <1>5, <1>9 DEF Inductive, LoadbalancerPass, AddressInSync
  <1>11. AddressPropagated
    BY <1>4, <1>8, <1>9, <1>10 DEF AddressPropagated, PkiFor, KubeAPIServerFor
  <1>12. ASSUME ~Renamed(cp)
         PROVE  Selects(service.selector, labels("kube-apiserver", "cp", Store("kas").labels))
    <2>1. Store("kas").labels = ApiServerLabels(cp.labels, cp.selectors)
      BY <1>4, <1>5 DEF KubeAPIServerFor
    <2>2. cp.labels \in LabelMaps /\ cp.selectors \in LabelMaps
      BY <1>6 DEF ControlPlanes
    <2>3. NameKey \in DOMAIN cp.labels /\ NameKey \notin DOMAIN cp.selectors
            => cp.labels[NameKey] = "kube-apiserver"
      BY <1>12 DEF Renamed
    <2> QED BY <1>9, <2>1, <2>2, <2>3, ServiceSelectsPods
  <1> QED BY <1>11, <1>12 DEF TrafficReachesPods

\* Once nothing is left to collect, what has lost its ControlPlane is gone.
LEMMA NothingLeftBehind ==
  ASSUME ~Exists("cp"), \A o \in Made : ~Garbage(o)
  PROVE  NothingLeft
  <1>1. \A o \in Children : o \in Made /\ o \notin ServiceNames
    BY ServicesAreNamedApart DEF Made, Children
  <1>2. \A o \in Children : ~Exists(o)
    BY <1>1 DEF Garbage, Owner
  <1>3. \A s \in ServiceNames : ~Exists(s)
    BY <1>2 DEF Garbage, Owner, Made, Children
  <1> QED BY <1>2, <1>3 DEF NothingLeft, Made

-----------------------------------------------------------------------------
(* The theorems.                                                           *)

\* Initially nothing exists and neither reconciler runs.
LEMMA InductiveInit == Init => Inductive
  <1> SUFFICES ASSUME Init PROVE Inductive
    OBVIOUS
  <1> USE OperatorNames, ControlPlaneNames, LoadbalancerNames
  <1>1. ClusterTyped(OperatorObjects) /\ \A o \in OperatorObjects : ~Exists(o) /\ Fresh(o)
    BY ClusterInitTyped DEF Init
  <1>2. TypeOK
    BY <1>1 DEF Init, ControlPlaneInit, LoadbalancerInit, TypeOK, ClusterTyped,
                ControlPlaneLocals, LoadbalancerLocals
  <1>3. ControlPlanePass
    <2>1. cppc = "idle" /\ Done(cppc) = {}
      BY DEF Init, ControlPlaneInit, Done
    <2> QED BY <1>1, <2>1 DEF ControlPlanePass, Children
  <1>4. CurrentCopy /\ LoadbalancerPass /\ ~lost
    BY <1>1 DEF Init, LoadbalancerInit, CurrentCopy, LoadbalancerPass
  <1> QED BY <1>2, <1>3, <1>4 DEF Inductive

\* The strengthening holds in every reachable state.
THEOREM InductiveInvariance == Spec => []Inductive
  BY InductiveInit, InductiveStep, PTL DEF Spec

\* Types: with both reconcilers running, timelines hold versions of their
\* kinds and each pass holds the copies its next call needs.
THEOREM TypeCorrect == Spec => []TypeOK
  <1>1. Inductive => TypeOK
    BY DEF Inductive
  <1> QED BY InductiveInvariance, <1>1, PTL

\* A settled control plane is served end to end, whatever the user, the cloud
\* provider, the garbage collector, lost requests and crashes did on the way;
\* only a status update that fails for another reason than a conflict is not
\* made up for.
THEOREM EndToEndSafety ==
  ASSUME "statusFault" \notin Disturbances
  PROVE  Spec => []SettledEndToEnd
  <1>1. Inductive => SettledEndToEnd
    BY EndToEnd DEF SettledEndToEnd
  <1> QED BY InductiveInvariance, <1>1, PTL

\* The operator and the garbage collector together implement one
\* level-triggered controller: they come to rest only when the control plane
\* is served end to end, or when nothing is left of a deleted one.
THEOREM ImplementsLevel ==
  ASSUME "statusFault" \notin Disturbances
  PROVE  Spec => Level!Spec
  <1> DEFINE due   == ~Settled \/ \E o \in Made : Garbage(o)
             right == IF Exists("cp") THEN AddressPropagated /\ TrafficReachesPods
                                      ELSE NothingLeft
  <1>1. Inductive => due \/ right
    BY EndToEnd, NothingLeftBehind
  <1>2. Init => Level!Init
    <2> SUFFICES ASSUME Init PROVE Level!Init
      OBVIOUS
    <2>1. \A o \in OperatorObjects : ~Exists(o) /\ Fresh(o)
      BY OperatorNames, ClusterInitTyped DEF Init
    <2>2. ~due
      BY <2>1, OperatorNames, ControlPlaneNames
         DEF Init, ClusterInit, ControlPlaneInit, LoadbalancerInit, Settled, Garbage
    <2>3. right
      BY <2>1, OperatorNames, ControlPlaneNames DEF NothingLeft
    <2> QED BY <2>2, <2>3 DEF Level!Init
  <1>3. (due \/ right) /\ (due \/ right)' => [Level!Next]_(Level!levelVars)
    <2> SUFFICES ASSUME due \/ right, due' \/ right'
                 PROVE  Level!Next \/ UNCHANGED Level!levelVars
      OBVIOUS
    <2>1. due \in BOOLEAN /\ due' \in BOOLEAN
      OBVIOUS
    <2>2. right \in BOOLEAN /\ right' \in BOOLEAN
      BY DEF AddressPropagated, TrafficReachesPods, NothingLeft
    <2> QED BY <2>1, <2>2
            DEF Level!Next, Level!Disturb, Level!Work, Level!Finish, Level!levelVars
  <1> QED BY <1>1, <1>2, <1>3, InductiveInvariance, PTL DEF Spec, Level!Spec
==============================================================================
