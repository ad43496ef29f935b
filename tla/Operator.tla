------------------------------- MODULE Operator -------------------------------
(***************************************************************************)
(* The ControlPlane and Loadbalancer reconcilers together: one manager     *)
(* process, two workers.  They meet in the Loadbalancer object, whose spec *)
(* one of them patches without a lock and whose status the other updates   *)
(* with one, and through it the address of the cloud provider reaches the  *)
(* Pki and the API server.  The environment is the user, the cloud         *)
(* provider, the garbage collector, lost requests and crashes.             *)
(***************************************************************************)
EXTENDS ControlPlaneReconciler, LoadbalancerReconciler, FiniteSets

CONSTANTS
  Specs, \* the ControlPlanes a user may write
  MaxLag \* a bound on the objects whose cache is behind when the garbage
         \* collector acts

ASSUME MaxLagIsNat == MaxLag \in Nat

ASSUME SpecsAreControlPlanes == Specs \subseteq ControlPlanes

OperatorObjects == ControlPlaneObjects \cup ServiceNames

ASSUME OperatorIsPresent ==
  /\ OperatorObjects \subseteq Objects
  /\ {"controlplane", "loadbalancer"} \subseteq Controllers

reconcilerVars == <<controlPlaneVars, loadbalancerVars>>
vars == <<clusterVars, reconcilerVars>>

\* main registers the reconcilers with one manager.
Watches ==
  [c \in {"controlplane", "loadbalancer"} |->
     IF c = "controlplane" THEN ControlPlaneWatches ELSE LoadbalancerWatches]

Init == ClusterInit /\ ControlPlaneInit /\ LoadbalancerInit

-----------------------------------------------------------------------------
(* The environment.                                                        *)

\* The user applies or deletes the ControlPlane.
Apply(spec) ==
  /\ Interfere("apply", "cp", spec)
  /\ UNCHANGED reconcilerVars

DeleteControlPlane ==
  /\ Exists("cp")
  /\ Interfere("delete", "cp", Absent)
  /\ UNCHANGED reconcilerVars

\* The cloud provider publishes, moves or withdraws a Service's ingress.
Provision(s, ingress) ==
  /\ Exists(s)
  /\ Interfere("provision", s, [Store(s) EXCEPT !.ingress = ingress])
  /\ UNCHANGED reconcilerVars

\* Someone removes an object the operator made.
Remove(o) ==
  /\ Exists(o)
  /\ Interfere("remove", o, Absent)
  /\ UNCHANGED reconcilerVars

\* The controller reference the reconcilers set.
Owner(o) == IF o \in ServiceNames THEN "lb" ELSE "cp"

Garbage(o) == Exists(o) /\ ~Exists(Owner(o))

\* The garbage collector removes what has lost its owner, while the operator's
\* caches of at most MaxLag objects are behind.
Collect(o) ==
  /\ Garbage(o)
  /\ Cardinality({x \in OperatorObjects : ~Fresh(x)}) <= MaxLag
  /\ Commit(o, Absent)
  /\ UNCHANGED <<queue, budget, reconcilerVars>>

Crash == Relist(Watches) /\ EndControlPlane /\ EndLoadbalancer

Made == Children \cup ServiceNames

Environment ==
  \/ \E spec \in Specs : Apply(spec)
  \/ DeleteControlPlane
  \/ \E s \in ServiceNames, ingress \in Addresses \cup {NoIngress} : Provision(s, ingress)
  \/ \E o \in Made : Remove(o)
  \/ Crash

Watch(o) == Deliver(o, Watches) /\ UNCHANGED reconcilerVars

ControlPlaneWorker == ControlPlaneReconcile /\ UNCHANGED loadbalancerVars
LoadbalancerWorker == LoadbalancerReconcile /\ UNCHANGED controlPlaneVars

Next ==
  \/ ControlPlaneWorker
  \/ LoadbalancerWorker
  \/ \E o \in OperatorObjects : Watch(o)
  \/ \E o \in Made : Collect(o)
  \/ Environment

Spec == Init /\ [][Next]_vars

\* Each worker runs when it has a request, watches deliver, and the garbage
\* collector collects.
Fairness ==
  /\ WF_vars(ControlPlaneWorker)
  /\ WF_vars(LoadbalancerWorker)
  /\ \A o \in OperatorObjects : WF_vars(Watch(o))
  /\ \A o \in Made : WF_vars(Collect(o))

FairSpec == Spec /\ Fairness

-----------------------------------------------------------------------------
(* Properties.                                                             *)

TypeOK ==
  /\ TypedTimelines(OperatorObjects)
  /\ queue \subseteq Controllers
  /\ current \subseteq Objects
  /\ budget \in Nat
  /\ ControlPlaneLocals /\ LoadbalancerLocals

\* Nothing is left to do for either controller.
Settled ==
  /\ queue = {}
  /\ cppc = "idle" /\ lbpc = "idle"
  /\ \A o \in ControlPlaneWatches \cup LoadbalancerWatches : Fresh(o)

\* The Service the user's ControlPlane names exists, and once the provider
\* has given it an address that address is in the PKI's certificates and
\* advertised by the API server.
AddressPropagated ==
  LET service == Store("cp").name IN
  /\ Exists(service) /\ Exists("pki") /\ Exists("kas")
  /\ Store(service).ingress # NoIngress =>
       /\ Store("pki").ip = Store(service).ingress
       /\ Store("kas").address = Store(service).ingress

\* The pods of the API server carry the labels the Service selects, unless
\* the user renames the component in the deployment's labels alone.
Renamed(cp) ==
  /\ NameKey \in DOMAIN cp.labels \ DOMAIN cp.selectors
  /\ cp.labels[NameKey] # "kube-apiserver"

TrafficReachesPods ==
  LET service == Store("cp").name IN
    Exists(service) /\ Exists("kas") /\ ~Renamed(Store("cp"))
      => Selects(Store(service).selector,
                 labels("kube-apiserver", "cp", Store("kas").labels))

\* End to end, when both controllers are at rest (the chain of events from
\* the Service's status over the Loadbalancer's to the specs of Pki and
\* KubeAPIServer).
SettledEndToEnd ==
  Settled /\ Exists("cp") => AddressPropagated /\ TrafficReachesPods

NothingLeft == \A o \in Made : ~Exists(o)

\* Both controllers and the garbage collector together are level-triggered:
\* they come to rest once the disturbances end, and then either the
\* ControlPlane is served end to end or, if it was deleted, everything it
\* owned is gone, including what a pass that was still running created.
Level ==
  INSTANCE LevelTriggered WITH
    due   <- ~Settled \/ \E o \in Made : Garbage(o),
    right <- IF Exists("cp") THEN AddressPropagated /\ TrafficReachesPods
                             ELSE NothingLeft

ImplementsLevelTriggered == Level!FairSpec

-----------------------------------------------------------------------------
(* The strengthening under which SettledEndToEnd is preserved by every     *)
(* step: what each of the two passes keeps, and that no status update is   *)
(* lost where none can be.                                                 *)

Inductive ==
  /\ TypeOK
  /\ ControlPlanePass
  /\ CurrentCopy
  /\ LoadbalancerPass
  /\ lost => "statusFault" \in Disturbances
==============================================================================
