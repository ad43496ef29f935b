----------------------------- MODULE Loadbalancer -----------------------------
(***************************************************************************)
(* The Loadbalancer reconciler in its environment: the ControlPlane        *)
(* reconciler, which creates, edits and removes the Loadbalancer, the      *)
(* cloud provider, which gives Services an address and may move it, users  *)
(* who edit or remove Services, lost requests, and crashes.                *)
(***************************************************************************)
EXTENDS LoadbalancerReconciler

CONSTANTS
  Specs,   \* the Loadbalancer specs the ControlPlane reconciler may write
  Foreign  \* the selectors a user may give a Service

ASSUME SpecsAreLoadbalancerSpecs ==
  Specs \subseteq [name : ServiceNames, selectors : LabelMaps]
ASSUME ForeignAreSelectors == Foreign \subseteq LabelMaps
ASSUME LoadbalancerIsPresent ==
  LoadbalancerWatches \subseteq Objects /\ "loadbalancer" \in Controllers

vars == <<clusterVars, loadbalancerVars>>

Watches == [c \in {"loadbalancer"} |-> LoadbalancerWatches]

Init == ClusterInit /\ LoadbalancerInit

-----------------------------------------------------------------------------
(* The environment.                                                        *)

\* The ControlPlane reconciler creates the Loadbalancer or patches its spec.
ApplyLoadbalancer(spec) ==
  /\ Interfere("apply", "lb",
       [name |-> spec.name, selectors |-> spec.selectors,
        ip |-> IF Exists("lb") THEN Store("lb").ip ELSE NoIP])
  /\ UNCHANGED loadbalancerVars

RemoveLoadbalancer ==
  /\ Exists("lb")
  /\ Interfere("delete", "lb", Absent)
  /\ UNCHANGED loadbalancerVars

\* Someone else writes the status.
EditStatus(ip) ==
  /\ Exists("lb")
  /\ Interfere("drift", "lb", [Store("lb") EXCEPT !.ip = ip])
  /\ UNCHANGED loadbalancerVars

\* The cloud provider publishes, moves or withdraws the Service's ingress.
Provision(s, ingress) ==
  /\ Exists(s)
  /\ Interfere("provision", s, [Store(s) EXCEPT !.ingress = ingress])
  /\ UNCHANGED loadbalancerVars

EditService(s, selector) ==
  /\ Exists(s)
  /\ Interfere("drift", s, [Store(s) EXCEPT !.selector = selector])
  /\ UNCHANGED loadbalancerVars

RemoveService(s) ==
  /\ Exists(s)
  /\ Interfere("remove", s, Absent)
  /\ UNCHANGED loadbalancerVars

Crash == Relist(Watches) /\ EndLoadbalancer

Environment ==
  \/ \E spec \in Specs : ApplyLoadbalancer(spec)
  \/ RemoveLoadbalancer
  \/ \E ip \in Addresses : EditStatus(ip)
  \/ \E s \in ServiceNames, ingress \in Addresses \cup {NoIngress} : Provision(s, ingress)
  \/ \E s \in ServiceNames, selector \in Foreign : EditService(s, selector)
  \/ \E s \in ServiceNames : RemoveService(s)
  \/ Crash

Watch(o) == Deliver(o, Watches) /\ UNCHANGED loadbalancerVars

\* Nothing is left to do for the controller.
Settled == LoadbalancerQuiet /\ lbpc = "idle"

\* The informers' resync comes hours apart, to a controller at rest.
PeriodicResync == Settled /\ Resync(Watches) /\ UNCHANGED loadbalancerVars

Next ==
  \/ LoadbalancerReconcile
  \/ \E o \in LoadbalancerWatches : Watch(o)
  \/ PeriodicResync
  \/ Environment

Spec == Init /\ [][Next]_vars

\* The worker of a non-empty queue runs and the watches deliver.
Fairness ==
  /\ WF_vars(LoadbalancerReconcile)
  /\ \A o \in LoadbalancerWatches : WF_vars(Watch(o))

FairSpec == Spec /\ Fairness

-----------------------------------------------------------------------------
(* Properties.                                                             *)

TypeOK ==
  /\ TypedTimelines(LoadbalancerWatches)
  /\ queue \subseteq Controllers
  /\ current \subseteq Objects
  /\ budget \in Nat
  /\ LoadbalancerLocals

\* When nothing is left to do for the controller, the Service the Loadbalancer
\* names exists and selects the right pods, whatever was edited, renamed,
\* removed or lost on the way.
SettledService == Settled /\ Exists("lb") => ServiceInSync

\* ... and the Loadbalancer's status is the Service's address, unless the last
\* pass's update failed for another reason than a conflict.  The conflicts,
\* which Reconcile drops without a retry, are harmless: the write that caused
\* one has an event on its way; and whatever starts a pass after a failure
\* makes up for it.
SettledAddress == Settled /\ ~lost /\ Exists("lb") => AddressInSync

\* What one expects of a controller at rest, and the dropped error denies.
PublishedAddress == Settled /\ Exists("lb") => AddressInSync

\* An address that an update failed to publish is published after all when
\* the informers' resync comes round.
AddressCatchesUp ==
  WF_vars(PeriodicResync) => <>[](Exists("lb") => AddressInSync)

\* The controller is a level-triggered one, for the Service and (while no
\* update of it is lost) the published address, and comes to rest once the
\* disturbances end: its status update does not keep waking it up.
Level ==
  INSTANCE LevelTriggered WITH
    due   <- ~Settled,
    right <- (Exists("lb") => ServiceInSync /\ (lost \/ AddressInSync))

ImplementsLevelTriggered == Level!FairSpec

-----------------------------------------------------------------------------
(* The strengthening under which SettledService and SettledAddress are     *)
(* preserved by every step.                                                *)

Inductive == TypeOK /\ CurrentCopy /\ LoadbalancerPass
==============================================================================
