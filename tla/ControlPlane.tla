----------------------------- MODULE ControlPlane -----------------------------
(***************************************************************************)
(* The ControlPlane reconciler in its environment: a user who creates,     *)
(* edits and deletes the ControlPlane, a Loadbalancer whose address comes  *)
(* and moves, children that are edited or removed behind the operator's    *)
(* back (by hand or by the garbage collector), lost API requests and       *)
(* answers, and crashes of the manager.                                    *)
(***************************************************************************)
EXTENDS ControlPlaneReconciler

CONSTANTS
  Specs,  \* the ControlPlanes a user may write
  Foreign \* child -> what it may be edited to behind the operator's back

ASSUME SpecsAreControlPlanes == Specs \subseteq ControlPlanes
ASSUME ForeignAreChildren == \A o \in Children : Foreign[o] \subseteq KindOf(o)
ASSUME ControlPlaneIsPresent ==
  ControlPlaneObjects \subseteq Objects /\ "controlplane" \in Controllers

vars == <<clusterVars, controlPlaneVars>>

Watches == [c \in {"controlplane"} |-> ControlPlaneWatches]

Init == ClusterInit /\ ControlPlaneInit

-----------------------------------------------------------------------------
(* The environment.                                                        *)

\* The user applies a ControlPlane; going back to an older version is a
\* disturbance of its own.
Apply(spec) ==
  /\ IF Exists("cp") /\ spec.version < Store("cp").version
       THEN Interfere("rollback", "cp", spec)
       ELSE Interfere("apply", "cp", spec)
  /\ UNCHANGED controlPlaneVars

DeleteControlPlane ==
  /\ Exists("cp")
  /\ Interfere("delete", "cp", Absent)
  /\ UNCHANGED controlPlaneVars

\* The Loadbalancer reconciler publishes the address of the Service.
PublishAddress(ip) ==
  /\ Exists("lb")
  /\ Interfere("address", "lb", [Store("lb") EXCEPT !.ip = ip])
  /\ UNCHANGED controlPlaneVars

\* A child is edited behind the operator's back ...
EditChild(o, version) ==
  /\ Exists(o)
  /\ Interfere("drift", o, version)
  /\ UNCHANGED controlPlaneVars

\* ... or removed, by hand or by the garbage collector.
RemoveChild(o) ==
  /\ Exists(o)
  /\ Interfere("remove", o, Absent)
  /\ UNCHANGED controlPlaneVars

Crash == Relist(Watches) /\ EndControlPlane

Environment ==
  \/ \E spec \in Specs : Apply(spec)
  \/ DeleteControlPlane
  \/ \E ip \in Addresses \ {NoIP} : PublishAddress(ip)
  \/ \E o \in Children : \E version \in Foreign[o] : EditChild(o, version)
  \/ \E o \in Children : RemoveChild(o)
  \/ Crash

Watch(o) == Deliver(o, Watches) /\ UNCHANGED controlPlaneVars

\* Nothing is left to do for the controller.
Settled == ControlPlaneQuiet /\ cppc = "idle"

\* The informers' resync comes hours apart, to a controller at rest.
PeriodicResync == Settled /\ Resync(Watches) /\ UNCHANGED controlPlaneVars

Next ==
  \/ ControlPlaneReconcile
  \/ \E o \in ControlPlaneObjects : Watch(o)
  \/ PeriodicResync
  \/ Environment

Spec == Init /\ [][Next]_vars

\* The worker of a non-empty queue runs and the watches deliver.
Fairness ==
  /\ WF_vars(ControlPlaneReconcile)
  /\ \A o \in ControlPlaneObjects : WF_vars(Watch(o))

FairSpec == Spec /\ Fairness

-----------------------------------------------------------------------------
(* Properties.                                                             *)

\* Every timeline holds versions of its kind, and a running pass holds the
\* copies its next write needs.
TypeOK ==
  /\ TypedTimelines(ControlPlaneObjects)
  /\ queue \subseteq Controllers
  /\ current \subseteq Objects
  /\ budget \in Nat
  /\ ControlPlaneLocals

\* When nothing is left to do for the controller, every child it owns is in
\* sync: a pass over stale copies of the ControlPlane or of a child, an edit
\* or removal of a child in the middle of a pass, a lost request and a crash
\* are all made up for, for as long as it takes.  (Reconcile and its Owns.)
SettledInSync ==
  Settled /\ Exists("cp") => \A o \in OwnedChildren : InSync(o)

\* The test "Keep version in sync" asks the same of the KubeScheduler.
SettledSchedulerInSync ==
  Settled /\ Fresh("ks") /\ Exists("cp") => InSync("ks")

\* During an upgrade neither the controller manager nor the scheduler is ever
\* asked to run a version newer than the API server's (the order of the
\* writes in Reconcile, and its return at the first error).
ApiServerUpgradesFirst ==
  \A o \in {"kcm", "ks"} :
    Exists(o) => Exists("kas") /\ Store(o).version <= Store("kas").version

\* The controller is a level-triggered one, for the children it owns, and
\* comes to rest once the disturbances end: its own writes do not keep waking
\* it up.
Level ==
  INSTANCE LevelTriggered WITH
    due   <- ~Settled,
    right <- (Exists("cp") => \A o \in OwnedChildren : InSync(o))

ImplementsLevelTriggered == Level!FairSpec

\* The scheduler, whose changes nobody is told about, is put right all the
\* same once the informers' resync comes round: a pass gets past the four
\* children before it.
SchedulerCatchesUp ==
  WF_vars(PeriodicResync) => <>[](Exists("cp") => InSync("ks"))

-----------------------------------------------------------------------------
(* The strengthening under which SettledInSync is preserved by every step. *)

Inductive == TypeOK /\ ControlPlanePass

-----------------------------------------------------------------------------
(* The strengthening under which ApiServerUpgradesFirst is.                *)

\* Versions do not go down from a to b, and b exists if a does.
NotAbove(a, b) == a # Absent => b # Absent /\ a.version <= b.version

\* Nobody has taken an object back to an older version.
Rising(o) ==
  \A j \in 1..Len(obj[o]) : \A i \in 1..j : NotAbove(obj[o][i], obj[o][j])

\* The version of the API server that a ControlPlane asks for.
ApiServerVersion(cp) == CoaleseString(cp.kas, cp.version)

\* The users only upgrade: each ControlPlane they may write asks for no
\* component newer than its API server and, the newer it is, for no older API
\* server; none is rolled back or deleted, and no child is edited or removed.
OnlyUpgrades ==
  /\ Disturbances \cap {"rollback", "delete", "drift", "remove"} = {}
  /\ \A cp \in Specs :
       /\ CoaleseString(cp.kcm, cp.version) <= ApiServerVersion(cp)
       /\ CoaleseString(cp.ks, cp.version) <= ApiServerVersion(cp)
  /\ \A cp, later \in Specs :
       cp.version <= later.version => ApiServerVersion(cp) <= ApiServerVersion(later)

\* The ControlPlane that bounds what the API server has been asked for: the
\* running pass's copy, or the one the next pass will read.
Asked == IF cppc = "idle" THEN Cached("cp") ELSE lcp

\* The ControlPlane only rises and a pass works on a version the cache has
\* had; the API server only rises, up to what has been asked for, and reaches
\* that before the pass comes to the other two.
UpgradeOrder ==
  /\ \A i \in 1..Len(obj["cp"]) : obj["cp"][i] \in Specs \cup {Absent}
  /\ Rising("cp") /\ Rising("kas")
  /\ cppc # "idle" => lcp \in Specs /\ NotAbove(lcp, Cached("cp"))
  /\ Exists("kas") =>
       Asked # Absent /\ Store("kas").version <= ApiServerVersion(Asked)
  /\ cppc \in {"kcm", "ks"} =>
       Exists("kas") /\ ApiServerVersion(lcp) <= Store("kas").version
  /\ ApiServerUpgradesFirst
==============================================================================
