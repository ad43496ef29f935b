------------------------ MODULE ControlPlaneReconciler ------------------------
(***************************************************************************)
(* ControlPlaneReconciler.Reconcile: one request (one ControlPlane), one   *)
(* worker.  A pass reads the ControlPlane from the cache and then creates  *)
(* or patches its five children in order; the pass can be interleaved with *)
(* anything between two API calls, so each call is an action.              *)
(***************************************************************************)
EXTENDS Resources

VARIABLES
  cppc, \* the child the running pass is about to write, or "idle"
  lcp,  \* the pass's copy of the ControlPlane
  llb   \* the pass's copy of the Loadbalancer, once written

controlPlaneVars == <<cppc, lcp, llb>>

Children == {"lb", "pki", "kas", "kcm", "ks"}
ControlPlaneObjects == Children \cup {"cp"}

\* Mutants of the watches: an Owns(KubeAPIServer), and an Owns(Loadbalancer),
\* that was forgotten.
WatchesWithoutApiServer == {"cp", "pki", "kcm", "lb"}
WatchesWithoutLoadbalancer == {"cp", "pki", "kas", "kcm"}

\* For(ControlPlane) and the four Owns: KubeScheduler is not among them.
ControlPlaneWatches == {"cp", "pki", "kas", "kcm", "lb"}

\* CoaleseString: the first string that is not empty.
CoaleseString(own, general) == IF own # 0 THEN own ELSE general

(***************************************************************************)
(* What the mutate functions make of the children.  The Loadbalancer keeps *)
(* its status; every other child is overwritten.                           *)
(***************************************************************************)
LoadbalancerFor(cp, ip) == [name |-> cp.name, selectors |-> cp.selectors, ip |-> ip]

PkiFor(lb) == [ip |-> lb.ip]

\* Mutant: the Service's extra selectors are not put on the pods.
KubeAPIServerWithoutSelectors(cp, lb) ==
  [version |-> CoaleseString(cp.kas, cp.version),
   labels  |-> cp.labels,
   address |-> lb.ip]

KubeAPIServerFor(cp, lb) ==
  [version |-> CoaleseString(cp.kas, cp.version),
   labels  |-> ApiServerLabels(cp.labels, lb.selectors),
   address |-> lb.ip]

KubeControllerManagerFor(cp) == [version |-> CoaleseString(cp.kcm, cp.version)]

KubeSchedulerFor(cp) == [version |-> CoaleseString(cp.ks, cp.version)]

ChildFor(o, cp, lb) ==
  CASE o = "lb"  -> LoadbalancerFor(cp, lb.ip)
    [] o = "pki" -> PkiFor(lb)
    [] o = "kas" -> KubeAPIServerFor(cp, lb)
    [] o = "kcm" -> KubeControllerManagerFor(cp)
    [] o = "ks"  -> KubeSchedulerFor(cp)

\* The Loadbalancer the first CreateOrPatch starts from.
CachedLoadbalancer ==
  IF Cached("lb") = Absent
    THEN [name |-> lcp.name, selectors |-> lcp.selectors, ip |-> NoIP]
    ELSE Cached("lb")

\* The object the running pass writes next.
After(o) == ChildFor(o, lcp, IF o = "lb" THEN CachedLoadbalancer ELSE llb)

\* Mutant: the controller manager is written before the API server.
NextChildManagerFirst(o) ==
  CASE o = "lb"  -> "pki"
    [] o = "pki" -> "kcm"
    [] o = "kcm" -> "kas"
    [] o = "kas" -> "ks"
    [] o = "ks"  -> "idle"

NextChild(o) ==
  CASE o = "lb"  -> "pki"
    [] o = "pki" -> "kas"
    [] o = "kas" -> "kcm"
    [] o = "kcm" -> "ks"
    [] o = "ks"  -> "idle"

ControlPlaneInit == cppc = "idle" /\ lcp = Absent /\ llb = Absent

\* Reconcile returns and its local variables are gone.
EndControlPlane == cppc' = "idle" /\ lcp' = Absent /\ llb' = Absent

\* Mutant: a ControlPlane that is not found is reconciled all the same.
StartControlPlaneUnchecked ==
  /\ cppc = "idle"
  /\ "controlplane" \in queue
  /\ queue' = queue \ {"controlplane"}
  /\ cppc' = "lb" /\ lcp' = Cached("cp")
  /\ UNCHANGED <<obj, current, budget, llb>>

\* The worker takes the request.  A ControlPlane the cache does not have is
\* taken for deleted and the pass ends at once.
StartControlPlane ==
  /\ cppc = "idle"
  /\ "controlplane" \in queue
  /\ queue' = queue \ {"controlplane"}
  /\ IF Cached("cp") = Absent
       THEN UNCHANGED <<cppc, lcp>>
       ELSE cppc' = "lb" /\ lcp' = Cached("cp")
  /\ UNCHANGED <<obj, current, budget, llb>>

\* Mutant: a KubeScheduler that exists is left alone.
EnsureChildSchedulerOnce(o) ==
  /\ cppc = o
  /\ IF o = "ks" /\ Cached(o) # Absent
       THEN UNCHANGED <<obj, current>>
       ELSE CreateOrPatch(o, After(o))
  /\ cppc' = NextChild(o)
  /\ lcp' = IF o = "ks" THEN Absent ELSE lcp
  /\ llb' = CASE o = "lb" -> Returned(o, After(o))
              [] o = "ks" -> Absent
              [] OTHER    -> llb
  /\ UNCHANGED <<queue, budget>>

\* One CreateOrPatch succeeds and the pass moves to the next child, or ends
\* after the KubeScheduler.
EnsureChild(o) ==
  /\ cppc = o
  /\ CreateOrPatch(o, After(o))
  /\ cppc' = NextChild(o)
  /\ lcp' = IF o = "ks" THEN Absent ELSE lcp
  /\ llb' = CASE o = "lb" -> Returned(o, After(o))
              [] o = "ks" -> Absent
              [] OTHER    -> llb
  /\ UNCHANGED <<queue, budget>>

\* Mutant: the error is logged and not returned.
FailChildSwallowed(o) ==
  /\ cppc = o
  /\ Sends(o, After(o))
  /\ WriteFails(o, After(o))
  /\ UNCHANGED queue
  /\ EndControlPlane

\* One CreateOrPatch fails: Reconcile returns the error and the request is
\* queued again after a back-off.
FailChild(o) ==
  /\ cppc = o
  /\ Sends(o, After(o))
  /\ WriteFails(o, After(o))
  /\ queue' = queue \cup {"controlplane"}
  /\ EndControlPlane

ControlPlaneReconcile ==
  \/ StartControlPlane
  \/ \E o \in Children : EnsureChild(o) \/ FailChild(o)

-----------------------------------------------------------------------------
(* What a pass keeps, whatever it runs together with.                      *)

\* A running pass holds the copies its next write needs.
ControlPlaneLocals ==
  /\ cppc \in Children \cup {"idle"}
  /\ lcp \in IF cppc = "idle" THEN {Absent} ELSE ControlPlanes
  /\ llb \in IF cppc \in {"idle", "lb"} THEN {Absent} ELSE Loadbalancers

\* No request is queued and no event that would queue one is on its way.
ControlPlaneQuiet ==
  /\ "controlplane" \notin queue
  /\ \A o \in ControlPlaneWatches : Fresh(o)

\* A child is what the ControlPlane and the Loadbalancer, as the API server
\* has them, ask for.
InSync(o) ==
  /\ Exists("lb")
  /\ Store(o) = ChildFor(o, Store("cp"), Store("lb"))

\* The children the controller keeps as they should be: all but the scheduler,
\* whose changes it is not told about.
OwnedChildren == Children \ {"ks"}

\* The children a pass has written.
Done(pc) ==
  CASE pc \in {"idle", "lb"} -> {}
    [] pc = "pki" -> {"lb"}
    [] pc = "kas" -> {"lb", "pki"}
    [] pc = "kcm" -> {"lb", "pki", "kas"}
    [] pc = "ks"  -> {"lb", "pki", "kas", "kcm"}

\* While nothing is on its way to the controller, a pass works on the
\* server's versions and the children it has written are in sync.
ControlPlanePass ==
  ControlPlaneQuiet =>
    /\ cppc = "idle" /\ Exists("cp") => \A o \in OwnedChildren : InSync(o)
    /\ cppc # "idle" => lcp = Store("cp")
    /\ cppc \in Children \ {"lb"} => llb = Store("lb")
    /\ \A o \in Done(cppc) : InSync(o)
==============================================================================
