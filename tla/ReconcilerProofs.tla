--------------------------- MODULE ReconcilerProofs ---------------------------
(***************************************************************************)
(* What the ControlPlane and the Loadbalancer reconcilers keep, each taken *)
(* by itself: what its own steps do, and what it is enough that others do. *)
(* The models that run them - alone in an environment, or side by side in  *)
(* one manager - put these lemmas together.                                *)
(***************************************************************************)
EXTENDS ControlPlaneReconciler, LoadbalancerReconciler, ClusterProofs

-----------------------------------------------------------------------------
(* The same for all the objects of a set.                                  *)

\* What the copies of a typed object can be.
LEMMA TypedEnds ==
  ASSUME NEW S, TypedTimelines(S), NEW o \in S
  PROVE  /\ Store(o) \in KindOf(o) \cup {Absent}
         /\ Cached(o) \in KindOf(o) \cup {Absent}
         /\ Fresh(o) => Cached(o) = Store(o)
  BY TimelineEnds DEF TypedTimelines, Timeline

\* A write of a version of the right kind.
LEMMA TypedCommit ==
  ASSUME NEW S \in SUBSET Objects, TypedTimelines(S),
         NEW o \in S, NEW v \in KindOf(o) \cup {Absent}, Commit(o, v)
  PROVE  /\ TypedTimelines(S)'
         /\ Store(o)' = v
         /\ Fresh(o)' => Fresh(o) /\ v = Store(o)
         /\ \A p \in S \ {o} : /\ Store(p)' = Store(p)
                               /\ Cached(p)' = Cached(p)
                               /\ Fresh(p)' = Fresh(p)
         /\ current' \subseteq current
  <1>1. o \in DOMAIN obj /\ Timeline(o, KindOf(o) \cup {Absent})
    BY DEF TypedTimelines, Timeline
  <1>2. /\ Timeline(o, KindOf(o) \cup {Absent})'
        /\ Store(o)' = v
        /\ Fresh(o)' => Fresh(o) /\ v = Store(o)
    BY <1>1, CommitTimeline
  <1>3. /\ DOMAIN obj' = Objects
        /\ \A p \in S \ {o} : obj'[p] = obj[p]
        /\ current' \subseteq current
    BY CommitFrame DEF TypedTimelines
  <1>4. TypedTimelines(S)'
    BY <1>2, <1>3 DEF TypedTimelines, Timeline
  <1> QED BY <1>2, <1>3, <1>4 DEF Store, Cached, Fresh

\* A watch event.
LEMMA TypedDeliver ==
  ASSUME NEW S \in SUBSET Objects, TypedTimelines(S),
         NEW o \in S, NEW watched, Deliver(o, watched)
  PROVE  /\ TypedTimelines(S)'
         /\ \A p \in S : Store(p)' = Store(p)
         /\ \A p \in S \ {o} : Fresh(p)' = Fresh(p)
  <1>1. o \in DOMAIN obj /\ Timeline(o, KindOf(o) \cup {Absent})
    BY DEF TypedTimelines, Timeline
  <1>2. /\ Timeline(o, KindOf(o) \cup {Absent})'
        /\ Store(o)' = Store(o)
        /\ DOMAIN obj' = DOMAIN obj
        /\ \A p \in S \ {o} : obj'[p] = obj[p]
    BY <1>1, DeliverTimeline DEF TypedTimelines
  <1> QED BY <1>2 DEF TypedTimelines, Timeline, Store, Fresh

\* A restart.
LEMMA TypedRelist ==
  ASSUME NEW S \in SUBSET Objects, TypedTimelines(S), NEW watched, Relist(watched)
  PROVE  TypedTimelines(S)' /\ \A p \in S : Store(p)' = Store(p)
  <1>1. ASSUME NEW p \in S
        PROVE  /\ Timeline(p, KindOf(p) \cup {Absent})'
               /\ Store(p)' = Store(p)
               /\ DOMAIN obj' = DOMAIN obj
    BY RelistTimeline DEF TypedTimelines, Timeline
  <1>2. DOMAIN obj' = DOMAIN obj
    BY DEF Relist
  <1> QED BY <1>1, <1>2 DEF TypedTimelines, Timeline

-----------------------------------------------------------------------------
(* The kinds of the objects.                                               *)

\* Each name has the kind it is meant to have.
LEMMA Kinds ==
  /\ KindOf("cp") = ControlPlanes
  /\ KindOf("lb") = Loadbalancers
  /\ KindOf("pki") = Pkis
  /\ KindOf("kas") = KubeAPIServers
  /\ KindOf("kcm") = KubeControllerManagers
  /\ KindOf("ks") = KubeSchedulers
  /\ \A s \in ServiceNames : KindOf(s) = Services
  <1>1. ASSUME NEW o \in {"cp", "lb", "pki", "kas", "kcm", "ks"} PROVE o \notin ServiceNames
    BY ServicesAreNamedApart
  <1>2. ASSUME NEW s \in ServiceNames PROVE KindOf(s) = Services
    <2>1. s \notin {"cp", "lb", "pki", "kas", "kcm", "ks"}
      BY ServicesAreNamedApart
    <2> QED BY <2>1 DEF KindOf
  <1> QED BY <1>1, <1>2 DEF KindOf

-----------------------------------------------------------------------------
(* Merge patches and mutate functions.                                     *)

\* A merge patch keeps the kind of each child, and over an up-to-date copy it
\* yields the mutated object.
LEMMA PatchedLoadbalancer ==
  ASSUME NEW s \in Loadbalancers, NEW b \in Loadbalancers, NEW a \in Loadbalancers
  PROVE  Patched(s, b, a) \in Loadbalancers /\ (s = b => Patched(s, b, a) = a)
  <1>1. DOMAIN s = {"name", "selectors", "ip"}
    BY DEF Loadbalancers
  <1>2. Patched(s, b, a) =
          [name      |-> IF a.name # b.name THEN a.name ELSE s.name,
           selectors |-> IF a.selectors # b.selectors THEN a.selectors ELSE s.selectors,
           ip        |-> IF a.ip # b.ip THEN a.ip ELSE s.ip]
    BY <1>1 DEF Patched
  <1>3. a = [name |-> a.name, selectors |-> a.selectors, ip |-> a.ip]
    BY DEF Loadbalancers
  <1> QED BY <1>2, <1>3 DEF Loadbalancers

\* The same for the Pki.
LEMMA PatchedPki ==
  ASSUME NEW s \in Pkis, NEW b \in Pkis, NEW a \in Pkis
  PROVE  Patched(s, b, a) \in Pkis /\ (s = b => Patched(s, b, a) = a)
  <1>1. DOMAIN s = {"ip"}
    BY DEF Pkis
  <1>2. Patched(s, b, a) = [ip |-> IF a.ip # b.ip THEN a.ip ELSE s.ip]
    BY <1>1 DEF Patched
  <1>3. a = [ip |-> a.ip]
    BY DEF Pkis
  <1> QED BY <1>2, <1>3 DEF Pkis

\* The same for the KubeAPIServer.
LEMMA PatchedKubeAPIServer ==
  ASSUME NEW s \in KubeAPIServers, NEW b \in KubeAPIServers, NEW a \in KubeAPIServers
  PROVE  Patched(s, b, a) \in KubeAPIServers /\ (s = b => Patched(s, b, a) = a)
  <1>1. DOMAIN s = {"version", "labels", "address"}
    BY DEF KubeAPIServers
  <1>2. Patched(s, b, a) =
          [version |-> IF a.version # b.version THEN a.version ELSE s.version,
           labels  |-> IF a.labels # b.labels THEN a.labels ELSE s.labels,
           address |-> IF a.address # b.address THEN a.address ELSE s.address]
    BY <1>1 DEF Patched
  <1>3. a = [version |-> a.version, labels |-> a.labels, address |-> a.address]
    BY DEF KubeAPIServers
  <1> QED BY <1>2, <1>3 DEF KubeAPIServers

\* The same for the components that have a version only.
LEMMA PatchedVersioned ==
  ASSUME NEW s \in [version : Versions], NEW b \in [version : Versions],
         NEW a \in [version : Versions]
  PROVE  Patched(s, b, a) \in [version : Versions] /\ (s = b => Patched(s, b, a) = a)
  <1>1. DOMAIN s = {"version"}
    OBVIOUS
  <1>2. Patched(s, b, a) = [version |-> IF a.version # b.version THEN a.version ELSE s.version]
    BY <1>1 DEF Patched
  <1>3. a = [version |-> a.version]
    OBVIOUS
  <1> QED BY <1>2, <1>3

\* All of them.
LEMMA PatchedChild ==
  ASSUME NEW o \in Children, NEW s \in KindOf(o), NEW b \in KindOf(o), NEW a \in KindOf(o)
  PROVE  Patched(s, b, a) \in KindOf(o) /\ (s = b => Patched(s, b, a) = a)
  <1> USE Kinds
  <1>1. CASE o = "lb"
    BY <1>1, PatchedLoadbalancer
  <1>2. CASE o = "pki"
    BY <1>2, PatchedPki
  <1>3. CASE o = "kas"
    BY <1>3, PatchedKubeAPIServer
  <1>4. CASE o \in {"kcm", "ks"}
    BY <1>4, PatchedVersioned DEF KubeControllerManagers, KubeSchedulers
  <1> QED BY <1>1, <1>2, <1>3, <1>4 DEF Children

\* A merge patch of a Service is a Service, and over an up-to-date copy it
\* yields the mutated object.
LEMMA PatchedService ==
  ASSUME NEW s \in Services, NEW b \in Services, NEW a \in Services
  PROVE  Patched(s, b, a) \in Services /\ (s = b => Patched(s, b, a) = a)
  <1>1. DOMAIN s = {"selector", "ingress"} /\ DOMAIN a = {"selector", "ingress"}
    BY DEF Services
  <1>2. Patched(s, b, a) =
          [selector |-> IF a.selector # b.selector THEN a.selector ELSE s.selector,
           ingress  |-> IF a.ingress # b.ingress THEN a.ingress ELSE s.ingress]
    BY <1>1 DEF Patched
  <1>3. a = [selector |-> a.selector, ingress |-> a.ingress]
    BY DEF Services
  <1> QED BY <1>2, <1>3 DEF Services

\* What the mutate functions make of a ControlPlane and a Loadbalancer.
LEMMA ChildForType ==
  ASSUME NEW cp \in ControlPlanes, NEW lb \in Loadbalancers, NEW o \in Children
  PROVE  ChildFor(o, cp, lb) \in KindOf(o)
  <1>1. /\ cp.version \in Versions /\ cp.kas \in Versions
        /\ cp.kcm \in Versions /\ cp.ks \in Versions
        /\ cp.name \in ServiceNames /\ cp.selectors \in LabelMaps /\ cp.labels \in LabelMaps
    BY DEF ControlPlanes
  <1>2. lb.selectors \in LabelMaps /\ lb.ip \in Addresses
    BY DEF Loadbalancers
  <1>3. ApiServerLabels(cp.labels, lb.selectors) \in LabelMaps
    BY <1>1, <1>2, ApiServerLabelsType
  <1>4. \A own \in {cp.kas, cp.kcm, cp.ks} : CoaleseString(own, cp.version) \in Versions
    BY <1>1 DEF CoaleseString
  <1>5. LoadbalancerFor(cp, lb.ip) \in Loadbalancers
    BY <1>1, <1>2 DEF LoadbalancerFor, Loadbalancers
  <1>6. PkiFor(lb) \in Pkis
    BY <1>2 DEF PkiFor, Pkis
  <1>7. KubeAPIServerFor(cp, lb) \in KubeAPIServers
    BY <1>2, <1>3, <1>4 DEF KubeAPIServerFor, KubeAPIServers
  <1>8. KubeControllerManagerFor(cp) \in KubeControllerManagers
    BY <1>4 DEF KubeControllerManagerFor, KubeControllerManagers
  <1>9. KubeSchedulerFor(cp) \in KubeSchedulers
    BY <1>4 DEF KubeSchedulerFor, KubeSchedulers
  <1> QED BY <1>5, <1>6, <1>7, <1>8, <1>9, Kinds DEF ChildFor, Children

-----------------------------------------------------------------------------
(* The cluster, for any set S of objects that a model has.                 *)

\* What every type invariant says of the cluster.
ClusterTyped(S) ==
  /\ TypedTimelines(S)
  /\ queue \subseteq Controllers
  /\ current \subseteq Objects
  /\ budget \in Nat

\* A step writes one object of S, or none.
Writes(S) ==
  \/ UNCHANGED <<obj, current>>
  \/ \E o \in S : \E v \in KindOf(o) \cup {Absent} : Commit(o, v)

\* Initially nothing exists.
LEMMA ClusterInitTyped ==
  ASSUME NEW S \in SUBSET Objects, ClusterInit
  PROVE  ClusterTyped(S) /\ \A o \in S : ~Exists(o) /\ Fresh(o)
  <1>1. \A o \in S : obj[o] = <<Absent>>
    BY DEF ClusterInit
  <1>2. \A T : Absent \in T => <<Absent>> \in Seq(T) /\ <<Absent>> # <<>>
    OBVIOUS
  <1>3. TypedTimelines(S)
    BY <1>1, <1>2 DEF ClusterInit, TypedTimelines
  <1> QED BY <1>1, <1>3, MaxDisturbancesIsNat
          DEF ClusterInit, ClusterTyped, Exists, Store, Fresh

\* A step that writes typed versions and queues known controllers keeps the
\* types.
LEMMA WritesTyped ==
  ASSUME NEW S \in SUBSET Objects, ClusterTyped(S), Writes(S),
         queue' \subseteq Controllers, budget' \in Nat
  PROVE  ClusterTyped(S)'
  <1>1. CASE UNCHANGED <<obj, current>>
    BY <1>1 DEF ClusterTyped, TypedTimelines
  <1>2. ASSUME NEW o \in S, NEW v \in KindOf(o) \cup {Absent}, Commit(o, v)
        PROVE  TypedTimelines(S)' /\ current' \subseteq current
    BY <1>2, TypedCommit DEF ClusterTyped
  <1> QED BY <1>1, <1>2 DEF Writes, ClusterTyped

\* An interference does.
LEMMA InterfereTyped ==
  ASSUME NEW S \in SUBSET Objects, ClusterTyped(S), NEW kind,
         NEW o \in S, NEW v \in KindOf(o) \cup {Absent}, Interfere(kind, o, v)
  PROVE  Writes(S) /\ queue' = queue /\ ClusterTyped(S)'
  <1>1. Writes(S) /\ queue' = queue
    BY DEF Interfere, Writes
  <1>2. budget' \in Nat
    BY DEF Interfere, Disturb, ClusterTyped
  <1> QED BY <1>1, <1>2, WritesTyped DEF ClusterTyped

\* So do watch events, restarts and resyncs, of controllers that exist.
LEMMA WatchTyped ==
  ASSUME NEW S \in SUBSET Objects, ClusterTyped(S),
         NEW watched, DOMAIN watched \subseteq Controllers,
         \/ \E o \in S : Deliver(o, watched)
         \/ Relist(watched)
         \/ Resync(watched)
  PROVE  ClusterTyped(S)'
  <1>1. ASSUME NEW o \in S, Deliver(o, watched) PROVE ClusterTyped(S)'
    <2>1. TypedTimelines(S)'
      BY <1>1, TypedDeliver DEF ClusterTyped
    <2> QED BY <1>1, <2>1 DEF Deliver, ClusterTyped
  <1>2. CASE Relist(watched)
    <2>1. TypedTimelines(S)'
      BY <1>2, TypedRelist DEF ClusterTyped
    <2> QED BY <1>2, <2>1 DEF Relist, Disturb, ClusterTyped
  <1>3. CASE Resync(watched)
    BY <1>3 DEF Resync, ClusterTyped, TypedTimelines
  <1> QED BY <1>1, <1>2, <1>3

-----------------------------------------------------------------------------
(* The ControlPlane reconciler.                                            *)

\* Its objects.
LEMMA ControlPlaneNames ==
  /\ ControlPlaneWatches \subseteq ControlPlaneObjects
  /\ Children \subseteq ControlPlaneObjects
  /\ "cp" \in ControlPlaneWatches /\ "lb" \in ControlPlaneWatches
  /\ OwnedChildren = Children \ {"ks"}
  /\ OwnedChildren \subseteq ControlPlaneWatches
  /\ \A o \in ControlPlaneObjects : Absent \notin KindOf(o)
  <1>1. \A o \in ControlPlaneObjects : Absent \notin KindOf(o)
    BY AbsentIsNoObject DEF ControlPlaneObjects, Children
  <1> QED BY <1>1 DEF ControlPlaneObjects, ControlPlaneWatches, Children, OwnedChildren

\* The child a pass asks for, and the one the server makes of it.
LEMMA EnsuredChild ==
  ASSUME NEW S \in SUBSET Objects, ControlPlaneObjects \subseteq S,
         ClusterTyped(S), ControlPlaneLocals, NEW o \in Children, cppc = o
  PROVE  /\ After(o) \in KindOf(o)
         /\ ~Refused(o) => Written(o, After(o)) \in KindOf(o)
         /\ ~Refused(o) /\ Fresh(o) => Written(o, After(o)) = After(o)
  <1> USE ControlPlaneNames
  <1>1. /\ Cached(o) \in KindOf(o) \cup {Absent}
        /\ Store(o) \in KindOf(o) \cup {Absent}
        /\ Fresh(o) => Cached(o) = Store(o)
    BY TypedEnds DEF ClusterTyped
  <1>2. lcp \in ControlPlanes
    BY DEF ControlPlaneLocals, Children
  <1>3. After(o) \in KindOf(o)
    <2>1. CASE o = "lb"
      <3>1. CachedLoadbalancer \in Loadbalancers
        BY <2>1, <1>1, <1>2, Kinds, ResourceVocabulary
           DEF CachedLoadbalancer, Loadbalancers, ControlPlanes
      <3> QED BY <2>1, <3>1, <1>2, ChildForType DEF After
    <2>2. CASE o # "lb"
      <3>1. llb \in Loadbalancers
        BY <2>2 DEF ControlPlaneLocals, Children
      <3> QED BY <2>2, <3>1, <1>2, ChildForType DEF After
    <2> QED BY <2>1, <2>2
  <1>4. ASSUME ~Refused(o)
        PROVE  /\ Written(o, After(o)) \in KindOf(o)
               /\ Fresh(o) => Written(o, After(o)) = After(o)
    <2>1. CASE Cached(o) = Absent
      BY <2>1, <1>3 DEF Written
    <2>2. CASE Cached(o) # Absent
      <3>1. Cached(o) \in KindOf(o) /\ Store(o) \in KindOf(o)
        BY <2>2, <1>1, <1>4 DEF Refused
      <3> QED BY <2>2, <3>1, <1>1, <1>3, PatchedChild DEF Written
    <2> QED BY <2>1, <2>2
  <1> QED BY <1>3, <1>4

\* A step of a pass writes a child or nothing, leaves the requests of other
\* controllers alone and keeps the types.
LEMMA ControlPlaneTypes ==
  ASSUME NEW S \in SUBSET Objects, ControlPlaneObjects \subseteq S,
         "controlplane" \in Controllers,
         ClusterTyped(S), ControlPlaneLocals, ControlPlaneReconcile
  PROVE  /\ Writes(S)
         /\ queue \ {"controlplane"} \subseteq queue'
         /\ ClusterTyped(S)'
         /\ ControlPlaneLocals'
  <1> USE ControlPlaneNames
  <1>1. SUFFICES /\ Writes(S)
                 /\ queue \ {"controlplane"} \subseteq queue'
                 /\ queue' \subseteq Controllers
                 /\ budget' \in Nat
                 /\ ControlPlaneLocals'
    BY WritesTyped
  <1>2. budget \in Nat /\ queue \subseteq Controllers
    BY DEF ClusterTyped
  <1>3. ASSUME NEW o \in Children, cppc = o, Write(o, After(o)) PROVE Writes(S)
    BY <1>3, EnsuredChild DEF Write, Writes
  <1>4. CASE StartControlPlane
    <2>1. Cached("cp") \in ControlPlanes \cup {Absent}
      BY Kinds, TypedEnds DEF ClusterTyped
    <2>2. ControlPlaneLocals'
      BY <1>4, <2>1 DEF StartControlPlane, ControlPlaneLocals, Children
    <2> QED BY <1>2, <1>4, <2>2 DEF StartControlPlane, Writes
  <1>5. ASSUME NEW o \in Children, EnsureChild(o)
        PROVE  Writes(S) /\ ControlPlaneLocals' /\ UNCHANGED <<queue, budget>>
    <2>1. Writes(S)
      BY <1>3, <1>5 DEF EnsureChild, CreateOrPatch, Writes
    <2>2. o = "lb" => Returned(o, After(o)) \in Loadbalancers
      <3>1. CASE Sends(o, After(o))
        BY <1>5, <3>1, EnsuredChild, Kinds DEF EnsureChild, CreateOrPatch, Write, Returned
      <3>2. CASE ~Sends(o, After(o))
        BY <1>5, <3>2, EnsuredChild, Kinds DEF EnsureChild, Sends, Returned
      <3> QED BY <3>1, <3>2
    <2>3. lcp \in ControlPlanes /\ (o # "lb" => llb \in Loadbalancers)
      BY <1>5 DEF EnsureChild, ControlPlaneLocals, Children
    <2>4. ControlPlaneLocals'
      BY <1>5, <2>2, <2>3 DEF EnsureChild, NextChild, ControlPlaneLocals, Children
    <2> QED BY <1>5, <2>1, <2>4 DEF EnsureChild
  <1>6. ASSUME NEW o \in Children, FailChild(o)
        PROVE  /\ Writes(S) /\ ControlPlaneLocals'
               /\ queue' = queue \cup {"controlplane"} /\ budget' \in Nat
    <2>1. Writes(S)
      BY <1>3, <1>6 DEF FailChild, WriteFails, Writes
    <2>2. ControlPlaneLocals'
      BY <1>6 DEF FailChild, EndControlPlane, ControlPlaneLocals
    <2>3. budget' \in Nat
      BY <1>2, <1>6 DEF FailChild, WriteFails, Disturb
    <2> QED BY <1>6, <2>1, <2>2, <2>3 DEF FailChild
  <1> QED BY <1>2, <1>4, <1>5, <1>6 DEF ControlPlaneReconcile

\* A step that changes no version of a watched object and no local variable
\* keeps what the pass keeps.
LEMMA ControlPlaneFrame ==
  ASSUME ControlPlaneLocals, ControlPlanePass, UNCHANGED controlPlaneVars,
         "controlplane" \in queue => "controlplane" \in queue',
         \A o \in ControlPlaneWatches : Store(o)' = Store(o) /\ Fresh(o)' = Fresh(o)
  PROVE  ControlPlanePass'
  <1> USE ControlPlaneNames
  <1>1. Exists("cp")' = Exists("cp") /\ Exists("lb")' = Exists("lb")
    BY DEF Exists
  <1>2. \A o \in ControlPlaneWatches : InSync(o)' = InSync(o)
    BY <1>1 DEF InSync
  <1>3. Done(cppc) \subseteq ControlPlaneWatches
    <2>1. cppc \in {"idle", "lb", "pki", "kas", "kcm", "ks"}
      BY DEF ControlPlaneLocals, Children
    <2> QED BY <2>1 DEF Done, ControlPlaneWatches
  <1>4. ControlPlaneQuiet' => ControlPlaneQuiet
    BY DEF ControlPlaneQuiet
  <1> QED BY <1>1, <1>2, <1>3, <1>4 DEF ControlPlanePass, controlPlaneVars

\* A write of a watched object after which nothing is on its way changed
\* nothing.
LEMMA ControlPlaneQuietCommit ==
  ASSUME NEW S \in SUBSET Objects, ControlPlaneObjects \subseteq S, ClusterTyped(S),
         NEW o \in ControlPlaneWatches, NEW v \in KindOf(o) \cup {Absent},
         Commit(o, v), "controlplane" \in queue => "controlplane" \in queue',
         ControlPlaneQuiet'
  PROVE  /\ ControlPlaneQuiet
         /\ v = Store(o)
         /\ \A p \in S : Store(p)' = Store(p)
  <1> USE ControlPlaneNames
  <1>1. /\ Store(o)' = v
        /\ Fresh(o)' => Fresh(o) /\ v = Store(o)
        /\ \A p \in S \ {o} : Store(p)' = Store(p) /\ Fresh(p)' = Fresh(p)
    BY TypedCommit DEF ClusterTyped
  <1>2. v = Store(o)
    BY <1>1 DEF ControlPlaneQuiet
  <1> QED BY <1>1, <1>2 DEF ControlPlaneQuiet

\* What others do between two calls of a pass - the user, the other
\* controllers, the garbage collector - keeps it: a write of a watched object
\* leaves an event on its way.
LEMMA ControlPlaneAmongOthers ==
  ASSUME NEW S \in SUBSET Objects, ControlPlaneObjects \subseteq S, ClusterTyped(S),
         ControlPlaneLocals, ControlPlanePass,
         UNCHANGED controlPlaneVars, queue \subseteq queue' \cup {"loadbalancer"},
         UNCHANGED obj \/ Writes(S)
  PROVE  ControlPlanePass'
  <1> USE ControlPlaneNames
  <1>1. CASE UNCHANGED obj
    BY <1>1, ControlPlaneFrame DEF Store, Fresh
  <1>2. ASSUME NEW o \in S, NEW v \in KindOf(o) \cup {Absent}, Commit(o, v)
        PROVE  ControlPlanePass'
    <2>1. CASE o \in ControlPlaneWatches /\ v # Store(o)
      BY <1>2, <2>1, ControlPlaneQuietCommit DEF ControlPlanePass
    <2>2. CASE o \notin ControlPlaneWatches \/ v = Store(o)
      <3>1. o \in DOMAIN obj /\ ControlPlaneWatches \subseteq DOMAIN obj
        BY DEF ClusterTyped, TypedTimelines
      <3>2. \A p \in ControlPlaneWatches : obj'[p] = obj[p]
        BY <1>2, <2>2, <3>1 DEF Commit
      <3> QED BY <3>2, ControlPlaneFrame DEF Store, Fresh
    <2> QED BY <2>1, <2>2
  <1> QED BY <1>1, <1>2 DEF Writes

\* So do a watch event, a restart and a resync, of which it is told.
LEMMA ControlPlaneTold ==
  ASSUME NEW S \in SUBSET Objects, ControlPlaneObjects \subseteq S, ClusterTyped(S),
         ControlPlaneLocals, ControlPlanePass,
         NEW watched, "controlplane" \in DOMAIN watched,
         watched["controlplane"] = ControlPlaneWatches,
         \/ (\E o \in S : Deliver(o, watched)) /\ UNCHANGED controlPlaneVars
         \/ Relist(watched) /\ EndControlPlane
         \/ Resync(watched) /\ UNCHANGED controlPlaneVars
  PROVE  ControlPlanePass'
  <1> USE ControlPlaneNames
  <1>1. ASSUME NEW o \in S, Deliver(o, watched), UNCHANGED controlPlaneVars
        PROVE  ControlPlanePass'
    <2>1. CASE o \in ControlPlaneWatches
      <3>1. "controlplane" \in queue'
        BY <1>1, <2>1 DEF Deliver
      <3> QED BY <3>1 DEF ControlPlaneQuiet, ControlPlanePass
    <2>2. CASE o \notin ControlPlaneWatches
      <3>1. \A p \in ControlPlaneWatches : Store(p)' = Store(p) /\ Fresh(p)' = Fresh(p)
        BY <1>1, <2>2, TypedDeliver DEF ClusterTyped
      <3>2. queue \subseteq queue'
        BY <1>1 DEF Deliver
      <3> QED BY <1>1, <3>1, <3>2, ControlPlaneFrame
    <2> QED BY <2>1, <2>2
  <1>2. CASE Relist(watched) /\ EndControlPlane
    <2>1. cppc' = "idle" /\ Done(cppc') = {}
      BY <1>2 DEF EndControlPlane, Done
    <2>2. Exists("cp") => "controlplane" \in queue'
      BY <1>2 DEF Relist
    <2>3. Exists("cp")' <=> Exists("cp")
      BY <1>2, TypedRelist DEF Exists, ClusterTyped
    <2> QED BY <2>1, <2>2, <2>3 DEF ControlPlaneQuiet, ControlPlanePass, Children
  <1>3. CASE Resync(watched) /\ UNCHANGED controlPlaneVars
    BY <1>3, ControlPlaneFrame DEF Resync, Store, Fresh
  <1> QED BY <1>1, <1>2, <1>3

\* Its own steps: no step of a pass leaves the controller with nothing to do
\* and a child it owns out of sync.
LEMMA ControlPlaneStep ==
  ASSUME NEW S \in SUBSET Objects, ControlPlaneObjects \subseteq S, ClusterTyped(S),
         ControlPlaneLocals, ControlPlanePass, ControlPlaneReconcile
  PROVE  ControlPlanePass'
  <1> SUFFICES ASSUME ControlPlaneQuiet' PROVE ControlPlanePass'
    BY DEF ControlPlanePass
  <1> USE ControlPlaneNames
  <1> DEFINE W == ControlPlaneWatches
  <1>0. TypedTimelines(S)
    BY DEF ClusterTyped
  <1>1. CASE StartControlPlane
    <2>1. Fresh("cp") /\ Store("cp")' = Store("cp")
      BY <1>1 DEF StartControlPlane, ControlPlaneQuiet, Fresh, Store
    <2>2. Cached("cp") = Store("cp")
      BY <2>1, <1>0, TypedEnds
    <2>3. cppc' = "idle" => ~Exists("cp")'
      BY <1>1, <2>1, <2>2 DEF StartControlPlane, Exists
    <2>4. cppc' # "idle" => cppc' = "lb" /\ lcp' = Store("cp")'
      BY <1>1, <2>1, <2>2 DEF StartControlPlane
    <2>5. cppc' \in {"idle", "lb"}
      BY <2>4
    <2>6. Done(cppc') = {}
      BY <2>5 DEF Done
    <2> QED BY <2>3, <2>4, <2>5, <2>6 DEF ControlPlanePass, Children
  <1>2. ASSUME NEW o \in Children, EnsureChild(o) PROVE ControlPlanePass'
    <2>1. /\ cppc = o /\ cppc' = NextChild(o) /\ queue' = queue
          /\ After(o) \in KindOf(o)
      BY <1>2, EnsuredChild DEF EnsureChild
    <2>2. CASE o = "ks"
      <3>0. DOMAIN obj = Objects
        BY <1>0 DEF TypedTimelines
      <3>1. \A p \in W : obj'[p] = obj[p]
        BY <1>2, <3>0, <2>2, CommitFrame
           DEF EnsureChild, CreateOrPatch, Write, ControlPlaneWatches
      <3>2. ControlPlaneQuiet /\ \A p \in W : Store(p)' = Store(p)
        BY <2>1, <3>1 DEF ControlPlaneQuiet, Fresh, Store
      <3>3. \A p \in OwnedChildren : InSync(p)
        BY <2>1, <2>2, <3>2 DEF ControlPlanePass, Done, Children, OwnedChildren
      <3>4. \A p \in OwnedChildren : InSync(p)'
        BY <3>2, <3>3 DEF InSync, Exists
      <3>5. cppc' = "idle"
        BY <2>1, <2>2 DEF NextChild
      <3>6. Done(cppc') = {}
        BY <3>5 DEF Done
      <3> QED BY <3>4, <3>5, <3>6 DEF ControlPlanePass, Children
    <2>3. CASE o # "ks"
      <3>0. o \in W /\ o \in OwnedChildren
        BY <2>3
      <3>1. ControlPlaneQuiet /\ Store(o) = After(o) /\ \A p \in S : Store(p)' = Store(p)
        <4>1. CASE Sends(o, After(o))
          <5>1. ~Refused(o) /\ Commit(o, Written(o, After(o)))
            BY <1>2, <4>1 DEF EnsureChild, CreateOrPatch, Write
          <5>2. Written(o, After(o)) \in KindOf(o)
            BY <2>1, <5>1, EnsuredChild
          <5>3. /\ ControlPlaneQuiet /\ Written(o, After(o)) = Store(o)
                /\ \A p \in S : Store(p)' = Store(p)
            BY <2>1, <3>0, <5>1, <5>2, ControlPlaneQuietCommit
          <5>4. Written(o, After(o)) = After(o)
            BY <2>1, <3>0, <5>1, <5>3, EnsuredChild DEF ControlPlaneQuiet
          <5> QED BY <5>3, <5>4
        <4>2. CASE ~Sends(o, After(o))
          <5>1. UNCHANGED obj /\ Cached(o) = After(o)
            BY <1>2, <4>2 DEF EnsureChild, CreateOrPatch, Sends
          <5>2. ControlPlaneQuiet /\ \A p \in S : Store(p)' = Store(p)
            BY <2>1, <5>1 DEF ControlPlaneQuiet, Fresh, Store
          <5>3. Cached(o) = Store(o)
            BY <3>0, <5>2, <1>0, TypedEnds DEF ControlPlaneQuiet
          <5> QED BY <5>1, <5>2, <5>3
        <4> QED BY <4>1, <4>2
      <3>2. lcp = Store("cp") /\ (o # "lb" => llb = Store("lb"))
        BY <2>1, <3>1 DEF ControlPlanePass, Children
      <3>3. Exists("lb") /\ After(o) = ChildFor(o, Store("cp"), Store("lb"))
        <4>1. CASE o = "lb"
          <5>1. Exists("lb")
            BY <4>1, <2>1, <3>1 DEF Exists
          <5>2. Cached("lb") = Store("lb")
            BY <3>1, <4>1, <3>0, <1>0, TypedEnds DEF ControlPlaneQuiet
          <5>3. CachedLoadbalancer = Store("lb")
            BY <5>1, <5>2 DEF CachedLoadbalancer, Exists
          <5> QED BY <4>1, <5>1, <5>3, <3>2 DEF After
        <4>2. CASE o # "lb"
          <5>1. llb = Store("lb") /\ llb \in Loadbalancers
            BY <4>2, <2>1, <3>2 DEF ControlPlaneLocals, Children
          <5>2. Exists("lb")
            BY <5>1, Kinds DEF Exists
          <5> QED BY <4>2, <5>1, <5>2, <3>2 DEF After
        <4> QED BY <4>1, <4>2
      <3>4. InSync(o)
        BY <3>1, <3>3 DEF InSync
      <3>5. \A p \in Done(cppc) \cup {o} : InSync(p)
        BY <3>1, <3>4 DEF ControlPlanePass
      <3>6. Done(cppc') = Done(cppc) \cup {o} /\ cppc' \in Children \ {"lb"}
        BY <2>1, <2>3 DEF Done, NextChild, Children
      <3>7. \A p \in Done(cppc') : InSync(p)'
        <4>1. Done(cppc') \subseteq Children
          BY <3>6 DEF Done, Children
        <4>2. Exists("lb")' = Exists("lb")
          BY <3>1 DEF Exists
        <4> QED BY <3>1, <3>5, <3>6, <4>1, <4>2 DEF InSync
      <3>8. o = "lb" => Returned(o, After(o)) = Store("lb")
        <4>1. CASE Sends(o, After(o))
          <5>1. ~Refused(o)
            BY <1>2, <4>1 DEF EnsureChild, CreateOrPatch, Write
          <5>2. Written(o, After(o)) = After(o)
            BY <2>1, <3>0, <3>1, <5>1, EnsuredChild DEF ControlPlaneQuiet
          <5> QED BY <4>1, <5>2, <3>1 DEF Returned
        <4>2. CASE ~Sends(o, After(o))
          BY <4>2, <3>1 DEF Returned, Sends
        <4> QED BY <4>1, <4>2
      <3>9. llb' = Store("lb")' /\ lcp' = Store("cp")'
        BY <1>2, <2>3, <3>1, <3>2, <3>8 DEF EnsureChild, Children
      <3>10. cppc' # "idle"
        BY <3>6 DEF Children
      <3> QED BY <3>6, <3>7, <3>9, <3>10 DEF ControlPlanePass
    <2> QED BY <2>2, <2>3
  <1>3. ASSUME NEW o \in Children, FailChild(o) PROVE FALSE
    BY <1>3 DEF FailChild, ControlPlaneQuiet
  <1> QED BY <1>1, <1>2, <1>3 DEF ControlPlaneReconcile

-----------------------------------------------------------------------------
(* The Loadbalancer reconciler.                                            *)

\* Its objects and their kinds.
LEMMA LoadbalancerNames ==
  /\ "lb" \in LoadbalancerWatches /\ KindOf("lb") = Loadbalancers
  /\ \A s \in ServiceNames : /\ s \in LoadbalancerWatches
                             /\ s # "lb"
                             /\ KindOf(s) = Services
  /\ Absent \notin Loadbalancers
  /\ ServiceNames # {} => Absent \notin Services
  <1>3. "lb" \notin ServiceNames
    BY ServicesAreNamedApart
  <1>4. Absent \notin Loadbalancers
    BY Kinds, AbsentIsNoObject
  <1>5. ServiceNames # {} => Absent \notin Services
    BY Kinds, AbsentIsNoObject
  <1> QED BY Kinds, <1>3, <1>4, <1>5 DEF LoadbalancerWatches

\* The Service a pass asks for, and the one the server makes of it.
LEMMA EnsuredService ==
  ASSUME NEW S \in SUBSET Objects, LoadbalancerWatches \subseteq S,
         ClusterTyped(S), LoadbalancerLocals, lbpc = "service"
  PROVE  /\ lblb \in Loadbalancers
         /\ lblb.name \in ServiceNames
         /\ AfterService \in Services
         /\ AfterService.selector = ServiceSelector(lblb.selectors)
         /\ ~Refused(lblb.name) =>
              /\ Written(lblb.name, AfterService) \in Services
              /\ Fresh(lblb.name) => Written(lblb.name, AfterService) = AfterService
  <1> DEFINE s == lblb.name
  <1>1. lblb \in Loadbalancers
    BY DEF LoadbalancerLocals
  <1>2. s \in ServiceNames /\ lblb.selectors \in LabelMaps
    BY <1>1 DEF Loadbalancers
  <1>3. /\ Cached(s) \in Services \cup {Absent}
        /\ Store(s) \in Services \cup {Absent}
        /\ Fresh(s) => Cached(s) = Store(s)
    BY <1>2, LoadbalancerNames, TypedEnds DEF ClusterTyped
  <1>4. AfterService \in Services
    BY <1>2, <1>3, ServiceSelectorType DEF AfterService, ServiceFor, Services
  <1>5. AfterService.selector = ServiceSelector(lblb.selectors)
    BY DEF AfterService, ServiceFor
  <1>6. ASSUME ~Refused(s)
        PROVE  /\ Written(s, AfterService) \in Services
               /\ Fresh(s) => Written(s, AfterService) = AfterService
    <2>1. CASE Cached(s) = Absent
      BY <2>1, <1>4 DEF Written
    <2>2. CASE Cached(s) # Absent
      <3>1. Cached(s) \in Services /\ Store(s) \in Services
        BY <2>2, <1>3, <1>6 DEF Refused
      <3> QED BY <2>2, <3>1, <1>3, <1>4, PatchedService DEF Written
    <2> QED BY <2>1, <2>2
  <1> QED BY <1>1, <1>2, <1>4, <1>5, <1>6

\* The status an accepted update writes: CurrentCopy makes it a typed one.
LEMMA UpdatedStatus ==
  ASSUME NEW S \in SUBSET Objects, LoadbalancerWatches \subseteq S,
         ClusterTyped(S), LoadbalancerLocals, CurrentCopy,
         lbpc = "status", "lb" \in current
  PROVE  /\ Store("lb") \in Loadbalancers
         /\ [Store("lb") EXCEPT !.ip = lbsvc.ingress] \in Loadbalancers
  <1>1. Store("lb") = lblb /\ lblb \in Loadbalancers /\ lbsvc.ingress \in Addresses
    BY DEF LoadbalancerLocals, Services, CurrentCopy
  <1> QED BY <1>1 DEF Loadbalancers

\* A step of a pass writes one of its objects or nothing, leaves the requests
\* of other controllers alone and keeps the types.
LEMMA LoadbalancerTypes ==
  ASSUME NEW S \in SUBSET Objects, LoadbalancerWatches \subseteq S,
         "loadbalancer" \in Controllers,
         ClusterTyped(S), LoadbalancerLocals, CurrentCopy, LoadbalancerReconcile
  PROVE  /\ UNCHANGED obj \/ Writes(S)
         /\ queue \ {"loadbalancer"} \subseteq queue'
         /\ ClusterTyped(S)'
         /\ LoadbalancerLocals'
  <1> USE LoadbalancerNames
  <1>0. /\ TypedTimelines(S)
        /\ budget \in Nat /\ queue \subseteq Controllers /\ current \subseteq Objects
    BY DEF ClusterTyped
  <1>1. CASE StartLoadbalancer
    <2>1. Cached("lb") \in Loadbalancers \cup {Absent}
      BY <1>0, TypedEnds
    <2>2. LoadbalancerLocals' /\ current' \subseteq Objects
      BY <1>0, <1>1, <2>1 DEF StartLoadbalancer, LoadbalancerLocals
    <2> QED BY <1>0, <1>1, <2>2 DEF StartLoadbalancer, ClusterTyped, TypedTimelines
  <1>2. ASSUME Writes(S), queue \ {"loadbalancer"} \subseteq queue',
               queue' \subseteq Controllers, budget' \in Nat, LoadbalancerLocals'
        PROVE  /\ UNCHANGED obj \/ Writes(S)
               /\ queue \ {"loadbalancer"} \subseteq queue'
               /\ ClusterTyped(S)'
               /\ LoadbalancerLocals'
    BY <1>2, WritesTyped
  <1>3. ASSUME EndPass, lost' \in BOOLEAN PROVE LoadbalancerLocals'
    BY <1>3 DEF EndPass, LoadbalancerLocals
  <1>4. ASSUME EndLoadbalancer PROVE LoadbalancerLocals'
    BY <1>3, <1>4 DEF EndLoadbalancer, LoadbalancerLocals
  <1>5. ASSUME lbpc = "service", Write(lblb.name, AfterService) PROVE Writes(S)
    BY <1>5, EnsuredService DEF Write, Writes
  <1>6. ASSUME lbpc = "status", "lb" \in current,
               Commit("lb", [Store("lb") EXCEPT !.ip = lbsvc.ingress])
        PROVE  Writes(S)
    BY <1>6, UpdatedStatus DEF Writes
  <1>7. CASE EnsureService
    <2> DEFINE w == Written(lblb.name, AfterService)
    <2>1. lbpc = "service" /\ Write(lblb.name, AfterService) /\ UNCHANGED <<queue, budget>>
      BY <1>7 DEF EnsureService
    <2>2. w \in Services
      BY <2>1, EnsuredService DEF Write
    <2>3. LoadbalancerLocals'
      <3>1. CASE w.ingress = NoIngress
        BY <3>1, <1>4, <1>7 DEF EnsureService
      <3>2. CASE w.ingress # NoIngress
        BY <3>2, <1>7, <2>2 DEF EnsureService, LoadbalancerLocals
      <3> QED BY <3>1, <3>2
    <2> QED BY <1>0, <1>2, <1>5, <2>1, <2>3
  <1>8. CASE FailService
    <2>1. Writes(S) /\ LoadbalancerLocals'
      BY <1>4, <1>5, <1>8 DEF FailService, WriteFails, Writes
    <2>2. queue' = queue \cup {"loadbalancer"} /\ budget' \in Nat
      BY <1>0, <1>8 DEF FailService, WriteFails, Disturb
    <2> QED BY <1>0, <1>2, <2>1, <2>2
  <1>9. CASE UpdateStatus
    BY <1>0, <1>2, <1>4, <1>6, <1>9 DEF UpdateStatus
  <1>10. CASE StatusConflict
    BY <1>0, <1>2, <1>4, <1>10 DEF StatusConflict, Writes
  <1>11. CASE StatusFault
    <2>1. Writes(S) /\ LoadbalancerLocals'
      BY <1>3, <1>6, <1>11 DEF StatusFault, Writes
    <2>2. queue' = queue /\ budget' \in Nat
      BY <1>0, <1>11 DEF StatusFault, Disturb
    <2> QED BY <1>0, <1>2, <2>1, <2>2
  <1> QED BY <1>1, <1>7, <1>8, <1>9, <1>10, <1>11 DEF LoadbalancerReconcile

\* A write of a watched object after which nothing is on its way changed
\* nothing.
LEMMA LoadbalancerQuietCommit ==
  ASSUME NEW S \in SUBSET Objects, LoadbalancerWatches \subseteq S, ClusterTyped(S),
         NEW o \in LoadbalancerWatches, NEW v \in KindOf(o) \cup {Absent},
         Commit(o, v), "loadbalancer" \in queue => "loadbalancer" \in queue',
         LoadbalancerQuiet'
  PROVE  /\ LoadbalancerQuiet
         /\ v = Store(o)
         /\ current' = current
         /\ \A p \in S : Store(p)' = Store(p)
  <1>1. /\ Store(o)' = v
        /\ Fresh(o)' => Fresh(o) /\ v = Store(o)
        /\ \A p \in S \ {o} : Store(p)' = Store(p) /\ Fresh(p)' = Fresh(p)
    BY TypedCommit DEF ClusterTyped
  <1>2. v = Store(o)
    BY <1>1 DEF LoadbalancerQuiet
  <1> QED BY <1>1, <1>2 DEF LoadbalancerQuiet, Commit

\* Being in sync depends on the server's versions alone.
LEMMA LoadbalancerFrame ==
  ASSUME Store("lb") \in Loadbalancers,
         \A p \in LoadbalancerWatches : Store(p)' = Store(p)
  PROVE  /\ ServiceInSync' <=> ServiceInSync
         /\ AddressInSync' <=> AddressInSync
         /\ Store(Store("lb").name)' = Store(Store("lb").name)
  <1>1. Store("lb").name \in ServiceNames
    BY DEF Loadbalancers
  <1>2. "lb" \in LoadbalancerWatches /\ Store("lb").name \in LoadbalancerWatches
    BY <1>1, LoadbalancerNames
  <1> QED BY <1>2 DEF ServiceInSync, AddressInSync, Exists

\* A step that changes no version of a watched object, no local variable and
\* not whose copy is current keeps what the pass keeps.
LEMMA LoadbalancerUnmoved ==
  ASSUME NEW S \in SUBSET Objects, LoadbalancerWatches \subseteq S, ClusterTyped(S),
         LoadbalancerLocals, CurrentCopy, LoadbalancerPass, UNCHANGED loadbalancerVars,
         "loadbalancer" \in queue => "loadbalancer" \in queue',
         "lb" \in current' <=> "lb" \in current,
         \A o \in LoadbalancerWatches : Store(o)' = Store(o) /\ Fresh(o)' = Fresh(o)
  PROVE  CurrentCopy' /\ LoadbalancerPass'
  <1> USE LoadbalancerNames
  <1>1. CurrentCopy'
    BY DEF CurrentCopy, loadbalancerVars
  <1>2. SUFFICES ASSUME LoadbalancerQuiet' PROVE LoadbalancerPass'
    BY <1>1 DEF LoadbalancerPass
  <1>3. LoadbalancerQuiet
    BY <1>2 DEF LoadbalancerQuiet
  <1>4. Exists("lb")' <=> Exists("lb")
    BY DEF Exists
  <1>5. Store("lb") \in Loadbalancers \cup {Absent}
    BY TypedEnds DEF ClusterTyped
  <1>6. lbpc = "status" => Store("lb") \in Loadbalancers
    BY <1>3 DEF LoadbalancerPass, CurrentCopy, LoadbalancerLocals
  <1>7. Exists("lb") => Store("lb") \in Loadbalancers
    BY <1>5 DEF Exists
  <1> QED BY <1>3, <1>4, <1>6, <1>7, LoadbalancerFrame DEF LoadbalancerPass, loadbalancerVars

\* What others do between two calls of a pass - the ControlPlane reconciler,
\* the cloud provider, users, the garbage collector - keeps it: a write of the
\* Loadbalancer makes the pass's copy a stale one, and one of a watched object
\* leaves an event on its way.
LEMMA LoadbalancerAmongOthers ==
  ASSUME NEW S \in SUBSET Objects, LoadbalancerWatches \subseteq S, ClusterTyped(S),
         LoadbalancerLocals, CurrentCopy, LoadbalancerPass,
         UNCHANGED loadbalancerVars, queue \subseteq queue' \cup {"controlplane"},
         Writes(S)
  PROVE  CurrentCopy' /\ LoadbalancerPass'
  <1> USE LoadbalancerNames
  <1>1. CASE UNCHANGED <<obj, current>>
    BY <1>1, LoadbalancerUnmoved DEF Store, Fresh
  <1>2. ASSUME NEW o \in S, NEW v \in KindOf(o) \cup {Absent}, Commit(o, v)
        PROVE  CurrentCopy' /\ LoadbalancerPass'
    <2>0. o \in DOMAIN obj /\ LoadbalancerWatches \subseteq DOMAIN obj
      BY DEF ClusterTyped, TypedTimelines
    <2>1. CASE o \in LoadbalancerWatches /\ v # Store(o)
      <3>1. ~LoadbalancerQuiet'
        BY <1>2, <2>1, LoadbalancerQuietCommit
      <3>2. "lb" \in current' => "lb" \in current /\ o # "lb"
        BY <1>2, <2>1 DEF Commit
      <3>3. o # "lb" => Store("lb")' = Store("lb")
        BY <1>2, <2>0 DEF Commit, Store
      <3> QED BY <3>1, <3>2, <3>3 DEF CurrentCopy, LoadbalancerPass, loadbalancerVars
    <2>2. CASE o \notin LoadbalancerWatches \/ v = Store(o)
      <3>1. \A p \in LoadbalancerWatches : obj'[p] = obj[p]
        BY <1>2, <2>0, <2>2 DEF Commit
      <3>2. "lb" \in current' <=> "lb" \in current
        BY <1>2, <2>2 DEF Commit
      <3> QED BY <3>1, <3>2, LoadbalancerUnmoved DEF Store, Fresh
    <2> QED BY <2>1, <2>2
  <1> QED BY <1>1, <1>2 DEF Writes

\* So do a watch event, a restart and a resync, of which it is told.
LEMMA LoadbalancerTold ==
  ASSUME NEW S \in SUBSET Objects, LoadbalancerWatches \subseteq S, ClusterTyped(S),
         LoadbalancerLocals, CurrentCopy, LoadbalancerPass,
         NEW watched, "loadbalancer" \in DOMAIN watched,
         watched["loadbalancer"] = LoadbalancerWatches,
         \/ (\E o \in S : Deliver(o, watched)) /\ UNCHANGED loadbalancerVars
         \/ Relist(watched) /\ EndLoadbalancer
         \/ Resync(watched) /\ UNCHANGED loadbalancerVars
  PROVE  CurrentCopy' /\ LoadbalancerPass'
  <1> USE LoadbalancerNames
  <1>1. ASSUME NEW o \in S, Deliver(o, watched), UNCHANGED loadbalancerVars
        PROVE  CurrentCopy' /\ LoadbalancerPass'
    <2>1. /\ \A p \in S : Store(p)' = Store(p)
          /\ \A p \in S \ {o} : Fresh(p)' = Fresh(p)
      BY <1>1, TypedDeliver DEF ClusterTyped
    <2>2. queue \subseteq queue' /\ current' = current
      BY <1>1 DEF Deliver
    <2>3. CASE o \in LoadbalancerWatches
      <3>1. "loadbalancer" \in queue'
        BY <1>1, <2>3 DEF Deliver
      <3> QED BY <1>1, <2>1, <2>2, <3>1
              DEF LoadbalancerQuiet, LoadbalancerPass, CurrentCopy, loadbalancerVars
    <2>4. CASE o \notin LoadbalancerWatches
      BY <1>1, <2>1, <2>2, <2>4, LoadbalancerUnmoved
    <2> QED BY <2>3, <2>4
  <1>2. CASE Relist(watched) /\ EndLoadbalancer
    <2>1. lbpc' = "idle"
      BY <1>2 DEF EndLoadbalancer, EndPass
    <2>2. Exists("lb") => "loadbalancer" \in queue'
      BY <1>2 DEF Relist
    <2>3. Exists("lb")' <=> Exists("lb")
      BY <1>2, TypedRelist DEF Exists, ClusterTyped
    <2> QED BY <2>1, <2>2, <2>3 DEF LoadbalancerQuiet, LoadbalancerPass, CurrentCopy
  <1>3. CASE Resync(watched) /\ UNCHANGED loadbalancerVars
    <2>1. UNCHANGED <<obj, current>> /\ queue \subseteq queue'
      BY <1>3 DEF Resync
    <2> QED BY <1>3, <2>1, LoadbalancerUnmoved DEF Store, Fresh
  <1> QED BY <1>1, <1>2, <1>3

\* Its own steps keep a current copy current ...
LEMMA LoadbalancerCopies ==
  ASSUME NEW S \in SUBSET Objects, LoadbalancerWatches \subseteq S, ClusterTyped(S),
         LoadbalancerLocals, CurrentCopy, LoadbalancerReconcile
  PROVE  CurrentCopy'
  <1> USE LoadbalancerNames
  <1>1. CASE StartLoadbalancer
    <2>1. CASE Cached("lb") = Absent
      BY <1>1, <2>1 DEF StartLoadbalancer, CurrentCopy
    <2>2. CASE Cached("lb") # Absent
      <3>1. "lb" \in current' => lblb' = Store("lb")
        BY <1>1, <2>2, TypedEnds DEF StartLoadbalancer, ClusterTyped
      <3> QED BY <1>1, <3>1 DEF StartLoadbalancer, CurrentCopy, Store
    <2> QED BY <2>1, <2>2
  <1>2. CASE EnsureService
    <2>1. /\ lbpc = "service"
          /\ lblb.name \in ServiceNames
          /\ Commit(lblb.name, Written(lblb.name, AfterService))
      BY <1>2, EnsuredService DEF EnsureService, Write
    <2>2. obj'["lb"] = obj["lb"] /\ current' \subseteq current
      BY <2>1, CommitFrame DEF ClusterTyped, TypedTimelines
    <2>3. lbpc' = "idle" \/ (lbpc # "idle" /\ lblb' = lblb)
      BY <1>2 DEF EnsureService, EndLoadbalancer, EndPass
    <2> QED BY <2>2, <2>3 DEF CurrentCopy, Store
  <1>3. CASE FailService \/ UpdateStatus \/ StatusConflict \/ StatusFault
    BY <1>3
       DEF FailService, UpdateStatus, StatusConflict, StatusFault, EndLoadbalancer, EndPass,
           CurrentCopy
  <1> QED BY <1>1, <1>2, <1>3 DEF LoadbalancerReconcile

\* ... and none leaves the controller with nothing to do and its objects out
\* of sync.
LEMMA LoadbalancerStep ==
  ASSUME NEW S \in SUBSET Objects, LoadbalancerWatches \subseteq S, ClusterTyped(S),
         LoadbalancerLocals, CurrentCopy, LoadbalancerPass, LoadbalancerReconcile
  PROVE  LoadbalancerPass'
  <1> SUFFICES ASSUME LoadbalancerQuiet'
               PROVE  /\ lbpc' # "idle" => "lb" \in current'
                      /\ lbpc' = "status" =>
                           ServiceInSync' /\ lbsvc' = Store(Store("lb").name)'
                      /\ lbpc' = "idle" /\ Exists("lb")' =>
                           /\ ServiceInSync'
                           /\ ~lost' => AddressInSync'
    BY DEF LoadbalancerPass
  <1> USE LoadbalancerNames
  <1>0. TypedTimelines(S)
    BY DEF ClusterTyped
  <1>1. CASE StartLoadbalancer
    <2>1. Fresh("lb") /\ Store("lb")' = Store("lb")
      BY <1>1 DEF StartLoadbalancer, LoadbalancerQuiet, Fresh, Store
    <2>2. Cached("lb") = Store("lb")
      BY <2>1, <1>0, TypedEnds
    <2> QED BY <1>1, <2>1, <2>2 DEF StartLoadbalancer, Exists
  <1>2. CASE EnsureService
    <2> DEFINE s == lblb.name
               w == Written(s, AfterService)
    <2>1. lbpc = "service" /\ ~Refused(s) /\ Commit(s, w) /\ queue' = queue
      BY <1>2 DEF EnsureService, Write
    <2>2. /\ lblb \in Loadbalancers /\ s \in ServiceNames /\ w \in Services
          /\ Fresh(s) => w = AfterService
          /\ AfterService.selector = ServiceSelector(lblb.selectors)
      BY <2>1, EnsuredService
    <2>3. /\ LoadbalancerQuiet /\ w = Store(s) /\ current' = current
          /\ \A p \in S : Store(p)' = Store(p)
      BY <2>1, <2>2, LoadbalancerQuietCommit
    <2>4. "lb" \in current /\ lblb = Store("lb") /\ Fresh(s)
      BY <2>1, <2>2, <2>3 DEF LoadbalancerPass, CurrentCopy, LoadbalancerQuiet
    <2>5. Exists("lb") /\ Exists(s)
      BY <2>2, <2>3, <2>4 DEF Exists
    <2>6. ServiceInSync
      BY <2>2, <2>3, <2>4, <2>5 DEF ServiceInSync
    <2>7. w.ingress = NoIngress => AddressInSync
      BY <2>3, <2>4 DEF AddressInSync
    <2>8. Store(Store("lb").name)' = w
      BY <2>2, <2>3, <2>4
    <2> QED BY <1>2, <2>2, <2>3, <2>4, <2>5, <2>6, <2>7, <2>8, LoadbalancerFrame
            DEF EnsureService, EndLoadbalancer, EndPass
  <1>3. CASE FailService
    BY <1>3 DEF FailService, LoadbalancerQuiet
  <1>4. ASSUME lbpc = "status", "lb" \in current, queue' = queue,
               Commit("lb", [Store("lb") EXCEPT !.ip = lbsvc.ingress])
        PROVE  /\ LoadbalancerQuiet /\ \A p \in S : Store(p)' = Store(p)
               /\ Store("lb") \in Loadbalancers /\ AddressInSync
    <2> DEFINE v == [Store("lb") EXCEPT !.ip = lbsvc.ingress]
    <2>1. Store("lb") \in Loadbalancers /\ v \in Loadbalancers
      BY <1>4, UpdatedStatus
    <2>2. LoadbalancerQuiet /\ v = Store("lb") /\ \A p \in S : Store(p)' = Store(p)
      BY <1>4, <2>1, LoadbalancerQuietCommit
    <2>3. Store("lb").ip = lbsvc.ingress
      BY <2>1, <2>2 DEF Loadbalancers
    <2>4. lbsvc = Store(Store("lb").name)
      BY <1>4, <2>2 DEF LoadbalancerPass
    <2> QED BY <2>1, <2>2, <2>3, <2>4 DEF AddressInSync
  <1>5. CASE UpdateStatus
    <2>1. /\ LoadbalancerQuiet /\ \A p \in S : Store(p)' = Store(p)
          /\ Store("lb") \in Loadbalancers /\ AddressInSync /\ lbpc = "status"
      BY <1>4, <1>5 DEF UpdateStatus
    <2> QED BY <1>5, <2>1, LoadbalancerFrame
            DEF UpdateStatus, EndLoadbalancer, EndPass, LoadbalancerPass
  <1>6. CASE StatusConflict
    <2>1. LoadbalancerQuiet
      BY <1>6 DEF StatusConflict, LoadbalancerQuiet, Fresh
    <2> QED BY <1>6, <2>1 DEF StatusConflict, LoadbalancerPass
  <1>7. CASE StatusFault
    <2>1. lbpc = "status" /\ lost' /\ lbpc' = "idle" /\ queue' = queue
      BY <1>7 DEF StatusFault, EndPass
    <2>2. CASE UNCHANGED obj
      <3>1. LoadbalancerQuiet /\ \A p \in S : Store(p)' = Store(p)
        BY <2>1, <2>2 DEF LoadbalancerQuiet, Fresh, Store
      <3>2. Store("lb") \in Loadbalancers
        BY <2>1, <3>1 DEF LoadbalancerPass, CurrentCopy, LoadbalancerLocals
      <3> QED BY <2>1, <3>1, <3>2, LoadbalancerFrame DEF LoadbalancerPass
    <2>3. CASE /\ "lb" \in current
               /\ Commit("lb", [Store("lb") EXCEPT !.ip = lbsvc.ingress])
      <3>1. /\ LoadbalancerQuiet /\ Store("lb") \in Loadbalancers
            /\ \A p \in S : Store(p)' = Store(p)
        BY <1>4, <2>1, <2>3
      <3> QED BY <2>1, <3>1, LoadbalancerFrame DEF LoadbalancerPass
    <2> QED BY <1>7, <2>2, <2>3 DEF StatusFault
  <1> QED BY <1>1, <1>2, <1>3, <1>5, <1>6, <1>7 DEF LoadbalancerReconcile
==============================================================================
