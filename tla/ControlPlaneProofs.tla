-------------------------- MODULE ControlPlaneProofs --------------------------
(***************************************************************************)
(* The children of a ControlPlane at rest, proved for every set of         *)
(* versions, addresses, names and labels and any number of disturbances.   *)
(***************************************************************************)
EXTENDS ControlPlane, ReconcilerProofs

-----------------------------------------------------------------------------
(* The steps.                                                              *)

\* The environment writes typed versions, or restarts the manager.
LEMMA EnvironmentWrites ==
  ASSUME TypeOK, Environment
  PROVE  \/ Crash
         \/ /\ \E kind : \E o \in ControlPlaneObjects : \E v \in KindOf(o) \cup {Absent} :
                 Interfere(kind, o, v)
            /\ UNCHANGED controlPlaneVars
  <1> USE ControlPlaneNames
  <1> DEFINE Interfered == \E kind : \E o \in ControlPlaneObjects :
                             \E v \in KindOf(o) \cup {Absent} : Interfere(kind, o, v)
  <1>1. ASSUME NEW spec \in Specs, Apply(spec)
        PROVE  Interfered /\ UNCHANGED controlPlaneVars
    <2>1. PICK kind : Interfere(kind, "cp", spec)
      BY <1>1 DEF Apply
    <2> QED BY <1>1, <2>1, Kinds, SpecsAreControlPlanes DEF Apply
  <1>2. CASE DeleteControlPlane
    BY <1>2 DEF DeleteControlPlane
  <1>3. ASSUME NEW ip \in Addresses \ {NoIP}, PublishAddress(ip)
        PROVE  Interfered /\ UNCHANGED controlPlaneVars
    <2>1. Store("lb") \in Loadbalancers
      BY <1>3, Kinds, TypedEnds DEF PublishAddress, Exists, TypeOK
    <2>2. [Store("lb") EXCEPT !.ip = ip] \in Loadbalancers
      BY <2>1 DEF Loadbalancers
    <2> QED BY <1>3, <2>2, Kinds DEF PublishAddress
  <1>4. ASSUME NEW o \in Children, NEW version \in Foreign[o], EditChild(o, version)
        PROVE  Interfered /\ UNCHANGED controlPlaneVars
    <2>1. version \in KindOf(o)
      BY ForeignAreChildren
    <2> QED BY <1>4, <2>1 DEF EditChild
  <1>5. ASSUME NEW o \in Children, RemoveChild(o)
        PROVE  Interfered /\ UNCHANGED controlPlaneVars
    BY <1>5 DEF RemoveChild
  <1> QED BY <1>1, <1>2, <1>3, <1>4, <1>5 DEF Environment

\* The heart of the matter: every step keeps the types, and none leaves the
\* controller with nothing to do and a child it owns out of sync.
LEMMA InductiveStep ==
  ASSUME Inductive, [Next]_vars
  PROVE  Inductive'
  <1> USE ControlPlaneNames, ControlPlaneIsPresent
  <1> DEFINE S == ControlPlaneObjects
  <1>0. ClusterTyped(S) /\ ControlPlaneLocals /\ ControlPlanePass
    BY DEF Inductive, TypeOK, ClusterTyped
  <1>1. SUFFICES ClusterTyped(S)' /\ ControlPlaneLocals' /\ ControlPlanePass'
    BY DEF Inductive, TypeOK, ClusterTyped
  <1>2. DOMAIN Watches \subseteq Controllers /\ "controlplane" \in DOMAIN Watches
        /\ Watches["controlplane"] = ControlPlaneWatches
    BY DEF Watches
  <1>3. UNCHANGED controlPlaneVars \/ EndControlPlane => ControlPlaneLocals'
    BY <1>0 DEF controlPlaneVars, EndControlPlane, ControlPlaneLocals
  <1>4. CASE ControlPlaneReconcile
    BY <1>0, <1>4, ControlPlaneTypes, ControlPlaneStep
  <1>5. ASSUME NEW o \in S, Watch(o) PROVE ClusterTyped(S)' /\ ControlPlaneLocals' /\ ControlPlanePass'
    BY <1>0, <1>2, <1>3, <1>5, WatchTyped, ControlPlaneTold DEF Watch
  <1>6. CASE PeriodicResync
    BY <1>0, <1>2, <1>3, <1>6, WatchTyped, ControlPlaneTold DEF PeriodicResync
  <1>7. CASE Crash
    BY <1>0, <1>2, <1>3, <1>7, WatchTyped, ControlPlaneTold DEF Crash
  <1>8. ASSUME NEW kind, NEW o \in S, NEW v \in KindOf(o) \cup {Absent},
               Interfere(kind, o, v), UNCHANGED controlPlaneVars
        PROVE  ClusterTyped(S)' /\ ControlPlaneLocals' /\ ControlPlanePass'
    <2>1. Writes(S) /\ queue' = queue /\ ClusterTyped(S)'
      BY <1>0, <1>8, InterfereTyped
    <2> QED BY <1>0, <1>3, <1>8, <2>1, ControlPlaneAmongOthers
  <1>9. CASE UNCHANGED vars
    <2>1. /\ Writes(S) /\ queue' = queue /\ budget' = budget
          /\ UNCHANGED <<controlPlaneVars, obj>>
      BY <1>9 DEF vars, clusterVars, Writes
    <2>2. ClusterTyped(S)'
      BY <1>0, <2>1, WritesTyped DEF ClusterTyped
    <2> QED BY <1>0, <1>3, <2>1, <2>2, ControlPlaneAmongOthers
  <1>10. TypeOK
    BY DEF Inductive
  <1> QED BY <1>4, <1>5, <1>6, <1>7, <1>8, <1>9, <1>10, EnvironmentWrites DEF Next

-----------------------------------------------------------------------------
(* The theorems.                                                           *)

\* Initially nothing exists and no controller runs.
LEMMA InductiveInit == Init => Inductive
  <1> SUFFICES ASSUME Init PROVE Inductive
    OBVIOUS
  <1> USE ControlPlaneIsPresent, ControlPlaneNames
  <1>1. /\ ClusterTyped(ControlPlaneObjects)
        /\ \A o \in ControlPlaneObjects : ~Exists(o) /\ Fresh(o)
    BY ClusterInitTyped DEF Init
  <1>2. TypeOK
    BY <1>1 DEF Init, ControlPlaneInit, TypeOK, ClusterTyped, ControlPlaneLocals
  <1>3. ControlPlanePass
    <2>1. cppc = "idle" /\ Done(cppc) = {}
      BY DEF Init, ControlPlaneInit, Done
    <2> QED BY <1>1, <2>1 DEF ControlPlanePass, Children
  <1> QED BY <1>2, <1>3 DEF Inductive

\* The strengthening holds in every reachable state.
THEOREM InductiveInvariance == Spec => []Inductive
  BY InductiveInit, InductiveStep, PTL DEF Spec

\* Types: timelines hold versions of their kinds, and a pass holds the copies
\* its next write needs.
THEOREM TypeCorrect == Spec => []TypeOK
  <1>1. Inductive => TypeOK
    BY DEF Inductive
  <1> QED BY InductiveInvariance, <1>1, PTL

\* A ControlPlane at rest has every child it owns in sync, whatever was read
\* from stale caches, edited, removed, lost or restarted on the way.
THEOREM SyncSafety == Spec => []SettledInSync
  <1>1. Inductive => SettledInSync
    BY DEF Inductive, ControlPlanePass, SettledInSync, Settled
  <1> QED BY InductiveInvariance, <1>1, PTL

\* The ControlPlane reconciler implements the level-triggered controller: it
\* comes to rest only when the children it owns are in sync, and something
\* that takes them out of sync makes work due at once.
THEOREM ImplementsLevel == Spec => Level!Spec
  <1> DEFINE due   == ~Settled
             right == Exists("cp") => \A o \in OwnedChildren : InSync(o)
  <1>1. Init => Level!Init
    <2> SUFFICES ASSUME Init PROVE Level!Init
      OBVIOUS
    <2>1. \A o \in ControlPlaneObjects : obj[o] = <<Absent>> /\ Store(o) = Absent
      BY ControlPlaneIsPresent DEF Init, ClusterInit, Store
    <2>2. ~due /\ right
      BY <2>1, ControlPlaneIsPresent, ControlPlaneNames
         DEF Init, ClusterInit, ControlPlaneInit, Settled, ControlPlaneQuiet, Fresh, Exists
    <2> QED BY <2>2 DEF Level!Init
  <1>2. Inductive => (due \/ right)
    BY DEF Inductive, ControlPlanePass, Settled
  <1>3. Inductive /\ Inductive' /\ [Next]_vars => [Level!Next]_(Level!levelVars)
    <2> SUFFICES ASSUME Inductive, Inductive'
                 PROVE  Level!Next \/ UNCHANGED Level!levelVars
      OBVIOUS
    <2>1. due' \/ right'
      BY DEF Inductive, ControlPlanePass, Settled
    <2>2. due \/ right
      BY <1>2
    <2>3. due \in BOOLEAN /\ right \in BOOLEAN /\ due' \in BOOLEAN /\ right' \in BOOLEAN
      OBVIOUS
    <2> QED BY <2>1, <2>2, <2>3
            DEF Level!Next, Level!Disturb, Level!Work, Level!Finish, Level!levelVars
  <1> QED BY <1>1, <1>3, InductiveInvariance, PTL DEF Spec, Level!Spec

-----------------------------------------------------------------------------
(* Upgrades.                                                               *)

\* Being not above is reflexive and transitive on versions that are numbers.
LEMMA NotAboveOrder ==
  ASSUME NEW T, \A t \in T : t # Absent => t.version \in Nat
  PROVE  /\ \A a \in T : NotAbove(a, a)
         /\ \A a, b, c \in T : NotAbove(a, b) /\ NotAbove(b, c) => NotAbove(a, c)
  BY DEF NotAbove

\* What the cache holds of a rising object is not above what the server does.
LEMMA RisingEnds ==
  ASSUME NEW o, NEW T, Timeline(o, T), Rising(o)
  PROVE  NotAbove(Cached(o), Store(o))
  BY TimelineEnds DEF Rising, Timeline, Cached, Store

\* A write of a version that is not below the server's keeps a timeline rising.
LEMMA RisingCommit ==
  ASSUME NEW o \in DOMAIN obj, NEW T, Timeline(o, T),
         \A t \in T : t # Absent => t.version \in Nat,
         NEW v \in T, Rising(o), NotAbove(Store(o), v), Commit(o, v)
  PROVE  Rising(o)'
  <1>1. CASE v = Store(o)
    <2>1. obj'[o] = obj[o]
      BY <1>1 DEF Commit
    <2> QED BY <2>1 DEF Rising
  <1>2. CASE v # Store(o)
    <2> DEFINE n == Len(obj[o])
    <2>0. n \in Nat \ {0} /\ Store(o) \in T
      BY TimelineEnds
    <2>1. obj'[o] = Append(obj[o], v)
      BY <1>2 DEF Commit
    <2>2. /\ Len(obj'[o]) = n + 1
          /\ \A i \in 1..n : obj'[o][i] = obj[o][i] /\ obj[o][i] \in T
          /\ obj'[o][n + 1] = v
      BY <2>1 DEF Timeline
    <2>3. \A i \in 1..n : NotAbove(obj[o][i], Store(o))
      BY <2>0 DEF Rising, Store
    <2>4. \A i \in 1..n : NotAbove(obj'[o][i], v)
      BY <2>0, <2>2, <2>3, NotAboveOrder
    <2>5. NotAbove(v, v)
      BY NotAboveOrder
    <2>6. ASSUME NEW j \in 1..(n + 1), NEW i \in 1..j PROVE NotAbove(obj'[o][i], obj'[o][j])
      <3>1. CASE j = n + 1 /\ i = n + 1
        BY <2>2, <2>5, <3>1
      <3>2. CASE j = n + 1 /\ i # n + 1
        <4>1. i \in 1..n
          BY <2>0, <3>2
        <4> QED BY <2>2, <2>4, <3>2, <4>1
      <3>3. CASE j # n + 1
        <4>1. j \in 1..n /\ i \in 1..n
          BY <2>0, <3>3
        <4> QED BY <2>2, <4>1 DEF Rising
      <3> QED BY <3>1, <3>2, <3>3
    <2> QED BY <2>2, <2>6 DEF Rising
  <1> QED BY <1>1, <1>2

\* A watch event takes the cache up a rising timeline.
LEMMA RisingDeliver ==
  ASSUME NEW o \in DOMAIN obj, NEW T, Timeline(o, T), Rising(o),
         NEW watched, Deliver(o, watched)
  PROVE  Rising(o)' /\ NotAbove(Cached(o), Cached(o)')
  <1> DEFINE n == Len(obj[o])
  <1>1. n \in Nat /\ n > 1
    <2>1. n \in Nat \ {0}
      BY TimelineEnds
    <2>2. n # 1
      BY DEF Deliver, Fresh
    <2> HIDE DEF n
    <2> QED BY <2>1, <2>2
  <1>2. obj'[o] = Tail(obj[o])
    BY DEF Deliver
  <1>3. /\ Len(obj'[o]) = n - 1
        /\ \A i \in 1..(n - 1) : obj'[o][i] = obj[o][i + 1]
    BY <1>2, HeadTailProperties DEF Timeline
  <1>4. obj'[o] # <<>>
    <2>1. Len(obj'[o]) # 0 /\ Len(<<>>) = 0
      BY <1>1, <1>3
    <2> QED BY <2>1
  <1>5. ASSUME NEW j \in 1..(n - 1), NEW i \in 1..j PROVE NotAbove(obj'[o][i], obj'[o][j])
    <2>1. i \in 1..(n - 1) /\ j + 1 \in 1..n /\ i + 1 \in 1..(j + 1)
      BY <1>1
    <2> QED BY <1>3, <2>1 DEF Rising
  <1>6. Cached(o)' = obj[o][2]
    <2>1. 1 \in 1..(n - 1)
      BY <1>1
    <2>2. obj'[o][1] = obj[o][2]
      BY <1>3, <2>1
    <2> QED BY <2>2 DEF Cached
  <1>7. NotAbove(obj[o][1], obj[o][2])
    BY <1>1 DEF Rising
  <1> QED BY <1>3, <1>5, <1>6, <1>7 DEF Rising, Cached, Timeline

\* A restart takes it to the top.
LEMMA RisingRelist ==
  ASSUME NEW o \in DOMAIN obj, NEW T, Timeline(o, T),
         \A t \in T : t # Absent => t.version \in Nat,
         Rising(o), NEW watched, Relist(watched)
  PROVE  /\ Rising(o)'
         /\ Cached(o)' = Store(o)
         /\ NotAbove(Cached(o), Cached(o)')
  <1>1. obj'[o] = <<Store(o)>>
    BY DEF Relist
  <1>2. Store(o) \in T
    BY TimelineEnds
  <1>3. NotAbove(Store(o), Store(o))
    BY <1>2, NotAboveOrder
  <1> QED BY <1>1, <1>3, RisingEnds DEF Rising, Cached

\* The ControlPlanes of orderly users.
LEMMA OrderlySpecs ==
  ASSUME OnlyUpgrades
  PROVE  /\ \A cp \in Specs : /\ cp \in ControlPlanes /\ cp # Absent
                              /\ cp.version \in Nat
                              /\ ApiServerVersion(cp) \in Nat
                              /\ CoaleseString(cp.kcm, cp.version) \in Nat
                              /\ CoaleseString(cp.ks, cp.version) \in Nat
         /\ \A cp, later \in Specs :
              NotAbove(cp, later) => ApiServerVersion(cp) <= ApiServerVersion(later)
  <1>1. \A cp \in Specs : /\ cp \in ControlPlanes /\ cp # Absent
                          /\ cp.version \in Nat /\ cp.kas \in Nat
                          /\ cp.kcm \in Nat /\ cp.ks \in Nat
    <2>1. Absent \notin ControlPlanes
      BY Kinds, AbsentIsNoObject
    <2> QED BY <2>1, SpecsAreControlPlanes, ResourceVocabulary DEF ControlPlanes
  <1> QED BY <1>1 DEF OnlyUpgrades, NotAbove, ApiServerVersion, CoaleseString

\* The versions of the children are numbers.
LEMMA VersionsOfChildren ==
  ASSUME TypeOK
  PROVE  /\ \A o \in {"kas", "kcm", "ks"} : \A v \in KindOf(o) \cup {Absent} :
              v # Absent => v.version \in Nat
         /\ \A o \in {"kas", "kcm", "ks"} :
              /\ o \in DOMAIN obj /\ Timeline(o, KindOf(o) \cup {Absent})
              /\ Store(o) \in KindOf(o) \cup {Absent}
              /\ Cached(o) \in KindOf(o) \cup {Absent}
  <1> USE ControlPlaneIsPresent, Kinds
  <1>1. {"kas", "kcm", "ks"} \subseteq ControlPlaneObjects
    BY DEF ControlPlaneObjects, Children
  <1>2. ASSUME NEW o \in {"kas", "kcm", "ks"}, NEW v \in KindOf(o) PROVE v.version \in Nat
    <2>1. o = "kas" => v.version \in Versions
      BY <1>2 DEF KubeAPIServers
    <2>2. o # "kas" => v \in [version : Versions]
      BY <1>2 DEF KubeControllerManagers, KubeSchedulers
    <2>3. o # "kas" => v.version \in Versions
      BY <2>2
    <2> QED BY <2>1, <2>3, ResourceVocabulary
  <1>3. \A o \in {"kas", "kcm", "ks"} :
          o \in DOMAIN obj /\ Timeline(o, KindOf(o) \cup {Absent})
    BY <1>1 DEF TypeOK, TypedTimelines, Timeline
  <1>4. ASSUME NEW o \in {"kas", "kcm", "ks"}
        PROVE  /\ Store(o) \in KindOf(o) \cup {Absent}
               /\ Cached(o) \in KindOf(o) \cup {Absent}
    BY <1>3, TimelineEnds
  <1> QED BY <1>2, <1>3, <1>4

\* What a write of the API server by a pass does: its version goes up to the
\* one the ControlPlane asks for.
LEMMA ApiServerWritten ==
  ASSUME Inductive, UpgradeOrder, OnlyUpgrades, cppc = "kas", Write("kas", After("kas"))
  PROVE  /\ Rising("kas")'
         /\ Exists("kas")'
         /\ Store("kas")'.version = ApiServerVersion(lcp)
         /\ Exists("kas") => Store("kas").version <= Store("kas")'.version
  <1> USE ControlPlaneIsPresent, Kinds, VersionsOfChildren, OrderlySpecs
  <1> DEFINE T == KindOf("kas") \cup {Absent}
             w == Written("kas", After("kas"))
  <1>0. TypeOK /\ ClusterTyped(ControlPlaneObjects) /\ ControlPlaneLocals
    BY DEF Inductive, TypeOK, ClusterTyped
  <1>1. ~Refused("kas") /\ Commit("kas", w)
    BY DEF Write
  <1>2. After("kas") \in KubeAPIServers /\ w \in KubeAPIServers
    BY <1>0, <1>1, EnsuredChild DEF Children
  <1>3. lcp \in Specs /\ After("kas").version = ApiServerVersion(lcp)
    BY DEF UpgradeOrder, After, ChildFor, KubeAPIServerFor, ApiServerVersion
  <1>4. Exists("kas") => Store("kas").version <= ApiServerVersion(lcp)
    BY DEF UpgradeOrder, Asked
  <1>5. /\ w.version = ApiServerVersion(lcp)
        /\ Exists("kas") => Store("kas").version <= w.version
    <2>1. CASE Cached("kas") = Absent
      <3>1. w = After("kas")
        BY <2>1 DEF Written
      <3> QED BY <3>1, <1>3, <1>4
    <2>2. CASE Cached("kas") # Absent
      <3>1. Store("kas") # Absent
        BY <1>1, <2>2 DEF Refused
      <3>2. Store("kas") \in KubeAPIServers /\ Cached("kas") \in KubeAPIServers
        BY <1>0, <2>2, <3>1
      <3>3. Cached("kas").version <= Store("kas").version
        BY <1>0, <2>2, RisingEnds DEF UpgradeOrder, NotAbove
      <3>4. w.version = IF After("kas").version # Cached("kas").version
                          THEN After("kas").version ELSE Store("kas").version
        BY <2>2, <3>2 DEF Written, Patched, KubeAPIServers
      <3>5. /\ Store("kas").version \in Nat /\ Cached("kas").version \in Nat
            /\ ApiServerVersion(lcp) \in Nat
        BY <1>0, <1>3, <3>1, <2>2
      <3> QED BY <1>3, <1>4, <3>1, <3>3, <3>4, <3>5 DEF Exists
    <2> QED BY <2>1, <2>2
  <1>6. NotAbove(Store("kas"), w)
    BY <1>2, <1>5, AbsentIsNoObject DEF NotAbove, Exists
  <1>7. Rising("kas")' /\ Store("kas")' = w
    BY <1>0, <1>1, <1>2, <1>6, RisingCommit, CommitTimeline DEF UpgradeOrder
  <1>8. w # Absent
    BY <1>2, AbsentIsNoObject
  <1> QED BY <1>5, <1>7, <1>8 DEF Exists

\* What a write of one of the other two does: they do not get past the API
\* server, which has been written before them.
LEMMA FollowerWritten ==
  ASSUME Inductive, UpgradeOrder, OnlyUpgrades,
         NEW o \in {"kcm", "ks"}, cppc = o, Write(o, After(o))
  PROVE  /\ \A p \in DOMAIN obj : p # o => obj'[p] = obj[p]
         /\ ApiServerUpgradesFirst'
  <1> USE ControlPlaneIsPresent, Kinds, VersionsOfChildren, OrderlySpecs
  <1> DEFINE w == Written(o, After(o))
  <1>0. TypeOK /\ ClusterTyped(ControlPlaneObjects) /\ ControlPlaneLocals
    BY DEF Inductive, TypeOK, ClusterTyped
  <1>1. ~Refused(o) /\ Commit(o, w)
    BY DEF Write
  <1>2. After(o) \in KindOf(o) /\ w \in KindOf(o)
    BY <1>0, <1>1, EnsuredChild DEF Children
  <1>3. /\ lcp \in Specs
        /\ Exists("kas") /\ ApiServerVersion(lcp) <= Store("kas").version
        /\ Store("kas").version \in Nat
    BY <1>0 DEF UpgradeOrder, Exists
  <1>4. After(o).version <= ApiServerVersion(lcp) /\ After(o).version \in Nat
    BY <1>3 DEF OnlyUpgrades, After, ChildFor, KubeControllerManagerFor, KubeSchedulerFor
  <1>5. Exists(o) => Store(o).version <= Store("kas").version
    BY DEF UpgradeOrder, ApiServerUpgradesFirst
  <1>6. w.version \in {After(o).version, Store(o).version}
    <2>1. CASE Cached(o) = Absent
      BY <2>1 DEF Written
    <2>2. CASE Cached(o) # Absent
      <3>1. Store(o) \in KindOf(o)
        BY <1>0, <1>1, <2>2 DEF Refused
      <3>2. Store(o) \in [version : Versions]
        BY <3>1 DEF KubeControllerManagers, KubeSchedulers
      <3>3. DOMAIN Store(o) = {"version"}
        BY <3>2
      <3> QED BY <2>2, <3>3 DEF Written, Patched
    <2> QED BY <2>1, <2>2
  <1>7. w.version <= Store("kas").version
    <2>1. CASE w.version = After(o).version
      BY <1>3, <1>4, <2>1
    <2>2. CASE w.version # After(o).version
      <3>1. w.version = Store(o).version
        BY <1>6, <2>2
      <3>2. Exists(o)
        <4>1. CASE Cached(o) = Absent
          BY <2>2, <4>1 DEF Written
        <4>2. CASE Cached(o) # Absent
          BY <1>1, <4>2 DEF Refused, Exists
        <4> QED BY <4>1, <4>2
      <3> QED BY <1>5, <3>1, <3>2
    <2> QED BY <2>1, <2>2
  <1>8. \A p \in DOMAIN obj : p # o => obj'[p] = obj[p]
    BY <1>1, CommitFrame
  <1>9. Store(o)' = w
    BY <1>0, <1>1, <1>2, CommitTimeline
  <1>10. \A p \in {"kas", "kcm", "ks"} \ {o} : Store(p)' = Store(p)
    BY <1>0, <1>8 DEF Store
  <1>11. Exists("kas")'
    BY <1>3, <1>10 DEF Exists
  <1>12. ASSUME NEW p \in {"kcm", "ks"}, Exists(p)' PROVE Store(p)'.version <= Store("kas")'.version
    <2>1. CASE p = o
      BY <1>7, <1>9, <1>10, <2>1
    <2>2. CASE p # o
      BY <1>10, <1>12, <2>2 DEF UpgradeOrder, ApiServerUpgradesFirst, Exists
    <2> QED BY <2>1, <2>2
  <1> QED BY <1>8, <1>11, <1>12 DEF ApiServerUpgradesFirst

\* What a step keeps that does not touch the ControlPlane and the components.
LEMMA UpgradeFrame ==
  ASSUME UpgradeOrder, \A o \in {"cp", "kas", "kcm", "ks"} : obj'[o] = obj[o]
  PROVE  /\ \A i \in 1..Len(obj'["cp"]) : obj'["cp"][i] \in Specs \cup {Absent}
         /\ Rising("cp")' /\ Rising("kas")'
         /\ ApiServerUpgradesFirst'
         /\ Store("kas")' = Store("kas") /\ Exists("kas")' = Exists("kas")
         /\ Cached("cp")' = Cached("cp")
  BY DEF UpgradeOrder, Rising, ApiServerUpgradesFirst, Store, Exists, Cached

\* The timeline of the ControlPlane holds what the users wrote.
LEMMA ControlPlaneTimeline ==
  ASSUME TypeOK, UpgradeOrder, OnlyUpgrades
  PROVE  /\ "cp" \in DOMAIN obj
         /\ Timeline("cp", Specs \cup {Absent})
         /\ \A t \in Specs \cup {Absent} : t # Absent => t.version \in Nat
  <1>1. "cp" \in DOMAIN obj /\ obj["cp"] \in Seq(KindOf("cp") \cup {Absent}) /\ obj["cp"] # <<>>
    BY ControlPlaneIsPresent DEF TypeOK, TypedTimelines, ControlPlaneObjects
  <1>2. \A i \in 1..Len(obj["cp"]) : obj["cp"][i] \in Specs \cup {Absent}
    BY DEF UpgradeOrder
  <1>3. obj["cp"] \in Seq(Specs \cup {Absent})
    BY <1>1, <1>2
  <1> QED BY <1>1, <1>3, OrderlySpecs DEF Timeline

\* The pass, after a step that leaves the API server as it is and at most
\* moves the ControlPlane up.
LEMMA UpgradePass ==
  ASSUME TypeOK, UpgradeOrder, OnlyUpgrades,
         \A i \in 1..Len(obj'["cp"]) : obj'["cp"][i] \in Specs \cup {Absent},
         Rising("cp")', Rising("kas")', ApiServerUpgradesFirst',
         Store("kas")' = Store("kas"),
         Cached("cp")' \in Specs \cup {Absent}, NotAbove(Cached("cp"), Cached("cp")'),
         cppc' # "idle" => /\ cppc # "idle" /\ lcp' = lcp
                           /\ cppc' \in {"kcm", "ks"} => cppc \in {"kcm", "ks"}
  PROVE  UpgradeOrder'
  <1> USE OrderlySpecs
  <1> DEFINE T == Specs \cup {Absent}
  <1>1. Cached("cp") \in T /\ \A t \in T : t # Absent => t.version \in Nat
    BY ControlPlaneTimeline, TimelineEnds
  <1>2. cppc # "idle" => lcp \in Specs /\ NotAbove(lcp, Cached("cp")')
    BY <1>1, NotAboveOrder DEF UpgradeOrder
  <1>3. cppc' # "idle" => lcp' \in Specs /\ NotAbove(lcp', Cached("cp")')
    BY <1>2
  <1>4. Asked # Absent => /\ Asked \in Specs /\ Asked' \in Specs
                          /\ ApiServerVersion(Asked) <= ApiServerVersion(Asked')
    <2>1. CASE cppc' # "idle"
      BY <2>1, <1>2 DEF Asked
    <2>2. CASE cppc' = "idle" /\ cppc # "idle"
      BY <2>2, <1>2 DEF Asked, NotAbove
    <2>3. CASE cppc' = "idle" /\ cppc = "idle"
      BY <2>3, <1>1 DEF Asked, NotAbove
    <2> QED BY <2>1, <2>2, <2>3
  <1>5. Exists("kas")' => /\ Asked' # Absent
                          /\ Store("kas")'.version <= ApiServerVersion(Asked')
    <2>1. Exists("kas") => Store("kas").version \in Nat
      BY VersionsOfChildren DEF Exists
    <2> QED BY <1>4, <2>1 DEF UpgradeOrder, Exists
  <1>6. cppc' \in {"kcm", "ks"} =>
          Exists("kas")' /\ ApiServerVersion(lcp') <= Store("kas")'.version
    BY DEF UpgradeOrder, Exists
  <1> QED BY <1>3, <1>5, <1>6 DEF UpgradeOrder, Asked

\* Every step keeps the order of an upgrade.
LEMMA UpgradeStep ==
  ASSUME Inductive, UpgradeOrder, OnlyUpgrades, [Next]_vars
  PROVE  UpgradeOrder'
  <1> USE ControlPlaneIsPresent, ControlPlaneNames, OrderlySpecs
  <1> DEFINE T == Specs \cup {Absent}
  <1>0. TypeOK /\ ClusterTyped(ControlPlaneObjects) /\ ControlPlaneLocals
    BY DEF Inductive, TypeOK, ClusterTyped
  <1>1. /\ "cp" \in DOMAIN obj /\ Timeline("cp", T)
        /\ \A t \in T : t # Absent => t.version \in Nat
        /\ Cached("cp") \in T /\ Store("cp") \in T
    BY <1>0, ControlPlaneTimeline, TimelineEnds
  <1>a. ASSUME Cached("cp")' = Cached("cp") PROVE NotAbove(Cached("cp"), Cached("cp")')
    <2>1. NotAbove(Cached("cp"), Cached("cp"))
      BY <1>1, NotAboveOrder
    <2> QED BY <1>a, <2>1
  <1>2. {"cp", "lb", "pki", "kas", "kcm", "ks"} \subseteq DOMAIN obj
    BY <1>0 DEF ClusterTyped, TypedTimelines, ControlPlaneObjects, Children
  <1>3. ASSUME \A o \in {"cp", "kas", "kcm", "ks"} : obj'[o] = obj[o],
               cppc' # "idle" => /\ cppc # "idle" /\ lcp' = lcp
                                 /\ cppc' \in {"kcm", "ks"} => cppc \in {"kcm", "ks"}
        PROVE  UpgradeOrder'
    BY <1>0, <1>1, <1>a, <1>3, UpgradeFrame, UpgradePass
  <1>4. ASSUME NEW o \in {"lb", "pki"}, NEW v, Commit(o, v),
               cppc' # "idle" => /\ cppc # "idle" /\ lcp' = lcp
                                 /\ cppc' \in {"kcm", "ks"} => cppc \in {"kcm", "ks"}
        PROVE  UpgradeOrder'
    BY <1>2, <1>3, <1>4, CommitFrame
  <1>5. ASSUME cppc = "kas", Write("kas", After("kas")),
               cppc' = "idle" \/ (cppc' = "kcm" /\ lcp' = lcp)
        PROVE  UpgradeOrder'
    <2>1. /\ Rising("kas")' /\ Exists("kas")'
          /\ Store("kas")'.version = ApiServerVersion(lcp)
          /\ Exists("kas") => Store("kas").version <= Store("kas")'.version
      BY <1>5, ApiServerWritten
    <2>2. \A o \in {"cp", "kcm", "ks"} : obj'[o] = obj[o]
      BY <1>2, <1>5, CommitFrame DEF Write
    <2>3. /\ \A i \in 1..Len(obj'["cp"]) : obj'["cp"][i] \in T
          /\ Rising("cp")' /\ Cached("cp")' = Cached("cp")
      BY <2>2 DEF UpgradeOrder, Rising, Cached
    <2>4. ApiServerUpgradesFirst'
      <3>1. ASSUME NEW o \in {"kcm", "ks"}, Exists(o)'
            PROVE  Store(o)'.version <= Store("kas")'.version
        <4>1. Store(o)' = Store(o) /\ Exists(o)
          BY <2>2, <3>1 DEF Store, Exists
        <4>2. Exists("kas") /\ Store(o).version <= Store("kas").version
          BY <4>1 DEF UpgradeOrder, ApiServerUpgradesFirst
        <4>3. /\ Store(o).version \in Nat /\ Store("kas").version \in Nat
              /\ ApiServerVersion(lcp) \in Nat
          BY <1>0, <1>5, <4>1, <4>2, VersionsOfChildren DEF Exists, UpgradeOrder
        <4> QED BY <2>1, <4>1, <4>2, <4>3
      <3> QED BY <2>1, <3>1 DEF ApiServerUpgradesFirst
    <2>5. lcp \in Specs /\ NotAbove(lcp, Cached("cp"))
      BY <1>5 DEF UpgradeOrder
    <2>6. Asked' # Absent /\ ApiServerVersion(lcp) <= ApiServerVersion(Asked')
      <3>1. CASE cppc' = "idle"
        <4>1. Asked' = Cached("cp")
          BY <2>3, <3>1 DEF Asked
        <4>2. Cached("cp") \in Specs
          BY <1>1, <2>5 DEF NotAbove
        <4> QED BY <2>5, <4>1, <4>2
      <3>2. CASE cppc' # "idle"
        BY <1>5, <2>5, <3>2 DEF Asked
      <3> QED BY <3>1, <3>2
    <2>7. ApiServerVersion(lcp) <= ApiServerVersion(lcp)
      BY <2>5
    <2> QED BY <1>5, <2>1, <2>3, <2>4, <2>5, <2>6, <2>7 DEF UpgradeOrder
  <1>6. ASSUME NEW o \in {"kcm", "ks"}, cppc = o, Write(o, After(o)),
               cppc' # "idle" => cppc' \in {"kcm", "ks"} /\ lcp' = lcp
        PROVE  UpgradeOrder'
    <2>1. /\ \A p \in {"cp", "kas"} : obj'[p] = obj[p]
          /\ ApiServerUpgradesFirst'
      BY <1>2, <1>6, FollowerWritten
    <2>2. /\ \A i \in 1..Len(obj'["cp"]) : obj'["cp"][i] \in T
          /\ Rising("cp")' /\ Rising("kas")'
          /\ Cached("cp")' = Cached("cp") /\ Store("kas")' = Store("kas")
      BY <2>1 DEF UpgradeOrder, Rising, Cached, Store
    <2> QED BY <1>0, <1>1, <1>a, <1>6, <2>1, <2>2, UpgradePass
  <1>7. ASSUME \A i \in 1..Len(obj'["cp"]) : obj'["cp"][i] \in T,
               Rising("cp")', Rising("kas")',
               \A o \in {"kas", "kcm", "ks"} : Store(o)' = Store(o),
               Cached("cp")' \in T, NotAbove(Cached("cp"), Cached("cp")'),
               UNCHANGED controlPlaneVars \/ EndControlPlane
        PROVE  UpgradeOrder'
    <2>1. ApiServerUpgradesFirst'
      BY <1>7 DEF UpgradeOrder, ApiServerUpgradesFirst, Exists
    <2>2. cppc' # "idle" => cppc # "idle" /\ lcp' = lcp /\ cppc' = cppc
      BY <1>7 DEF controlPlaneVars, EndControlPlane
    <2> QED BY <1>0, <1>7, <2>1, <2>2, UpgradePass
  <1>8. CASE StartControlPlane
    <2>1. CASE Cached("cp") = Absent
      BY <1>3, <1>8, <2>1 DEF StartControlPlane
    <2>2. CASE Cached("cp") # Absent
      <3>1. obj' = obj /\ cppc = "idle" /\ cppc' = "lb" /\ lcp' = Cached("cp")
        BY <1>8, <2>2 DEF StartControlPlane
      <3>2. lcp' \in Specs /\ NotAbove(lcp', Cached("cp")')
        BY <1>1, <2>2, <3>1, NotAboveOrder DEF Cached
      <3>3. Asked' = Asked
        BY <3>1 DEF Asked
      <3> QED BY <3>1, <3>2, <3>3, UpgradeFrame DEF UpgradeOrder
    <2> QED BY <2>1, <2>2
  <1>9. ASSUME NEW o \in Children, EnsureChild(o) PROVE UpgradeOrder'
    <2>1. /\ cppc = o /\ cppc' = NextChild(o) /\ (o # "ks" => lcp' = lcp)
          /\ IF Sends(o, After(o)) THEN Write(o, After(o)) ELSE obj' = obj
      BY <1>9 DEF EnsureChild, CreateOrPatch
    <2>2. CASE o \in {"lb", "pki"}
      <3>1. cppc # "idle" /\ cppc' \notin {"idle", "kcm", "ks"} /\ lcp' = lcp
        BY <2>1, <2>2 DEF NextChild
      <3>2. CASE Sends(o, After(o))
        BY <1>4, <2>1, <2>2, <3>1, <3>2 DEF Write
      <3>3. CASE ~Sends(o, After(o))
        BY <1>3, <2>1, <3>1, <3>3
      <3> QED BY <3>2, <3>3
    <2>3. CASE o = "kas"
      <3>1. cppc' = "kcm" /\ lcp' = lcp
        BY <2>1, <2>3 DEF NextChild
      <3>2. CASE Sends(o, After(o))
        BY <1>5, <2>1, <2>3, <3>1, <3>2
      <3>3. CASE ~Sends(o, After(o))
        <4>1. obj' = obj /\ Cached("kas") = After("kas")
          BY <2>1, <2>3, <3>3 DEF Sends
        <4>2. After("kas") \in KubeAPIServers
          BY <1>0, <2>1, <2>3, EnsuredChild, Kinds
        <4>3. Cached("kas") # Absent
          BY <4>1, <4>2, Kinds, AbsentIsNoObject
        <4>4. Cached("kas").version = ApiServerVersion(lcp)
          BY <4>1 DEF After, ChildFor, KubeAPIServerFor, ApiServerVersion
        <4>5. Exists("kas") /\ ApiServerVersion(lcp) <= Store("kas").version
          BY <1>0, <4>3, <4>4, RisingEnds, VersionsOfChildren DEF UpgradeOrder, NotAbove, Exists
        <4>6. lcp \in Specs /\ NotAbove(lcp, Cached("cp")) /\ Asked = lcp /\ Asked' = lcp
          BY <2>1, <2>3, <3>1 DEF UpgradeOrder, Asked
        <4> QED BY <3>1, <4>1, <4>5, <4>6, UpgradeFrame DEF UpgradeOrder
      <3> QED BY <3>2, <3>3
    <2>4. CASE o \in {"kcm", "ks"}
      <3>1. cppc' # "idle" => cppc' \in {"kcm", "ks"} /\ lcp' = lcp
        BY <2>1, <2>4 DEF NextChild
      <3>2. CASE Sends(o, After(o))
        BY <1>6, <2>1, <2>4, <3>1, <3>2
      <3>3. CASE ~Sends(o, After(o))
        BY <1>3, <2>1, <2>4, <3>1, <3>3
      <3> QED BY <3>2, <3>3
    <2> QED BY <2>2, <2>3, <2>4 DEF Children
  <1>10. ASSUME NEW o \in Children, FailChild(o) PROVE UpgradeOrder'
    <2>1. cppc = o /\ cppc' = "idle" /\ (obj' = obj \/ Write(o, After(o)))
      BY <1>10 DEF FailChild, WriteFails, EndControlPlane
    <2>2. CASE obj' = obj
      BY <1>3, <2>1, <2>2
    <2>3. CASE Write(o, After(o))
      <3>1. CASE o \in {"lb", "pki"}
        BY <1>4, <2>1, <2>3, <3>1 DEF Write
      <3>2. CASE o = "kas"
        BY <1>5, <2>1, <2>3, <3>2
      <3>3. CASE o \in {"kcm", "ks"}
        BY <1>6, <2>1, <2>3, <3>3
      <3> QED BY <3>1, <3>2, <3>3 DEF Children
    <2> QED BY <2>1, <2>2, <2>3
  <1>11. CASE Environment
    <2>1. ~DeleteControlPlane /\ \A o \in Children : ~RemoveChild(o)
      BY DEF DeleteControlPlane, RemoveChild, Interfere, Disturb, OnlyUpgrades
    <2>2. \A o \in Children : \A version \in Foreign[o] : ~EditChild(o, version)
      BY DEF EditChild, Interfere, Disturb, OnlyUpgrades
    <2>3. ASSUME NEW spec \in Specs, Apply(spec) PROVE UpgradeOrder'
      <3>1. Commit("cp", spec) /\ UNCHANGED controlPlaneVars
        BY <2>3 DEF Apply, Interfere
      <3>2. Exists("cp") => ~(spec.version < Store("cp").version)
        BY <2>3 DEF Apply, Interfere, Disturb, OnlyUpgrades
      <3>3. NotAbove(Store("cp"), spec)
        BY <1>1, <3>2 DEF NotAbove, Exists
      <3>4. Rising("cp")' /\ Timeline("cp", T)' /\ Cached("cp")' = Cached("cp")
        BY <1>1, <3>1, <3>3, RisingCommit, CommitTimeline DEF UpgradeOrder
      <3>5. \A o \in {"kas", "kcm", "ks"} : obj'[o] = obj[o]
        BY <1>2, <3>1, CommitFrame
      <3>6. Rising("kas")' /\ \A o \in {"kas", "kcm", "ks"} : Store(o)' = Store(o)
        BY <3>5 DEF UpgradeOrder, Rising, Store
      <3>7. \A i \in 1..Len(obj'["cp"]) : obj'["cp"][i] \in T
        BY <3>4 DEF Timeline
      <3> QED BY <1>1, <1>a, <1>7, <3>1, <3>4, <3>6, <3>7
    <2>4. ASSUME NEW ip \in Addresses \ {NoIP}, PublishAddress(ip) PROVE UpgradeOrder'
      <3>1. PICK v : Commit("lb", v) /\ UNCHANGED controlPlaneVars
        BY <2>4 DEF PublishAddress, Interfere
      <3> QED BY <1>4, <3>1 DEF controlPlaneVars
    <2>5. CASE Crash
      <3>1. Relist(Watches) /\ EndControlPlane
        BY <2>5 DEF Crash
      <3>2. Rising("cp")' /\ Timeline("cp", T)' /\ NotAbove(Cached("cp"), Cached("cp")')
            /\ Cached("cp")' = Store("cp")
        BY <1>1, <3>1, RisingRelist, RelistTimeline DEF UpgradeOrder
      <3>3. Rising("kas")'
        BY <1>0, <3>1, RisingRelist, VersionsOfChildren DEF UpgradeOrder
      <3>4. \A o \in {"kas", "kcm", "ks"} : Store(o)' = Store(o)
        BY <1>0, <3>1, RelistTimeline, VersionsOfChildren
      <3>5. \A i \in 1..Len(obj'["cp"]) : obj'["cp"][i] \in T
        BY <3>2 DEF Timeline
      <3> QED BY <1>1, <1>7, <3>1, <3>2, <3>3, <3>4, <3>5
    <2> QED BY <1>11, <2>1, <2>2, <2>3, <2>4, <2>5 DEF Environment
  <1>12. ASSUME NEW o \in ControlPlaneObjects, Watch(o) PROVE UpgradeOrder'
    <2>1. Deliver(o, Watches) /\ UNCHANGED controlPlaneVars
      BY <1>12 DEF Watch
    <2>2. o \in DOMAIN obj /\ \A p \in DOMAIN obj : p # o => obj'[p] = obj[p]
      BY <1>2, <2>1 DEF Deliver, ControlPlaneObjects, Children
    <2>3. CASE o \in {"lb", "pki"}
      BY <1>2, <1>3, <2>1, <2>2, <2>3 DEF controlPlaneVars
    <2>4. CASE o = "cp"
      <3>1. Rising("cp")' /\ NotAbove(Cached("cp"), Cached("cp")') /\ Timeline("cp", T)'
        BY <1>1, <2>1, <2>4, RisingDeliver, DeliverTimeline DEF UpgradeOrder
      <3>2. \A p \in {"kas", "kcm", "ks"} : obj'[p] = obj[p]
        BY <1>2, <2>2, <2>4
      <3>3. Rising("kas")' /\ \A p \in {"kas", "kcm", "ks"} : Store(p)' = Store(p)
        BY <3>2 DEF UpgradeOrder, Rising, Store
      <3>4. Cached("cp")' \in T /\ \A i \in 1..Len(obj'["cp"]) : obj'["cp"][i] \in T
        BY <3>1 DEF Timeline, Cached
      <3> QED BY <1>7, <2>1, <3>1, <3>3, <3>4
    <2>5. CASE o \in {"kas", "kcm", "ks"}
      <3>1. Store(o)' = Store(o)
        BY <1>0, <2>1, <2>5, DeliverTimeline, VersionsOfChildren
      <3>2. \A p \in {"cp", "kas", "kcm", "ks"} \ {o} : obj'[p] = obj[p]
        BY <1>2, <2>2
      <3>3. \A p \in {"kas", "kcm", "ks"} : Store(p)' = Store(p)
        BY <3>1, <3>2 DEF Store
      <3>4. Rising("kas")'
        <4>1. CASE o = "kas"
          BY <1>0, <2>1, <4>1, RisingDeliver, VersionsOfChildren DEF UpgradeOrder
        <4>2. CASE o # "kas"
          BY <3>2, <4>2 DEF UpgradeOrder, Rising
        <4> QED BY <4>1, <4>2
      <3>5. obj'["cp"] = obj["cp"]
        BY <2>5, <3>2
      <3>6. /\ \A i \in 1..Len(obj'["cp"]) : obj'["cp"][i] \in T
            /\ Rising("cp")' /\ Cached("cp")' = Cached("cp")
        BY <3>5 DEF UpgradeOrder, Rising, Cached
      <3> QED BY <1>1, <1>a, <1>7, <2>1, <3>3, <3>4, <3>6
    <2> QED BY <2>3, <2>4, <2>5 DEF ControlPlaneObjects, Children
  <1>13. CASE PeriodicResync \/ UNCHANGED vars
    BY <1>3, <1>13 DEF PeriodicResync, Resync, vars, clusterVars, controlPlaneVars
  <1> QED BY <1>8, <1>9, <1>10, <1>11, <1>12, <1>13 DEF Next, ControlPlaneReconcile

\* If the users only upgrade, no component ever runs a version newer than the
\* API server's, however stale the caches and wherever a pass is cut short.
THEOREM UpgradeSafety ==
  ASSUME OnlyUpgrades
  PROVE  Spec => []ApiServerUpgradesFirst
  <1>1. Init => UpgradeOrder
    <2> SUFFICES ASSUME Init PROVE UpgradeOrder
      OBVIOUS
    <2>1. \A o \in ControlPlaneObjects : obj[o] = <<Absent>>
      BY ControlPlaneIsPresent DEF Init, ClusterInit
    <2>2. \A o \in {"cp", "kas", "kcm", "ks"} : obj[o] = <<Absent>> /\ Store(o) = Absent
      BY <2>1 DEF ControlPlaneObjects, Children, Store
    <2>3. cppc = "idle"
      BY DEF Init, ControlPlaneInit
    <2> QED BY <2>2, <2>3 DEF UpgradeOrder, Rising, NotAbove, ApiServerUpgradesFirst, Exists
  <1>2. Inductive /\ UpgradeOrder /\ [Next]_vars => UpgradeOrder'
    BY UpgradeStep
  <1>3. UpgradeOrder => ApiServerUpgradesFirst
    BY DEF UpgradeOrder
  <1> QED BY <1>1, <1>2, <1>3, InductiveInvariance, PTL DEF Spec
==============================================================================
