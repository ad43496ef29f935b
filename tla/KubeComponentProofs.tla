-------------------------- MODULE KubeComponentProofs --------------------------
(***************************************************************************)
(* The component reconcilers, proved for every set of tenants, specs,      *)
(* Secrets and edits and any number of disturbances: types, the Secrets of *)
(* a Deployment's pods, and what a controller at rest leaves behind.       *)
(***************************************************************************)
EXTENDS KubeComponent, ClusterProofs

\* What a step of a pass can be.
Steps(c) == Roles(c) \cup ComponentChildren(c)

\* The versions an object of a component can have.
KubeKind(c, o) ==
  IF o[1] = "spec" THEN [spec : Specs[c][o[2]], uid : Nat]
  ELSE IF o[1] = "deployment" THEN Deployments ELSE ConfigObjects

KubeVersions(c, o) == KubeKind(c, o) \cup {Absent}

KubeTimelines(c) ==
  DOMAIN obj = Objects /\ \A o \in ComponentObjects(c) : Timeline(o, KubeVersions(c, o))

\* The part of the types that is not about the API objects.
PassTypes ==
  IF kpc = "idle"
    THEN ltenant = Absent /\ lres = Absent
    ELSE kpc \in Steps(component) /\ ltenant \in Tenants /\ lres \in ResourcesOf(ltenant)

KubeLocals ==
  /\ component \in Components
  /\ queue \subseteq Tenants
  /\ budget \in Nat
  /\ PassTypes
  /\ lsecret \in Nat
  /\ secrets \in [SecretNames -> Nat]

-----------------------------------------------------------------------------
(* Names and plans.                                                        *)

\* The names of a component's objects.
LEMMA KubeNames ==
  ASSUME NEW c \in Components
  PROVE  /\ ComponentObjects(c) \subseteq Objects
         /\ \A t \in Tenants : /\ Resource(t) \in ComponentObjects(c)
                               /\ Resource(t)[1] = "spec" /\ Resource(t)[2] = t
         /\ \A o \in ComponentChildren(c), t \in Tenants :
              /\ Child(c, o, t) \in ChildNames(c)
              /\ Child(c, o, t)[1] = o
         /\ ChildNames(c) \subseteq ComponentObjects(c)
         /\ \A x \in ChildNames(c) : x[1] \in ComponentChildren(c)
         /\ \A x \in ComponentObjects(c) :
              x \in ChildNames(c) \/ \E t \in Tenants : x = Resource(t)
  BY ComponentIsPresent DEF ComponentObjects, ChildNames, Child, Resource

\* The steps' kinds do not mix.
LEMMA KubeSteps ==
  ASSUME NEW c \in Components
  PROVE  /\ ComponentChildren(c) \subseteq {"kubeconfig", "egress", "deployment"}
         /\ "deployment" \in ComponentChildren(c)
         /\ Owned(c) \subseteq ComponentChildren(c)
         /\ ComponentChildren(c) \cap Roles(c) = {}
         /\ "spec" \notin ComponentChildren(c)
         /\ "idle" \notin Steps(c)
         /\ Embedded(c) \in Roles(c)
  BY DEF Components, ComponentChildren, Configs, Owned, KubeAPIServerOwns,
         KubeControllerManagerOwns, KubeSchedulerOwns, Roles, Steps, Embedded

\* A plan takes each step once, and the Deployment's last.
LEMMA Plans ==
  ASSUME NEW c \in Components
  PROVE  /\ Len(Plan(c)) \in Nat \ {0}
         /\ DOMAIN Plan(c) = 1..Len(Plan(c))
         /\ Steps(c) = {Plan(c)[i] : i \in DOMAIN Plan(c)}
         /\ \A i, j \in DOMAIN Plan(c) : Plan(c)[i] = Plan(c)[j] => i = j
         /\ Plan(c)[Len(Plan(c))] = "deployment"
  <1>1. CASE c = "kube-apiserver"
    BY <1>1 DEF Plan, KubeAPIServerPlan, Steps, Roles, ComponentChildren, Configs
  <1>2. CASE c = "kube-controller-manager"
    BY <1>2 DEF Plan, KubeControllerManagerPlan, Steps, Roles, ComponentChildren, Configs
  <1>3. CASE c = "kube-scheduler"
    BY <1>3 DEF Plan, KubeSchedulerPlan, Steps, Roles, ComponentChildren, Configs
  <1> QED BY <1>1, <1>2, <1>3 DEF Components

\* The steps behind the j-th.
LEMMA BehindIs ==
  ASSUME component \in Components, NEW j \in DOMAIN Plan(component), kpc = Plan(component)[j]
  PROVE  Behind = {Plan(component)[i] : i \in 1..(j - 1)}
  <1> DEFINE plan == Plan(component)
  <1>1. /\ DOMAIN plan = 1..Len(plan) /\ Len(plan) \in Nat
        /\ \A i, k \in DOMAIN plan : plan[i] = plan[k] => i = k
    BY Plans
  <1> HIDE DEF plan
  <1>2. {i \in DOMAIN plan : \E k \in DOMAIN plan : i < k /\ plan[k] = kpc} = 1..(j - 1)
    BY <1>1 DEF plan
  <1> QED BY <1>2 DEF Behind, plan

\* What comes after a step.
LEMMA NextStepIs ==
  ASSUME component \in Components, NEW j \in DOMAIN Plan(component)
  PROVE  NextStep(Plan(component)[j]) =
           IF j = Len(Plan(component)) THEN "idle" ELSE Plan(component)[j + 1]
  <1> DEFINE plan == Plan(component)
             i == CHOOSE i \in DOMAIN plan : plan[i] = plan[j]
  <1>1. \A i_1, k \in DOMAIN plan : plan[i_1] = plan[k] => i_1 = k
    BY Plans
  <1>2. i = j
    BY <1>1
  <1> QED BY <1>2 DEF NextStep

-----------------------------------------------------------------------------
(* What a step does to the objects.                                        *)

\* What the copies of an object can be.
LEMMA KubeEnds ==
  ASSUME NEW c, KubeTimelines(c), NEW o \in ComponentObjects(c)
  PROVE  /\ Store(o) \in KubeVersions(c, o) /\ Cached(o) \in KubeVersions(c, o)
         /\ Fresh(o) => Cached(o) = Store(o)
  BY TimelineEnds DEF KubeTimelines

\* No two versions that follow each other are equal.
NoRepeat(o) == \A i \in 1..Len(obj[o]) - 1 : obj[o][i] # obj[o][i + 1]

\* An object whose cache is up to date after the step was not touched by it.
QuietStep == \A x \in ComponentObjects(component) : Fresh(x)' => obj'[x] = obj[x]

\* A write.
LEMMA KubeCommit ==
  ASSUME NEW c \in Components, KubeTimelines(c), NEW o \in ComponentObjects(c),
         NEW v \in KubeVersions(c, o), Commit(o, v)
  PROVE  /\ KubeTimelines(c)'
         /\ Store(o)' = v
         /\ Cached(o)' = Cached(o)
         /\ \A x \in ComponentObjects(c) \ {o} : obj'[x] = obj[x]
         /\ \A x \in ComponentObjects(c) : Fresh(x)' => obj'[x] = obj[x]
         /\ \A x \in ComponentObjects(c) : NoRepeat(x) => NoRepeat(x)'
  <1>1. o \in DOMAIN obj /\ Timeline(o, KubeVersions(c, o))
    BY KubeNames DEF KubeTimelines
  <1>2. /\ Timeline(o, KubeVersions(c, o))' /\ Store(o)' = v /\ Cached(o)' = Cached(o)
        /\ Fresh(o)' => Fresh(o) /\ v = Store(o)
    BY <1>1, CommitTimeline
  <1>3. DOMAIN obj' = Objects /\ \A x \in ComponentObjects(c) \ {o} : obj'[x] = obj[x]
    BY CommitFrame, KubeNames DEF KubeTimelines
  <1>4. KubeTimelines(c)'
    BY <1>2, <1>3 DEF KubeTimelines, Timeline
  <1>5. obj'[o] = IF v = Store(o) THEN obj[o] ELSE Append(obj[o], v)
    BY <1>1 DEF Commit
  <1>6. Fresh(o)' => obj'[o] = obj[o]
    BY <1>2, <1>5
  <1>7. ASSUME NoRepeat(o) PROVE NoRepeat(o)'
    <2>1. CASE v = Store(o)
      BY <1>5, <1>7, <2>1 DEF NoRepeat
    <2>2. CASE v # Store(o)
      <3> DEFINE s == obj[o]
                 n == Len(s)
      <3>1. n \in Nat \ {0} /\ s \in Seq(KubeVersions(c, o))
        BY <1>1, TimelineEnds DEF Timeline
      <3>2. /\ Len(Append(s, v)) = n + 1
            /\ \A i \in 1..n : Append(s, v)[i] = s[i]
            /\ Append(s, v)[n + 1] = v
        BY <3>1
      <3>3. s[n] # v /\ \A i \in 1..n - 1 : s[i] # s[i + 1]
        BY <1>7, <2>2 DEF NoRepeat, Store
      <3> HIDE DEF n, s
      <3>4. \A i \in 1..n : Append(s, v)[i] # Append(s, v)[i + 1]
        <4> TAKE i \in 1..n
        <4>1. CASE i = n
          BY <4>1, <3>1, <3>2, <3>3
        <4>2. CASE i # n
          <5>1. i \in 1..n - 1 /\ i + 1 \in 1..n
            BY <4>2, <3>1
          <5> QED BY <5>1, <3>2, <3>3
        <4> QED BY <4>1, <4>2
      <3>5. obj'[o] = Append(s, v) /\ Len(obj'[o]) - 1 = n
        BY <1>5, <2>2, <3>1, <3>2 DEF s
      <3> QED BY <3>4, <3>5 DEF NoRepeat
    <2> QED BY <2>1, <2>2
  <1>8. \A x \in ComponentObjects(c) : NoRepeat(x) => NoRepeat(x)'
    BY <1>3, <1>7 DEF NoRepeat
  <1> QED BY <1>2, <1>3, <1>4, <1>6, <1>8

\* A watch event.
LEMMA KubeDeliver ==
  ASSUME NEW c \in Components, KubeTimelines(c), NEW o \in ComponentObjects(c),
         NEW watched, Deliver(o, watched)
  PROVE  /\ KubeTimelines(c)'
         /\ \A x \in ComponentObjects(c) : Store(x)' = Store(x)
         /\ \A x \in ComponentObjects(c) \ {o} : obj'[x] = obj[x]
         /\ Fresh(o)' => Len(obj[o]) = 2 /\ obj[o][2] = Store(o)
         /\ \A x \in ComponentObjects(c) : NoRepeat(x) => NoRepeat(x)'
  <1>1. o \in DOMAIN obj /\ Timeline(o, KubeVersions(c, o)) /\ DOMAIN obj = Objects
    BY KubeNames DEF KubeTimelines
  <1>2. /\ Timeline(o, KubeVersions(c, o))'
        /\ Store(o)' = Store(o)
        /\ DOMAIN obj' = DOMAIN obj
        /\ \A p \in DOMAIN obj : p # o => obj'[p] = obj[p]
    BY <1>1, DeliverTimeline
  <1>3. \A x \in ComponentObjects(c) \ {o} : obj'[x] = obj[x]
    BY <1>1, <1>2, KubeNames
  <1>4. KubeTimelines(c)'
    BY <1>1, <1>2, <1>3 DEF KubeTimelines, Timeline
  <1> DEFINE n == Len(obj[o])
  <1>5. obj'[o] = Tail(obj[o]) /\ n # 1
    BY <1>1 DEF Deliver, Fresh
  <1>6. n \in Nat \ {0}
    BY <1>1, TimelineEnds
  <1>7. /\ Len(obj'[o]) = n - 1
        /\ \A i \in 1..n - 1 : obj'[o][i] = obj[o][i + 1]
    BY <1>1, <1>5, <1>6, HeadTailProperties DEF Timeline
  <1>8. ASSUME Fresh(o)' PROVE n = 2 /\ obj[o][2] = Store(o)
    <2>1. Len(obj'[o]) = 1
      BY <1>8 DEF Fresh
    <2>2. n - 1 = 1
      BY <2>1, <1>7
    <2>3. n = 2
      <3> HIDE DEF n
      <3> QED BY <2>2, <1>6
    <2> QED BY <2>3 DEF Store
  <1>9. ASSUME NoRepeat(o) PROVE NoRepeat(o)'
    <2>1. \A i \in 1..n - 1 : obj[o][i] # obj[o][i + 1]
      BY <1>9 DEF NoRepeat
    <2> HIDE DEF n
    <2>2. \A i \in 1..(n - 1) - 1 : obj'[o][i] # obj'[o][i + 1]
      <3> TAKE i \in 1..(n - 1) - 1
      <3>1. i \in 1..n - 1 /\ i + 1 \in 1..n - 1
        BY <1>6
      <3> QED BY <3>1, <2>1, <1>7
    <2> QED BY <2>2, <1>7 DEF NoRepeat
  <1>10. \A x \in ComponentObjects(c) : NoRepeat(x) => NoRepeat(x)'
    BY <1>3, <1>9 DEF NoRepeat
  <1>11. \A x \in ComponentObjects(c) : Store(x)' = Store(x)
    BY <1>2, <1>3 DEF Store
  <1> QED BY <1>3, <1>4, <1>8, <1>10, <1>11

\* A restart.
LEMMA KubeRelist ==
  ASSUME NEW c \in Components, KubeTimelines(c), NEW watched, Relist(watched)
  PROVE  /\ KubeTimelines(c)'
         /\ \A x \in ComponentObjects(c) : Store(x)' = Store(x) /\ NoRepeat(x)'
  <1>1. ASSUME NEW x \in ComponentObjects(c)
        PROVE  /\ Timeline(x, KubeVersions(c, x))'
               /\ Store(x)' = Store(x) /\ NoRepeat(x)'
    <2>1. x \in DOMAIN obj /\ Timeline(x, KubeVersions(c, x))
      BY KubeNames DEF KubeTimelines
    <2>2. Timeline(x, KubeVersions(c, x))' /\ Store(x)' = Store(x)
      BY <2>1, RelistTimeline
    <2>3. obj'[x] = <<Store(x)>>
      BY <2>1 DEF Relist
    <2> QED BY <2>2, <2>3 DEF NoRepeat
  <1>2. DOMAIN obj' = DOMAIN obj
    BY DEF Relist
  <1> QED BY <1>1, <1>2 DEF KubeTimelines

\* No object is written.
LEMMA KubeStays ==
  ASSUME NEW c, KubeTimelines(c), UNCHANGED obj
  PROVE  /\ KubeTimelines(c)'
         /\ \A x \in ComponentObjects(c) : NoRepeat(x) => NoRepeat(x)'
  BY DEF KubeTimelines, Timeline, NoRepeat

-----------------------------------------------------------------------------
(* Types.                                                                  *)

\* A sequence over a set is one over a larger set.
LEMMA SeqWiden ==
  ASSUME NEW S, NEW T, S \subseteq T, NEW s \in Seq(S)
  PROVE  s \in Seq(T)
  OBVIOUS

\* A tenant's resources are resources of the component.
LEMMA ResourcesAre ==
  ASSUME component \in Components, NEW t \in Tenants
  PROVE  /\ ResourcesOf(t) \subseteq Resources(component)
         /\ ResourcesOf(t) = KubeKind(component, Resource(t))
         /\ Absent \notin ResourcesOf(t)
  <1>1. ResourcesOf(t) \subseteq Resources(component)
    BY SpecsAreComponentSpecs DEF ResourcesOf, Resources
  <1>2. ResourcesOf(t) = KubeKind(component, Resource(t))
    BY KubeNames DEF ResourcesOf, KubeKind
  <1> QED BY <1>1, <1>2, AbsentIsNoComponentObject

\* Together they are the types of the specification.
LEMMA KubeTypesJoin ==
  ASSUME KubeTimelines(component), KubeLocals
  PROVE  TypeOK /\ ResourcesAsked
  <1>1. component \in Components
    BY DEF KubeLocals
  <1>2. ASSUME NEW t \in Tenants
        PROVE  /\ obj[Resource(t)] \in Seq(ResourcesOf(t) \cup {Absent})
               /\ obj[Resource(t)] \in Seq(Resources(component) \cup {Absent})
               /\ obj[Resource(t)] # <<>>
    <2>1. /\ obj[Resource(t)] \in Seq(ResourcesOf(t) \cup {Absent})
          /\ obj[Resource(t)] # <<>>
      BY <1>1, KubeNames, ResourcesAre DEF KubeTimelines, Timeline, KubeVersions
    <2>2. ResourcesOf(t) \cup {Absent} \subseteq Resources(component) \cup {Absent}
      BY <1>1, ResourcesAre
    <2> QED BY <2>1, <2>2, SeqWiden
  <1>3. ASSUME NEW o \in ChildNames(component)
        PROVE  obj[o] \in Seq((IF o[1] = "deployment" THEN Deployments ELSE ConfigObjects)
                               \cup {Absent}) \ {<<>>}
    <2>1. o[1] # "spec" /\ o \in ComponentObjects(component)
      BY <1>1, KubeNames, KubeSteps
    <2> QED BY <2>1 DEF KubeTimelines, Timeline, KubeVersions, KubeKind
  <1>4. lres \in IF kpc = "idle" THEN {Absent} ELSE Resources(component)
    BY <1>1, ResourcesAre DEF KubeLocals, PassTypes
  <1>5. kpc \in Roles(component) \cup ComponentChildren(component) \cup {"idle"}
    BY DEF KubeLocals, PassTypes, Steps
  <1>6. ltenant \in IF kpc = "idle" THEN {Absent} ELSE Tenants
    BY DEF KubeLocals, PassTypes
  <1>7. TypeOK
    BY <1>2, <1>3, <1>4, <1>5, <1>6 DEF TypeOK, KubeTimelines, KubeLocals
  <1> QED BY <1>2, <1>7 DEF ResourcesAsked, KubeLocals, PassTypes

\* The labels of a component's pods are a label map.
LEMMA LabelsType ==
  ASSUME NEW c \in Components, NEW t \in Tenants, NEW more \in LabelMaps
  PROVE  labels(c, t, more) \in LabelMaps
  <1> DEFINE base == [k \in {NameKey, InstanceKey} |-> IF k = NameKey THEN c ELSE t]
  <1>1. base \in [{NameKey, InstanceKey} -> LabelValues]
    BY ComponentsAreLabels, TenantsAreLabels
  <1>2. {NameKey, InstanceKey} \in SUBSET LabelKeys
    BY LabelVocabulary DEF NameKey, InstanceKey
  <1>3. base \in LabelMaps
    BY <1>1, <1>2 DEF LabelMaps
  <1> QED BY <1>3, OverlayType DEF labels

\* The empty label map.
LEMMA NoLabelsType == NoLabels \in LabelMaps
  <1>1. NoLabels \in [{} -> LabelValues] /\ {} \in SUBSET LabelKeys
    BY DEF NoLabels
  <1> QED BY <1>1 DEF LabelMaps

\* What a tenant asks for is an object of its kind, with the owner it is given.
LEMMA ChildType ==
  ASSUME NEW c \in Components, NEW o \in ComponentChildren(c), NEW t \in Tenants,
         NEW spec \in ComponentSpecs(c), NEW n \in Nat, NEW owner \in Owners
  PROVE  /\ ComponentChildFor(c, o, t, spec, n, owner) \in KubeKind(c, Child(c, o, t))
         /\ ComponentChildFor(c, o, t, spec, n, owner).owner = owner
  <1> DEFINE child == ComponentChildFor(c, o, t, spec, n, owner)
  <1>1. Child(c, o, t)[1] = o /\ o # "spec"
    BY KubeNames, KubeSteps
  <1>2. /\ spec.version \in Versions /\ spec.labels \in LabelMaps
        /\ \A r \in Roles(c) : spec.tls[r] \in SecretNames
    BY DEF ComponentSpecs
  <1>3. labels(c, t, spec.labels) \in LabelMaps /\ labels(c, t, NoLabels) \in LabelMaps
    BY <1>2, LabelsType, NoLabelsType
  <1>4. CASE o = "deployment"
    <2>1. CASE c = "kube-apiserver"
      <3>1. {spec.tls[r] : r \in {"ca", "service-accounts", "serving"}} \subseteq SecretNames
        BY <1>2, <2>1 DEF Roles
      <3>2. child = KubeAPIServerDeployment(t, spec, owner)
        BY <1>4, <2>1 DEF ComponentChildFor, DeploymentFor
      <3>3. child \in Deployments /\ child.owner = owner
        BY <1>2, <1>3, <2>1, <3>1, <3>2 DEF KubeAPIServerDeployment, Deployments
      <3> QED BY <1>1, <1>4, <3>3 DEF KubeKind
    <2>2. CASE c = "kube-controller-manager"
      <3>1. {"kube-controller-manager", "service-accounts", spec.tls["ca"]} \subseteq SecretNames
        BY <1>2, <2>2, SecretVocabulary DEF Roles
      <3>2. child = KubeControllerManagerDeployment(t, spec, owner)
        BY <1>4, <2>2 DEF ComponentChildFor, DeploymentFor
      <3>3. child \in Deployments /\ child.owner = owner
        BY <1>2, <1>3, <2>2, <3>1, <3>2 DEF KubeControllerManagerDeployment, Deployments
      <3> QED BY <1>1, <1>4, <3>3 DEF KubeKind
    <2>3. CASE c = "kube-scheduler"
      <3>1. {spec.tls["serving"]} \subseteq SecretNames
        BY <1>2, <2>3 DEF Roles
      <3>2. child = KubeSchedulerDeployment(t, spec, owner)
        BY <1>4, <2>3 DEF ComponentChildFor, DeploymentFor
      <3>3. child \in Deployments /\ child.owner = owner
        BY <1>2, <1>3, <2>3, <3>1, <3>2 DEF KubeSchedulerDeployment, Deployments
      <3> QED BY <1>1, <1>4, <3>3 DEF KubeKind
    <2> QED BY <2>1, <2>2, <2>3 DEF Components
  <1>5. CASE o # "deployment"
    <2>1. spec.tls[Embedded(c)] \in SecretNames
      BY <1>2, KubeSteps
    <2>2. child \in ConfigObjects /\ child.owner = owner
      BY <1>5, <2>1 DEF ComponentChildFor, ConfigFor, ConfigObjects
    <2> QED BY <1>1, <1>5, <2>2 DEF KubeKind
  <1> QED BY <1>4, <1>5

\* A patch of an object yields one of the same kind, and over an up-to-date copy
\* the object it was computed as.
LEMMA PatchedKind ==
  ASSUME NEW K \in {Deployments, ConfigObjects}, NEW s \in K, NEW b \in K, NEW a \in K
  PROVE  Patched(s, b, a) \in K /\ Patched(s, s, a) = a
  <1>1. CASE K = Deployments
    <2>1. DOMAIN s = {"version", "selector", "mounts", "owner"}
      BY <1>1 DEF Deployments
    <2>2. /\ Patched(s, b, a) =
               [version  |-> IF a.version # b.version THEN a.version ELSE s.version,
                selector |-> IF a.selector # b.selector THEN a.selector ELSE s.selector,
                mounts   |-> IF a.mounts # b.mounts THEN a.mounts ELSE s.mounts,
                owner    |-> IF a.owner # b.owner THEN a.owner ELSE s.owner]
          /\ Patched(s, s, a) =
               [version |-> a.version, selector |-> a.selector,
                mounts |-> a.mounts, owner |-> a.owner]
      BY <2>1 DEF Patched
    <2>3. /\ a.version \in Versions /\ s.version \in Versions
          /\ a.selector \in LabelMaps /\ s.selector \in LabelMaps
          /\ a.mounts \in SUBSET SecretNames /\ s.mounts \in SUBSET SecretNames
          /\ a.owner \in Owners /\ s.owner \in Owners
      BY <1>1 DEF Deployments
    <2>4. Patched(s, b, a) \in Deployments
      BY <2>2, <2>3 DEF Deployments
    <2>5. a = [version |-> a.version, selector |-> a.selector,
               mounts |-> a.mounts, owner |-> a.owner]
      BY <1>1 DEF Deployments
    <2> QED BY <1>1, <2>2, <2>4, <2>5
  <1>2. CASE K = ConfigObjects
    <2>1. DOMAIN s = {"from", "issue", "owner"}
      BY <1>2 DEF ConfigObjects
    <2>2. /\ Patched(s, b, a) =
               [from  |-> IF a.from # b.from THEN a.from ELSE s.from,
                issue |-> IF a.issue # b.issue THEN a.issue ELSE s.issue,
                owner |-> IF a.owner # b.owner THEN a.owner ELSE s.owner]
          /\ Patched(s, s, a) = [from |-> a.from, issue |-> a.issue, owner |-> a.owner]
      BY <2>1 DEF Patched
    <2>3. /\ a.from \in SecretNames \cup {NoSecret} /\ s.from \in SecretNames \cup {NoSecret}
          /\ a.issue \in Nat /\ s.issue \in Nat
          /\ a.owner \in Owners /\ s.owner \in Owners
      BY <1>2 DEF ConfigObjects
    <2>4. Patched(s, b, a) \in ConfigObjects
      BY <2>2, <2>3 DEF ConfigObjects
    <2>5. a = [from |-> a.from, issue |-> a.issue, owner |-> a.owner]
      BY <1>2 DEF ConfigObjects
    <2> QED BY <1>2, <2>2, <2>4, <2>5
  <1> QED BY <1>1, <1>2

\* The object of a child.
LEMMA ChildKind ==
  ASSUME NEW c \in Components, NEW x \in ChildNames(c)
  PROVE  /\ KubeKind(c, x) \in {Deployments, ConfigObjects}
         /\ Absent \notin KubeKind(c, x)
         /\ x \in ComponentObjects(c)
         /\ \A v \in KubeKind(c, x) : v.owner \in Owners
  <1>1. x[1] # "spec" /\ x \in ComponentObjects(c)
    BY KubeNames, KubeSteps
  <1>2. KubeKind(c, x) \in {Deployments, ConfigObjects}
    BY <1>1 DEF KubeKind
  <1>3. (\A v \in Deployments : v.owner \in Owners) /\ (\A v \in ConfigObjects : v.owner \in Owners)
    BY DEF Deployments, ConfigObjects
  <1> QED BY <1>1, <1>2, <1>3, AbsentIsNoComponentObject

\* The running pass.
LEMMA RunningPass ==
  ASSUME KubeLocals, kpc \in Steps(component)
  PROVE  /\ component \in Components
         /\ kpc # "idle"
         /\ ltenant \in Tenants
         /\ lres \in ResourcesOf(ltenant)
         /\ lres.spec \in Specs[component][ltenant]
         /\ lres.spec \in ComponentSpecs(component)
         /\ lres.uid \in Nat
         /\ [name |-> ltenant, uid |-> lres.uid] \in Owners
  <1>1. component \in Components
    BY DEF KubeLocals
  <1>2. kpc # "idle"
    BY <1>1, KubeSteps
  <1>3. ltenant \in Tenants /\ lres \in ResourcesOf(ltenant)
    BY <1>2 DEF KubeLocals, PassTypes
  <1> QED BY <1>1, <1>2, <1>3, SpecsAreComponentSpecs DEF ResourcesOf, Owners

\* The child a pass asks for, and the one the server makes of it.
LEMMA AfterType ==
  ASSUME KubeTimelines(component), KubeLocals,
         NEW o \in ComponentChildren(component), kpc = o
  PROVE  LET name == Child(component, o, ltenant) IN
         /\ name \in ChildNames(component) /\ name \in ComponentObjects(component)
         /\ name[1] = o
         /\ After(o) \in KubeKind(component, name)
         /\ ~Refused(name) => Written(name, After(o)) \in KubeKind(component, name)
  <1> DEFINE name == Child(component, o, ltenant)
             K == KubeKind(component, name)
             fresh == [name |-> ltenant, uid |-> lres.uid]
             owner == IF Cached(name) = Absent THEN fresh ELSE Cached(name).owner
  <1>1. /\ component \in Components /\ ltenant \in Tenants
        /\ lres.spec \in ComponentSpecs(component) /\ fresh \in Owners
    BY RunningPass DEF Steps
  <1>2. name \in ChildNames(component) /\ name[1] = o
    BY <1>1, KubeNames
  <1>3. /\ K \in {Deployments, ConfigObjects} /\ Absent \notin K
        /\ name \in ComponentObjects(component)
        /\ \A v \in K : v.owner \in Owners
    BY <1>1, <1>2, ChildKind
  <1>4. Store(name) \in K \cup {Absent} /\ Cached(name) \in K \cup {Absent}
    BY <1>3, KubeEnds DEF KubeVersions
  <1>5. owner \in Owners
    BY <1>1, <1>3, <1>4
  <1>6. lsecret \in Nat
    BY DEF KubeLocals
  <1>7. After(o) = ComponentChildFor(component, o, ltenant, lres.spec, lsecret, owner)
    BY DEF After
  <1> HIDE DEF owner, fresh
  <1>8. After(o) \in K
    BY <1>1, <1>5, <1>6, <1>7, ChildType
  <1>9. ASSUME ~Refused(name) PROVE Written(name, After(o)) \in K
    <2>1. CASE Cached(name) = Absent
      BY <1>8, <2>1 DEF Written
    <2>2. CASE Cached(name) # Absent
      <3>1. Store(name) \in K /\ Cached(name) \in K
        BY <1>4, <1>9, <2>2 DEF Refused
      <3>2. Written(name, After(o)) = Patched(Store(name), Cached(name), After(o))
        BY <2>2 DEF Written
      <3> HIDE DEF K, name
      <3> QED BY <1>3, <1>8, <3>1, <3>2, PatchedKind
    <2> QED BY <2>1, <2>2
  <1> QED BY <1>2, <1>3, <1>8, <1>9

-----------------------------------------------------------------------------
(* How a step changes the objects.                                         *)

\* A version is written, nothing is, a watch delivers, or the manager restarts.
Rewrites ==
  \E o \in ComponentObjects(component) :
    \E v \in KubeVersions(component, o) : Commit(o, v)

\* A write, or nothing, leaves the caches behind that it makes stale.
LEMMA QuietRewrite ==
  ASSUME KubeTimelines(component), component \in Components, UNCHANGED component,
         Rewrites \/ UNCHANGED obj
  PROVE  QuietStep /\ KubeTimelines(component)' /\ (NoRepeats => NoRepeats')
  <1>1. PICK c \in Components : component = c
    OBVIOUS
  <1>2. CASE UNCHANGED obj
    <2>1. KubeTimelines(c)' /\ \A x \in ComponentObjects(c) : NoRepeat(x) => NoRepeat(x)'
      BY <1>1, <1>2, KubeStays
    <2> QED BY <1>1, <1>2, <2>1 DEF QuietStep, KubeTimelines, NoRepeats, NoRepeat
  <1>3. ASSUME NEW o \in ComponentObjects(component),
               NEW v \in KubeVersions(component, o), Commit(o, v)
        PROVE  QuietStep /\ KubeTimelines(component)' /\ (NoRepeats => NoRepeats')
    <2>1. /\ KubeTimelines(c)'
          /\ \A x \in ComponentObjects(c) : Fresh(x)' => obj'[x] = obj[x]
          /\ \A x \in ComponentObjects(c) : NoRepeat(x) => NoRepeat(x)'
      BY <1>1, <1>3, KubeCommit
    <2> QED BY <1>1, <2>1 DEF QuietStep, KubeTimelines, NoRepeats, NoRepeat
  <1> QED BY <1>2, <1>3 DEF Rewrites

-----------------------------------------------------------------------------
(* Every step keeps the types, what was issued, and what a pass has found. *)

KubeInductive ==
  /\ KubeTimelines(component) /\ KubeLocals
  /\ NoRepeats /\ IssuesBounded /\ SecretsFound

\* The part of it that is not about the API objects.
PassInductive == KubeLocals /\ IssuesBounded /\ SecretsFound

\* Nothing is behind a controller at rest, nor a pass that starts.
LEMMA NothingBehind ==
  ASSUME component \in Components, kpc = "idle" \/ kpc = Plan(component)[1]
  PROVE  Behind = {}
  <1>1. CASE kpc = "idle"
    BY <1>1, KubeSteps, Plans DEF Behind
  <1>2. CASE kpc = Plan(component)[1]
    <2>1. 1 \in DOMAIN Plan(component)
      BY Plans
    <2> QED BY <1>2, <2>1, BehindIs
  <1> QED BY <1>1, <1>2

\* A pass that takes a step has it behind it.
LEMMA StepTaken ==
  ASSUME component \in Components, NEW s \in Steps(component), kpc = s,
         kpc' = NextStep(s), UNCHANGED component
  PROVE  IF NextStep(s) = "idle"
           THEN Steps(component) \subseteq Behind \cup {s} /\ Behind' = {}
           ELSE NextStep(s) \in Steps(component) /\ Behind' = Behind \cup {s}
  <1> DEFINE plan == Plan(component)
             n == Len(plan)
  <1>1. /\ n \in Nat \ {0} /\ DOMAIN plan = 1..n
        /\ Steps(component) = {plan[i] : i \in 1..n}
        /\ \A i, k \in 1..n : plan[i] = plan[k] => i = k
    BY Plans
  <1>2. PICK j \in 1..n : s = plan[j]
    BY <1>1
  <1>3. Behind = {plan[i] : i \in 1..(j - 1)}
    BY <1>1, <1>2, BehindIs
  <1>4. NextStep(s) = IF j = n THEN "idle" ELSE plan[j + 1]
    BY <1>1, <1>2, NextStepIs
  <1>5. Behind' = {plan[i] : i \in {i \in 1..n : \E k \in 1..n : i < k /\ plan[k] = NextStep(s)}}
    BY <1>1 DEF Behind
  <1> HIDE DEF plan, n
  <1>6. 1..j = 1..(j - 1) \cup {j}
    BY <1>1, <1>2
  <1>7. Behind \cup {s} = {plan[i] : i \in 1..j}
    BY <1>2, <1>3, <1>6
  <1>8. "idle" \notin Steps(component)
    BY KubeSteps
  <1>9. CASE j = n
    <2>1. \A k \in 1..n : plan[k] # "idle"
      BY <1>1, <1>8
    <2> QED BY <1>1, <1>4, <1>5, <1>7, <1>9, <2>1
  <1>10. CASE j # n
    <2>1. j + 1 \in 1..n
      BY <1>1, <1>2, <1>10
    <2>2. NextStep(s) = plan[j + 1] /\ NextStep(s) \in Steps(component)
      BY <1>1, <1>4, <1>10, <2>1
    <2>3. {i \in 1..n : \E k \in 1..n : i < k /\ plan[k] = NextStep(s)} = 1..j
      BY <1>1, <1>2, <2>1, <2>2
    <2> QED BY <1>5, <1>7, <1>8, <2>2, <2>3
  <1> QED BY <1>9, <1>10

\* The pass goes on.
LEMMA AdvanceStep ==
  ASSUME PassInductive, NEW s \in Steps(component), kpc = s,
         NEW n \in Nat, n + budget <= MaxDisturbances + 1, Advance(s, n),
         s \in Roles(component) => secrets[lres.spec.tls[s]] > 0,
         UNCHANGED <<budget, secrets>>
  PROVE  PassInductive'
  <1>1. /\ component \in Components /\ kpc # "idle"
        /\ ltenant \in Tenants /\ lres \in ResourcesOf(ltenant)
    BY RunningPass DEF PassInductive
  <1>2. CASE NextStep(s) = "idle"
    <2>1. EndComponent /\ UNCHANGED queue
      BY <1>2 DEF Advance
    <2>2. KubeLocals'
      BY <2>1 DEF PassInductive, EndComponent, KubeLocals, PassTypes
    <2>3. Behind' = {}
      BY <1>1, <1>2, <2>1, StepTaken DEF EndComponent
    <2>4. IssuesBounded'
      BY <2>1, MaxDisturbancesIsNat DEF PassInductive, EndComponent, IssuesBounded, KubeLocals
    <2> QED BY <2>2, <2>3, <2>4 DEF PassInductive, SecretsFound
  <1>3. CASE NextStep(s) # "idle"
    <2>1. /\ kpc' = NextStep(s) /\ lsecret' = n
          /\ UNCHANGED <<component, ltenant, lres, queue>>
      BY <1>3 DEF Advance
    <2>2. NextStep(s) \in Steps(component) /\ Behind' = Behind \cup {s}
      BY <1>1, <1>3, <2>1, StepTaken
    <2>3. KubeLocals'
      BY <1>1, <1>3, <2>1, <2>2
         DEF PassInductive, KubeLocals, PassTypes, ResourcesOf, Steps
    <2>4. IssuesBounded'
      BY <2>1 DEF PassInductive, IssuesBounded
    <2>5. SecretsFound'
      BY <2>1, <2>2 DEF PassInductive, SecretsFound
    <2> QED BY <2>3, <2>4, <2>5 DEF PassInductive
  <1> QED BY <1>2, <1>3

\* The pass ends, or the manager does.
LEMMA EndStep ==
  ASSUME PassInductive, EndComponent, UNCHANGED secrets,
         queue' \subseteq Tenants, budget' \in Nat, budget' <= budget
  PROVE  PassInductive'
  <1>1. KubeLocals' /\ component \in Components
    BY DEF PassInductive, EndComponent, KubeLocals, PassTypes
  <1>2. Behind' = {}
    <2>1. \A j \in DOMAIN Plan(component) : Plan(component)[j] # "idle"
      BY <1>1, Plans, KubeSteps
    <2> QED BY <2>1 DEF EndComponent, Behind
  <1>3. IssuesBounded'
    BY MaxDisturbancesIsNat DEF PassInductive, EndComponent, IssuesBounded, KubeLocals
  <1> QED BY <1>1, <1>2, <1>3 DEF PassInductive, SecretsFound

\* A bound against the disturbances that are left.
LEMMA BoundKept ==
  ASSUME NEW n \in Nat, NEW b \in Nat, NEW m \in Nat, n + b <= m + 1,
         NEW d \in Nat, d <= b
  PROVE  n + d <= m + 1
  OBVIOUS

\* What happens to the Secrets, and the disturbances left, in a step of someone
\* other than the worker.
Issuance ==
  /\ budget' \in Nat /\ budget' <= budget
  /\ \/ UNCHANGED secrets
     \/ \E n \in SecretNames : secrets[n] = 0 /\ secrets' = [secrets EXCEPT ![n] = 1]
     \/ \E n \in SecretNames : budget' < budget /\ secrets' = [secrets EXCEPT ![n] = @ + 1]

\* Others act while the pass stays where it is.
LEMMA ElsewhereStep ==
  ASSUME PassInductive, UNCHANGED <<component, passVars>>, queue' \subseteq Tenants, Issuance
  PROVE  PassInductive' /\ \A n \in SecretNames : secrets'[n] >= secrets[n]
  <1>1. /\ component \in Components /\ budget \in Nat
        /\ secrets \in [SecretNames -> Nat] /\ MaxDisturbances \in Nat
        /\ IssuesBounded
    BY MaxDisturbancesIsNat DEF PassInductive, KubeLocals
  <1>0. budget' \in Nat /\ budget' <= budget
    BY DEF Issuance
  <1> DEFINE Issuing == /\ secrets' \in [SecretNames -> Nat]
                        /\ \A n \in SecretNames : secrets'[n] >= secrets[n]
                        /\ \A n \in SecretNames : secrets'[n] + budget' <= MaxDisturbances + 1
  <1>2. Issuing
    <2>1. CASE UNCHANGED secrets
      BY <1>0, <1>1, <2>1 DEF IssuesBounded
    <2>2. ASSUME NEW n \in SecretNames, secrets[n] = 0, secrets' = [secrets EXCEPT ![n] = 1]
          PROVE  Issuing
      BY <1>0, <1>1, <2>2 DEF IssuesBounded
    <2>3. ASSUME NEW n \in SecretNames, budget' < budget, secrets' = [secrets EXCEPT ![n] = @ + 1]
          PROVE  Issuing
      BY <1>0, <1>1, <2>3 DEF IssuesBounded
    <2> QED BY <2>1, <2>2, <2>3 DEF Issuance
  <1>3. KubeLocals'
    BY <1>0, <1>1, <1>2 DEF PassInductive, KubeLocals, PassTypes, passVars, ResourcesOf
  <1>4. lsecret' + budget' <= MaxDisturbances + 1
    <2>1. lsecret' = lsecret /\ lsecret \in Nat /\ lsecret + budget <= MaxDisturbances + 1
      BY DEF PassInductive, KubeLocals, IssuesBounded, passVars
    <2> QED BY <1>0, <1>1, <2>1, BoundKept
  <1>5. \A n \in Issued[component] : secrets'[n] > 0
    <2>1. Issued[component] \subseteq SecretNames
      BY <1>1, IssuedAreIssuable, IssuableAreNames
    <2> QED BY <1>1, <1>2, <2>1 DEF IssuesBounded
  <1>6. IssuesBounded'
    BY <1>0, <1>1, <1>2, <1>4, <1>5 DEF IssuesBounded
  <1>7. SecretsFound'
    <2>1. Behind' = Behind
      BY DEF Behind, passVars
    <2>2. ASSUME NEW r \in Roles(component), r \in Behind
          PROVE  lres.spec.tls[r] \in SecretNames
      <3>1. kpc # "idle"
        BY <1>1, <2>2, NothingBehind
      <3> QED BY <3>1, <1>1, RunningPass DEF PassInductive, KubeLocals, PassTypes, ComponentSpecs
    <2>3. ASSUME NEW r \in Roles(component), r \in Behind
          PROVE  secrets'[lres.spec.tls[r]] > 0
      BY <1>1, <1>2, <2>2, <2>3 DEF PassInductive, SecretsFound
    <2> QED BY <2>1, <2>3 DEF SecretsFound, passVars
  <1> QED BY <1>2, <1>3, <1>6, <1>7 DEF PassInductive

-----------------------------------------------------------------------------
(* The steps, one by one.                                                  *)

\* A Deployment that someone else writes mounts what it mounted, or what a user
\* has it mount.
KeepsMounts(o, v) ==
  o \in ChildNames(component) /\ o[1] = "deployment" /\ v # Absent =>
    \/ Exists(o) /\ v.mounts = Store(o).mounts
    \/ \E fields \in Foreign[component]["deployment"] :
         "mounts" \in DOMAIN fields /\ v.mounts = fields.mounts

Edits ==
  \E o \in ComponentObjects(component) :
    \E v \in KubeVersions(component, o) : Commit(o, v) /\ KeepsMounts(o, v)

\* A step of someone other than the worker that is not a watch event, a resync
\* or a restart.
Elsewhere ==
  /\ UNCHANGED <<component, passVars, queue>>
  /\ Issuance
  /\ Edits \/ UNCHANGED obj

\* An edit keeps a child's kind and its owner.
LEMMA EditType ==
  ASSUME NEW c \in Components, NEW x \in ChildNames(c), NEW s \in KubeKind(c, x),
         NEW fields \in Foreign[c][x[1]]
  PROVE  [f \in DOMAIN s |-> IF f \in DOMAIN fields THEN fields[f] ELSE s[f]] \in KubeKind(c, x)
  <1> DEFINE v == [f \in DOMAIN s |-> IF f \in DOMAIN fields THEN fields[f] ELSE s[f]]
  <1>1. x[1] \in ComponentChildren(c) /\ x[1] # "spec"
    BY KubeNames, KubeSteps
  <1>2. /\ "owner" \notin DOMAIN fields
        /\ "version" \in DOMAIN fields => fields.version \in Versions
        /\ "selector" \in DOMAIN fields => fields.selector \in LabelMaps
        /\ "mounts" \in DOMAIN fields => fields.mounts \subseteq SecretNames
        /\ "from" \in DOMAIN fields => fields.from \in SecretNames \cup {NoSecret}
        /\ "issue" \in DOMAIN fields => fields.issue \in Nat
    BY <1>1, EditsAreFields
  <1>3. CASE x[1] = "deployment"
    <2>1. s \in Deployments /\ KubeKind(c, x) = Deployments
      BY <1>1, <1>3 DEF KubeKind
    <2>2. DOMAIN s = {"version", "selector", "mounts", "owner"}
      BY <2>1 DEF Deployments
    <2>3. /\ v = [version |-> v.version, selector |-> v.selector,
                  mounts |-> v.mounts, owner |-> v.owner]
          /\ v.version \in Versions /\ v.selector \in LabelMaps
          /\ v.mounts \in SUBSET SecretNames /\ v.owner \in Owners
      BY <1>2, <2>1, <2>2 DEF Deployments
    <2> HIDE DEF v
    <2>4. v \in Deployments
      BY <2>3 DEF Deployments
    <2> QED BY <2>1, <2>4 DEF v
  <1>4. CASE x[1] # "deployment"
    <2>1. s \in ConfigObjects /\ KubeKind(c, x) = ConfigObjects
      BY <1>1, <1>4 DEF KubeKind
    <2>2. DOMAIN s = {"from", "issue", "owner"}
      BY <2>1 DEF ConfigObjects
    <2>3. /\ v = [from |-> v.from, issue |-> v.issue, owner |-> v.owner]
          /\ v.from \in SecretNames \cup {NoSecret} /\ v.issue \in Nat /\ v.owner \in Owners
      BY <1>2, <2>1, <2>2 DEF ConfigObjects
    <2> HIDE DEF v
    <2>4. v \in ConfigObjects
      BY <2>3 DEF ConfigObjects
    <2> QED BY <2>1, <2>4 DEF v
  <1> QED BY <1>3, <1>4

\* A disturbing write of a version of the right kind.
LEMMA Interferes ==
  ASSUME KubeLocals, NEW kind, NEW o \in ComponentObjects(component),
         NEW v \in KubeVersions(component, o), Interfere(kind, o, v), KeepsMounts(o, v),
         UNCHANGED componentVars
  PROVE  Elsewhere
  <1>1. Commit(o, v) /\ Disturb(kind) /\ UNCHANGED <<queue, component, passVars, secrets>>
    BY DEF Interfere, componentVars
  <1>2. Edits
    BY <1>1 DEF Edits
  <1>3. budget' \in Nat /\ budget' <= budget
    BY <1>1 DEF Disturb, KubeLocals
  <1> QED BY <1>1, <1>2, <1>3 DEF Elsewhere, Issuance

\* The steps of the others.
LEMMA OthersStep ==
  ASSUME KubeTimelines(component), KubeLocals,
         \/ \E n \in SecretNames : Issue(n)
         \/ \E o \in ChildNames(component) : Collect(o)
         \/ Environment
  PROVE  Elsewhere \/ Crash
  <1>0. component \in Components /\ budget \in Nat
    BY DEF KubeLocals
  <1>1. ASSUME NEW n \in SecretNames, Issue(n) PROVE Elsewhere
    <2>1. /\ secrets[n] = 0 /\ secrets' = [secrets EXCEPT ![n] = 1]
          /\ UNCHANGED <<obj, queue, budget, component, passVars>>
      BY <1>1 DEF Issue, clusterVars
    <2>2. budget' \in Nat /\ budget' <= budget
      BY <1>0, <2>1
    <2>3. Issuance
      BY <2>1, <2>2 DEF Issuance
    <2> QED BY <2>1, <2>3 DEF Elsewhere
  <1>2. ASSUME NEW o \in ChildNames(component), Collect(o) PROVE Elsewhere
    <2>1. /\ o \in ComponentObjects(component) /\ Absent \in KubeVersions(component, o)
          /\ Commit(o, Absent)
      BY <1>0, <1>2, KubeNames DEF Collect, KubeVersions
    <2>2. Edits
      BY <2>1 DEF Edits, KeepsMounts
    <2> QED BY <1>0, <1>2, <2>2 DEF Collect, componentVars, Elsewhere, Issuance
  <1>3. ASSUME NEW t \in Tenants, NEW spec \in Specs[component][t], Configure(t, spec)
        PROVE  Elsewhere
    <2> DEFINE o == Resource(t)
               v == [Store(o) EXCEPT !.spec = spec]
    <2>1. /\ o \in ComponentObjects(component)
          /\ KubeVersions(component, o) = ResourcesOf(t) \cup {Absent}
          /\ \A w : KeepsMounts(o, w)
      BY <1>0, KubeNames, ResourcesAre DEF KubeVersions, KeepsMounts
    <2>2. CASE Exists(o)
      <3>1. Store(o) \in ResourcesOf(t)
        BY <2>1, <2>2, KubeEnds DEF Exists
      <3>2. v \in ResourcesOf(t)
        BY <3>1 DEF ResourcesOf
      <3>3. \E kind \in {"relabel", "apply"} : Interfere(kind, o, v) /\ UNCHANGED componentVars
        BY <1>3, <2>2 DEF Configure
      <3> HIDE DEF v, o
      <3> QED BY <2>1, <3>2, <3>3, Interferes
    <2>3. CASE ~Exists(o)
      <3>1. PICK u \in NewUids : Interfere("apply", o, [spec |-> spec, uid |-> u])
        BY <1>3, <2>3 DEF Configure
      <3>2. u \in Nat
        BY MaxDisturbancesIsNat DEF NewUids
      <3>3. [spec |-> spec, uid |-> u] \in ResourcesOf(t)
        BY <3>2 DEF ResourcesOf
      <3>4. UNCHANGED componentVars
        BY <1>3 DEF Configure
      <3> HIDE DEF o
      <3> QED BY <2>1, <3>1, <3>3, <3>4, Interferes
    <2> QED BY <2>2, <2>3
  <1>4. ASSUME NEW t \in Tenants, RemoveResource(t) PROVE Elsewhere
    BY <1>0, <1>4, KubeNames, Interferes DEF RemoveResource, KubeVersions, KeepsMounts
  <1>5. ASSUME NEW o \in ChildNames(component), NEW fields \in Foreign[component][o[1]],
               EditChild(o, fields)
        PROVE  Elsewhere
    <2> DEFINE v == [f \in DOMAIN Store(o) |->
                       IF f \in DOMAIN fields THEN fields[f] ELSE Store(o)[f]]
    <2>1. o \in ComponentObjects(component) /\ Store(o) \in KubeKind(component, o)
      BY <1>0, <1>5, KubeNames, KubeEnds DEF EditChild, Exists, KubeVersions
    <2>2. v \in KubeVersions(component, o)
      BY <1>0, <2>1, EditType DEF KubeVersions
    <2>3. Interfere("drift", o, v) /\ UNCHANGED componentVars
      BY <1>5 DEF EditChild
    <2>4. ASSUME o[1] = "deployment"
          PROVE  v.mounts = IF "mounts" \in DOMAIN fields THEN fields.mounts ELSE Store(o).mounts
      <3>1. o[1] # "spec" /\ Store(o) \in Deployments
        BY <2>1, <2>4 DEF KubeKind
      <3> QED BY <3>1 DEF Deployments
    <2> HIDE DEF v
    <2>5. KeepsMounts(o, v)
      BY <1>5, <2>4 DEF KeepsMounts, EditChild
    <2> QED BY <2>1, <2>2, <2>3, <2>5, Interferes
  <1>6. ASSUME NEW o \in ChildNames(component), RemoveChild(o) PROVE Elsewhere
    BY <1>0, <1>6, KubeNames, Interferes DEF RemoveChild, KubeVersions, KeepsMounts
  <1>7. ASSUME NEW n \in SecretNames, Renew(n) PROVE Elsewhere
    <2>1. /\ secrets' = [secrets EXCEPT ![n] = @ + 1]
          /\ budget > 0 /\ budget' = budget - 1
          /\ UNCHANGED <<obj, queue, component, passVars>>
      BY <1>7 DEF Renew, Disturb
    <2>2. budget' \in Nat /\ budget' < budget /\ budget' <= budget
      BY <1>0, <2>1
    <2>3. Issuance
      BY <2>1, <2>2 DEF Issuance
    <2> QED BY <2>1, <2>3 DEF Elsewhere
  <1> QED BY <1>1, <1>2, <1>3, <1>4, <1>5, <1>6, <1>7 DEF Environment

\* A child's write is one of a version of its kind.
LEMMA ChildWrites ==
  ASSUME KubeTimelines(component), KubeLocals,
         NEW o \in ComponentChildren(component), kpc = o,
         Write(Child(component, o, ltenant), After(o))
  PROVE  Rewrites
  <1> DEFINE name == Child(component, o, ltenant)
             w == Written(name, After(o))
  <1>1. ~Refused(name) /\ Commit(name, w)
    BY DEF Write
  <1>2. name \in ComponentObjects(component) /\ w \in KubeVersions(component, name)
    BY <1>1, AfterType DEF KubeVersions
  <1> HIDE DEF name, w
  <1> QED BY <1>1, <1>2 DEF Rewrites

\* The worker's steps.
LEMMA WorkerStep ==
  ASSUME KubeInductive, ComponentReconcile
  PROVE  /\ PassInductive'
         /\ UNCHANGED <<component, secrets>>
         /\ Rewrites \/ UNCHANGED obj
  <1>0. /\ KubeTimelines(component) /\ KubeLocals /\ IssuesBounded /\ SecretsFound /\ PassInductive
        /\ component \in Components /\ budget \in Nat /\ lsecret \in Nat
        /\ lsecret + budget <= MaxDisturbances + 1
        /\ secrets \in [SecretNames -> Nat] /\ queue \subseteq Tenants
    BY DEF KubeInductive, PassInductive, KubeLocals, IssuesBounded
  <1>1. ASSUME NEW t \in Tenants, StartComponent(t)
        PROVE  PassInductive' /\ UNCHANGED <<component, secrets, obj>>
    <2>1. UNCHANGED <<obj, budget, component, lsecret, secrets>> /\ queue' = queue \ {t}
      BY <1>1 DEF StartComponent
    <2>2. PassTypes' /\ (kpc' = "idle" \/ kpc' = Plan(component)[1])
      <3>1. CASE Cached(Resource(t)) = Absent
        <4>1. kpc = "idle" /\ UNCHANGED <<kpc, ltenant, lres>>
          BY <1>1, <3>1 DEF StartComponent
        <4> QED BY <1>0, <4>1 DEF KubeLocals, PassTypes
      <3>2. CASE Cached(Resource(t)) # Absent
        <4>1. kpc' = Plan(component)[1] /\ ltenant' = t /\ lres' = Cached(Resource(t))
          BY <1>1, <3>2 DEF StartComponent
        <4>2. Cached(Resource(t)) \in ResourcesOf(t)
          BY <1>0, <3>2, KubeEnds, KubeNames, ResourcesAre DEF KubeVersions
        <4>3. Plan(component)[1] \in Steps(component) /\ "idle" \notin Steps(component)
          BY <1>0, Plans, KubeSteps
        <4> QED BY <2>1, <4>1, <4>2, <4>3 DEF PassTypes, ResourcesOf
      <3> QED BY <3>1, <3>2
    <2>3. Behind' = {}
      <3>1. 1 \in DOMAIN Plan(component)
        BY <1>0, Plans
      <3>2. \A j \in DOMAIN Plan(component) :
              Plan(component)[j] = "idle" \/ Plan(component)[j] = Plan(component)[1]
                => ~ \E i \in DOMAIN Plan(component) : i < j
        BY <1>0, Plans, KubeSteps
      <3> QED BY <2>1, <2>2, <3>2 DEF Behind
    <2>4. KubeLocals'
      BY <1>0, <2>1, <2>2 DEF KubeLocals
    <2>5. IssuesBounded' /\ SecretsFound'
      BY <1>0, <2>1, <2>3 DEF IssuesBounded, SecretsFound
    <2> QED BY <2>1, <2>4, <2>5 DEF PassInductive
  <1>2. ASSUME NEW r \in Roles(component), FindSecret(r)
        PROVE  PassInductive' /\ UNCHANGED <<component, secrets, obj>>
    <2> DEFINE issue == secrets[lres.spec.tls[r]]
    <2>1. kpc = r /\ r \in Steps(component) /\ UNCHANGED <<obj, budget, secrets>>
      BY <1>2 DEF FindSecret, Steps
    <2>2. ltenant \in Tenants /\ lres.spec.tls[r] \in SecretNames
      BY <1>0, <2>1, RunningPass DEF ComponentSpecs
    <2>3. issue \in Nat /\ issue + budget <= MaxDisturbances + 1
      BY <1>0, <2>2 DEF IssuesBounded
    <2>4. CASE issue > 0
      <3> DEFINE n == IF r = Embedded(component) THEN issue ELSE lsecret
      <3>1. Advance(r, n)
        BY <1>2, <2>4 DEF FindSecret
      <3>2. n \in Nat /\ n + budget <= MaxDisturbances + 1
        BY <1>0, <2>3
      <3> HIDE DEF n
      <3>3. PassInductive'
        BY <1>0, <2>1, <2>4, <3>1, <3>2, AdvanceStep
      <3> QED BY <2>1, <3>1, <3>3 DEF Advance, EndComponent
    <2>5. CASE ~(issue > 0)
      <3>1. RequeueComponent
        BY <1>2, <2>5 DEF FindSecret
      <3>2. EndComponent /\ queue' \subseteq Tenants
        BY <1>0, <2>2, <3>1 DEF RequeueComponent
      <3>3. budget' \in Nat /\ budget' <= budget
        BY <1>0, <2>1
      <3>4. PassInductive'
        BY <1>0, <2>1, <3>2, <3>3, EndStep
      <3> QED BY <2>1, <3>2, <3>4 DEF EndComponent
    <2> QED BY <2>4, <2>5
  <1>3. ASSUME NEW o \in ComponentChildren(component), EnsureComponentChild(o)
        PROVE  /\ PassInductive' /\ UNCHANGED <<component, secrets>>
               /\ Rewrites \/ UNCHANGED obj
    <2>1. /\ kpc = o /\ o \in Steps(component) /\ o \notin Roles(component)
          /\ Advance(o, 0) /\ UNCHANGED <<budget, secrets>>
      BY <1>0, <1>3, KubeSteps DEF EnsureComponentChild, Steps
    <2>2. 0 + budget <= MaxDisturbances + 1
      BY <1>0, MaxDisturbancesIsNat DEF IssuesBounded
    <2>3. PassInductive'
      BY <1>0, <2>1, <2>2, AdvanceStep
    <2>4. Rewrites \/ UNCHANGED obj
      BY <1>0, <1>3, <2>1, ChildWrites DEF EnsureComponentChild
    <2> QED BY <2>1, <2>3, <2>4 DEF Advance, EndComponent
  <1>4. ASSUME NEW o \in ComponentChildren(component), FailComponentChild(o)
        PROVE  /\ PassInductive' /\ UNCHANGED <<component, secrets>>
               /\ Rewrites \/ UNCHANGED obj
    <2>1. /\ kpc = o /\ o \in Steps(component) /\ ChildFails(o)
          /\ RequeueComponent /\ UNCHANGED secrets
      BY <1>4 DEF FailComponentChild, Steps
    <2>2. ltenant \in Tenants
      BY <1>0, <2>1, RunningPass
    <2>3. EndComponent /\ queue' \subseteq Tenants
      BY <1>0, <2>1, <2>2 DEF RequeueComponent
    <2>4. budget' \in Nat /\ budget' <= budget
      BY <1>0, <2>1 DEF ChildFails, WriteFails, Disturb
    <2>5. PassInductive'
      BY <1>0, <2>1, <2>3, <2>4, EndStep
    <2>6. Rewrites \/ UNCHANGED obj
      BY <1>0, <2>1, ChildWrites DEF ChildFails, WriteFails
    <2> QED BY <2>1, <2>3, <2>5, <2>6 DEF EndComponent
  <1> QED BY <1>1, <1>2, <1>3, <1>4 DEF ComponentReconcile

\* The informers' steps.
LEMMA InformerStep ==
  ASSUME KubeInductive,
         \/ \E o \in ComponentObjects(component) : Watch(o)
         \/ PeriodicResync
         \/ Crash
  PROVE  KubeInductive' /\ UNCHANGED secrets
  <1>0. /\ KubeTimelines(component) /\ KubeLocals /\ NoRepeats /\ PassInductive
        /\ component \in Components /\ budget \in Nat /\ queue \subseteq Tenants
    BY DEF KubeInductive, PassInductive, KubeLocals
  <1>1. PICK c \in Components : component = c
    BY <1>0
  <1>2. ASSUME UNCHANGED component, KubeTimelines(c)',
               \A x \in ComponentObjects(c) : NoRepeat(x) => NoRepeat(x)'
        PROVE  KubeTimelines(component)' /\ NoRepeats'
    BY <1>0, <1>1, <1>2 DEF KubeTimelines, NoRepeats, NoRepeat
  <1>3. ASSUME NEW o \in ComponentObjects(component), Watch(o)
        PROVE  KubeInductive' /\ UNCHANGED secrets
    <2>1. Deliver(o, EventWatches) /\ UNCHANGED <<component, passVars, secrets>>
      BY <1>3 DEF Watch, componentVars
    <2>2. KubeTimelines(c)' /\ \A x \in ComponentObjects(c) : NoRepeat(x) => NoRepeat(x)'
      BY <1>0, <1>1, <2>1, KubeDeliver
    <2>3. queue' \subseteq Tenants /\ Issuance
      BY <1>0, <2>1 DEF Deliver, EventWatches, Issuance
    <2>4. PassInductive'
      BY <1>0, <2>1, <2>3, ElsewhereStep
    <2> QED BY <1>2, <2>1, <2>2, <2>4 DEF KubeInductive, PassInductive
  <1>4. CASE PeriodicResync
    <2>1. Resync(ListWatches) /\ UNCHANGED <<component, passVars, secrets>>
      BY <1>4 DEF PeriodicResync, componentVars
    <2>2. KubeTimelines(c)' /\ \A x \in ComponentObjects(c) : NoRepeat(x) => NoRepeat(x)'
      BY <1>0, <1>1, <2>1, KubeStays DEF Resync
    <2>3. queue' \subseteq Tenants /\ Issuance
      BY <1>0, <2>1 DEF Resync, ListWatches, Issuance
    <2>4. PassInductive'
      BY <1>0, <2>1, <2>3, ElsewhereStep
    <2> QED BY <1>2, <2>1, <2>2, <2>4 DEF KubeInductive, PassInductive
  <1>5. CASE Crash
    <2>1. Relist(ListWatches) /\ EndComponent /\ UNCHANGED secrets
      BY <1>5 DEF Crash
    <2>2. KubeTimelines(c)' /\ \A x \in ComponentObjects(c) : NoRepeat(x)'
      BY <1>0, <1>1, <2>1, KubeRelist
    <2>3. queue' \subseteq Tenants /\ budget' \in Nat /\ budget' <= budget
      BY <1>0, <2>1 DEF Relist, ListWatches, Disturb
    <2>4. PassInductive'
      BY <1>0, <2>1, <2>3, EndStep
    <2> QED BY <1>2, <2>1, <2>2, <2>4 DEF KubeInductive, PassInductive, EndComponent
  <1> QED BY <1>3, <1>4, <1>5

\* The steps that leave the passes alone but for the objects and the Secrets.
LEMMA ElsewhereKeeps ==
  ASSUME KubeInductive, Elsewhere
  PROVE  /\ KubeInductive' /\ QuietStep
         /\ \A n \in SecretNames : secrets'[n] >= secrets[n]
  <1>1. KubeTimelines(component) /\ NoRepeats /\ PassInductive /\ component \in Components
    BY DEF KubeInductive, PassInductive, KubeLocals
  <1>2. KubeTimelines(component)' /\ NoRepeats' /\ QuietStep
    BY <1>1, QuietRewrite DEF Elsewhere, Edits, Rewrites
  <1>3. queue' \subseteq Tenants
    BY DEF KubeInductive, KubeLocals, Elsewhere
  <1>4. PassInductive' /\ \A n \in SecretNames : secrets'[n] >= secrets[n]
    BY <1>1, <1>3, ElsewhereStep DEF Elsewhere
  <1> QED BY <1>2, <1>4 DEF KubeInductive, PassInductive

\* The worker's steps keep everything.
LEMMA WorkerKeeps ==
  ASSUME KubeInductive, ComponentReconcile
  PROVE  KubeInductive' /\ QuietStep /\ UNCHANGED <<component, secrets>>
  <1>1. KubeTimelines(component) /\ NoRepeats /\ component \in Components
    BY DEF KubeInductive, KubeLocals
  <1> QED BY <1>1, WorkerStep, QuietRewrite DEF KubeInductive, PassInductive

-----------------------------------------------------------------------------
(* The Secrets of the pods.                                                *)

\* The Secrets a Deployment mounts that no pass looks for are there from the
\* start: the two that the controller manager's mounts by fixed names, where the
\* spec does not name them, and what users have a Deployment mount.
OthersAreIssued ==
  /\ \A t \in Tenants : \A spec \in Specs["kube-controller-manager"][t] :
       {"kube-controller-manager", "service-accounts"}
         \subseteq {spec.tls[r] : r \in Roles("kube-controller-manager")}
                     \cup Issued["kube-controller-manager"]
  /\ \A c \in Components : \A fields \in Foreign[c]["deployment"] :
       "mounts" \in DOMAIN fields => fields.mounts \subseteq Issued[c]

\* The Deployment that a pass asks for mounts Secrets that are there.
LEMMA AfterMounts ==
  ASSUME OthersAreIssued, KubeInductive, kpc = "deployment"
  PROVE  \A n \in After("deployment").mounts : secrets[n] > 0
  <1> DEFINE plan == Plan(component)
             tls == lres.spec.tls
  <1>0. /\ KubeLocals /\ IssuesBounded /\ SecretsFound /\ component \in Components
    BY DEF KubeInductive, KubeLocals
  <1>1. "deployment" \in Steps(component) /\ "deployment" \notin Roles(component)
    BY <1>0, KubeSteps DEF Steps
  <1>2. ltenant \in Tenants /\ lres.spec \in Specs[component][ltenant]
    BY <1>0, <1>1, RunningPass
  <1>3. Roles(component) \subseteq Behind
    <2> DEFINE n == Len(plan)
    <2>1. /\ DOMAIN plan = 1..n /\ n \in Nat \ {0}
          /\ Steps(component) = {plan[i] : i \in 1..n}
          /\ plan[n] = "deployment"
      BY <1>0, Plans
    <2>2. Behind = {plan[i] : i \in 1..(n - 1)}
      BY <1>0, <2>1, BehindIs
    <2> HIDE DEF plan, n
    <2>3. ASSUME NEW r \in Roles(component) PROVE r \in Behind
      <3>1. PICK i \in 1..n : r = plan[i]
        BY <2>1 DEF Steps
      <3>2. i # n
        BY <1>1, <2>1, <3>1
      <3>3. i \in 1..(n - 1)
        BY <2>1, <3>1, <3>2
      <3> QED BY <2>2, <3>1, <3>3
    <2> QED BY <2>3
  <1>4. \A r \in Roles(component) : secrets[tls[r]] > 0
    BY <1>0, <1>3 DEF SecretsFound
  <1>5. \A n \in Issued[component] : secrets[n] > 0
    BY <1>0 DEF IssuesBounded
  <1>6. PICK owner : After("deployment") = DeploymentFor(component, ltenant, lres.spec, owner)
    BY DEF After, ComponentChildFor
  <1>7. CASE component = "kube-apiserver"
    <2>1. After("deployment").mounts = {tls[r] : r \in {"ca", "service-accounts", "serving"}}
      BY <1>6, <1>7 DEF DeploymentFor, KubeAPIServerDeployment
    <2> QED BY <1>4, <1>7, <2>1 DEF Roles
  <1>8. CASE component = "kube-controller-manager"
    <2>1. After("deployment").mounts = {"kube-controller-manager", "service-accounts", tls["ca"]}
      BY <1>6, <1>8 DEF DeploymentFor, KubeControllerManagerDeployment
    <2>2. {"kube-controller-manager", "service-accounts"}
            \subseteq {tls[r] : r \in Roles(component)} \cup Issued[component]
      BY <1>2, <1>8 DEF OthersAreIssued
    <2>3. "ca" \in Roles(component)
      BY <1>8 DEF Roles
    <2> QED BY <1>4, <1>5, <2>1, <2>2, <2>3
  <1>9. CASE component = "kube-scheduler"
    <2>1. After("deployment").mounts = {tls["serving"]}
      BY <1>6, <1>9 DEF DeploymentFor, KubeSchedulerDeployment
    <2> QED BY <1>4, <1>9, <2>1 DEF Roles
  <1> QED BY <1>0, <1>7, <1>8, <1>9 DEF Components

\* What is written mounts Secrets that are there.
LEMMA MountsWritten ==
  ASSUME KubeInductive, PodsHaveSecrets, UNCHANGED component,
         \A n \in SecretNames : secrets'[n] >= secrets[n],
         secrets' \in [SecretNames -> Nat],
         NEW o \in ComponentObjects(component), NEW v \in KubeVersions(component, o),
         Commit(o, v),
         o \in ChildNames(component) /\ o[1] = "deployment" /\ v # Absent
           => \A n \in v.mounts : secrets[n] > 0
  PROVE  PodsHaveSecrets'
  <1>0. KubeTimelines(component) /\ component \in Components /\ secrets \in [SecretNames -> Nat]
    BY DEF KubeInductive, KubeLocals
  <1>1. /\ Store(o)' = v
        /\ \A x \in ComponentObjects(component) \ {o} : Store(x)' = Store(x)
    BY <1>0, KubeCommit DEF Store
  <1> SUFFICES ASSUME NEW x \in ChildNames(component), x[1] = "deployment",
                      Store(x)' # Absent, NEW n \in Store(x)'.mounts
               PROVE  secrets'[n] > 0
    BY DEF PodsHaveSecrets, Exists
  <1>2. x \in ComponentObjects(component) /\ KubeKind(component, x) = Deployments
    BY <1>0, KubeNames, KubeSteps DEF KubeKind
  <1>3. Store(x)' \in Deployments
    BY <1>0, <1>1, <1>2, KubeEnds DEF KubeVersions
  <1>4. n \in SecretNames
    BY <1>3 DEF Deployments
  <1>5. secrets[n] > 0
    BY <1>1, <1>2 DEF PodsHaveSecrets, Exists
  <1> QED BY <1>0, <1>4, <1>5

\* The server's versions stay.
LEMMA MountsStay ==
  ASSUME KubeInductive, PodsHaveSecrets, UNCHANGED component,
         \A n \in SecretNames : secrets'[n] >= secrets[n],
         secrets' \in [SecretNames -> Nat],
         \A x \in ComponentObjects(component) : Store(x)' = Store(x)
  PROVE  PodsHaveSecrets'
  <1>0. KubeTimelines(component) /\ component \in Components /\ secrets \in [SecretNames -> Nat]
    BY DEF KubeInductive, KubeLocals
  <1> SUFFICES ASSUME NEW x \in ChildNames(component), x[1] = "deployment",
                      Store(x) # Absent, NEW n \in Store(x).mounts
               PROVE  secrets'[n] > 0
    BY <1>0, KubeNames DEF PodsHaveSecrets, Exists
  <1>2. x \in ComponentObjects(component) /\ KubeKind(component, x) = Deployments
    BY <1>0, KubeNames, KubeSteps DEF KubeKind
  <1>3. Store(x) \in Deployments
    BY <1>0, <1>2, KubeEnds DEF KubeVersions
  <1>4. n \in SecretNames /\ secrets[n] > 0
    BY <1>3 DEF Deployments, PodsHaveSecrets, Exists
  <1> QED BY <1>0, <1>4

\* A pass's write of a child.
LEMMA ChildMounts ==
  ASSUME OthersAreIssued, KubeInductive, PodsHaveSecrets, UNCHANGED <<component, secrets>>,
         NEW o \in ComponentChildren(component), kpc = o,
         Write(Child(component, o, ltenant), After(o))
  PROVE  PodsHaveSecrets'
  <1> DEFINE name == Child(component, o, ltenant)
             w == Written(name, After(o))
  <1>0. /\ KubeTimelines(component) /\ KubeLocals /\ component \in Components
        /\ secrets \in [SecretNames -> Nat]
    BY DEF KubeInductive, KubeLocals
  <1>1. ~Refused(name) /\ Commit(name, w)
    BY DEF Write
  <1>2. /\ name \in ChildNames(component) /\ name \in ComponentObjects(component)
        /\ name[1] = o /\ w \in KubeVersions(component, name)
    BY <1>0, <1>1, AfterType DEF KubeVersions
  <1>3. ASSUME o = "deployment" PROVE \A n \in w.mounts : secrets[n] > 0
    <2>1. \A n \in After(o).mounts : secrets[n] > 0
      BY <1>3, AfterMounts
    <2>2. CASE Cached(name) = Absent
      BY <2>1, <2>2 DEF Written
    <2>3. CASE Cached(name) # Absent
      <3>1. Store(name) # Absent
        BY <1>1, <2>3 DEF Refused
      <3>2. Store(name) \in Deployments
        BY <1>0, <1>2, <1>3, <3>1, KubeEnds, KubeSteps DEF KubeVersions, KubeKind
      <3>3. w.mounts = IF After(o).mounts # Cached(name).mounts
                         THEN After(o).mounts ELSE Store(name).mounts
        BY <2>3, <3>2 DEF Written, Patched, Deployments
      <3>4. \A n \in Store(name).mounts : secrets[n] > 0
        BY <1>2, <1>3, <3>1 DEF PodsHaveSecrets, Exists
      <3> HIDE DEF w, name
      <3> QED BY <2>1, <3>3, <3>4
    <2> QED BY <2>2, <2>3
  <1> HIDE DEF name, w
  <1> QED BY <1>0, <1>1, <1>2, <1>3, MountsWritten

\* Every step keeps the pods' Secrets.
LEMMA PodsStep ==
  ASSUME OthersAreIssued, KubeInductive, PodsHaveSecrets, [Next]_vars
  PROVE  PodsHaveSecrets'
  <1>0. /\ KubeTimelines(component) /\ KubeLocals /\ component \in Components
        /\ secrets \in [SecretNames -> Nat]
    BY DEF KubeInductive, KubeLocals
  <1>1. ASSUME UNCHANGED <<obj, component, secrets>> PROVE PodsHaveSecrets'
    BY <1>0, <1>1, MountsStay DEF Store
  <1>2. CASE ComponentReconcile
    <2>1. UNCHANGED <<component, secrets>>
      BY <1>2, WorkerKeeps
    <2>2. \/ UNCHANGED obj
          \/ \E o \in ComponentChildren(component) :
               kpc = o /\ Write(Child(component, o, ltenant), After(o))
      BY <1>2 DEF ComponentReconcile, StartComponent, FindSecret, EnsureComponentChild,
                  FailComponentChild, ChildFails, WriteFails
    <2> QED BY <1>1, <2>1, <2>2, ChildMounts
  <1>3. CASE Elsewhere
    <2>1. /\ UNCHANGED component /\ secrets' \in [SecretNames -> Nat]
          /\ \A n \in SecretNames : secrets'[n] >= secrets[n]
      BY <1>3, ElsewhereKeeps DEF Elsewhere, KubeInductive, KubeLocals
    <2>2. CASE UNCHANGED obj
      BY <2>1, <2>2, MountsStay DEF Store
    <2>3. ASSUME NEW o \in ComponentObjects(component), NEW v \in KubeVersions(component, o),
                 Commit(o, v), KeepsMounts(o, v)
          PROVE  PodsHaveSecrets'
      <3>1. ASSUME o \in ChildNames(component), o[1] = "deployment", v # Absent
            PROVE  \A n \in v.mounts : secrets[n] > 0
        <4>1. \A fields \in Foreign[component]["deployment"] :
                "mounts" \in DOMAIN fields => \A n \in fields.mounts : secrets[n] > 0
          BY <1>0 DEF OthersAreIssued, KubeInductive, IssuesBounded
        <4>2. Exists(o) => \A n \in Store(o).mounts : secrets[n] > 0
          BY <3>1 DEF PodsHaveSecrets
        <4> QED BY <2>3, <3>1, <4>1, <4>2 DEF KeepsMounts
      <3> QED BY <2>1, <2>3, <3>1, MountsWritten
    <2> QED BY <1>3, <2>2, <2>3 DEF Elsewhere, Edits
  <1>4. ASSUME NEW o \in ComponentObjects(component), Watch(o) PROVE PodsHaveSecrets'
    <2>1. Deliver(o, EventWatches) /\ UNCHANGED <<component, secrets>>
      BY <1>4 DEF Watch, componentVars
    <2>2. \A x \in ComponentObjects(component) : Store(x)' = Store(x)
      BY <1>0, <2>1, KubeDeliver
    <2> QED BY <1>0, <2>1, <2>2, MountsStay
  <1>5. CASE PeriodicResync
    BY <1>1, <1>5 DEF PeriodicResync, Resync, componentVars
  <1>6. CASE Crash
    <2>1. Relist(ListWatches) /\ UNCHANGED <<component, secrets>>
      BY <1>6 DEF Crash, EndComponent
    <2>2. \A x \in ComponentObjects(component) : Store(x)' = Store(x)
      BY <1>0, <2>1, KubeRelist
    <2> QED BY <1>0, <2>1, <2>2, MountsStay
  <1>7. CASE UNCHANGED vars
    BY <1>1, <1>7 DEF vars, clusterVars, componentVars
  <1> QED BY <1>0, <1>2, <1>3, <1>4, <1>5, <1>6, <1>7, OthersStep DEF Next

-----------------------------------------------------------------------------
(* What a controller with nothing left to do leaves.                       *)

\* What a tenant asks for depends on its resource and the child alone.
LEMMA SameChild ==
  ASSUME NEW t, NEW o, UNCHANGED component,
         obj'[Resource(t)] = obj[Resource(t)],
         obj'[Child(component, o, t)] = obj[Child(component, o, t)]
  PROVE  /\ InSync(o, t)' <=> InSync(o, t)
         /\ Responsible(t, Child(component, o, t))' <=> Responsible(t, Child(component, o, t))
  BY DEF InSync, Holds, Responsible, SpecOf, Exists, Store

\* The objects of a tenant.
LEMMA TenantNames ==
  ASSUME component \in Components, NEW t \in Tenants
  PROVE  /\ Resource(t) \in ComponentObjects(component)
         /\ \A o \in Owned(component) :
              /\ o \in ComponentChildren(component) /\ o \in Steps(component)
              /\ Child(component, o, t) \in ComponentObjects(component)
              /\ Child(component, o, t) \in ChildNames(component)
              /\ Child(component, o, t)[1] = o
  BY KubeNames, KubeSteps DEF Steps

\* An event of the resource is the tenant's.
LEMMA ResourceRequests ==
  ASSUME component \in Components, NEW t \in Tenants, NEW v, v # Absent
  PROVE  Requests(Resource(t), v) = {t}
  <1>1. "spec" \notin Owned(component) /\ Resource(t)[1] = "spec" /\ Resource(t)[2] = t
    BY TenantNames, KubeNames, KubeSteps
  <1> QED BY <1>1 DEF Requests

\* A request that is queued.
LEMMA Queued ==
  ASSUME NEW t, t \in queue'
  PROVE  TenantPass(t)'
  BY DEF TenantPass

\* A step that writes at most, and takes neither the tenant's request off the
\* queue nor runs a pass of the tenant.
LEMMA OtherTenant ==
  ASSUME component \in Components, NEW t \in Tenants, TenantPass(t), QuietStep,
         UNCHANGED component, t \in queue => t \in queue', ltenant # t, ltenant' # t
  PROVE  TenantPass(t)'
  <1> SUFFICES ASSUME t \notin queue', Fresh(Resource(t))', Exists(Resource(t))',
                      NEW o \in Owned(component), Fresh(Child(component, o, t))',
                      Responsible(t, Child(component, o, t))'
               PROVE  InSync(o, t)'
    BY DEF TenantPass
  <1>1. /\ obj'[Resource(t)] = obj[Resource(t)]
        /\ obj'[Child(component, o, t)] = obj[Child(component, o, t)]
    BY TenantNames DEF QuietStep, Fresh
  <1>2. InSync(o, t)
    BY <1>1, SameChild DEF TenantPass, Fresh, Exists, Store
  <1> QED BY <1>1, <1>2, SameChild

\* A step that writes at most, while the passes stay.
LEMMA PassStays ==
  ASSUME component \in Components, NEW t \in Tenants, TenantPass(t), QuietStep,
         UNCHANGED <<component, kpc, ltenant, lres>>, queue \subseteq queue'
  PROVE  TenantPass(t)'
  <1>1. Behind' = Behind
    BY DEF Behind
  <1> SUFFICES ASSUME t \notin queue', Fresh(Resource(t))', Exists(Resource(t))'
               PROVE  /\ ltenant = t => lres = Store(Resource(t))'
                      /\ \A o \in Owned(component) :
                           /\ Fresh(Child(component, o, t))'
                           /\ Responsible(t, Child(component, o, t))'
                           /\ ltenant = t => o \in Behind
                           => InSync(o, t)'
    BY <1>1 DEF TenantPass
  <1>2. obj'[Resource(t)] = obj[Resource(t)]
    BY TenantNames DEF QuietStep, Fresh
  <1>3. t \notin queue /\ Fresh(Resource(t)) /\ Exists(Resource(t))
    BY <1>2 DEF Fresh, Exists, Store
  <1>4. ltenant = t => lres = Store(Resource(t))'
    BY <1>2, <1>3 DEF TenantPass, Store
  <1>5. ASSUME NEW o \in Owned(component), Fresh(Child(component, o, t))',
               Responsible(t, Child(component, o, t))', ltenant = t => o \in Behind
        PROVE  InSync(o, t)'
    <2>1. obj'[Child(component, o, t)] = obj[Child(component, o, t)]
      BY <1>5, TenantNames DEF QuietStep, Fresh
    <2>2. Fresh(Child(component, o, t)) /\ Responsible(t, Child(component, o, t))
      BY <1>2, <1>5, <2>1, SameChild DEF Fresh
    <2>3. InSync(o, t)
      BY <1>3, <1>5, <2>2 DEF TenantPass
    <2> QED BY <1>2, <2>1, <2>3, SameChild
  <1> QED BY <1>4, <1>5

\* A pass of the tenant goes on, or ends after its last step, and leaves the
\* child it was at behind in order.
LEMMA PassAdvances ==
  ASSUME component \in Components, TenantPass(ltenant), ltenant \in Tenants, QuietStep,
         NEW s \in Steps(component), kpc = s, NEW n, Advance(s, n),
         /\ s \in Owned(component) /\ Exists(Resource(ltenant))
         /\ Fresh(Resource(ltenant)) /\ lres = Store(Resource(ltenant))
         /\ Len(obj'[Child(component, s, ltenant)]) = 1
         => InSync(s, ltenant)
  PROVE  \A t \in Tenants : t = ltenant => TenantPass(t)'
  <1> TAKE t \in Tenants
  <1> SUFFICES ASSUME t = ltenant PROVE TenantPass(t)'
    OBVIOUS
  <1>1. UNCHANGED <<component, queue>>
    BY DEF Advance, EndComponent
  <1>2. /\ ltenant' = t => lres' = lres
        /\ \A o \in Owned(component) :
             (ltenant' = t => o \in Behind') => o \in Behind \cup {s}
    <2>1. CASE NextStep(s) = "idle"
      <3>1. ltenant' = Absent /\ kpc' = NextStep(s)
        BY <2>1 DEF Advance, EndComponent
      <3>2. Steps(component) \subseteq Behind \cup {s}
        BY <1>1, <2>1, <3>1, StepTaken
      <3> QED BY <3>1, <3>2, TenantsAreLabels, TenantNames
    <2>2. CASE NextStep(s) # "idle"
      <3>1. ltenant' = t /\ lres' = lres /\ kpc' = NextStep(s)
        BY <2>2 DEF Advance
      <3>2. Behind' = Behind \cup {s}
        BY <1>1, <2>2, <3>1, StepTaken
      <3> QED BY <3>1, <3>2
    <2> QED BY <2>1, <2>2
  <1> SUFFICES ASSUME t \notin queue', Fresh(Resource(t))', Exists(Resource(t))'
               PROVE  /\ lres = Store(Resource(t))'
                      /\ \A o \in Owned(component) :
                           /\ Fresh(Child(component, o, t))'
                           /\ Responsible(t, Child(component, o, t))'
                           /\ o \in Behind \cup {s}
                           => InSync(o, t)'
    BY <1>1, <1>2 DEF TenantPass
  <1>3. obj'[Resource(t)] = obj[Resource(t)]
    BY TenantNames DEF QuietStep, Fresh
  <1>4. t \notin queue /\ Fresh(Resource(t)) /\ Exists(Resource(t))
    BY <1>1, <1>3 DEF Fresh, Exists, Store
  <1>5. lres = Store(Resource(t)) /\ lres = Store(Resource(t))'
    BY <1>3, <1>4 DEF TenantPass, Store
  <1>6. ASSUME NEW o \in Owned(component), Fresh(Child(component, o, t))',
               Responsible(t, Child(component, o, t))', o \in Behind \cup {s}
        PROVE  InSync(o, t)'
    <2>1. obj'[Child(component, o, t)] = obj[Child(component, o, t)]
      BY <1>1, <1>6, TenantNames DEF QuietStep, Fresh
    <2>2. CASE o = s
      <3>1. Len(obj'[Child(component, s, ltenant)]) = 1
        BY <1>1, <1>6, <2>2 DEF Fresh
      <3>2. InSync(o, t)
        BY <1>4, <1>5, <2>2, <3>1
      <3> QED BY <1>1, <1>3, <2>1, <3>2, SameChild
    <2>3. CASE o # s
      <3>1. Fresh(Child(component, o, t)) /\ Responsible(t, Child(component, o, t))
        BY <1>1, <1>3, <1>6, <2>1, SameChild DEF Fresh
      <3>2. InSync(o, t)
        BY <1>4, <1>6, <2>3, <3>1 DEF TenantPass
      <3> QED BY <1>1, <1>3, <2>1, <3>2, SameChild
    <2> QED BY <2>2, <2>3
  <1> QED BY <1>5, <1>6

\* A write of the pass that leaves the child's cache up to date was none: the
\* child is what the tenant asks for.
LEMMA EnsuredInSync ==
  ASSUME KubeInductive, NEW o \in ComponentChildren(component), kpc = o,
         IF SendsChild(o) THEN Write(Child(component, o, ltenant), After(o)) ELSE UNCHANGED obj,
         Exists(Resource(ltenant)), lres = Store(Resource(ltenant)),
         Len(obj'[Child(component, o, ltenant)]) = 1
  PROVE  InSync(o, ltenant)
  <1> PICK name : name = Child(component, o, ltenant)
    OBVIOUS
  <1> DEFINE K == KubeKind(component, name)
  <1>0. /\ KubeTimelines(component) /\ KubeLocals /\ component \in Components
        /\ lsecret + budget <= MaxDisturbances + 1
        /\ lsecret \in Nat /\ budget \in Nat
    BY DEF KubeInductive, KubeLocals, IssuesBounded
  <1>1. /\ name \in ChildNames(component) /\ name \in ComponentObjects(component)
        /\ After(o) \in K
        /\ ~Refused(name) => Written(name, After(o)) \in K
    BY <1>0, AfterType
  <1>2. K \in {Deployments, ConfigObjects} /\ Absent \notin K
    BY <1>0, <1>1, ChildKind
  <1>3. After(o) = Store(name) /\ Cached(name) = Store(name)
    <2>1. CASE SendsChild(o)
      <3> DEFINE w == Written(name, After(o))
      <3>1. ~Refused(name) /\ Commit(name, w)
        BY <2>1 DEF Write
      <3>2. w \in KubeVersions(component, name)
        BY <1>1, <3>1 DEF KubeVersions
      <3>3. obj'[name] = obj[name] /\ obj'[name][Len(obj'[name])] = w
        <4> PICK v \in KubeVersions(component, name) : v = w
          BY <3>2
        <4>1. /\ Fresh(name)' => obj'[name] = obj[name]
              /\ Store(name)' = v
          <5> HIDE DEF w
          <5> QED BY <1>0, <1>1, <3>1, KubeCommit
        <4> QED BY <4>1 DEF Fresh, Store
      <3>4. w = Store(name) /\ Fresh(name)
        BY <3>3 DEF Store, Fresh
      <3>5. Cached(name) = Store(name)
        BY <1>0, <1>1, <3>4, KubeEnds
      <3>6. Store(name) \in K
        BY <1>1, <3>1, <3>4
      <3>7. w = Patched(Store(name), Store(name), After(o))
        BY <1>2, <3>5, <3>6 DEF Written
      <3>8. w = After(o)
        <4> HIDE DEF w, K
        <4> QED BY <1>1, <1>2, <3>6, <3>7, PatchedKind
      <3> QED BY <3>4, <3>5, <3>8
    <2>2. CASE ~SendsChild(o)
      <3>1. Cached(name) = After(o) /\ Fresh(name)
        BY <2>2 DEF SendsChild, Sends, Fresh
      <3>2. Cached(name) = Store(name)
        BY <1>0, <1>1, <3>1, KubeEnds
      <3> QED BY <3>1, <3>2
    <2> QED BY <2>1, <2>2
  <1>4. Store(name) # Absent /\ Exists(name)
    BY <1>1, <1>2, <1>3 DEF Exists
  <1>5. Store(name) = ComponentChildFor(component, o, ltenant, SpecOf(ltenant), lsecret,
                                        Store(name).owner)
    BY <1>3, <1>4 DEF After, SpecOf
  <1>6. Holds(o, ltenant, lsecret)
    BY <1>4, <1>5 DEF Holds
  <1>7. lsecret \in 0..MaxDisturbances + 1
    BY <1>0, MaxDisturbancesIsNat
  <1> QED BY <1>6, <1>7 DEF InSync

\* The worker's steps.
LEMMA WorkerServes ==
  ASSUME KubeInductive, ComponentReconcile, NEW t \in Tenants, TenantPass(t)
  PROVE  TenantPass(t)'
  <1>0. /\ KubeTimelines(component) /\ KubeLocals /\ component \in Components
        /\ QuietStep /\ UNCHANGED component /\ PassTypes /\ Absent \notin Tenants
    BY WorkerKeeps, TenantsAreLabels DEF KubeInductive, KubeLocals
  <1>1. ASSUME NEW u \in Tenants, StartComponent(u) PROVE TenantPass(t)'
    <2>1. /\ UNCHANGED obj /\ queue' = queue \ {u} /\ kpc = "idle" /\ ltenant = Absent
      BY <1>0, <1>1 DEF StartComponent, PassTypes
    <2>2. CASE t # u
      <3>1. ltenant' # t
        BY <1>0, <1>1, <2>1, <2>2 DEF StartComponent
      <3> QED BY <1>0, <2>1, <2>2, <3>1, OtherTenant
    <2>3. CASE t = u
      <3>1. Fresh(Resource(t))' => /\ Cached(Resource(t)) = Store(Resource(t))
                                   /\ Store(Resource(t))' = Store(Resource(t))
        BY <1>0, <2>1, KubeEnds, TenantNames DEF Fresh, Store
      <3>2. CASE Cached(Resource(t)) = Absent
        BY <3>1, <3>2 DEF TenantPass, Exists
      <3>3. CASE Cached(Resource(t)) # Absent
        <4>1. kpc' = Plan(component)[1] /\ ltenant' = t /\ lres' = Cached(Resource(t))
          BY <1>1, <2>3, <3>3 DEF StartComponent
        <4>2. Behind' = {}
          <5>1. \A i, j \in DOMAIN Plan(component) :
                  Plan(component)[j] = Plan(component)[1] => ~(i < j)
            BY <1>0, Plans
          <5> QED BY <1>0, <4>1, <5>1 DEF Behind
        <4> QED BY <3>1, <4>1, <4>2 DEF TenantPass
      <3> QED BY <3>2, <3>3
    <2> QED BY <2>2, <2>3
  <1>2. ASSUME NEW s \in Steps(component), kpc = s, NEW n, Advance(s, n),
               /\ s \in Owned(component) /\ Exists(Resource(ltenant))
               /\ Fresh(Resource(ltenant)) /\ lres = Store(Resource(ltenant))
               /\ Len(obj'[Child(component, s, ltenant)]) = 1
               => InSync(s, ltenant)
        PROVE  TenantPass(t)'
    <2>1. ltenant \in Tenants
      BY <1>0, <1>2, RunningPass
    <2>2. CASE t = ltenant
      BY <1>0, <1>2, <2>1, <2>2, PassAdvances
    <2>3. CASE t # ltenant
      <3>1. ltenant' # t /\ UNCHANGED queue
        BY <1>0, <1>2, <2>3 DEF Advance, EndComponent
      <3> QED BY <1>0, <2>3, <3>1, OtherTenant
    <2> QED BY <2>2, <2>3
  <1>3. ASSUME RequeueComponent PROVE TenantPass(t)'
    <2>1. queue' = queue \cup {ltenant} /\ ltenant' = Absent
      BY <1>3 DEF RequeueComponent, EndComponent
    <2>2. CASE t = ltenant
      BY <2>1, <2>2, Queued
    <2>3. CASE t # ltenant
      <3>1. ltenant' # t
        BY <1>0, <2>1
      <3> QED BY <1>0, <2>1, <2>3, <3>1, OtherTenant
    <2> QED BY <2>2, <2>3
  <1>4. ASSUME NEW r \in Roles(component), FindSecret(r) PROVE TenantPass(t)'
    <2>1. kpc = r /\ r \in Steps(component) /\ r \notin Owned(component)
      BY <1>0, <1>4, KubeSteps DEF FindSecret, Steps
    <2>2. RequeueComponent \/ \E n : Advance(r, n)
      BY <1>4 DEF FindSecret
    <2> QED BY <1>2, <1>3, <2>1, <2>2
  <1>5. ASSUME NEW o \in ComponentChildren(component), EnsureComponentChild(o)
        PROVE  TenantPass(t)'
    <2>1. /\ kpc = o /\ o \in Steps(component) /\ Advance(o, 0)
          /\ IF SendsChild(o) THEN Write(Child(component, o, ltenant), After(o))
                              ELSE UNCHANGED obj
      BY <1>5 DEF EnsureComponentChild, Steps
    <2>2. /\ o \in Owned(component) /\ Exists(Resource(ltenant))
          /\ Fresh(Resource(ltenant)) /\ lres = Store(Resource(ltenant))
          /\ Len(obj'[Child(component, o, ltenant)]) = 1
          => InSync(o, ltenant)
      BY <2>1, EnsuredInSync
    <2> QED BY <1>2, <2>1, <2>2
  <1>6. ASSUME NEW o \in ComponentChildren(component), FailComponentChild(o)
        PROVE  TenantPass(t)'
    BY <1>3, <1>6 DEF FailComponentChild
  <1> QED BY <1>1, <1>4, <1>5, <1>6 DEF ComponentReconcile

\* A watch event.
LEMMA WatchServes ==
  ASSUME KubeInductive, NEW x \in ComponentObjects(component), Watch(x),
         NEW t \in Tenants, TenantPass(t)
  PROVE  TenantPass(t)'
  <1>0. /\ KubeTimelines(component) /\ KubeLocals /\ component \in Components
        /\ NoRepeats
    BY DEF KubeInductive, KubeLocals
  <1>1. /\ Deliver(x, EventWatches) /\ UNCHANGED <<component, kpc, ltenant, lres>>
        /\ Behind' = Behind
    BY DEF Watch, componentVars, passVars, Behind
  <1>2. /\ \A y \in ComponentObjects(component) : Store(y)' = Store(y)
        /\ \A y \in ComponentObjects(component) \ {x} : obj'[y] = obj[y]
        /\ Fresh(x)' => Len(obj[x]) = 2 /\ obj[x][2] = Store(x)
    BY <1>0, <1>1, KubeDeliver
  <1>10. component' = component
    BY <1>1
  <1>3. ~Fresh(x) /\ queue' = queue \cup {u \in Tenants : x \in EventWatches[u]}
    BY <1>1 DEF Deliver, EventWatches
  <1>4. ASSUME t \notin queue' PROVE t \notin Requests(x, obj[x][1]) \cup Requests(x, obj[x][2])
    BY <1>3, <1>4 DEF EventWatches
  <1> SUFFICES ASSUME t \notin queue', Fresh(Resource(t))', Exists(Resource(t))'
               PROVE  /\ ltenant = t => lres = Store(Resource(t))'
                      /\ \A o \in Owned(component) :
                           /\ Fresh(Child(component, o, t))'
                           /\ Responsible(t, Child(component, o, t))'
                           /\ ltenant = t => o \in Behind
                           => InSync(o, t)'
    BY <1>1 DEF TenantPass
  <1>5. x # Resource(t)
    <2> SUFFICES ASSUME x = Resource(t) PROVE FALSE
      OBVIOUS
    <2>1. obj[x][2] # Absent
      BY <1>2, TenantNames, <1>0 DEF Exists, Fresh
    <2>2. t \in Requests(x, obj[x][2])
      BY <1>0, <2>1, ResourceRequests
    <2> QED BY <1>4, <2>2
  <1>6. obj'[Resource(t)] = obj[Resource(t)]
    BY <1>0, <1>2, <1>5, TenantNames
  <1>7. t \notin queue /\ Fresh(Resource(t)) /\ Exists(Resource(t))
    BY <1>3, <1>6 DEF Fresh, Exists, Store
  <1>8. ltenant = t => lres = Store(Resource(t))'
    BY <1>6, <1>7 DEF TenantPass, Store
  <1>9. ASSUME NEW o \in Owned(component), Fresh(Child(component, o, t))',
               Responsible(t, Child(component, o, t))', ltenant = t => o \in Behind
        PROVE  InSync(o, t)'
    <2> DEFINE name == Child(component, o, t)
    <2>0. /\ name \in ComponentObjects(component) /\ name \in ChildNames(component)
          /\ name[1] = o /\ o # "spec" /\ o \in ComponentChildren(component)
      BY <1>0, TenantNames, KubeSteps
    <2>1. CASE x = name
      <3>1. Len(obj[x]) = 2 /\ obj[x][2] = Store(x) /\ Store(x)' = Store(x)
        BY <1>2, <1>9, <1>10, <2>1 DEF Fresh
      <3>2. obj[x][1] # obj[x][2]
        BY <1>0, <3>1 DEF NoRepeats
      <3>3. /\ obj[x][1] \in KubeVersions(component, x)
            /\ obj[x][2] \in KubeVersions(component, x)
        BY <1>0, <3>1 DEF KubeTimelines, Timeline
      <3>4. \A v \in KubeKind(component, x) : v.owner.name \in Tenants
        BY <1>0, <2>0, <2>1, ChildKind DEF Owners
      <3>5. \E v \in {obj[x][1], obj[x][2]} : v # Absent /\ v.owner.name = t
        <4>1. CASE Tenants = {t}
          BY <3>2, <3>3, <3>4, <4>1 DEF KubeVersions
        <4>2. CASE Store(x)' # Absent /\ Store(x)'.owner.name = t
          BY <3>1, <4>2
        <4>3. Tenants = {t} \/ (Store(x)' # Absent /\ Store(x)'.owner.name = t)
          BY <1>9, <1>10, <2>1 DEF Responsible, Exists, Store
        <4> QED BY <4>1, <4>2, <4>3
      <3>6. t \in Requests(x, obj[x][1]) \cup Requests(x, obj[x][2])
        BY <2>0, <2>1, <3>5 DEF Requests
      <3> QED BY <1>4, <3>6
    <2>2. CASE x # name
      <3>1. obj'[name] = obj[name]
        BY <1>2, <2>0, <2>2
      <3>2. Fresh(name) /\ Responsible(t, name)
        BY <1>1, <1>6, <1>9, <3>1, SameChild DEF Fresh
      <3>3. InSync(o, t)
        BY <1>7, <1>9, <3>2 DEF TenantPass
      <3> QED BY <1>1, <1>6, <3>1, <3>3, SameChild
    <2> QED BY <2>1, <2>2
  <1> QED BY <1>8, <1>9

\* Every step.
LEMMA ServedStep ==
  ASSUME KubeInductive, TenantsServed, [Next]_vars
  PROVE  TenantsServed'
  <1> SUFFICES ASSUME NEW t \in Tenants PROVE TenantPass(t)'
    BY DEF TenantsServed
  <1>0. /\ KubeTimelines(component) /\ KubeLocals /\ component \in Components
        /\ TenantPass(t)
    BY DEF KubeInductive, KubeLocals, TenantsServed
  <1>1. CASE ComponentReconcile
    BY <1>0, <1>1, WorkerServes
  <1>2. CASE Elsewhere
    <2>1. QuietStep
      BY <1>2, ElsewhereKeeps
    <2> QED BY <1>0, <1>2, <2>1, PassStays DEF Elsewhere, passVars
  <1>3. ASSUME NEW x \in ComponentObjects(component), Watch(x) PROVE TenantPass(t)'
    BY <1>0, <1>3, WatchServes
  <1>4. CASE PeriodicResync \/ UNCHANGED vars
    <2>1. UNCHANGED <<obj, component, kpc, ltenant, lres>> /\ queue \subseteq queue'
      BY <1>4 DEF PeriodicResync, Resync, vars, clusterVars, componentVars, passVars
    <2>2. QuietStep
      BY <2>1 DEF QuietStep
    <2> QED BY <1>0, <2>1, <2>2, PassStays
  <1>5. CASE Crash
    <2>1. Relist(ListWatches)
      BY <1>5 DEF Crash
    <2>2. Store(Resource(t))' = Store(Resource(t))
      BY <1>0, <2>1, KubeRelist, TenantNames
    <2>3. Exists(Resource(t)) => t \in Requests(Resource(t), Store(Resource(t)))
      BY <1>0, ResourceRequests DEF Exists
    <2>4. Exists(Resource(t)) => t \in queue'
      BY <1>0, <2>1, <2>3, TenantNames DEF Relist, ListWatches
    <2> QED BY <2>2, <2>4 DEF TenantPass, Exists
  <1> QED BY <1>0, <1>1, <1>2, <1>3, <1>4, <1>5, OthersStep DEF Next

-----------------------------------------------------------------------------
(* The theorems.                                                           *)

\* At the start nothing exists and no pass runs.
LEMMA KubeInductiveInit == Init => KubeInductive /\ PodsHaveSecrets /\ TenantsServed
  <1> SUFFICES ASSUME Init PROVE KubeInductive /\ PodsHaveSecrets /\ TenantsServed
    OBVIOUS
  <1>0. component \in Components /\ kpc = "idle" /\ lsecret = 0 /\ budget = MaxDisturbances
    BY DEF Init, ClusterInit, ComponentInit
  <1>1. ASSUME NEW o \in ComponentObjects(component)
        PROVE  obj[o] = <<Absent>> /\ Timeline(o, KubeVersions(component, o)) /\ ~Exists(o)
    <2>1. obj[o] = <<Absent>>
      BY <1>0, KubeNames DEF Init, ClusterInit
    <2>2. Absent \in KubeVersions(component, o)
      BY DEF KubeVersions
    <2> QED BY <2>1, <2>2 DEF Timeline, Exists, Store
  <1>2. KubeTimelines(component)
    BY <1>1 DEF KubeTimelines, Init, ClusterInit
  <1>3. \A n \in SecretNames : secrets[n] \in {0, 1}
    BY DEF Init
  <1>4. KubeLocals
    BY <1>0, <1>3, MaxDisturbancesIsNat
       DEF Init, ClusterInit, ComponentInit, KubeLocals, PassTypes
  <1>5. NoRepeats
    BY <1>1 DEF NoRepeats
  <1>6. IssuesBounded
    <2>1. \A n \in SecretNames : secrets[n] + budget <= MaxDisturbances + 1
      BY <1>0, <1>3, MaxDisturbancesIsNat
    <2>2. budget <= MaxDisturbances /\ lsecret + budget <= MaxDisturbances + 1
      BY <1>0, MaxDisturbancesIsNat
    <2>3. \A n \in Issued[component] : secrets[n] > 0
      BY <1>0, IssuableAreNames, IssuedAreIssuable DEF Init
    <2> QED BY <2>1, <2>2, <2>3 DEF IssuesBounded
  <1>7. SecretsFound
    BY <1>0, NothingBehind DEF SecretsFound
  <1>8. PodsHaveSecrets
    BY <1>0, <1>1, KubeNames DEF PodsHaveSecrets
  <1>9. TenantsServed
    BY <1>0, <1>1, KubeNames DEF TenantsServed, TenantPass
  <1> QED BY <1>2, <1>4, <1>5, <1>6, <1>7, <1>8, <1>9 DEF KubeInductive

\* Every step keeps the strengthening.
LEMMA KubeInductiveStep == KubeInductive /\ [Next]_vars => KubeInductive'
  <1> SUFFICES ASSUME KubeInductive, [Next]_vars PROVE KubeInductive'
    OBVIOUS
  <1>1. CASE ComponentReconcile
    BY <1>1, WorkerKeeps
  <1>2. CASE \/ \E o \in ComponentObjects(component) : Watch(o)
             \/ PeriodicResync
             \/ Crash
    BY <1>2, InformerStep
  <1>3. CASE Elsewhere
    BY <1>3, ElsewhereKeeps
  <1>4. CASE UNCHANGED vars
    <2>1. UNCHANGED <<obj, queue, budget, component, kpc, ltenant, lres, lsecret, secrets>>
      BY <1>4 DEF vars, clusterVars, componentVars, passVars
    <2>2. KubeTimelines(component)' /\ NoRepeats'
      BY <2>1 DEF KubeInductive, KubeTimelines, Timeline, KubeVersions, KubeKind, NoRepeats
    <2>3. PassInductive /\ queue' \subseteq Tenants /\ Issuance /\ UNCHANGED passVars
      BY <2>1 DEF KubeInductive, PassInductive, KubeLocals, Issuance, passVars
    <2>4. PassInductive'
      BY <2>1, <2>3, ElsewhereStep
    <2> QED BY <2>2, <2>4 DEF KubeInductive, PassInductive
  <1> QED BY <1>1, <1>2, <1>3, <1>4, OthersStep DEF Next, KubeInductive

LEMMA KubeInvariance == Spec => []KubeInductive
  BY KubeInductiveInit, KubeInductiveStep, PTL DEF Spec

\* The strengthening is an invariant.
THEOREM InductiveInvariance == Spec => []Inductive
  <1>1. KubeInductive => Inductive
    BY KubeTypesJoin DEF KubeInductive, Inductive
  <1> QED BY KubeInvariance, <1>1, PTL

\* Types: timelines hold versions of their kinds, and a pass holds a resource
\* of the component.
THEOREM TypeCorrect == Spec => []TypeOK
  <1>1. Inductive => TypeOK
    BY DEF Inductive
  <1> QED BY InductiveInvariance, <1>1, PTL

\* The Secrets that a Deployment mounts exist before it does: a pass reaches
\* the Deployment past the Gets of all of them.  The two that the controller
\* manager's mounts by fixed names have to be among those the spec names, or to
\* be there from the start: no Get of the pass looks for them.
THEOREM MountedSecrets ==
  ASSUME OthersAreIssued
  PROVE  Spec => []PodsHaveSecrets
  <1>1. KubeInductive /\ PodsHaveSecrets /\ [Next]_vars => PodsHaveSecrets'
    BY PodsStep
  <1> QED BY KubeInductiveInit, <1>1, KubeInvariance, PTL DEF Spec

\* A tenant's children are as it asks, as far as its controller can know: a
\* tenant that is neither queued nor running leaves nothing behind.
LEMMA ServedInvariance == Spec => [](KubeInductive /\ TenantsServed)
  <1>1. KubeInductive /\ TenantsServed /\ [Next]_vars => TenantsServed'
    BY ServedStep
  <1> QED BY KubeInductiveInit, <1>1, KubeInvariance, PTL DEF Spec

\* Whatever the other tenants write to the same names, a child that a tenant was
\* the first to make, and is told about, is as it asks whenever nothing is on
\* its way to it, for any number of lost requests, renewals, edits and crashes.
THEOREM OwnerSafety == Spec => []SettledOwner
  <1>1. TenantsServed => SettledOwner
    BY DEF TenantsServed, TenantPass, SettledOwner, Responsible
  <1> QED BY ServedInvariance, <1>1, PTL

\* The controller of a namespace's only tenant, with nothing left to do, leaves
\* what it watches as the custom resource asks, also what an earlier incarnation
\* of the resource had made.
THEOREM ComponentSafety ==
  ASSUME \A t, u \in Tenants : t = u
  PROVE  Spec => []SettledComponent
  <1>1. KubeInductive /\ TenantsServed => SettledComponent
    <2> SUFFICES ASSUME KubeInductive, TenantsServed, NEW t \in Tenants, Settled,
                        Exists(Resource(t)), NEW o \in Owned(component)
                 PROVE  InSync(o, t)
      BY DEF SettledComponent
    <2>1. component \in Components /\ ltenant # t /\ Tenants = {t}
      BY TenantsAreLabels DEF KubeInductive, KubeLocals, PassTypes, Settled
    <2>2. /\ Fresh(Resource(t)) /\ t \notin queue
          /\ Fresh(Child(component, o, t))
      BY <2>1, KubeNames, TenantNames DEF Settled, Quiet
    <2> QED BY <2>1, <2>2 DEF TenantsServed, TenantPass, Responsible
  <1> QED BY ServedInvariance, <1>1, PTL
==============================================================================
