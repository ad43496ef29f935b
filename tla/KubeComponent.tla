----------------------------- MODULE KubeComponent -----------------------------
(***************************************************************************)
(* One of the three Kubernetes components with its environment: the        *)
(* ControlPlane reconciler, which writes the custom resources,             *)
(* cert-manager, which makes Secrets and renews them, users who edit or    *)
(* remove what the controller made, the garbage collector, lost requests,  *)
(* and crashes.                                                            *)
(***************************************************************************)
EXTENDS KubeComponentReconciler, FiniteSets, Functions

CONSTANTS
  Specs,    \* component -> tenant -> the specs the ControlPlane reconciler may write
  Issuable, \* component -> the Secrets cert-manager makes
  Issued,   \* component -> those it has made before the operator starts
  MaxLag,   \* a bound on the objects whose cache is behind when the garbage
            \* collector acts
  Foreign   \* component -> child -> what its fields may be edited to behind
            \* the operator's back

ASSUME SpecsAreComponentSpecs ==
  \A c \in Components, t \in Tenants : Specs[c][t] \subseteq ComponentSpecs(c)
ASSUME IssuableAreNames == \A c \in Components : Issuable[c] \subseteq SecretNames
ASSUME IssuedAreIssuable == \A c \in Components : Issued[c] \subseteq Issuable[c]
ASSUME MaxLagIsNat == MaxLag \in Nat
ASSUME EditsAreFields ==
  \A c \in Components : \A o \in ComponentChildren(c) : \A fields \in Foreign[c][o] :
    /\ "owner" \notin DOMAIN fields
    /\ "version" \in DOMAIN fields => fields.version \in Versions
    /\ "selector" \in DOMAIN fields => fields.selector \in LabelMaps
    /\ "mounts" \in DOMAIN fields => fields.mounts \subseteq SecretNames
    /\ "from" \in DOMAIN fields => fields.from \in SecretNames \cup {NoSecret}
    /\ "issue" \in DOMAIN fields => fields.issue \in Nat
ASSUME ComponentIsPresent ==
  /\ \A c \in Components : ComponentObjects(c) \subseteq Objects
  /\ Tenants \subseteq Controllers

vars == <<clusterVars, componentVars>>

Init ==
  /\ ClusterInit /\ ComponentInit
  /\ secrets = [n \in SecretNames |-> IF n \in Issued[component] THEN 1 ELSE 0]

\* What the event of o's next version, its initial listing and its resync
\* make of the request of a tenant.
EventWatches == [t \in Tenants |->
  {o \in ComponentObjects(component) :
     ~Fresh(o) /\ t \in Requests(o, obj[o][1]) \cup Requests(o, obj[o][2])}]

ListWatches == [t \in Tenants |->
  {o \in ComponentObjects(component) : t \in Requests(o, Store(o))}]

-----------------------------------------------------------------------------
(* The environment.                                                        *)

\* The uids that a resource, a running pass or a controller reference has, and
\* the next one that the API server gives.
UsedUids ==
  LET versions == UNION {Range(obj[o]) : o \in ComponentObjects(component)} \ {Absent}
  IN  {IF "uid" \in DOMAIN v THEN v.uid ELSE v.owner.uid : v \in versions}
      \cup (IF kpc = "idle" THEN {} ELSE {lres.uid})

NewUids ==
  LET free == 0..MaxDisturbances \ UsedUids IN {u \in free : \A w \in free : u <= w}

\* The ControlPlane reconciler creates or patches a custom resource; changing
\* the labels of its Deployment is a disturbance of its own.
Configure(t, spec) ==
  LET o == Resource(t) IN
  /\ IF Exists(o)
       THEN Interfere(IF spec.labels # Store(o).spec.labels THEN "relabel" ELSE "apply",
                      o, [Store(o) EXCEPT !.spec = spec])
       ELSE \E u \in NewUids : Interfere("apply", o, [spec |-> spec, uid |-> u])
  /\ UNCHANGED componentVars

RemoveResource(t) ==
  /\ Exists(Resource(t))
  /\ Interfere("delete", Resource(t), Absent)
  /\ UNCHANGED componentVars

\* A child's fields are edited; its controller reference is not.
EditChild(o, fields) ==
  /\ Exists(o)
  /\ Interfere("drift", o,
       [f \in DOMAIN Store(o) |-> IF f \in DOMAIN fields THEN fields[f] ELSE Store(o)[f]])
  /\ UNCHANGED componentVars

RemoveChild(o) ==
  /\ Exists(o)
  /\ Interfere("remove", o, Absent)
  /\ UNCHANGED componentVars

\* cert-manager renews a certificate whose contents a configuration holds.
Renew(n) ==
  /\ secrets[n] > 0
  /\ \E t \in Tenants : \E spec \in Specs[component][t] : n = spec.tls[Embedded(component)]
  /\ Disturb("renew")
  /\ secrets' = [secrets EXCEPT ![n] = @ + 1]
  /\ UNCHANGED <<obj, queue, current, component, passVars>>

Crash == Relist(ListWatches) /\ EndComponent /\ UNCHANGED secrets

Environment ==
  \/ \E t \in Tenants : \E spec \in Specs[component][t] : Configure(t, spec)
  \/ \E t \in Tenants : RemoveResource(t)
  \/ \E o \in ChildNames(component) : \E fields \in Foreign[component][o[1]] : EditChild(o, fields)
  \/ \E o \in ChildNames(component) : RemoveChild(o)
  \/ \E n \in SecretNames : Renew(n)
  \/ Crash

\* cert-manager makes a Secret.
Issue(n) ==
  /\ n \in Issuable[component]
  /\ secrets[n] = 0
  /\ secrets' = [secrets EXCEPT ![n] = 1]
  /\ UNCHANGED <<clusterVars, component, passVars>>

\* The garbage collector removes a child whose owner, by its uid, is gone.
Garbage(o) ==
  /\ Exists(o)
  /\ LET owner == Store(o).owner
     IN  /\ owner # NoOwner
         /\ ~ /\ Exists(Resource(owner.name))
              /\ Store(Resource(owner.name)).uid = owner.uid

Collect(o) ==
  /\ Garbage(o)
  /\ Cardinality({x \in ComponentObjects(component) : ~Fresh(x)}) <= MaxLag
  /\ Commit(o, Absent)
  /\ UNCHANGED <<queue, budget, componentVars>>

Watch(o) == Deliver(o, EventWatches) /\ UNCHANGED componentVars

\* Nothing is left to do for the worker.
Quiet ==
  queue = {} /\ \A o \in ComponentObjects(component) :
                  o[1] \in Owned(component) \cup {"spec"} => Fresh(o)

Settled == Quiet /\ kpc = "idle"

\* The informers' resync comes hours apart, to a controller at rest.
PeriodicResync == Settled /\ Resync(ListWatches) /\ UNCHANGED componentVars

Next ==
  \/ ComponentReconcile
  \/ \E n \in SecretNames : Issue(n)
  \/ \E o \in ComponentObjects(component) : Watch(o)
  \/ \E o \in ChildNames(component) : Collect(o)
  \/ PeriodicResync
  \/ Environment

Spec == Init /\ [][Next]_vars

\* The worker runs (a delayed request becomes due), and takes the requests in
\* turn; the watches deliver, cert-manager makes the Secrets it is asked for,
\* and the garbage collector collects.
Fairness ==
  /\ WF_vars(ComponentReconcile)
  /\ \A t \in Tenants : SF_vars(StartComponent(t))
  /\ \A n \in SecretNames : WF_vars(Issue(n))
  /\ \A o \in Objects : WF_vars(Watch(o))
  /\ \A o \in UNION {ChildNames(c) : c \in Components} : WF_vars(Collect(o))

FairSpec == Spec /\ Fairness

-----------------------------------------------------------------------------
(* Properties.                                                             *)

TypeOK ==
  LET Timelines(S) == Seq(S \cup {Absent}) \ {<<>>} IN
  /\ DOMAIN obj = Objects
  /\ \A t \in Tenants : obj[Resource(t)] \in Timelines(Resources(component))
  /\ \A o \in ChildNames(component) :
       obj[o] \in Timelines(IF o[1] = "deployment" THEN Deployments ELSE ConfigObjects)
  /\ component \in Components
  /\ queue \subseteq Tenants
  /\ budget \in Nat
  /\ kpc \in Roles(component) \cup ComponentChildren(component) \cup {"idle"}
  /\ ltenant \in IF kpc = "idle" THEN {Absent} ELSE Tenants
  /\ lres \in IF kpc = "idle" THEN {Absent} ELSE Resources(component)
  /\ lsecret \in Nat
  /\ secrets \in [SecretNames -> Nat]

SpecOf(t) == Store(Resource(t)).spec

\* A child is what the tenant asks for, made from its certificate as issued
\* for the n-th time.
Holds(o, t, n) ==
  LET name == Child(component, o, t) IN
  /\ Exists(Resource(t)) /\ Exists(name)
  /\ Store(name) = ComponentChildFor(component, o, t, SpecOf(t), n, Store(name).owner)

\* ... as issued at any time, and as issued last.
InSync(o, t) == \E n \in 0..MaxDisturbances + 1 : Holds(o, t, n)
UpToDate(o, t) ==
  Exists(Resource(t)) /\ Holds(o, t, secrets[SpecOf(t).tls[Embedded(component)]])

\* When nothing is left to do for the controller of a namespace's only
\* tenant, what it watches is as the custom resource asks: a pass that had to
\* wait for a Secret, that lost a request, whose patch was refused, or whose
\* resource was deleted and made again before the garbage collector came, is
\* not forgotten.
SettledComponent ==
  \A t \in Tenants :
    Settled /\ Exists(Resource(t)) => \A o \in Owned(component) : InSync(o, t)

\* With several tenants in a namespace: what a tenant was the first to make,
\* and is told about, is as it asks whenever nothing is on its way to it,
\* whatever the others write to the same names.
SettledOwner ==
  \A t \in Tenants, o \in Owned(component) :
    LET name == Child(component, o, t) IN
      /\ t \notin queue \cup {ltenant}
      /\ Fresh(Resource(t)) /\ Fresh(name)
      /\ Exists(Resource(t)) /\ Exists(name) /\ Store(name).owner.name = t
      => InSync(o, t)

\* The pods of a Deployment can start: the TLS Secrets it mounts exist before
\* it does (the Gets a pass makes before it writes the Deployment).
PodsHaveSecrets ==
  \A o \in ChildNames(component) :
    o[1] = "deployment" /\ Exists(o) => \A n \in Store(o).mounts : secrets[n] > 0

DeploymentOf(t) == Child(component, "deployment", t)

Runs(t, v) == Exists(DeploymentOf(t)) /\ Store(DeploymentOf(t)).version = v

Asks(t, v) == Exists(Resource(t)) /\ SpecOf(t).version = v

\* What the spec asks for in the end is rolled out, once the Secrets are
\* there, however many requests were lost or waits were needed, as long as it
\* asks for the selector the Deployment has: neither another tenant's
\* Deployment nor a selector that was relabelled.
RollsOut ==
  \A t \in Tenants :
    <>[](/\ Exists(Resource(t))
         /\ Exists(DeploymentOf(t)) =>
              Store(DeploymentOf(t)).selector
                = DeploymentFor(component, t, SpecOf(t), NoOwner).selector)
      => <>[]InSync("deployment", t)

\* The test "Sync deployment version" asks for it without that condition.
VersionSynced ==
  \A t \in Tenants, v \in Versions : <>[]Asks(t, v) => <>[]Runs(t, v)

Alone(t) == Exists(Resource(t)) /\ \A u \in Tenants \ {t} : ~Exists(Resource(u))

\* A tenant that found the name of its Deployment taken gets it once the
\* other tenants are gone: its retries outlive them.
HandedOver ==
  \A t \in Tenants :
    <>[]Alone(t) =>
      <>[](InSync("deployment", t) /\ Store(DeploymentOf(t)).owner.name = t)

\* Configurations that nobody is told about (one that another tenant or an
\* earlier incarnation owned, the konnectivity kubeconfig, a certificate that
\* was renewed) are put right when the informers' resync comes round.
ConfigsCatchUp ==
  \A t \in Tenants :
    WF_vars(PeriodicResync) =>
      (<>[]Alone(t) => <>[](\A o \in Configs(component) : UpToDate(o, t)))

\* What a custom resource owned goes with it, including what a pass that was
\* still running made after it was deleted.
NothingLeft ==
  <>[](\A t \in Tenants : ~Exists(Resource(t)))
    => <>[](\A o \in ChildNames(component) : ~Exists(o))

-----------------------------------------------------------------------------
(* The strengthening under which every step keeps the invariants above.    *)

\* The resources the ControlPlane reconciler may have written for a tenant.
ResourcesOf(t) == [spec : Specs[component][t], uid : Nat]

\* Every version of a resource is one of those, and a pass works on one.
ResourcesAsked ==
  /\ \A t \in Tenants : obj[Resource(t)] \in Seq(ResourcesOf(t) \cup {Absent})
  /\ kpc # "idle" => lres \in ResourcesOf(ltenant)

\* A write that changes nothing makes no version.
NoRepeats ==
  \A o \in ComponentObjects(component) :
    \A i \in 1..Len(obj[o]) - 1 : obj[o][i] # obj[o][i + 1]

\* A certificate is issued once and renewed by disturbances only, and what was
\* issued stays.
IssuesBounded ==
  /\ budget <= MaxDisturbances
  /\ \A n \in SecretNames : secrets[n] + budget <= MaxDisturbances + 1
  /\ lsecret + budget <= MaxDisturbances + 1
  /\ \A n \in Issued[component] : secrets[n] > 0

\* The steps a running pass has behind it.
Behind ==
  LET plan == Plan(component) IN
  {plan[i] : i \in {i \in DOMAIN plan : \E j \in DOMAIN plan : i < j /\ plan[j] = kpc}}

\* The Secrets a pass looked for are there.
SecretsFound ==
  \A r \in Roles(component) : r \in Behind => secrets[lres.spec.tls[r]] > 0

\* A child is the tenant's to make: it made it, or there is no other tenant.
Responsible(t, name) ==
  Tenants = {t} \/ (Exists(name) /\ Store(name).owner.name = t)

\* While a tenant is not queued and the cache is up to date about its resource,
\* a running pass of its own works on the resource as it is, and every child that
\* is the tenant's, whose cache is up to date as well and which that pass does not
\* still have to write is what the tenant asks for.
TenantPass(t) ==
  t \notin queue /\ Fresh(Resource(t)) /\ Exists(Resource(t)) =>
    /\ ltenant = t => lres = Store(Resource(t))
    /\ \A o \in Owned(component) :
         LET name == Child(component, o, t) IN
         Fresh(name) /\ Responsible(t, name) /\ (ltenant = t => o \in Behind) => InSync(o, t)

TenantsServed == \A t \in Tenants : TenantPass(t)

Inductive ==
  TypeOK /\ ResourcesAsked /\ NoRepeats /\ IssuesBounded /\ SecretsFound
==============================================================================
