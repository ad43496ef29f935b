------------------------ MODULE KubeComponentReconciler ------------------------
(***************************************************************************)
(* The Reconcile methods of KubeAPIServer, KubeControllerManager and       *)
(* KubeScheduler.  The three have one shape: a pass looks for the Secrets  *)
(* the component needs, writes the objects its pods read their             *)
(* configuration from, and writes the Deployment.  They differ in the      *)
(* order, in what they watch and in what their Deployments mount: a        *)
(* behaviour of this module is one of the component chosen at its start.   *)
(* A namespace may hold several resources of the component's kind, one per *)
(* tenant: one worker serves them, one request (a tenant) at a time.       *)
(***************************************************************************)
EXTENDS Cluster, Labels

CONSTANTS
  Tenants,    \* the names of the custom resources of one namespace
  Versions,   \* releases; the rest of the spec that only the pods see is
              \* counted as part of the release
  SecretNames \* names of Secrets

ASSUME SecretVocabulary ==
  {"kube-controller-manager", "service-accounts"} \subseteq SecretNames
ASSUME TenantsAreLabels ==
  Tenants \subseteq LabelValues /\ "shared" \notin Tenants /\ Absent \notin Tenants

Components == {"kube-apiserver", "kube-controller-manager", "kube-scheduler"}

ASSUME ComponentsAreLabels == Components \subseteq LabelValues

VARIABLES
  component, \* the component of this behaviour
  kpc,       \* the step the running pass takes next, or "idle"
  ltenant,   \* the request of the pass
  lres,      \* the pass's copy of the custom resource
  lsecret,   \* the certificate it will embed, as it read it
  secrets    \* the cached TLS Secrets: name -> how often issued

passVars == <<kpc, ltenant, lres, lsecret>>
componentVars == <<component, passVars, secrets>>

\* The Secrets a component's spec names, by what they are for.
Roles(c) ==
  CASE c = "kube-apiserver" ->
         {"konnectivity", "ca", "serving", "service-accounts"}
    [] c = "kube-controller-manager" ->
         {"serving", "service-accounts", "ca"}
    [] c = "kube-scheduler" -> {"serving"}

ComponentSpecs(c) ==
  [version : Versions, labels : LabelMaps, tls : [Roles(c) -> SecretNames]]

\* A custom resource; one that is deleted and made again has another uid.
Resources(c) == [spec : ComponentSpecs(c), uid : Nat]

\* The controller reference of a child.
Owners == [name : Tenants, uid : Nat]

NoOwner == [name |-> "nobody", uid |-> 0]

\* The objects a pass writes.  A configuration is the Secret it was made
\* from, as issued for the n-th time ("egress" is made from none).
Configs(c) ==
  IF c = "kube-apiserver" THEN {"kubeconfig", "egress"} ELSE {"kubeconfig"}

ComponentChildren(c) == Configs(c) \cup {"deployment"}

NoSecret == "none"
ConfigObjects == [from : SecretNames \cup {NoSecret}, issue : Nat, owner : Owners]

Deployments ==
  [version : Versions, selector : LabelMaps, mounts : SUBSET SecretNames, owner : Owners]

ASSUME AbsentIsNoComponentObject ==
  /\ \A c \in Components : Absent \notin Resources(c)
  /\ Absent \notin ConfigObjects /\ Absent \notin Deployments

(***************************************************************************)
(* The names.  Those of the API server's Deployment and of the             *)
(* konnectivity kubeconfig come from the spec, all others are constants    *)
(* that the tenants of a namespace share.                                  *)
(***************************************************************************)
Resource(t) == <<"spec", t>>

NamedBySpec(c) == IF c = "kube-apiserver" THEN {"deployment", "kubeconfig"} ELSE {}

Child(c, o, t) == <<o, IF o \in NamedBySpec(c) THEN t ELSE "shared">>

ChildNames(c) == {Child(c, o, t) : o \in ComponentChildren(c), t \in Tenants}

ComponentObjects(c) == ChildNames(c) \cup {Resource(t) : t \in Tenants}

(***************************************************************************)
(* The steps of a pass: a role stands for the Get of its Secret, a child   *)
(* for its CreateOrPatch.                                                  *)
(***************************************************************************)
KubeAPIServerPlan ==
  <<"konnectivity", "kubeconfig", "egress", "ca", "serving", "service-accounts",
    "deployment">>

KubeControllerManagerPlan ==
  <<"serving", "service-accounts", "ca", "kubeconfig", "deployment">>

KubeSchedulerPlan == <<"serving", "kubeconfig", "deployment">>

Plan(c) ==
  CASE c = "kube-apiserver"          -> KubeAPIServerPlan
    [] c = "kube-controller-manager" -> KubeControllerManagerPlan
    [] c = "kube-scheduler"          -> KubeSchedulerPlan

\* The step after step s.
NextStep(s) ==
  LET plan == Plan(component)
      i == CHOOSE i \in DOMAIN plan : plan[i] = s
  IN  IF i = Len(plan) THEN "idle" ELSE plan[i + 1]

(***************************************************************************)
(* What each controller is told about besides its custom resource.         *)
(***************************************************************************)
\* Owns(Deployment) and Owns(ConfigMap): not the kubeconfig, a Secret.
KubeAPIServerOwns == {"deployment", "egress"}

\* Owns(Deployment) and Owns(Secret).
KubeControllerManagerOwns == {"deployment", "kubeconfig"}

\* Owns(Secret) and Owns(Deployment).
KubeSchedulerOwns == {"kubeconfig", "deployment"}

Owned(c) ==
  CASE c = "kube-apiserver"          -> KubeAPIServerOwns
    [] c = "kube-controller-manager" -> KubeControllerManagerOwns
    [] c = "kube-scheduler"          -> KubeSchedulerOwns

\* Mutant: none of the Owns was asked for.
RequestsOfSpecs(o, v) == IF v # Absent /\ o[1] = "spec" THEN {o[2]} ELSE {}

\* The request an event of object o, in version v, is turned into: the object
\* itself, or the name (not the uid) in its controller reference.
Requests(o, v) ==
  IF v = Absent THEN {}
  ELSE CASE o[1] = "spec"           -> {o[2]}
         [] o[1] \in Owned(component) -> {v.owner.name}
         [] OTHER                   -> {}

(***************************************************************************)
(* The children.                                                           *)
(***************************************************************************)
KubeAPIServerDeployment(t, spec, owner) ==
  [version  |-> spec.version,
   selector |-> labels("kube-apiserver", t, spec.labels),
   mounts   |-> {spec.tls[r] : r \in {"ca", "service-accounts", "serving"}},
   owner    |-> owner]

\* Two of the Secrets it mounts are not the ones the spec names.
KubeControllerManagerDeployment(t, spec, owner) ==
  [version  |-> spec.version,
   selector |-> labels("kube-controller-manager", t, spec.labels),
   mounts   |-> {"kube-controller-manager", "service-accounts", spec.tls["ca"]},
   owner    |-> owner]

KubeSchedulerDeployment(t, spec, owner) ==
  [version  |-> spec.version,
   selector |-> labels("kube-scheduler", t, NoLabels),
   mounts   |-> {spec.tls["serving"]},
   owner    |-> owner]

DeploymentFor(c, t, spec, owner) ==
  CASE c = "kube-apiserver"          -> KubeAPIServerDeployment(t, spec, owner)
    [] c = "kube-controller-manager" -> KubeControllerManagerDeployment(t, spec, owner)
    [] c = "kube-scheduler"          -> KubeSchedulerDeployment(t, spec, owner)

\* GenerateKubeconfigFromSecret is given the konnectivity server's
\* certificate by the API server and the serving certificate by the others.
Embedded(c) == IF c = "kube-apiserver" THEN "konnectivity" ELSE "serving"

ConfigFor(c, o, spec, issue, owner) ==
  IF o = "egress" THEN [from |-> NoSecret, issue |-> 0, owner |-> owner]
  ELSE [from |-> spec.tls[Embedded(c)], issue |-> issue, owner |-> owner]

ComponentChildFor(c, o, t, spec, issue, owner) ==
  IF o = "deployment" THEN DeploymentFor(c, t, spec, owner)
                      ELSE ConfigFor(c, o, spec, issue, owner)

(***************************************************************************)
(* The passes.                                                             *)
(***************************************************************************)
ComponentInit ==
  /\ component \in Components
  /\ kpc = "idle" /\ ltenant = Absent /\ lres = Absent /\ lsecret = 0

EndComponent ==
  /\ kpc' = "idle" /\ ltenant' = Absent /\ lres' = Absent /\ lsecret' = 0
  /\ UNCHANGED component

\* The request comes back after three seconds, or after a back-off.
RequeueComponent == queue' = queue \cup {ltenant} /\ EndComponent

\* The pass goes on, with the certificate it read; after the last step it ends.
Advance(s, issue) ==
  /\ IF NextStep(s) = "idle"
       THEN EndComponent
       ELSE /\ kpc' = NextStep(s) /\ lsecret' = issue
            /\ UNCHANGED <<component, ltenant, lres>>
  /\ UNCHANGED queue

\* Mutant: a resource that is not found is reconciled all the same.
StartComponentUnchecked(t) ==
  /\ kpc = "idle"
  /\ t \in queue
  /\ queue' = queue \ {t}
  /\ kpc' = Plan(component)[1] /\ ltenant' = t /\ lres' = Cached(Resource(t))
  /\ UNCHANGED <<obj, current, budget, component, lsecret, secrets>>

\* The worker takes a request and reads the custom resource from the cache.
StartComponent(t) ==
  /\ kpc = "idle"
  /\ t \in queue
  /\ queue' = queue \ {t}
  /\ IF Cached(Resource(t)) = Absent
       THEN UNCHANGED <<kpc, ltenant, lres>>
       ELSE kpc' = Plan(component)[1] /\ ltenant' = t /\ lres' = Cached(Resource(t))
  /\ UNCHANGED <<obj, current, budget, component, lsecret, secrets>>

\* Mutant: a pass that misses a Secret ends without asking for a requeue.
FindSecretForgotten(r) ==
  /\ kpc = r
  /\ LET issue == secrets[lres.spec.tls[r]]
     IN  IF issue > 0
           THEN Advance(r, IF r = Embedded(component) THEN issue ELSE lsecret)
           ELSE EndComponent /\ UNCHANGED queue
  /\ UNCHANGED <<obj, current, budget, secrets>>

\* Mutant: a missing Secret is logged and the pass goes on.
FindSecretUnchecked(r) ==
  /\ kpc = r
  /\ Advance(r, lsecret)
  /\ UNCHANGED <<obj, current, budget, secrets>>

\* A Secret the pass needs is there, or it waits for it.
FindSecret(r) ==
  /\ kpc = r
  /\ LET issue == secrets[lres.spec.tls[r]]
     IN  IF issue > 0
           THEN Advance(r, IF r = Embedded(component) THEN issue ELSE lsecret)
           ELSE RequeueComponent
  /\ UNCHANGED <<obj, current, budget, secrets>>

\* Mutant: the controller reference is forgotten.
AfterUnowned(o) ==
  LET name == Child(component, o, ltenant)
      owner == IF Cached(name) = Absent THEN NoOwner ELSE Cached(name).owner
  IN  ComponentChildFor(component, o, ltenant, lres.spec, lsecret, owner)

\* The mutated child.  The controller reference is set before CreateOrPatch
\* reads the object, so it is kept by a creation only: an object that exists
\* stays its owner's.
After(o) ==
  LET name == Child(component, o, ltenant)
      owner == IF Cached(name) = Absent THEN [name |-> ltenant, uid |-> lres.uid]
                                        ELSE Cached(name).owner
  IN  ComponentChildFor(component, o, ltenant, lres.spec, lsecret, owner)

\* A Deployment's selector is immutable: the API server refuses the patch.
Forbidden(o) ==
  LET name == Child(component, o, ltenant) IN
  /\ o = "deployment"
  /\ Exists(name)
  /\ ~Refused(name)
  /\ Written(name, After(o)).selector # Store(name).selector

\* Overwriting the Deployment's whole spec drops what the API server had
\* defaulted in it, so its patch is always sent.
SendsChild(o) == o = "deployment" \/ Sends(Child(component, o, ltenant), After(o))

\* Mutant: a configuration that exists is left alone.
EnsureComponentChildOnce(o) ==
  /\ kpc = o
  /\ ~Forbidden(o)
  /\ IF SendsChild(o) /\ (o \in Configs(component) => Cached(Child(component, o, ltenant)) = Absent)
       THEN Write(Child(component, o, ltenant), After(o))
       ELSE UNCHANGED <<obj, current>>
  /\ Advance(o, 0)
  /\ UNCHANGED <<budget, secrets>>

EnsureComponentChild(o) ==
  /\ kpc = o
  /\ ~Forbidden(o)
  /\ IF SendsChild(o)
       THEN Write(Child(component, o, ltenant), After(o))
       ELSE UNCHANGED <<obj, current>>
  /\ Advance(o, 0)
  /\ UNCHANGED <<budget, secrets>>

\* The write is refused, or lost with its answer or without.
ChildFails(o) ==
  IF Forbidden(o) THEN UNCHANGED <<obj, current, budget>>
  ELSE SendsChild(o) /\ WriteFails(Child(component, o, ltenant), After(o))

\* Mutant: the error is logged and not returned.
FailComponentChildSwallowed(o) ==
  /\ kpc = o
  /\ ChildFails(o)
  /\ EndComponent
  /\ UNCHANGED <<queue, secrets>>

\* The error is returned.
FailComponentChild(o) ==
  /\ kpc = o
  /\ ChildFails(o)
  /\ RequeueComponent
  /\ UNCHANGED secrets

ComponentReconcile ==
  \/ \E t \in Tenants : StartComponent(t)
  \/ \E r \in Roles(component) : FindSecret(r)
  \/ \E o \in ComponentChildren(component) : EnsureComponentChild(o) \/ FailComponentChild(o)
==============================================================================
