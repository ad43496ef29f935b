# kubeception-operator in TLA+

A model of the operator in `src/`: six reconcilers of one manager process that
turn a `ControlPlane` resource into a load balancer, a PKI and the three
components of a Kubernetes control plane. The modules are translated from the
Go sources; file and line of every definition are in `PROJECT.json` (`map`).
TLC checks the models on small instances; TLAPS proves every safety property
that the runs check, and the safety part of the refinements, for every instance.

## The system

| Part | Source | State | Operations |
|---|---|---|---|
| ControlPlane reconciler | `internal/controller/controlplane_controller.go` | none of its own; reads the ControlPlane, writes Loadbalancer, Pki, KubeAPIServer, KubeControllerManager, KubeScheduler | `Reconcile`: five `CreateOrPatch` in that order, returning at the first error |
| Loadbalancer reconciler | `loadbalancer_controller.go` | status of the Loadbalancer | `Reconcile`: `CreateOrPatch` of the Service, then `Status().Update` with its address |
| Pki reconciler | `pki_controller.go` | none | `Reconcile`: two issuers, seven certificates, one kubeconfig; two waits; errors ignored |
| KubeAPIServer reconciler | `kubeapiserver_controller.go` | none | `Reconcile`: konnectivity kubeconfig, egress ConfigMap, Deployment; four waits for Secrets |
| KubeControllerManager reconciler | `kubecontrollermanager_controller.go` | none | `Reconcile`: three waits, kubeconfig, Deployment |
| KubeScheduler reconciler | `kubescheduler_controller.go` | none | `Reconcile`: one wait, configuration, Deployment |
| Helpers | `utils.go` | none | `labels`, `CoaleseString`, `CreateOrPatch`, `GenerateKubeconfigFromSecret` |
| Manager | `cmd/main.go` | caches, watches, work queues | starts the six controllers |

The reconcilers never call each other. They interact through API objects:

* the ControlPlane reconciler writes the specs the other five reconcile;
* the Loadbalancer reconciler writes the address into the Loadbalancer's
  status, whose event wakes the ControlPlane reconciler, which copies it into
  Pki and KubeAPIServer;
* cert-manager makes a Secret for each certificate of the Pki and renews it,
  and the three component reconcilers poll for these Secrets every three
  seconds;
* the cloud provider gives the Service an address; the garbage collector
  removes what has lost its owner;
* ControlPlanes of one namespace write the same objects where the code names
  them by constants (the Deployments `kube-controller-manager` and
  `kube-scheduler`, their configurations, the ConfigMap `konnectivity-egress`).

What is hard: every decision is taken on a cached copy that may be behind; a
pass consists of several requests, each of which may be lost or refused, with
anything happening between them; the manager may die between any two; what was
not written is made up for only if an event, a requeue or, hours later, the
informers' resync wakes the controller again. So the properties that make each
part correct are of one kind: *when nothing is queued and no event is on its
way, the world is as the spec asks*, together with the orders in which
intermediate states may appear. The hazards are listed, at their lines, in
`PROJECT.json`.

## The modules

| Module | What it models |
|---|---|
| `Cluster` | API server, informer caches and their resync, work queues, `CreateOrPatch`, lost requests, crashes |
| `Labels` | the label maps, and the selector of the Service |
| `Resources` | the custom resources, cut down to what the reconcilers compute with |
| `ControlPlaneReconciler`, `LoadbalancerReconciler`, `PkiReconciler` | one reconciler each: state of a pass, one action per API call |
| `KubeComponentReconciler` | the three component reconcilers, which have one shape; `component`, chosen in `Init`, selects the plan of a pass, the watches and the Deployment; several tenants share one worker |
| `ControlPlane`, `Loadbalancer`, `Pki`, `KubeComponent` | a reconciler closed with its environment, and its properties |
| `Operator` | ControlPlane and Loadbalancer reconcilers together, with garbage collector and cloud provider |
| `Bootstrap` | Pki reconciler and a component reconciler together, which meet in cert-manager's Secrets |
| `LevelTriggered` | the abstract specification: what a level-triggered controller promises |
| `MC*` | instances for TLC |
| `ClusterProofs`, `ReconcilerProofs` | lemmas on timelines, writes and labels; what a pass of the ControlPlane and of the Loadbalancer reconciler keeps, whoever else is about |
| `ControlPlaneProofs`, `LoadbalancerProofs`, `OperatorProofs`, `PkiProofs`, `KubeComponentProofs`, `BootstrapProofs` | the theorems about each closed module |

### The cluster

`obj[o]` is the timeline of an object: its versions from the one the cache
holds (the head) to the one the API server holds (the last). A write appends,
a watch event drops the head and queues the requests of the controllers that
watch the object. One cached version is enough because the six controllers are
in one process and share one informer per kind; the queue is a set because a
work queue holds a request once. A write that changes nothing leaves the
resourceVersion alone and causes no event.

`CreateOrPatch` reads the cache, creates the object if the cache has none
(refused with AlreadyExists if the server has one), sends a merge patch of the
changed fields without a resourceVersion otherwise (refused with NotFound if
the server has none), and sends nothing if nothing changed. `current` is the
optimistic lock of `Status().Update`: the objects whose version, as read by the
pass, is still the server's. `WriteFails` is an error of the call: refused,
lost, or carried out with the answer lost.

`budget` bounds the disturbances of the environment (`MaxDisturbances`), by
kind (`Disturbances`); everything the operator does is unbounded.

### The reconcilers

Each pass has a program counter named after the call it makes next (`cppc`,
`lbpc`, `pkipc`, `kpc`) and copies of what it has read (`lcp`, `llb`, `lblb`,
`lbsvc`, `lpki`, `lres`, `lsecret`). `Start...` takes a request and reads the cache,
`Ensure...` is a call that succeeds, `Fail...` one that returns an error; an
early return is `End...`, a requeue puts the request back into `queue`. A
controller has one worker, hence one pass at a time; only the component
reconcilers have several requests, one per tenant.
Two calls always send a request: the Service's and the Deployment's, whose
whole spec is overwritten, which drops what the API server had defaulted in it.

`lost` of the Loadbalancer is not the program's but a history variable: the
last pass ended with a status update that failed otherwise than by a conflict.

### Owners and tenants

In `KubeComponent` an object is `<<kind, tenant>>`, or `<<kind, "shared">>`
where the code fixes the name (`Child`). A child carries its controller
reference, name and uid. The reconcilers set the reference before
`CreateOrPatch` reads the object, and reading overwrites it, so only a creation
keeps it (`After`): what exists already is written but never adopted. An event
of a child is turned into a request of the name in its reference (`Requests`);
the garbage collector goes by the uid (`Garbage`). `NewUids` holds the smallest
number that no version, pass or reference holds any more: uids are only ever
compared, and a finite state space needs them to be used again.

### Resync

controller-runtime hands every cached object to its controllers once more every
ten hours. `PeriodicResync` does so to a controller at rest. It is an action of
every closed module but the two compositions; no fairness is assumed of it.
Where it is what a property relies on, it is the property's premise
(`SchedulerCatchesUp`, `AddressCatchesUp`, `ConfigsCatchUp`,
`AdminKubeconfigRenewed`). The invariants at rest say what holds without
waiting for it, and the liveness properties without that premise (`RollsOut`,
`ImplementsLevelTriggered`, ...) hold even if it never comes.

### What is abstracted

* One namespace, and but for the component reconcilers one ControlPlane in it.
  Sub-specs that are copied unchanged
  (certificate names, replicas, etcd servers, ports) are left out; a map
  (labels, selectors) is one value in a merge patch.
* A kubeconfig or certificate is what it is made from: an address, or the name
  of a Secret and how often that had been issued. The text of pod templates is
  their version and what they mount.
* A Secret of cert-manager is the number of times it was issued (0: none);
  Secrets are never removed. A lag of their cache is a later arrival, except
  for the administrator's certificate, whose Secret the `Pki` model lets reach
  the cache before or after the Certificate's event (`adminSeen`), for there
  the order matters.
* The children are created by the operator: no one else makes an object of
  their name without an owner. The API server's deletion is immediate: no
  finalizers.
* In `Operator` the garbage collector goes by the owner's existence; uids, and
  an owner that is deleted and made again, are in `KubeComponent`.

## What is checked

`due` and `right` of `LevelTriggered` are, for a reconciler, "a request is
queued or running or an event that will queue one is on its way" and "the
objects it owns are what the spec asks for".

| Run | Bounds | What it shows |
|---|---|---|
| `cp_sync` | 3 disturbances of any kind, 4 specs, versions 1 and 2 | `SettledInSync`: at rest the owned children are in sync; `SchedulerCatchesUp`: the one that is not owned follows at the resync |
| `cp_upgrade` | 4 disturbances: upgrades, addresses, lost requests, crashes | `ApiServerUpgradesFirst`; implements `LevelTriggered`, liveness included; deletion is in `op_sync` |
| `lb_sync` | 4 of any kind, lost status updates included, 3 specs, 2 Services, 2 addresses | `SettledService`; `SettledAddress`: dropping conflicts is harmless; `AddressCatchesUp`: so is, in the end, dropping other errors; implements `LevelTriggered` |
| `op_sync` | 2 of any kind, 2 specs that differ in Service and labels | `SettledEndToEnd`: the address and the labels reach the API server (a rename and then an address for the new Service are three disturbances: `lb_sync` and the theorem `EndToEndSafety` cover them); implements `LevelTriggered`, so a deleted ControlPlane leaves nothing |
| `pki_sync` | 2 of any kind but lost requests, renewal included; users edit 2 of the 10 children | `SettledPki`, although errors are ignored; `EverythingSigned`: no circular wait; `AddressBeforeCertificate`; `AdminKubeconfigRenewed` |
| `kube_sync` | 3 of any kind, 2 releases, each of the three components | `SettledComponent`; `PodsHaveSecrets`; `RollsOut`; `ConfigsCatchUp`; `NothingLeft` |
| `kube_tenants` | 2 tenants, 3 disturbances: resources made, deleted, children removed | `SettledOwner`: who made a shared object has it its way at rest; `HandedOver`: the other gets the Deployment in the end |
| `bootstrap` | 3 disturbances: address, resource, crash; each of the three components | `Served`: nobody waits for anybody for ever; `ServedWithAddress` |

Each property is broken by a mutant of the code (`PROJECT.json`, `mutants`;
defined beside the definition it replaces): a forgotten `Owns`, a swallowed
error, a swapped order, a missing check.

Three disturbances are enough for the cases that matter: create, change during
the pass over the first version, and lose the request or the manager; or
create, delete and make again; or two tenants, one of whom leaves. In `op_sync`
and `pki_sync`, where two are affordable, the change meets the first pass, and
the faults meet the creation. `MaxLag` in `Operator`, `Pki` and `KubeComponent`
bounds how many caches are behind when the garbage collector, cert-manager or
(in `Pki`) the user acts; the operator's own steps are not bounded by it. With
1 (`Operator`, `kube_sync`) and 0 (`Pki`, `kube_tenants`) the operator still
works on stale caches, because the action itself makes one. In `KubeComponent`
it also makes the state space finite: a tenant that patches what the collector
removes could otherwise outrun the watch for ever. `MaxBehind` in `Bootstrap`
lets the Pki's worker run while one cache is stale or one object not yet
signed: there the question is how two reconcilers meet, and the slow
cert-manager is in `pki_sync`. `Tampered` in `Pki` names the children users may
edit or remove: an issuer that certificates wait for and the certificate that
holds the address; the others are handled like one of them. Deadlock is not
checked: an operator with nothing to do stops.

### Fairness

Weak fairness of each worker (controller-runtime runs a worker while its queue
is not empty; a delayed request becomes due), of each watch, of the garbage
collector and of cert-manager. With several tenants, strong fairness of taking
each one's request: a work queue is first in, first out, so no tenant waits
behind another's retries for ever. Nothing is assumed of users, of the cloud
provider, or of lost requests, which are bounded in number.

### What does not hold, and is not meant to

An API server that has been given an address may be given the empty one again
for a while. The answer to the patch of the Loadbalancer can be newer than the
cache, so one pass may see the address before the watch brings it; the next
pass reads the cache, finds nothing to patch, and copies the older status. It
takes an edit of the Loadbalancer's own spec. `SettledInSync` and
`ImplementsLevelTriggered` show that the address comes back.

A resource that shares its namespace need not be in sync at rest: an object
that another tenant made first is the other's to be told about, so after both
have written it the last writer may be either. That is why `SettledComponent`
is checked for a namespace's only tenant, and `SettledOwner`, for several,
speaks of the owner alone. The second tenant's Deployment, where the name is
fixed, is never made while the first one's exists (its patch is refused for the
immutable selector); it retries with back-off, which is what `HandedOver`
relies on. The konnectivity kubeconfig of an earlier incarnation is collected
and then made anew at the resync only (`ConfigsCatchUp`).

`PodsHaveSecrets` is checked with the names of `config/samples` only. The controller
manager mounts the Secrets `kube-controller-manager` and `service-accounts`
whatever the spec names (`kubecontrollermanager_controller.go:142`), so with
other names its pods may mount one that does not exist. No run has such names;
the theorem `MountedSecrets` states what they have to satisfy.

### What is violated

| Run | What happens |
|---|---|
| `cp_scheduler` | The KubeScheduler is not among the `Owns` (`controlplane_controller.go:204`). A ControlPlane is created, edited to another version and back while the first passes run: the pass that finds the wanted version in a stale cached copy sends no patch, and no later event corrects it |
| `lb_fault` | `PublishedAddress`: a status update that is lost (not one that conflicts) is neither returned as an error nor requeued, although the log says so (`loadbalancer_controller.go:109`) |
| `pki_fault` | `SecretsMade`: the Pki reconciler ignores the errors of its writes (`pki_controller.go:89`). The creation of konnectivity's certificate is lost in the pass that makes the others and again in the pass their events cause, which writes nothing else: the Secret that the repository's README lists is missing, with nothing queued, no event on its way and nothing for cert-manager to do until the resync. Two lost requests are needed: after one, the events of what the pass did write start another |
| `kube_relabel` | A change of labels changes the Deployment's immutable selector; from then on every patch is refused, releases included |

## What is proved

For every set of versions, addresses, names, labels, specs and tenants, and any
number of disturbances. The assumptions are the named `ASSUME`s of `Cluster`,
`Labels`, `Resources`, `KubeComponentReconciler` and the closed modules, which
say what kind of values the constants are, and the hypotheses in the table. Each run
satisfies the hypotheses of the theorems about its own properties.

| Theorem | Statement | Hypothesis |
|---|---|---|
| `ControlPlaneProofs!TypeCorrect`, `SyncSafety` | `[]TypeOK`, `[]SettledInSync` | |
| `ControlPlaneProofs!ImplementsLevel` | `Spec => Level!Spec` | |
| `ControlPlaneProofs!UpgradeSafety` | `[]ApiServerUpgradesFirst` | `OnlyUpgrades`: users only upgrade and leave the children alone |
| `LoadbalancerProofs!TypeCorrect`, `ServiceSafety`, `AddressSafety`, `ImplementsLevel` | `[]TypeOK`, `[]SettledService`, `[]SettledAddress`, `Spec => Level!Spec` | |
| `OperatorProofs!TypeCorrect` | `[]TypeOK` | |
| `OperatorProofs!EndToEndSafety`, `ImplementsLevel` | `[]SettledEndToEnd`, `Spec => Level!Spec` | status updates fail by conflicts only |
| `PkiProofs!TypeCorrect`, `AddressFirst` | `[]TypeOK`, `AddressBeforeCertificate` | |
| `PkiProofs!SettledSafety` | `[]SettledPki` | no request is lost |
| `KubeComponentProofs!TypeCorrect`, `OwnerSafety` | `[]TypeOK`, `[]SettledOwner` | |
| `KubeComponentProofs!ComponentSafety` | `[]SettledComponent` | one tenant |
| `KubeComponentProofs!MountedSecrets` | `[]PodsHaveSecrets` | `OthersAreIssued`: Secrets that are mounted but never looked for are there |
| `BootstrapProofs!AddressServed` | `[]ServedWithAddress` | `ServingSecret`: the specs name the certificate's own Secret |
| `ClusterProofs!ServiceSelectsPods` | the Service selects the API server's pods | the user does not rename the component in the labels alone |

No hypothesis is there for the proof's sake; without it the property is false
of the code. A lost status update is neither returned nor requeued (`lb_fault`
shows it), a lost write of the Pki reconciler is ignored (`pki_fault`), a
version that is lowered reaches the API server before the component that still
runs the higher one, a tenant that shares a namespace is in sync only as far as
it is the owner, the controller manager mounts two Secrets by fixed names, and
a spec is free to name another Secret than the one with the address.

### The arguments

**At rest.** `SettledInSync` and its like say something only of rest; to be
preserved they must say what a running pass has achieved. `ControlPlanePass`
does: while no request is queued and the caches of the watched objects are up to
date, the pass works on the server's versions and every child it has written is
in sync. Any interference makes a watched object's cache stale, so that
hypothesis becomes false and nothing is left to show; when the caches catch up
the request is queued, and it is taken off by a new pass only, with copies that
are then fresh. `LoadbalancerPass` and `PkiPass` are of the same kind. The
Loadbalancer needs `CurrentCopy` besides: a copy whose resourceVersion is
current is the server's version, so an update that is accepted overwrites
nothing, and one that conflicts has a writer whose event is on its way.

**Several controllers.** The lemmas on a pass are in `ReconcilerProofs` and
speak of the reconcilers' modules alone, not of a closed one: a step of the
reconciler keeps the invariant of its pass (`ControlPlaneStep`,
`LoadbalancerStep`), and so does every write of somebody else that leaves the
request queued (`ControlPlaneAmongOthers`, `LoadbalancerAmongOthers`), every
watch event and every restart (`...Told`). `ControlPlaneProofs` and
`LoadbalancerProofs` use them with users and the cloud provider as the others;
in `OperatorProofs` each reconciler is one of the other's others. What
`SettledEndToEnd` says is then the two passes' invariants read as a chain: spec
to Loadbalancer to Service, and address to status to Pki and API server
(`EndToEnd`, with `ServiceSelectsPods` for the labels).

**Order.** `ApiServerUpgradesFirst` is about the server's versions, but a pass
decides on cached ones. `UpgradeOrder` therefore says of every cached version
that the ControlPlane and the API server only rise (`Rising`), that a pass works
on nothing newer than the cache, that the API server is nowhere above what has
been asked for, and that it has reached it once the pass comes to the other two.
So a pass that finds the wanted version in the cache, and writes nothing, finds
it in the server too: the server's is at least the cached one and at most what
was asked for.

For the Pki, `AddressKnown`: a pass comes to the API server's certificate only
with an address; the certificate it writes is then the one it wants or, where
the cached copy already had the wanted address, keeps the server's
(`EnsuredChild`).

**Tenants.** In `KubeComponent` a controller is told about what it owns, and
about one object for several tenants. `TenantPass` says of each tenant and each
of the children it is `Responsible` for (it made it, or is alone): while the
tenant is not queued, and the caches of its resource and of that child are up to
date, the child is as it asks, unless its own running pass has yet to write it.
Rest is thus stated for one child and one tenant at a time, since the others may
keep each other busy for ever. The case that takes work is a write of another
tenant to a shared child: the event is turned into the owner's request, and the
owner is read from the versions the event is about, not from the one the writer
had cached. By `NoRepeats` these two differ, so one of them is there to
name an owner.

**Secrets.** `SecretsFound`: the Secrets whose Gets are behind a running pass
are there. With `Plan` the Deployment comes last, so all of them are; and a
patch only mounts what the pass wants or what was mounted before.

**Two reconcilers and cert-manager.** `ServedWithAddress` joins the two sides
of `Bootstrap`, which share no object. On the Pki's side `CertificateSigned`:
the certificate is never without an address, and once its Secret was issued it
is signed with one. On the component's side `SecretFirst`: a pass that is past
the Get of the serving Secret, and a Deployment that exists, have that Secret
issued. Nothing takes an issued Secret away, so each side's steps keep the
other's part.

### Only model-checked

Liveness, which is beyond the prover: `SchedulerCatchesUp`, `AddressCatchesUp`,
`EverythingSigned`, `AdminKubeconfigRenewed`, `RollsOut`, `ConfigsCatchUp`,
`NothingLeft`, `HandedOver`, `Served`, and the liveness part of
`ImplementsLevelTriggered` (`ImplementsLevel` proves its safety part, which
leaves out the fairness of `LevelTriggered`). Every invariant and every action
property of a passing run is proved.

## Not modelled

Renaming of the API server's Deployment (the old one stays until its owner
goes, like a renamed Service); adoption of objects that have no owner; the
contents of pod templates beyond version, selector and mounts, the endpoint in
the kubeconfigs of the components, and the sub-specs that are copied unchanged;
removal of Secrets; finalizers; leader election (the manifest runs one
replica), flags and probes of `main.go`; the generated deep copies, manifests
and scripts.

## Plan

1. Done: the cluster, the six reconcilers, each with its environment; owner
   references, tenants, renewal and resync; the compositions of ControlPlane
   with Loadbalancer and of Pki with each component; the theorems above, one for
   every invariant the runs check.
2. To prove: the other half of `Bootstrap`'s meeting, that no component's pods
   mount a Secret of the Pki that is not issued; that the children written by a
   pass come in the order of its plan.
3. To model, if a larger instance can be afforded: rename of the Service and
   deletion of the ControlPlane in one behaviour of `Operator`; the whole
   operator in one module.
