------------------------------ MODULE Bootstrap ------------------------------
(***************************************************************************)
(* The Pki reconciler and one of the component reconcilers, from an empty  *)
(* namespace to a running component.  They never meet but in the Secrets:  *)
(* the component polls for those its pods need, cert-manager makes them    *)
(* once the Pki reconciler has asked for the certificates, and that waits  *)
(* for the control plane's address and for a Secret itself.                *)
(*                                                                         *)
(* The component's objects and queue are kept apart from the Pki's (kobj,  *)
(* kqueue): they are of other kinds, and the workers are others.           *)
(***************************************************************************)
EXTENDS Pki

CONSTANTS
  Tenants,        \* the names of the component's custom resources
  SecretOf,       \* certificate -> the name the user gave its Secret
  KubeSpecs, \* component -> the specs the ControlPlane reconciler may write
  MaxBehind       \* a bound on the stale caches and unsigned objects of
                  \* the Pki while its worker runs

KubeObjects ==
  {<<"spec", t>> : t \in Tenants}
    \cup ({"kubeconfig", "egress", "deployment"} \X (Tenants \cup {"shared"}))

SecretNames == {SecretOf[o] : o \in Certificates}

VARIABLES kobj, kqueue, kcurrent, component, kpc, ltenant, lres, lcert

kubeVars == <<kobj, kqueue, kcurrent, component, kpc, ltenant, lres, lcert>>
bootstrapVars == <<vars, kubeVars>>

\* The Secrets of the component are the ones of the Pki's certificates.
SecretsIssued ==
  [n \in SecretNames |-> issued[CHOOSE o \in Certificates : SecretOf[o] = n]]

K == INSTANCE KubeComponentReconciler WITH
       Objects <- KubeObjects, Controllers <- Tenants,
       obj <- kobj, queue <- kqueue, current <- kcurrent,
       lsecret <- lcert, secrets <- SecretsIssued

BootstrapInit == Init /\ K!ClusterInit /\ K!ComponentInit

-----------------------------------------------------------------------------
(* The Pki's side.                                                         *)

\* Objects cert-manager could sign, and caches that are behind.
Behind == Lag + Cardinality({o \in Issuers \cup Certificates : CanSign(o)})

PkiWorker == Behind <= MaxBehind /\ PkiReconcile /\ UNCHANGED kubeVars

Signer == CertManager /\ UNCHANGED kubeVars

PkiWatch(o) == Watch(o) /\ UNCHANGED kubeVars

SecretWatch == SeeAdminSecret /\ UNCHANGED kubeVars

\* The address of the control plane arrives, changes or goes.
Address(ip) == Lag <= MaxLag /\ ApplyPki(ip) /\ UNCHANGED kubeVars

-----------------------------------------------------------------------------
(* The component's side.                                                   *)

pkiSide == <<obj, queue, current, pkiVars>>

ComponentWorker == UNCHANGED pkiSide /\ K!ComponentReconcile

ComponentWatch(o) ==
  /\ UNCHANGED <<pkiSide, component, kpc, ltenant, lres, lcert>>
  /\ K!Deliver(o, [t \in Tenants |->
       IF t \in K!Requests(o, kobj[o][1]) \cup K!Requests(o, kobj[o][2]) THEN {o} ELSE {}])

\* The ControlPlane reconciler writes the custom resource.
Configure(t, spec) ==
  /\ UNCHANGED <<pkiSide, component, kpc, ltenant, lres, lcert>>
  /\ K!Interfere("configure", K!Resource(t), [spec |-> spec, uid |-> 0])

\* Both workers are of one process.
Restart ==
  /\ Crash
  /\ K!Relist([t \in Tenants |->
       {o \in K!ComponentObjects(component) : t \in K!Requests(o, K!Store(o))}])
  /\ K!EndComponent

BootstrapNext ==
  \/ PkiWorker
  \/ Signer
  \/ \E o \in PkiWatches : PkiWatch(o)
  \/ SecretWatch
  \/ \E ip \in Addresses : Address(ip)
  \/ ComponentWorker
  \/ \E o \in K!ComponentObjects(component) : ComponentWatch(o)
  \/ \E t \in Tenants : \E spec \in KubeSpecs[component] : Configure(t, spec)
  \/ Restart

\* The two workers run, cert-manager signs, the watches deliver.
BootstrapFairness ==
  /\ WF_bootstrapVars(PkiWorker)
  /\ WF_bootstrapVars(Signer)
  /\ \A o \in PkiWatches : WF_bootstrapVars(PkiWatch(o))
  /\ WF_bootstrapVars(SecretWatch)
  /\ WF_bootstrapVars(ComponentWorker)
  /\ \A o \in KubeObjects : WF_bootstrapVars(ComponentWatch(o))

BootstrapSpec == BootstrapInit /\ [][BootstrapNext]_bootstrapVars /\ BootstrapFairness

-----------------------------------------------------------------------------
(* Properties.                                                             *)

\* The component's Deployment is what its custom resource asks for.
Deployed(t) ==
  LET o == K!Child(component, "deployment", t) IN
  /\ K!Exists(K!Resource(t)) /\ K!Exists(o)
  /\ K!Store(o) = K!DeploymentFor(component, t, K!Store(K!Resource(t)).spec, K!Store(o).owner)

\* The waits of the two reconcilers and of cert-manager do not wait for each
\* other in a circle: a control plane whose load balancer gets an address is
\* served, with pods that find every Secret they mount, in whatever order the
\* custom resources appear and however often the operator dies.
Served ==
  \A t \in Tenants :
    <>[](/\ Exists("pki") /\ Store("pki").ip # NoIP
         /\ K!Exists(K!Resource(t)))
      => <>[](/\ Deployed(t)
              /\ \A n \in K!Store(K!Child(component, "deployment", t)).mounts :
                   SecretsIssued[n] > 0)

\* No API server is started before its certificate holds the address of the
\* control plane: its wait is for a Secret, not for the address, and it is the
\* Pki's own wait that lets the Secret appear no sooner.
ServedWithAddress ==
  \A t \in Tenants :
    component = "kube-apiserver" /\ K!Exists(K!Child(component, "deployment", t))
      => /\ Exists("kubeAPIServerCert")
         /\ Store("kubeAPIServerCert").signed \in Addresses \ {NoIP}

-----------------------------------------------------------------------------
(* The strengthening under which ServedWithAddress is preserved by every   *)
(* step of either side.                                                    *)

\* The Secret that the API server's pods serve with is the one of the Pki's
\* certificate, and of no other.
ServingSecret ==
  /\ \A o \in Certificates : SecretOf[o] = SecretOf["kubeAPIServerCert"] => o = "kubeAPIServerCert"
  /\ \A spec \in KubeSpecs["kube-apiserver"] : spec.tls["serving"] = SecretOf["kubeAPIServerCert"]

\* The certificate is never without an address, and once it was issued it is
\* there and was signed with one.
CertificateSigned ==
  /\ ~WithoutAddress
  /\ issued["kubeAPIServerCert"] > 0 =>
       /\ Exists("kubeAPIServerCert")
       /\ Store("kubeAPIServerCert").signed \in Addresses \ {NoIP}

\* A pass comes to the API server's Deployment past the Get of that Secret, and
\* nobody takes the certificate away again.
SecretFirst ==
  component = "kube-apiserver" =>
    /\ kpc \in {"service-accounts", "deployment"} => issued["kubeAPIServerCert"] > 0
    /\ \A t \in Tenants :
         K!Exists(K!Child(component, "deployment", t)) => issued["kubeAPIServerCert"] > 0

\* The resources the ControlPlane reconciler writes, in the API server, in the
\* cache and in a running pass.
KubeResources == [spec : KubeSpecs[component], uid : {0}]

ResourcesConfigured ==
  /\ component \in K!Components /\ DOMAIN kobj = KubeObjects
  /\ \A t \in Tenants : kobj[K!Resource(t)] \in Seq(KubeResources \cup {Absent})
  /\ kpc # "idle" => ltenant \in Tenants /\ lres \in KubeResources

BootstrapInductive ==
  Inductive /\ CertificateSigned /\ SecretFirst /\ ResourcesConfigured
==============================================================================
