------------------------------ MODULE Resources ------------------------------
(***************************************************************************)
(* The custom resources of the operator (api/v1alpha1), cut down to the    *)
(* fields the reconcilers compute with, and the Service they create.       *)
(***************************************************************************)
EXTENDS Cluster, Labels

CONSTANTS
  Versions,     \* release numbers; 0 is the empty string
  Addresses,    \* IP addresses, NoIP among them
  NoIP,         \* the empty string
  NoIngress,    \* a Service whose load balancer has not been provisioned
  ServiceNames  \* names a user may give the load balancer's Service

ASSUME ResourceVocabulary ==
  /\ Versions \subseteq Nat
  /\ 0 \in Versions
  /\ NoIP \in Addresses
  /\ NoIngress \notin Addresses

\* The ControlPlane: its version, each component's own version (0 when the
\* user gave none), the load balancer's sub-spec and the labels of the
\* API server's deployment.
ControlPlanes ==
  [version : Versions, kas : Versions, kcm : Versions, ks : Versions,
   name : ServiceNames, selectors : LabelMaps, labels : LabelMaps]

\* name and selectors are the spec, ip is the status.
Loadbalancers == [name : ServiceNames, selectors : LabelMaps, ip : Addresses]

Pkis == [ip : Addresses]

KubeAPIServers == [version : Versions, labels : LabelMaps, address : Addresses]

KubeControllerManagers == [version : Versions]

KubeSchedulers == [version : Versions]

\* A corev1.Service: its selector and the first ingress of its status, NoIP
\* when the provider publishes a host name instead of an address.
Services == [selector : LabelMaps, ingress : Addresses \cup {NoIngress}]

\* The values an existing object can have.
KindOf(o) ==
  CASE o = "cp"  -> ControlPlanes
    [] o = "lb"  -> Loadbalancers
    [] o = "pki" -> Pkis
    [] o = "kas" -> KubeAPIServers
    [] o = "kcm" -> KubeControllerManagers
    [] o = "ks"  -> KubeSchedulers
    [] o \in ServiceNames -> Services

ASSUME ServicesAreNamedApart ==
  ServiceNames \cap {"cp", "lb", "pki", "kas", "kcm", "ks"} = {}

ASSUME AbsentIsNoObject ==
  \A o \in {"cp", "lb", "pki", "kas", "kcm", "ks"} \cup ServiceNames :
    Absent \notin KindOf(o)

\* The timelines of the objects of S hold versions of their kinds.
TypedTimelines(S) ==
  /\ DOMAIN obj = Objects
  /\ \A o \in S : obj[o] \in Seq(KindOf(o) \cup {Absent}) /\ obj[o] # <<>>
==============================================================================
