--------------------------- MODULE MCKubeComponent ---------------------------
(* Small instances of KubeComponent for TLC. *)
EXTENDS KubeComponent

MCObjects == UNION {ComponentObjects(c) : c \in Components}
MCControllers == Tenants
MCLabelKeys == {"app.kubernetes.io/name", "app.kubernetes.io/instance"}
MCLabelValues ==
  {"kube-apiserver", "kube-controller-manager", "kube-scheduler",
   "client-a", "client-b", "mine"}

Mine == [k \in {"app.kubernetes.io/instance"} |-> "mine"]

\* The names of config/samples: a Secret is called after its certificate.
Usual(c) == [r \in Roles(c) |-> IF r = "serving" THEN c ELSE r]

\* The certificate of client-b's component has a name of its own.
NamesOf(c, t) ==
  [r \in Roles(c) |->
     IF t = "client-b" /\ r = Embedded(c) THEN "client-b" ELSE Usual(c)[r]]

Release(c, v) == [version |-> v, labels |-> NoLabels, tls |-> Usual(c)]

\* Two releases.
Releases ==
  [c \in Components |-> [t \in Tenants |-> {Release(c, 1), Release(c, 2)}]]

\* Two releases and the second one relabelled.
Relabelled ==
  [c \in Components |->
     [t \in Tenants |->
        {Release(c, 1), Release(c, 2), [Release(c, 2) EXCEPT !.labels = Mine]}]]

\* Each tenant has a release, and a Secret, of its own.
Apart ==
  [c \in Components |->
     [t \in Tenants |->
        {[Release(c, IF t = "client-b" THEN 2 ELSE 1) EXCEPT !.tls = NamesOf(c, t)]}]]

MCSecretNames ==
  {"konnectivity", "ca", "service-accounts", "kube-apiserver",
   "kube-controller-manager", "kube-scheduler", "client-b"}

Names ==
  [c \in Components |-> {NamesOf(c, t)[r] : r \in Roles(c), t \in Tenants}
                        \cup (IF c = "kube-controller-manager" THEN {c} ELSE {})]

NoNames == [c \in Components |-> {}]

\* An edit of the fields the controller writes.
MCForeign ==
  [c \in Components |->
     [o \in ComponentChildren(c) |->
        IF o = "deployment" THEN {[version |-> 2, mounts |-> {}]}
                            ELSE {[from |-> "client-b"]}]]

Everything ==
  {"apply", "relabel", "delete", "drift", "remove", "renew", "fault", "crash"}
Edits == {"apply", "relabel"}
Neighbours == {"apply", "delete", "remove"}
==============================================================================
