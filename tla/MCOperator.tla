------------------------------ MODULE MCOperator ------------------------------
(* Small instances of Operator for TLC. *)
EXTENDS Operator

MCObjects == {"cp", "lb", "pki", "kas", "kcm", "ks", "svc-a", "svc-b"}
MCControllers == {"controlplane", "loadbalancer"}
MCLabelKeys == {"app.kubernetes.io/name", "app.kubernetes.io/instance"}
MCLabelValues == {"kube-apiserver", "mine"}

Mine == [k \in {"app.kubernetes.io/instance"} |-> "mine"]

First ==
  [version |-> 0, kas |-> 0, kcm |-> 0, ks |-> 0, name |-> "svc-a",
   selectors |-> NoLabels, labels |-> NoLabels]

Named == [k \in {"app.kubernetes.io/instance"} |-> "kube-apiserver"]

\* A ControlPlane, and one with another Service, which selects a label that
\* the user gives the API server's pods another value for.
MCSpecs ==
  {First, [First EXCEPT !.name = "svc-b", !.selectors = Mine, !.labels = Named]}

Everything == {"apply", "delete", "provision", "remove", "fault", "crash"}
==============================================================================
