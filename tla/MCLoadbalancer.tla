---------------------------- MODULE MCLoadbalancer ----------------------------
(* Small instances of Loadbalancer for TLC. *)
EXTENDS Loadbalancer

MCObjects == {"lb", "svc-a", "svc-b"}
MCControllers == {"loadbalancer"}
MCLabelKeys == {"app.kubernetes.io/name", "app.kubernetes.io/instance"}
MCLabelValues == {"kube-apiserver", "mine"}

Mine == [k \in {"app.kubernetes.io/instance"} |-> "mine"]

\* The first spec, a renamed Service, another selector.
MCSpecs ==
  {[name |-> "svc-a", selectors |-> NoLabels],
   [name |-> "svc-b", selectors |-> NoLabels],
   [name |-> "svc-a", selectors |-> Mine]}

MCForeign == {NoLabels}

Everything ==
  {"apply", "delete", "drift", "provision", "remove", "fault", "statusFault", "crash"}
StatusFaults == {"apply", "provision", "statusFault"}
==============================================================================
