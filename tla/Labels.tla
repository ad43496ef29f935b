------------------------------- MODULE Labels --------------------------------
(***************************************************************************)
(* The label maps of the operator: which labels the API server's pods get  *)
(* and which pods the load balancer's Service selects.                     *)
(***************************************************************************)
CONSTANTS
  LabelKeys,
  LabelValues

ASSUME LabelVocabulary ==
  /\ {"app.kubernetes.io/name", "app.kubernetes.io/instance"} \subseteq LabelKeys
  /\ "kube-apiserver" \in LabelValues

NameKey == "app.kubernetes.io/name"
InstanceKey == "app.kubernetes.io/instance"

LabelMaps == UNION {[D -> LabelValues] : D \in SUBSET LabelKeys}

NoLabels == [k \in {} |-> "kube-apiserver"]

\* for k, v := range over { base[k] = v }
Overlay(base, over) ==
  [k \in DOMAIN base \cup DOMAIN over |->
     IF k \in DOMAIN over THEN over[k] ELSE base[k]]

\* The name and instance labels of a component, overridden by the user's.
labels(component, instance, more) ==
  Overlay([k \in {NameKey, InstanceKey} |->
             IF k = NameKey THEN component ELSE instance], more)

\* The selector of the load balancer's Service.
ServiceSelector(selectors) ==
  Overlay([k \in {NameKey} |-> "kube-apiserver"], selectors)

\* The labels the ControlPlane gives the KubeAPIServer's deployment.
ApiServerLabels(own, selectors) == Overlay(own, selectors)

Selects(selector, podLabels) ==
  /\ DOMAIN selector \subseteq DOMAIN podLabels
  /\ \A k \in DOMAIN selector : podLabels[k] = selector[k]
==============================================================================
