---------------------------- MODULE MCControlPlane ----------------------------
(* Small instances of ControlPlane for TLC. *)
EXTENDS ControlPlane

MCObjects == {"cp", "lb", "pki", "kas", "kcm", "ks"}
MCControllers == {"controlplane"}
MCVersions == {0, 1, 2}
MCLabelKeys == {"app.kubernetes.io/name", "app.kubernetes.io/instance"}
MCLabelValues == {"kube-apiserver"}

Pinned == [k \in {"app.kubernetes.io/name"} |-> "kube-apiserver"]

Plain(version) ==
  [version |-> version, kas |-> 0, kcm |-> 0, ks |-> 0, name |-> "svc-a",
   selectors |-> NoLabels, labels |-> NoLabels]

\* Two releases, nothing else: upgrades and rollbacks.
Releases == {Plain(1), Plain(2)}

\* An upgrade in which the Loadbalancer's spec changes, too.
Rollout == Releases \cup {[Plain(2) EXCEPT !.selectors = Pinned]}

\* Two releases, a component with a version of its own, and a selector the
\* API server's pods must carry.
Edits == Releases \cup {[Plain(1) EXCEPT !.kas = 2], [Plain(1) EXCEPT !.selectors = Pinned]}

\* An edit of each field the controller writes, one at a time.
MCForeign ==
  [lb  |-> {[name |-> "svc-a", selectors |-> Pinned, ip |-> NoIP]},
   pki |-> Pkis,
   kas |-> {[version |-> 1, labels |-> NoLabels, address |-> ip] : ip \in Addresses}
           \cup {[version |-> 2, labels |-> Pinned, address |-> NoIP]},
   kcm |-> {[version |-> v] : v \in {1, 2}},
   ks  |-> {[version |-> v] : v \in {1, 2}}]

UserEdits == {"apply", "rollback", "delete"}
Upgrades == {"apply", "address", "fault", "crash"}
Everything == UserEdits \cup {"address", "drift", "remove", "fault", "crash"}
OnlyEdits == {"apply", "rollback"}
==============================================================================
