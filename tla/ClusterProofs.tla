---------------------------- MODULE ClusterProofs ----------------------------
(***************************************************************************)
(* What the proofs about the reconcilers share: what writes and watch      *)
(* events do to a timeline, and what overlaying does to label maps, with   *)
(* the agreement of the load balancer's Service and the API server's pods. *)
(***************************************************************************)
EXTENDS Cluster, Labels, SequenceTheorems, TLAPS

-----------------------------------------------------------------------------
(* Timelines.                                                              *)

\* A timeline of versions of T.
Timeline(o, T) == obj[o] \in Seq(T) /\ obj[o] # <<>>

\* The last and the first version of a timeline are among its versions
\* (the API server's and the cache's copy of an object).
LEMMA TimelineEnds ==
  ASSUME NEW o, NEW T, Timeline(o, T)
  PROVE  /\ Store(o) \in T
         /\ Cached(o) \in T
         /\ Len(obj[o]) \in Nat \ {0}
         /\ Fresh(o) => Cached(o) = Store(o)
  BY DEF Timeline, Store, Cached, Fresh

\* A write keeps the timeline, makes v the server's version, and leaves the
\* cache up to date only if it changed nothing.
LEMMA CommitTimeline ==
  ASSUME NEW o \in DOMAIN obj, NEW T, Timeline(o, T), NEW v \in T, Commit(o, v)
  PROVE  /\ Timeline(o, T)'
         /\ Store(o)' = v
         /\ Cached(o)' = Cached(o)
         /\ Fresh(o)' => Fresh(o) /\ v = Store(o)
  <1>1. CASE v = Store(o)
    BY <1>1 DEF Commit, Timeline, Store, Cached, Fresh
  <1>2. CASE v # Store(o)
    <2>1. obj'[o] = Append(obj[o], v)
      BY <1>2 DEF Commit
    <2> QED BY <2>1 DEF Timeline, Store, Cached, Fresh
  <1> QED BY <1>1, <1>2

\* A write leaves every other object alone.
LEMMA CommitFrame ==
  ASSUME NEW o, NEW v, Commit(o, v)
  PROVE  /\ DOMAIN obj' = DOMAIN obj
         /\ \A p \in DOMAIN obj : p # o => obj'[p] = obj[p]
         /\ current' \subseteq current
  BY DEF Commit

\* A watch event moves the cache only.
LEMMA DeliverTimeline ==
  ASSUME NEW o \in DOMAIN obj, NEW T, NEW watched, Timeline(o, T), Deliver(o, watched)
  PROVE  /\ Timeline(o, T)'
         /\ Store(o)' = Store(o)
         /\ DOMAIN obj' = DOMAIN obj
         /\ \A p \in DOMAIN obj : p # o => obj'[p] = obj[p]
  <1>1. /\ obj'[o] = Tail(obj[o])
        /\ DOMAIN obj' = DOMAIN obj
        /\ \A p \in DOMAIN obj : p # o => obj'[p] = obj[p]
    BY DEF Deliver
  <1>2. Len(obj[o]) \in Nat \ {0}
    BY TimelineEnds
  <1>3. /\ Tail(obj[o]) \in Seq(T)
        /\ Len(Tail(obj[o])) = Len(obj[o]) - 1
        /\ \A i \in 1..Len(Tail(obj[o])) : Tail(obj[o])[i] = obj[o][i + 1]
    BY HeadTailProperties DEF Timeline
  <1>4. Len(obj[o]) > 1
    BY <1>2 DEF Deliver, Fresh
  <1>5. Tail(obj[o])[Len(Tail(obj[o]))] = obj[o][Len(obj[o])]
    BY <1>2, <1>3, <1>4
  <1>6. Tail(obj[o]) # <<>>
    <2>1. Len(Tail(obj[o])) # 0
      BY <1>2, <1>3, <1>4
    <2>2. Len(<<>>) = 0
      OBVIOUS
    <2> QED BY <2>1, <2>2
  <1> QED BY <1>1, <1>3, <1>5, <1>6 DEF Timeline, Store

\* After a restart every cache is up to date and no version has changed.
LEMMA RelistTimeline ==
  ASSUME NEW o \in DOMAIN obj, NEW T, NEW watched, Timeline(o, T), Relist(watched)
  PROVE  /\ Timeline(o, T)'
         /\ Store(o)' = Store(o)
         /\ DOMAIN obj' = DOMAIN obj
  <1>1. obj'[o] = <<Store(o)>> /\ DOMAIN obj' = DOMAIN obj
    BY DEF Relist
  <1>2. Store(o) \in T
    BY TimelineEnds
  <1> QED BY <1>1, <1>2 DEF Timeline, Store

-----------------------------------------------------------------------------
(* Labels.                                                                 *)

\* Overlaying label maps yields a label map.
LEMMA OverlayType ==
  ASSUME NEW a \in LabelMaps, NEW b \in LabelMaps
  PROVE  Overlay(a, b) \in LabelMaps
  <1>1. PICK A \in SUBSET LabelKeys : a \in [A -> LabelValues]
    BY DEF LabelMaps
  <1>2. PICK B \in SUBSET LabelKeys : b \in [B -> LabelValues]
    BY DEF LabelMaps
  <1>3. Overlay(a, b) \in [A \cup B -> LabelValues]
    BY <1>1, <1>2 DEF Overlay
  <1>4. A \cup B \in SUBSET LabelKeys
    OBVIOUS
  <1> QED BY <1>3, <1>4 DEF LabelMaps

\* The selector of the Service is a label map.
LEMMA ServiceSelectorType ==
  ASSUME NEW selectors \in LabelMaps
  PROVE  ServiceSelector(selectors) \in LabelMaps
  <1>1. [k \in {NameKey} |-> "kube-apiserver"] \in [{NameKey} -> LabelValues]
    BY LabelVocabulary
  <1>2. {NameKey} \in SUBSET LabelKeys
    BY LabelVocabulary DEF NameKey
  <1>3. [k \in {NameKey} |-> "kube-apiserver"] \in LabelMaps
    BY <1>1, <1>2 DEF LabelMaps
  <1> QED BY <1>3, OverlayType DEF ServiceSelector

\* So are the labels the KubeAPIServer's deployment is given.
LEMMA ApiServerLabelsType ==
  ASSUME NEW own \in LabelMaps, NEW selectors \in LabelMaps
  PROVE  ApiServerLabels(own, selectors) \in LabelMaps
  BY OverlayType DEF ApiServerLabels

\* The Service selects the API server's pods: whatever selectors the load
\* balancer is given and whatever labels the user asks for, unless the user
\* renames the component in the deployment's labels and not in the selectors.
\* (The label loops of the Loadbalancer and ControlPlane reconcilers, and
\* labels() in the deployment.)
THEOREM ServiceSelectsPods ==
  ASSUME NEW own \in LabelMaps, NEW selectors \in LabelMaps, NEW instance,
         NameKey \in DOMAIN own /\ NameKey \notin DOMAIN selectors
           => own[NameKey] = "kube-apiserver"
  PROVE  Selects(ServiceSelector(selectors),
                 labels("kube-apiserver", instance, ApiServerLabels(own, selectors)))
  <1> DEFINE selector  == ServiceSelector(selectors)
             given     == ApiServerLabels(own, selectors)
             podLabels == labels("kube-apiserver", instance, given)
  <1>1. DOMAIN selector = {NameKey} \cup DOMAIN selectors
    BY DEF ServiceSelector, Overlay
  <1>2. /\ DOMAIN given = DOMAIN own \cup DOMAIN selectors
        /\ DOMAIN podLabels = {NameKey, InstanceKey} \cup DOMAIN given
    BY DEF ApiServerLabels, labels, Overlay
  <1>3. ASSUME NEW k \in DOMAIN selectors
        PROVE  podLabels[k] = selector[k]
    <2>1. selector[k] = selectors[k]
      BY <1>3 DEF ServiceSelector, Overlay
    <2>2. given[k] = selectors[k]
      BY <1>3 DEF ApiServerLabels, Overlay
    <2>3. podLabels[k] = given[k]
      BY <1>2, <1>3 DEF labels, Overlay
    <2> QED BY <2>1, <2>2, <2>3
  <1>4. ASSUME NameKey \notin DOMAIN selectors
        PROVE  podLabels[NameKey] = selector[NameKey]
    <2>1. selector[NameKey] = "kube-apiserver"
      BY <1>4 DEF ServiceSelector, Overlay
    <2>2. NameKey \in DOMAIN given => given[NameKey] = "kube-apiserver"
      BY <1>2, <1>4 DEF ApiServerLabels, Overlay
    <2>3. podLabels[NameKey] = "kube-apiserver"
      BY <2>2 DEF labels, Overlay
    <2> QED BY <2>1, <2>3
  <1> QED BY <1>1, <1>2, <1>3, <1>4 DEF Selects
==============================================================================
