-------------------------- MODULE LoadbalancerProofs --------------------------
(***************************************************************************)
(* The Service and the address of a Loadbalancer at rest, proved for every *)
(* set of names, labels and addresses and any number of disturbances.      *)
(***************************************************************************)
EXTENDS Loadbalancer, ReconcilerProofs

-----------------------------------------------------------------------------
(* The steps.                                                              *)

\* The environment writes typed versions, or restarts the manager.
LEMMA EnvironmentWrites ==
  ASSUME TypeOK, Environment
  PROVE  \/ Crash
         \/ /\ \E kind : \E o \in LoadbalancerWatches : \E v \in KindOf(o) \cup {Absent} :
                 Interfere(kind, o, v)
            /\ UNCHANGED loadbalancerVars
  <1> USE LoadbalancerNames
  <1> DEFINE Interfered == \E kind : \E o \in LoadbalancerWatches :
                             \E v \in KindOf(o) \cup {Absent} : Interfere(kind, o, v)
  <1>0. ASSUME NEW o \in LoadbalancerWatches, Exists(o) PROVE Store(o) \in KindOf(o)
    BY <1>0, TypedEnds DEF Exists, TypeOK
  <1>1. ASSUME NEW spec \in Specs, ApplyLoadbalancer(spec)
        PROVE  Interfered /\ UNCHANGED loadbalancerVars
    <2> DEFINE v == [name |-> spec.name, selectors |-> spec.selectors,
                     ip |-> IF Exists("lb") THEN Store("lb").ip ELSE NoIP]
    <2>1. v \in Loadbalancers
      BY <1>0, SpecsAreLoadbalancerSpecs, ResourceVocabulary DEF Loadbalancers
    <2> QED BY <1>1, <2>1 DEF ApplyLoadbalancer
  <1>2. CASE RemoveLoadbalancer
    BY <1>2 DEF RemoveLoadbalancer
  <1>3. ASSUME NEW ip \in Addresses, EditStatus(ip)
        PROVE  Interfered /\ UNCHANGED loadbalancerVars
    <2>1. Store("lb") \in Loadbalancers
      BY <1>0, <1>3 DEF EditStatus
    <2>2. [Store("lb") EXCEPT !.ip = ip] \in Loadbalancers
      BY <2>1 DEF Loadbalancers
    <2> QED BY <1>3, <2>2 DEF EditStatus
  <1>4. ASSUME NEW s \in ServiceNames, NEW ingress \in Addresses \cup {NoIngress},
               Provision(s, ingress)
        PROVE  Interfered /\ UNCHANGED loadbalancerVars
    <2>1. Store(s) \in Services
      BY <1>0, <1>4 DEF Provision
    <2>2. [Store(s) EXCEPT !.ingress = ingress] \in KindOf(s)
      BY <2>1 DEF Services
    <2> QED BY <1>4, <2>2 DEF Provision
  <1>5. ASSUME NEW s \in ServiceNames, NEW selector \in Foreign, EditService(s, selector)
        PROVE  Interfered /\ UNCHANGED loadbalancerVars
    <2>1. Store(s) \in Services
      BY <1>0, <1>5 DEF EditService
    <2>2. [Store(s) EXCEPT !.selector = selector] \in KindOf(s)
      BY <2>1, ForeignAreSelectors DEF Services
    <2> QED BY <1>5, <2>2 DEF EditService
  <1>6. ASSUME NEW s \in ServiceNames, RemoveService(s)
        PROVE  Interfered /\ UNCHANGED loadbalancerVars
    BY <1>6 DEF RemoveService
  <1> QED BY <1>1, <1>2, <1>3, <1>4, <1>5, <1>6 DEF Environment

\* The heart of the matter: every step keeps the types and the current copy,
\* and none leaves the controller with nothing to do and its objects out of
\* sync.
LEMMA InductiveStep ==
  ASSUME Inductive, [Next]_vars
  PROVE  Inductive'
  <1> USE LoadbalancerNames, LoadbalancerIsPresent
  <1> DEFINE S == LoadbalancerWatches
             Kept == ClusterTyped(S) /\ LoadbalancerLocals /\ CurrentCopy /\ LoadbalancerPass
  <1>0. Kept
    BY DEF Inductive, TypeOK, ClusterTyped
  <1>1. SUFFICES Kept'
    BY DEF Inductive, TypeOK, ClusterTyped
  <1>2. DOMAIN Watches \subseteq Controllers /\ "loadbalancer" \in DOMAIN Watches
        /\ Watches["loadbalancer"] = LoadbalancerWatches
    BY DEF Watches
  <1>3. UNCHANGED loadbalancerVars \/ EndLoadbalancer => LoadbalancerLocals'
    BY <1>0 DEF loadbalancerVars, EndLoadbalancer, EndPass, LoadbalancerLocals
  <1>4. CASE LoadbalancerReconcile
    BY <1>0, <1>4, LoadbalancerTypes, LoadbalancerCopies, LoadbalancerStep
  <1>5. ASSUME NEW o \in S, Watch(o) PROVE Kept'
    BY <1>0, <1>2, <1>3, <1>5, WatchTyped, LoadbalancerTold DEF Watch
  <1>6. CASE PeriodicResync
    BY <1>0, <1>2, <1>3, <1>6, WatchTyped, LoadbalancerTold DEF PeriodicResync
  <1>7. CASE Crash
    BY <1>0, <1>2, <1>3, <1>7, WatchTyped, LoadbalancerTold DEF Crash
  <1>8. ASSUME NEW kind, NEW o \in S, NEW v \in KindOf(o) \cup {Absent},
               Interfere(kind, o, v), UNCHANGED loadbalancerVars
        PROVE  Kept'
    <2>1. Writes(S) /\ queue' = queue /\ ClusterTyped(S)'
      BY <1>0, <1>8, InterfereTyped
    <2> QED BY <1>0, <1>3, <1>8, <2>1, LoadbalancerAmongOthers
  <1>9. CASE UNCHANGED vars
    <2>1. Writes(S) /\ queue' = queue /\ budget' = budget /\ UNCHANGED loadbalancerVars
      BY <1>9 DEF vars, clusterVars, Writes
    <2>2. ClusterTyped(S)'
      BY <1>0, <2>1, WritesTyped DEF ClusterTyped
    <2> QED BY <1>0, <1>3, <2>1, <2>2, LoadbalancerAmongOthers
  <1>10. TypeOK
    BY DEF Inductive
  <1> QED BY <1>4, <1>5, <1>6, <1>7, <1>8, <1>9, <1>10, EnvironmentWrites DEF Next

-----------------------------------------------------------------------------
(* The theorems.                                                           *)

\* Initially nothing exists and no controller runs.
LEMMA InductiveInit == Init => Inductive
  <1> SUFFICES ASSUME Init PROVE Inductive
    OBVIOUS
  <1> USE LoadbalancerIsPresent, LoadbalancerNames
  <1>1. /\ ClusterTyped(LoadbalancerWatches)
        /\ \A o \in LoadbalancerWatches : ~Exists(o) /\ Fresh(o)
    BY ClusterInitTyped DEF Init
  <1>2. TypeOK
    BY <1>1 DEF Init, LoadbalancerInit, TypeOK, ClusterTyped, LoadbalancerLocals
  <1>3. CurrentCopy /\ LoadbalancerPass
    BY <1>1 DEF Init, LoadbalancerInit, CurrentCopy, LoadbalancerPass
  <1> QED BY <1>2, <1>3 DEF Inductive

\* The strengthening holds in every reachable state.
THEOREM InductiveInvariance == Spec => []Inductive
  BY InductiveInit, InductiveStep, PTL DEF Spec

\* Types: timelines hold versions of their kinds, and a pass holds the copies
\* its next call needs.
THEOREM TypeCorrect == Spec => []TypeOK
  <1>1. Inductive => TypeOK
    BY DEF Inductive
  <1> QED BY InductiveInvariance, <1>1, PTL

\* A Loadbalancer at rest has its Service, with the selector it asks for,
\* even if status updates are lost.
THEOREM ServiceSafety == Spec => []SettledService
  <1>1. Inductive => SettledService
    BY DEF Inductive, LoadbalancerPass, SettledService, Settled
  <1> QED BY InductiveInvariance, <1>1, PTL

\* A Loadbalancer at rest publishes its Service's address, unless the last
\* pass's status update failed for another reason than a conflict: dropping
\* the conflicts is sound, dropping every error is not.
THEOREM AddressSafety == Spec => []SettledAddress
  <1>1. Inductive => SettledAddress
    BY DEF Inductive, LoadbalancerPass, SettledAddress, Settled
  <1> QED BY InductiveInvariance, <1>1, PTL

\* The Loadbalancer reconciler implements the level-triggered controller for
\* the Service and, while no update of it is lost, the published address.
THEOREM ImplementsLevel == Spec => Level!Spec
  <1> DEFINE due   == ~Settled
             right == Exists("lb") => ServiceInSync /\ (lost \/ AddressInSync)
  <1>1. Init => Level!Init
    <2> SUFFICES ASSUME Init PROVE Level!Init
      OBVIOUS
    <2>1. \A o \in LoadbalancerWatches : obj[o] = <<Absent>> /\ Store(o) = Absent
      BY LoadbalancerIsPresent DEF Init, ClusterInit, Store
    <2>2. ~due /\ right
      BY <2>1, LoadbalancerNames
         DEF Init, ClusterInit, LoadbalancerInit, Settled, LoadbalancerQuiet, Fresh, Exists
    <2> QED BY <2>2 DEF Level!Init
  <1>2. Inductive => (due \/ right)
    BY DEF Inductive, LoadbalancerPass, Settled
  <1>3. Inductive /\ Inductive' /\ [Next]_vars => [Level!Next]_(Level!levelVars)
    <2> SUFFICES ASSUME Inductive, Inductive'
                 PROVE  Level!Next \/ UNCHANGED Level!levelVars
      OBVIOUS
    <2>1. due' \/ right'
      BY DEF Inductive, LoadbalancerPass, Settled
    <2>2. due \/ right
      BY <1>2
    <2>3. due \in BOOLEAN /\ right \in BOOLEAN /\ due' \in BOOLEAN /\ right' \in BOOLEAN
      OBVIOUS
    <2> QED BY <2>1, <2>2, <2>3
            DEF Level!Next, Level!Disturb, Level!Work, Level!Finish, Level!levelVars
  <1> QED BY <1>1, <1>3, InductiveInvariance, PTL DEF Spec, Level!Spec
==============================================================================
