------------------------------- MODULE PkiProofs -------------------------------
(***************************************************************************)
(* The Pki reconciler never asks for a certificate of the API server       *)
(* without an address, proved for every set of addresses, every set of     *)
(* children that users edit and any number of disturbances, lost requests  *)
(* included.                                                               *)
(***************************************************************************)
EXTENDS Pki, ClusterProofs

\* The versions an object of the Pki can have.
PkiVersions(o) == (IF o = "pki" THEN Pkis ELSE PkiObjects) \cup {Absent}

PkiTimelines ==
  DOMAIN obj = Objects /\ \A o \in PkiWatches : Timeline(o, PkiVersions(o))

\* The part of TypeOK that is not about the API objects.
PkiLocals ==
  /\ queue \subseteq Controllers
  /\ budget \in Nat
  /\ pkipc \in PkiSteps \cup {"idle"}
  /\ lpki \in IF pkipc = "idle" THEN {Absent} ELSE Pkis
  /\ lsecret \in Nat /\ adminSeen \in Nat
  /\ issued \in [Certificates -> Nat]

-----------------------------------------------------------------------------
(* The objects.                                                            *)

\* The names of the Pki's objects.
LEMMA PkiNames ==
  /\ PkiWatches \in SUBSET Objects
  /\ "pki" \in PkiWatches /\ "pki" \notin PkiChildren
  /\ PkiChildren \subseteq PkiWatches
  /\ Certificates \subseteq PkiChildren /\ Issuers \subseteq PkiChildren
  /\ {"adminCert", "kubeAPIServerCert"} \subseteq Certificates
  /\ PkiChildren \cup {"adminSecret"} = PkiSteps
  /\ "idle" \notin PkiSteps /\ "adminSecret" \notin PkiChildren
  BY PkiIsPresent
     DEF PkiWatches, PkiChildren, Certificates, Issuers, PkiSteps, NextPkiStep

\* The two halves of TypeOK.
LEMMA PkiTypes == TypeOK <=> PkiTimelines /\ PkiLocals
  BY PkiNames
     DEF TypeOK, PkiTimelines, PkiLocals, Timeline, PkiVersions, PkiWatches

\* The same after a step.
LEMMA PkiTypesNext ==
  ASSUME PkiTimelines', PkiLocals'
  PROVE  TypeOK'
  BY PkiNames
     DEF TypeOK, PkiTimelines, PkiLocals, Timeline, PkiVersions, PkiWatches

\* What the copies of an object can be.
LEMMA PkiEnds ==
  ASSUME PkiTimelines, NEW o \in PkiWatches
  PROVE  Store(o) \in PkiVersions(o) /\ Cached(o) \in PkiVersions(o)
  BY TimelineEnds DEF PkiTimelines

\* A write of a version of the right kind.
LEMMA PkiCommit ==
  ASSUME PkiTimelines, NEW o \in PkiWatches, NEW v \in PkiVersions(o), Commit(o, v)
  PROVE  /\ PkiTimelines'
         /\ Store(o)' = v
         /\ \A p \in PkiWatches \ {o} : Store(p)' = Store(p)
  <1>1. o \in DOMAIN obj /\ Timeline(o, PkiVersions(o))
    BY PkiNames DEF PkiTimelines
  <1>2. Timeline(o, PkiVersions(o))' /\ Store(o)' = v
    BY <1>1, CommitTimeline
  <1>3. DOMAIN obj' = Objects /\ \A p \in PkiWatches \ {o} : obj'[p] = obj[p]
    BY CommitFrame, PkiNames DEF PkiTimelines
  <1>4. PkiTimelines'
    BY <1>2, <1>3 DEF PkiTimelines, Timeline
  <1> QED BY <1>2, <1>3, <1>4 DEF Store

\* A watch event leaves the API server's versions alone.
LEMMA PkiDeliver ==
  ASSUME PkiTimelines, NEW o \in PkiWatches, NEW watched, Deliver(o, watched)
  PROVE  PkiTimelines' /\ \A p \in PkiWatches : Store(p)' = Store(p)
  <1>1. o \in DOMAIN obj /\ Timeline(o, PkiVersions(o))
    BY PkiNames DEF PkiTimelines
  <1>2. /\ Timeline(o, PkiVersions(o))'
        /\ Store(o)' = Store(o)
        /\ DOMAIN obj' = DOMAIN obj
        /\ \A p \in DOMAIN obj : p # o => obj'[p] = obj[p]
    BY <1>1, DeliverTimeline
  <1> QED BY <1>2, PkiNames DEF PkiTimelines, Timeline, Store

\* A restart lists the versions the API server has.
LEMMA PkiRelist ==
  ASSUME PkiTimelines, NEW watched, Relist(watched)
  PROVE  PkiTimelines' /\ \A p \in PkiWatches : Store(p)' = Store(p)
  <1>1. ASSUME NEW p \in PkiWatches
        PROVE  /\ Timeline(p, PkiVersions(p))'
               /\ Store(p)' = Store(p)
    BY RelistTimeline, PkiNames DEF PkiTimelines
  <1>2. DOMAIN obj' = DOMAIN obj
    BY DEF Relist
  <1> QED BY <1>1, <1>2 DEF PkiTimelines

\* The child a pass asks for, and the one the server makes of it: the address
\* in it is the pass's, or the one it had.
LEMMA EnsuredChild ==
  ASSUME TypeOK, NEW o \in PkiChildren, pkipc = o
  PROVE  /\ AfterPki(o) \in PkiObjects
         /\ AfterPki(o).ip = IF o \in Addressed THEN lpki.ip ELSE NoIP
         /\ ~Refused(o) =>
              /\ Written(o, AfterPki(o)) \in PkiObjects
              /\ \/ Written(o, AfterPki(o)).ip = AfterPki(o).ip
                 \/ Exists(o) /\ Written(o, AfterPki(o)).ip = Store(o).ip
  <1> DEFINE a == AfterPki(o)
  <1>1. lpki \in Pkis /\ lsecret \in Nat
    BY PkiNames DEF TypeOK
  <1>2. Store(o) \in PkiObjects \cup {Absent} /\ Cached(o) \in PkiObjects \cup {Absent}
    BY PkiTypes, PkiEnds, PkiNames DEF PkiVersions
  <1>3. a \in PkiObjects /\ a.ip = IF o \in Addressed THEN lpki.ip ELSE NoIP
    <2>1. lpki.ip \in Addresses /\ NoIP \in Addresses
      BY <1>1, ResourceVocabulary DEF Pkis
    <2> QED BY <1>1, <1>2, <2>1
            DEF AfterPki, PkiChildFor, NewPkiObject, PkiObjects
  <1>4. ASSUME ~Refused(o)
        PROVE  /\ Written(o, a) \in PkiObjects
               /\ \/ Written(o, a).ip = a.ip
                  \/ Exists(o) /\ Written(o, a).ip = Store(o).ip
    <2>1. CASE Cached(o) = Absent
      BY <2>1, <1>3 DEF Written
    <2>2. CASE Cached(o) # Absent
      <3> DEFINE s == Store(o)
                 b == Cached(o)
      <3>1. s \in PkiObjects /\ Exists(o)
        BY <2>2, <1>2, <1>4 DEF Refused, Exists
      <3>2. DOMAIN s = {"ip", "signed", "issue"}
        BY <3>1 DEF PkiObjects
      <3>3. Written(o, a) =
              [ip     |-> IF a.ip # b.ip THEN a.ip ELSE s.ip,
               signed |-> IF a.signed # b.signed THEN a.signed ELSE s.signed,
               issue  |-> IF a.issue # b.issue THEN a.issue ELSE s.issue]
        BY <2>2, <3>2 DEF Written, Patched
      <3> HIDE DEF a, b, s
      <3>4. /\ a.ip \in Addresses /\ s.ip \in Addresses
            /\ a.signed \in Addresses \cup {Unsigned} /\ s.signed \in Addresses \cup {Unsigned}
            /\ a.issue \in Nat /\ s.issue \in Nat
        BY <1>3, <3>1 DEF PkiObjects
      <3>5. Written(o, a) \in PkiObjects
        BY <3>3, <3>4 DEF PkiObjects
      <3> QED BY <3>1, <3>3, <3>5 DEF s
    <2> QED BY <2>1, <2>2
  <1> QED BY <1>3, <1>4

-----------------------------------------------------------------------------
(* A step changes the objects in one of these ways.                        *)

\* The certificate of the API server does not lose its address.
AddressKept == WithoutAddress' => WithoutAddress

\* No object is written.
LEMMA NothingWritten ==
  ASSUME PkiTimelines, UNCHANGED obj
  PROVE  PkiTimelines' /\ AddressKept
  BY DEF PkiTimelines, Timeline, AddressKept, WithoutAddress, Exists, Store

\* One object is written, and if it is the certificate, not without an address
\* where it had one.
LEMMA OneWritten ==
  ASSUME PkiTimelines, NEW o \in PkiWatches, NEW v \in PkiVersions(o), Commit(o, v),
         o = "kubeAPIServerCert" => \/ v = Absent \/ v.ip # NoIP
                                    \/ Exists(o) /\ v.ip = Store(o).ip
  PROVE  PkiTimelines' /\ AddressKept
  <1> DEFINE c == "kubeAPIServerCert"
  <1>1. /\ PkiTimelines'
        /\ Store(o)' = v
        /\ \A p \in PkiWatches \ {o} : Store(p)' = Store(p)
    BY PkiCommit
  <1>2. CASE o = c
    BY <1>1, <1>2 DEF AddressKept, WithoutAddress, Exists
  <1>3. CASE o # c
    <2>1. Store(c)' = Store(c)
      BY <1>1, <1>3, PkiNames
    <2> QED BY <1>1, <2>1 DEF AddressKept, WithoutAddress, Exists
  <1> QED BY <1>2, <1>3

\* The API server's versions stay.
LEMMA StoresKept ==
  ASSUME \A p \in PkiWatches : Store(p)' = Store(p)
  PROVE  AddressKept
  BY PkiNames DEF AddressKept, WithoutAddress, Exists

\* A write of a pass: the certificate is written with an address.
LEMMA PassWrites ==
  ASSUME Inductive, NEW o \in PkiChildren, pkipc = o, Write(o, AfterPki(o))
  PROVE  PkiTimelines' /\ AddressKept
  <1> DEFINE w == Written(o, AfterPki(o))
  <1>1. ~Refused(o) /\ Commit(o, w)
    BY DEF Write
  <1>2. w \in PkiObjects
    BY <1>1, EnsuredChild DEF Inductive
  <1>3. w \in PkiVersions(o) /\ o \in PkiWatches
    BY <1>2, PkiNames DEF PkiVersions
  <1>4. ASSUME o = "kubeAPIServerCert"
        PROVE  w.ip # NoIP \/ (Exists(o) /\ w.ip = Store(o).ip)
    <2>1. AfterPki(o).ip = lpki.ip /\ lpki.ip # NoIP
      BY <1>4, EnsuredChild DEF Inductive, AddressKnown, Addressed, PkiRank
    <2> QED BY <1>1, <2>1, EnsuredChild DEF Inductive
  <1> HIDE DEF w
  <1> QED BY <1>1, <1>3, <1>4, OneWritten, PkiTypes DEF Inductive

-----------------------------------------------------------------------------
(* The steps.                                                              *)

\* A pass takes its steps in their order.
LEMMA PkiRanks ==
  /\ \A s \in PkiSteps :
       IF NextPkiStep[s] = "idle"
         THEN PkiRank[s] = 11
         ELSE NextPkiStep[s] \in PkiSteps /\ PkiRank[NextPkiStep[s]] = PkiRank[s] + 1
  /\ \A s \in PkiSteps : PkiRank[s] \in 1..11
  /\ \A s, t \in PkiSteps : PkiRank[s] = PkiRank[t] => s = t
  BY DEF PkiSteps, NextPkiStep, PkiRank

\* What a step of the pass does to the pass itself.
LEMMA PassGoesOn ==
  ASSUME Inductive, NEW o \in PkiSteps, pkipc = o, NEW n \in Nat, Proceed(o, n),
         budget' \in Nat, UNCHANGED <<adminSeen, issued>>
  PROVE  PkiLocals' /\ AddressKnown'
  <1>1. PkiLocals /\ lpki \in Pkis
    BY PkiTypes, PkiNames DEF Inductive, PkiLocals
  <1>2. CASE WaitsForAddress(o)
    <2>1. RequeuePki
      BY <1>2 DEF Proceed
    <2> QED BY <1>1, <2>1, PkiIsPresent DEF RequeuePki, EndPki, PkiLocals, AddressKnown
  <1>3. CASE ~WaitsForAddress(o)
    <2>1. /\ pkipc' = NextPkiStep[o] /\ lsecret' = n
          /\ lpki' = IF NextPkiStep[o] = "idle" THEN Absent ELSE lpki
          /\ UNCHANGED queue
      BY <1>3 DEF Proceed
    <2>2. NextPkiStep[o] \in PkiSteps \cup {"idle"}
      BY DEF PkiSteps, NextPkiStep
    <2>3. NextPkiStep[o] # "idle" /\ PkiRank[NextPkiStep[o]] > PkiRank["adminKubeconfig"]
            => o = "adminKubeconfig" \/ PkiRank[o] > PkiRank["adminKubeconfig"]
      BY PkiRanks DEF PkiSteps, NextPkiStep, PkiRank
    <2>4. PkiLocals'
      BY <1>1, <2>1, <2>2 DEF PkiLocals
    <2>5. o # "idle" /\ (PkiRank[o] > PkiRank["adminKubeconfig"] => lpki.ip # NoIP)
      BY PkiNames DEF Inductive, AddressKnown
    <2>6. AddressKnown'
      BY <1>3, <2>1, <2>3, <2>5 DEF AddressKnown, WaitsForAddress
    <2> QED BY <2>4, <2>6
  <1> QED BY <1>2, <1>3

\* The worker's steps.
LEMMA WorkerStep ==
  ASSUME Inductive, PkiReconcile
  PROVE  Inductive' /\ AddressKept
  <1>0. PkiTimelines /\ PkiLocals
    BY PkiTypes DEF Inductive
  <1>1. CASE StartPki
    <2>1. UNCHANGED obj
      BY <1>1 DEF StartPki
    <2>2. Cached("pki") \in Pkis \cup {Absent}
      BY <1>0, PkiEnds, PkiNames DEF PkiVersions
    <2>3. "rootIssuer" \in PkiSteps
      BY DEF PkiSteps, NextPkiStep
    <2>4. CASE Cached("pki") = Absent
      <3>1. PkiLocals' /\ AddressKnown'
        BY <1>1, <1>0, <2>4 DEF StartPki, PkiLocals, AddressKnown
      <3> QED BY <1>0, <2>1, <3>1, NothingWritten, PkiTypesNext DEF Inductive
    <2>5. CASE Cached("pki") # Absent
      <3>1. PkiLocals' /\ AddressKnown'
        BY <1>1, <1>0, <2>2, <2>3, <2>5, PkiNames
           DEF StartPki, PkiLocals, AddressKnown, PkiRank
      <3> QED BY <1>0, <2>1, <3>1, NothingWritten, PkiTypesNext DEF Inductive
    <2> QED BY <2>4, <2>5
  <1>2. ASSUME NEW o \in PkiChildren, EnsurePkiChild(o) PROVE Inductive' /\ AddressKept
    <2>1. pkipc = o /\ o \in PkiSteps
      BY <1>2, PkiNames DEF EnsurePkiChild
    <2>2. PkiLocals' /\ AddressKnown'
      BY <1>2, <1>0, <2>1, PassGoesOn DEF EnsurePkiChild, PkiLocals
    <2>3. PkiTimelines' /\ AddressKept
      BY <1>2, <1>0, <2>1, PassWrites, NothingWritten DEF EnsurePkiChild, CreateOrPatch
    <2> QED BY <2>2, <2>3, PkiTypesNext DEF Inductive
  <1>3. ASSUME NEW o \in PkiChildren, FailPkiChild(o) PROVE Inductive' /\ AddressKept
    <2>1. pkipc = o /\ o \in PkiSteps
      BY <1>3, PkiNames DEF FailPkiChild
    <2>2. budget' \in Nat
      BY <1>3, <1>0 DEF FailPkiChild, WriteFails, Disturb, PkiLocals
    <2>3. PkiLocals' /\ AddressKnown'
      BY <1>3, <2>1, <2>2, PassGoesOn DEF FailPkiChild
    <2>4. PkiTimelines' /\ AddressKept
      BY <1>3, <1>0, <2>1, PassWrites, NothingWritten DEF FailPkiChild, WriteFails
    <2> QED BY <2>3, <2>4, PkiTypesNext DEF Inductive
  <1>4. CASE ReadAdminSecret
    <2>1. pkipc = "adminSecret" /\ "adminSecret" \in PkiSteps /\ UNCHANGED <<obj, budget, adminSeen, issued>>
      BY <1>4, PkiNames DEF ReadAdminSecret
    <2>2. PkiLocals' /\ AddressKnown'
      <3>1. CASE Proceed("adminSecret", adminSeen)
        BY <3>1, <1>0, <2>1, PassGoesOn DEF PkiLocals
      <3>2. CASE RequeuePki
        BY <3>2, <1>0, <2>1, PkiIsPresent DEF RequeuePki, EndPki, PkiLocals, AddressKnown
      <3> QED BY <1>4, <3>1, <3>2 DEF ReadAdminSecret
    <2> QED BY <1>0, <2>1, <2>2, NothingWritten, PkiTypesNext DEF Inductive
  <1> QED BY <1>1, <1>2, <1>3, <1>4 DEF PkiReconcile

\* Someone other than the Pki reconciler writes one object, while a pass stays
\* where it is.
LEMMA OtherWrites ==
  ASSUME Inductive, NEW o \in PkiWatches, NEW v \in PkiVersions(o), Commit(o, v),
         UNCHANGED <<queue, passVars>>, budget' \in Nat, adminSeen' \in Nat,
         issued' \in [Certificates -> Nat],
         o = "kubeAPIServerCert" => \/ v = Absent \/ v.ip # NoIP
                                    \/ Exists(o) /\ v.ip = Store(o).ip
  PROVE  Inductive' /\ AddressKept
  <1>1. PkiTimelines /\ PkiLocals
    BY PkiTypes DEF Inductive
  <1>2. PkiTimelines' /\ AddressKept
    BY <1>1, OneWritten
  <1>3. PkiLocals' /\ AddressKnown'
    BY <1>1 DEF Inductive, PkiLocals, AddressKnown, passVars
  <1> QED BY <1>2, <1>3, PkiTypesNext DEF Inductive

\* A user's edit of a child's address keeps the types, whatever it is.
LEMMA UserEdits ==
  ASSUME Inductive, NEW o \in Tampered, NEW ip \in Addresses, EditPkiChild(o, ip)
  PROVE  Inductive' /\ (AddressKept \/ EditPkiChild("kubeAPIServerCert", NoIP))
  <1> DEFINE v == [Store(o) EXCEPT !.ip = ip]
  <1>1. PkiTimelines /\ PkiLocals /\ o \in PkiChildren /\ o \in PkiWatches
    BY PkiTypes, PkiNames, TamperedAreChildren DEF Inductive
  <1>2. Store(o) \in PkiObjects
    BY <1>1, PkiEnds, PkiNames DEF EditPkiChild, Exists, PkiVersions
  <1>3. v \in PkiVersions(o) /\ v.ip = ip
    BY <1>1, <1>2, PkiNames DEF PkiVersions, PkiObjects
  <1>4. /\ Commit(o, v) /\ UNCHANGED <<queue, pkiVars>>
        /\ budget' \in Nat
    BY <1>1 DEF EditPkiChild, Interfere, Disturb, PkiLocals
  <1> HIDE DEF v
  <1>5. PkiTimelines'
    BY <1>1, <1>3, <1>4, PkiCommit
  <1>6. PkiLocals' /\ AddressKnown'
    BY <1>1, <1>4 DEF Inductive, PkiLocals, AddressKnown, pkiVars, passVars
  <1>7. CASE o = "kubeAPIServerCert" /\ ip = NoIP
    BY <1>5, <1>6, <1>7, PkiTypesNext DEF Inductive
  <1>8. CASE o # "kubeAPIServerCert" \/ ip # NoIP
    BY <1>1, <1>3, <1>4, <1>5, <1>6, <1>8, OneWritten, PkiTypesNext DEF Inductive
  <1> QED BY <1>7, <1>8

\* The steps that leave every version in the API server alone.
LEMMA OtherSteps ==
  ASSUME Inductive,
         \/ \E o \in PkiWatches : Watch(o)
         \/ SeeAdminSecret
         \/ PeriodicResync
         \/ Crash
         \/ UNCHANGED vars
  PROVE  Inductive' /\ AddressKept
  <1>0. PkiTimelines /\ PkiLocals /\ {"pki"} \subseteq Controllers
    BY PkiTypes, PkiIsPresent DEF Inductive
  <1>1. ASSUME NEW o \in PkiWatches, Watch(o) PROVE Inductive' /\ AddressKept
    <2>1. Deliver(o, Watches) /\ UNCHANGED pkiVars
      BY <1>1 DEF Watch
    <2>2. PkiTimelines' /\ AddressKept
      BY <1>0, <2>1, PkiDeliver, StoresKept
    <2>3. PkiLocals' /\ AddressKnown'
      BY <1>0, <2>1
         DEF Deliver, Watches, Inductive, PkiLocals, AddressKnown, pkiVars, passVars
    <2> QED BY <2>2, <2>3, PkiTypesNext DEF Inductive
  <1>2. CASE SeeAdminSecret
    <2>1. PkiLocals' /\ AddressKnown'
      BY <1>0, <1>2, PkiNames
         DEF SeeAdminSecret, Inductive, PkiLocals, AddressKnown, passVars, clusterVars
    <2> QED BY <1>0, <1>2, <2>1, NothingWritten, PkiTypesNext
            DEF SeeAdminSecret, Inductive, clusterVars
  <1>3. CASE PeriodicResync
    <2>1. PkiLocals' /\ AddressKnown'
      BY <1>0, <1>3
         DEF PeriodicResync, Resync, Watches, Inductive, PkiLocals, AddressKnown,
             pkiVars, passVars
    <2> QED BY <1>0, <1>3, <2>1, NothingWritten, PkiTypesNext
            DEF PeriodicResync, Resync, Inductive
  <1>4. CASE Crash
    <2>1. PkiTimelines' /\ AddressKept
      BY <1>0, <1>4, PkiRelist, StoresKept DEF Crash
    <2>2. PkiLocals' /\ AddressKnown'
      BY <1>0, <1>4, PkiNames
         DEF Crash, Relist, Disturb, EndPki, Watches, PkiLocals, AddressKnown
    <2> QED BY <2>1, <2>2, PkiTypesNext DEF Inductive
  <1>5. CASE UNCHANGED vars
    <2>1. PkiLocals' /\ AddressKnown'
      BY <1>0, <1>5
         DEF vars, Inductive, PkiLocals, AddressKnown, pkiVars, passVars, clusterVars
    <2> QED BY <1>0, <1>5, <2>1, NothingWritten, PkiTypesNext DEF vars, Inductive, clusterVars
  <1> QED BY <1>1, <1>2, <1>3, <1>4, <1>5

\* cert-manager signs: the specs stay as they are.
LEMMA SignStep ==
  ASSUME Inductive, CertManager
  PROVE  Inductive' /\ AddressKept
  <1>1. PICK o \in Issuers \cup Certificates : Sign(o)
    BY DEF CertManager
  <1> DEFINE v == [Store(o) EXCEPT !.signed = Store(o).ip,
                                   !.issue = IF o = "adminCert" THEN issued[o] + 1 ELSE 0]
  <1>2. PkiTimelines /\ PkiLocals /\ o \in PkiChildren /\ o \in PkiWatches
    BY PkiTypes, PkiNames DEF Inductive
  <1>3. Store(o) \in PkiObjects /\ Exists(o)
    BY <1>1, <1>2, PkiEnds, PkiNames DEF Sign, CanSign, Exists, PkiVersions
  <1>4. issued \in [Certificates -> Nat] /\ "adminCert" \in Certificates
    BY <1>2, PkiNames DEF PkiLocals
  <1>5. v \in PkiVersions(o) /\ v.ip = Store(o).ip
    <2> DEFINE n == IF o = "adminCert" THEN issued[o] + 1 ELSE 0
    <2>1. n \in Nat
      BY <1>4
    <2> HIDE DEF n
    <2>2. /\ [Store(o) EXCEPT !.signed = Store(o).ip, !.issue = n] \in PkiObjects
          /\ [Store(o) EXCEPT !.signed = Store(o).ip, !.issue = n].ip = Store(o).ip
      BY <1>3, <2>1 DEF PkiObjects
    <2>3. v \in PkiObjects /\ v.ip = Store(o).ip
      BY <2>2 DEF n
    <2> QED BY <1>2, <2>3, PkiNames DEF PkiVersions
  <1>6. issued' \in [Certificates -> Nat]
    BY <1>1, <1>4 DEF Sign
  <1>7. Commit(o, v) /\ UNCHANGED <<queue, budget, passVars, adminSeen>>
    BY <1>1 DEF Sign
  <1> HIDE DEF v
  <1>8. budget' \in Nat /\ adminSeen' \in Nat
    BY <1>2, <1>7 DEF PkiLocals
  <1> QED BY <1>2, <1>3, <1>5, <1>6, <1>7, <1>8, OtherWrites

\* The writes of the ControlPlane reconciler and of users, and a renewal.
LEMMA EnvironmentStep ==
  ASSUME Inductive, Environment
  PROVE  Inductive' /\ (AddressKept \/ EditPkiChild("kubeAPIServerCert", NoIP))
  <1>0. PkiTimelines /\ PkiLocals
    BY PkiTypes DEF Inductive
  <1>1. ASSUME NEW ip \in Addresses, ApplyPki(ip) PROVE Inductive' /\ AddressKept
    <2>1. [ip |-> ip] \in PkiVersions("pki")
      BY DEF PkiVersions, Pkis
    <2> QED BY <1>0, <1>1, <2>1, OtherWrites, PkiNames
            DEF ApplyPki, Interfere, Disturb, PkiLocals, pkiVars
  <1>2. CASE RemovePki
    BY <1>0, <1>2, OtherWrites, PkiNames
       DEF RemovePki, Interfere, Disturb, PkiLocals, PkiVersions, pkiVars
  <1>3. ASSUME NEW o \in Tampered, RemovePkiChild(o) PROVE Inductive' /\ AddressKept
    BY <1>0, <1>3, OtherWrites, PkiNames, TamperedAreChildren
       DEF RemovePkiChild, Interfere, Disturb, PkiLocals, PkiVersions, pkiVars
  <1>4. CASE Renew
    <2> DEFINE v == [Store("adminCert") EXCEPT !.issue = issued["adminCert"] + 1]
    <2>1. issued["adminCert"] \in Nat /\ Store("adminCert") \in PkiObjects
      BY <1>0, <1>4, PkiEnds, PkiNames DEF Renew, Exists, PkiVersions, PkiLocals
    <2>2. v \in PkiVersions("adminCert")
      BY <2>1, PkiNames DEF PkiVersions, PkiObjects
    <2>3. Commit("adminCert", v) /\ UNCHANGED <<queue, passVars, adminSeen>>
      BY <1>4 DEF Renew, Interfere
    <2>4. budget' \in Nat /\ adminSeen' \in Nat /\ issued' \in [Certificates -> Nat]
      BY <1>0, <1>4, <2>1, PkiNames DEF Renew, Interfere, Disturb, PkiLocals
    <2> HIDE DEF v
    <2> QED BY <2>2, <2>3, <2>4, OtherWrites, PkiNames
  <1>5. CASE Crash
    BY <1>5, OtherSteps
  <1>6. ASSUME NEW o \in Tampered, NEW ip \in Addresses, EditPkiChild(o, ip)
        PROVE  Inductive' /\ (AddressKept \/ EditPkiChild("kubeAPIServerCert", NoIP))
    BY <1>6, UserEdits
  <1> QED BY <1>1, <1>2, <1>3, <1>4, <1>5, <1>6 DEF Environment

-----------------------------------------------------------------------------
(* What a settled controller leaves.                                       *)

CachesFresh == \A p \in PkiWatches : Fresh(p)

PkiUntouched == \A p \in PkiWatches : obj'[p] = obj[p]

\* An up-to-date cache holds the server's versions.
LEMMA FreshCopies ==
  ASSUME PkiTimelines, CachesFresh, NEW o \in PkiWatches
  PROVE  Cached(o) = Store(o)
  BY TimelineEnds DEF PkiTimelines, CachesFresh

\* A write that leaves the caches up to date has changed nothing.
LEMMA QuietCommit ==
  ASSUME PkiTimelines, NEW o \in PkiWatches, NEW v \in PkiVersions(o), Commit(o, v),
         CachesFresh'
  PROVE  v = Store(o) /\ PkiUntouched
  <1>1. o \in DOMAIN obj /\ Timeline(o, PkiVersions(o))
    BY PkiNames DEF PkiTimelines
  <1>2. Fresh(o)'
    BY DEF CachesFresh
  <1>3. v = Store(o)
    BY <1>1, <1>2, CommitTimeline
  <1>4. obj'[o] = obj[o]
    BY <1>1, <1>3 DEF Commit
  <1>5. \A p \in PkiWatches \ {o} : obj'[p] = obj[p]
    BY CommitFrame, PkiNames DEF PkiTimelines
  <1> QED BY <1>3, <1>4, <1>5 DEF PkiUntouched

\* A step that moves neither the objects nor the pass, and takes no request
\* off the queue.
LEMMA Unmoved ==
  ASSUME PkiPass, PkiUntouched, UNCHANGED <<pkipc, lpki>>, queue \subseteq queue'
  PROVE  PkiPass'
  BY PkiNames DEF PkiPass, PkiUntouched, Quiet, PkiDone, InSync, Exists, Store, Fresh

\* A step that queues the request, or leaves a watch event behind.
LEMMA Told ==
  ASSUME "pki" \in queue' \/ ~CachesFresh'
  PROVE  PkiPass'
  BY DEF PkiPass, Quiet, CachesFresh

\* A write of someone else is told to the controller.
LEMMA AmongOthers ==
  ASSUME PkiTimelines, PkiPass, NEW o \in PkiWatches, NEW v \in PkiVersions(o),
         Commit(o, v), UNCHANGED <<queue, passVars>>
  PROVE  PkiPass'
  <1>1. CASE CachesFresh'
    BY <1>1, QuietCommit, Unmoved DEF passVars
  <1>2. CASE ~CachesFresh'
    BY <1>2, Told
  <1> QED BY <1>1, <1>2

\* A pass that changes nothing over an up-to-date cache finds the child what
\* the Pki asks for.
LEMMA NothingToDo ==
  ASSUME Inductive, NEW o \in PkiChildren, pkipc = o, CachesFresh,
         lpki = Store("pki"), AfterPki(o) = Store(o)
  PROVE  InSync(o)
  <1>1. AfterPki(o) \in PkiObjects /\ AfterPki(o).ip = IF o \in Addressed THEN lpki.ip ELSE NoIP
    BY EnsuredChild DEF Inductive
  <1> QED BY <1>1, AbsentIsNoPkiObject DEF InSync, Exists

\* A write of the pass that leaves the caches up to date was none.
LEMMA QuietEnsure ==
  ASSUME Inductive, NEW o \in PkiChildren, pkipc = o,
         CreateOrPatch(o, AfterPki(o)), CachesFresh'
  PROVE  CachesFresh /\ PkiUntouched /\ AfterPki(o) = Store(o)
  <1> DEFINE a == AfterPki(o)
             w == Written(o, a)
  <1>0. PkiTimelines /\ o \in PkiWatches
    BY PkiTypes, PkiNames DEF Inductive
  <1>1. CASE ~Sends(o, a)
    <2>1. PkiUntouched
      BY <1>1 DEF CreateOrPatch, PkiUntouched
    <2>2. CachesFresh
      BY <2>1 DEF CachesFresh, Fresh, PkiUntouched
    <2>3. a = Cached(o)
      BY <1>1 DEF Sends
    <2> QED BY <1>0, <2>1, <2>2, <2>3, FreshCopies
  <1>2. CASE Sends(o, a)
    <2>1. ~Refused(o) /\ Commit(o, w)
      BY <1>2 DEF CreateOrPatch, Write
    <2>2. w \in PkiVersions(o)
      BY <2>1, EnsuredChild, PkiNames DEF PkiVersions, Inductive
    <2>3. w = Store(o) /\ PkiUntouched
      <3> HIDE DEF w
      <3> QED BY <1>0, <2>1, <2>2, QuietCommit
    <2>4. CachesFresh
      BY <2>3 DEF CachesFresh, Fresh, PkiUntouched
    <2>5. Cached(o) = Store(o)
      BY <1>0, <2>4, FreshCopies
    <2>6. a # Store(o)
      BY <1>2, <2>5 DEF Sends
    <2>7. w = a
      <3>1. CASE Cached(o) = Absent
        BY <3>1 DEF Written
      <3>2. CASE Cached(o) # Absent
        <4> DEFINE s == Store(o)
        <4>1. s \in PkiObjects /\ a \in PkiObjects
          BY <1>0, <2>5, <3>2, PkiEnds, PkiNames, EnsuredChild DEF PkiVersions, Inductive
        <4>2. w = [f \in DOMAIN s |-> IF a[f] # s[f] THEN a[f] ELSE s[f]]
          BY <2>5, <3>2 DEF Written, Patched
        <4> HIDE DEF a, s, w
        <4>3. DOMAIN s = {"ip", "signed", "issue"} /\ DOMAIN a = {"ip", "signed", "issue"}
          BY <4>1 DEF PkiObjects
        <4>4. a = [f \in {"ip", "signed", "issue"} |-> a[f]]
          BY <4>1, <4>3 DEF PkiObjects
        <4> QED BY <4>2, <4>3, <4>4
      <3> QED BY <3>1, <3>2
    <2> QED BY <2>3, <2>6, <2>7
  <1> QED BY <1>1, <1>2

\* The pass goes on without a write: the child it leaves behind is in order.
LEMMA GoesOn ==
  ASSUME Inductive, PkiPass, NEW o \in PkiSteps, pkipc = o, NEW n, Proceed(o, n),
         PkiUntouched,
         o \in PkiChildren /\ Quiet /\ lpki = Store("pki") => InSync(o)
  PROVE  PkiPass'
  <1>1. CASE WaitsForAddress(o)
    BY <1>1, Told DEF Proceed, RequeuePki
  <1>2. CASE ~WaitsForAddress(o)
    <2> SUFFICES ASSUME Quiet'
                 PROVE  /\ pkipc' # "idle" =>
                             lpki' = Store("pki")' /\ \A c \in PkiDone' : InSync(c)'
                        /\ pkipc' = "idle" /\ Exists("pki")' =>
                             Store("pki")'.ip # NoIP /\ \A c \in PkiChildren : InSync(c)'
      BY DEF PkiPass
    <2>1. /\ pkipc' = NextPkiStep[o]
          /\ lpki' = IF NextPkiStep[o] = "idle" THEN Absent ELSE lpki
          /\ UNCHANGED queue
      BY <1>2 DEF Proceed
    <2>2. Quiet /\ pkipc # "idle"
      BY <2>1, PkiNames DEF Quiet, Fresh, PkiUntouched
    <2>3. lpki = Store("pki") /\ \A c \in PkiDone : InSync(c)
      BY <2>2 DEF PkiPass
    <2>4. Store("pki")' = Store("pki") /\ \A c \in PkiChildren : InSync(c)' = InSync(c)
      BY PkiNames DEF Store, InSync, Exists, PkiUntouched
    <2>5. \A c \in PkiChildren : c \in PkiSteps /\ (PkiRank[c] < PkiRank[o] => c \in PkiDone)
      BY PkiNames DEF PkiDone
    <2>6. CASE NextPkiStep[o] # "idle"
      <3>1. NextPkiStep[o] \in PkiSteps /\ PkiRank[NextPkiStep[o]] = PkiRank[o] + 1
        BY <2>6, PkiRanks
      <3>2. ASSUME NEW c \in PkiChildren, PkiRank[c] < PkiRank[o] + 1 PROVE InSync(c)
        <4>1. PkiRank[c] \in 1..11 /\ PkiRank[o] \in 1..11
          BY <2>5, PkiRanks
        <4>2. PkiRank[c] < PkiRank[o] \/ c = o
          BY <4>1, <3>2, <2>5, PkiRanks
        <4> QED BY <4>2, <2>2, <2>3, <2>5
      <3>3. PkiDone' = {c \in PkiChildren : PkiRank[c] < PkiRank[o] + 1}
        BY <2>1, <3>1 DEF PkiDone
      <3> QED BY <2>1, <2>3, <2>4, <2>6, <3>2, <3>3
    <2>7. CASE NextPkiStep[o] = "idle"
      <3>1. PkiRank[o] = 11
        BY <2>7, PkiRanks
      <3>2. ASSUME NEW c \in PkiChildren PROVE InSync(c)
        <4>1. PkiRank[c] \in 1..11
          BY <2>5, PkiRanks
        <4>2. PkiRank[c] < PkiRank[o] \/ c = o
          BY <4>1, <3>1, <2>5, PkiRanks
        <4> QED BY <4>2, <2>2, <2>3, <2>5
      <3>3. lpki.ip # NoIP
        BY <2>2, <3>1 DEF Inductive, AddressKnown, PkiRank
      <3> QED BY <2>1, <2>3, <2>4, <2>7, <3>2, <3>3
    <2> QED BY <2>6, <2>7
  <1> QED BY <1>1, <1>2

\* The worker's steps.
LEMMA PassStep ==
  ASSUME "fault" \notin Disturbances, Inductive, PkiPass, PkiReconcile
  PROVE  PkiPass'
  <1>0. PkiTimelines /\ "pki" \in PkiWatches
    BY PkiTypes, PkiNames DEF Inductive
  <1>1. CASE StartPki
    <2>1. UNCHANGED obj /\ pkipc = "idle"
      BY <1>1 DEF StartPki
    <2>2. CASE ~CachesFresh'
      BY <2>2, Told
    <2>3. CASE CachesFresh'
      <3>1. CachesFresh /\ Cached("pki") = Store("pki") /\ Store("pki")' = Store("pki")
        BY <1>0, <2>1, <2>3, FreshCopies DEF CachesFresh, Fresh, Store
      <3>2. CASE Cached("pki") = Absent
        BY <1>1, <2>1, <3>1, <3>2 DEF StartPki, PkiPass, Exists
      <3>3. CASE Cached("pki") # Absent
        <4>1. pkipc' = "rootIssuer" /\ lpki' = Store("pki")'
          BY <1>1, <3>1, <3>3 DEF StartPki
        <4>2. PkiDone' = {}
          <5>1. "rootIssuer" \in PkiSteps /\ PkiRank["rootIssuer"] = 1
            BY DEF PkiSteps, NextPkiStep, PkiRank
          <5>2. PkiDone' = {c \in PkiChildren : PkiRank[c] < 1}
            BY <4>1, <5>1 DEF PkiDone
          <5>3. \A c \in PkiChildren : PkiRank[c] \in 1..11
            BY PkiRanks, PkiNames
          <5> QED BY <5>2, <5>3
        <4> QED BY <4>1, <4>2 DEF PkiPass
      <3> QED BY <3>2, <3>3
    <2> QED BY <2>2, <2>3
  <1>2. ASSUME NEW o \in PkiChildren, EnsurePkiChild(o) PROVE PkiPass'
    <2>1. pkipc = o /\ o \in PkiSteps /\ CreateOrPatch(o, AfterPki(o)) /\ Proceed(o, 0)
      BY <1>2, PkiNames DEF EnsurePkiChild
    <2>2. CASE ~CachesFresh'
      BY <2>2, Told
    <2>3. CASE CachesFresh'
      <3>1. CachesFresh /\ PkiUntouched /\ AfterPki(o) = Store(o)
        BY <2>1, <2>3, QuietEnsure
      <3>2. lpki = Store("pki") => InSync(o)
        BY <2>1, <3>1, NothingToDo
      <3> QED BY <2>1, <3>1, <3>2, GoesOn
    <2> QED BY <2>2, <2>3
  <1>3. ASSUME NEW o \in PkiChildren, FailPkiChild(o) PROVE PkiPass'
    <2>1. WriteFails(o, AfterPki(o))
      BY <1>3 DEF FailPkiChild
    <2>2. Refused(o) /\ UNCHANGED obj
      BY <2>1 DEF WriteFails, Disturb
    <2>3. ~CachesFresh
      BY <1>0, <2>2, FreshCopies, PkiNames DEF Refused
    <2> QED BY <2>2, <2>3, Told DEF CachesFresh, Fresh
  <1>4. CASE ReadAdminSecret
    <2>1. pkipc = "adminSecret" /\ "adminSecret" \in PkiSteps
          /\ "adminSecret" \notin PkiChildren /\ PkiUntouched
      BY <1>4, PkiNames DEF ReadAdminSecret, PkiUntouched
    <2>2. CASE RequeuePki
      BY <2>2, Told DEF RequeuePki
    <2>3. CASE Proceed("adminSecret", adminSeen)
      BY <2>1, <2>3, GoesOn
    <2> QED BY <1>4, <2>2, <2>3 DEF ReadAdminSecret
  <1> QED BY <1>1, <1>2, <1>3, <1>4 DEF PkiReconcile

\* cert-manager's signatures and what disturbs.
LEMMA OthersPass ==
  ASSUME Inductive, PkiPass, CertManager \/ Environment
  PROVE  PkiPass'
  <1>0. PkiTimelines /\ PkiLocals
    BY PkiTypes DEF Inductive
  <1>1. CASE CertManager
    <2>1. PICK o \in Issuers \cup Certificates : Sign(o)
      BY <1>1 DEF CertManager
    <2> DEFINE n == IF o = "adminCert" THEN issued[o] + 1 ELSE 0
               v == [Store(o) EXCEPT !.signed = Store(o).ip, !.issue = n]
    <2>2. o \in PkiWatches /\ o \in PkiChildren
      BY PkiNames
    <2>3. Store(o) \in PkiObjects
      BY <1>0, <2>1, <2>2, PkiEnds, PkiNames DEF Sign, CanSign, Exists, PkiVersions
    <2>4. n \in Nat
      BY <1>0, PkiNames DEF PkiLocals
    <2>5. Commit(o, v) /\ UNCHANGED <<queue, passVars>>
      BY <2>1 DEF Sign
    <2> HIDE DEF n
    <2>6. v \in PkiVersions(o)
      BY <2>2, <2>3, <2>4, PkiNames DEF PkiObjects, PkiVersions
    <2> HIDE DEF v
    <2> QED BY <1>0, <2>2, <2>5, <2>6, AmongOthers
  <1>2. ASSUME NEW ip \in Addresses, ApplyPki(ip) PROVE PkiPass'
    <2>1. [ip |-> ip] \in PkiVersions("pki")
      BY DEF PkiVersions, Pkis
    <2>2. Commit("pki", [ip |-> ip]) /\ UNCHANGED <<queue, passVars>>
      BY <1>2 DEF ApplyPki, Interfere, pkiVars
    <2> QED BY <1>0, <2>1, <2>2, AmongOthers, PkiNames
  <1>3. CASE RemovePki
    <2>1. Absent \in PkiVersions("pki")
      BY DEF PkiVersions
    <2>2. Commit("pki", Absent) /\ UNCHANGED <<queue, passVars>>
      BY <1>3 DEF RemovePki, Interfere, pkiVars
    <2> QED BY <1>0, <2>1, <2>2, AmongOthers, PkiNames
  <1>4. ASSUME NEW o \in Tampered, NEW ip \in Addresses, EditPkiChild(o, ip) PROVE PkiPass'
    <2> DEFINE v == [Store(o) EXCEPT !.ip = ip]
    <2>1. o \in PkiWatches /\ o \in PkiChildren
      BY PkiNames, TamperedAreChildren
    <2>2. Store(o) \in PkiObjects
      BY <1>0, <1>4, <2>1, PkiEnds, PkiNames DEF EditPkiChild, Exists, PkiVersions
    <2>3. v \in PkiVersions(o)
      BY <2>1, <2>2, PkiNames DEF PkiObjects, PkiVersions
    <2>4. Commit(o, v) /\ UNCHANGED <<queue, passVars>>
      BY <1>4 DEF EditPkiChild, Interfere, pkiVars
    <2> HIDE DEF v
    <2> QED BY <1>0, <2>1, <2>3, <2>4, AmongOthers
  <1>5. ASSUME NEW o \in Tampered, RemovePkiChild(o) PROVE PkiPass'
    <2>1. Absent \in PkiVersions(o) /\ o \in PkiWatches
      BY PkiNames, TamperedAreChildren DEF PkiVersions
    <2>2. Commit(o, Absent) /\ UNCHANGED <<queue, passVars>>
      BY <1>5 DEF RemovePkiChild, Interfere, pkiVars
    <2> QED BY <1>0, <2>1, <2>2, AmongOthers
  <1>6. CASE Renew
    <2> DEFINE v == [Store("adminCert") EXCEPT !.issue = issued["adminCert"] + 1]
    <2>1. issued["adminCert"] \in Nat /\ Store("adminCert") \in PkiObjects
      BY <1>0, <1>6, PkiEnds, PkiNames DEF Renew, Exists, PkiVersions, PkiLocals
    <2>2. v \in PkiVersions("adminCert")
      BY <2>1, PkiNames DEF PkiVersions, PkiObjects
    <2>3. Commit("adminCert", v) /\ UNCHANGED <<queue, passVars>>
      BY <1>6 DEF Renew, Interfere
    <2> HIDE DEF v
    <2> QED BY <1>0, <2>2, <2>3, AmongOthers, PkiNames
  <1>7. CASE Crash
    <2>1. pkipc' = "idle" /\ Relist(Watches)
      BY <1>7 DEF Crash, EndPki
    <2>2. Store("pki")' = Store("pki")
      BY <1>0, <2>1, PkiRelist, PkiNames
    <2>3. Exists("pki") => "pki" \in queue'
      BY <2>1, PkiNames DEF Relist, Watches
    <2> QED BY <2>1, <2>2, <2>3 DEF PkiPass, Quiet, Exists
  <1> QED BY <1>1, <1>2, <1>3, <1>4, <1>5, <1>6, <1>7 DEF Environment

\* The steps that write nothing.
LEMMA SilentPass ==
  ASSUME Inductive, PkiPass,
         \/ \E o \in PkiWatches : Watch(o)
         \/ SeeAdminSecret \/ PeriodicResync \/ UNCHANGED vars
  PROVE  PkiPass'
  <1>1. ASSUME NEW o \in PkiWatches, Watch(o) PROVE PkiPass'
    BY <1>1, Told DEF Watch, Deliver, Watches
  <1>2. CASE SeeAdminSecret
    BY <1>2, Unmoved DEF SeeAdminSecret, clusterVars, passVars, PkiUntouched
  <1>3. CASE PeriodicResync
    BY <1>3, Unmoved DEF PeriodicResync, Resync, pkiVars, passVars, PkiUntouched
  <1>4. CASE UNCHANGED vars
    BY <1>4, Unmoved DEF vars, clusterVars, pkiVars, passVars, PkiUntouched
  <1> QED BY <1>1, <1>2, <1>3, <1>4

-----------------------------------------------------------------------------
(* The theorems.                                                           *)

\* At the start nothing exists and no pass runs.
LEMMA InductiveInit == Init => Inductive
  <1> SUFFICES ASSUME Init PROVE Inductive
    OBVIOUS
  <1>1. PkiTimelines
    <2>1. ASSUME NEW o \in PkiWatches PROVE obj[o] \in Seq(PkiVersions(o)) /\ obj[o] # <<>>
      <3>1. obj[o] = <<Absent>>
        BY PkiNames DEF Init, ClusterInit
      <3>2. Absent \in PkiVersions(o)
        BY DEF PkiVersions
      <3> QED BY <3>1, <3>2
    <2>2. DOMAIN obj = Objects
      BY DEF Init, ClusterInit
    <2> QED BY <2>1, <2>2 DEF PkiTimelines, Timeline
  <1>2. PkiLocals
    BY MaxDisturbancesIsNat DEF Init, ClusterInit, PkiInit, PkiLocals
  <1>3. AddressKnown
    BY DEF Init, PkiInit, AddressKnown
  <1> QED BY <1>1, <1>2, <1>3, PkiTypes DEF Inductive

\* Every step keeps the strengthening, and the address.
LEMMA InductiveStep ==
  Inductive /\ [Next]_vars
    => Inductive' /\ (AddressKept \/ EditPkiChild("kubeAPIServerCert", NoIP))
  <1> SUFFICES ASSUME Inductive, [Next]_vars
               PROVE  Inductive' /\ (AddressKept \/ EditPkiChild("kubeAPIServerCert", NoIP))
    OBVIOUS
  <1>1. CASE PkiReconcile
    BY <1>1, WorkerStep
  <1>2. CASE CertManager
    BY <1>2, SignStep
  <1>3. CASE Environment
    BY <1>3, EnvironmentStep
  <1>4. CASE \/ \E o \in PkiWatches : Watch(o)
             \/ SeeAdminSecret \/ PeriodicResync \/ UNCHANGED vars
    BY <1>4, OtherSteps
  <1> QED BY <1>1, <1>2, <1>3, <1>4 DEF Next

\* The strengthening is an invariant.
THEOREM InductiveInvariance == Spec => []Inductive
  <1>1. Inductive /\ [Next]_vars => Inductive'
    BY InductiveStep
  <1> QED BY InductiveInit, <1>1, PTL DEF Spec

\* Types: timelines hold versions of their kinds, and a pass holds a Pki.
THEOREM TypeCorrect == Spec => []TypeOK
  <1>1. Inductive => TypeOK
    BY DEF Inductive
  <1> QED BY InductiveInvariance, <1>1, PTL

\* The operator never asks for a certificate of the API server without an
\* address nor takes the address out of one, even if its writes are lost and
\* it goes on all the same.
THEOREM AddressFirst == Spec => AddressBeforeCertificate
  <1>1. Inductive /\ [Next]_vars
          => [WithoutAddress'
                => WithoutAddress \/ EditPkiChild("kubeAPIServerCert", NoIP)]_vars
    BY InductiveStep DEF AddressKept
  <1> QED BY InductiveInvariance, <1>1, PTL DEF Spec, AddressBeforeCertificate

\* If no request is lost, a controller with nothing left to do has the Pki's
\* address and leaves every issuer, certificate and kubeconfig what the Pki asks
\* for.  The reconciler does not look at the result of a write, and one that
\* was lost leaves no event behind: without the assumption it does not hold.
THEOREM SettledSafety ==
  ASSUME "fault" \notin Disturbances
  PROVE  Spec => []SettledPki
  <1>1. Init => PkiPass
    <2>1. ASSUME Init PROVE pkipc = "idle" /\ ~Exists("pki")
      BY <2>1, PkiNames DEF Init, ClusterInit, PkiInit, Exists, Store
    <2> QED BY <2>1 DEF PkiPass
  <1>2. Inductive /\ PkiPass /\ [Next]_vars => PkiPass'
    BY PassStep, OthersPass, SilentPass DEF Next
  <1>3. PkiPass => SettledPki
    BY DEF PkiPass, SettledPki, Settled
  <1> QED BY <1>1, <1>2, <1>3, InductiveInvariance, PTL DEF Spec
==============================================================================
