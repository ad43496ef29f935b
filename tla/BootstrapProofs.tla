---------------------------- MODULE BootstrapProofs ----------------------------
(***************************************************************************)
(* No API server is started before its certificate holds the address of    *)
(* the control plane, proved for the Pki reconciler and the KubeAPIServer's *)
(* together, for every set of tenants and addresses, any specs that name   *)
(* the certificate's Secret, and any number of disturbances.               *)
(***************************************************************************)
EXTENDS Bootstrap, PkiProofs

ApiServerCert == "kubeAPIServerCert"

-----------------------------------------------------------------------------
(* The Pki's side.                                                         *)

\* The certificate is one of the Pki's objects.
LEMMA CertNames ==
  /\ ApiServerCert \in Certificates /\ ApiServerCert \in PkiChildren
  /\ ApiServerCert \in PkiWatches /\ ApiServerCert # "pki"
  BY PkiNames DEF ApiServerCert

\* The certificate stays as it is.
LEMMA CertStays ==
  ASSUME CertificateSigned, Store(ApiServerCert)' = Store(ApiServerCert), UNCHANGED issued
  PROVE  CertificateSigned'
  BY DEF CertificateSigned, WithoutAddress, Exists, ApiServerCert

\* Another object is written.
LEMMA CertApart ==
  ASSUME Inductive, CertificateSigned,
         NEW o \in PkiWatches, o # ApiServerCert, NEW v, Commit(o, v), UNCHANGED issued
  PROVE  CertificateSigned'
  <1>1. obj'[ApiServerCert] = obj[ApiServerCert]
    BY CommitFrame, PkiTypes, PkiNames, CertNames DEF Inductive, PkiTimelines
  <1> QED BY <1>1, CertStays DEF Store

\* A pass writes the certificate: what was signed stays.
LEMMA CertWritten ==
  ASSUME Inductive, CertificateSigned, pkipc = ApiServerCert,
         Write(ApiServerCert, AfterPki(ApiServerCert)), UNCHANGED issued
  PROVE  CertificateSigned'
  <1> DEFINE c == ApiServerCert
             w == Written(c, AfterPki(c))
  <1>0. PkiTimelines /\ TypeOK /\ c \in PkiChildren /\ c \in PkiWatches /\ c # "pki"
    BY PkiTypes, CertNames DEF Inductive
  <1>1. ~Refused(c) /\ Commit(c, w)
    BY DEF Write
  <1>2. w \in PkiObjects
    BY <1>0, <1>1, EnsuredChild
  <1>3. w \in PkiVersions(c) /\ w # Absent
    BY <1>0, <1>2, AbsentIsNoPkiObject DEF PkiVersions
  <1>4. Store(c)' = w
    <2> HIDE DEF w
    <2> QED BY <1>0, <1>1, <1>3, PkiCommit
  <1>5. ~WithoutAddress'
    BY PassWrites, <1>0 DEF AddressKept, CertificateSigned
  <1>6. ASSUME Exists(c) PROVE w.signed = Store(c).signed
    <2>1. Cached(c) # Absent
      BY <1>1, <1>6 DEF Refused, Exists
    <2>2. Store(c) \in PkiObjects
      BY <1>0, <1>6, PkiEnds DEF PkiVersions, Exists
    <2>3. AfterPki(c).signed = Cached(c).signed
      BY <2>1 DEF AfterPki, PkiChildFor
    <2> QED BY <2>1, <2>2, <2>3 DEF Written, Patched, PkiObjects
  <1> HIDE DEF w
  <1> QED BY <1>3, <1>4, <1>5, <1>6 DEF CertificateSigned, Exists, ApiServerCert

\* The worker's steps.
LEMMA CertWorker ==
  ASSUME Inductive, CertificateSigned, PkiReconcile
  PROVE  CertificateSigned' /\ UNCHANGED issued
  <1>1. UNCHANGED issued
    BY DEF PkiReconcile, StartPki, EnsurePkiChild, FailPkiChild, ReadAdminSecret
  <1>2. \/ UNCHANGED obj
        \/ \E o \in PkiChildren : pkipc = o /\ Write(o, AfterPki(o))
    BY DEF PkiReconcile, StartPki, EnsurePkiChild, FailPkiChild, ReadAdminSecret,
           CreateOrPatch, WriteFails
  <1>3. CASE UNCHANGED obj
    BY <1>1, <1>3, CertStays DEF Store
  <1>4. ASSUME NEW o \in PkiChildren, pkipc = o, Write(o, AfterPki(o))
        PROVE  CertificateSigned'
    <2>1. CASE o = ApiServerCert
      BY <1>1, <1>4, <2>1, CertWritten
    <2>2. CASE o # ApiServerCert
      BY <1>1, <1>4, <2>2, CertApart, PkiNames DEF Write
    <2> QED BY <2>1, <2>2
  <1> QED BY <1>1, <1>2, <1>3, <1>4

\* cert-manager signs what is asked for, hence an address.
LEMMA CertSigned ==
  ASSUME Inductive, CertificateSigned, CertManager
  PROVE  CertificateSigned' /\ (issued[ApiServerCert] > 0 => issued'[ApiServerCert] > 0)
  <1> DEFINE c == ApiServerCert
  <1>0. /\ PkiTimelines /\ issued \in [Certificates -> Nat]
        /\ c \in PkiChildren /\ c \in PkiWatches /\ c # "pki" /\ c \in Certificates
    BY PkiTypes, CertNames DEF Inductive, PkiLocals
  <1>1. PICK o \in Issuers \cup Certificates : Sign(o)
    BY DEF CertManager
  <1>2. o \in PkiWatches
    BY PkiNames
  <1> DEFINE v == [Store(o) EXCEPT !.signed = Store(o).ip,
                                   !.issue = IF o = "adminCert" THEN issued[o] + 1 ELSE 0]
  <1>3. CanSign(o) /\ Commit(o, v)
    BY <1>1 DEF Sign
  <1>4. ~WithoutAddress'
    BY SignStep DEF AddressKept, CertificateSigned
  <1>5. CASE o = c
    <2>1. Store(c) \in PkiObjects /\ Store(c).ip # NoIP
      BY <1>0, <1>3, <1>5, PkiEnds
         DEF CanSign, Exists, PkiVersions, CertificateSigned, WithoutAddress, ApiServerCert
    <2> DEFINE n == IF o = "adminCert" THEN issued[o] + 1 ELSE 0
    <2>2. n \in Nat
      BY <1>5 DEF ApiServerCert
    <2>3. v \in PkiObjects /\ v.signed = Store(c).ip
      <3> HIDE DEF n
      <3>1. /\ [Store(c) EXCEPT !.signed = Store(c).ip, !.issue = n] \in PkiObjects
            /\ [Store(c) EXCEPT !.signed = Store(c).ip, !.issue = n].signed = Store(c).ip
        BY <2>1, <2>2 DEF PkiObjects
      <3> QED BY <1>5, <3>1 DEF n
    <2>4. v \in PkiVersions(o) /\ v # Absent
      BY <1>0, <1>5, <2>3, AbsentIsNoPkiObject DEF PkiVersions
    <2>5. Store(c)' = v
      <3> HIDE DEF v
      <3> QED BY <1>0, <1>2, <1>3, <1>5, <2>4, PkiCommit
    <2>6. v.signed \in Addresses \ {NoIP}
      BY <2>1, <2>3 DEF PkiObjects
    <2>7. issued'[c] > 0
      BY <1>0, <1>1, <1>5 DEF Sign
    <2> HIDE DEF v
    <2> QED BY <1>4, <2>4, <2>5, <2>6, <2>7 DEF CertificateSigned, Exists, ApiServerCert
  <1>6. CASE o # c
    <2>1. obj'[c] = obj[c]
      BY <1>0, <1>3, <1>6, CommitFrame, PkiNames DEF PkiTimelines
    <2>2. issued'[c] = issued[c]
      BY <1>0, <1>1, <1>6 DEF Sign
    <2> QED BY <2>1, <2>2 DEF CertificateSigned, WithoutAddress, Exists, Store, ApiServerCert
  <1> QED BY <1>5, <1>6

\* The other steps on the Pki's side write no certificate.
LEMMA CertElsewhere ==
  ASSUME Inductive, CertificateSigned,
         \/ \E o \in PkiWatches : Watch(o)
         \/ SeeAdminSecret
         \/ \E ip \in Addresses : ApplyPki(ip)
         \/ Crash
  PROVE  CertificateSigned' /\ UNCHANGED issued
  <1>0. PkiTimelines
    BY PkiTypes DEF Inductive
  <1>1. UNCHANGED issued
    BY DEF Watch, SeeAdminSecret, ApplyPki, Crash, pkiVars
  <1>2. ASSUME NEW o \in PkiWatches, Watch(o) PROVE CertificateSigned'
    <2>1. Store(ApiServerCert)' = Store(ApiServerCert)
      BY <1>0, <1>2, PkiDeliver, CertNames DEF Watch
    <2> QED BY <1>1, <2>1, CertStays
  <1>3. CASE SeeAdminSecret
    BY <1>1, <1>3, CertStays DEF SeeAdminSecret, clusterVars, Store
  <1>4. ASSUME NEW ip \in Addresses, ApplyPki(ip) PROVE CertificateSigned'
    <2>1. Commit("pki", [ip |-> ip])
      BY <1>4 DEF ApplyPki, Interfere
    <2> QED BY <1>1, <2>1, CertApart, CertNames, PkiNames
  <1>5. CASE Crash
    <2>1. Store(ApiServerCert)' = Store(ApiServerCert)
      BY <1>0, <1>5, PkiRelist, CertNames DEF Crash
    <2> QED BY <1>1, <2>1, CertStays
  <1> QED BY <1>1, <1>2, <1>3, <1>4, <1>5

-----------------------------------------------------------------------------
(* The component's side.                                                   *)

\* A timeline, of whatever versions.
Sequenced == \A o \in KubeObjects : kobj[o] # <<>> /\ \E S : kobj[o] \in Seq(S)

\* The names of the component's objects.
LEMMA BootstrapNames ==
  ASSUME NEW c \in K!Components
  PROVE  /\ K!ComponentObjects(c) \subseteq KubeObjects
         /\ \A t \in Tenants : K!Resource(t) \in K!ComponentObjects(c)
         /\ \A t \in Tenants, o \in K!ComponentChildren(c) :
              /\ K!Child(c, o, t) \in K!ComponentObjects(c)
              /\ K!Child(c, o, t)[1] = o
              /\ \A u \in Tenants : K!Child(c, o, t) # K!Resource(u)
         /\ "deployment" \in K!ComponentChildren(c)
  <1>1. K!ComponentChildren(c) \subseteq {"kubeconfig", "egress", "deployment"}
    BY DEF K!ComponentChildren, K!Configs
  <1>2. "deployment" \in K!ComponentChildren(c)
    BY DEF K!ComponentChildren
  <1>3. \A o \in K!ComponentChildren(c), t \in Tenants :
          /\ K!Child(c, o, t) \in {"kubeconfig", "egress", "deployment"} \X (Tenants \cup {"shared"})
          /\ K!Child(c, o, t)[1] = o
    BY <1>1 DEF K!Child
  <1>4. \A t \in Tenants : K!Resource(t) \in KubeObjects /\ K!Resource(t)[1] = "spec"
    BY DEF K!Resource, KubeObjects
  <1>5. \A o \in K!ComponentChildren(c), t, u \in Tenants : K!Child(c, o, t) # K!Resource(u)
    BY <1>1, <1>3, <1>4
  <1>6. K!ComponentObjects(c) \subseteq KubeObjects
    BY <1>3, <1>4 DEF K!ComponentObjects, K!ChildNames, KubeObjects
  <1>7. /\ \A t \in Tenants : K!Resource(t) \in K!ComponentObjects(c)
        /\ \A t \in Tenants, o \in K!ComponentChildren(c) :
             K!Child(c, o, t) \in K!ComponentObjects(c)
    BY DEF K!ComponentObjects, K!ChildNames
  <1> QED BY <1>2, <1>3, <1>5, <1>6, <1>7

\* The API server's steps in their order.
LEMMA ApiServerSteps ==
  ASSUME component = "kube-apiserver"
  PROVE  /\ K!Plan(component)[1] = "konnectivity"
         /\ K!NextStep("konnectivity") = "kubeconfig"
         /\ K!NextStep("kubeconfig") = "egress"
         /\ K!NextStep("egress") = "ca"
         /\ K!NextStep("ca") = "serving"
         /\ K!NextStep("deployment") = "idle"
         /\ K!Roles(component) = {"konnectivity", "ca", "serving", "service-accounts"}
         /\ K!ComponentChildren(component) = {"kubeconfig", "egress", "deployment"}
  <1> DEFINE plan == K!Plan(component)
  <1>1. plan = <<"konnectivity", "kubeconfig", "egress", "ca", "serving",
                 "service-accounts", "deployment">>
    BY DEF K!Plan, K!KubeAPIServerPlan
  <1>2. Len(plan) = 7 /\ DOMAIN plan = 1..7
    BY <1>1
  <1>3. ASSUME NEW i \in 1..7
        PROVE  K!NextStep(plan[i]) = IF i = 7 THEN "idle" ELSE plan[i + 1]
    <2>1. \A j \in 1..7 : plan[j] = plan[i] => j = i
      BY <1>1
    <2>2. (CHOOSE j \in DOMAIN plan : plan[j] = plan[i]) = i
      BY <1>2, <2>1
    <2> HIDE DEF plan
    <2>3. K!NextStep(plan[i]) =
            LET k == CHOOSE j \in DOMAIN plan : plan[j] = plan[i]
            IN  IF k = Len(plan) THEN "idle" ELSE plan[k + 1]
      BY DEF K!NextStep, plan
    <2> QED BY <1>2, <2>2, <2>3
  <1>4. /\ K!NextStep(plan[1]) = plan[2] /\ K!NextStep(plan[2]) = plan[3]
        /\ K!NextStep(plan[3]) = plan[4] /\ K!NextStep(plan[4]) = plan[5]
        /\ K!NextStep(plan[7]) = "idle"
    BY <1>3
  <1>5. /\ K!Roles(component) = {"konnectivity", "ca", "serving", "service-accounts"}
        /\ K!ComponentChildren(component) = {"kubeconfig", "egress", "deployment"}
    BY DEF K!Roles, K!ComponentChildren, K!Configs
  <1> QED BY <1>1, <1>4, <1>5

\* A write appends at most.
LEMMA KubeWrites ==
  ASSUME Sequenced, DOMAIN kobj = KubeObjects, NEW o \in KubeObjects, NEW v, K!Commit(o, v)
  PROVE  /\ Sequenced' /\ DOMAIN kobj' = KubeObjects
         /\ \A x \in KubeObjects \ {o} : kobj'[x] = kobj[x]
         /\ \A S : kobj[o] \in Seq(S) /\ v \in S => kobj'[o] \in Seq(S)
  <1>1. /\ DOMAIN kobj' = KubeObjects
        /\ \A x \in KubeObjects \ {o} : kobj'[x] = kobj[x]
        /\ kobj'[o] = IF v = K!Store(o) THEN kobj[o] ELSE Append(kobj[o], v)
    BY DEF K!Commit
  <1>2. \A S : kobj[o] \in Seq(S) /\ v \in S => kobj'[o] \in Seq(S)
    BY <1>1
  <1>3. PICK S : kobj[o] \in Seq(S)
    BY DEF Sequenced
  <1>4. kobj[o] \in Seq(S \cup {v}) /\ kobj[o] # <<>>
    BY <1>3 DEF Sequenced
  <1>5. kobj'[o] \in Seq(S \cup {v}) /\ kobj'[o] # <<>>
    BY <1>1, <1>4
  <1> QED BY <1>1, <1>2, <1>5 DEF Sequenced

\* A watch event drops a version that is not the last.
LEMMA KubeDelivers ==
  ASSUME Sequenced, DOMAIN kobj = KubeObjects, NEW o \in KubeObjects,
         NEW watched, K!Deliver(o, watched)
  PROVE  /\ Sequenced' /\ DOMAIN kobj' = KubeObjects
         /\ \A x \in KubeObjects : K!Store(x)' = K!Store(x)
         /\ \A x \in KubeObjects : \A S : kobj[x] \in Seq(S) => kobj'[x] \in Seq(S)
  <1>1. /\ kobj'[o] = Tail(kobj[o]) /\ Len(kobj[o]) # 1
        /\ DOMAIN kobj' = KubeObjects
        /\ \A x \in KubeObjects \ {o} : kobj'[x] = kobj[x]
    BY DEF K!Deliver, K!Fresh
  <1>2. ASSUME NEW S, kobj[o] \in Seq(S)
        PROVE  /\ kobj'[o] \in Seq(S) /\ kobj'[o] # <<>>
               /\ kobj'[o][Len(kobj'[o])] = kobj[o][Len(kobj[o])]
    <2>0. kobj[o] # <<>> /\ Len(kobj[o]) \in Nat \ {0}
      BY <1>2 DEF Sequenced
    <2>1. Len(kobj[o]) \in Nat /\ Len(kobj[o]) > 1
      <3> DEFINE n == Len(kobj[o])
      <3>1. n \in Nat \ {0} /\ n # 1
        BY <1>1, <2>0
      <3> HIDE DEF n
      <3>2. n \in Nat /\ n > 1
        BY <3>1
      <3> QED BY <3>2 DEF n
    <2>2. /\ Tail(kobj[o]) \in Seq(S)
          /\ Len(Tail(kobj[o])) = Len(kobj[o]) - 1
          /\ \A i \in 1..Len(Tail(kobj[o])) : Tail(kobj[o])[i] = kobj[o][i + 1]
      BY <1>2, <2>0, HeadTailProperties
    <2>3. Len(Tail(kobj[o])) # 0 /\ Len(<<>>) = 0
      BY <2>1, <2>2
    <2>4. Tail(kobj[o])[Len(Tail(kobj[o]))] = kobj[o][Len(kobj[o])]
      BY <2>1, <2>2
    <2>5. Tail(kobj[o]) # <<>>
      BY <2>3
    <2> QED BY <1>1, <2>2, <2>4, <2>5
  <1>3. PICK S : kobj[o] \in Seq(S)
    BY DEF Sequenced
  <1>4. /\ kobj'[o] \in Seq(S) /\ kobj'[o] # <<>>
        /\ kobj'[o][Len(kobj'[o])] = kobj[o][Len(kobj[o])]
    BY <1>2, <1>3
  <1>5. Sequenced'
    <2> SUFFICES ASSUME NEW x \in KubeObjects
                 PROVE  kobj'[x] # <<>> /\ \E R : kobj'[x] \in Seq(R)
      BY DEF Sequenced
    <2>1. CASE x = o
      BY <1>4, <2>1
    <2>2. CASE x # o
      BY <1>1, <2>2 DEF Sequenced
    <2> QED BY <2>1, <2>2
  <1>6. \A x \in KubeObjects : K!Store(x)' = K!Store(x)
    BY <1>1, <1>4 DEF K!Store
  <1> QED BY <1>1, <1>2, <1>5, <1>6

\* A restart lists the last versions.
LEMMA KubeRelists ==
  ASSUME Sequenced, DOMAIN kobj = KubeObjects, NEW watched, K!Relist(watched)
  PROVE  /\ Sequenced' /\ DOMAIN kobj' = KubeObjects
         /\ \A x \in KubeObjects : K!Store(x)' = K!Store(x)
         /\ \A x \in KubeObjects : \A S : kobj[x] \in Seq(S) => kobj'[x] \in Seq(S)
  <1>1. /\ DOMAIN kobj' = KubeObjects
        /\ \A x \in KubeObjects : kobj'[x] = <<K!Store(x)>>
    BY DEF K!Relist
  <1>2. ASSUME NEW x \in KubeObjects
        PROVE  kobj'[x] # <<>> /\ \E S : kobj'[x] \in Seq(S)
    <2>1. PICK v : v = K!Store(x)
      OBVIOUS
    <2>2. kobj'[x] = <<v>>
      BY <1>1, <1>2, <2>1
    <2>3. <<v>> \in Seq({v}) /\ <<v>> # <<>>
      OBVIOUS
    <2> QED BY <2>2, <2>3
  <1>3. ASSUME NEW x \in KubeObjects, NEW S, kobj[x] \in Seq(S)
        PROVE  kobj'[x] \in Seq(S)
    <2>1. kobj[x] # <<>> /\ Len(kobj[x]) \in 1..Len(kobj[x])
      BY <1>3 DEF Sequenced
    <2>2. PICK v \in S : v = K!Store(x)
      BY <1>3, <2>1 DEF K!Store
    <2>3. kobj'[x] = <<v>>
      BY <1>1, <1>3, <2>2
    <2> QED BY <2>3
  <1>4. \A x \in KubeObjects : K!Store(x)' = K!Store(x)
    BY <1>1 DEF K!Store
  <1> QED BY <1>1, <1>2, <1>3, <1>4 DEF Sequenced

\* What a step of the component's worker writes.
LEMMA ReconcileWrites ==
  ASSUME K!ComponentReconcile
  PROVE  \/ UNCHANGED kobj
         \/ \E o \in K!ComponentChildren(component) :
              kpc = o /\ K!Write(K!Child(component, o, ltenant), K!After(o))
  BY DEF K!ComponentReconcile, K!StartComponent, K!FindSecret, K!EnsureComponentChild,
         K!FailComponentChild, K!ChildFails, K!WriteFails

\* A pass goes on to its next step.
NextStepTaken ==
  /\ kpc \in K!Roles(component) \cup K!ComponentChildren(component)
  /\ kpc' = K!NextStep(kpc) /\ UNCHANGED <<ltenant, lres>>
  /\ kpc \in K!Roles(component) => SecretsIssued[lres.spec.tls[kpc]] > 0

\* Where it leaves the pass.
LEMMA ReconcileMoves ==
  ASSUME component \in K!Components, K!ComponentReconcile
  PROVE  /\ UNCHANGED component
         /\ \/ kpc' = "idle"
            \/ /\ kpc = "idle" /\ kpc' = K!Plan(component)[1]
               /\ \E t \in Tenants : /\ ltenant' = t /\ lres' = K!Cached(K!Resource(t))
                                     /\ lres' # Absent
            \/ NextStepTaken
  <1>1. ASSUME NEW s \in K!Roles(component) \cup K!ComponentChildren(component), kpc = s,
               NEW n, K!Advance(s, n),
               s \in K!Roles(component) => SecretsIssued[lres.spec.tls[s]] > 0
        PROVE  UNCHANGED component /\ (kpc' = "idle" \/ NextStepTaken)
    BY <1>1 DEF K!Advance, K!EndComponent, NextStepTaken
  <1>2. K!RequeueComponent => UNCHANGED component /\ kpc' = "idle"
    BY DEF K!RequeueComponent, K!EndComponent
  <1>3. ASSUME NEW t \in Tenants, K!StartComponent(t)
        PROVE  /\ UNCHANGED component
               /\ \/ kpc' = "idle"
                  \/ /\ kpc = "idle" /\ kpc' = K!Plan(component)[1]
                     /\ ltenant' = t /\ lres' = K!Cached(K!Resource(t)) /\ lres' # Absent
    BY <1>3 DEF K!StartComponent
  <1>4. ASSUME NEW r \in K!Roles(component), K!FindSecret(r)
        PROVE  UNCHANGED component /\ (kpc' = "idle" \/ NextStepTaken)
    <2>1. kpc = r
      BY <1>4 DEF K!FindSecret
    <2>2. \/ K!RequeueComponent
          \/ SecretsIssued[lres.spec.tls[r]] > 0 /\ \E n : K!Advance(r, n)
      BY <1>4 DEF K!FindSecret
    <2> QED BY <1>1, <1>2, <2>1, <2>2
  <1>5. ASSUME NEW o \in K!ComponentChildren(component), K!EnsureComponentChild(o)
        PROVE  UNCHANGED component /\ (kpc' = "idle" \/ NextStepTaken)
    <2>1. kpc = o /\ K!Advance(o, 0)
      BY <1>5 DEF K!EnsureComponentChild
    <2>2. o \notin K!Roles(component)
      BY DEF K!Components, K!Roles, K!ComponentChildren, K!Configs
    <2> QED BY <1>1, <2>1, <2>2
  <1>6. ASSUME NEW o \in K!ComponentChildren(component), K!FailComponentChild(o)
        PROVE  UNCHANGED component /\ kpc' = "idle"
    BY <1>2, <1>6 DEF K!FailComponentChild
  <1>7. CASE \E t \in Tenants : K!StartComponent(t)
    BY <1>3, <1>7
  <1>8. CASE \E r \in K!Roles(component) : K!FindSecret(r)
    BY <1>4, <1>8
  <1>9. CASE \E o \in K!ComponentChildren(component) :
               K!EnsureComponentChild(o) \/ K!FailComponentChild(o)
    BY <1>5, <1>6, <1>9
  <1> QED BY <1>7, <1>8, <1>9 DEF K!ComponentReconcile

\* The custom resources are not written, nor a Deployment before its step.
OthersKept ==
  /\ Sequenced' /\ DOMAIN kobj' = KubeObjects
  /\ \A t \in Tenants : kobj'[K!Resource(t)] = kobj[K!Resource(t)]
  /\ \A t \in Tenants : kpc # "deployment" =>
       kobj'[K!Child(component, "deployment", t)] = kobj[K!Child(component, "deployment", t)]

\* The component's worker.
LEMMA ReconcileStep ==
  ASSUME ServingSecret, Sequenced, SecretFirst, ResourcesConfigured,
         K!ComponentReconcile, UNCHANGED issued
  PROVE  Sequenced' /\ SecretFirst' /\ ResourcesConfigured'
  <1>0. /\ component \in K!Components /\ DOMAIN kobj = KubeObjects /\ UNCHANGED component
        /\ "idle" \notin K!Roles(component) \cup K!ComponentChildren(component)
    <2>1. component \in K!Components /\ DOMAIN kobj = KubeObjects
      BY DEF ResourcesConfigured
    <2>2. "idle" \notin K!Roles(component) \cup K!ComponentChildren(component)
      BY <2>1 DEF K!Components, K!Roles, K!ComponentChildren, K!Configs
    <2> QED BY <2>1, <2>2, ReconcileMoves
  <1>1. OthersKept
    <2>1. CASE UNCHANGED kobj
      BY <1>0, <2>1 DEF Sequenced, OthersKept
    <2>2. ASSUME NEW o \in K!ComponentChildren(component), kpc = o,
                 K!Write(K!Child(component, o, ltenant), K!After(o))
          PROVE  OthersKept
      <3> DEFINE name == K!Child(component, o, ltenant)
      <3>1. ltenant \in Tenants
        BY <1>0, <2>2 DEF ResourcesConfigured
      <3>2. /\ name \in KubeObjects /\ name[1] = o
            /\ \A t \in Tenants : K!Resource(t) \in KubeObjects /\ name # K!Resource(t)
            /\ \A t \in Tenants : /\ K!Child(component, "deployment", t) \in KubeObjects
                                  /\ K!Child(component, "deployment", t)[1] = "deployment"
        BY <1>0, <3>1, BootstrapNames
      <3>3. PICK v : K!Commit(name, v)
        BY <2>2 DEF K!Write
      <3> HIDE DEF name
      <3>4. /\ Sequenced' /\ DOMAIN kobj' = KubeObjects
            /\ \A x \in KubeObjects \ {name} : kobj'[x] = kobj[x]
        BY <1>0, <3>2, <3>3, KubeWrites
      <3> QED BY <2>2, <3>2, <3>4 DEF OthersKept
    <2> QED BY <2>1, <2>2, ReconcileWrites
  <1>2. kpc' # "idle" => ltenant' \in Tenants /\ lres' \in KubeResources
    <2>1. CASE kpc' = "idle"
      BY <2>1
    <2>2. ASSUME NEW t \in Tenants, ltenant' = t, lres' = K!Cached(K!Resource(t)), lres' # Absent
          PROVE  lres' \in KubeResources
      <3>1. kobj[K!Resource(t)] \in Seq(KubeResources \cup {Absent}) /\ kobj[K!Resource(t)] # <<>>
        BY <1>0, BootstrapNames DEF ResourcesConfigured, Sequenced
      <3> QED BY <2>2, <3>1 DEF K!Cached
    <2>3. CASE NextStepTaken
      BY <1>0, <2>3 DEF NextStepTaken, ResourcesConfigured
    <2> QED BY <1>0, <2>1, <2>2, <2>3, ReconcileMoves
  <1>3. ResourcesConfigured'
    BY <1>0, <1>1, <1>2 DEF ResourcesConfigured, KubeResources, K!Resource, OthersKept
  <1>4. ASSUME component = "kube-apiserver", kpc' \in {"service-accounts", "deployment"}
        PROVE  issued[ApiServerCert] > 0
    <2>1. NextStepTaken
      BY <1>0, <1>4, ReconcileMoves, ApiServerSteps
    <2>2. kpc \in {"serving", "service-accounts"}
      BY <1>4, <2>1, ApiServerSteps DEF NextStepTaken
    <2>3. CASE kpc = "service-accounts"
      BY <1>4, <2>3 DEF SecretFirst, ApiServerCert
    <2>4. CASE kpc = "serving"
      <3>1. SecretsIssued[lres.spec.tls["serving"]] > 0
        BY <1>4, <2>1, <2>4, ApiServerSteps DEF NextStepTaken
      <3>2. lres.spec \in KubeSpecs["kube-apiserver"]
        BY <1>4, <2>4 DEF ResourcesConfigured, KubeResources
      <3>3. lres.spec.tls["serving"] = SecretOf[ApiServerCert]
        BY <3>2 DEF ServingSecret, ApiServerCert
      <3>4. (CHOOSE o \in Certificates : SecretOf[o] = SecretOf[ApiServerCert]) = ApiServerCert
        BY CertNames DEF ServingSecret, ApiServerCert
      <3>5. SecretOf[ApiServerCert] \in SecretNames
        BY CertNames DEF SecretNames
      <3>6. SecretsIssued[SecretOf[ApiServerCert]] = issued[ApiServerCert]
        BY <3>4, <3>5 DEF SecretsIssued
      <3> QED BY <3>1, <3>3, <3>6
    <2> QED BY <2>2, <2>3, <2>4
  <1>5. ASSUME component = "kube-apiserver", NEW t \in Tenants,
               K!Exists(K!Child("kube-apiserver", "deployment", t))'
        PROVE  issued[ApiServerCert] > 0
    <2>1. CASE kpc = "deployment"
      BY <1>5, <2>1 DEF SecretFirst, ApiServerCert
    <2>2. CASE kpc # "deployment"
      <3>1. kobj'[K!Child("kube-apiserver", "deployment", t)]
              = kobj[K!Child("kube-apiserver", "deployment", t)]
        BY <1>1, <1>5, <2>2 DEF OthersKept
      <3> QED BY <1>5, <3>1 DEF SecretFirst, ApiServerCert, K!Exists, K!Store
    <2> QED BY <2>1, <2>2
  <1>6. SecretFirst'
    BY <1>0, <1>4, <1>5 DEF SecretFirst, ApiServerCert
  <1> QED BY <1>1, <1>3, <1>6 DEF OthersKept
\* The objects that the steps below leave alone.
LEMMA KeptNames ==
  ASSUME component \in K!Components
  PROVE  /\ \A t \in Tenants : K!Resource(t) \in KubeObjects
         /\ \A t \in Tenants :
              /\ K!Child(component, "deployment", t) \in KubeObjects
              /\ \A u \in Tenants : K!Child(component, "deployment", t) # K!Resource(u)
         /\ \A t, u \in Tenants : t # u => K!Resource(t) # K!Resource(u)
  BY BootstrapNames DEF K!Resource

\* The steps in which no pass gets further and no Deployment appears.
LEMMA NothingDeployed ==
  ASSUME SecretFirst, ResourcesConfigured, UNCHANGED component,
         issued[ApiServerCert] > 0 => issued'[ApiServerCert] > 0,
         \/ kpc' = "idle"
         \/ UNCHANGED <<kpc, ltenant, lres>>,
         DOMAIN kobj' = KubeObjects,
         \A t \in Tenants : kobj'[K!Resource(t)] \in Seq(KubeResources \cup {Absent}),
         \A t \in Tenants : component = "kube-apiserver" =>
           K!Store(K!Child("kube-apiserver", "deployment", t))'
             = K!Store(K!Child("kube-apiserver", "deployment", t))
  PROVE  SecretFirst' /\ ResourcesConfigured'
  <1>1. ResourcesConfigured'
    BY DEF ResourcesConfigured, KubeResources, K!Resource
  <1>2. SecretFirst'
    BY DEF SecretFirst, ApiServerCert, K!Exists
  <1> QED BY <1>1, <1>2

\* The Pki's side steps.
LEMMA ComponentRests ==
  ASSUME Sequenced, SecretFirst, ResourcesConfigured, UNCHANGED kubeVars,
         issued[ApiServerCert] > 0 => issued'[ApiServerCert] > 0
  PROVE  Sequenced' /\ SecretFirst' /\ ResourcesConfigured'
  <1>1. UNCHANGED <<kobj, component, kpc, ltenant, lres>>
    BY DEF kubeVars
  <1>2. Sequenced'
    BY <1>1 DEF Sequenced
  <1>3. /\ DOMAIN kobj' = KubeObjects
        /\ \A t \in Tenants : kobj'[K!Resource(t)] \in Seq(KubeResources \cup {Absent})
        /\ \A o : K!Store(o)' = K!Store(o)
    BY <1>1 DEF ResourcesConfigured, K!Store
  <1> QED BY <1>1, <1>2, <1>3, NothingDeployed

\* A watch event reaches the component's controller.
LEMMA WatchedStep ==
  ASSUME Sequenced, SecretFirst, ResourcesConfigured,
         NEW o \in K!ComponentObjects(component), ComponentWatch(o)
  PROVE  Sequenced' /\ SecretFirst' /\ ResourcesConfigured'
  <1>0. component \in K!Components /\ DOMAIN kobj = KubeObjects /\ o \in KubeObjects
    BY BootstrapNames DEF ResourcesConfigured
  <1>1. /\ \E watched : K!Deliver(o, watched)
        /\ UNCHANGED <<issued, component, kpc, ltenant, lres>>
    BY DEF ComponentWatch, pkiSide, pkiVars
  <1>2. /\ Sequenced' /\ DOMAIN kobj' = KubeObjects
        /\ \A x \in KubeObjects : K!Store(x)' = K!Store(x)
        /\ \A x \in KubeObjects : \A S : kobj[x] \in Seq(S) => kobj'[x] \in Seq(S)
    BY <1>0, <1>1, KubeDelivers
  <1>3. \A t \in Tenants : kobj'[K!Resource(t)] \in Seq(KubeResources \cup {Absent})
    BY <1>0, <1>2, KeptNames DEF ResourcesConfigured
  <1>4. \A t \in Tenants : component = "kube-apiserver" =>
          K!Store(K!Child("kube-apiserver", "deployment", t))'
            = K!Store(K!Child("kube-apiserver", "deployment", t))
    BY <1>0, <1>2, KeptNames
  <1> QED BY <1>1, <1>2, <1>3, <1>4, NothingDeployed

\* The ControlPlane reconciler writes a custom resource.
LEMMA ConfigureStep ==
  ASSUME Sequenced, SecretFirst, ResourcesConfigured,
         NEW t \in Tenants, NEW spec \in KubeSpecs[component], Configure(t, spec)
  PROVE  Sequenced' /\ SecretFirst' /\ ResourcesConfigured'
  <1> DEFINE v == [spec |-> spec, uid |-> 0]
  <1>0. component \in K!Components /\ DOMAIN kobj = KubeObjects /\ K!Resource(t) \in KubeObjects
    BY BootstrapNames DEF ResourcesConfigured
  <1>1. K!Commit(K!Resource(t), v) /\ UNCHANGED <<issued, component, kpc, ltenant, lres>>
    BY DEF Configure, K!Interfere, pkiSide, pkiVars
  <1>2. v \in KubeResources \cup {Absent}
    BY DEF KubeResources
  <1> HIDE DEF v
  <1>3. /\ Sequenced' /\ DOMAIN kobj' = KubeObjects
        /\ \A x \in KubeObjects \ {K!Resource(t)} : kobj'[x] = kobj[x]
        /\ \A S : kobj[K!Resource(t)] \in Seq(S) /\ v \in S => kobj'[K!Resource(t)] \in Seq(S)
    BY <1>0, <1>1, KubeWrites
  <1>4. kobj'[K!Resource(t)] \in Seq(KubeResources \cup {Absent})
    BY <1>2, <1>3 DEF ResourcesConfigured
  <1>5. \A u \in Tenants : kobj'[K!Resource(u)] \in Seq(KubeResources \cup {Absent})
    BY <1>0, <1>3, <1>4, KeptNames DEF ResourcesConfigured
  <1>6. \A u \in Tenants : component = "kube-apiserver" =>
          K!Store(K!Child("kube-apiserver", "deployment", u))'
            = K!Store(K!Child("kube-apiserver", "deployment", u))
    BY <1>0, <1>3, KeptNames DEF K!Store
  <1> QED BY <1>1, <1>3, <1>5, <1>6, NothingDeployed

\* Both workers start again.
LEMMA RestartStep ==
  ASSUME Sequenced, SecretFirst, ResourcesConfigured, Restart
  PROVE  Sequenced' /\ SecretFirst' /\ ResourcesConfigured'
  <1>0. component \in K!Components /\ DOMAIN kobj = KubeObjects
    BY DEF ResourcesConfigured
  <1>1. /\ \E watched : K!Relist(watched)
        /\ UNCHANGED <<issued, component>> /\ kpc' = "idle"
    BY DEF Restart, Crash, K!EndComponent
  <1>2. /\ Sequenced' /\ DOMAIN kobj' = KubeObjects
        /\ \A x \in KubeObjects : K!Store(x)' = K!Store(x)
        /\ \A x \in KubeObjects : \A S : kobj[x] \in Seq(S) => kobj'[x] \in Seq(S)
    BY <1>0, <1>1, KubeRelists
  <1>3. \A t \in Tenants : kobj'[K!Resource(t)] \in Seq(KubeResources \cup {Absent})
    BY <1>0, <1>2, KeptNames DEF ResourcesConfigured
  <1>4. \A t \in Tenants : component = "kube-apiserver" =>
          K!Store(K!Child("kube-apiserver", "deployment", t))'
            = K!Store(K!Child("kube-apiserver", "deployment", t))
    BY <1>0, <1>2, KeptNames
  <1> QED BY <1>1, <1>2, <1>3, <1>4, NothingDeployed

-----------------------------------------------------------------------------
(* The two together.                                                       *)

\* The component's side steps.
LEMMA PkiRests ==
  ASSUME Inductive, CertificateSigned, UNCHANGED pkiSide, budget' \in Nat
  PROVE  Inductive' /\ CertificateSigned'
  <1>1. UNCHANGED <<obj, queue, pkipc, lpki, lsecret, adminSeen, issued>>
    BY DEF pkiSide, pkiVars, passVars
  <1>2. PkiTimelines' /\ PkiLocals' /\ AddressKnown'
    BY <1>1, PkiTypes
       DEF Inductive, PkiTimelines, Timeline, PkiLocals, AddressKnown
  <1>3. CertificateSigned'
    BY <1>1, CertStays DEF Store
  <1> QED BY <1>2, <1>3, PkiTypesNext DEF Inductive

\* What no step changes, and the first state has.
BootstrapHolds == BootstrapInductive /\ Sequenced

LEMMA BootstrapStarts ==
  BootstrapInit => BootstrapHolds
  <1> SUFFICES ASSUME BootstrapInit PROVE BootstrapHolds
    OBVIOUS
  <1>1. Inductive
    BY InductiveInit DEF BootstrapInit
  <1>2. issued[ApiServerCert] = 0 /\ Store(ApiServerCert) = Absent
    BY CertNames, PkiNames DEF BootstrapInit, Init, ClusterInit, PkiInit, Store
  <1>3. CertificateSigned
    BY <1>2 DEF CertificateSigned, WithoutAddress, Exists, ApiServerCert
  <1>4. component \in K!Components /\ kpc = "idle"
    BY DEF BootstrapInit, K!ComponentInit
  <1>5. kobj = [o \in KubeObjects |-> <<Absent>>]
    BY DEF BootstrapInit, K!ClusterInit
  <1>6. <<Absent>> # <<>> /\ <<Absent>> \in Seq({Absent})
        /\ <<Absent>> \in Seq(KubeResources \cup {Absent})
    OBVIOUS
  <1>7. Sequenced /\ ResourcesConfigured
    <2>1. Sequenced
      BY <1>5, <1>6 DEF Sequenced
    <2>2. \A t \in Tenants : kobj[K!Resource(t)] = <<Absent>>
      BY <1>4, <1>5, BootstrapNames
    <2> QED BY <1>4, <1>5, <1>6, <2>1, <2>2 DEF ResourcesConfigured
  <1>8. SecretFirst
    <2>1. \A t \in Tenants : kobj[K!Child(component, "deployment", t)] = <<Absent>>
      BY <1>4, <1>5, KeptNames
    <2>2. \A t \in Tenants : ~K!Exists(K!Child(component, "deployment", t))
      BY <2>1 DEF K!Exists, K!Store
    <2> QED BY <1>4, <2>2 DEF SecretFirst
  <1> QED BY <1>1, <1>3, <1>7, <1>8 DEF BootstrapHolds, BootstrapInductive

LEMMA BootstrapStep ==
  ASSUME ServingSecret, BootstrapHolds, [BootstrapNext]_bootstrapVars
  PROVE  BootstrapHolds'
  <1> USE DEF BootstrapHolds, BootstrapInductive
  <1>0. budget \in Nat
    BY DEF Inductive, TypeOK
  <1>1. CASE PkiWorker
    <2>1. PkiReconcile /\ UNCHANGED kubeVars
      BY <1>1 DEF PkiWorker
    <2>2. CertificateSigned' /\ UNCHANGED issued
      BY <2>1, CertWorker
    <2> QED BY <2>1, <2>2, WorkerStep, ComponentRests
  <1>2. CASE Signer
    <2>1. CertManager /\ UNCHANGED kubeVars
      BY <1>2 DEF Signer
    <2> QED BY <2>1, CertSigned, SignStep, ComponentRests
  <1>3. ASSUME UNCHANGED kubeVars,
               \/ \E o \in PkiWatches : Watch(o)
               \/ SeeAdminSecret
        PROVE  BootstrapHolds'
    BY <1>3, CertElsewhere, OtherSteps, ComponentRests
  <1>4. CASE \E o \in PkiWatches : PkiWatch(o)
    BY <1>3, <1>4 DEF PkiWatch
  <1>5. CASE SecretWatch
    BY <1>3, <1>5 DEF SecretWatch
  <1>6. ASSUME NEW ip \in Addresses, Address(ip) PROVE BootstrapHolds'
    <2>1. ApplyPki(ip) /\ Environment /\ UNCHANGED kubeVars
      BY <1>6 DEF Address, Environment
    <2> QED BY <2>1, CertElsewhere, EnvironmentStep, ComponentRests
  <1>7. CASE ComponentWorker
    <2>1. K!ComponentReconcile /\ UNCHANGED pkiSide /\ UNCHANGED issued
      BY <1>7 DEF ComponentWorker, pkiSide, pkiVars
    <2>2. budget' \in Nat
      BY <1>0, <2>1
         DEF K!ComponentReconcile, K!StartComponent, K!FindSecret, K!EnsureComponentChild,
             K!FailComponentChild, K!ChildFails, K!WriteFails, K!Disturb
    <2> QED BY <2>1, <2>2, PkiRests, ReconcileStep
  <1>8. ASSUME NEW o \in K!ComponentObjects(component), ComponentWatch(o)
        PROVE  BootstrapHolds'
    <2>1. UNCHANGED pkiSide /\ budget' \in Nat
      BY <1>0, <1>8 DEF ComponentWatch, K!Deliver, pkiSide
    <2> QED BY <1>8, <2>1, PkiRests, WatchedStep
  <1>9. ASSUME NEW t \in Tenants, NEW spec \in KubeSpecs[component], Configure(t, spec)
        PROVE  BootstrapHolds'
    <2>1. UNCHANGED pkiSide /\ budget' \in Nat
      BY <1>0, <1>9 DEF Configure, K!Interfere, K!Disturb, pkiSide
    <2> QED BY <1>9, <2>1, PkiRests, ConfigureStep
  <1>10. CASE Restart
    <2>1. Crash
      BY <1>10 DEF Restart
    <2> QED BY <1>10, <2>1, CertElsewhere, OtherSteps, RestartStep
  <1>11. CASE UNCHANGED bootstrapVars
    <2>1. UNCHANGED kubeVars /\ UNCHANGED vars
      BY <1>11 DEF bootstrapVars
    <2>2. UNCHANGED <<obj, issued>>
      BY <2>1 DEF vars, clusterVars, pkiVars
    <2>3. CertificateSigned'
      BY <2>2, CertStays DEF Store
    <2> QED BY <2>1, <2>2, <2>3, OtherSteps, ComponentRests
  <1> QED BY <1>1, <1>2, <1>4, <1>5, <1>6, <1>7, <1>8, <1>9, <1>10, <1>11 DEF BootstrapNext

\* No API server is started before its certificate holds the address of the
\* control plane, whatever becomes of the address and of either worker,
\* provided the specs name the certificate's own Secret as the one to serve with.
THEOREM AddressServed ==
  ASSUME ServingSecret
  PROVE  BootstrapSpec => []ServedWithAddress
  <1>1. BootstrapInit => BootstrapHolds
    BY BootstrapStarts
  <1>2. BootstrapHolds /\ [BootstrapNext]_bootstrapVars => BootstrapHolds'
    BY BootstrapStep
  <1>3. BootstrapHolds => ServedWithAddress
    BY DEF BootstrapHolds, BootstrapInductive, SecretFirst, CertificateSigned,
           ServedWithAddress, ApiServerCert
  <1> QED BY <1>1, <1>2, <1>3, PTL DEF BootstrapSpec
==============================================================================
