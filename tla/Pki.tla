---------------------------------- MODULE Pki ----------------------------------
(***************************************************************************)
(* The Pki reconciler in its environment: the ControlPlane reconciler,     *)
(* which writes the Pki and its address, cert-manager, which signs         *)
(* certificates once their issuers are there and renews them, users who    *)
(* edit or remove certificates, lost requests, and crashes.                *)
(***************************************************************************)
EXTENDS PkiReconciler, FiniteSets

CONSTANTS
  MaxLag,  \* a bound on the objects whose cache is behind when someone other
           \* than the operator acts
  Tampered \* the children that users may edit or remove

ASSUME MaxLagIsNat == MaxLag \in Nat
ASSUME PkiIsPresent == PkiWatches \subseteq Objects /\ "pki" \in Controllers
ASSUME TamperedAreChildren == Tampered \subseteq PkiChildren
ASSUME UnsignedIsNoAddress == Unsigned \notin Addresses
ASSUME AbsentIsNoPkiObject == Absent \notin PkiObjects

vars == <<clusterVars, pkiVars>>

Watches == [c \in {"pki"} |-> PkiWatches]

Init == ClusterInit /\ PkiInit

-----------------------------------------------------------------------------
(* The environment.                                                        *)

\* How many caches are behind.
Lag ==
  Cardinality({o \in PkiWatches : ~Fresh(o)})
    + (IF adminSeen = issued["adminCert"] THEN 0 ELSE 1)

\* The ControlPlane reconciler creates the Pki or patches its address.
ApplyPki(ip) ==
  /\ Interfere("apply", "pki", [ip |-> ip])
  /\ UNCHANGED pkiVars

RemovePki ==
  /\ Exists("pki")
  /\ Interfere("delete", "pki", Absent)
  /\ UNCHANGED pkiVars

\* A child's spec is edited behind the operator's back, or the child removed.
EditPkiChild(o, ip) ==
  /\ Exists(o)
  /\ Interfere("drift", o, [Store(o) EXCEPT !.ip = ip])
  /\ UNCHANGED pkiVars

RemovePkiChild(o) ==
  /\ Exists(o)
  /\ Interfere("remove", o, Absent)
  /\ UNCHANGED pkiVars

\* cert-manager renews the administrator's certificate: a new Secret, and a
\* new revision in the Certificate's status, of which alone the operator is told.
Renew ==
  /\ issued["adminCert"] > 0 /\ Exists("adminCert")
  /\ Interfere("renew", "adminCert",
       [Store("adminCert") EXCEPT !.issue = issued["adminCert"] + 1])
  /\ issued' = [issued EXCEPT !["adminCert"] = @ + 1]
  /\ UNCHANGED <<passVars, adminSeen>>

Crash ==
  /\ Relist(Watches) /\ EndPki
  /\ adminSeen' = issued["adminCert"]
  /\ UNCHANGED issued

Environment ==
  /\ Lag <= MaxLag
  /\ \/ \E ip \in Addresses : ApplyPki(ip)
     \/ RemovePki
     \/ \E o \in Tampered, ip \in Addresses : EditPkiChild(o, ip)
     \/ \E o \in Tampered : RemovePkiChild(o)
     \/ Renew
     \/ Crash

\* cert-manager: the root CA is signed by the self-signed issuer, the other
\* certificates by the CA issuer, which needs the root CA's Secret.
CanSign(o) ==
  /\ Exists(o) /\ Store(o).signed # Store(o).ip
  /\ o = "rootCa" => Exists("rootIssuer")
  /\ o \in ({"rootCaIssuer"} \cup Certificates) \ {"rootCa"} => issued["rootCa"] > 0
  /\ o \in Certificates \ {"rootCa"} => Exists("rootCaIssuer")

\* It makes the Secret of a certificate and reports in the status, which is a
\* write the operator is told about.
Sign(o) ==
  /\ Lag <= MaxLag
  /\ CanSign(o)
  /\ Commit(o, [Store(o) EXCEPT !.signed = Store(o).ip,
                               !.issue = IF o = "adminCert" THEN issued[o] + 1 ELSE 0])
  /\ issued' = IF o \in Certificates
                 THEN [issued EXCEPT ![o] = IF o = "adminCert" THEN @ + 1 ELSE 1]
                 ELSE issued
  /\ UNCHANGED <<queue, budget, passVars, adminSeen>>

CertManager == \E o \in Issuers \cup Certificates : Sign(o)

Watch(o) == Deliver(o, Watches) /\ UNCHANGED pkiVars

\* The administrator's Secret reaches the cache; it is not the Pki's, so no
\* request comes of it.
SeeAdminSecret ==
  /\ adminSeen # issued["adminCert"]
  /\ adminSeen' = issued["adminCert"]
  /\ UNCHANGED <<clusterVars, passVars, issued>>

Quiet == "pki" \notin queue /\ \A o \in PkiWatches : Fresh(o)

Settled == Quiet /\ pkipc = "idle"

\* The informers' resync comes hours apart, to a controller at rest.
PeriodicResync == Settled /\ Resync(Watches) /\ UNCHANGED pkiVars

Next ==
  \/ PkiReconcile
  \/ CertManager
  \/ \E o \in PkiWatches : Watch(o)
  \/ SeeAdminSecret
  \/ PeriodicResync
  \/ Environment

Spec == Init /\ [][Next]_vars

\* The worker runs (a delayed request becomes due), the watches deliver, and
\* cert-manager signs.
Fairness ==
  /\ WF_vars(PkiReconcile)
  /\ WF_vars(CertManager)
  /\ \A o \in PkiWatches : WF_vars(Watch(o))
  /\ WF_vars(SeeAdminSecret)

FairSpec == Spec /\ Fairness

-----------------------------------------------------------------------------
(* Properties.                                                             *)

TypeOK ==
  /\ DOMAIN obj = Objects
  /\ \A o \in PkiChildren : obj[o] \in Seq(PkiObjects \cup {Absent}) /\ obj[o] # <<>>
  /\ obj["pki"] \in Seq(Pkis \cup {Absent}) /\ obj["pki"] # <<>>
  /\ queue \subseteq Controllers
  /\ budget \in Nat
  /\ pkipc \in PkiSteps \cup {"idle"}
  /\ lpki \in IF pkipc = "idle" THEN {Absent} ELSE Pkis
  /\ lsecret \in Nat /\ adminSeen \in Nat
  /\ issued \in [Certificates -> Nat]

\* A child's spec is what the Pki asks for.
InSync(o) ==
  /\ Exists(o)
  /\ Store(o).ip = IF o \in Addressed THEN Store("pki").ip ELSE NoIP

\* When nothing is left to do for the controller, the Pki has its address
\* and every issuer, certificate and kubeconfig is what it asks for.
SettledPki ==
  Settled /\ Exists("pki") =>
    Store("pki").ip # NoIP /\ \A o \in PkiChildren : InSync(o)

\* Neither the controller nor cert-manager has anything left to do.
AllIdle == Settled /\ \A o \in Issuers \cup Certificates : ~CanSign(o)

\* Once everything is idle, a Pki with an address has the Secret of every
\* certificate: the list the README shows of a deployed control plane.  Not
\* true when requests are lost, for the pass does not look at their errors.
SecretsMade ==
  AllIdle /\ Exists("pki") /\ Store("pki").ip # NoIP
    => \A o \in Certificates : issued[o] > 0

\* The certificate of the API server has no address in it.
WithoutAddress ==
  Exists("kubeAPIServerCert") /\ Store("kubeAPIServerCert").ip = NoIP

\* The operator never asks for a certificate of the API server without an
\* address, nor takes the address out of one when the Pki loses its own: the
\* worker nodes would not trust it (the wait between the administrator's
\* kubeconfig and the API server's certificate).  Only a user's edit does.
AddressBeforeCertificate ==
  [][WithoutAddress'
       => WithoutAddress \/ EditPkiChild("kubeAPIServerCert", NoIP)]_vars

\* A Pki that keeps its address gets every certificate signed for it: the
\* order of a pass and its two waits do not wait for each other in a circle.
EverythingSigned ==
  \A ip \in Addresses \ {NoIP} :
    <>[](Exists("pki") /\ Store("pki").ip = ip)
      => <>[](/\ Exists("pki")
              /\ \A o \in Certificates : issued[o] > 0
              /\ \A o \in PkiChildren : InSync(o)
              /\ Store("kubeAPIServerCert").signed = ip)

\* The kubeconfig the administrator gets holds the certificate as issued last.
\* A pass that the renewal's event starts may still read the old Secret, and
\* the Secret itself wakes nobody up: the resync makes up for that.
AdminKubeconfigRenewed ==
  WF_vars(PeriodicResync) =>
    <>[](Exists("pki") => /\ Exists("adminKubeconfig")
                          /\ Store("adminKubeconfig").issue = issued["adminCert"])

-----------------------------------------------------------------------------
(* The strengthening under which every step keeps AddressBeforeCertificate *)
(* and, where no write fails but for a stale cache, SettledPki.            *)

\* The position of a step in a pass.
PkiRank ==
  [rootIssuer                |-> 1,
   rootCa                    |-> 2,
   rootCaIssuer              |-> 3,
   adminCert                 |-> 4,
   adminSecret               |-> 5,
   adminKubeconfig           |-> 6,
   kubeAPIServerCert         |-> 7,
   serviceAccountCert        |-> 8,
   kubeControllerManagerCert |-> 9,
   kubeSchedulerCert         |-> 10,
   konnectivityCert          |-> 11]

\* The children that a running pass has behind it.
PkiDone == {o \in PkiChildren : PkiRank[o] < PkiRank[pkipc]}

\* A pass gets to the API server's certificate, and beyond, with an address only.
AddressKnown ==
  pkipc # "idle" /\ PkiRank[pkipc] > PkiRank["adminKubeconfig"] => lpki.ip # NoIP

\* While nothing is queued and the cache is up to date, a running pass works on
\* the Pki as it is and leaves children behind that are what the Pki asks for;
\* with no pass running that goes for all of them, and the Pki has its address.
PkiPass ==
  Quiet =>
    /\ pkipc # "idle" =>
         lpki = Store("pki") /\ \A o \in PkiDone : InSync(o)
    /\ pkipc = "idle" /\ Exists("pki") =>
         Store("pki").ip # NoIP /\ \A o \in PkiChildren : InSync(o)

Inductive == TypeOK /\ AddressKnown
==============================================================================
