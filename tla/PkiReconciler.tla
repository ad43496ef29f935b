----------------------------- MODULE PkiReconciler -----------------------------
(***************************************************************************)
(* PkiReconciler.Reconcile: a pass writes two issuers, seven certificates  *)
(* and the administrator's kubeconfig, in an order that lets cert-manager  *)
(* work in between.  It waits, by asking for a requeue, for the Secret of  *)
(* the administrator's certificate and for the control plane's address.    *)
(* Its writes are best effort: the result of CreateOrPatch is not looked   *)
(* at.                                                                     *)
(***************************************************************************)
EXTENDS Resources

CONSTANT Unsigned \* the status of an object cert-manager has not dealt with

VARIABLES
  pkipc,     \* the step the running pass takes next, or "idle"
  lpki,      \* the pass's copy of the Pki
  lsecret,   \* the administrator's certificate, as issued for the n-th time,
             \* that the pass has read
  adminSeen, \* ... that the cache holds (0: no Secret)
  issued     \* certificate -> how often its Secret was issued (0: no Secret)

passVars == <<pkipc, lpki, lsecret>>
pkiVars == <<passVars, adminSeen, issued>>

Issuers == {"rootIssuer", "rootCaIssuer"}

Certificates ==
  {"rootCa", "adminCert", "kubeAPIServerCert", "serviceAccountCert",
   "kubeControllerManagerCert", "kubeSchedulerCert", "konnectivityCert"}

PkiChildren == Issuers \cup Certificates \cup {"adminKubeconfig"}

\* Mutant: Owns(Certificate) was forgotten.
WatchesWithoutCertificates == {"pki", "adminKubeconfig"} \cup Issuers

\* For(Pki), Owns(Certificate), Owns(Issuer) and Owns(Secret).  The Secrets
\* cert-manager makes for the certificates are not owned by the Pki.
PkiWatches == {"pki"} \cup PkiChildren

\* The address in an object's spec (NoIP where it has none), the address
\* cert-manager reports in its status to have dealt with, and which issue of
\* the administrator's certificate a kubeconfig holds or a status tells of.
PkiObjects == [ip : Addresses, signed : Addresses \cup {Unsigned}, issue : Nat]

\* Only the API server's certificate and the administrator's kubeconfig hold
\* the control plane's address.
Addressed == {"adminKubeconfig", "kubeAPIServerCert"}

\* The mutated child: its spec (or data) is overwritten, its status is kept.
PkiChildFor(o, pki, signed, issue) ==
  [ip |-> IF o \in Addressed THEN pki.ip ELSE NoIP, signed |-> signed, issue |-> issue]

NewPkiObject == [signed |-> Unsigned, issue |-> 0]

\* Mutant: the certificate in a kubeconfig that exists is left alone.
AfterPkiOnce(o) ==
  LET before == IF Cached(o) = Absent THEN [NewPkiObject EXCEPT !.issue = lsecret]
                                      ELSE Cached(o)
  IN  PkiChildFor(o, lpki, before.signed, before.issue)

AfterPki(o) ==
  LET before == IF Cached(o) = Absent THEN NewPkiObject ELSE Cached(o)
  IN  PkiChildFor(o, lpki, before.signed,
                  IF o = "adminKubeconfig" THEN lsecret ELSE before.issue)

\* Mutant: the API server's certificate is made before there is an address
\* to put in it, the wait for the address comes after it.
WaitsForAddressLate(o) == o = "kubeAPIServerCert" /\ lpki.ip = NoIP

\* Without an address the pass ends after the administrator's kubeconfig.
WaitsForAddress(o) == o = "adminKubeconfig" /\ lpki.ip = NoIP

\* Mutant: the Secret is asked for before the certificate is written.
NextPkiStepSecretFirst ==
  [rootIssuer                |-> "rootCa",
   rootCa                    |-> "rootCaIssuer",
   rootCaIssuer              |-> "adminSecret",
   adminSecret               |-> "adminCert",
   adminCert                 |-> "adminKubeconfig",
   adminKubeconfig           |-> "kubeAPIServerCert",
   kubeAPIServerCert         |-> "serviceAccountCert",
   serviceAccountCert        |-> "kubeControllerManagerCert",
   kubeControllerManagerCert |-> "kubeSchedulerCert",
   kubeSchedulerCert         |-> "konnectivityCert",
   konnectivityCert          |-> "idle"]

\* The order of a pass; "adminSecret" is the Get of the Secret.
NextPkiStep ==
  [rootIssuer                |-> "rootCa",
   rootCa                    |-> "rootCaIssuer",
   rootCaIssuer              |-> "adminCert",
   adminCert                 |-> "adminSecret",
   adminSecret               |-> "adminKubeconfig",
   adminKubeconfig           |-> "kubeAPIServerCert",
   kubeAPIServerCert         |-> "serviceAccountCert",
   serviceAccountCert        |-> "kubeControllerManagerCert",
   kubeControllerManagerCert |-> "kubeSchedulerCert",
   kubeSchedulerCert         |-> "konnectivityCert",
   konnectivityCert          |-> "idle"]

PkiSteps == DOMAIN NextPkiStep

PkiInit ==
  /\ pkipc = "idle" /\ lpki = Absent /\ lsecret = 0
  /\ adminSeen = 0 /\ issued = [o \in Certificates |-> 0]

EndPki == pkipc' = "idle" /\ lpki' = Absent /\ lsecret' = 0

\* RequeueAfter: the request comes back after three seconds.
RequeuePki == queue' = queue \cup {"pki"} /\ EndPki

\* The pass goes on after a step, with the Secret it has read.
Proceed(o, secret) ==
  IF WaitsForAddress(o)
    THEN RequeuePki
    ELSE /\ pkipc' = NextPkiStep[o] /\ lsecret' = secret
         /\ lpki' = IF NextPkiStep[o] = "idle" THEN Absent ELSE lpki
         /\ UNCHANGED queue

\* Mutant: a Pki that is not found is reconciled all the same.
StartPkiUnchecked ==
  /\ pkipc = "idle"
  /\ "pki" \in queue
  /\ queue' = queue \ {"pki"}
  /\ pkipc' = "rootIssuer" /\ lpki' = Cached("pki")
  /\ UNCHANGED <<obj, current, budget, lsecret, adminSeen, issued>>

\* The worker takes the request and reads the Pki from the cache.
StartPki ==
  /\ pkipc = "idle"
  /\ "pki" \in queue
  /\ queue' = queue \ {"pki"}
  /\ IF Cached("pki") = Absent
       THEN UNCHANGED <<pkipc, lpki>>
       ELSE pkipc' = "rootIssuer" /\ lpki' = Cached("pki")
  /\ UNCHANGED <<obj, current, budget, lsecret, adminSeen, issued>>

EnsurePkiChild(o) ==
  /\ pkipc = o
  /\ CreateOrPatch(o, AfterPki(o))
  /\ Proceed(o, 0)
  /\ UNCHANGED <<budget, adminSeen, issued>>

\* A write fails, is logged, and the pass goes on as if it had not.
FailPkiChild(o) ==
  /\ pkipc = o
  /\ Sends(o, AfterPki(o))
  /\ WriteFails(o, AfterPki(o))
  /\ Proceed(o, 0)
  /\ UNCHANGED <<adminSeen, issued>>

\* The administrator's kubeconfig is made of its certificate's Secret.
ReadAdminSecret ==
  /\ pkipc = "adminSecret"
  /\ IF adminSeen > 0 THEN Proceed("adminSecret", adminSeen) ELSE RequeuePki
  /\ UNCHANGED <<obj, current, budget, adminSeen, issued>>

PkiReconcile ==
  \/ StartPki
  \/ \E o \in PkiChildren : EnsurePkiChild(o) \/ FailPkiChild(o)
  \/ ReadAdminSecret
==============================================================================
