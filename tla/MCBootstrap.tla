------------------------------ MODULE MCBootstrap ------------------------------
(* A small instance of Bootstrap for TLC. *)
EXTENDS Bootstrap

MCObjects == {"pki"} \cup PkiChildren
MCControllers == {"pki"}
MCLabelKeys == {"app.kubernetes.io/name", "app.kubernetes.io/instance"}
MCLabelValues ==
  {"kube-apiserver", "kube-controller-manager", "kube-scheduler", "client-a"}

\* The names of config/samples.
MCSecretOf ==
  [rootCa                    |-> "ca",
   adminCert                 |-> "admin",
   kubeAPIServerCert         |-> "kube-apiserver",
   serviceAccountCert        |-> "service-accounts",
   kubeControllerManagerCert |-> "kube-controller-manager",
   kubeSchedulerCert         |-> "kube-scheduler",
   konnectivityCert          |-> "konnectivity"]

MCKubeSpecs ==
  [c \in K!Components |->
     {[version |-> 0, labels |-> NoLabels,
       tls |-> [r \in K!Roles(c) |-> IF r = "serving" THEN c ELSE r]]}]

Everything == {"apply", "configure", "crash"}
==============================================================================
