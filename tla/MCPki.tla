-------------------------------- MODULE MCPki --------------------------------
(* Small instances of Pki for TLC. *)
EXTENDS Pki

MCObjects == {"pki"} \cup PkiChildren
MCControllers == {"pki"}
MCLabelKeys == {"app.kubernetes.io/name", "app.kubernetes.io/instance"}
MCLabelValues == {"kube-apiserver"}

Everything == {"apply", "delete", "drift", "remove", "renew", "crash"}

\* The Pki is applied and requests of the reconciler are lost.
Lossy == {"apply", "fault"}

\* An issuer the certificates wait for, and the certificate that holds the
\* address.
MCTampered == {"rootCaIssuer", "kubeAPIServerCert"}
==============================================================================
