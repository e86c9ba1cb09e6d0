--------------------------- MODULE MCCertRenewal ---------------------------
(* Instances of CertRenewal for TLC.                                       *)
EXTENDS CertRenewal
CONSTANTS h1, h2
TwoHosts == <<h1, h2>>
\* Two files whose users have to be restarted, which are different components.
TwoFiles == <<"apiserver-kubelet-client", "controller-manager.conf">>
\* Three files in the order of rm.Certificates(), one of them of another authority, etcd's.
FilesOfTwoCAs == <<"apiserver", "apiserver-etcd-client", "apiserver-kubelet-client">>
=============================================================================
