---------------------------- MODULE MCCertCache -----------------------------
(* Instances of CertCache for TLC.                                         *)
EXTENDS CertCache
=============================================================================
