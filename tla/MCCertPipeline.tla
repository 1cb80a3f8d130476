---------------------------- MODULE MCCertPipeline ----------------------------
(* Small instances of CertPipeline for TLC.                                *)
EXTENDS CertPipeline
=============================================================================
