--------------------------- MODULE MCProvisioning ---------------------------
(* Provisioning for TLC; its configurations give the bounds their values.  *)
EXTENDS Provisioning
=============================================================================
