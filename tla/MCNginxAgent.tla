---------------------------- MODULE MCNginxAgent ----------------------------
(* A small instance of NginxAgent for TLC: enough versions of one type for *)
(* files of three of them to meet, and a second type beside it.            *)
EXTENDS NginxAgent

VersionsPerType == [ct \in CertTypes |-> IF ct = "ecdsa" THEN 3 ELSE 1]
=============================================================================
