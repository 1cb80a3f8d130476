---------------------------- MODULE MCServerRoles ----------------------------
(* A small instance of ServerRoles for TLC: one server whose policy has    *)
(* two names and one whose name has no dots.                               *)
EXTENDS ServerRoles

ServerNames == {"web.a.com", "localhost"}

DashedNames == [h \in ServerNames |-> IF h = "web.a.com" THEN "web-a-com" ELSE h]
=============================================================================
