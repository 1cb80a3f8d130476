---------------------------- MODULE CertDelivery ----------------------------
(***************************************************************************)
(* What the deployment promises of one host name's certificate, with no    *)
(* word of how: certificate material is published version by version, the  *)
(* TLS server, while it runs, serves one published and complete version,   *)
(* and a later load never brings back an earlier version.                  *)
(***************************************************************************)
EXTENDS Naturals

CONSTANT MaxVersion     \* bound on the number of published versions

VARIABLES
    newest,     \* the last version published, 0 before the first
    usable,     \* the published versions that carry all their parts
    serving,    \* whether the TLS server runs
    served      \* the version the server loaded last, 0 before the first

deliveryVars == <<newest, usable, serving, served>>

DeliveryInit ==
    /\ newest = 0
    /\ usable = {}
    /\ serving = FALSE
    /\ served = 0

\* A new version is published; it may be incomplete.
Publish ==
    /\ newest < MaxVersion
    /\ newest' = newest + 1
    /\ usable' \in {usable, usable \cup {newest'}}
    /\ UNCHANGED <<serving, served>>

\* The server loads a complete version no older than the last one it loaded.
Deliver ==
    /\ \E v \in usable : v >= served /\ served' = v
    /\ serving' = TRUE
    /\ UNCHANGED <<newest, usable>>

Stop ==
    /\ serving
    /\ serving' = FALSE
    /\ UNCHANGED <<newest, usable, served>>

DeliveryNext == Publish \/ Deliver \/ Stop

DeliverySpec == DeliveryInit /\ [][DeliveryNext]_deliveryVars
=============================================================================
