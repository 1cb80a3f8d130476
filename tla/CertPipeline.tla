----------------------------- MODULE CertPipeline -----------------------------
(***************************************************************************)
(* From CertMgr to NGINX: the push client of VaultClient, the versions its *)
(* pushes make of each host's secret, and on each host something that      *)
(* fetches them. What fetches is CertDelivery, which VaultFetcher and      *)
(* NginxAgent implement; the client numbers certificates in the order in   *)
(* which they are issued, Vault numbers versions in the order in which     *)
(* pushes arrive, and the two may differ.                                  *)
(***************************************************************************)
EXTENDS VaultClient, Sequences

VARIABLES
    history,    \* for each host, the call each version of its secret is of
    acked,      \* for each host, the last call PushCert returned true for
    failed,     \* the pushes whose caller did not get true
    serving,    \* for each host, whether NGINX runs there
    served      \* and the version it loaded last

outcome == <<history, acked, failed>>
fetched == <<serving, served>>
pipelineVars == <<vars, outcome, fetched>>

RecordTypeOK ==
    /\ history \in [Hosts -> Seq(1..MaxCalls)]
    /\ acked \in [Hosts -> 0..MaxCalls]
    /\ failed \subseteq 1..MaxCalls
    /\ serving \in [Hosts -> BOOLEAN]
    /\ served \in [Hosts -> Nat]
    /\ \A h \in Hosts : served[h] \in 0..Len(history[h])

PipelineTypeOK == TypeOK /\ RecordTypeOK

PipelineInit ==
    /\ Init
    /\ history = [h \in Hosts |-> <<>>]
    /\ acked = [h \in Hosts |-> NoCall]
    /\ failed = {}
    /\ serving = [h \in Hosts |-> FALSE]
    /\ served = [h \in Hosts |-> 0]

-----------------------------------------------------------------------------
\* The push that has not returned ends with this step.
PushEnds == op \in Pushes /\ op' = Idle

\* What a step of the client or of Vault adds to the record of what happened. A
\* write makes a version of its own; no later one replaces it.
Record ==
    /\ history' = [h \in Hosts |-> IF written'[h] = written[h]
                                   THEN history[h]
                                   ELSE Append(history[h], kv'[h])]
    /\ acked' = IF PushEnds /\ returned' = "true"
                THEN [acked EXCEPT ![op.host] = calls]
                ELSE acked
    /\ failed' = IF PushEnds /\ returned' # "true"
                 THEN failed \cup {calls}
                 ELSE failed

Publish ==
    /\ Next
    /\ Record
    /\ UNCHANGED fetched

\* The host's fetcher read version v when that was the current one, and NGINX loads it,
\* which is CertDelivery's Deliver.
Load(h, v) ==
    /\ v \in 1..Len(history[h])
    /\ v >= served[h]
    /\ served' = [served EXCEPT ![h] = v]
    /\ serving' = [serving EXCEPT ![h] = TRUE]
    /\ UNCHANGED <<vars, outcome>>

LoadCurrent(h) == Load(h, Len(history[h]))

StopServing(h) ==
    /\ serving[h]
    /\ serving' = [serving EXCEPT ![h] = FALSE]
    /\ UNCHANGED <<vars, outcome, served>>

PipelineNext ==
    \/ Publish
    \/ \E h \in Hosts : StopServing(h) \/ \E v \in 1..Len(history[h]) : Load(h, v)

PipelineSpec == PipelineInit /\ [][PipelineNext]_pipelineVars

\* On every host, what fetches comes round to the current version again and again
\* (VaultFetcher!Delivered).
PipelineFairSpec ==
    /\ PipelineSpec
    /\ \A h \in Hosts : WF_pipelineVars(LoadCurrent(h))

-----------------------------------------------------------------------------
(* Properties.                                                             *)

\* The certificate that NGINX serves on a host, as the number of the push.
Certificate(h) == IF served[h] = 0 THEN NoCall ELSE history[h][served[h]]

\* A push that timed out for its caller may reach Vault after a newer one
\* (vault_push.cpp 96: no check-and-set, nothing recalls the request). Even so, what
\* is current is never older than what PushCert last returned true for, unless it is
\* a push whose caller was told, or died before it was told, that it failed.
CurrentUnlessReported ==
    \A h \in Hosts : kv[h] >= acked[h] \/ kv[h] \in failed

\* End to end: a certificate that PushCert returned true for is served by its host,
\* or a newer one, or one that was reported as failed and overtook it.
ServedInTheEnd ==
    \A h \in Hosts : \A c \in 1..MaxCalls :
        acked[h] = c ~> (Certificate(h) >= c \/ Certificate(h) \in failed)

\* Vault numbers versions in the order in which requests arrive, and a host takes the
\* highest number: a push that arrives late takes NGINX back to an older certificate.
\* That only happens with a push whose caller did not get true for it, so who pushes
\* again until PushCert returns true does not end with an older certificate in service.
RollbackWasReported ==
    [][\A h \in Hosts :
          Certificate(h)' < Certificate(h) => Certificate(h)' \in failed]_pipelineVars
=============================================================================
