----------------------------- MODULE NginxAgent -----------------------------
(***************************************************************************)
(* client/nginx: Vault Agent, run by systemd, renders a host's certificate *)
(* from KV as three files under /run, for each type of certificate that is *)
(* configured; a hook has NGINX load them.                                 *)
(*                                                                         *)
(* The agent is no part of the repository: it is modelled as configured    *)
(* here. In a pass it takes one version of each secret it has read anew    *)
(* and writes, one after the other, the files whose text changes. The      *)
(* certificate's template carries the command, which runs if that file was *)
(* written, at any time from then on (the hook's check for missing files   *)
(* expects no less); the next pass waits for it. A command that fails, or  *)
(* that the agent did not live to run, is not run again.                   *)
(*                                                                         *)
(* The unit's hardening (vault-agent.service 28-31) gives every process of *)
(* it a mount namespace of its own: the tmpfs that one ExecStartPre mounts *)
(* and ExecStopPost unmounts is seen by neither the agent nor NGINX, and   *)
(* the files lie on the host's /run, until the host reboots.               *)
(***************************************************************************)
EXTENDS Naturals

CertTypes == {"ecdsa", "rsa"}

CONSTANT MaxVersion     \* bound: versions of each type's secret

ASSUME VersionBound == MaxVersion \in [CertTypes -> Nat]

VARIABLES
    installed,  \* the types that config.hcl has templates for
    newest,     \* of each type the last version in KV, 0 before the first,
    whole,      \* the versions that have all three fields,
    chain,      \* and for each version the first one with the same certificate
    agent,      \* "down", "idle", or "rendering" a pass
    data,       \* for each type, the version the pass took, 0 if it is not about it
    todo,       \* the files that pass has still to write
    files,      \* for each file, the version its text is of, 0 if it is missing
    hook,       \* the command is due
    outcome,    \* what became of the command the last time
    running,    \* NGINX runs
    served      \* for each type, the version it loaded last, 0 before the first

kv == <<installed, newest, whole, chain>>
pass == <<agent, data, todo>>
nginx == <<running, served>>
vars == <<kv, pass, files, hook, outcome, nginx>>

Files == {"server.crt", "server.key", "ssl_password"}
NoData == [ct \in CertTypes |-> 0]
NoFiles == [ct \in CertTypes |-> [f \in Files |-> 0]]

KvTypeOK ==
    /\ installed \subseteq CertTypes
    /\ newest \in [CertTypes -> Nat]
    /\ whole \in [CertTypes -> SUBSET Nat]
    /\ DOMAIN chain = CertTypes
    /\ \A ct \in CertTypes :
          /\ newest[ct] <= MaxVersion[ct]
          /\ whole[ct] \subseteq 1..newest[ct]
          /\ chain[ct] \in [0..MaxVersion[ct] -> 0..MaxVersion[ct]]

TypeOK ==
    /\ KvTypeOK
    /\ agent \in {"down", "idle", "rendering"}
    /\ data \in [CertTypes -> Nat] /\ served \in [CertTypes -> Nat]
    /\ files \in [CertTypes -> [Files -> Nat]]
    /\ \A ct \in CertTypes :
          /\ data[ct] <= newest[ct] /\ served[ct] <= newest[ct]
          /\ \A f \in Files : files[ct][f] <= newest[ct]
    /\ todo \subseteq installed \X Files
    /\ hook \in BOOLEAN
    /\ outcome \in {"none", "skipped", "failed", "reloaded", "lost"}
    /\ running \in BOOLEAN
    /\ agent = "rendering" <=> todo # {}

\* The agent has been installed for one type or both and is started; NGINX has no
\* certificate yet.
Init ==
    /\ installed \in (SUBSET CertTypes) \ {{}}
    /\ newest = [ct \in CertTypes |-> 0]
    /\ whole = [ct \in CertTypes |-> {}]
    /\ chain = [ct \in CertTypes |-> [v \in 0..MaxVersion[ct] |-> v]]
    /\ agent = "idle"
    /\ data = NoData
    /\ todo = {}
    /\ files = NoFiles
    /\ hook = FALSE
    /\ outcome = "none"
    /\ running = FALSE
    /\ served = [ct \in CertTypes |-> 0]

-----------------------------------------------------------------------------
(* The secrets.                                                            *)

\* A new version. It may lack fields, and it may be the same certificate once more,
\* its key encrypted with another password. What is pushed of a type that is not
\* installed is read by nobody here.
Push(ct) ==
    LET v == newest[ct] + 1 IN
    /\ ct \in installed
    /\ newest[ct] < MaxVersion[ct]
    /\ newest' = [newest EXCEPT ![ct] = v]
    /\ \/ UNCHANGED whole
       \/ whole' = [whole EXCEPT ![ct] = @ \cup {v}]
    /\ \/ UNCHANGED chain
       \/ v > 1 /\ chain' = [chain EXCEPT ![ct][v] = chain[ct][newest[ct]]]
    /\ UNCHANGED <<installed, pass, files, hook, outcome, nginx>>

-----------------------------------------------------------------------------
(* The agent.                                                              *)

\* The text of a file is as version v has it: a certificate's chain is the same for
\* every version of it, the key and its password never are.
UpToDate(ct, f, v) ==
    IF f = "server.crt"
    THEN files[ct][f] # 0 /\ chain[ct][files[ct][f]] = chain[ct][v]
    ELSE files[ct][f] = v

Outdated(ct) ==
    /\ newest[ct] # 0
    /\ \E f \in Files : ~UpToDate(ct, f, newest[ct])

\* The secrets are read at times of their own: a pass is about one or about both.
Fetch ==
    /\ agent = "idle" /\ ~hook
    /\ \E types \in (SUBSET {ct \in installed : Outdated(ct)}) \ {{}} :
          /\ data' = [ct \in CertTypes |-> IF ct \in types THEN newest[ct] ELSE 0]
          /\ todo' = {x \in types \X Files : ~UpToDate(x[1], x[2], newest[x[1]])}
    /\ agent' = "rendering"
    /\ UNCHANGED <<kv, files, hook, outcome, nginx>>

\* Mutant: the command is the one of a new file, not of a changed one.
RenderCreatesOnly(ct, f) ==
    /\ agent = "rendering"
    /\ <<ct, f>> \in todo
    /\ files' = [files EXCEPT ![ct][f] = data[ct]]
    /\ todo' = todo \ {<<ct, f>>}
    /\ agent' = IF todo' = {} THEN "idle" ELSE agent
    /\ data' = IF todo' = {} THEN NoData ELSE data
    /\ hook' = (hook \/ (f = "server.crt" /\ files[ct][f] = 0))
    /\ UNCHANGED <<kv, outcome, nginx>>

Render(ct, f) ==
    /\ agent = "rendering"
    /\ <<ct, f>> \in todo
    /\ files' = [files EXCEPT ![ct][f] = data[ct]]
    /\ todo' = todo \ {<<ct, f>>}
    /\ agent' = IF todo' = {} THEN "idle" ELSE agent
    /\ data' = IF todo' = {} THEN NoData ELSE data
    /\ hook' = (hook \/ f = "server.crt")
    /\ UNCHANGED <<kv, outcome, nginx>>

\* Mutant: the pass that was cut off goes on with the next start.
StopKeepsPass ==
    /\ agent # "down"
    /\ agent' = "down"
    /\ hook' = FALSE
    /\ outcome' = IF hook THEN "lost" ELSE outcome
    /\ UNCHANGED <<kv, data, todo, files, nginx>>

\* Stopped, killed or crashed, the hook with it. The files stay, and what is written
\* already is no reason for the next agent to run the command.
Stop ==
    /\ agent # "down"
    /\ agent' = "down"
    /\ todo' = {} /\ data' = NoData
    /\ hook' = FALSE
    /\ outcome' = IF hook THEN "lost" ELSE outcome
    /\ UNCHANGED <<kv, files, nginx>>

\* Restart=always, or systemctl start; the directories of both types are made. Not
\* after a boot until something else has made /run/vault, which ReadWritePaths demands.
Start ==
    /\ agent = "down"
    /\ agent' = "idle"
    /\ UNCHANGED <<kv, data, todo, files, hook, outcome, nginx>>

\* The host goes down, and /run with it.
Reboot ==
    /\ agent' = "down"
    /\ todo' = {} /\ data' = NoData
    /\ files' = NoFiles
    /\ hook' = FALSE
    /\ outcome' = "none"
    /\ running' = FALSE
    /\ UNCHANGED <<kv, served>>

-----------------------------------------------------------------------------
(* The hook and NGINX.                                                     *)

\* What nginx -t, a reload and a start demand of a type's files: all three are there
\* and complete, the key is the certificate's, and the password opens it.
Loadable(ct) ==
    LET key == files[ct]["server.key"] IN
    /\ files[ct]["server.crt"] # 0
    /\ key \in whole[ct]
    /\ files[ct]["ssl_password"] = key
    /\ chain[ct][files[ct]["server.crt"]] = chain[ct][key]

\* NGINX is configured for the types that are installed.
Loads ==
    /\ \A ct \in installed : Loadable(ct)
    /\ served' = [ct \in CertTypes |-> IF ct \in installed THEN files[ct]["server.key"]
                                                           ELSE served[ct]]

\* The hook looks into every directory there is, and there are always two, whatever
\* is installed.
AllRendered == \A ct \in CertTypes : \A f \in Files : files[ct][f] # 0

HookEnds(how) ==
    /\ hook
    /\ hook' = FALSE
    /\ outcome' = how

HookSkips ==
    /\ ~AllRendered
    /\ HookEnds("skipped")
    /\ UNCHANGED <<kv, pass, files, nginx>>

\* nginx -t rejects these files or something else it meets (it runs in the unit's
\* namespaces, too), or there is no NGINX to signal.
HookFails ==
    /\ AllRendered
    /\ HookEnds("failed")
    /\ UNCHANGED <<kv, pass, files, nginx>>

\* Mutant: the hook reloads without nginx -t; NGINX keeps what it has.
HookReloadsUntested ==
    /\ AllRendered
    /\ running
    /\ HookEnds("reloaded")
    /\ Loads \/ (UNCHANGED served /\ \E ct \in installed : ~Loadable(ct))
    /\ UNCHANGED <<kv, pass, files, running>>

\* Mutant: NGINX takes whatever versions are there.
HookReloadsMixed ==
    /\ AllRendered
    /\ running
    /\ HookEnds("reloaded")
    /\ served' = [ct \in CertTypes |-> files[ct]["server.key"]]
    /\ UNCHANGED <<kv, pass, files, running>>

\* Mutant: the hook waits for the files of the types that are installed.
HookReloadsInstalled ==
    /\ \A ct \in installed : \A f \in Files : files[ct][f] # 0
    /\ running
    /\ Loads
    /\ HookEnds("reloaded")
    /\ UNCHANGED <<kv, pass, files, running>>

HookReloads ==
    /\ AllRendered
    /\ running
    /\ Loads
    /\ HookEnds("reloaded")
    /\ UNCHANGED <<kv, pass, files, running>>

NginxStarts ==
    /\ ~running
    /\ Loads
    /\ running' = TRUE
    /\ UNCHANGED <<kv, pass, files, hook, outcome>>

NginxStops ==
    /\ running
    /\ running' = FALSE
    /\ UNCHANGED <<kv, pass, files, hook, outcome, served>>

Next ==
    \/ \E ct \in CertTypes : Push(ct)
    \/ Fetch \/ Stop \/ Start \/ Reboot
    \/ \E ct \in CertTypes, f \in Files : Render(ct, f)
    \/ HookSkips \/ HookFails \/ HookReloads
    \/ NginxStarts \/ NginxStops

Spec == Init /\ [][Next]_vars

\* The agent reads the secrets again every few minutes and gets on with its passes and
\* commands. Nothing is certain to start it again, and nothing starts NGINX.
FairSpec ==
    /\ Spec
    /\ WF_vars(Fetch)
    /\ WF_vars(\E ct \in CertTypes, f \in Files : Render(ct, f))
    /\ WF_vars(HookSkips \/ HookFails \/ HookReloads)

-----------------------------------------------------------------------------
(* Properties.                                                             *)

\* Only the certificate's template has a command, it is run once, and the agent may
\* die before it or in the middle of a pass (vault-agent.hcl.tpl 39-56,
\* vault-agent.service 19-25). When the agent rests, a running NGINX that has other
\* certificates than the files has a cause: the last command skipped, failed, or was
\* never run because the agent ended. The last one leaves no line in any log.
StalenessHasACause ==
    (agent = "idle" /\ ~hook /\ running /\ outcome = "reloaded") =>
        \A ct \in installed : chain[ct][served[ct]] = chain[ct][files[ct]["server.crt"]]

\* If the last version of a type is complete, the agent stays up and so does NGINX,
\* NGINX ends with that version's certificate, unless the last command did not reload:
\* one that skipped, failed or was lost is not made up for by anything.
DeliveredUnlessHookFails ==
    \A ct \in CertTypes : \A v \in 1..MaxVersion[ct] :
        <>[](newest[ct] = v /\ v \in whole[ct] /\ agent # "down" /\ running) =>
            \/ <>[](chain[ct][served[ct]] = chain[ct][v])
            \/ <>[](outcome \in {"skipped", "failed", "lost"})

\* "skip cert types not configured" (reload-nginx.sh 19) does not: the unit makes both
\* directories (vault-agent.service 13-14), so the hook of an agent with one type waits
\* for files that nobody renders. Through any order of passes, ends and boots, NGINX
\* never gets another certificate of such an agent while it runs.
OneTypeNeverReloads ==
    [][running /\ running' /\ served' # served => installed = CertTypes]_vars

\* The agent, its hook and NGINX deliver each type like any other fetcher: complete
\* versions only, and never an earlier one after a later one.
Delivery(ct) == INSTANCE CertDelivery
    WITH MaxVersion <- MaxVersion[ct],
         newest <- newest[ct],
         usable <- whole[ct],
         serving <- running /\ ct \in installed,
         served <- served[ct]

RefinesDelivery ==
    /\ \A ct \in CertTypes : Delivery(ct)!DeliveryInit
    /\ [][\A ct \in CertTypes :
            Delivery(ct)!DeliveryNext \/ UNCHANGED Delivery(ct)!deliveryVars]_vars
=============================================================================
