---------------------------- MODULE Provisioning ----------------------------
(***************************************************************************)
(* setup-provisioners.sh and the provisioners server/provisioners/01 to 07 *)
(* it runs: what they make in Vault, the files they leave, and .env, which *)
(* each of them reads at its start and overwrites at its end.              *)
(*                                                                         *)
(* A provisioner is a list of commands (Steps). One operator runs one      *)
(* script at a time: setup-provisioners.sh ("auto"), or one provisioner by *)
(* hand. A command may fail and a script may be killed at any point; Vault *)
(* may be initialised again between two scripts, with or without .env.     *)
(***************************************************************************)
EXTENDS Integers, Sequences

CONSTANTS
    MaxInits,       \* bound: initialisations of Vault
    MaxScripts,     \* bound: scripts that are run
    MaxFaults       \* bound: failing commands and kills

ASSUME ProvisioningBounds ==
    MaxInits \in Nat \ {0} /\ MaxScripts \in Nat /\ MaxFaults \in Nat

VARIABLES
    gen,        \* the initialisation Vault holds, and its root token
    mounts,     \* the secrets engines and auth methods that are enabled
    made,       \* what has been written to Vault: policies, roles, issuers
    roots,      \* how many root CAs have been generated in pki/
    files,      \* for each file the scripts write, the Vault it belongs to
    env,        \* the variables in .env, but for VAULT_TOKEN
    envToken,   \* whose root token .env holds, 0 for none
    job,        \* "auto" or "manual"
    place,      \* where the script is
    prov,       \* the provisioner that runs, or ran last
    at,         \* its next command
    parent,     \* the variables setup-provisioners.sh has exported
    parentToken,
    token,      \* the token the provisioner uses
    disturbed,  \* history: something failed since the script was started
    scripts,    \* how much of MaxScripts is used
    faults      \* how much of MaxFaults is used

vault == <<gen, mounts, made, roots>>
config == <<env, envToken>>
caller == <<job, parent, parentToken>>
child == <<prov, at, token>>
vars == <<vault, files, config, caller, place, child, disturbed, scripts, faults>>

\* VAULT_FQDN stands also for VAULT_HTTPS_PORT; VAULT_ADDR has a default everywhere.
Names == {"VAULT_API_ADDR", "VAULT_DOMAIN", "VAULT_FQDN"}
Required == {"VAULT_API_ADDR", "VAULT_DOMAIN"}

Enable(engine)       == [do |-> "enable", what |-> engine, needs |-> {}]
Write(what, needs)   == [do |-> "write", what |-> what, needs |-> needs]
Export(file, needs)  == [do |-> "export", what |-> file, needs |-> needs]
Generate             == [do |-> "root", what |-> "root", needs |-> {"pki"}]
Save                 == [do |-> "save", what |-> ".env", needs |-> {}]

\* The commands of each provisioner, and what each must find in Vault. Writes
\* that configure one thing are one command.
KvSecrets == <<
    Enable("secret"), Write("certmgr-push policy", {}), Enable("approle"),
    Write("certmgr role", {"approle"}),
    Export("certmgr-approle.env", {"certmgr role"}), Save >>

PkiInternalCA == <<
    Enable("pki"), Generate, Write("pki config", {"pki"}),
    Write("server role", {"pki"}), Save >>

PkiIntermediateCA == <<
    Enable("pki-intermediate"),
    Write("intermediate", {"pki-intermediate", "root"}),
    Write("pki-intermediate config", {"pki-intermediate"}),
    Export("intermediate-ca.crt", {}), Save >>

PkiAcme == <<
    Write("acme role", {"pki-intermediate"}),
    Write("acme config", {"pki-intermediate"}), Save >>

ApproleNginx == <<
    Write("nginx policy", {}), Write("nginx role", {"approle"}),
    Export("credentials", {"nginx role"}) >>

MtlsBootstrap == <<
    Enable("cert"), Write("srvguard-client role", {"pki"}),
    Export("client-ca.crt", {"root"}), Save >>

PkiCertmgr == <<
    Write("domino-certmgr policy", {}),
    Write("domino-certmgr role", {"pki-intermediate"}), Save >>

\* In the order in which setup-provisioners.sh runs them.
Steps == << KvSecrets, PkiInternalCA, PkiIntermediateCA, PkiAcme, ApproleNginx,
            MtlsBootstrap, PkiCertmgr >>

Provisioners == 1..7

\* The variables a provisioner asks for, which are also those it saves.
Variables(k) ==
    CASE k \in {2, 3, 4} -> {"VAULT_API_ADDR", "VAULT_DOMAIN"}
      [] k \in {6, 7} -> {"VAULT_DOMAIN"}
      [] k \in {1, 5} -> {}

\* What the commands of provisioner k of one kind are about.
Of(k, kinds) == {Steps[k][i].what : i \in {j \in DOMAIN Steps[k] : Steps[k][j].do \in kinds}}
All(kinds) == UNION {Of(k, kinds) : k \in Provisioners}

Engines == All({"enable"})
Artefacts == All({"write", "root"})
FileNames == All({"export"}) \cup {"root-ca.crt"}

VaultTypes ==
    /\ gen \in 1..MaxInits
    /\ mounts \subseteq Engines
    /\ made \subseteq Artefacts
    /\ roots \in 0..MaxScripts
    /\ files \in [FileNames -> 0..MaxInits]

VariableTypes ==
    /\ env \subseteq Names /\ envToken \in 0..MaxInits
    /\ parent \subseteq Names /\ parentToken \in 0..MaxInits
    /\ token \in 0..MaxInits

ScriptTypes ==
    /\ job \in {"auto", "manual"}
    /\ place \in {"idle", "guard", "refused", "load", "run", "complete", "finished", "failed"}
    /\ prov \in Provisioners
    /\ at \in 1..7
    /\ place = "run" => at \in DOMAIN Steps[prov]

HistoryTypes ==
    /\ disturbed \in BOOLEAN
    /\ scripts \in 0..MaxScripts
    /\ faults \in 0..MaxFaults

TypeOK == VaultTypes /\ VariableTypes /\ ScriptTypes /\ HistoryTypes

\* start-vault.sh has initialised Vault; .env does not exist yet.
Init ==
    /\ gen = 1 /\ mounts = {} /\ made = {} /\ roots = 0
    /\ files = [f \in FileNames |-> 0]
    /\ env = {} /\ envToken = 0
    /\ job = "auto" /\ parent = {} /\ parentToken = 0
    /\ place = "idle"
    /\ prov = 1 /\ at = 1 /\ token = 0
    /\ disturbed = FALSE
    /\ scripts = 0 /\ faults = 0

-----------------------------------------------------------------------------
(* The operator, between two scripts.                                      *)

\* setup-vault.sh: all variables; the token may be left empty.
RunSetupVault(t) ==
    /\ place = "idle"
    /\ env' = Names
    /\ envToken' = t
    /\ UNCHANGED <<vault, files, caller, place, child, disturbed, faults, scripts>>

\* cleanup-vault.sh and start-vault.sh keep .env; --scratch removes it. The files
\* of the provisioners stay.
Reinitialise(keepsEnv) ==
    /\ place = "idle"
    /\ gen < MaxInits
    /\ gen' = gen + 1
    /\ mounts' = {} /\ made' = {} /\ roots' = 0
    /\ env' = IF keepsEnv THEN env ELSE {}
    /\ envToken' = IF keepsEnv THEN envToken ELSE 0
    /\ UNCHANGED <<files, caller, place, child, disturbed, faults, scripts>>

\* Mutant: what LoadEnvFile reads is not exported to the provisioners.
RunProvisionersUnexported ==
    /\ place = "idle"
    /\ scripts < MaxScripts
    /\ scripts' = scripts + 1
    /\ job' = "auto"
    /\ parent' = {}
    /\ parentToken' = envToken
    /\ disturbed' = FALSE
    /\ place' = IF Required \subseteq env THEN "guard" ELSE "failed"
    /\ UNCHANGED <<vault, files, config, child, faults>>

\* setup-provisioners.sh: LoadEnvFile exports what it reads; without one of the
\* required variables the script ends. Without .env it asks first: "n" ends it as
\* well, "y" is RunSetupVault and then this.
RunProvisioners ==
    /\ place = "idle"
    /\ scripts < MaxScripts
    /\ scripts' = scripts + 1
    /\ job' = "auto"
    /\ parent' = env
    /\ parentToken' = envToken
    /\ disturbed' = FALSE
    /\ place' = IF Required \subseteq env THEN "guard" ELSE "failed"
    /\ UNCHANGED <<vault, files, config, child, faults>>

\* One provisioner by hand, in a shell without any of the variables.
RunProvisioner(k) ==
    /\ place = "idle"
    /\ scripts < MaxScripts
    /\ scripts' = scripts + 1
    /\ job' = "manual"
    /\ parent' = {}
    /\ parentToken' = 0
    /\ disturbed' = FALSE
    /\ place' = "load"
    /\ prov' = k
    /\ UNCHANGED <<vault, files, config, at, token, faults>>

-----------------------------------------------------------------------------
(* setup-provisioners.sh.                                                  *)

\* "Provisioning Already Complete": the listing works only with a token that
\* was in .env, as this script does not look into vault-init.json.
CheckGuard ==
    /\ place = "guard"
    /\ IF parentToken = gen /\ "secret" \in mounts
       THEN place' = "refused" /\ UNCHANGED prov
       ELSE place' = "load" /\ prov' = 1
    /\ UNCHANGED <<vault, files, config, caller, at, token, disturbed, faults, scripts>>

\* Mutant: without LoadVaultToken.
LoadsOnlyEnv ==
    IF parentToken # 0 THEN parentToken ELSE envToken

\* The inherited token, else that in .env, else that in vault-init.json.
Loads ==
    CASE parentToken # 0 -> parentToken
      [] parentToken = 0 /\ envToken # 0 -> envToken
      [] parentToken = 0 /\ envToken = 0 -> gen

\* LoadEnvFile, LoadVaultToken, GetInput. By hand, every value is asked for: one
\* that is missing is entered, and a token may be corrected.
LoadConfiguration ==
    /\ place = "load"
    /\ place' = "run"
    /\ at' = 1
    /\ token' \in IF job = "auto" THEN {Loads} ELSE {Loads, gen}
    /\ UNCHANGED <<vault, files, config, caller, prov, disturbed, faults, scripts>>

\* Off to the next provisioner, or to the end.
NextProvisioner ==
    /\ place = "complete"
    /\ job = "auto"
    /\ IF prov < 7
       THEN place' = "load" /\ prov' = prov + 1
       ELSE place' = "finished" /\ UNCHANGED prov
    /\ token' = 0
    /\ UNCHANGED <<vault, files, config, caller, at, disturbed, faults, scripts>>

\* The last message is out, of success or of failure; what the processes held is
\* gone.
Leave ==
    /\ \/ place \in {"refused", "finished", "failed"}
       \/ place = "complete" /\ job = "manual"
    /\ place' = "idle"
    /\ job' = "auto" /\ parent' = {} /\ parentToken' = 0
    /\ prov' = 1 /\ at' = 1 /\ token' = 0
    /\ disturbed' = FALSE
    /\ UNCHANGED <<vault, files, config, faults, scripts>>

-----------------------------------------------------------------------------
(* The commands of a provisioner.                                          *)

Command == Steps[prov][at]

Running(kinds) ==
    /\ place = "run"
    /\ Command.do \in kinds

\* Mutant: one command more.
NextStepOnce ==
    /\ at' = at + 1
    /\ place' = IF at <= Len(Steps[prov]) THEN "run" ELSE "complete"

NextStep ==
    /\ at' = IF at < Len(Steps[prov]) THEN at + 1 ELSE 1
    /\ place' = IF at < Len(Steps[prov]) THEN "run" ELSE "complete"

Works ==
    /\ token = gen
    /\ Command.needs \subseteq mounts \cup made

\* "2>/dev/null && echo enabled || echo already enabled": whatever the reason is
\* for which it failed, the script goes on.
EnableEngine ==
    /\ Running({"enable"})
    /\ mounts' = IF Works THEN mounts \cup {Command.what} ELSE mounts
    /\ NextStep
    /\ UNCHANGED <<gen, made, roots, files, config, caller, prov, token,
                   disturbed, faults, scripts>>

\* Mutant: a write that fails does not end the script.
WriteToVaultAnyway ==
    /\ Running({"write"})
    /\ made' = IF Works THEN made \cup {Command.what} ELSE made
    /\ NextStep
    /\ UNCHANGED <<gen, mounts, roots, files, config, caller, prov, token,
                   disturbed, faults, scripts>>

WriteToVault ==
    /\ Running({"write"})
    /\ Works
    /\ made' = made \cup {Command.what}
    /\ NextStep
    /\ UNCHANGED <<gen, mounts, roots, files, config, caller, prov, token,
                   disturbed, faults, scripts>>

\* One more root CA each time; the first remains Vault's default issuer, while
\* root-ca.crt is overwritten.
GenerateRoot ==
    /\ Running({"root"})
    /\ Works
    /\ roots' = roots + 1
    /\ made' = made \cup {"root"}
    /\ files' = [files EXCEPT !["root-ca.crt"] = gen]
    /\ NextStep
    /\ UNCHANGED <<gen, mounts, config, caller, prov, token, disturbed, faults, scripts>>

ExportFile ==
    /\ Running({"export"})
    /\ Works
    /\ files' = [files EXCEPT ![Command.what] = gen]
    /\ NextStep
    /\ UNCHANGED <<vault, config, caller, prov, token, disturbed, faults, scripts>>

\* All of .env is replaced by the variables this provisioner asked for.
SaveEnvFile ==
    /\ Running({"save"})
    /\ env' = Variables(prov)
    /\ envToken' = token
    /\ NextStep
    /\ UNCHANGED <<vault, files, caller, prov, token, disturbed, faults, scripts>>

-----------------------------------------------------------------------------
(* What goes wrong.                                                        *)

Fault ==
    /\ faults < MaxFaults
    /\ faults' = faults + 1
    /\ disturbed' = TRUE

\* Vault is sealed or away when setup-provisioners.sh asks for the engines.
GuardFails ==
    /\ Fault
    /\ place = "guard"
    /\ place' = "load"
    /\ prov' = 1
    /\ UNCHANGED <<vault, files, config, caller, at, token, scripts>>

\* Whatever enabling an engine has not done is taken for done already.
EnableFails ==
    /\ Fault
    /\ Running({"enable"})
    /\ NextStep
    /\ UNCHANGED <<vault, files, config, caller, prov, token, scripts>>

\* The file a command writes its output to.
Output ==
    CASE Command.do = "root" -> {"root-ca.crt"}
      [] Command.do = "export" -> {Command.what}
      [] OTHER -> {}

Emptied(fs) == [f \in FileNames |-> IF f \in fs THEN 0 ELSE files[f]]

\* A file has been truncated, by the redirection, before the command that Vault
\* refuses runs; but for client-ca.crt a command without redirection is refused
\* first.
Truncated == Output \cap {"client-ca.crt"}

\* Cut off at any point, a command has truncated its file or not yet.
CutOff == files' \in {files, Emptied(Output)}

\* Mutant: without "|| exit 1" the next provisioner runs.
CommandFailsPassedOver ==
    /\ Running({"write", "root", "export"})
    /\ \/ Fault /\ CutOff
       \/ ~Works /\ files' = Emptied(Truncated) /\ UNCHANGED <<disturbed, faults>>
    /\ place' = "complete"
    /\ at' = 1
    /\ UNCHANGED <<vault, config, caller, prov, token, scripts>>

\* "set -e" ends the provisioner, and "|| exit 1" its caller.
CommandFails ==
    /\ Running({"write", "root", "export"})
    /\ \/ Fault /\ CutOff
       \/ ~Works /\ files' = Emptied(Truncated) /\ UNCHANGED <<disturbed, faults>>
    /\ place' = "failed"
    /\ at' = 1
    /\ UNCHANGED <<vault, config, caller, prov, token, scripts>>

\* SaveEnvFile has truncated .env and writes it line by line: nothing, the token,
\* or the token and the first of the variables, in the order it is given them.
SavedInPart ==
    \/ env' = {} /\ envToken' = 0
    \/ env' \in {{}, Variables(prov) \cap {"VAULT_API_ADDR"}} /\ envToken' = token

\* Ctrl-C, at any point of the command that runs.
ScriptDies ==
    /\ Fault
    /\ place \in {"guard", "load", "run"}
    /\ place' = "failed"
    /\ at' = 1
    /\ IF Running({"root", "export"}) THEN CutOff ELSE UNCHANGED files
    /\ UNCHANGED config \/ (Running({"save"}) /\ SavedInPart)
    /\ UNCHANGED <<vault, caller, prov, token, scripts>>

-----------------------------------------------------------------------------
Script ==
    \/ CheckGuard \/ LoadConfiguration \/ NextProvisioner \/ Leave
    \/ EnableEngine \/ WriteToVault \/ GenerateRoot \/ ExportFile \/ SaveEnvFile
    \/ CommandFails

Next ==
    \/ \E t \in {0, gen} : RunSetupVault(t)
    \/ \E keepsEnv \in BOOLEAN : Reinitialise(keepsEnv)
    \/ RunProvisioners
    \/ \E k \in Provisioners : RunProvisioner(k)
    \/ Script
    \/ GuardFails \/ EnableFails \/ ScriptDies

Spec == Init /\ [][Next]_vars

\* A script that was started runs on; the operator owes nothing.
FairSpec == Spec /\ WF_vars(Script)

-----------------------------------------------------------------------------
(* Properties.                                                             *)

\* A provisioner that comes to its end has made everything it is there for, from
\* whatever an earlier run left, re-runs and failures included: all it writes, all
\* the files, of this Vault, and, if nothing failed meanwhile, also the engines
\* whose failure it does not look at.
ProvisionerDelivers ==
    place = "complete" =>
        /\ Of(prov, {"write", "root"}) \subseteq made
        /\ \A f \in Of(prov, {"export"}) : files[f] = gen
        /\ ~disturbed /\ token = gen => Of(prov, {"enable"}) \subseteq mounts

\* "All provisioners completed successfully!" (setup-provisioners 145): whatever
\* happened before this run, and with failing commands in it, all policies, roles
\* and issuers are in the Vault of today, and all files are of it.
FinishedMeansProvisioned ==
    place = "finished" =>
        /\ made = Artefacts
        /\ \A f \in FileNames : files[f] = gen
        /\ envToken = gen

\* "This will run all 7 provisioners without prompting" (setup-provisioners 11):
\* no provisioner lacks a value, although each of them cuts .env down to its own.
NeverPrompts ==
    place = "load" /\ job = "auto" => Variables(prov) \subseteq parent \cup env

\* After setup-vault.sh has written .env for a Vault without KV engine, whatever
\* else there is in it, setup-provisioners.sh comes to its successful end if no
\* command fails.
FreshConfigProvisions ==
    (place = "guard" /\ parent = Names /\ parentToken \in {0, gen}
        /\ "secret" \notin mounts /\ faults = MaxFaults)
    ~> place = "finished"

\* "Provisioning Already Complete. Running this script again will duplicate
\* configuration" (setup-provisioners 57 to 59): the script does not go on, to a
\* second root CA, in a Vault that has its KV engine and a root CA.
GuardStopsRerun ==
    [][place = "guard" /\ place' = "load" /\ ~disturbed'
        => "secret" \notin mounts \/ "root" \notin made]_vars
=============================================================================
