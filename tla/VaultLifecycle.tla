--------------------------- MODULE VaultLifecycle ---------------------------
(***************************************************************************)
(* start-vault.sh, server/init/setup.sh and cleanup-vault.sh: the scripts  *)
(* that start, initialise, unseal and reset the Vault container, and the   *)
(* files and the volume they leave for each other.                         *)
(*                                                                         *)
(* One operator runs one script at a time; start-vault.sh calls the other  *)
(* two. Vault may restart, and a script may be killed, between any two of  *)
(* the commands modelled as steps. Each initialisation of the volume has a *)
(* number, which also stands for the unseal key and root token it printed. *)
(***************************************************************************)
EXTENDS Integers

CONSTANTS
    MaxInits,       \* bound: how often the volume is initialised
    MaxFaults       \* bound: restarts, stops, failing docker commands, kills

ASSUME LifecycleBounds == MaxInits \in Nat \ {0} /\ MaxFaults \in Nat

VARIABLES
    running,    \* the container runs
    sealed,     \* Vault is sealed, or uninitialised, or away
    vol,        \* the initialisation the volume vault-data holds, 0 for none
    inits,      \* how many initialisations there have been
    initFile,   \* whose key vault-init.json holds, or Missing, or Empty
    env,        \* .env exists
    pc,         \* the next command of the script that runs
    job,        \* the script the operator started
    status,     \* VAULT_STATUS, as far as setup.sh looks at it
    disturbed,  \* history: something failed since the script was started
    faults      \* how much of MaxFaults is used

vault == <<running, sealed, vol, inits>>
files == <<initFile, env>>
script == <<pc, job, status>>
vars == <<vault, files, script, disturbed, faults>>

Missing == -1
Empty == 0
NotInitialised == 0

StartSteps == {"up", "check_init", "check_env", "ready"}
SetupSteps == {"wait", "status", "truncate", "init", "save", "restatus",
               "unseal", "done"}
CleanupSteps == {"compose_down", "rm_volumes", "rm_file", "rm_env"}

TypeOK ==
    /\ running \in BOOLEAN
    /\ sealed \in BOOLEAN
    /\ vol \in 0..MaxInits
    /\ inits \in 0..MaxInits
    /\ initFile \in {Missing, Empty} \cup 1..MaxInits
    /\ env \in BOOLEAN
    /\ pc \in {"idle"} \cup StartSteps \cup SetupSteps \cup CleanupSteps
    /\ job \in {"start", "scratch", "setup", "cleanup"}
    /\ status \in {"none", "initialised", "uninitialised"}
    /\ disturbed \in BOOLEAN
    /\ faults \in 0..MaxFaults

\* A fresh checkout.
Init ==
    /\ running = FALSE
    /\ sealed = TRUE
    /\ vol = NotInitialised
    /\ inits = 0
    /\ initFile = Missing
    /\ env = FALSE
    /\ pc = "idle"
    /\ job = "start"
    /\ status = "none"
    /\ disturbed = FALSE
    /\ faults = 0

-----------------------------------------------------------------------------
(* The operator.                                                           *)

Run(script_, first) ==
    /\ pc = "idle"
    /\ job' = script_
    /\ pc' = first
    /\ status' = "none"
    /\ disturbed' = FALSE
    /\ UNCHANGED <<vault, files, faults>>

\* start-vault.sh without vault-init.json, or with the answer "1. Resume".
RunStartVault == Run("start", "up")

\* start-vault.sh --scratch, or the answer "2. Start from scratch".
RunScratch ==
    /\ inits < MaxInits
    /\ Run("scratch", "compose_down")

\* setup.sh by hand, as its header and QUICKSTART say.
RunSetup == Run("setup", "wait")

RunCleanup ==
    /\ inits < MaxInits
    /\ Run("cleanup", "compose_down")

\* setup-vault.sh writes .env.
RunSetupVault ==
    /\ pc = "idle"
    /\ env' = TRUE
    /\ UNCHANGED <<vault, initFile, script, disturbed, faults>>

-----------------------------------------------------------------------------
(* cleanup-vault.sh. Its docker commands may fail; it goes on ("|| true"). *)

Goto(next) ==
    /\ pc' = next
    /\ UNCHANGED <<job, status>>

ComposeDown ==
    /\ pc = "compose_down"
    /\ running' = FALSE
    /\ sealed' = TRUE
    /\ Goto("rm_volumes")
    /\ UNCHANGED <<vol, inits, files, disturbed, faults>>

\* A volume in use is not removed, and only a warning says so.
RemoveVolumes ==
    /\ pc = "rm_volumes"
    /\ vol' = IF running THEN vol ELSE NotInitialised
    /\ Goto("rm_file")
    /\ UNCHANGED <<running, sealed, inits, files, disturbed, faults>>

AfterCleanup == IF job = "scratch" THEN "rm_env" ELSE "idle"

\* Mutant: vault-init.json is kept.
RemoveInitFileKeeps ==
    /\ pc = "rm_file"
    /\ Goto(AfterCleanup)
    /\ UNCHANGED <<vault, files, disturbed, faults>>

\* Whatever became of the volume, the file with its key goes.
RemoveInitFile ==
    /\ pc = "rm_file"
    /\ initFile' = Missing
    /\ Goto(AfterCleanup)
    /\ UNCHANGED <<vault, env, disturbed, faults>>

\* Back in start-vault.sh --scratch, which goes on as "start".
RemoveEnv ==
    /\ pc = "rm_env"
    /\ env' = FALSE
    /\ Goto("up")
    /\ UNCHANGED <<vault, initFile, disturbed, faults>>

-----------------------------------------------------------------------------
(* start-vault.sh.                                                         *)

\* "docker compose up -d": a container that runs is left alone, unless .env has
\* by now another VAULT_API_ADDR or VAULT_HTTPS_PORT than it was made with: then
\* it is replaced. A new one comes up sealed.
ComposeUp ==
    /\ pc = "up"
    /\ running' = TRUE
    /\ sealed' \in IF running THEN {sealed, TRUE} ELSE {TRUE}
    /\ Goto("check_init")
    /\ UNCHANGED <<vol, inits, files, disturbed, faults>>

\* setup.sh is called only when the file does not exist; whether Vault is
\* initialised or sealed is not looked at.
CheckInitFile ==
    /\ pc = "check_init"
    /\ Goto(IF initFile = Missing THEN "wait" ELSE "check_env")
    /\ UNCHANGED <<vault, files, disturbed, faults>>

\* Without .env the script ends here and asks for setup-vault.sh.
CheckEnv ==
    /\ pc = "check_env"
    /\ Goto(IF env THEN "ready" ELSE "idle")
    /\ UNCHANGED <<vault, files, disturbed, faults>>

\* "Vault is ready to provision" has been printed.
Finish ==
    /\ pc = "ready"
    /\ Goto("idle")
    /\ UNCHANGED <<vault, files, disturbed, faults>>

-----------------------------------------------------------------------------
(* setup.sh, under "set -e": a command that fails ends it, and ends the    *)
(* start-vault.sh that called it.                                          *)

WaitForVault ==
    /\ pc = "wait"
    /\ Goto(IF running THEN "status" ELSE "idle")
    /\ UNCHANGED <<vault, files, disturbed, faults>>

\* "vault status ... || true": no answer is an empty string.
StatusAnswer ==
    CASE ~running -> "none"
      [] running /\ vol # NotInitialised -> "initialised"
      [] running /\ vol = NotInitialised -> "uninitialised"

\* Both branches that initialise begin by truncating the file; an empty status
\* takes the second of them, whatever the file holds.
Branch(answer) ==
    IF initFile # Missing /\ answer = "initialised" THEN "unseal" ELSE "truncate"

\* Mutant: an initialised Vault is taken for one to initialise.
ReadStatusSwapped ==
    /\ pc = "status"
    /\ status' = StatusAnswer
    /\ pc' = "truncate"
    /\ UNCHANGED <<vault, files, job, disturbed, faults>>

\* Mutant: "already initialized -- skipping" skips the unsealing as well.
ReadStatusSkipsUnseal ==
    /\ pc = "status"
    /\ status' = StatusAnswer
    /\ pc' = IF Branch(status') = "unseal" THEN "done" ELSE "truncate"
    /\ UNCHANGED <<vault, files, job, disturbed, faults>>

ReadStatus ==
    /\ pc = "status"
    /\ status' = StatusAnswer
    /\ pc' = Branch(status')
    /\ UNCHANGED <<vault, files, job, disturbed, faults>>

\* Mutant: the old file stays until the new one is complete.
TruncateInitFileLater ==
    /\ pc = "truncate"
    /\ initFile' = IF initFile = Missing THEN Empty ELSE initFile
    /\ Goto("init")
    /\ UNCHANGED <<vault, env, disturbed, faults>>

\* The redirection "> $INIT_FILE" takes effect before docker runs.
TruncateInitFile ==
    /\ pc = "truncate"
    /\ initFile' = Empty
    /\ Goto("init")
    /\ UNCHANGED <<vault, env, disturbed, faults>>

\* Mutant: a volume that is initialised already is initialised again.
OperatorInitAgain ==
    /\ pc = "init"
    /\ running
    /\ inits' = inits + 1
    /\ vol' = inits + 1
    /\ Goto("save")
    /\ UNCHANGED <<running, sealed, files, disturbed, faults>>

\* "vault operator init" succeeds once per volume.
OperatorInit ==
    /\ pc = "init"
    /\ running /\ vol = NotInitialised
    /\ inits' = inits + 1
    /\ vol' = inits + 1
    /\ Goto("save")
    /\ UNCHANGED <<running, sealed, files, disturbed, faults>>

OperatorInitRefused ==
    /\ pc = "init"
    /\ ~running \/ vol # NotInitialised
    /\ Goto("idle")
    /\ UNCHANGED <<vault, files, disturbed, faults>>

\* What init printed reaches the file.
SaveInitFile ==
    /\ pc = "save"
    /\ initFile' = vol
    /\ Goto("restatus")
    /\ UNCHANGED <<vault, env, disturbed, faults>>

RereadStatus ==
    /\ pc = "restatus"
    /\ status' = StatusAnswer
    /\ pc' = "unseal"
    /\ UNCHANGED <<vault, files, job, disturbed, faults>>

\* jq's '.sealed // "true"' yields "true" for any status, as false counts as no
\* value, and an empty string for an empty status: the unseal is skipped only
\* when there was no answer.
SkipUnseal ==
    /\ pc = "unseal"
    /\ status = "none"
    /\ Goto("done")
    /\ UNCHANGED <<vault, files, disturbed, faults>>

\* A Vault that is unsealed accepts any key that is not empty.
Unseal ==
    /\ pc = "unseal"
    /\ status # "none"
    /\ running /\ vol # NotInitialised
    /\ initFile = vol \/ (initFile \notin {Missing, Empty} /\ ~sealed)
    /\ sealed' = FALSE
    /\ Goto("done")
    /\ UNCHANGED <<running, vol, inits, files, disturbed, faults>>

UnsealRefused ==
    /\ pc = "unseal"
    /\ status # "none"
    /\ \/ ~running \/ vol = NotInitialised \/ initFile \in {Missing, Empty}
       \/ initFile # vol /\ sealed
    /\ Goto("idle")
    /\ UNCHANGED <<vault, files, disturbed, faults>>

\* "Vault is ready"; start-vault.sh, if it was the caller, goes on.
SetupReturns ==
    /\ pc = "done"
    /\ Goto(IF job = "setup" THEN "idle" ELSE "check_env")
    /\ UNCHANGED <<vault, files, disturbed, faults>>

-----------------------------------------------------------------------------
(* What goes wrong.                                                        *)

Fault ==
    /\ faults < MaxFaults
    /\ faults' = faults + 1
    /\ disturbed' = TRUE

\* The container comes back by itself ("restart: on-failure"), sealed.
VaultRestarts ==
    /\ Fault
    /\ running
    /\ sealed' = TRUE
    /\ UNCHANGED <<running, vol, inits, files, script>>

VaultStops ==
    /\ Fault
    /\ running
    /\ running' = FALSE
    /\ sealed' = TRUE
    /\ UNCHANGED <<vol, inits, files, script>>

\* Ctrl-C, or the end of the terminal session, or a failing "docker compose up".
ScriptDies ==
    /\ Fault
    /\ pc # "idle"
    /\ Goto("idle")
    /\ UNCHANGED <<vault, files>>

\* A docker command that cleanup-vault.sh or "|| true" lets fail.
DockerFails ==
    /\ Fault
    /\ \/ /\ pc = "compose_down"
          /\ Goto("rm_volumes")
       \/ /\ pc = "rm_volumes"
          /\ Goto("rm_file")
       \/ /\ pc = "status"
          /\ status' = "none"
          /\ pc' = Branch("none")
          /\ UNCHANGED job
       \/ /\ pc = "restatus"
          /\ status' = "none"
          /\ pc' = "unseal"
          /\ UNCHANGED job
    /\ UNCHANGED <<vault, files>>

-----------------------------------------------------------------------------
Setup ==
    \/ WaitForVault \/ ReadStatus \/ TruncateInitFile
    \/ OperatorInit \/ OperatorInitRefused \/ SaveInitFile \/ RereadStatus
    \/ SkipUnseal \/ Unseal \/ UnsealRefused \/ SetupReturns

Cleanup == ComposeDown \/ RemoveVolumes \/ RemoveInitFile \/ RemoveEnv

StartVault == ComposeUp \/ CheckInitFile \/ CheckEnv \/ Finish

Operator == RunStartVault \/ RunScratch \/ RunSetup \/ RunCleanup \/ RunSetupVault

Next ==
    \/ Operator \/ StartVault \/ Setup \/ Cleanup
    \/ VaultRestarts \/ VaultStops \/ ScriptDies \/ DockerFails

Spec == Init /\ [][Next]_vars

\* A script that was started runs on; the operator owes nothing.
FairSpec == Spec /\ WF_vars(StartVault \/ Setup \/ Cleanup)

-----------------------------------------------------------------------------
(* Properties.                                                             *)

\* The key in vault-init.json, if there is one, is that of the Vault in the
\* volume, whatever was cleaned up, killed or initialised again in between.
KeyMatchesVault ==
    initFile \notin {Missing, Empty} /\ vol # NotInitialised => initFile = vol

\* "Vault is ready" (setup.sh 106) is true if nothing failed meanwhile: Vault is
\* initialised and unsealed, and the file holds its key. Whatever failed, restarts
\* before and after the unseal included: if setup.sh had an answer to its last query,
\* the file holds the key of the Vault there is.
SetupUnseals ==
    pc = "done" =>
        /\ ~disturbed => running /\ ~sealed /\ status # "none"
        /\ status # "none" => vol # NotInitialised /\ initFile = vol

\* The key of an initialised Vault is given up in two places only: by cleanup,
\* which the operator asked for, and by a setup.sh that had no status.
KeyGivenUpKnowingly ==
    [][(initFile = vol /\ vol # NotInitialised /\ initFile' # initFile) =>
          (pc = "rm_file" \/ (pc = "truncate" /\ status = "none"))]_vars

\* A reset from scratch during which nothing fails ends with a new Vault that is
\* unsealed and whose key is kept, from whatever state it found.
ScratchRecovers ==
    \A v \in 0..MaxInits :
        (pc = "compose_down" /\ job = "scratch" /\ faults = MaxFaults /\ vol = v) ~>
            (running /\ ~sealed /\ vol \notin {v, NotInitialised} /\ initFile = vol)

\* "./start-vault.sh automatically: ... Unseals Vault" (QUICKSTART 32-36): what
\* it calls ready to provision, undisturbed, is unsealed.
ReadyMeansUnsealed == pc = "ready" /\ ~disturbed => ~sealed

\* "KEEP $INIT_FILE SAFE -- contains unseal key + root token" (setup.sh 121):
\* setup.sh itself does not lose the key of an initialised Vault.
SetupKeepsKey ==
    [][(pc \in SetupSteps /\ initFile = vol /\ vol # NotInitialised) =>
          (initFile' = initFile)]_vars
=============================================================================
