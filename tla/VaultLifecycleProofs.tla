------------------------ MODULE VaultLifecycleProofs ------------------------
(***************************************************************************)
(* Proofs about VaultLifecycle for any number of initialisations and       *)
(* faults: the key on file is never a foreign one, setup.sh tells the      *)
(* truth when undisturbed, and where a key can be lost.                    *)
(***************************************************************************)
EXTENDS VaultLifecycle, TLAPS

\* Initialisations are numbered in order, and there is one left to make whenever
\* the volume is, or is about to be, without one.
Numbered ==
    /\ vol <= inits
    /\ vol = NotInitialised \/ pc \in {"compose_down", "rm_volumes"} => inits < MaxInits

\* With a status, only a missing file or an uninitialised volume leads to the
\* truncation; from then until the save, the file is empty; when there is
\* something to save, the volume has just been initialised.
Initialising ==
    /\ pc = "truncate" /\ status # "none" =>
           vol = NotInitialised \/ initFile = Missing
    /\ pc \in {"init", "save"} => initFile = Empty
    /\ pc = "save" => vol # NotInitialised
    /\ pc = "restatus" => vol # NotInitialised /\ initFile = vol

\* While nothing has failed since the script began, setup.sh talks to a Vault
\* that runs, and tries to unseal only one that is initialised.
Undisturbed ==
    ~disturbed =>
        /\ pc \in {"status", "truncate", "init", "save", "restatus", "unseal"} => running
        /\ pc = "unseal" => status # "none" /\ vol # NotInitialised

\* The invariant that every step preserves.
IInv ==
    /\ TypeOK
    /\ Numbered
    /\ KeyMatchesVault
    /\ Initialising
    /\ Undisturbed
    /\ SetupUnseals

-----------------------------------------------------------------------------
\* The invariant holds in a fresh checkout.
LEMMA InvInit == Init => IInv
<1> SUFFICES ASSUME Init PROVE IInv
  OBVIOUS
<1>1. TypeOK
  <2>1. /\ vol \in 0..MaxInits /\ inits \in 0..MaxInits /\ faults \in 0..MaxFaults
        /\ inits < MaxInits
    BY LifecycleBounds DEF Init, NotInitialised
  <2>2. initFile \in {Missing, Empty} \cup 1..MaxInits
    BY DEF Init
  <2>3. /\ running \in BOOLEAN /\ sealed \in BOOLEAN /\ env \in BOOLEAN
        /\ disturbed \in BOOLEAN
    BY DEF Init
  <2>4. /\ pc \in {"idle"} \cup StartSteps \cup SetupSteps \cup CleanupSteps
        /\ job \in {"start", "scratch", "setup", "cleanup"}
        /\ status \in {"none", "initialised", "uninitialised"}
    BY DEF Init
  <2>. QED
    BY <2>1, <2>2, <2>3, <2>4 DEF TypeOK
<1>. QED
  BY <1>1, LifecycleBounds
     DEF Init, IInv, Numbered, KeyMatchesVault, Initialising, Undisturbed,
         SetupUnseals, Missing, Empty, NotInitialised

-----------------------------------------------------------------------------
\* The scripts' control stays among its places.
LEMMA ControlType ==
    ASSUME TypeOK, [Next]_vars
    PROVE  /\ pc' \in {"idle"} \cup StartSteps \cup SetupSteps \cup CleanupSteps
           /\ job' \in {"start", "scratch", "setup", "cleanup"}
           /\ status' \in {"none", "initialised", "uninitialised"}
<1>1. CASE Operator
  BY <1>1 DEF TypeOK, Operator, RunStartVault, RunScratch, RunSetup, RunCleanup,
       RunSetupVault, Run, script, StartSteps, SetupSteps, CleanupSteps
<1>2. CASE StartVault \/ Cleanup
  BY <1>2 DEF TypeOK, StartVault, Cleanup, ComposeUp, CheckInitFile, CheckEnv, Finish,
       ComposeDown, RemoveVolumes, RemoveInitFile, RemoveEnv, Goto, AfterCleanup,
       StartSteps, SetupSteps, CleanupSteps
<1>3. CASE ReadStatus \/ RereadStatus
  BY <1>3 DEF TypeOK, ReadStatus, RereadStatus, StatusAnswer, Branch, SetupSteps
<1>4. CASE \/ WaitForVault \/ TruncateInitFile \/ OperatorInit \/ OperatorInitRefused
           \/ SaveInitFile \/ SkipUnseal \/ Unseal \/ UnsealRefused \/ SetupReturns
  BY <1>4 DEF TypeOK, WaitForVault, TruncateInitFile, OperatorInit,
       OperatorInitRefused, SaveInitFile, SkipUnseal, Unseal, UnsealRefused,
       SetupReturns, Goto, StartSteps, SetupSteps
<1>5. CASE VaultRestarts \/ VaultStops \/ ScriptDies \/ UNCHANGED vars
  BY <1>5 DEF TypeOK, VaultRestarts, VaultStops, ScriptDies, Goto, script, vars
<1>6. CASE DockerFails
  BY <1>6 DEF TypeOK, DockerFails, Branch, Goto, SetupSteps, CleanupSteps
<1>. QED
  BY <1>1, <1>2, <1>3, <1>4, <1>5, <1>6 DEF Next, Setup

\* So do the files and the volume; initialisations do not run out.
LEMMA StateType ==
    ASSUME TypeOK, Numbered, [Next]_vars
    PROVE  /\ running' \in BOOLEAN /\ sealed' \in BOOLEAN /\ env' \in BOOLEAN
           /\ disturbed' \in BOOLEAN /\ faults' \in 0..MaxFaults
           /\ vol' \in 0..MaxInits /\ inits' \in 0..MaxInits
           /\ initFile' \in {Missing, Empty} \cup 1..MaxInits
<1>1. CASE Operator
  BY <1>1 DEF TypeOK, Operator, RunStartVault, RunScratch, RunSetup, RunCleanup,
       RunSetupVault, Run, vault, files
<1>2. CASE StartVault \/ Cleanup
  <2>1. CASE ComposeUp
    <3>1. sealed' \in BOOLEAN /\ running' \in BOOLEAN
      BY <2>1 DEF TypeOK, ComposeUp
    <3>. QED
      BY <2>1, <3>1 DEF TypeOK, ComposeUp, files
  <2>2. CASE CheckInitFile \/ CheckEnv \/ Finish
    BY <2>2 DEF TypeOK, CheckInitFile, CheckEnv, Finish, vault, files
  <2>3. CASE ComposeDown \/ RemoveInitFile \/ RemoveEnv
    BY <2>3 DEF TypeOK, ComposeDown, RemoveInitFile, RemoveEnv, vault, files
  <2>4. CASE RemoveVolumes
    <3>1. vol' \in 0..MaxInits
      BY <2>4, LifecycleBounds DEF TypeOK, RemoveVolumes, NotInitialised
    <3>. QED
      BY <2>4, <3>1 DEF TypeOK, RemoveVolumes, files
  <2>. QED
    BY <1>2, <2>1, <2>2, <2>3, <2>4 DEF StartVault, Cleanup
<1>3. CASE OperatorInit
  <2>1. inits' \in 0..MaxInits /\ vol' \in 0..MaxInits
    BY <1>3, LifecycleBounds DEF TypeOK, Numbered, OperatorInit
  <2>. QED
    BY <1>3, <2>1 DEF TypeOK, OperatorInit, files
<1>4. CASE TruncateInitFile \/ SaveInitFile
  BY <1>4 DEF TypeOK, TruncateInitFile, SaveInitFile, vault, Empty
<1>5. CASE \/ WaitForVault \/ ReadStatus \/ OperatorInitRefused \/ RereadStatus
           \/ SkipUnseal \/ Unseal \/ UnsealRefused \/ SetupReturns
  BY <1>5 DEF TypeOK, WaitForVault, ReadStatus, OperatorInitRefused, RereadStatus,
       SkipUnseal, Unseal, UnsealRefused, SetupReturns, vault, files
<1>6. CASE VaultRestarts \/ VaultStops \/ ScriptDies \/ DockerFails
  <2>1. faults' \in 0..MaxFaults
    BY <1>6, LifecycleBounds
       DEF TypeOK, VaultRestarts, VaultStops, ScriptDies, DockerFails, Fault
  <2>. QED
    BY <1>6, <2>1
       DEF TypeOK, VaultRestarts, VaultStops, ScriptDies, DockerFails, Fault, vault,
           files
<1>7. CASE UNCHANGED vars
  BY <1>7 DEF TypeOK, vars, vault, files
<1>. QED
  BY <1>1, <1>2, <1>3, <1>4, <1>5, <1>6, <1>7 DEF Next, Setup

LEMMA TypeStep ==
    ASSUME TypeOK, Numbered, [Next]_vars
    PROVE  TypeOK'
BY ControlType, StateType DEF TypeOK

-----------------------------------------------------------------------------
\* A step of the operator begins a script at its first command, undisturbed.
LEMMA OperatorStep ==
    ASSUME IInv, TypeOK', Operator
    PROVE  IInv'
<1>1. CASE RunSetupVault
  BY <1>1 DEF IInv, Numbered, KeyMatchesVault, Initialising, Undisturbed, SetupUnseals,
       RunSetupVault, vault, script
<1>2. CASE RunStartVault \/ RunScratch \/ RunSetup \/ RunCleanup
  <2>1. pc' \in {"up", "wait", "compose_down"} /\ UNCHANGED <<vault, files>>
    BY <1>2 DEF RunStartVault, RunScratch, RunSetup, RunCleanup, Run
  <2>2. pc' = "compose_down" => inits < MaxInits
    BY <1>2 DEF RunStartVault, RunScratch, RunSetup, RunCleanup, Run
  <2>3. Numbered'
    BY <2>1, <2>2 DEF IInv, Numbered, vault
  <2>. QED
    BY <2>1, <2>3 DEF IInv, KeyMatchesVault, Initialising, Undisturbed, SetupUnseals,
         vault, files
<1>. QED
  BY <1>1, <1>2 DEF Operator

LEMMA CleanupStep ==
    ASSUME IInv, TypeOK', Cleanup
    PROVE  IInv'
<1>1. pc' \in {"rm_volumes", "rm_file", "rm_env", "idle", "up"} /\ pc \in CleanupSteps
  BY DEF Cleanup, ComposeDown, RemoveVolumes, RemoveInitFile, RemoveEnv, Goto,
       AfterCleanup, CleanupSteps
<1>2. Numbered'
  BY DEF IInv, TypeOK, Numbered, Cleanup, ComposeDown, RemoveVolumes, RemoveInitFile,
       RemoveEnv, Goto, AfterCleanup, vault, NotInitialised
<1>3. KeyMatchesVault'
  BY DEF IInv, KeyMatchesVault, Cleanup, ComposeDown, RemoveVolumes, RemoveInitFile,
       RemoveEnv, vault, files
<1>. QED
  BY <1>1, <1>2, <1>3 DEF IInv, Initialising, Undisturbed, SetupUnseals

LEMMA StartVaultStep ==
    ASSUME IInv, TypeOK', StartVault
    PROVE  IInv'
<1>1. /\ pc' \in {"check_init", "wait", "check_env", "ready", "idle"}
      /\ UNCHANGED <<vol, inits, initFile>>
  BY DEF StartVault, ComposeUp, CheckInitFile, CheckEnv, Finish, Goto, vault, files
<1>. QED
  BY <1>1 DEF IInv, Numbered, KeyMatchesVault, Initialising, Undisturbed, SetupUnseals

\* A failing command, a kill or a restart marks the script as disturbed.
LEMMA FaultStep ==
    ASSUME IInv, TypeOK', VaultRestarts \/ VaultStops \/ ScriptDies \/ DockerFails
    PROVE  IInv'
<1>1. disturbed' = TRUE
  BY DEF VaultRestarts, VaultStops, ScriptDies, DockerFails, Fault
<1>2. UNCHANGED <<vol, inits, initFile>>
  BY DEF VaultRestarts, VaultStops, ScriptDies, DockerFails, vault, files
<1>3. \/ pc' = pc \/ pc' \in {"idle", "truncate", "rm_file", "unseal"}
      \/ pc' = "rm_volumes" /\ pc = "compose_down"
  BY DEF VaultRestarts, VaultStops, ScriptDies, DockerFails, Goto, Branch, script
<1>4. Numbered'
  BY <1>2, <1>3 DEF IInv, Numbered
<1>5. pc' = "truncate" => status' = "none" \/ (pc = "truncate" /\ status' = status)
  BY DEF VaultRestarts, VaultStops, ScriptDies, DockerFails, Goto, Branch, script
<1>6. Initialising'
  BY <1>2, <1>3, <1>5 DEF IInv, Initialising
<1>7. pc' = "done" => pc = "done" /\ status' = status
  BY DEF VaultRestarts, VaultStops, ScriptDies, DockerFails, Goto, Branch, script
<1>. QED
  BY <1>1, <1>2, <1>4, <1>6, <1>7 DEF IInv, KeyMatchesVault, Undisturbed, SetupUnseals

\* The volume is initialised only while the file is empty, and what is saved is
\* the key of the volume just initialised.
LEMMA InitialiseStep ==
    ASSUME IInv, TypeOK',
           \/ TruncateInitFile \/ OperatorInit \/ OperatorInitRefused \/ SaveInitFile
    PROVE  IInv'
<1>1. CASE TruncateInitFile
  BY <1>1 DEF IInv, Numbered, KeyMatchesVault, Initialising, Undisturbed, SetupUnseals,
       TruncateInitFile, Goto, vault
<1>2. CASE OperatorInit
  <2>1. /\ pc = "init" /\ pc' = "save" /\ vol' = inits + 1 /\ inits' = inits + 1
        /\ UNCHANGED <<running, initFile, disturbed, status>>
    BY <1>2 DEF OperatorInit, Goto, files
  <2>2. inits \in Nat /\ initFile = Empty
    BY <2>1 DEF IInv, TypeOK, Initialising
  <2>3. Numbered'
    BY <2>1, <2>2 DEF Numbered, NotInitialised
  <2>4. KeyMatchesVault' /\ Initialising'
    BY <2>1, <2>2 DEF KeyMatchesVault, Initialising, NotInitialised
  <2>. QED
    BY <2>1, <2>3, <2>4 DEF IInv, Undisturbed, SetupUnseals
<1>3. CASE OperatorInitRefused
  BY <1>3 DEF IInv, Numbered, KeyMatchesVault, Initialising, Undisturbed, SetupUnseals,
       OperatorInitRefused, Goto, vault, files
<1>4. CASE SaveInitFile
  BY <1>4 DEF IInv, Numbered, KeyMatchesVault, Initialising, Undisturbed, SetupUnseals,
       SaveInitFile, Goto, vault
<1>. QED
  BY <1>1, <1>2, <1>3, <1>4

\* An undisturbed script reads a status; an initialised Vault goes on to the unseal.
LEMMA StatusStep ==
    ASSUME IInv, TypeOK', WaitForVault \/ ReadStatus \/ RereadStatus
    PROVE  IInv'
<1>1. UNCHANGED <<vault, files, disturbed>>
  BY DEF WaitForVault, ReadStatus, RereadStatus
<1>2. CASE WaitForVault
  BY <1>1, <1>2 DEF IInv, Numbered, KeyMatchesVault, Initialising, Undisturbed,
       SetupUnseals, WaitForVault, Goto, vault, files
<1>3. CASE ReadStatus
  <2>1. pc' \in {"truncate", "unseal"} /\ (pc' = "unseal" => status' = "initialised")
    BY <1>3 DEF ReadStatus, Branch
  <2>2. status' = "initialised" => vol # NotInitialised
    BY <1>3 DEF ReadStatus, StatusAnswer, IInv, TypeOK
  <2>3. ~disturbed => running
    BY <1>3 DEF IInv, Undisturbed, ReadStatus
  <2>4. pc' = "truncate" /\ status' # "none" =>
            vol = NotInitialised \/ initFile = Missing
    BY <1>3 DEF ReadStatus, StatusAnswer, Branch, IInv, TypeOK
  <2>. QED
    BY <1>1, <2>1, <2>2, <2>3, <2>4 DEF IInv, Numbered, KeyMatchesVault, Initialising,
         Undisturbed, SetupUnseals, vault, files
<1>4. CASE RereadStatus
  <2>1. pc = "restatus" /\ pc' = "unseal" /\ status' = StatusAnswer
    BY <1>4 DEF RereadStatus
  <2>2. vol # NotInitialised /\ (~disturbed => running)
    BY <2>1 DEF IInv, Initialising, Undisturbed
  <2>3. ~disturbed => status' # "none"
    BY <2>1, <2>2 DEF StatusAnswer
  <2>. QED
    BY <1>1, <2>1, <2>2, <2>3 DEF IInv, Numbered, KeyMatchesVault, Initialising,
         Undisturbed, SetupUnseals, vault, files
<1>. QED
  BY <1>2, <1>3, <1>4

\* Only the key on file unseals, and it is the volume's own.
LEMMA UnsealStep ==
    ASSUME IInv, TypeOK', SkipUnseal \/ Unseal \/ UnsealRefused \/ SetupReturns
    PROVE  IInv'
<1>1. UNCHANGED <<running, vol, inits, initFile, disturbed>>
  BY DEF SkipUnseal, Unseal, UnsealRefused, SetupReturns, vault, files
<1>2. pc' \in {"done", "idle", "check_env"}
  BY DEF SkipUnseal, Unseal, UnsealRefused, SetupReturns, Goto
<1>3. SetupUnseals'
  <2> SUFFICES ASSUME pc' = "done"
               PROVE  /\ ~disturbed' => (running /\ ~sealed /\ status # "none")'
                      /\ status' # "none" => (vol # NotInitialised /\ initFile = vol)'
    BY DEF SetupUnseals
  <2>1. CASE SkipUnseal
    BY <1>1, <2>1 DEF SkipUnseal, Goto, IInv, Undisturbed
  <2>2. CASE Unseal
    <3>1. initFile = vol
      BY <2>2 DEF Unseal, IInv, KeyMatchesVault
    <3>. QED
      BY <1>1, <2>2, <3>1 DEF Unseal, Goto
  <2>. QED
    BY <2>1, <2>2 DEF UnsealRefused, SetupReturns, Goto
<1>4. Numbered' /\ KeyMatchesVault' /\ Initialising' /\ Undisturbed'
  BY <1>1, <1>2 DEF IInv, Numbered, KeyMatchesVault, Initialising, Undisturbed
<1>. QED
  BY <1>3, <1>4 DEF IInv

LEMMA StutterStep ==
    ASSUME IInv, UNCHANGED vars
    PROVE  IInv'
<1>1. TypeOK'
  BY DEF IInv, TypeOK, vars, vault, files, script
<1>. QED
  BY <1>1 DEF IInv, Numbered, KeyMatchesVault, Initialising, Undisturbed, SetupUnseals,
       vars, vault, files, script

-----------------------------------------------------------------------------
\* Every step preserves the invariant.
LEMMA InvNext == IInv /\ [Next]_vars => IInv'
<1> SUFFICES ASSUME IInv, [Next]_vars PROVE IInv'
  OBVIOUS
<1>1. TypeOK'
  BY TypeStep DEF IInv
<1>2. CASE Operator \/ StartVault \/ Cleanup
  BY <1>1, <1>2, OperatorStep, StartVaultStep, CleanupStep
<1>3. CASE Setup
  BY <1>1, <1>3, InitialiseStep, StatusStep, UnsealStep DEF Setup
<1>4. CASE VaultRestarts \/ VaultStops \/ ScriptDies \/ DockerFails
  BY <1>1, <1>4, FaultStep
<1>5. CASE UNCHANGED vars
  BY <1>5, StutterStep
<1>. QED
  BY <1>2, <1>3, <1>4, <1>5 DEF Next

LEMMA Invariance == Spec => []IInv
BY InvInit, InvNext, PTL DEF Spec

\* Each variable has its type; in particular the volume is never initialised more
\* often than the bound counts.
THEOREM LifecycleTypes == Spec => []TypeOK
<1>1. IInv => TypeOK
  BY DEF IInv
<1>. QED
  BY Invariance, <1>1, PTL

\* vault-init.json never holds the key of another Vault than the one in the volume.
THEOREM NoForeignKey == Spec => []KeyMatchesVault
<1>1. IInv => KeyMatchesVault
  BY DEF IInv
<1>. QED
  BY Invariance, <1>1, PTL

\* setup.sh's "Vault is ready" (106) is true of any run that nothing disturbed.
THEOREM SetupIsTruthful == Spec => []SetupUnseals
<1>1. IInv => SetupUnseals
  BY DEF IInv
<1>. QED
  BY Invariance, <1>1, PTL

\* The key of an initialised Vault disappears from its file only when cleanup
\* removes the file, or when setup.sh truncates it without having had a status.
THEOREM KeyIsKept == Spec => KeyGivenUpKnowingly
<1>1. ASSUME IInv, Next, initFile = vol, vol # NotInitialised, initFile' # initFile
      PROVE  pc = "rm_file" \/ (pc = "truncate" /\ status = "none")
  <2>1. CASE Operator \/ StartVault
    BY <1>1, <2>1 DEF Operator, RunStartVault, RunScratch, RunSetup, RunCleanup,
         RunSetupVault, Run, StartVault, ComposeUp, CheckInitFile, CheckEnv, Finish,
         files
  <2>2. CASE Cleanup
    BY <1>1, <2>2 DEF Cleanup, ComposeDown, RemoveVolumes, RemoveInitFile, RemoveEnv,
         files
  <2>3. CASE TruncateInitFile
    BY <1>1, <2>3 DEF TruncateInitFile, IInv, TypeOK, Initialising, Missing,
         NotInitialised
  <2>4. CASE SaveInitFile
    BY <1>1, <2>4 DEF SaveInitFile
  <2>5. CASE \/ WaitForVault \/ ReadStatus \/ OperatorInit \/ OperatorInitRefused
             \/ RereadStatus \/ SkipUnseal \/ Unseal \/ UnsealRefused \/ SetupReturns
    BY <1>1, <2>5 DEF WaitForVault, ReadStatus, OperatorInit, OperatorInitRefused,
         RereadStatus, SkipUnseal, Unseal, UnsealRefused, SetupReturns, files
  <2>6. CASE VaultRestarts \/ VaultStops \/ ScriptDies \/ DockerFails
    BY <1>1, <2>6 DEF VaultRestarts, VaultStops, ScriptDies, DockerFails, files
  <2>. QED
    BY <1>1, <2>1, <2>2, <2>3, <2>4, <2>5, <2>6 DEF Next, Setup
<1>2. IInv /\ [Next]_vars =>
        [(initFile = vol /\ vol # NotInitialised /\ initFile' # initFile) =>
            (pc = "rm_file" \/ (pc = "truncate" /\ status = "none"))]_vars
  BY <1>1
<1>. QED
  BY Invariance, <1>2, PTL DEF Spec, KeyGivenUpKnowingly
=============================================================================
