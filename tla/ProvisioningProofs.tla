------------------------- MODULE ProvisioningProofs -------------------------
(***************************************************************************)
(* Theorems about Provisioning, for any number of Vaults, scripts and      *)
(* faults: the types, and that an end reported as success means what it    *)
(* says, whatever happened before.                                         *)
(***************************************************************************)
EXTENDS Provisioning, TLAPS

-----------------------------------------------------------------------------
(* What the proofs need to know of the lists of commands.                  *)

StepFactsOf(k) ==
    /\ Len(Steps[k]) \in 1..6
    /\ DOMAIN Steps[k] = 1..Len(Steps[k])
    /\ \A i \in 1..Len(Steps[k]) :
        /\ Steps[k][i].do \in {"enable", "write", "export", "root", "save"}
        /\ Steps[k][i].do = "root" => k = 2 /\ i = 2 /\ Steps[k][i].what = "root"
        /\ Steps[k][i].do = "enable" => Steps[k][i].needs = {}

LEMMA StepFacts == \A k \in Provisioners : StepFactsOf(k)
<1> USE DEF Enable, Write, Export, Generate, Save
<1>1. StepFactsOf(1)
    <2>0. Steps[1] = KvSecrets
        BY DEF Steps
    <2>1. Len(KvSecrets) = 6 /\ DOMAIN KvSecrets = 1..6
        BY DEF KvSecrets
    <2>2. /\ KvSecrets[1].do = "enable" /\ KvSecrets[2].do = "write"
          /\ KvSecrets[3].do = "enable" /\ KvSecrets[4].do = "write"
          /\ KvSecrets[5].do = "export" /\ KvSecrets[6].do = "save"
          /\ KvSecrets[1].needs = {} /\ KvSecrets[3].needs = {}
        BY DEF KvSecrets
    <2> QED
        BY <2>0, <2>1, <2>2 DEF StepFactsOf
<1>2. StepFactsOf(2)
    <2>0. Steps[2] = PkiInternalCA
        BY DEF Steps
    <2>1. Len(PkiInternalCA) = 5 /\ DOMAIN PkiInternalCA = 1..5
        BY DEF PkiInternalCA
    <2>2. /\ PkiInternalCA[1].do = "enable" /\ PkiInternalCA[2].do = "root"
          /\ PkiInternalCA[2].what = "root" /\ PkiInternalCA[3].do = "write"
          /\ PkiInternalCA[4].do = "write" /\ PkiInternalCA[5].do = "save"
          /\ PkiInternalCA[1].needs = {}
        BY DEF PkiInternalCA
    <2> QED
        BY <2>0, <2>1, <2>2 DEF StepFactsOf
<1>3. StepFactsOf(3)
    <2>0. Steps[3] = PkiIntermediateCA
        BY DEF Steps
    <2>1. Len(PkiIntermediateCA) = 5 /\ DOMAIN PkiIntermediateCA = 1..5
        BY DEF PkiIntermediateCA
    <2>2. /\ PkiIntermediateCA[1].do = "enable" /\ PkiIntermediateCA[2].do = "write"
          /\ PkiIntermediateCA[3].do = "write" /\ PkiIntermediateCA[4].do = "export"
          /\ PkiIntermediateCA[5].do = "save" /\ PkiIntermediateCA[1].needs = {}
        BY DEF PkiIntermediateCA
    <2> QED
        BY <2>0, <2>1, <2>2 DEF StepFactsOf
<1>4. StepFactsOf(4)
    <2>0. Steps[4] = PkiAcme
        BY DEF Steps
    <2>1. Len(PkiAcme) = 3 /\ DOMAIN PkiAcme = 1..3
        BY DEF PkiAcme
    <2>2. PkiAcme[1].do = "write" /\ PkiAcme[2].do = "write" /\ PkiAcme[3].do = "save"
        BY DEF PkiAcme
    <2> QED
        BY <2>0, <2>1, <2>2 DEF StepFactsOf
<1>5. StepFactsOf(5)
    <2>0. Steps[5] = ApproleNginx
        BY DEF Steps
    <2>1. Len(ApproleNginx) = 3 /\ DOMAIN ApproleNginx = 1..3
        BY DEF ApproleNginx
    <2>2. /\ ApproleNginx[1].do = "write" /\ ApproleNginx[2].do = "write"
          /\ ApproleNginx[3].do = "export"
        BY DEF ApproleNginx
    <2> QED
        BY <2>0, <2>1, <2>2 DEF StepFactsOf
<1>6. StepFactsOf(6)
    <2>0. Steps[6] = MtlsBootstrap
        BY DEF Steps
    <2>1. Len(MtlsBootstrap) = 4 /\ DOMAIN MtlsBootstrap = 1..4
        BY DEF MtlsBootstrap
    <2>2. /\ MtlsBootstrap[1].do = "enable" /\ MtlsBootstrap[2].do = "write"
          /\ MtlsBootstrap[3].do = "export" /\ MtlsBootstrap[4].do = "save"
          /\ MtlsBootstrap[1].needs = {}
        BY DEF MtlsBootstrap
    <2> QED
        BY <2>0, <2>1, <2>2 DEF StepFactsOf
<1>7. StepFactsOf(7)
    <2>0. Steps[7] = PkiCertmgr
        BY DEF Steps
    <2>1. Len(PkiCertmgr) = 3 /\ DOMAIN PkiCertmgr = 1..3
        BY DEF PkiCertmgr
    <2>2. PkiCertmgr[1].do = "write" /\ PkiCertmgr[2].do = "write" /\ PkiCertmgr[3].do = "save"
        BY DEF PkiCertmgr
    <2> QED
        BY <2>0, <2>1, <2>2 DEF StepFactsOf
<1> QED
    BY <1>1, <1>2, <1>3, <1>4, <1>5, <1>6, <1>7 DEF Provisioners

\* The root CA is generated in 02, and the last provisioner writes and saves.
LEMMA Landmarks ==
    /\ 2 \in 1..Len(Steps[2]) /\ Steps[2][2].do = "root"
    /\ 1 \in 1..Len(Steps[7]) /\ Steps[7][1].do = "write"
    /\ 3 \in 1..Len(Steps[7]) /\ Steps[7][3].do = "save"
<1>1. Steps[2] = PkiInternalCA /\ Len(PkiInternalCA) = 5 /\ PkiInternalCA[2].do = "root"
    BY DEF Steps, PkiInternalCA, Generate
<1>2. /\ Steps[7] = PkiCertmgr /\ Len(PkiCertmgr) = 3
      /\ PkiCertmgr[1].do = "write" /\ PkiCertmgr[3].do = "save"
    BY DEF Steps, PkiCertmgr, Write, Save
<1> QED
    BY <1>1, <1>2

\* What a command is about is among the things of its kind.
LEMMA CommandsAbout ==
    ASSUME NEW k \in Provisioners, NEW i \in 1..Len(Steps[k])
    PROVE  /\ Steps[k][i].do = "enable" => Steps[k][i].what \in Engines
           /\ Steps[k][i].do \in {"write", "root"} => Steps[k][i].what \in Artefacts
           /\ Steps[k][i].do = "export" => Steps[k][i].what \in FileNames
<1>1. i \in DOMAIN Steps[k]
    BY StepFacts DEF StepFactsOf
<1> QED
    BY <1>1 DEF Engines, Artefacts, FileNames, All, Of

LEMMA FewVariables == \A k \in Provisioners : Variables(k) \subseteq Required /\ Variables(k) \subseteq Names
BY DEF Provisioners, Variables, Required, Names

-----------------------------------------------------------------------------
(* The inductive invariant.                                                *)

\* The command that generates the root CA is still to come in this script.
RootAhead ==
    \/ place = "guard"
    \/ place = "load" /\ (job = "manual" \/ prov <= 2)
    \/ place = "run" /\ prov = 2 /\ at <= 2
    \/ place = "run" /\ job = "auto" /\ prov < 2
    \/ place = "complete" /\ job = "auto" /\ prov < 2

\* A script generates one root CA at most.
RootsBounded == roots <= scripts /\ (RootAhead => roots < scripts)

\* setup-provisioners.sh has passed on the variables it insists on.
PassedOn ==
    job = "auto" /\ place \in {"guard", "load", "run", "complete"} => Required \subseteq parent

\* Command i of provisioner k has left in this Vault, and of it, what it is for.
Effective(k, i) ==
    /\ Steps[k][i].do \in {"write", "root"} => Steps[k][i].what \in made
    /\ Steps[k][i].do = "export" => files[Steps[k][i].what] = gen
    /\ Steps[k][i].do = "root" => files["root-ca.crt"] = gen

\* In this provisioner it has, besides, shown that the token is good, saved it, or
\* enabled its engine.
Shown(i) ==
    /\ Steps[prov][i].do \in {"write", "root", "export"} => token = gen
    /\ Steps[prov][i].do = "save" => envToken = token
    /\ Steps[prov][i].do = "enable" /\ ~disturbed /\ token = gen
        => Steps[prov][i].what \in mounts

\* So it is with all commands of this provisioner that are behind ...
Done ==
    /\ place = "run" => \A i \in 1..(at - 1) : Effective(prov, i) /\ Shown(i)
    /\ place = "complete" => \A i \in 1..Len(Steps[prov]) : Effective(prov, i) /\ Shown(i)

\* ... and, in setup-provisioners.sh, with those of the ones before it.
DoneBefore ==
    job = "auto" /\ place \in {"load", "run", "complete"} =>
        \A k \in Provisioners : k < prov =>
            \A i \in 1..Len(Steps[k]) : Effective(k, i)

AllDone ==
    place = "finished" =>
        /\ \A k \in Provisioners : \A i \in 1..Len(Steps[k]) : Effective(k, i)
        /\ envToken = gen

IInv == TypeOK /\ RootsBounded /\ PassedOn /\ Done /\ DoneBefore /\ AllDone

-----------------------------------------------------------------------------
LEMMA InitIInv == Init => IInv
<1> SUFFICES ASSUME Init PROVE IInv
    OBVIOUS
<1>1. TypeOK
    <2>1. VaultTypes
        BY ProvisioningBounds DEF Init, VaultTypes
    <2>2. VariableTypes
        BY ProvisioningBounds DEF Init, VariableTypes
    <2>3. ScriptTypes
        BY DEF Init, ScriptTypes, Provisioners
    <2>4. scripts \in 0..MaxScripts /\ faults \in 0..MaxFaults
        BY ProvisioningBounds DEF Init
    <2>5. disturbed \in BOOLEAN
        BY Zenon DEF Init
    <2> QED
        BY <2>1, <2>2, <2>3, <2>4, <2>5 DEF TypeOK, HistoryTypes
<1>2. RootsBounded /\ PassedOn /\ Done /\ DoneBefore /\ AllDone
    BY DEF Init, RootsBounded, RootAhead, PassedOn, Done, DoneBefore, AllDone
<1> QED
    BY <1>1, <1>2 DEF IInv

\* What is there stays there while Vault is the same and files only become of it.
LEMMA EffectiveStays ==
    ASSUME NEW k \in Provisioners, NEW i \in 1..Len(Steps[k]), Effective(k, i),
           gen' = gen, made \subseteq made',
           \A f \in FileNames : files'[f] \in {files[f], gen}
    PROVE  Effective(k, i)'
<1>1. "root-ca.crt" \in FileNames
    BY DEF FileNames
<1>2. Steps[k][i].do = "export" => Steps[k][i].what \in FileNames
    BY CommandsAbout
<1> QED
    BY <1>1, <1>2 DEF Effective

\* A step that changes neither Vault nor what the scripts wrote keeps it.
LEMMA EffectiveUnchanged ==
    ASSUME NEW k \in Provisioners, NEW i \in 1..Len(Steps[k]), Effective(k, i),
           UNCHANGED <<vault, files>>
    PROVE  Effective(k, i)'
BY DEF Effective, vault

-----------------------------------------------------------------------------
(* The operator's steps, and those of setup-provisioners.sh.               *)

LEMMA OperatorKeepsIInv ==
    ASSUME IInv,
           \/ \E t \in {0, gen} : RunSetupVault(t)
           \/ \E keepsEnv \in BOOLEAN : Reinitialise(keepsEnv)
           \/ RunProvisioners
           \/ \E k \in Provisioners : RunProvisioner(k)
    PROVE  IInv'
<1> USE ProvisioningBounds
<1>1. CASE \E t \in {0, gen} : RunSetupVault(t)
    <2> PICK t \in {0, gen} : RunSetupVault(t)
        BY <1>1
    <2>1. TypeOK'
        <3>1. VaultTypes'
            BY DEF IInv, TypeOK, VaultTypes, RunSetupVault, vault
        <3>2. VariableTypes'
            BY DEF IInv, TypeOK, VaultTypes, VariableTypes, RunSetupVault, vault, caller, child
        <3>3. ScriptTypes'
            BY DEF IInv, TypeOK, ScriptTypes, RunSetupVault, caller, child
        <3>4. HistoryTypes'
            BY DEF IInv, TypeOK, HistoryTypes, RunSetupVault
        <3> QED
            BY <3>1, <3>2, <3>3, <3>4 DEF TypeOK
    <2>2. (RootsBounded /\ PassedOn /\ Done /\ DoneBefore /\ AllDone)'
        BY DEF IInv, RunSetupVault, vault, caller, child, RootsBounded, RootAhead,
               PassedOn, Done, DoneBefore, AllDone
    <2> QED
        BY <2>1, <2>2 DEF IInv
<1>2. CASE \E keepsEnv \in BOOLEAN : Reinitialise(keepsEnv)
    <2> PICK keepsEnv \in BOOLEAN : Reinitialise(keepsEnv)
        BY <1>2
    <2>1. TypeOK'
        <3>1. VaultTypes'
            BY DEF IInv, TypeOK, VaultTypes, Reinitialise, vault
        <3>2. VariableTypes'
            BY DEF IInv, TypeOK, VaultTypes, VariableTypes, Reinitialise, caller, child
        <3>3. ScriptTypes'
            BY DEF IInv, TypeOK, ScriptTypes, Reinitialise, caller, child
        <3>4. HistoryTypes'
            BY DEF IInv, TypeOK, HistoryTypes, Reinitialise
        <3> QED
            BY <3>1, <3>2, <3>3, <3>4 DEF TypeOK
    <2>2. (RootsBounded /\ PassedOn /\ Done /\ DoneBefore /\ AllDone)'
        BY DEF IInv, TypeOK, HistoryTypes, Reinitialise, caller, child, RootsBounded, RootAhead,
               PassedOn, Done, DoneBefore, AllDone
    <2> QED
        BY <2>1, <2>2 DEF IInv
<1>3. CASE RunProvisioners
    <2>1. TypeOK'
        <3>1. VaultTypes'
            BY <1>3 DEF IInv, TypeOK, VaultTypes, RunProvisioners, vault
        <3>2. VariableTypes'
            BY <1>3 DEF IInv, TypeOK, VaultTypes, VariableTypes, RunProvisioners, config, child
        <3>3. ScriptTypes'
            BY <1>3 DEF IInv, TypeOK, ScriptTypes, RunProvisioners, caller, child
        <3>4. scripts' \in 0..MaxScripts /\ faults' \in 0..MaxFaults
            BY <1>3 DEF IInv, TypeOK, HistoryTypes, RunProvisioners
        <3>5. disturbed' \in BOOLEAN
            BY <1>3, Zenon DEF RunProvisioners
        <3> QED
            BY <3>1, <3>2, <3>3, <3>4, <3>5 DEF TypeOK, HistoryTypes
    <2>2. RootsBounded'
        BY <1>3 DEF IInv, TypeOK, VaultTypes, HistoryTypes, RunProvisioners, vault, RootsBounded
    <2>3. (PassedOn /\ Done /\ DoneBefore /\ AllDone)'
        BY <1>3 DEF IInv, RunProvisioners, PassedOn, Done, DoneBefore, AllDone
    <2> QED
        BY <2>1, <2>2, <2>3 DEF IInv
<1>4. CASE \E k \in Provisioners : RunProvisioner(k)
    <2> PICK k \in Provisioners : RunProvisioner(k)
        BY <1>4
    <2>1. TypeOK'
        <3>1. VaultTypes'
            BY DEF IInv, TypeOK, VaultTypes, RunProvisioner, vault
        <3>2. VariableTypes'
            BY DEF IInv, TypeOK, VaultTypes, VariableTypes, RunProvisioner, config
        <3>3. ScriptTypes'
            BY DEF IInv, TypeOK, ScriptTypes, RunProvisioner, caller, child
        <3>4. scripts' \in 0..MaxScripts /\ faults' \in 0..MaxFaults
            BY DEF IInv, TypeOK, HistoryTypes, RunProvisioner
        <3>5. disturbed' \in BOOLEAN
            BY Zenon DEF RunProvisioner
        <3> QED
            BY <3>1, <3>2, <3>3, <3>4, <3>5 DEF TypeOK, HistoryTypes
    <2>2. RootsBounded'
        BY DEF IInv, TypeOK, VaultTypes, HistoryTypes, RunProvisioner, vault, RootsBounded
    <2>3. (PassedOn /\ Done /\ DoneBefore /\ AllDone)'
        BY DEF IInv, RunProvisioner, PassedOn, Done, DoneBefore, AllDone
    <2> QED
        BY <2>1, <2>2, <2>3 DEF IInv
<1> QED
    BY <1>1, <1>2, <1>3, <1>4

LEMMA GuardKeepsIInv ==
    ASSUME IInv, CheckGuard \/ GuardFails
    PROVE  IInv'
<1> USE ProvisioningBounds
<1>0. /\ place = "guard" /\ place' \in {"refused", "load"}
      /\ prov' \in Provisioners /\ (place' = "load" => prov' = 1)
      /\ faults' \in 0..MaxFaults /\ disturbed' \in BOOLEAN
      /\ UNCHANGED <<vault, files, config, caller, at, token, scripts>>
    <2>1. CASE CheckGuard
        <3>1. /\ place = "guard" /\ place' \in {"refused", "load"}
              /\ (place' = "load" => prov' = 1) /\ prov' \in {prov, 1}
              /\ UNCHANGED <<vault, files, config, caller, at, token, scripts>>
              /\ UNCHANGED <<disturbed, faults>>
            BY <2>1 DEF CheckGuard
        <3> QED
            BY <3>1 DEF IInv, TypeOK, ScriptTypes, HistoryTypes, Provisioners
    <2>2. CASE GuardFails
        BY <2>2 DEF IInv, TypeOK, HistoryTypes, GuardFails, Fault, Provisioners
    <2> QED
        BY <2>1, <2>2
<1>1. TypeOK'
    <2>1. VaultTypes' /\ VariableTypes'
        BY <1>0 DEF IInv, TypeOK, VaultTypes, VariableTypes, vault, config, caller
    <2>2. ScriptTypes' /\ HistoryTypes'
        BY <1>0 DEF IInv, TypeOK, ScriptTypes, HistoryTypes, caller
    <2> QED
        BY <2>1, <2>2 DEF TypeOK
<1>2. RootsBounded' /\ PassedOn'
    BY <1>0 DEF IInv, RootsBounded, RootAhead, PassedOn, vault, caller
<1>3. (Done /\ DoneBefore /\ AllDone)'
    BY <1>0 DEF Done, DoneBefore, AllDone, Provisioners
<1> QED
    BY <1>1, <1>2, <1>3 DEF IInv

LEMMA LoadKeepsIInv ==
    ASSUME IInv, LoadConfiguration
    PROVE  IInv'
<1>0. /\ place = "load" /\ place' = "run" /\ at' = 1
      /\ UNCHANGED <<vault, files, config, caller, prov, disturbed, faults, scripts>>
    BY DEF LoadConfiguration
<1>1. TypeOK'
    <2>1. VaultTypes' /\ HistoryTypes'
        BY <1>0 DEF IInv, TypeOK, VaultTypes, HistoryTypes, vault
    <2>2. Loads \in 0..MaxInits /\ gen \in 0..MaxInits
        BY ProvisioningBounds DEF IInv, TypeOK, VaultTypes, VariableTypes, Loads
    <2>3. token' \in 0..MaxInits
        BY <2>2 DEF LoadConfiguration
    <2>4. VariableTypes'
        BY <1>0, <2>3 DEF IInv, TypeOK, VariableTypes, config, caller
    <2>5. prov' \in Provisioners /\ at' \in DOMAIN Steps[prov']
        BY <1>0, StepFacts DEF IInv, TypeOK, ScriptTypes, StepFactsOf
    <2>6. ScriptTypes'
        BY <1>0, <2>5 DEF IInv, TypeOK, ScriptTypes, caller
    <2> QED
        BY <2>1, <2>4, <2>6 DEF TypeOK
<1>2. RootsBounded'
    BY <1>0 DEF IInv, TypeOK, ScriptTypes, Provisioners, RootsBounded, RootAhead, vault, caller
<1>3. PassedOn' /\ Done' /\ AllDone'
    BY <1>0 DEF IInv, PassedOn, Done, AllDone, caller
<1>4. DoneBefore'
    BY <1>0, EffectiveUnchanged DEF IInv, DoneBefore, caller
<1> QED
    BY <1>1, <1>2, <1>3, <1>4 DEF IInv

\* A provisioner that is done joins the ones before it, and the last one has found
\* the token good and saved it.
LEMMA NextProvisionerKeepsIInv ==
    ASSUME IInv, NextProvisioner
    PROVE  IInv'
<1>0. /\ place = "complete" /\ job = "auto" /\ token' = 0
      /\ \/ prov < 7 /\ place' = "load" /\ prov' = prov + 1
         \/ ~(prov < 7) /\ place' = "finished" /\ prov' = prov
      /\ UNCHANGED <<vault, files, config, caller, at, disturbed, faults, scripts>>
    BY DEF NextProvisioner
<1>1. prov \in 1..7 /\ prov' \in 1..7
    BY <1>0 DEF IInv, TypeOK, ScriptTypes, Provisioners
<1>2. TypeOK'
    <2>1. VaultTypes' /\ HistoryTypes'
        BY <1>0 DEF IInv, TypeOK, VaultTypes, HistoryTypes, vault
    <2>2. VariableTypes'
        BY <1>0, ProvisioningBounds DEF IInv, TypeOK, VariableTypes, config, caller
    <2>3. ScriptTypes'
        BY <1>0, <1>1 DEF IInv, TypeOK, ScriptTypes, Provisioners, caller
    <2> QED
        BY <2>1, <2>2, <2>3 DEF TypeOK
<1>3. RootsBounded' /\ PassedOn'
    BY <1>0, <1>1 DEF IInv, RootsBounded, RootAhead, PassedOn, vault, caller
<1>4. \A k \in Provisioners : k <= prov => \A i \in 1..Len(Steps[k]) : Effective(k, i)'
    <2> SUFFICES ASSUME NEW k \in Provisioners, k <= prov, NEW i \in 1..Len(Steps[k])
                 PROVE  Effective(k, i)'
        OBVIOUS
    <2>1. k = prov \/ k < prov
        BY <1>1 DEF Provisioners
    <2>2. Effective(k, i)
        BY <1>0, <2>1 DEF IInv, Done, DoneBefore
    <2> QED
        BY <1>0, <2>2, EffectiveUnchanged
<1>5. DoneBefore'
    BY <1>0, <1>1, <1>4 DEF DoneBefore, Provisioners
<1>6. Done'
    BY <1>0 DEF Done
<1>7. AllDone'
    <2> SUFFICES ASSUME place' = "finished"
                 PROVE  AllDone'
        BY DEF AllDone
    <2>1. prov = 7
        BY <1>0, <1>1
    <2>2. Shown(1) /\ Shown(3)
        BY <1>0, <2>1, Landmarks DEF IInv, Done
    <2>3. envToken = gen
        BY <2>1, <2>2, Landmarks DEF Shown
    <2>4. envToken' = gen'
        BY <1>0, <2>3 DEF config, vault
    <2> QED
        BY <1>4, <2>1, <2>4 DEF AllDone, Provisioners
<1> QED
    BY <1>2, <1>3, <1>5, <1>6, <1>7 DEF IInv

LEMMA LeaveKeepsIInv ==
    ASSUME IInv, Leave
    PROVE  IInv'
<1>0. /\ place' = "idle" /\ job' = "auto" /\ parent' = {} /\ parentToken' = 0
      /\ prov' = 1 /\ at' = 1 /\ token' = 0
      /\ UNCHANGED <<vault, files, config, faults, scripts>>
    BY DEF Leave
<1>1. TypeOK'
    <2>1. VaultTypes' /\ VariableTypes'
        BY <1>0, ProvisioningBounds
        DEF IInv, TypeOK, VaultTypes, VariableTypes, vault, config
    <2>2. ScriptTypes'
        BY <1>0 DEF ScriptTypes, Provisioners
    <2>3. disturbed' \in BOOLEAN
        BY Zenon DEF Leave
    <2>4. HistoryTypes'
        BY <1>0, <2>3 DEF IInv, TypeOK, HistoryTypes
    <2> QED
        BY <2>1, <2>2, <2>4 DEF TypeOK
<1>2. (RootsBounded /\ PassedOn /\ Done /\ DoneBefore /\ AllDone)'
    BY <1>0 DEF IInv, RootsBounded, RootAhead, PassedOn, Done, DoneBefore, AllDone, vault
<1> QED
    BY <1>1, <1>2 DEF IInv

-----------------------------------------------------------------------------
(* Failures.                                                               *)

LEMMA FaultsAreCounted ==
    ASSUME TypeOK, Fault
    PROVE  faults' \in 0..MaxFaults /\ disturbed' \in BOOLEAN /\ disturbed'
<1>1. faults' \in 0..MaxFaults
    BY ProvisioningBounds DEF TypeOK, HistoryTypes, Fault
<1> QED
    BY <1>1, Zenon DEF Fault

LEMMA FailuresKeepIInv ==
    ASSUME IInv, CommandFails \/ ScriptDies
    PROVE  IInv'
<1>0. /\ place' = "failed" /\ at' = 1 /\ UNCHANGED <<vault, caller, prov, token, scripts>>
    BY DEF CommandFails, ScriptDies
<1>1. HistoryTypes'
    <2>1. faults' \in 0..MaxFaults /\ disturbed' \in BOOLEAN
        BY FaultsAreCounted DEF IInv, TypeOK, HistoryTypes, CommandFails, ScriptDies
    <2> QED
        BY <1>0, <2>1 DEF IInv, TypeOK, HistoryTypes
<1>2. files' \in [FileNames -> 0..MaxInits]
    <2>1. files \in [FileNames -> 0..MaxInits]
        BY DEF IInv, TypeOK, VaultTypes
    <2>2. \A fs : Emptied(fs) \in [FileNames -> 0..MaxInits]
        BY <2>1, ProvisioningBounds DEF Emptied
    <2>3. \/ files' = files
          \/ files' = Emptied(Output)
          \/ files' = Emptied(Truncated)
        BY Zenon DEF CommandFails, ScriptDies, CutOff
    <2> QED
        BY <2>1, <2>2, <2>3, Zenon
<1>3. env' \subseteq Names /\ envToken' \in 0..MaxInits
    <2>1. Variables(prov) \subseteq Names
        BY FewVariables DEF IInv, TypeOK, ScriptTypes
    <2>2. env \subseteq Names /\ envToken \in 0..MaxInits /\ token \in 0..MaxInits
        BY DEF IInv, TypeOK, VariableTypes
    <2>3. UNCHANGED config \/ SavedInPart
        BY Zenon DEF CommandFails, ScriptDies
    <2>4. CASE UNCHANGED config
        BY <2>2, <2>4 DEF config
    <2>5. CASE SavedInPart
        BY <2>1, <2>2, <2>5, ProvisioningBounds DEF SavedInPart
    <2> QED
        BY <2>3, <2>4, <2>5
<1>4. TypeOK'
    <2>1. VaultTypes' /\ VariableTypes'
        BY <1>0, <1>2, <1>3 DEF IInv, TypeOK, VaultTypes, VariableTypes, vault, caller
    <2>2. ScriptTypes'
        BY <1>0 DEF IInv, TypeOK, ScriptTypes, caller
    <2> QED
        BY <1>1, <2>1, <2>2 DEF TypeOK
<1>5. (RootsBounded /\ PassedOn /\ Done /\ DoneBefore /\ AllDone)'
    BY <1>0 DEF IInv, RootsBounded, RootAhead, PassedOn, Done, DoneBefore, AllDone, vault
<1> QED
    BY <1>4, <1>5 DEF IInv

-----------------------------------------------------------------------------
(* The commands of a provisioner.                                          *)

\* What all of them have in common: one more command is behind, those that were
\* stay so.
LEMMA CommandsAddUp ==
    ASSUME IInv, place = "run", NextStep,
           UNCHANGED <<gen, caller, prov, token>>,
           made \subseteq made', mounts \subseteq mounts',
           \A f \in FileNames : files'[f] \in {files[f], gen},
           envToken' \in {envToken, token}, disturbed => disturbed',
           NEW k, NEW j, k = prov /\ j = at, Effective(k, j)', Shown(j)'
    PROVE  (ScriptTypes /\ PassedOn /\ Done /\ DoneBefore /\ AllDone)'
<1> DEFINE length == Len(Steps[prov])
<1>1. prov \in Provisioners /\ length \in 1..6 /\ at \in 1..length
      /\ DOMAIN Steps[prov] = 1..length
    BY StepFacts DEF IInv, TypeOK, ScriptTypes, StepFactsOf
<1>2. \/ at < length /\ at' = at + 1 /\ place' = "run"
      \/ at = length /\ at' = 1 /\ place' = "complete"
    BY <1>1 DEF NextStep
<1>3. ScriptTypes'
    <2> HIDE DEF length
    <2>1. place' \in {"run", "complete"}
        BY <1>2
    <2>2. at' \in 1..7
        BY <1>1, <1>2
    <2>3. place' = "run" => at' \in 1..length
        BY <1>1, <1>2
    <2>4. prov' = prov /\ job' = job
        BY DEF caller
    <2> QED
        BY <1>1, <2>1, <2>2, <2>3, <2>4 DEF IInv, TypeOK, ScriptTypes
<1>4. PassedOn' /\ AllDone'
    BY <1>2 DEF IInv, PassedOn, AllDone, caller
<1>5. \A i \in 1..j : Effective(k, i)' /\ Shown(i)'
    <2> SUFFICES ASSUME NEW i \in 1..j, i # j
                 PROVE  Effective(k, i)' /\ Shown(i)'
        OBVIOUS
    <2>1. Effective(k, i) /\ Shown(i) /\ i \in 1..Len(Steps[k])
        BY <1>1 DEF IInv, Done
    <2>2. Effective(k, i)'
        BY <1>1, <2>1, EffectiveStays
    <2>3. Shown(i)'
        BY <2>1 DEF Shown, caller
    <2> QED
        BY <2>2, <2>3
<1>6. Done'
    <2>1. place' = "run" => 1..(at' - 1) \subseteq 1..j
        BY <1>1, <1>2
    <2>2. place' = "complete" => 1..Len(Steps[prov']) = 1..j
        BY <1>1, <1>2
    <2>3. prov' = k
        OBVIOUS
    <2> QED
        BY <1>5, <2>1, <2>2, <2>3 DEF Done
<1>7. DoneBefore'
    <2> SUFFICES ASSUME job = "auto", NEW m \in Provisioners, m < prov,
                        NEW i \in 1..Len(Steps[m])
                 PROVE  Effective(m, i)'
        BY DEF DoneBefore, caller
    <2>1. Effective(m, i)
        BY DEF IInv, DoneBefore
    <2> QED
        BY <2>1, EffectiveStays
<1> QED
    BY <1>3, <1>4, <1>6, <1>7

\* No command but the one that generates the root CA touches the bound.
LEMMA OthersKeepRootsBounded ==
    ASSUME IInv, place = "run", NextStep, UNCHANGED <<roots, caller, prov, scripts>>
    PROVE  RootsBounded'
<1>1. prov \in 1..7 /\ Len(Steps[prov]) \in 1..6 /\ at \in 1..Len(Steps[prov])
    BY StepFacts DEF IInv, TypeOK, ScriptTypes, StepFactsOf, Provisioners
<1>2. Len(Steps[2]) \in Nat /\ 2 <= Len(Steps[2])
    BY Landmarks, StepFacts DEF StepFactsOf, Provisioners
<1>3. RootAhead' => RootAhead
    BY <1>1, <1>2 DEF NextStep, RootAhead, caller
<1> QED
    BY <1>3 DEF IInv, RootsBounded

LEMMA EnableKeepsIInv ==
    ASSUME IInv, EnableEngine \/ EnableFails
    PROVE  IInv'
<1> PICK k, j : k = prov /\ j = at
    OBVIOUS
<1>0. /\ place = "run" /\ Steps[prov][at].do = "enable" /\ NextStep
      /\ UNCHANGED <<gen, made, roots, files, config, caller, prov, token, scripts>>
    BY DEF EnableEngine, EnableFails, Running, Command, vault
<1>1. prov \in Provisioners /\ at \in 1..Len(Steps[prov])
    BY <1>0, StepFacts DEF IInv, TypeOK, ScriptTypes, StepFactsOf
<1>2. mounts \subseteq mounts' /\ mounts' \subseteq mounts \cup {Steps[prov][at].what}
    BY DEF EnableEngine, EnableFails, Command, vault
<1>3. disturbed => disturbed'
    BY Zenon DEF EnableEngine, EnableFails, Fault
<1>4. Effective(k, j)'
    BY <1>0 DEF Effective
<1>5. Shown(j)'
    <2>1. CASE EnableFails
        <3>1. disturbed'
            BY <2>1, Zenon DEF EnableFails, Fault
        <3> QED
            BY <1>0, <3>1 DEF Shown
    <2>2. CASE EnableEngine
        <3>1. token = gen => Steps[prov][at].what \in mounts'
            <4>1. Steps[prov][at].needs = {}
                BY <1>0, <1>1, StepFacts DEF StepFactsOf
            <4> QED
                BY <2>2, <4>1 DEF EnableEngine, Works, Command
        <3> QED
            BY <1>0, <3>1 DEF Shown
    <2> QED
        BY <2>1, <2>2
<1>6. (ScriptTypes /\ PassedOn /\ Done /\ DoneBefore /\ AllDone)'
    BY <1>0, <1>2, <1>3, <1>4, <1>5, CommandsAddUp DEF config
<1>7. RootsBounded'
    BY <1>0, OthersKeepRootsBounded
<1>8. TypeOK'
    <2>1. VaultTypes' /\ VariableTypes'
        BY <1>0, <1>1, <1>2, CommandsAbout
        DEF IInv, TypeOK, VaultTypes, VariableTypes, config, caller
    <2>2. HistoryTypes'
        BY <1>0, FaultsAreCounted
        DEF IInv, TypeOK, HistoryTypes, EnableEngine, EnableFails
    <2> QED
        BY <1>6, <2>1, <2>2 DEF TypeOK
<1> QED
    BY <1>6, <1>7, <1>8 DEF IInv

LEMMA WriteKeepsIInv ==
    ASSUME IInv, WriteToVault
    PROVE  IInv'
<1> PICK k, j : k = prov /\ j = at
    OBVIOUS
<1>0. /\ place = "run" /\ Steps[prov][at].do = "write" /\ NextStep /\ token = gen
      /\ made' = made \cup {Steps[prov][at].what}
      /\ UNCHANGED <<gen, mounts, roots, files, config, caller, prov, token, scripts>>
      /\ UNCHANGED <<disturbed, faults>>
    BY DEF WriteToVault, Running, Command, Works
<1>1. prov \in Provisioners /\ at \in 1..Len(Steps[prov])
    BY <1>0, StepFacts DEF IInv, TypeOK, ScriptTypes, StepFactsOf
<1>2. Effective(k, j)' /\ Shown(j)'
    BY <1>0 DEF Effective, Shown
<1>3. (ScriptTypes /\ PassedOn /\ Done /\ DoneBefore /\ AllDone)'
    BY <1>0, <1>2, CommandsAddUp DEF config
<1>4. RootsBounded'
    BY <1>0, OthersKeepRootsBounded
<1>5. VaultTypes' /\ VariableTypes' /\ HistoryTypes'
    BY <1>0, <1>1, CommandsAbout
    DEF IInv, TypeOK, VaultTypes, VariableTypes, HistoryTypes, config, caller
<1> QED
    BY <1>3, <1>4, <1>5 DEF IInv, TypeOK

LEMMA RootKeepsIInv ==
    ASSUME IInv, GenerateRoot
    PROVE  IInv'
<1> PICK k, j : k = prov /\ j = at
    OBVIOUS
<1>0. /\ place = "run" /\ Steps[prov][at].do = "root" /\ NextStep /\ token = gen
      /\ roots' = roots + 1 /\ made' = made \cup {"root"}
      /\ files' = [files EXCEPT !["root-ca.crt"] = gen]
      /\ UNCHANGED <<gen, mounts, config, caller, prov, token, scripts>>
      /\ UNCHANGED <<disturbed, faults>>
    BY DEF GenerateRoot, Running, Command, Works
<1>1. /\ prov \in Provisioners /\ at \in 1..Len(Steps[prov])
      /\ prov = 2 /\ at = 2 /\ Steps[prov][at].what = "root"
    BY <1>0, StepFacts DEF IInv, TypeOK, ScriptTypes, StepFactsOf
<1>2. files \in [FileNames -> 0..MaxInits] /\ "root-ca.crt" \in FileNames
    BY DEF IInv, TypeOK, VaultTypes, FileNames
<1>3. Effective(k, j)' /\ Shown(j)'
    BY <1>0, <1>1, <1>2 DEF Effective, Shown
<1>4. \A f \in FileNames : files'[f] \in {files[f], gen}
    BY <1>0, <1>2
<1>5. (ScriptTypes /\ PassedOn /\ Done /\ DoneBefore /\ AllDone)'
    BY <1>0, <1>3, <1>4, CommandsAddUp DEF config
<1>6. roots < scripts /\ roots \in Nat /\ scripts \in 0..MaxScripts
    <2>1. RootAhead
        BY <1>0, <1>1 DEF RootAhead
    <2>2. roots \in 0..MaxScripts /\ scripts \in 0..MaxScripts
        BY DEF IInv, TypeOK, VaultTypes, HistoryTypes
    <2> QED
        BY <2>1, <2>2, ProvisioningBounds DEF IInv, RootsBounded
<1>7. RootsBounded'
    <2>1. ~RootAhead'
        BY <1>0, <1>1 DEF NextStep, RootAhead
    <2> QED
        BY <1>0, <1>6, <2>1, ProvisioningBounds DEF RootsBounded
<1>8. VaultTypes'
    <2>1. made' \subseteq Artefacts
        BY <1>0, <1>1, CommandsAbout DEF IInv, TypeOK, VaultTypes
    <2>2. gen \in 1..MaxInits /\ gen \in 0..MaxInits
        BY ProvisioningBounds DEF IInv, TypeOK, VaultTypes
    <2>3. files' \in [FileNames -> 0..MaxInits]
        BY <1>0, <1>2, <2>2
    <2>4. roots' \in 0..MaxScripts
        BY <1>0, <1>6, ProvisioningBounds
    <2> QED
        BY <1>0, <2>1, <2>2, <2>3, <2>4 DEF IInv, TypeOK, VaultTypes
<1>9. VariableTypes' /\ HistoryTypes'
    BY <1>0 DEF IInv, TypeOK, VariableTypes, HistoryTypes, config, caller
<1> QED
    BY <1>5, <1>7, <1>8, <1>9 DEF IInv, TypeOK

LEMMA ExportKeepsIInv ==
    ASSUME IInv, ExportFile
    PROVE  IInv'
<1> PICK k, j : k = prov /\ j = at
    OBVIOUS
<1>0. /\ place = "run" /\ Steps[prov][at].do = "export" /\ NextStep /\ token = gen
      /\ files' = [files EXCEPT ![Steps[prov][at].what] = gen]
      /\ UNCHANGED <<vault, config, caller, prov, token, scripts, disturbed, faults>>
    BY DEF ExportFile, Running, Command, Works
<1>1. prov \in Provisioners /\ at \in 1..Len(Steps[prov])
    BY <1>0, StepFacts DEF IInv, TypeOK, ScriptTypes, StepFactsOf
<1>2. files \in [FileNames -> 0..MaxInits] /\ Steps[prov][at].what \in FileNames
    BY <1>0, <1>1, CommandsAbout DEF IInv, TypeOK, VaultTypes
<1>3. Effective(k, j)' /\ Shown(j)'
    BY <1>0, <1>2 DEF Effective, Shown, vault
<1>4. \A f \in FileNames : files'[f] \in {files[f], gen}
    BY <1>0, <1>2
<1>5. (ScriptTypes /\ PassedOn /\ Done /\ DoneBefore /\ AllDone)'
    BY <1>0, <1>3, <1>4, CommandsAddUp DEF config, vault
<1>6. RootsBounded'
    BY <1>0, OthersKeepRootsBounded DEF vault
<1>7. VaultTypes'
    <2>1. gen \in 0..MaxInits
        BY ProvisioningBounds DEF IInv, TypeOK, VaultTypes
    <2>2. files' \in [FileNames -> 0..MaxInits]
        BY <1>0, <1>2, <2>1
    <2> QED
        BY <1>0, <2>2 DEF IInv, TypeOK, VaultTypes, vault
<1>8. VariableTypes' /\ HistoryTypes'
    BY <1>0 DEF IInv, TypeOK, VariableTypes, HistoryTypes, config, caller
<1> QED
    BY <1>5, <1>6, <1>7, <1>8 DEF IInv, TypeOK

LEMMA SaveKeepsIInv ==
    ASSUME IInv, SaveEnvFile
    PROVE  IInv'
<1> PICK k, j : k = prov /\ j = at
    OBVIOUS
<1>0. /\ place = "run" /\ Steps[prov][at].do = "save" /\ NextStep
      /\ env' = Variables(prov) /\ envToken' = token
      /\ UNCHANGED <<vault, files, caller, prov, token, scripts, disturbed, faults>>
    BY DEF SaveEnvFile, Running, Command
<1>1. Effective(k, j)' /\ Shown(j)'
    BY <1>0 DEF Effective, Shown
<1>2. (ScriptTypes /\ PassedOn /\ Done /\ DoneBefore /\ AllDone)'
    BY <1>0, <1>1, CommandsAddUp DEF vault
<1>3. RootsBounded'
    BY <1>0, OthersKeepRootsBounded DEF vault
<1>4. VaultTypes' /\ HistoryTypes'
    BY <1>0 DEF IInv, TypeOK, VaultTypes, HistoryTypes, vault
<1>5. VariableTypes'
    BY <1>0, FewVariables DEF IInv, TypeOK, ScriptTypes, VariableTypes, caller
<1> QED
    BY <1>2, <1>3, <1>4, <1>5 DEF IInv, TypeOK

LEMMA NextIInv == IInv /\ [Next]_vars => IInv'
<1> SUFFICES ASSUME IInv, [Next]_vars PROVE IInv'
    OBVIOUS
<1>1. CASE \/ \E t \in {0, gen} : RunSetupVault(t)
           \/ \E keepsEnv \in BOOLEAN : Reinitialise(keepsEnv)
           \/ RunProvisioners
           \/ \E k \in Provisioners : RunProvisioner(k)
    BY <1>1, OperatorKeepsIInv
<1>2. CASE CheckGuard \/ GuardFails
    BY <1>2, GuardKeepsIInv
<1>3. CASE LoadConfiguration
    BY <1>3, LoadKeepsIInv
<1>4. CASE NextProvisioner
    BY <1>4, NextProvisionerKeepsIInv
<1>5. CASE Leave
    BY <1>5, LeaveKeepsIInv
<1>6. CASE EnableEngine \/ EnableFails
    BY <1>6, EnableKeepsIInv
<1>7. CASE WriteToVault
    BY <1>7, WriteKeepsIInv
<1>8. CASE GenerateRoot
    BY <1>8, RootKeepsIInv
<1>9. CASE ExportFile
    BY <1>9, ExportKeepsIInv
<1>10. CASE SaveEnvFile
    BY <1>10, SaveKeepsIInv
<1>11. CASE CommandFails \/ ScriptDies
    BY <1>11, FailuresKeepIInv
<1>12. CASE UNCHANGED vars
    BY <1>12 DEF vars, vault, config, caller, child, IInv, TypeOK, VaultTypes,
       VariableTypes, ScriptTypes, HistoryTypes, RootsBounded, RootAhead, PassedOn,
       Done, DoneBefore, AllDone, Effective, Shown
<1> QED
    BY <1>1, <1>2, <1>3, <1>4, <1>5, <1>6, <1>7, <1>8, <1>9, <1>10, <1>11, <1>12
    DEF Next, Script

LEMMA AlwaysIInv == Spec => []IInv
BY InitIInv, NextIInv, PTL DEF Spec

-----------------------------------------------------------------------------
(* Theorems.                                                               *)

\* All variables keep their types; in particular no script generates more than one
\* root CA.
THEOREM ProvisioningTypes == Spec => []TypeOK
<1>1. IInv => TypeOK
    BY DEF IInv
<1> QED
    BY <1>1, AlwaysIInv, PTL

\* No provisioner that setup-provisioners.sh runs has to ask for a value, although
\* each replaces .env by a part of it.
THEOREM Unattended == Spec => []NeverPrompts
<1>1. IInv => NeverPrompts
    BY FewVariables DEF IInv, TypeOK, ScriptTypes, PassedOn, NeverPrompts
<1> QED
    BY <1>1, AlwaysIInv, PTL

\* What the commands about one kind of thing are about, seen from the set of them.
LEMMA OfMembers ==
    ASSUME NEW k \in Provisioners, NEW kinds, NEW w \in Of(k, kinds)
    PROVE  \E i \in 1..Len(Steps[k]) : Steps[k][i].do \in kinds /\ Steps[k][i].what = w
BY StepFacts DEF Of, StepFactsOf

\* A provisioner that comes to its end has made all it is there for, from whatever
\* earlier runs, failures and another Vault have left.
THEOREM EachDelivers == Spec => []ProvisionerDelivers
<1>1. IInv => ProvisionerDelivers
    <2> SUFFICES ASSUME IInv, place = "complete"
                 PROVE  /\ Of(prov, {"write", "root"}) \subseteq made
                        /\ \A f \in Of(prov, {"export"}) : files[f] = gen
                        /\ ~disturbed /\ token = gen => Of(prov, {"enable"}) \subseteq mounts
        BY DEF ProvisionerDelivers
    <2>1. prov \in Provisioners
        BY DEF IInv, TypeOK, ScriptTypes
    <2>2. \A i \in 1..Len(Steps[prov]) : Effective(prov, i) /\ Shown(i)
        BY DEF IInv, Done
    <2>3. Of(prov, {"write", "root"}) \subseteq made
        BY <2>1, <2>2, OfMembers DEF Effective
    <2>4. \A f \in Of(prov, {"export"}) : files[f] = gen
        BY <2>1, <2>2, OfMembers DEF Effective
    <2>5. ~disturbed /\ token = gen => Of(prov, {"enable"}) \subseteq mounts
        BY <2>1, <2>2, OfMembers DEF Shown
    <2> QED
        BY <2>3, <2>4, <2>5
<1> QED
    BY <1>1, AlwaysIInv, PTL

\* "All provisioners completed successfully!" is true of all policies, roles, issuers
\* and files, and of the token in .env.
THEOREM SuccessIsReal == Spec => []FinishedMeansProvisioned
<1>1. IInv => FinishedMeansProvisioned
    <2> SUFFICES ASSUME IInv, place = "finished"
                 PROVE  /\ made = Artefacts
                        /\ \A f \in FileNames : files[f] = gen
                        /\ envToken = gen
        BY DEF FinishedMeansProvisioned
    <2>1. \A k \in Provisioners : \A i \in 1..Len(Steps[k]) : Effective(k, i)
        BY DEF IInv, AllDone
    <2>2. Artefacts \subseteq made
        BY <2>1, OfMembers DEF Artefacts, All, Effective
    <2>3. made = Artefacts
        BY <2>2 DEF IInv, TypeOK, VaultTypes
    <2>4. files["root-ca.crt"] = gen
        BY <2>1, Landmarks DEF Effective, Provisioners
    <2>5. \A f \in FileNames : files[f] = gen
        BY <2>1, <2>4, OfMembers DEF FileNames, All, Effective
    <2> QED
        BY <2>3, <2>5 DEF IInv, AllDone
<1> QED
    BY <1>1, AlwaysIInv, PTL
=============================================================================
