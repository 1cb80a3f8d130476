-------------------------- MODULE ServerRolesProofs --------------------------
(***************************************************************************)
(* Proofs about ServerRoles for any set of servers and any way of writing  *)
(* their names with dashes: a server without an alias keeps its access,    *)
(* and its access only.                                                    *)
(***************************************************************************)
EXTENDS ServerRoles, TLAPS

\* A policy's name is one that a script gives it for the host it opens the path of.
PoliciesNamed ==
    \A n \in Names : policy[n] # None => \E s \in Scripts : PolicyName(s, policy[n]) = n

\* What roles and tokens name is a name of their own host's policy, and exists.
RolesNamed ==
    \A h \in Hosts : role[h] # None =>
        policy[role[h]] # None /\ \E s \in Scripts : PolicyName(s, h) = role[h]

TokensNamed ==
    \A h \in Hosts : token[h] # None =>
        policy[token[h]] # None /\ \E s \in Scripts : PolicyName(s, h) = token[h]

\* A run in this Vault has written the policy before it writes the role, and the
\* role_id before the secret_id.
InOrder ==
    \A s \in Scripts : at[s] # Idle =>
        /\ (at[s].step = "role" /\ at[s].vault = vault)
             => policy[PolicyName(s, at[s].host)] # None
        /\ at[s].step = "secret_id" => files[s][at[s].host].role = at[s].vault

\* Each id is of the Vault there is, or gone.
OfThisVault(c) == c.role \in {0, vault} /\ c.secret \in {0, vault}

\* A host that is enrolled has a role and no ids of another Vault; no run of the same
\* script that began in an earlier one is still there to overwrite them.
EnrolledInOrder ==
    \A s \in Scripts : \A h \in Hosts : <<s, h>> \in enrolled =>
        /\ OfThisVault(files[s][h])
        /\ role[h] # None
        /\ at[s] # Idle => at[s].vault = vault

\* The invariant that every step preserves.
IInv ==
    /\ TypeOK
    /\ PoliciesNamed
    /\ RolesNamed
    /\ TokensNamed
    /\ InOrder
    /\ EnrolledInOrder

-----------------------------------------------------------------------------
\* Names and hosts, None and Idle, are what they look like.
LEMMA NamesAreNames ==
    /\ \A s \in Scripts : \A h \in Hosts : PolicyName(s, h) \in Names
    /\ None \notin Hosts
    /\ None \notin Names
    /\ \A r \in Running : r # Idle
<1>1. \A s \in Scripts : \A h \in Hosts : PolicyName(s, h) \in Names
    BY DEF Names
<1>2. None \notin Names
    BY HostNames DEF Names, PolicyName
<1>3. ASSUME NEW r \in Running
      PROVE  r # Idle
    <2>1. r.step \in Steps
        BY DEF Running
    <2>2. Idle.step = "idle" /\ "idle" \notin Steps
        BY DEF Idle, Steps
    <2> QED
        BY <2>1, <2>2
<1> QED
    BY <1>1, <1>2, <1>3, HostNames

\* The invariant holds in a Vault without roles.
LEMMA InitIInv == Init => IInv
<1> SUFFICES ASSUME Init
             PROVE  IInv
    OBVIOUS
<1> USE VaultBound, RunBound DEF Init, NoPolicies, Nobody
<1>1. TypeOK
    <2>1. vault \in 1..MaxVaults /\ runs \in 0..MaxRuns
        OBVIOUS
    <2>2. files \in [Scripts -> [Hosts -> Credentials]]
        BY DEF Credentials, NoCredentials
    <2>3. /\ policy \in [Names -> Hosts \cup {None}] /\ role \in [Hosts -> Names \cup {None}]
          /\ token \in [Hosts -> Names \cup {None}] /\ enrolled \subseteq Scripts \X Hosts
        OBVIOUS
    <2>4. at \in [Scripts -> {Idle} \cup Running] /\ \A s \in Scripts : at[s] = Idle
        OBVIOUS
    <2> QED
        BY <2>1, <2>2, <2>3, <2>4 DEF TypeOK
<1>2. PoliciesNamed /\ RolesNamed /\ TokensNamed
    BY DEF PoliciesNamed, RolesNamed, TokensNamed
<1>3. InOrder /\ EnrolledInOrder
    BY DEF InOrder, EnrolledInOrder
<1> QED
    BY <1>1, <1>2, <1>3 DEF IInv

\* A step of script s in the Vault there is: what changes with it is its own place and,
\* where the Vault is still that of the run, the policies and the roles.
LEMMA PlacesKeepTypes ==
    ASSUME TypeOK, NEW s \in Scripts, NEW place \in {Idle} \cup Running,
           at' = [at EXCEPT ![s] = place],
           vault' = vault, runs' \in 0..MaxRuns, enrolled' \subseteq Scripts \X Hosts, token' = token,
           policy' \in [Names -> Hosts \cup {None}],
           role' \in [Hosts -> Names \cup {None}],
           files' \in [Scripts -> [Hosts -> Credentials]],
           \A h \in Hosts : role[h] # None => role'[h] # None,
           place # Idle =>
               /\ place.vault <= vault
               /\ (place.vault = vault /\ place.step \notin {"policy", "role"})
                     => role'[place.host] # None
    PROVE  TypeOK'
<1>1. at' \in [Scripts -> {Idle} \cup Running]
    BY DEF TypeOK
<1>2. ASSUME NEW t \in Scripts, at'[t] # Idle
      PROVE  /\ at'[t].vault <= vault'
             /\ (at'[t].vault = vault' /\ at'[t].step \notin {"policy", "role"})
                   => role'[at'[t].host] # None
    <2>1. CASE t = s
        BY <1>2, <2>1 DEF TypeOK
    <2>2. CASE t # s
        <3>1. at'[t] = at[t] /\ at[t] \in Running
            BY <1>2, <2>2 DEF TypeOK
        <3> QED
            BY <1>2, <3>1 DEF TypeOK, Running
    <2> QED
        BY <2>1, <2>2
<1> QED
    BY <1>1, <1>2 DEF TypeOK

\* The beginning of a run, and its end before its time.
LEMMA RunsKeepIInv ==
    ASSUME IInv, NEW s \in Scripts, Abort(s) \/ \E h \in Hosts : Run(s, h)
    PROVE  IInv'
<1> USE NamesAreNames
<1>1. UNCHANGED <<vault, policy, role, files, enrolled, token>>
    BY DEF Abort, Run, roles
<1>2. /\ at \in [Scripts -> {Idle} \cup Running] /\ vault \in 1..MaxVaults
      /\ runs' \in 0..MaxRuns
    BY RunBound DEF IInv, TypeOK, Abort, Run
<1>3. PICK place \in {Idle} \cup Running :
          /\ at' = [at EXCEPT ![s] = place]
          /\ place # Idle => place.vault = vault /\ place.step = "policy"
    <2>1. CASE Abort(s)
        BY <2>1 DEF Abort
    <2>2. ASSUME NEW h \in Hosts, Run(s, h)
          PROVE  \E place \in {Idle} \cup Running :
                    /\ at' = [at EXCEPT ![s] = place]
                    /\ place # Idle => place.vault = vault /\ place.step = "policy"
        <3> DEFINE p == [step |-> "policy", host |-> h, vault |-> vault]
        <3>1. p \in Running
            BY <1>2 DEF Running, Steps
        <3>2. p.vault = vault /\ p.step = "policy"
            OBVIOUS
        <3>3. at' = [at EXCEPT ![s] = p]
            BY <2>2 DEF Run
        <3> HIDE DEF p
        <3> QED
            BY <3>1, <3>2, <3>3
    <2> QED
        BY <2>1, <2>2
<1>4. TypeOK'
    <2>1. place # Idle => place.vault <= vault /\ place.step = "policy"
        BY <1>2, <1>3
    <2>2. TypeOK
        BY DEF IInv
    <2>3. /\ enrolled' \subseteq Scripts \X Hosts
          /\ policy' \in [Names -> Hosts \cup {None}]
          /\ role' \in [Hosts -> Names \cup {None}]
          /\ files' \in [Scripts -> [Hosts -> Credentials]]
        BY <1>1, <2>2 DEF TypeOK
    <2> QED
        BY <1>1, <1>2, <1>3, <2>1, <2>2, <2>3, PlacesKeepTypes
<1>5. PoliciesNamed' /\ RolesNamed' /\ TokensNamed'
    BY <1>1 DEF IInv, PoliciesNamed, RolesNamed, TokensNamed
<1>6. InOrder'
    <2> SUFFICES ASSUME NEW t \in Scripts, at'[t] # Idle
                 PROVE  /\ (at'[t].step = "role" /\ at'[t].vault = vault)
                              => policy[PolicyName(t, at'[t].host)] # None
                        /\ at'[t].step = "secret_id"
                              => files[t][at'[t].host].role = at'[t].vault
        BY <1>1 DEF InOrder
    <2>1. CASE t = s
        BY <1>2, <1>3, <2>1
    <2>2. CASE t # s
        <3>1. at'[t] = at[t]
            BY <1>2, <1>3, <2>2
        <3> QED
            BY <3>1 DEF IInv, InOrder
    <2> QED
        BY <2>1, <2>2
<1>7. EnrolledInOrder'
    BY <1>1, <1>2, <1>3 DEF IInv, EnrolledInOrder, OfThisVault
<1> QED
    BY <1>4, <1>5, <1>6, <1>7 DEF IInv

\* The commands that Vault obeys: it is still the one the run began with.
LEMMA CommandsKeepIInv ==
    ASSUME IInv, NEW s \in Scripts, NEW h \in Hosts,
           WritePolicy(s, h) \/ WriteRole(s, h) \/ ReadIds(s, h)
    PROVE  IInv'
<1> USE NamesAreNames
<1>1. /\ UNCHANGED <<vault, runs, files, enrolled, token>> /\ at[s].vault = vault
      /\ at[s] # Idle /\ at[s].host = h
    BY DEF WritePolicy, WriteRole, ReadIds, AtCommand, Obeyed, roles
<1>2. /\ at \in [Scripts -> {Idle} \cup Running]
      /\ policy \in [Names -> Hosts \cup {None}]
      /\ role \in [Hosts -> Names \cup {None}]
      /\ token \in [Hosts -> Names \cup {None}]
    BY DEF IInv, TypeOK
<1>3. PICK next \in Steps :
          /\ at' = [at EXCEPT ![s] = [step |-> next, host |-> h, vault |-> vault]]
          /\ \/ /\ next = "role" /\ role' = role
                /\ policy' = [policy EXCEPT ![PolicyName(s, h)] = h]
             \/ /\ next = "ids" /\ policy' = policy /\ at[s].step = "role"
                /\ role' = [role EXCEPT ![h] = PolicyName(s, h)]
             \/ next = "role_id" /\ UNCHANGED <<policy, role>> /\ role[h] # None
    <2>1. \A next \in Steps : GoTo(s, next) =>
              at' = [at EXCEPT ![s] = [step |-> next, host |-> h, vault |-> vault]]
        BY <1>1 DEF GoTo
    <2>2. "role" \in Steps /\ "ids" \in Steps /\ "role_id" \in Steps
        BY DEF Steps
    <2>3. CASE WritePolicy(s, h)
        BY <2>1, <2>2, <2>3 DEF WritePolicy
    <2>4. CASE WriteRole(s, h)
        BY <2>1, <2>2, <2>4 DEF WriteRole, AtCommand
    <2>5. CASE ReadIds(s, h)
        BY <2>1, <2>2, <2>5 DEF ReadIds, roles
    <2> QED
        BY <2>3, <2>4, <2>5
<1> DEFINE place == [step |-> next, host |-> h, vault |-> vault]
<1>4. PolicyName(s, h) \in Names /\ PolicyName(s, h) # None /\ h # None
    OBVIOUS
<1>5. /\ policy' \in [Names -> Hosts \cup {None}]
      /\ role' \in [Hosts -> Names \cup {None}]
      /\ \A n \in Names : policy[n] # None => policy'[n] # None
      /\ \A g \in Hosts : role[g] # None => role'[g] # None
      /\ next \notin {"policy", "role"} => role'[h] # None
    BY <1>2, <1>3, <1>4
<1>6. TypeOK'
    <2>1. place \in {Idle} \cup Running /\ vault \in Nat
        BY DEF IInv, TypeOK, Running
    <2>2. TypeOK
        BY DEF IInv
    <2>3. /\ enrolled' \subseteq Scripts \X Hosts /\ runs' \in 0..MaxRuns
          /\ files' \in [Scripts -> [Hosts -> Credentials]]
        BY <1>1, <2>2 DEF TypeOK
    <2>4. /\ place.vault <= vault
          /\ place.step \notin {"policy", "role"} => role'[place.host] # None
        BY <1>5, <2>1
    <2> HIDE DEF place
    <2>5. at' = [at EXCEPT ![s] = place]
        BY <1>3 DEF place
    <2> QED
        BY <1>1, <1>5, <2>1, <2>2, <2>3, <2>4, <2>5, PlacesKeepTypes
<1>7. PoliciesNamed'
    <2> SUFFICES ASSUME NEW n \in Names, policy'[n] # None
                 PROVE  \E t \in Scripts : PolicyName(t, policy'[n]) = n
        BY DEF PoliciesNamed
    <2>1. CASE policy'[n] = policy[n]
        BY <2>1 DEF IInv, PoliciesNamed
    <2>2. CASE policy'[n] # policy[n]
        <3>1. n = PolicyName(s, h) /\ policy'[n] = h
            BY <1>2, <1>3, <1>4, <2>2
        <3> QED
            BY <3>1
    <2> QED
        BY <2>1, <2>2
<1>8. RolesNamed'
    <2> SUFFICES ASSUME NEW g \in Hosts, role'[g] # None
                 PROVE  /\ policy'[role'[g]] # None
                        /\ \E t \in Scripts : PolicyName(t, g) = role'[g]
        BY DEF RolesNamed
    <2>1. CASE role'[g] = role[g]
        <3>1. role[g] \in Names
            BY <1>2, <2>1
        <3> QED
            BY <1>5, <2>1, <3>1 DEF IInv, RolesNamed
    <2>2. CASE role'[g] # role[g]
        <3>1. g = h /\ role'[g] = PolicyName(s, h) /\ policy' = policy /\ at[s].step = "role"
            BY <1>2, <1>3, <2>2
        <3>2. policy[PolicyName(s, h)] # None
            BY <1>1, <3>1 DEF IInv, InOrder
        <3> QED
            BY <3>1, <3>2
    <2> QED
        BY <2>1, <2>2
<1>9. TokensNamed'
    <2>1. \A g \in Hosts : token[g] # None => token[g] \in Names
        BY <1>2
    <2> QED
        BY <1>1, <1>5, <2>1 DEF IInv, TokensNamed
<1>10. InOrder'
    <2> SUFFICES ASSUME NEW t \in Scripts, at'[t] # Idle
                 PROVE  /\ (at'[t].step = "role" /\ at'[t].vault = vault)
                              => policy'[PolicyName(t, at'[t].host)] # None
                        /\ at'[t].step = "secret_id"
                              => files[t][at'[t].host].role = at'[t].vault
        BY <1>1 DEF InOrder
    <2>1. CASE t = s
        <3>1. at'[t] = place
            BY <1>2, <1>3, <2>1
        <3>2. next = "role" => policy'[PolicyName(s, h)] # None
            BY <1>2, <1>3, <1>4
        <3>3. next # "secret_id"
            BY <1>3
        <3> QED
            BY <2>1, <3>1, <3>2, <3>3
    <2>2. CASE t # s
        <3>1. at'[t] = at[t] /\ at[t] \in Running
            BY <1>2, <1>3, <2>2
        <3>2. PolicyName(t, at[t].host) \in Names
            BY <3>1 DEF Running
        <3> QED
            BY <1>5, <3>1, <3>2 DEF IInv, InOrder
    <2> QED
        BY <2>1, <2>2
<1>11. EnrolledInOrder'
    <2> SUFFICES ASSUME NEW t \in Scripts, NEW g \in Hosts, <<t, g>> \in enrolled
                 PROVE  /\ OfThisVault(files[t][g]) /\ role'[g] # None
                        /\ at'[t] # Idle => at'[t].vault = vault
        BY <1>1 DEF EnrolledInOrder, OfThisVault
    <2>1. /\ OfThisVault(files[t][g]) /\ role[g] # None
          /\ at[t] # Idle => at[t].vault = vault
        BY DEF IInv, EnrolledInOrder
    <2> QED
        BY <1>2, <1>3, <1>5, <2>1
<1> QED
    BY <1>6, <1>7, <1>8, <1>9, <1>10, <1>11 DEF IInv

\* The credential files, which outlive the Vault they are of.
LEMMA PrintsKeepIInv ==
    ASSUME IInv, NEW s \in Scripts, NEW h \in Hosts,
           PrintRoleId(s, h) \/ PrintSecretId(s, h) \/ DiesPrinting(s, h)
    PROVE  IInv'
<1> USE NamesAreNames
<1>1. /\ UNCHANGED <<vault, policy, role, runs, token>>
      /\ at[s] # Idle /\ at[s].host = h
    BY DEF PrintRoleId, PrintSecretId, DiesPrinting, AtCommand, roles
<1>2. /\ at \in [Scripts -> {Idle} \cup Running]
      /\ files \in [Scripts -> [Hosts -> Credentials]]
      /\ vault \in 1..MaxVaults
      /\ at[s] \in Running /\ at[s].vault \in 1..MaxVaults /\ at[s].vault <= vault
      /\ enrolled \subseteq Scripts \X Hosts
    BY <1>1 DEF IInv, TypeOK, Running
<1> DEFINE v == at[s].vault
           c == files[s][h]
<1>3. c \in Credentials /\ v \in 0..MaxVaults
    BY <1>2
<1>4. CASE PrintRoleId(s, h)
    <2> DEFINE new == [role |-> v, secret |-> c.secret]
               place == [step |-> "secret_id", host |-> h, vault |-> v]
    <2>1. /\ at[s].step = "role_id" /\ enrolled' = enrolled
          /\ files' = [files EXCEPT ![s] = [files[s] EXCEPT ![h] = new]]
          /\ at' = [at EXCEPT ![s] = place]
        <3>1. [c EXCEPT !.role = v] = new
            BY <1>3 DEF Credentials
        <3>2. files' = [files EXCEPT ![s] = [files[s] EXCEPT ![h] = [c EXCEPT !.role = v]]]
            BY <1>4 DEF PrintRoleId
        <3> HIDE DEF new
        <3> QED
            BY <1>1, <1>4, <3>1, <3>2 DEF PrintRoleId, AtCommand, GoTo
    <2>2. new \in Credentials /\ place \in Running
        BY <1>2, <1>3 DEF Credentials, Running, Steps
    <2>3. files' \in [Scripts -> [Hosts -> Credentials]]
        BY <1>2, <2>1, <2>2
    <2>4. v = vault => role[h] # None
        BY <1>1, <2>1 DEF IInv, TypeOK
    <2>5. TypeOK'
        <3>1. TypeOK
            BY DEF IInv
        <3>2. /\ place.vault <= vault
              /\ (place.vault = vault /\ place.step \notin {"policy", "role"})
                    => role'[place.host] # None
            BY <1>1, <1>2, <2>4
        <3>3. /\ policy' \in [Names -> Hosts \cup {None}] /\ role' = role
              /\ role' \in [Hosts -> Names \cup {None}]
              /\ enrolled' \subseteq Scripts \X Hosts /\ runs' \in 0..MaxRuns
            BY <1>1, <1>2, <2>1, <3>1 DEF TypeOK
        <3> HIDE DEF place
        <3> QED
            BY <1>1, <2>1, <2>2, <2>3, <3>1, <3>2, <3>3, PlacesKeepTypes
    <2>6. InOrder'
        <3> SUFFICES ASSUME NEW t \in Scripts, at'[t] # Idle
                     PROVE  /\ (at'[t].step = "role" /\ at'[t].vault = vault)
                                  => policy[PolicyName(t, at'[t].host)] # None
                            /\ at'[t].step = "secret_id"
                                  => files'[t][at'[t].host].role = at'[t].vault
            BY <1>1 DEF InOrder
        <3>1. CASE t = s
            <4>1. at'[t] = place
                BY <1>2, <2>1, <3>1
            <4>2. files'[s][h] = new
                BY <1>2, <2>1
            <4> QED
                BY <3>1, <4>1, <4>2
        <3>2. CASE t # s
            <4>1. at'[t] = at[t] /\ files'[t] = files[t]
                BY <1>2, <2>1, <3>2
            <4> QED
                BY <4>1 DEF IInv, InOrder
        <3> QED
            BY <3>1, <3>2
    <2>7. EnrolledInOrder'
        <3> SUFFICES ASSUME NEW t \in Scripts, NEW g \in Hosts, <<t, g>> \in enrolled
                     PROVE  /\ OfThisVault(files'[t][g]) /\ role[g] # None
                            /\ at'[t] # Idle => at'[t].vault = vault
            BY <1>1, <2>1 DEF EnrolledInOrder, OfThisVault
        <3>1. /\ OfThisVault(files[t][g]) /\ role[g] # None
              /\ at[t] # Idle => at[t].vault = vault
            BY DEF IInv, EnrolledInOrder
        <3>2. CASE t = s
            <4>1. v = vault /\ at'[t].vault = vault
                BY <1>1, <1>2, <2>1, <3>1, <3>2
            <4>2. OfThisVault(files'[t][g])
                BY <1>2, <2>1, <3>1, <3>2, <4>1 DEF OfThisVault
            <4> QED
                BY <3>1, <4>1, <4>2
        <3>3. CASE t # s
            BY <1>2, <2>1, <3>1, <3>3
        <3> QED
            BY <3>2, <3>3
    <2>8. PoliciesNamed' /\ RolesNamed' /\ TokensNamed'
        BY <1>1 DEF IInv, PoliciesNamed, RolesNamed, TokensNamed
    <2> QED
        BY <2>5, <2>6, <2>7, <2>8 DEF IInv
<1>5. CASE PrintSecretId(s, h)
    <2> DEFINE new == [role |-> c.role, secret |-> v]
    <2>1. /\ at[s].step = "secret_id" /\ at' = [at EXCEPT ![s] = Idle]
          /\ enrolled' = IF v = vault THEN enrolled \cup {<<s, h>>} ELSE enrolled
          /\ files' = [files EXCEPT ![s] = [files[s] EXCEPT ![h] = new]]
        <3>1. [c EXCEPT !.secret = v] = new
            BY <1>3 DEF Credentials
        <3>2. files' = [files EXCEPT ![s] = [files[s] EXCEPT ![h] = [c EXCEPT !.secret = v]]]
            BY <1>5 DEF PrintSecretId
        <3> HIDE DEF new
        <3> QED
            BY <1>1, <1>5, <3>1, <3>2 DEF PrintSecretId, AtCommand, Obeyed
    <2>2. new \in Credentials /\ c.role = v
        <3>1. c.role = v
            BY <1>1, <2>1 DEF IInv, InOrder
        <3> QED
            BY <1>3, <3>1 DEF Credentials
    <2>3. files' \in [Scripts -> [Hosts -> Credentials]]
        BY <1>2, <2>1, <2>2
    <2>4. v = vault => role[h] # None
        BY <1>1, <2>1 DEF IInv, TypeOK
    <2>5. TypeOK'
        <3>1. TypeOK
            BY DEF IInv
        <3>2. /\ policy' \in [Names -> Hosts \cup {None}] /\ role' = role
              /\ role' \in [Hosts -> Names \cup {None}]
              /\ enrolled' \subseteq Scripts \X Hosts /\ runs' \in 0..MaxRuns
            BY <1>1, <1>2, <2>1, <3>1 DEF TypeOK
        <3> QED
            BY <1>1, <2>1, <2>3, <3>1, <3>2, PlacesKeepTypes
    <2>6. InOrder'
        <3> SUFFICES ASSUME NEW t \in Scripts, at'[t] # Idle
                     PROVE  /\ (at'[t].step = "role" /\ at'[t].vault = vault)
                                  => policy[PolicyName(t, at'[t].host)] # None
                            /\ at'[t].step = "secret_id"
                                  => files'[t][at'[t].host].role = at'[t].vault
            BY <1>1 DEF InOrder
        <3>1. t # s /\ at'[t] = at[t] /\ files'[t] = files[t]
            BY <1>2, <2>1
        <3> QED
            BY <3>1 DEF IInv, InOrder
    <2>7. EnrolledInOrder'
        <3> SUFFICES ASSUME NEW t \in Scripts, NEW g \in Hosts, <<t, g>> \in enrolled'
                     PROVE  /\ OfThisVault(files'[t][g]) /\ role[g] # None
                            /\ at'[t] # Idle => at'[t].vault = vault
            BY <1>1 DEF EnrolledInOrder, OfThisVault
        <3>1. CASE t = s /\ g = h
            <4>1. files'[t][g] = new /\ at'[t] = Idle
                BY <1>2, <2>1, <3>1
            <4>2. v = vault
                <5>1. CASE v # vault
                    <6>1. <<s, h>> \in enrolled
                        BY <2>1, <3>1, <5>1
                    <6> QED
                        BY <1>1, <6>1 DEF IInv, EnrolledInOrder
                <5> QED
                    BY <5>1
            <4> QED
                BY <2>2, <2>4, <3>1, <4>1, <4>2 DEF OfThisVault
        <3>2. CASE ~(t = s /\ g = h)
            <4>1. <<t, g>> \in enrolled
                BY <2>1, <3>2
            <4>2. /\ OfThisVault(files[t][g]) /\ role[g] # None
                  /\ at[t] # Idle => at[t].vault = vault
                BY <4>1 DEF IInv, EnrolledInOrder
            <4>3. files'[t][g] = files[t][g]
                BY <1>2, <2>1, <3>2
            <4>4. at'[t] # Idle => at'[t] = at[t]
                BY <1>2, <2>1
            <4> QED
                BY <4>2, <4>3, <4>4
        <3> QED
            BY <3>1, <3>2
    <2>8. PoliciesNamed' /\ RolesNamed' /\ TokensNamed'
        BY <1>1 DEF IInv, PoliciesNamed, RolesNamed, TokensNamed
    <2> QED
        BY <2>5, <2>6, <2>7, <2>8 DEF IInv
<1>6. CASE DiesPrinting(s, h)
    <2>1. PICK new \in {[role |-> 0, secret |-> c.secret], [role |-> c.role, secret |-> 0]} :
              files' = [files EXCEPT ![s] = [files[s] EXCEPT ![h] = new]]
        <3>1. /\ [c EXCEPT !.role = 0] = [role |-> 0, secret |-> c.secret]
              /\ [c EXCEPT !.secret = 0] = [role |-> c.role, secret |-> 0]
            BY <1>3 DEF Credentials
        <3>2. \/ files' = [files EXCEPT ![s] = [files[s] EXCEPT ![h] = [c EXCEPT !.role = 0]]]
              \/ files' = [files EXCEPT ![s] = [files[s] EXCEPT ![h] = [c EXCEPT !.secret = 0]]]
            BY <1>6 DEF DiesPrinting
        <3> QED
            BY <3>1, <3>2
    <2>2. at' = [at EXCEPT ![s] = Idle] /\ enrolled' = enrolled
        BY <1>6 DEF DiesPrinting
    <2>3. new \in Credentials
        BY <1>3, VaultBound DEF Credentials
    <2>4. files' \in [Scripts -> [Hosts -> Credentials]]
        BY <1>2, <2>1, <2>3
    <2>5. TypeOK'
        <3>1. TypeOK
            BY DEF IInv
        <3>2. /\ policy' \in [Names -> Hosts \cup {None}] /\ role' = role
              /\ role' \in [Hosts -> Names \cup {None}]
              /\ enrolled' \subseteq Scripts \X Hosts /\ runs' \in 0..MaxRuns
            BY <1>1, <1>2, <2>2, <3>1 DEF TypeOK
        <3> QED
            BY <1>1, <2>2, <2>4, <3>1, <3>2, PlacesKeepTypes
    <2>6. InOrder'
        <3> SUFFICES ASSUME NEW t \in Scripts, at'[t] # Idle
                     PROVE  /\ (at'[t].step = "role" /\ at'[t].vault = vault)
                                  => policy[PolicyName(t, at'[t].host)] # None
                            /\ at'[t].step = "secret_id"
                                  => files'[t][at'[t].host].role = at'[t].vault
            BY <1>1 DEF InOrder
        <3>1. t # s /\ at'[t] = at[t] /\ files'[t] = files[t]
            BY <1>2, <2>1, <2>2
        <3> QED
            BY <3>1 DEF IInv, InOrder
    <2>7. EnrolledInOrder'
        <3> SUFFICES ASSUME NEW t \in Scripts, NEW g \in Hosts, <<t, g>> \in enrolled
                     PROVE  /\ OfThisVault(files'[t][g]) /\ role[g] # None
                            /\ at'[t] # Idle => at'[t].vault = vault
            BY <1>1, <2>2 DEF EnrolledInOrder, OfThisVault
        <3>1. /\ OfThisVault(files[t][g]) /\ role[g] # None
              /\ at[t] # Idle => at[t].vault = vault
            BY DEF IInv, EnrolledInOrder
        <3>2. OfThisVault(files'[t][g])
            <4>1. CASE t = s /\ g = h
                <5>1. files'[t][g] = new
                    BY <1>2, <2>1, <4>1
                <5> QED
                    BY <2>1, <3>1, <4>1, <5>1 DEF OfThisVault
            <4>2. CASE ~(t = s /\ g = h)
                <5>1. files'[t][g] = files[t][g]
                    BY <1>2, <2>1, <4>2
                <5> QED
                    BY <3>1, <5>1
            <4> QED
                BY <4>1, <4>2
        <3>3. at'[t] # Idle => at'[t] = at[t]
            BY <1>2, <2>2
        <3> QED
            BY <3>1, <3>2, <3>3
    <2>8. PoliciesNamed' /\ RolesNamed' /\ TokensNamed'
        BY <1>1 DEF IInv, PoliciesNamed, RolesNamed, TokensNamed
    <2> QED
        BY <2>5, <2>6, <2>7, <2>8 DEF IInv
<1> QED
    BY <1>4, <1>5, <1>6

\* The agents' logins, the ends of their tokens, and a new Vault.
LEMMA OthersKeepIInv ==
    ASSUME IInv, NewVault \/ \E h \in Hosts : AgentLogin(h) \/ TokenEnds(h)
    PROVE  IInv'
<1> USE NamesAreNames
<1>1. ASSUME NEW h \in Hosts, AgentLogin(h) \/ TokenEnds(h)
      PROVE  IInv'
    <2>1. UNCHANGED <<vault, policy, role, at, runs, files, enrolled>>
        BY <1>1 DEF AgentLogin, TokenEnds, roles
    <2>2. /\ token \in [Hosts -> Names \cup {None}] /\ role \in [Hosts -> Names \cup {None}]
        BY DEF IInv, TypeOK
    <2>3. \/ token' = [token EXCEPT ![h] = role[h]]
          \/ token' = [token EXCEPT ![h] = None]
        BY <1>1 DEF AgentLogin, TokenEnds
    <2>4. token' \in [Hosts -> Names \cup {None}]
        BY <2>2, <2>3
    <2>5. TypeOK'
        BY <2>1, <2>4 DEF IInv, TypeOK
    <2>6. \A g \in Hosts : token'[g] \in {None, token[g], role[g]}
        BY <2>2, <2>3
    <2>7. TokensNamed'
        BY <2>1, <2>6 DEF IInv, TokensNamed, RolesNamed
    <2>8. PoliciesNamed' /\ RolesNamed' /\ InOrder' /\ EnrolledInOrder'
        BY <2>1 DEF IInv, PoliciesNamed, RolesNamed, InOrder, EnrolledInOrder, OfThisVault
    <2> QED
        BY <2>5, <2>7, <2>8 DEF IInv
<1>2. CASE NewVault
    <2>1. /\ vault \in 1..MaxVaults /\ vault < MaxVaults /\ vault' = vault + 1
          /\ policy' = [n \in Names |-> None] /\ role' = [h \in Hosts |-> None]
          /\ token' = [h \in Hosts |-> None] /\ enrolled' = {}
          /\ UNCHANGED <<at, runs, files>>
        BY <1>2 DEF NewVault, NoPolicies, Nobody, IInv, TypeOK
    <2>2. \A s \in Scripts : at[s] # Idle =>
              at[s].vault \in 1..MaxVaults /\ at[s].vault < vault'
        BY <2>1, VaultBound DEF IInv, TypeOK, Running
    <2>3. TypeOK'
        <3>1. vault' \in 1..MaxVaults
            BY <2>1, VaultBound
        <3>2. \A s \in Scripts : at'[s] # Idle => at'[s].vault <= vault' /\ at'[s].vault # vault'
            BY <2>1, <2>2, <3>1
        <3>3. /\ policy' \in [Names -> Hosts \cup {None}]
              /\ role' \in [Hosts -> Names \cup {None}]
              /\ token' \in [Hosts -> Names \cup {None}]
            BY <2>1
        <3> QED
            BY <2>1, <3>1, <3>2, <3>3 DEF IInv, TypeOK
    <2>4. PoliciesNamed' /\ RolesNamed' /\ TokensNamed'
        BY <2>1 DEF PoliciesNamed, RolesNamed, TokensNamed
    <2>5. InOrder' /\ EnrolledInOrder'
        BY <2>1, <2>2 DEF IInv, InOrder, EnrolledInOrder
    <2> QED
        BY <2>3, <2>4, <2>5 DEF IInv
<1> QED
    BY <1>1, <1>2

\* Every step, and every stutter, preserves the invariant.
LEMMA NextIInv == IInv /\ [Next]_vars => IInv'
<1> SUFFICES ASSUME IInv, [Next]_vars
             PROVE  IInv'
    OBVIOUS
<1>1. CASE UNCHANGED vars
    BY <1>1 DEF vars, roles, IInv, TypeOK, PoliciesNamed, RolesNamed, TokensNamed,
                InOrder, EnrolledInOrder, OfThisVault
<1>2. CASE Next
    BY <1>2, RunsKeepIInv, CommandsKeepIInv, PrintsKeepIInv, OthersKeepIInv
       DEF Next, ScriptStep
<1> QED
    BY <1>1, <1>2

\* The invariant holds throughout.
LEMMA AlwaysIInv == Spec => []IInv
BY InitIInv, NextIInv, PTL DEF Spec

\* A policy that a host without an alias names is its own.
LEMMA UnaliasedOwns ==
    ASSUME IInv, NEW h \in Hosts, Unaliased(h), NEW n \in Names, policy[n] # None,
           \E s \in Scripts : PolicyName(s, h) = n
    PROVE  policy[n] = h
<1>1. policy[n] \in Hosts /\ \E t \in Scripts : PolicyName(t, policy[n]) = n
    BY DEF IInv, TypeOK, PoliciesNamed
<1> QED
    BY <1>1 DEF Unaliased

-----------------------------------------------------------------------------
\* All variables keep their types, and a run that is past the role has one.
THEOREM RoleTypes == Spec => []TypeOK
<1>1. IInv => TypeOK
    BY DEF IInv
<1> QED
    BY <1>1, AlwaysIInv, PTL

\* No AppRole names a policy that does not exist, wherever a run was cut off
\* (create-nginx-role.sh 44-63: the policy is written first).
THEOREM RolesHavePolicies == Spec => []RoleHasPolicy
<1>1. IInv => RoleHasPolicy
    BY DEF IInv, RolesNamed, RoleHasPolicy
<1> QED
    BY <1>1, AlwaysIInv, PTL

\* As long as the Vault is there, the role of a run that ended well reads its own
\* server's certificate, and its files log in unless a later run emptied one.
THEOREM EnrolmentLasts == Spec => []EnrolledReadsItsOwn
<1>1. IInv => EnrolledReadsItsOwn
    <2> SUFFICES ASSUME IInv, NEW s \in Scripts, NEW h \in Hosts, <<s, h>> \in enrolled,
                        Unaliased(h)
                 PROVE  /\ role[h] # None /\ policy[role[h]] = h
                        /\ Accepted(files[s][h]) \/ Emptied(files[s][h])
        BY DEF EnrolledReadsItsOwn
    <2>1. OfThisVault(files[s][h]) /\ role[h] # None
        BY DEF IInv, EnrolledInOrder
    <2>2. role[h] \in Names
        BY <2>1 DEF IInv, TypeOK
    <2>3. policy[role[h]] # None /\ \E t \in Scripts : PolicyName(t, h) = role[h]
        BY <2>1 DEF IInv, RolesNamed
    <2>4. Accepted(files[s][h]) \/ Emptied(files[s][h])
        BY <2>1 DEF OfThisVault, Accepted, Emptied
    <2> QED
        BY <2>1, <2>2, <2>3, <2>4, UnaliasedOwns
<1> QED
    BY <1>1, AlwaysIInv, PTL

\* A token that is out reads its own server's certificate, whatever is written since.
THEOREM TokensStayScoped == Spec => []TokenReadsItsOwn
<1>1. IInv => TokenReadsItsOwn
    <2> SUFFICES ASSUME IInv, NEW h \in Hosts, token[h] # None, Unaliased(h)
                 PROVE  policy[token[h]] = h
        BY DEF TokenReadsItsOwn
    <2>1. token[h] \in Names
        BY DEF IInv, TypeOK
    <2>2. policy[token[h]] # None /\ \E t \in Scripts : PolicyName(t, h) = token[h]
        BY DEF IInv, TokensNamed
    <2> QED
        BY <2>1, <2>2, UnaliasedOwns
<1> QED
    BY <1>1, AlwaysIInv, PTL
=============================================================================
