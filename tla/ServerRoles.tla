----------------------------- MODULE ServerRoles -----------------------------
(***************************************************************************)
(* server/init/create-nginx-role.sh and provisioners/05-approle-nginx: the *)
(* two scripts that give a server its AppRole, a policy for it, and a pair *)
(* of credential files, command by command; and the server's agent, which  *)
(* logs in with a copy of the files.                                       *)
(*                                                                         *)
(* One run of each script goes on at a time; it may be killed or fail      *)
(* between two commands, be repeated, or find another Vault than the one   *)
(* it began with. The ids of an AppRole are worth the same as long as the  *)
(* Vault is, so an id in a file is represented by the Vault it is of; 0 is *)
(* a file that is empty or not there.                                      *)
(***************************************************************************)
EXTENDS Naturals

CONSTANTS
    Hosts,          \* the servers' FQDNs
    Dashed,         \* for each, its name with dashes for dots
    MaxVaults,      \* bound: how often Vault is initialised
    MaxRuns         \* bound: how often the scripts are run

None == "none"

ASSUME VaultBound == MaxVaults \in Nat \ {0}
ASSUME RunBound == MaxRuns \in Nat
ASSUME HostNames == None \notin Hosts /\ \A h \in Hosts : Dashed[h] # None

VARIABLES
    vault,      \* the Vault there is
    policy,     \* for each policy name, the host whose path it opens, or None
    role,       \* for each host, the policy that its AppRole's tokens get, or None
    at,         \* for each script, the command it is at, or Idle
    runs,       \* how often either script has been run
    files,      \* for each script and host, the Vault each credential file is of
    enrolled,   \* the scripts and hosts for which a run has ended well in this Vault
    token       \* for each host, the policy its agent's token carries, or None

roles == <<vault, policy, role>>
vars == <<roles, at, runs, files, enrolled, token>>

Idle == [step |-> "idle"]
Scripts == {"create-nginx-role", "05-approle-nginx"}
Steps == {"policy", "role", "ids", "role_id", "secret_id"}
Running == [step : Steps, host : Hosts, vault : 1..MaxVaults]
Credentials == [role : 0..MaxVaults, secret : 0..MaxVaults]
NoCredentials == [role |-> 0, secret |-> 0]

\* Policies are called nginx-<this>; AppRoles nginx-<host> in both scripts.
PolicyName(s, h) == IF s = "create-nginx-role" THEN Dashed[h] ELSE h
Names == {PolicyName(s, h) : s \in Scripts, h \in Hosts}

TypeOK ==
    /\ vault \in 1..MaxVaults
    /\ policy \in [Names -> Hosts \cup {None}]
    /\ role \in [Hosts -> Names \cup {None}]
    /\ at \in [Scripts -> {Idle} \cup Running]
    /\ runs \in 0..MaxRuns
    /\ files \in [Scripts -> [Hosts -> Credentials]]
    /\ enrolled \subseteq Scripts \X Hosts
    /\ token \in [Hosts -> Names \cup {None}]
    /\ \A s \in Scripts : at[s] # Idle =>
          /\ at[s].vault <= vault
          /\ (at[s].vault = vault /\ at[s].step \notin {"policy", "role"})
                => role[at[s].host] # None

NoPolicies == [n \in Names |-> None]
Nobody == [h \in Hosts |-> None]

Init ==
    /\ vault = 1
    /\ policy = NoPolicies
    /\ role = Nobody
    /\ enrolled = {}
    /\ token = Nobody
    /\ at = [s \in Scripts |-> Idle]
    /\ runs = 0
    /\ files = [s \in Scripts |-> [h \in Hosts |-> NoCredentials]]

-----------------------------------------------------------------------------
(* The scripts.                                                            *)

\* The root token is read at the start.
Run(s, h) ==
    /\ at[s] = Idle
    /\ runs < MaxRuns
    /\ runs' = runs + 1
    /\ at' = [at EXCEPT ![s] = [step |-> "policy", host |-> h, vault |-> vault]]
    /\ UNCHANGED <<roles, files, enrolled, token>>

\* A kill, or a command that fails: set -e ends the script.
Abort(s) ==
    /\ at[s] # Idle
    /\ at' = [at EXCEPT ![s] = Idle]
    /\ UNCHANGED <<roles, runs, files, enrolled, token>>

\* Script s is at this command for host h. Vault obeys a token of its own only.
AtCommand(s, step, h) == at[s] # Idle /\ at[s].step = step /\ at[s].host = h
Obeyed(s) == at[s].vault = vault
GoTo(s, step) ==
    at' = [at EXCEPT ![s] = [step |-> step, host |-> at[s].host, vault |-> at[s].vault]]

\* Mutant: the policy is written under one name and the role refers to another.
WritePolicyDotted(s, h) ==
    /\ AtCommand(s, "policy", h) /\ Obeyed(s)
    /\ policy' = [policy EXCEPT ![h] = h]
    /\ GoTo(s, "role")
    /\ UNCHANGED <<vault, role, runs, files, enrolled, token>>

\* Mutant: the policy's path is that of whoever had the name first.
WritePolicyOnce(s, h) ==
    /\ AtCommand(s, "policy", h) /\ Obeyed(s)
    /\ policy' = [policy EXCEPT ![PolicyName(s, h)] = CHOOSE g \in Hosts : TRUE]
    /\ GoTo(s, "role")
    /\ UNCHANGED <<vault, role, runs, files, enrolled, token>>

WritePolicy(s, h) ==
    /\ AtCommand(s, "policy", h) /\ Obeyed(s)
    /\ policy' = [policy EXCEPT ![PolicyName(s, h)] = h]
    /\ GoTo(s, "role")
    /\ UNCHANGED <<vault, role, runs, files, enrolled, token>>

\* Mutant: a role that cannot be written does not stop the script.
WriteRoleUnchecked(s, h) ==
    /\ AtCommand(s, "role", h) /\ Obeyed(s)
    /\ role' \in {role, [role EXCEPT ![h] = PolicyName(s, h)]}
    /\ GoTo(s, "ids")
    /\ UNCHANGED <<vault, policy, runs, files, enrolled, token>>

\* Writing a role again keeps its role_id and the secret ids it has.
WriteRole(s, h) ==
    /\ AtCommand(s, "role", h) /\ Obeyed(s)
    /\ role' = [role EXCEPT ![h] = PolicyName(s, h)]
    /\ GoTo(s, "ids")
    /\ UNCHANGED <<vault, policy, runs, files, enrolled, token>>

ReadIds(s, h) ==
    /\ AtCommand(s, "ids", h) /\ Obeyed(s)
    /\ role[h] # None
    /\ GoTo(s, "role_id")
    /\ UNCHANGED <<roles, runs, files, enrolled, token>>

PrintRoleId(s, h) ==
    /\ AtCommand(s, "role_id", h)
    /\ files' = [files EXCEPT ![s][h].role = at[s].vault]
    /\ GoTo(s, "secret_id")
    /\ UNCHANGED <<roles, runs, enrolled, token>>

\* Mutant: a secret id that is there is kept.
PrintSecretIdOnce(s, h) ==
    /\ AtCommand(s, "secret_id", h)
    /\ files' = [files EXCEPT ![s][h].secret = IF @ = 0 THEN at[s].vault ELSE @]
    /\ at' = [at EXCEPT ![s] = Idle]
    /\ enrolled' = IF Obeyed(s) THEN enrolled \cup {<<s, h>>} ELSE enrolled
    /\ UNCHANGED <<roles, runs, token>>

PrintSecretId(s, h) ==
    /\ AtCommand(s, "secret_id", h)
    /\ files' = [files EXCEPT ![s][h].secret = at[s].vault]
    /\ at' = [at EXCEPT ![s] = Idle]
    /\ enrolled' = IF Obeyed(s) THEN enrolled \cup {<<s, h>>} ELSE enrolled
    /\ UNCHANGED <<roles, runs, token>>

\* A kill, or a full disk, after "> role_id" or "> secret_id" has emptied the file and
\* before printf has written to it.
DiesPrinting(s, h) ==
    /\ \/ /\ AtCommand(s, "role_id", h)
          /\ files' = [files EXCEPT ![s][h].role = 0]
       \/ /\ AtCommand(s, "secret_id", h)
          /\ files' = [files EXCEPT ![s][h].secret = 0]
    /\ at' = [at EXCEPT ![s] = Idle]
    /\ UNCHANGED <<roles, runs, enrolled, token>>

-----------------------------------------------------------------------------
(* The servers, and Vault.                                                 *)

\* With the server's own copy of a pair, which is worth what the files were when
\* install.sh copied them: accepted, if that was after a run had ended well in this
\* Vault and before a later one was cut off while it printed. The token carries the
\* name of a policy; what that says is looked up at each read.
AgentLogin(h) ==
    /\ \E s \in Scripts : <<s, h>> \in enrolled
    /\ role[h] # None
    /\ token' = [token EXCEPT ![h] = role[h]]
    /\ UNCHANGED <<roles, at, runs, files, enrolled>>

\* token_max_ttl ends, or the agent does.
TokenEnds(h) ==
    /\ token[h] # None
    /\ token' = [token EXCEPT ![h] = None]
    /\ UNCHANGED <<roles, at, runs, files, enrolled>>

\* Cleaned up and initialised again (VaultLifecycle); the files stay.
NewVault ==
    /\ vault < MaxVaults
    /\ vault' = vault + 1
    /\ policy' = NoPolicies
    /\ role' = Nobody
    /\ enrolled' = {}
    /\ token' = Nobody
    /\ UNCHANGED <<at, runs, files>>

ScriptStep(s) ==
    \/ Abort(s)
    \/ \E h \in Hosts :
          \/ Run(s, h)
          \/ WritePolicy(s, h) \/ WriteRole(s, h) \/ ReadIds(s, h)
          \/ PrintRoleId(s, h) \/ PrintSecretId(s, h) \/ DiesPrinting(s, h)

Next ==
    \/ \E s \in Scripts : ScriptStep(s)
    \/ \E h \in Hosts : AgentLogin(h) \/ TokenEnds(h)
    \/ NewVault

Spec == Init /\ [][Next]_vars

-----------------------------------------------------------------------------
(* Properties.                                                             *)

\* Dots become dashes, so nginx01.a.com and nginx01-a.com share a policy, and either
\* script may write the policy the other has written for another host. A host is
\* without an alias if no script run for another host names its policy alike.
Unaliased(h) ==
    \A g \in Hosts \ {h} : \A s, t \in Scripts : PolicyName(s, g) # PolicyName(t, h)

\* Wherever a run was cut off, no AppRole names a policy that does not exist.
RoleHasPolicy == \A h \in Hosts : role[h] # None => policy[role[h]] # None

\* A role's ids are accepted by the Vault that made them.
Accepted(c) == c.role = vault /\ c.secret = vault

\* A run was cut off while it printed, and what is not empty is still of this Vault.
Emptied(c) ==
    /\ c.role \in {0, vault} /\ c.secret \in {0, vault}
    /\ c.role = 0 \/ c.secret = 0

\* "Creates a Vault policy and AppRole scoped to a single server": once a run has ended
\* well, the server's role stays and reads its own certificate, whatever other runs of
\* both scripts, for this and other servers, do or leave half done. Without an alias,
\* that is. The files log in, unless a later run emptied one: a server that has its copy
\* does not notice, one that is installed from them then gets an empty id, for
\* install.sh 28 only looks whether they are there. They are never ids of two Vaults.
EnrolledReadsItsOwn ==
    \A s \in Scripts : \A h \in Hosts :
        (<<s, h>> \in enrolled /\ Unaliased(h)) =>
            /\ role[h] # None /\ policy[role[h]] = h
            /\ Accepted(files[s][h]) \/ Emptied(files[s][h])

\* A token that is out keeps its meaning while its role is written again by either
\* script, under either policy name: it reads its server's certificate and no other's.
TokenReadsItsOwn ==
    \A h \in Hosts : (token[h] # None /\ Unaliased(h)) => policy[token[h]] = h
=============================================================================
