---------------------------- MODULE VaultFetcher ----------------------------
(***************************************************************************)
(* client/vault-fetcher/main.go: the process that copies one host name's   *)
(* certificate, key and key password from Vault's KV store to a directory  *)
(* shared with NGINX, signals NGINX, and sleeps until the certificate      *)
(* enters its renewal window.                                              *)
(*                                                                         *)
(* Its environment is modelled as the code uses it: CertMgr, which writes  *)
(* new versions of the secret; the directory, whose files a write          *)
(* truncates before it fills them; NGINX, which handles SIGHUP some time   *)
(* after "docker kill" returned; crashes of the process and of the host.   *)
(*                                                                         *)
(* Time is a countdown: a certificate knows how long it still lives and a  *)
(* sleeping process how long it still sleeps, and Tick lowers both.        *)
(***************************************************************************)
EXTENDS Integers

CONSTANTS
    Files,          \* the keys of writeFiles' map: certificate, key, password
    MaxVersion,     \* bound: versions of the secret CertMgr writes
    Lifetimes,      \* bound: the remaining lifetimes a new certificate may have
    RenewBefore,    \* RENEW_BEFORE_DAYS
    RetryWait,      \* the 60 s sleep after a failed pass
    RecheckWait,    \* the 24 h sleep when the secret has no usable not_after
    MaxFaults       \* bound: failed writes, crashes, reboots, stops of NGINX

ASSUME FilesAssumption == Files # {}
ASSUME BoundsAssumption == MaxVersion \in Nat /\ MaxFaults \in Nat
ASSUME TimesAssumption ==
    /\ Lifetimes \subseteq Nat
    /\ RenewBefore \in Nat
    /\ RetryWait \in Nat \ {0}
    /\ RecheckWait \in Nat \ {0}

VARIABLES
    newest,     \* the current version of secret/data/certs/<fqdn>/<type>
    kv,         \* what each version holds
    pc,         \* where the main loop is
    held,       \* the version in the loop's variable secret, 0 when there is none
    todo,       \* the files this pass has still to write
    open,       \* the file os.WriteFile has truncated and not yet filled
    sleep,      \* what is left of the current time.Sleep
    hupErr,     \* whether this pass's "docker kill" failed
    disk,       \* the version of each file in CERT_OUT_DIR
    up,         \* whether NGINX runs
    loaded,     \* the version NGINX loaded last
    hup,        \* a SIGHUP NGINX has not handled yet
    faults      \* how much of MaxFaults is used

fetcher == <<pc, held, todo, open, sleep, hupErr>>
nginx == <<up, loaded, hup>>
vars == <<newest, kv, fetcher, disk, nginx, faults>>

Versions == 1..MaxVersion
None == 0               \* no version: an absent file, an empty secret
Torn == -1              \* a file that was truncated and not filled

\* files: the secret's non-empty fields, by the file each one goes to;
\* dated: whether not_after is there and time.Parse accepts it;
\* life: the time left until not_after.
Secret == [files : SUBSET Files, dated : BOOLEAN, life : Nat]

NoSecret == [files |-> {}, dated |-> FALSE, life |-> 0]

Places == {"down", "login", "fetch", "write", "reload", "schedule",
           "resting", "retrying"}

TypeOK ==
    /\ newest \in 0..MaxVersion
    /\ kv \in [Versions -> Secret]
    /\ pc \in Places
    /\ held \in 0..MaxVersion
    /\ todo \subseteq Files
    /\ open \subseteq todo
    /\ sleep \in Nat
    /\ hupErr \in BOOLEAN
    /\ disk \in [Files -> {Torn, None} \cup Versions]
    /\ up \in BOOLEAN
    /\ loaded \in 0..MaxVersion
    /\ hup \in BOOLEAN
    /\ faults \in 0..MaxFaults

\* The directory holds all of version v.
WholeAt(v) == \A f \in Files : disk[f] = v

Init ==
    /\ newest = None
    /\ kv = [v \in Versions |-> NoSecret]
    /\ pc = "down"
    /\ held = None
    /\ todo = {}
    /\ open = {}
    /\ sleep = 0
    /\ hupErr = FALSE
    /\ disk = [f \in Files |-> None]
    /\ up = FALSE
    /\ loaded = None
    /\ hup = FALSE
    /\ faults = 0

-----------------------------------------------------------------------------
(* The environment: CertMgr and the clock.                                 *)

\* A new version is written. It may lack fields, and its not_after may be
\* missing or unreadable.
Push(s) ==
    /\ newest < MaxVersion
    /\ newest' = newest + 1
    /\ kv' = [kv EXCEPT ![newest + 1] = s]
    /\ UNCHANGED <<fetcher, disk, nginx, faults>>

Less(t) == IF t > 0 THEN t - 1 ELSE 0

Tick ==
    /\ sleep > 0 \/ \E v \in Versions : kv[v].life > 0
    /\ sleep' = Less(sleep)
    /\ kv' = [v \in Versions |-> [kv[v] EXCEPT !.life = Less(@)]]
    /\ UNCHANGED <<newest, pc, held, todo, open, hupErr, disk, nginx, faults>>

\* What goes wrong only MaxFaults times uses this up.
Fault ==
    /\ faults < MaxFaults
    /\ faults' = faults + 1

-----------------------------------------------------------------------------
(* The fetcher's main loop.                                                *)

\* Mutant: a pass that ends in the middle of a write leaves the file open.
ForgetKeepsOpen ==
    /\ held' = None
    /\ todo' = {}
    /\ UNCHANGED open

\* The secret goes out of scope, or is not used again.
Forget ==
    /\ held' = None
    /\ todo' = {}
    /\ open' = {}

\* "continue", or the end of the loop's body: a new pass begins.
NewPass ==
    /\ pc' = "login"
    /\ Forget
    /\ sleep' = 0

\* A failed step: log, sleep 60 s.
GiveUp ==
    /\ pc' = "retrying"
    /\ Forget
    /\ sleep' = RetryWait

Start ==
    /\ pc = "down"
    /\ NewPass
    /\ UNCHANGED <<newest, kv, hupErr, disk, nginx, faults>>

AppRoleLogin ==
    /\ pc = "login"
    /\ pc' = "fetch"
    /\ UNCHANGED <<newest, kv, held, todo, open, sleep, hupErr, disk, nginx, faults>>

\* No answer in 15 s, a status other than 200, an unreadable or empty token.
AppRoleLoginFails ==
    /\ pc = "login"
    /\ GiveUp
    /\ UNCHANGED <<newest, kv, hupErr, disk, nginx, faults>>

\* Mutant: the read may be answered from a cache that is one version behind.
FetchSecretStale ==
    /\ pc = "fetch"
    /\ newest # None
    /\ pc' = "write"
    /\ held' \in {newest, newest - 1} \ {None}
    /\ todo' = Files
    /\ UNCHANGED <<newest, kv, open, sleep, hupErr, disk, nginx, faults>>

\* Mutant: a version already in the directory is neither written nor signalled.
FetchSecretSkipsKnown ==
    /\ pc = "fetch"
    /\ newest # None
    /\ pc' = IF WholeAt(newest) THEN "schedule" ELSE "write"
    /\ held' = newest
    /\ todo' = IF WholeAt(newest) THEN {} ELSE Files
    /\ UNCHANGED <<newest, kv, open, sleep, hupErr, disk, nginx, faults>>

FetchSecret ==
    /\ pc = "fetch"
    /\ newest # None
    /\ pc' = "write"
    /\ held' = newest
    /\ todo' = Files
    /\ UNCHANGED <<newest, kv, open, sleep, hupErr, disk, nginx, faults>>

\* Vault answers 404 before the first version; it may be sealed or away.
FetchSecretFails ==
    /\ pc = "fetch"
    /\ GiveUp
    /\ UNCHANGED <<newest, kv, hupErr, disk, nginx, faults>>

\* Mutant: a missing field is skipped instead of ending the pass.
FieldMissingSkips(f) ==
    /\ pc = "write"
    /\ open = {}
    /\ f \in todo \ kv[held].files
    /\ todo' = todo \ {f}
    /\ pc' = IF todo' = {} THEN "reload" ELSE "write"
    /\ UNCHANGED <<newest, kv, held, open, sleep, hupErr, disk, nginx, faults>>

\* writeFiles ranges over a Go map: the next file is any of those left. A file
\* whose field is empty ends the pass, with the earlier ones already replaced.
FieldMissing(f) ==
    /\ pc = "write"
    /\ open = {}
    /\ f \in todo \ kv[held].files
    /\ GiveUp
    /\ UNCHANGED <<newest, kv, hupErr, disk, nginx, faults>>

\* os.WriteFile opens with O_TRUNC ...
OpenFile(f) ==
    /\ pc = "write"
    /\ open = {}
    /\ f \in todo \cap kv[held].files
    /\ open' = {f}
    /\ disk' = [disk EXCEPT ![f] = Torn]
    /\ UNCHANGED <<newest, kv, pc, held, todo, sleep, hupErr, nginx, faults>>

\* ... and then writes the content.
FillFile(f) ==
    /\ pc = "write"
    /\ f \in open
    /\ open' = {}
    /\ disk' = [disk EXCEPT ![f] = held]
    /\ todo' = todo \ {f}
    /\ pc' = IF todo' = {} THEN "reload" ELSE "write"
    /\ UNCHANGED <<newest, kv, held, sleep, hupErr, nginx, faults>>

\* The open fails, or the write after it: the disk is full.
WriteFails ==
    /\ Fault
    /\ pc = "write"
    /\ open # {} \/ todo \cap kv[held].files # {}
    /\ GiveUp
    /\ UNCHANGED <<newest, kv, hupErr, disk, nginx>>

\* "docker kill" reaches the container; NGINX has yet to act on the signal.
ReloadNginx ==
    /\ pc = "reload"
    /\ up
    /\ hup' = TRUE
    /\ hupErr' = FALSE
    /\ pc' = "schedule"
    /\ UNCHANGED <<newest, kv, held, todo, open, sleep, disk, up, loaded, faults>>

\* The container does not run, or docker fails: logged, and the loop goes on.
ReloadNginxFails ==
    /\ pc = "reload"
    /\ hupErr' = TRUE
    /\ pc' = "schedule"
    /\ UNCHANGED <<newest, kv, held, todo, open, sleep, disk, nginx, faults>>

\* Mutant: the sleep runs to the end of the certificate, not to its window.
NextRenewalAtExpiry(s) ==
    IF s.dated THEN s.life ELSE RecheckWait

\* nextRenewal: 24 h when there is no not_after, and main's 24 h when it cannot
\* be parsed; a time in the past counts as now.
NextRenewal(s) ==
    CASE ~s.dated -> RecheckWait
      [] s.dated /\ s.life > RenewBefore -> s.life - RenewBefore
      [] s.dated /\ s.life <= RenewBefore -> 0

\* "already in renewal window": the next pass begins without a sleep.
RenewImmediately ==
    /\ pc = "schedule"
    /\ NextRenewal(kv[held]) = 0
    /\ NewPass
    /\ UNCHANGED <<newest, kv, hupErr, disk, nginx, faults>>

RestUntilRenewal ==
    /\ pc = "schedule"
    /\ NextRenewal(kv[held]) > 0
    /\ pc' = "resting"
    /\ sleep' = NextRenewal(kv[held])
    /\ UNCHANGED <<newest, kv, held, todo, open, hupErr, disk, nginx, faults>>

Wake ==
    /\ pc \in {"resting", "retrying"}
    /\ sleep = 0
    /\ NewPass
    /\ UNCHANGED <<newest, kv, hupErr, disk, nginx, faults>>

-----------------------------------------------------------------------------
(* NGINX, which reads the directory when it starts and at each SIGHUP, and *)
(* refuses a set of files that does not belong together.                   *)

Load ==
    \E v \in Versions :
        /\ WholeAt(v)
        /\ loaded' = v

NginxStart ==
    /\ ~up
    /\ Load
    /\ up' = TRUE
    /\ UNCHANGED <<newest, kv, fetcher, disk, hup, faults>>

NginxAccept ==
    /\ hup
    /\ Load
    /\ hup' = FALSE
    /\ UNCHANGED <<newest, kv, fetcher, disk, up, faults>>

\* "nginx: [emerg] ...": the old workers go on with what they have.
NginxReject ==
    /\ hup
    /\ ~ \E v \in Versions : WholeAt(v)
    /\ hup' = FALSE
    /\ UNCHANGED <<newest, kv, fetcher, disk, up, loaded, faults>>

-----------------------------------------------------------------------------
(* Faults.                                                                 *)

Die ==
    /\ pc' = "down"
    /\ Forget
    /\ sleep' = 0
    /\ hupErr' = FALSE

\* The process dies at any point, also between a truncation and its write.
Crash ==
    /\ Fault
    /\ pc # "down"
    /\ Die
    /\ UNCHANGED <<newest, kv, disk, nginx>>

NginxStop ==
    /\ Fault
    /\ up
    /\ up' = FALSE
    /\ hup' = FALSE
    /\ UNCHANGED <<newest, kv, fetcher, disk, loaded>>

\* The directory is a tmpfs: it comes back empty.
Reboot ==
    /\ Fault
    /\ Die
    /\ disk' = [f \in Files |-> None]
    /\ up' = FALSE
    /\ hup' = FALSE
    /\ UNCHANGED <<newest, kv, loaded>>

-----------------------------------------------------------------------------
\* What CertMgr may write: all fields, or all but one.
Pushable ==
    [files : {Files} \cup {Files \ {f} : f \in Files},
     dated : {TRUE},
     life  : Lifetimes]
    \cup {[files |-> Files, dated |-> FALSE, life |-> 0]}

Next ==
    \/ \E s \in Pushable : Push(s)
    \/ Tick
    \/ Start
    \/ AppRoleLogin \/ AppRoleLoginFails
    \/ FetchSecret \/ FetchSecretFails
    \/ \E f \in Files : FieldMissing(f) \/ OpenFile(f) \/ FillFile(f)
    \/ WriteFails
    \/ ReloadNginx \/ ReloadNginxFails
    \/ RenewImmediately \/ RestUntilRenewal \/ Wake
    \/ NginxStart \/ NginxAccept \/ NginxReject
    \/ Crash \/ NginxStop \/ Reboot

Spec == Init /\ [][Next]_vars

\* The process runs, the clock advances and a stopped process is started again
\* (weak fairness). Vault and docker may fail again and again, but not for ever,
\* and a pass that rewrites the files does not meet each attempt of NGINX to
\* read them (strong fairness).
Fairness ==
    /\ WF_vars(Tick)
    /\ WF_vars(Start \/ RenewImmediately \/ RestUntilRenewal \/ Wake)
    /\ WF_vars(\E f \in Files : FieldMissing(f) \/ OpenFile(f) \/ FillFile(f))
    /\ SF_vars(AppRoleLogin)
    /\ SF_vars(FetchSecret)
    /\ SF_vars(ReloadNginx)
    /\ SF_vars(NginxStart)
    /\ SF_vars(NginxAccept)

FairSpec == Spec /\ Fairness

-----------------------------------------------------------------------------
(* Properties.                                                             *)

\* When NGINX is signalled, and as long as the process then sleeps, all files
\* in the directory are of the one version this pass fetched, and that version
\* has all its fields: no half-written or mixed set is ever signalled or left
\* for a month (writeFiles must return nil before reloadNginx, main 276-288).
SignalledWhole ==
    pc \in {"reload", "schedule", "resting"} =>
        held # None /\ WholeAt(held) /\ kv[held].files = Files

\* A process that rests wakes up with at least RenewBefore of its certificate's
\* life left (nextRenewal 216-224), whatever the clock did meanwhile.
RestLeavesTimeToRenew ==
    pc = "resting" /\ sleep > 0 /\ kv[held].dated =>
        sleep + RenewBefore <= kv[held].life

\* While the process rests, a running NGINX serves the version that was
\* fetched, or has a signal pending that will make it do so, unless this very
\* pass reported that the signal failed: no crash, restart or early signal
\* leaves NGINX behind silently.
RestingServesCurrent ==
    pc = "resting" /\ up => loaded = held \/ hup \/ hupErr

\* NGINX never goes back to an earlier version than one it served, also across
\* its own restarts, crashes of the process in mid-write and reboots.
NoRollback == [][loaded' >= loaded]_vars

\* The fetcher, NGINX and their faults deliver as CertDelivery promises.
Delivery == INSTANCE CertDelivery WITH
    usable  <- {v \in 1..newest : kv[v].files = Files},
    serving <- up,
    served  <- loaded

RefinesDelivery == Delivery!DeliverySpec

\* A complete version is in the end served, unless a newer one is written.
Delivered ==
    \A v \in Versions :
        (newest = v /\ kv[v].files = Files) ~> (newest > v \/ (up /\ loaded = v))

\* "already in renewal window -- renewing immediately" (main 296-299): a pass
\* that is started for that reason finds something newer to renew to.
ImmediateRenewalRenews ==
    [][pc = "schedule" /\ pc' = "login" => newest # held]_vars
=============================================================================
