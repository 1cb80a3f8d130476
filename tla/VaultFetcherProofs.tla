------------------------- MODULE VaultFetcherProofs -------------------------
(***************************************************************************)
(* Proofs of VaultFetcher's safety properties for every set of files, any  *)
(* number of versions and faults, and any lengths of the sleeps.           *)
(***************************************************************************)
EXTENDS VaultFetcher, TLAPS

\* What is in memory, on disk and in NGINX has been published.
Published ==
    /\ held <= newest
    /\ loaded <= newest
    /\ \A f \in Files : disk[f] \in Versions =>
           disk[f] <= newest /\ f \in kv[disk[f]].files

\* NGINX is never ahead of a file, nor a file ahead of the version being written.
Advance ==
    /\ \A f \in Files : disk[f] \in Versions => loaded <= disk[f]
    /\ held # None => loaded <= held /\ \A f \in Files : disk[f] <= held

\* A pass that writes has a version, and has replaced the files not in todo.
Writing ==
    /\ pc = "write" =>
        /\ held # None
        /\ open \subseteq kv[held].files
        /\ \A f \in Files \ todo : disk[f] = held
    /\ pc # "write" => open = {}

\* Once the reload was tried, NGINX is current, signalled, or reported.
Signalled ==
    /\ hup => up
    /\ pc \in {"schedule", "resting"} /\ up => loaded = held \/ hup \/ hupErr

\* The invariant that every step preserves.
IInv ==
    /\ TypeOK
    /\ Published
    /\ Advance
    /\ Writing
    /\ Signalled
    /\ SignalledWhole
    /\ RestLeavesTimeToRenew

-----------------------------------------------------------------------------
\* A version whose files are all on disk has all its fields.
LEMMA WholeIsComplete ==
    ASSUME TypeOK, Published, NEW v \in Versions, WholeAt(v)
    PROVE  kv[v].files = Files /\ v <= newest
<1>1. kv[v].files \subseteq Files
  BY DEF TypeOK, Secret
<1>2. \A f \in Files : f \in kv[v].files /\ v <= newest
  BY DEF Published, WholeAt
<1>. QED
  BY <1>1, <1>2, FilesAssumption

\* Less stays in Nat and takes at most one unit away.
LEMMA LessType ==
    ASSUME NEW t \in Nat
    PROVE  Less(t) \in Nat /\ Less(t) <= t /\ t <= Less(t) + 1
BY DEF Less

\* Advancing the clock changes nothing of a version but its remaining life.
LEMMA TickKeepsFields ==
    ASSUME TypeOK, Tick
    PROVE  /\ kv' \in [Versions -> Secret]
           /\ \A v \in Versions :
                /\ kv'[v].files = kv[v].files
                /\ kv'[v].dated = kv[v].dated
                /\ kv'[v].life = Less(kv[v].life)
BY LessType DEF TypeOK, Tick, Secret

\* The time to the next pass leaves RenewBefore of a dated certificate's life.
LEMMA NextRenewalInTime ==
    ASSUME NEW s \in Secret, NextRenewal(s) > 0
    PROVE  /\ NextRenewal(s) \in Nat
           /\ s.dated => NextRenewal(s) + RenewBefore <= s.life
<1>1. CASE ~s.dated
  BY <1>1, TimesAssumption DEF NextRenewal, Secret
<1>2. CASE s.dated /\ s.life > RenewBefore
  BY <1>2, TimesAssumption DEF NextRenewal, Secret
<1>3. CASE s.dated /\ s.life <= RenewBefore
  BY <1>3, TimesAssumption DEF NextRenewal, Secret
<1>. QED
  BY <1>1, <1>2, <1>3, TimesAssumption DEF Secret

\* The invariant holds initially.
LEMMA InvInit == Init => IInv
<1> SUFFICES ASSUME Init PROVE IInv
  OBVIOUS
<1>1. NoSecret \in Secret
  BY DEF NoSecret, Secret
<1>2. TypeOK
  <2>1. kv \in [Versions -> Secret]
    BY <1>1 DEF Init
  <2>2. disk \in [Files -> {Torn, None} \cup Versions]
    BY DEF Init
  <2>3. todo \subseteq Files /\ open \subseteq todo
    BY DEF Init
  <2>4. hupErr \in BOOLEAN /\ up \in BOOLEAN /\ hup \in BOOLEAN
    BY DEF Init
  <2>5. /\ newest \in 0..MaxVersion /\ held \in 0..MaxVersion
        /\ loaded \in 0..MaxVersion /\ faults \in 0..MaxFaults
        /\ sleep \in Nat /\ pc \in Places
    BY BoundsAssumption DEF Init, Places, None
  <2>. QED
    BY <2>1, <2>2, <2>3, <2>4, <2>5 DEF TypeOK
<1>3. /\ held = 0 /\ loaded = 0 /\ newest = 0 /\ pc = "down" /\ hup = FALSE
      /\ open = {}
      /\ \A f \in Files : disk[f] = 0
  BY DEF Init, None
<1>4. 0 \notin Versions
  BY DEF Versions
<1>. QED
  BY <1>2, <1>3, <1>4
     DEF IInv, Published, Advance, Writing, Signalled, SignalledWhole,
         RestLeavesTimeToRenew, None

-----------------------------------------------------------------------------
\* A step that ends the pass in any way and touches neither Vault, the directory
\* nor NGINX preserves the invariant.
LEMMA PassEnds ==
    ASSUME IInv, Forget, pc' \in {"down", "login", "retrying"}, sleep' \in Nat,
           hupErr' \in BOOLEAN, faults' \in 0..MaxFaults,
           UNCHANGED <<newest, kv, disk, nginx>>
    PROVE  IInv'
<1>1. TypeOK'
  <2>1. todo' \subseteq Files /\ open' \subseteq todo'
    BY DEF Forget
  <2>2. held' \in 0..MaxVersion /\ pc' \in Places
    BY BoundsAssumption DEF Forget, None, Places
  <2>. QED
    BY <2>1, <2>2 DEF IInv, TypeOK, nginx
<1>2. Published' /\ Advance'
  BY DEF IInv, TypeOK, Published, Advance, Forget, nginx, None
<1>3. Writing' /\ SignalledWhole'
  BY DEF Writing, SignalledWhole, Forget
<1>4. Signalled' /\ RestLeavesTimeToRenew'
  BY DEF IInv, Signalled, RestLeavesTimeToRenew, nginx
<1>. QED
  BY <1>1, <1>2, <1>3, <1>4 DEF IInv

\* A step of Start, a failed login or fetch, a missing field, a failed write, an
\* immediate renewal or a wake-up is such a step; so is a crash.
LEMMA PassEndingSteps ==
    ASSUME IInv,
           \/ Start \/ AppRoleLoginFails \/ FetchSecretFails \/ WriteFails
           \/ \E f \in Files : FieldMissing(f)
           \/ RenewImmediately \/ Wake \/ Crash
    PROVE  IInv'
<1>1. UNCHANGED <<newest, kv, disk, nginx>>
  BY DEF Start, AppRoleLoginFails, FetchSecretFails, WriteFails, FieldMissing,
         RenewImmediately, Wake, Crash
<1>2. Forget /\ pc' \in {"down", "login", "retrying"} /\ sleep' \in Nat
  BY TimesAssumption
     DEF Start, AppRoleLoginFails, FetchSecretFails, WriteFails, FieldMissing,
         RenewImmediately, Wake, Crash, NewPass, GiveUp, Die
<1>3. hupErr' \in BOOLEAN
  BY DEF IInv, TypeOK, Start, AppRoleLoginFails, FetchSecretFails, WriteFails,
         FieldMissing, RenewImmediately, Wake, Crash, Die
<1>4. faults' \in 0..MaxFaults
  BY BoundsAssumption
     DEF IInv, TypeOK, Start, AppRoleLoginFails, FetchSecretFails, WriteFails,
         FieldMissing, RenewImmediately, Wake, Crash, Fault
<1>. QED
  BY <1>1, <1>2, <1>3, <1>4, PassEnds

\* The program's own step from login to fetch.
LEMMA AppRoleLoginStep ==
    ASSUME IInv, AppRoleLogin
    PROVE  IInv'
<1>1. TypeOK'
  BY DEF IInv, TypeOK, AppRoleLogin, Places, nginx
<1>2. Published' /\ Advance' /\ Writing'
  BY DEF IInv, Published, Advance, Writing, AppRoleLogin, nginx
<1>3. Signalled' /\ SignalledWhole' /\ RestLeavesTimeToRenew'
  BY DEF IInv, Signalled, SignalledWhole, RestLeavesTimeToRenew, AppRoleLogin, nginx
<1>. QED
  BY <1>1, <1>2, <1>3 DEF IInv

\* The version fetched is at least any on disk or in NGINX; nothing is written yet.
LEMMA FetchSecretStep ==
    ASSUME IInv, FetchSecret
    PROVE  IInv'
<1>1. TypeOK'
  <2>1. todo' \subseteq Files /\ open' \subseteq todo'
    BY DEF IInv, Writing, FetchSecret
  <2>2. held' \in 0..MaxVersion /\ pc' \in Places
    BY DEF IInv, TypeOK, FetchSecret, Places
  <2>. QED
    BY <2>1, <2>2 DEF IInv, TypeOK, FetchSecret, nginx
<1>2. \A f \in Files : disk[f] <= newest
  <2> SUFFICES ASSUME NEW f \in Files PROVE disk[f] <= newest
    OBVIOUS
  <2>1. CASE disk[f] \in Versions
    BY <2>1 DEF IInv, Published
  <2>2. CASE disk[f] \in {Torn, None}
    BY <2>2 DEF IInv, TypeOK, Torn, None
  <2>. QED
    BY <2>1, <2>2 DEF IInv, TypeOK
<1>3. Published' /\ Advance'
  BY <1>2 DEF IInv, TypeOK, Published, Advance, FetchSecret, nginx
<1>4. Writing' /\ SignalledWhole'
  <2>1. Files \ todo' = {} /\ open' = {}
    BY DEF IInv, Writing, FetchSecret
  <2>. QED
    BY <2>1 DEF Writing, SignalledWhole, FetchSecret
<1>5. Signalled' /\ RestLeavesTimeToRenew'
  BY DEF IInv, Signalled, RestLeavesTimeToRenew, FetchSecret, nginx
<1>. QED
  BY <1>1, <1>3, <1>4, <1>5 DEF IInv

\* Truncating a file takes no version anywhere.
LEMMA OpenFileStep ==
    ASSUME IInv, NEW f \in Files, OpenFile(f)
    PROVE  IInv'
<1>1. TypeOK'
  <2>1. disk' \in [Files -> {Torn, None} \cup Versions]
    BY DEF IInv, TypeOK, OpenFile
  <2>2. todo' \subseteq Files /\ open' \subseteq todo'
    BY DEF IInv, TypeOK, OpenFile
  <2>. QED
    BY <2>1, <2>2 DEF IInv, TypeOK, OpenFile, nginx
<1>2. \A g \in Files : disk'[g] = disk[g] \/ disk'[g] = Torn
  BY DEF IInv, TypeOK, OpenFile
<1>3. Torn \notin Versions /\ (held # None => Torn <= held)
  BY DEF IInv, TypeOK, Torn, Versions
<1>4. Published' /\ Advance'
  BY <1>2, <1>3 DEF IInv, Published, Advance, OpenFile, nginx
<1>5. Writing'
  BY DEF IInv, TypeOK, Writing, OpenFile
<1>6. Signalled' /\ SignalledWhole' /\ RestLeavesTimeToRenew'
  BY DEF IInv, Signalled, SignalledWhole, RestLeavesTimeToRenew, OpenFile, nginx
<1>. QED
  BY <1>1, <1>4, <1>5, <1>6 DEF IInv

\* The last file filled completes the version that was fetched.
LEMMA FillFileStep ==
    ASSUME IInv, NEW f \in Files, FillFile(f)
    PROVE  IInv'
<1>0. held \in Versions /\ f \in kv[held].files /\ f \in todo
  BY DEF IInv, TypeOK, Writing, FillFile, Versions, None
<1>1. TypeOK'
  <2>1. disk' \in [Files -> {Torn, None} \cup Versions]
    BY <1>0 DEF IInv, TypeOK, FillFile
  <2>2. todo' \subseteq Files /\ open' \subseteq todo' /\ pc' \in Places
    BY DEF IInv, TypeOK, FillFile, Places
  <2>. QED
    BY <2>1, <2>2 DEF IInv, TypeOK, FillFile, nginx
<1>2. \A g \in Files : disk'[g] = IF g = f THEN held ELSE disk[g]
  BY DEF IInv, TypeOK, FillFile
<1>3. Published'
  BY <1>0, <1>2 DEF IInv, TypeOK, Published, FillFile, nginx
<1>4. Advance'
  <2>1. loaded <= held /\ \A g \in Files : disk[g] <= held
    BY <1>0 DEF IInv, Advance, Versions, None
  <2>2. held <= held
    BY <1>0 DEF Versions
  <2>3. \A g \in Files : /\ disk'[g] \in Versions => loaded <= disk'[g]
                        /\ disk'[g] <= held
    BY <1>2, <2>1, <2>2 DEF IInv, Advance
  <2>. QED
    BY <2>1, <2>3 DEF Advance, FillFile, nginx
<1>5. \A g \in Files \ todo' : disk'[g] = held
  BY <1>2 DEF IInv, Writing, FillFile
<1>6. Writing'
  BY <1>0, <1>5 DEF Writing, FillFile, Versions, None
<1>7. SignalledWhole'
  <2>1. CASE todo' = {}
    <3>1. \A g \in Files : disk'[g] = held' /\ held' = held /\ kv' = kv
      BY <1>5, <2>1 DEF FillFile
    <3>2. WholeAt(held)'
      BY <3>1 DEF WholeAt
    <3>3. kv'[held].files = Files
      <4>1. \A g \in Files : g \in kv'[held].files
        BY <1>0, <1>3, <3>1 DEF Published
      <4>2. kv'[held].files \subseteq Files
        BY <1>0, <1>1 DEF TypeOK, Secret
      <4>. QED
        BY <4>1, <4>2
    <3>. QED
      BY <1>0, <3>1, <3>2, <3>3 DEF SignalledWhole, Versions, None
  <2>2. CASE todo' # {}
    BY <2>2 DEF SignalledWhole, FillFile
  <2>. QED
    BY <2>1, <2>2
<1>8. Signalled' /\ RestLeavesTimeToRenew'
  BY DEF IInv, Signalled, RestLeavesTimeToRenew, FillFile, nginx
<1>. QED
  BY <1>1, <1>3, <1>4, <1>6, <1>7, <1>8 DEF IInv

\* The signal is delivered, or reported as failed.
LEMMA ReloadStep ==
    ASSUME IInv, ReloadNginx \/ ReloadNginxFails
    PROVE  IInv'
<1>1. TypeOK'
  BY DEF IInv, TypeOK, ReloadNginx, ReloadNginxFails, Places, nginx
<1>2. Published' /\ Advance' /\ Writing'
  BY DEF IInv, Published, Advance, Writing, ReloadNginx, ReloadNginxFails, nginx
<1>3. SignalledWhole'
  BY DEF IInv, SignalledWhole, WholeAt, ReloadNginx, ReloadNginxFails
<1>4. Signalled' /\ RestLeavesTimeToRenew'
  BY DEF IInv, Signalled, RestLeavesTimeToRenew, ReloadNginx, ReloadNginxFails, nginx
<1>. QED
  BY <1>1, <1>2, <1>3, <1>4 DEF IInv

\* The process sleeps no longer than the certificate allows.
LEMMA RestStep ==
    ASSUME IInv, RestUntilRenewal
    PROVE  IInv'
<1>1. held \in Versions
  BY DEF IInv, TypeOK, SignalledWhole, RestUntilRenewal, Versions, None
<1>2. kv[held] \in Secret
  BY <1>1 DEF IInv, TypeOK
<1>3. /\ sleep' \in Nat
      /\ kv[held].dated => sleep' + RenewBefore <= kv[held].life
  BY <1>2, NextRenewalInTime DEF RestUntilRenewal
<1>4. TypeOK'
  BY <1>3 DEF IInv, TypeOK, RestUntilRenewal, Places, nginx
<1>5. Published' /\ Advance' /\ Writing'
  BY DEF IInv, Published, Advance, Writing, RestUntilRenewal, nginx
<1>6. SignalledWhole'
  BY DEF IInv, SignalledWhole, WholeAt, RestUntilRenewal
<1>7. Signalled' /\ RestLeavesTimeToRenew'
  BY <1>3 DEF IInv, Signalled, RestLeavesTimeToRenew, RestUntilRenewal, nginx
<1>. QED
  BY <1>4, <1>5, <1>6, <1>7 DEF IInv

\* The clock lowers the sleep and the lives together.
LEMMA TickStep ==
    ASSUME IInv, Tick
    PROVE  IInv'
<1>1. /\ kv' \in [Versions -> Secret]
      /\ \A v \in Versions : /\ kv'[v].files = kv[v].files
                             /\ kv'[v].dated = kv[v].dated
                             /\ kv'[v].life = Less(kv[v].life)
  BY TickKeepsFields DEF IInv
<1>2. sleep' \in Nat
  BY LessType DEF IInv, TypeOK, Tick
<1>3. TypeOK'
  BY <1>1, <1>2 DEF IInv, TypeOK, Tick, nginx
<1>4. Published'
  BY <1>1 DEF IInv, Published, Tick, nginx
<1>5. held # None => held \in Versions
  BY DEF IInv, TypeOK, Versions, None
<1>6. Advance'
  BY DEF IInv, Advance, Tick, nginx
<1>7. Writing'
  BY <1>1, <1>5 DEF IInv, Writing, Tick
<1>8. SignalledWhole'
  BY <1>1, <1>5 DEF IInv, SignalledWhole, WholeAt, Tick
<1>9. Signalled'
  BY DEF IInv, Signalled, Tick, nginx
<1>10. RestLeavesTimeToRenew'
  <2> SUFFICES ASSUME pc = "resting", sleep' > 0, kv'[held].dated
               PROVE  sleep' + RenewBefore <= kv'[held].life
    BY DEF RestLeavesTimeToRenew, Tick
  <2>1. held \in Versions
    BY <1>5 DEF IInv, SignalledWhole
  <2>2. sleep > 0 /\ sleep' = sleep - 1
    BY DEF Tick, Less, IInv, TypeOK
  <2>3. sleep + RenewBefore <= kv[held].life
    BY <1>1, <2>1, <2>2 DEF IInv, RestLeavesTimeToRenew
  <2>4. kv[held].life \in Nat
    BY <2>1 DEF IInv, TypeOK, Secret
  <2>. QED
    BY <1>1, <2>1, <2>2, <2>3, <2>4, TimesAssumption DEF Less, IInv, TypeOK
<1>. QED
  BY <1>3, <1>4, <1>6, <1>7, <1>8, <1>9, <1>10 DEF IInv

-----------------------------------------------------------------------------
\* Whatever CertMgr writes is a secret.
LEMMA PushableIsSecret == Pushable \subseteq Secret
<1>1. [files |-> Files, dated |-> FALSE, life |-> 0] \in Secret
  BY DEF Secret
<1>. QED
  BY <1>1, TimesAssumption DEF Pushable, Secret

\* A new version changes none of those that are in memory, on disk or served.
LEMMA PushStep ==
    ASSUME IInv, NEW s \in Pushable, Push(s)
    PROVE  IInv'
<1>1. /\ kv' \in [Versions -> Secret]
      /\ \A v \in Versions : v <= newest => kv'[v] = kv[v]
  <2>1. s \in Secret
    BY PushableIsSecret
  <2>2. kv \in [Versions -> Secret] /\ newest \in Nat
    BY DEF IInv, TypeOK
  <2>3. kv' = [kv EXCEPT ![newest + 1] = s]
    BY DEF Push
  <2>4. kv' \in [Versions -> Secret]
    BY <2>1, <2>2, <2>3
  <2>5. \A v \in Versions : v # newest + 1 => kv'[v] = kv[v]
    BY <2>2, <2>3
  <2>6. \A v \in Versions : v <= newest => v # newest + 1
    BY <2>2 DEF Versions
  <2>. QED
    BY <2>4, <2>5, <2>6
<1>2. TypeOK'
  BY <1>1, BoundsAssumption DEF IInv, TypeOK, Push, fetcher, nginx
<1>3. Published'
  <2>1. held' <= newest' /\ loaded' <= newest'
    BY DEF IInv, TypeOK, Published, Push, fetcher, nginx
  <2>2. \A f \in Files : disk[f] \in Versions =>
            disk[f] <= newest' /\ f \in kv'[disk[f]].files
    BY <1>1 DEF IInv, TypeOK, Published, Push, Versions
  <2>. QED
    BY <2>1, <2>2 DEF Published, Push
<1>4. held # None => held \in Versions /\ held <= newest
  BY DEF IInv, TypeOK, Published, Versions, None
<1>5. Advance'
  BY DEF IInv, Advance, Push, fetcher, nginx
<1>6. Writing' /\ SignalledWhole'
  BY <1>1, <1>4 DEF IInv, Writing, SignalledWhole, WholeAt, Push, fetcher
<1>7. Signalled'
  BY DEF IInv, Signalled, Push, fetcher, nginx
<1>8. RestLeavesTimeToRenew'
  BY <1>1, <1>4 DEF IInv, SignalledWhole, RestLeavesTimeToRenew, Push, fetcher
<1>. QED
  BY <1>2, <1>3, <1>5, <1>6, <1>7, <1>8 DEF IInv

\* NGINX loads what is on disk, which is no older than what it served, and is the
\* version fetched if the process has gone past its writes.
LEMMA LoadAdvances ==
    ASSUME IInv, Load
    PROVE  /\ loaded' \in Versions
           /\ WholeAt(loaded')
           /\ loaded <= loaded' /\ loaded' <= newest
           /\ held # None => loaded' <= held
           /\ pc \in {"reload", "schedule", "resting"} => loaded' = held
<1>1. PICK v \in Versions : WholeAt(v) /\ loaded' = v
  BY DEF Load
<1>2. PICK f \in Files : TRUE
  BY FilesAssumption
<1>3. disk[f] = v
  BY <1>1, <1>2 DEF WholeAt
<1>4. loaded <= v /\ v <= newest /\ (held # None => v <= held)
  BY <1>3 DEF IInv, Published, Advance
<1>5. pc \in {"reload", "schedule", "resting"} => v = held
  BY <1>3 DEF IInv, SignalledWhole, WholeAt
<1>. QED
  BY <1>1, <1>4, <1>5

LEMMA NginxLoadStep ==
    ASSUME IInv, NginxStart \/ NginxAccept
    PROVE  IInv'
<1>1. Load /\ UNCHANGED <<newest, kv, fetcher, disk, faults>>
  BY DEF NginxStart, NginxAccept
<1>2. UNCHANGED <<pc, held, todo, open, sleep, hupErr>>
  BY <1>1 DEF fetcher
<1>3. up' /\ up' \in BOOLEAN /\ hup' \in BOOLEAN
  BY DEF IInv, TypeOK, Signalled, NginxStart, NginxAccept
<1>4. TypeOK'
  BY <1>1, <1>2, <1>3, LoadAdvances DEF IInv, TypeOK, Versions
<1>5. Published'
  BY <1>1, <1>2, LoadAdvances DEF IInv, Published
<1>6. Advance'
  <2>1. \A f \in Files : disk'[f] = loaded'
    BY <1>1, LoadAdvances DEF WholeAt
  <2>2. loaded' <= loaded'
    BY <1>1, LoadAdvances DEF Versions
  <2>. QED
    BY <1>1, <1>2, <2>1, <2>2, LoadAdvances DEF Advance
<1>7. Writing' /\ SignalledWhole' /\ RestLeavesTimeToRenew'
  BY <1>1, <1>2 DEF IInv, Writing, SignalledWhole, WholeAt, RestLeavesTimeToRenew
<1>8. Signalled'
  BY <1>1, <1>2, <1>3, LoadAdvances DEF Signalled
<1>. QED
  BY <1>4, <1>5, <1>6, <1>7, <1>8 DEF IInv

\* A rejected signal is not one of a pass that wrote all its files.
LEMMA NginxRejectStep ==
    ASSUME IInv, NginxReject
    PROVE  IInv'
<1>1. UNCHANGED <<newest, kv, pc, held, todo, open, sleep, hupErr, disk, up, loaded, faults>>
  BY DEF NginxReject, fetcher
<1>2. hup' = FALSE
  BY DEF NginxReject
<1>3. pc \notin {"schedule", "resting"}
  BY DEF IInv, TypeOK, SignalledWhole, NginxReject, Versions, None
<1>4. TypeOK'
  BY <1>1, <1>2 DEF IInv, TypeOK
<1>5. Published' /\ Advance' /\ Writing'
  BY <1>1 DEF IInv, Published, Advance, Writing
<1>6. SignalledWhole' /\ RestLeavesTimeToRenew'
  BY <1>1 DEF IInv, SignalledWhole, WholeAt, RestLeavesTimeToRenew
<1>7. Signalled'
  BY <1>1, <1>2, <1>3 DEF Signalled
<1>. QED
  BY <1>4, <1>5, <1>6, <1>7 DEF IInv

LEMMA NginxStopStep ==
    ASSUME IInv, NginxStop
    PROVE  IInv'
<1>1. UNCHANGED <<newest, kv, pc, held, todo, open, sleep, hupErr, disk, loaded>>
  BY DEF NginxStop, fetcher
<1>2. hup' = FALSE /\ up' = FALSE /\ faults' \in 0..MaxFaults
  BY BoundsAssumption DEF IInv, TypeOK, NginxStop, Fault
<1>3. TypeOK'
  BY <1>1, <1>2 DEF IInv, TypeOK
<1>4. Published' /\ Advance' /\ Writing'
  BY <1>1 DEF IInv, Published, Advance, Writing
<1>5. SignalledWhole' /\ RestLeavesTimeToRenew' /\ Signalled'
  BY <1>1, <1>2 DEF IInv, SignalledWhole, WholeAt, RestLeavesTimeToRenew, Signalled
<1>. QED
  BY <1>3, <1>4, <1>5 DEF IInv

\* A reboot leaves no version in memory or on disk.
LEMMA RebootStep ==
    ASSUME IInv, Reboot
    PROVE  IInv'
<1>1. /\ pc' = "down" /\ held' = None /\ todo' = {} /\ open' = {} /\ sleep' = 0
      /\ hupErr' = FALSE /\ up' = FALSE /\ hup' = FALSE
      /\ UNCHANGED <<newest, kv, loaded>>
  BY DEF Reboot, Die, Forget
<1>2. /\ disk' \in [Files -> {Torn, None} \cup Versions]
      /\ \A f \in Files : disk'[f] \notin Versions
  BY DEF Reboot, None, Versions
<1>3. TypeOK'
  <2>1. todo' \subseteq Files /\ open' \subseteq todo'
    BY <1>1
  <2>2. faults' \in 0..MaxFaults /\ held' \in 0..MaxVersion /\ pc' \in Places
    BY <1>1, BoundsAssumption DEF IInv, TypeOK, Reboot, Fault, None, Places
  <2>. QED
    BY <1>1, <1>2, <2>1, <2>2 DEF IInv, TypeOK
<1>4. Published'
  BY <1>1, <1>2 DEF IInv, TypeOK, Published, None
<1>5. Advance' /\ Writing'
  BY <1>1, <1>2 DEF Advance, Writing
<1>6. SignalledWhole' /\ RestLeavesTimeToRenew' /\ Signalled'
  BY <1>1 DEF SignalledWhole, RestLeavesTimeToRenew, Signalled
<1>. QED
  BY <1>3, <1>4, <1>5, <1>6 DEF IInv

LEMMA StutterStep ==
    ASSUME IInv, UNCHANGED vars
    PROVE  IInv'
<1>1. TypeOK'
  BY DEF IInv, TypeOK, vars, fetcher, nginx
<1>2. Published' /\ Advance' /\ Writing'
  BY DEF IInv, Published, Advance, Writing, vars, fetcher, nginx
<1>3. SignalledWhole' /\ RestLeavesTimeToRenew' /\ Signalled'
  BY DEF IInv, SignalledWhole, WholeAt, RestLeavesTimeToRenew, Signalled, vars,
         fetcher, nginx
<1>. QED
  BY <1>1, <1>2, <1>3 DEF IInv

-----------------------------------------------------------------------------
\* Every step preserves the invariant.
LEMMA InvNext == IInv /\ [Next]_vars => IInv'
<1> SUFFICES ASSUME IInv, [Next]_vars PROVE IInv'
  OBVIOUS
<1>1. ASSUME NEW s \in Pushable, Push(s) PROVE IInv'
  BY <1>1, PushStep
<1>2. ASSUME NEW f \in Files, OpenFile(f) \/ FillFile(f) PROVE IInv'
  BY <1>2, OpenFileStep, FillFileStep
<1>3. CASE \/ Start \/ AppRoleLoginFails \/ FetchSecretFails \/ WriteFails
           \/ \E f \in Files : FieldMissing(f)
           \/ RenewImmediately \/ Wake \/ Crash
  BY <1>3, PassEndingSteps
<1>4. CASE AppRoleLogin \/ FetchSecret \/ RestUntilRenewal \/ Tick
  BY <1>4, AppRoleLoginStep, FetchSecretStep, RestStep, TickStep
<1>5. CASE ReloadNginx \/ ReloadNginxFails
  BY <1>5, ReloadStep
<1>6. CASE NginxStart \/ NginxAccept \/ NginxReject \/ NginxStop \/ Reboot
  BY <1>6, NginxLoadStep, NginxRejectStep, NginxStopStep, RebootStep
<1>7. CASE UNCHANGED vars
  BY <1>7, StutterStep
<1>. QED
  BY <1>1, <1>2, <1>3, <1>4, <1>5, <1>6, <1>7 DEF Next

LEMMA Invariance == Spec => []IInv
BY InvInit, InvNext, PTL DEF Spec

\* Each variable has its type: no version beyond the published ones' bound, no
\* file left open outside a write.
THEOREM TypeCorrect == Spec => []TypeOK
<1>1. IInv => TypeOK
  BY DEF IInv
<1>. QED
  BY Invariance, <1>1, PTL

\* NGINX is signalled, and the process sleeps till renewal, only over a complete
\* set of files of the version this pass fetched (main 276-302).
THEOREM SignalsWholeSets == Spec => []SignalledWhole
<1>1. IInv => SignalledWhole
  BY DEF IInv
<1>. QED
  BY Invariance, <1>1, PTL

\* The sleep ends while RenewBefore of the certificate is left (nextRenewal).
THEOREM WakesInTime == Spec => []RestLeavesTimeToRenew
<1>1. IInv => RestLeavesTimeToRenew
  BY DEF IInv
<1>. QED
  BY Invariance, <1>1, PTL

\* A resting process leaves NGINX current, signalled, or reported as missed.
THEOREM RestsCurrent == Spec => []RestingServesCurrent
<1>1. IInv => RestingServesCurrent
  BY DEF IInv, Signalled, RestingServesCurrent
<1>. QED
  BY Invariance, <1>1, PTL

\* No step makes NGINX serve an earlier version than one it served before.
THEOREM NeverRollsBack == Spec => NoRollback
<1>1. ASSUME IInv, [Next]_vars
      PROVE  loaded' >= loaded
  <2>0. loaded \in Nat
    BY <1>1 DEF IInv, TypeOK
  <2>1. CASE NginxStart \/ NginxAccept
    <3>1. Load
      BY <2>1 DEF NginxStart, NginxAccept
    <3>. QED
      BY <1>1, <2>0, <3>1, LoadAdvances DEF Versions
  <2>2. CASE ~(NginxStart \/ NginxAccept)
    <3>1. loaded' = loaded
      BY <1>1, <2>2
         DEF Next, Push, Tick, Start, AppRoleLogin, AppRoleLoginFails, FetchSecret,
             FetchSecretFails, FieldMissing, OpenFile, FillFile, WriteFails,
             ReloadNginx, ReloadNginxFails, RenewImmediately, RestUntilRenewal, Wake,
             NginxReject, Crash, NginxStop, Reboot, vars, nginx
    <3>. QED
      BY <2>0, <3>1
  <2>. QED
    BY <2>1, <2>2
<1>2. IInv /\ [Next]_vars => [loaded' >= loaded]_vars
  BY <1>1
<1>. QED
  BY Invariance, <1>2, PTL DEF Spec, NoRollback

-----------------------------------------------------------------------------
\* What the refinement reads off a state: the complete versions.
Complete == {v \in 1..newest : kv[v].files = Files}

\* A step that loads or publishes nothing and does not stop NGINX stutters.
LEMMA QuietStep ==
    ASSUME IInv, UNCHANGED <<newest, kv, up, loaded>>
    PROVE  UNCHANGED <<newest, Complete, up, loaded>>
BY DEF Complete

\* The clock leaves the set of complete versions alone.
LEMMA TickQuiet ==
    ASSUME IInv, Tick
    PROVE  UNCHANGED <<newest, Complete, up, loaded>>
<1>1. \A v \in 1..newest : v \in Versions
  BY BoundsAssumption DEF IInv, TypeOK, Versions
<1>2. \A v \in Versions : kv'[v].files = kv[v].files
  BY TickKeepsFields DEF IInv
<1>3. newest' = newest /\ up' = up /\ loaded' = loaded
  BY DEF Tick, nginx
<1>. QED
  BY <1>1, <1>2, <1>3 DEF Complete

\* A push publishes: the new version joins the complete ones or does not.
LEMMA PushPublishes ==
    ASSUME IInv, NEW s \in Pushable, Push(s)
    PROVE  /\ newest < MaxVersion /\ newest' = newest + 1
           /\ Complete' \in {Complete, Complete \cup {newest'}}
           /\ UNCHANGED <<up, loaded>>
<1>1. newest \in Nat /\ newest < MaxVersion /\ newest' = newest + 1
  BY DEF IInv, TypeOK, Push
<1>2. \A v \in 1..newest : kv'[v] = kv[v]
  <2>1. \A v \in 1..newest : v \in Versions /\ v # newest + 1
    BY <1>1, BoundsAssumption DEF Versions
  <2>. QED
    BY <2>1 DEF IInv, TypeOK, Push
<1>3. 1..newest' = 1..newest \cup {newest'}
  BY <1>1
<1>4. \A v : v \in Complete' <=>
            v \in Complete \/ (v = newest' /\ kv'[newest'].files = Files)
  <2>1. \A v : v \in Complete' <=> v \in 1..newest' /\ kv'[v].files = Files
    BY DEF Complete
  <2>2. \A v : v \in Complete <=> v \in 1..newest /\ kv[v].files = Files
    BY DEF Complete
  <2>. QED
    BY <1>2, <1>3, <2>1, <2>2
<1>5. CASE kv'[newest'].files = Files
  <2>1. Complete' = Complete \cup {newest'}
    BY <1>4, <1>5
  <2>. QED
    BY <1>1, <2>1 DEF Push, nginx
<1>6. CASE kv'[newest'].files # Files
  <2>1. Complete' = Complete
    BY <1>4, <1>6
  <2>. QED
    BY <1>1, <2>1 DEF Push, nginx
<1>. QED
  BY <1>5, <1>6

\* What NGINX loads is complete and no older than what it served.
LEMMA LoadDelivers ==
    ASSUME IInv, NginxStart \/ NginxAccept
    PROVE  /\ \E v \in Complete : v >= loaded /\ loaded' = v
           /\ up' = TRUE
           /\ UNCHANGED <<newest, Complete>>
<1>1. Load
  BY DEF NginxStart, NginxAccept
<1>2. loaded' \in Versions /\ loaded <= loaded' /\ loaded' <= newest /\ WholeAt(loaded')
  BY <1>1, LoadAdvances
<1>3. PICK v \in Versions : v = loaded'
  BY <1>2
<1>4. v \in Complete
  BY <1>2, <1>3, WholeIsComplete DEF IInv, TypeOK, Complete, Versions
<1>5. up' = TRUE
  BY DEF IInv, TypeOK, Signalled, NginxStart, NginxAccept
<1>6. UNCHANGED <<newest, kv>>
  BY DEF NginxStart, NginxAccept
<1>7. loaded' >= loaded
  BY <1>2 DEF IInv, TypeOK, Versions
<1>. QED
  BY <1>3, <1>4, <1>5, <1>6, <1>7 DEF Complete

\* The fetcher with NGINX implements CertDelivery: what is served was published
\* and complete, and is never older than what was served before.
THEOREM Refinement == Spec => RefinesDelivery
<1>1. Init => Delivery!DeliveryInit
  BY DEF Init, Delivery!DeliveryInit, None
<1>2. ASSUME IInv, [Next]_vars
      PROVE  [Delivery!DeliveryNext]_(Delivery!deliveryVars)
  <2>1. CASE \E s \in Pushable : Push(s)
    BY <1>2, <2>1, PushPublishes
       DEF Complete, Delivery!DeliveryNext, Delivery!Publish
  <2>2. CASE NginxStart \/ NginxAccept
    BY <1>2, <2>2, LoadDelivers
       DEF Complete, Delivery!DeliveryNext, Delivery!Deliver
  <2>3. CASE NginxStop \/ Reboot
    <3>1. up' = FALSE /\ UNCHANGED <<newest, kv, loaded>>
      BY <2>3 DEF NginxStop, Reboot
    <3>2. UNCHANGED <<newest, Complete, loaded>>
      BY <3>1 DEF Complete
    <3>. QED
      BY <1>2, <3>1, <3>2
         DEF Complete, Delivery!DeliveryNext, Delivery!Stop, Delivery!deliveryVars,
             IInv, TypeOK
  <2>4. CASE Tick
    BY <1>2, <2>4, TickQuiet DEF Complete, Delivery!deliveryVars
  <2>5. CASE \/ Start \/ AppRoleLogin \/ AppRoleLoginFails \/ FetchSecret
             \/ FetchSecretFails \/ WriteFails \/ ReloadNginx \/ ReloadNginxFails
             \/ \E f \in Files : FieldMissing(f) \/ OpenFile(f) \/ FillFile(f)
             \/ RenewImmediately \/ RestUntilRenewal \/ Wake \/ NginxReject
             \/ Crash \/ UNCHANGED vars
    <3>1. UNCHANGED <<newest, kv, up, loaded>>
      BY <2>5
         DEF Start, AppRoleLogin, AppRoleLoginFails, FetchSecret, FetchSecretFails,
             FieldMissing, OpenFile, FillFile, WriteFails, ReloadNginx,
             ReloadNginxFails, RenewImmediately, RestUntilRenewal, Wake,
             NginxReject, Crash, vars, nginx
    <3>. QED
      BY <1>2, <3>1, QuietStep DEF Complete, Delivery!deliveryVars
  <2>. QED
    BY <1>2, <2>1, <2>2, <2>3, <2>4, <2>5 DEF Next
<1>. QED
  BY <1>1, <1>2, Invariance, PTL DEF Spec, RefinesDelivery, Delivery!DeliverySpec
=============================================================================
