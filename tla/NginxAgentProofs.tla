-------------------------- MODULE NginxAgentProofs --------------------------
(***************************************************************************)
(* Proofs about NginxAgent for any number of versions of either type: what *)
(* its hook's report is worth, that an agent with one type never reloads,  *)
(* and that it implements CertDelivery for each type.                      *)
(***************************************************************************)
EXTENDS NginxAgent, TLAPS

\* A key that is there is never older than the one NGINX has, and what a pass is about
\* to write of a type is no older than either.
Ordered ==
    \A ct \in CertTypes :
        /\ files[ct]["server.key"] # 0 => served[ct] <= files[ct]["server.key"]
        /\ \A f \in Files : <<ct, f>> \in todo =>
              served[ct] <= data[ct] /\ files[ct]["server.key"] <= data[ct]

\* Nobody renders the files of a type that is not installed.
NotInstalled ==
    \A ct \in CertTypes \ installed : \A f \in Files : files[ct][f] = 0

\* StalenessHasACause, during a pass too.
Logged ==
    (~hook /\ running /\ outcome = "reloaded") =>
        \A ct \in installed : chain[ct][served[ct]] = chain[ct][files[ct]["server.crt"]]

\* The invariant that every step preserves.
IInv == TypeOK /\ Ordered /\ NotInstalled /\ Logged

-----------------------------------------------------------------------------
\* The three files, by name.
LEMMA TheFiles ==
    /\ "server.crt" \in Files
    /\ "server.key" \in Files
    /\ "ssl_password" \in Files
BY DEF Files

\* The invariant holds when the agent has just been installed.
LEMMA InitIInv == Init => IInv
<1> SUFFICES ASSUME Init
             PROVE  IInv
    OBVIOUS
<1> USE VersionBound DEF Init, NoData, NoFiles
<1>1. /\ newest \in [CertTypes -> Nat] /\ data \in [CertTypes -> Nat]
      /\ served \in [CertTypes -> Nat] /\ files \in [CertTypes -> [Files -> Nat]]
      /\ whole \in [CertTypes -> SUBSET Nat]
    OBVIOUS
<1>2. ASSUME NEW ct \in CertTypes
      PROVE  /\ newest[ct] = 0 /\ whole[ct] = {} /\ data[ct] = 0 /\ served[ct] = 0
             /\ \A f \in Files : files[ct][f] = 0
             /\ chain[ct] \in [0..MaxVersion[ct] -> 0..MaxVersion[ct]]
             /\ MaxVersion[ct] \in Nat
    OBVIOUS
<1>3. /\ installed \subseteq CertTypes /\ todo = {} /\ agent = "idle" /\ outcome = "none"
      /\ hook = FALSE /\ running = FALSE /\ DOMAIN chain = CertTypes
    OBVIOUS
<1>4. TypeOK
    <2>1. KvTypeOK
        BY <1>1, <1>2, <1>3 DEF KvTypeOK
    <2>2. ASSUME NEW ct \in CertTypes
          PROVE  /\ data[ct] <= newest[ct] /\ served[ct] <= newest[ct]
                 /\ \A f \in Files : files[ct][f] <= newest[ct]
        BY <1>2
    <2> QED
        BY <1>1, <1>3, <2>1, <2>2 DEF TypeOK
<1>5. Ordered /\ NotInstalled /\ Logged
    BY <1>2, <1>3, TheFiles DEF Ordered, NotInstalled, Logged
<1> QED
    BY <1>4, <1>5 DEF IInv

\* A push changes nothing of the versions there were.
LEMMA PushKeepsIInv == ASSUME IInv, NEW ct \in CertTypes, Push(ct) PROVE IInv'
<1> USE VersionBound
<1> DEFINE v == newest[ct] + 1
<1>1. /\ newest \in [CertTypes -> Nat] /\ newest[ct] < MaxVersion[ct]
      /\ MaxVersion[ct] \in Nat /\ newest' = [newest EXCEPT ![ct] = v]
      /\ UNCHANGED <<installed, agent, data, todo, files, hook, outcome, running, served>>
    BY DEF IInv, TypeOK, KvTypeOK, Push, pass, nginx
<1>2. \A c \in CertTypes : newest'[c] <= MaxVersion[c] /\ newest[c] <= newest'[c]
    BY <1>1 DEF IInv, TypeOK, KvTypeOK
<1>3. /\ DOMAIN chain' = CertTypes
      /\ \A c \in CertTypes : chain'[c] \in [0..MaxVersion[c] -> 0..MaxVersion[c]]
      /\ \A c \in CertTypes : \A u \in 0..newest[c] : chain'[c][u] = chain[c][u]
    <2>1. /\ DOMAIN chain = CertTypes
          /\ \A c \in CertTypes : chain[c] \in [0..MaxVersion[c] -> 0..MaxVersion[c]]
        BY DEF IInv, TypeOK, KvTypeOK
    <2>2. CASE UNCHANGED chain
        BY <2>1, <2>2
    <2>3. CASE chain' = [chain EXCEPT ![ct][v] = chain[ct][newest[ct]]]
        <3>1. chain[ct][newest[ct]] \in 0..MaxVersion[ct] /\ v \in 0..MaxVersion[ct]
            <4>1. newest[ct] \in 0..MaxVersion[ct] /\ v \in 0..MaxVersion[ct]
                BY <1>1
            <4> QED
                BY <2>1, <4>1
        <3>2. /\ DOMAIN chain' = CertTypes
              /\ chain'[ct] = [chain[ct] EXCEPT ![v] = chain[ct][newest[ct]]]
              /\ \A c \in CertTypes \ {ct} : chain'[c] = chain[c]
            BY <2>1, <2>3
        <3>3. chain'[ct] \in [0..MaxVersion[ct] -> 0..MaxVersion[ct]]
            BY <2>1, <3>1, <3>2
        <3>4. \A u \in 0..newest[ct] : chain'[ct][u] = chain[ct][u]
            BY <1>1, <2>1, <3>2
        <3> QED
            BY <2>1, <3>2, <3>3, <3>4
    <2> QED
        BY <2>2, <2>3 DEF Push
<1>4. /\ whole' \in [CertTypes -> SUBSET Nat]
      /\ \A c \in CertTypes : whole'[c] \subseteq 1..newest'[c]
    <2>1. /\ whole \in [CertTypes -> SUBSET Nat]
          /\ \A c \in CertTypes : whole[c] \subseteq 1..newest[c]
        BY DEF IInv, TypeOK, KvTypeOK
    <2>2. CASE UNCHANGED whole
        <3>1. ASSUME NEW c \in CertTypes
              PROVE  1..newest[c] \subseteq 1..newest'[c]
            BY <1>1, <1>2
        <3> QED
            BY <2>1, <2>2, <3>1
    <2>3. CASE whole' = [whole EXCEPT ![ct] = @ \cup {v}]
        <3>1. whole'[ct] = whole[ct] \cup {v} /\ newest'[ct] = v
            BY <1>1, <2>1, <2>3
        <3>2. \A c \in CertTypes \ {ct} : whole'[c] = whole[c] /\ newest'[c] = newest[c]
            BY <1>1, <2>1, <2>3
        <3>3. whole'[ct] \subseteq 1..newest'[ct]
            BY <1>1, <2>1, <3>1
        <3> QED
            BY <1>1, <2>1, <2>3, <3>2, <3>3
    <2> QED
        BY <2>2, <2>3 DEF Push
<1>5. TypeOK'
    <2>1. newest' \in [CertTypes -> Nat]
        BY <1>1
    <2>2. KvTypeOK'
        BY <1>1, <1>2, <1>3, <1>4, <2>1 DEF IInv, TypeOK, KvTypeOK
    <2>3. ASSUME NEW c \in CertTypes
          PROVE  /\ data[c] <= newest'[c] /\ served[c] <= newest'[c]
                 /\ \A f \in Files : files[c][f] <= newest'[c]
        <3>1. /\ data[c] \in Nat /\ served[c] \in Nat /\ newest[c] \in Nat /\ newest'[c] \in Nat
              /\ \A f \in Files : files[c][f] \in Nat
            BY <1>1, <2>1 DEF IInv, TypeOK
        <3> QED
            BY <1>2, <3>1 DEF IInv, TypeOK
    <2> QED
        BY <1>1, <2>2, <2>3 DEF IInv, TypeOK
<1>6. Ordered' /\ NotInstalled'
    BY <1>1 DEF IInv, Ordered, NotInstalled
<1>7. Logged'
    <2>1. ASSUME NEW c \in CertTypes
          PROVE  served[c] \in 0..newest[c] /\ files[c]["server.crt"] \in 0..newest[c]
        BY <1>1, TheFiles DEF IInv, TypeOK
    <2>2. installed \subseteq CertTypes
        BY DEF IInv, TypeOK, KvTypeOK
    <2> QED
        BY <1>1, <1>3, <2>1, <2>2 DEF IInv, Logged
<1> QED
    BY <1>5, <1>6, <1>7 DEF IInv

\* The other steps leave the secrets alone.
LEMMA SecretsStay ==
    ASSUME TypeOK, UNCHANGED <<installed, newest, whole, chain>>
    PROVE  KvTypeOK' /\ newest \in [CertTypes -> Nat] /\ installed \subseteq CertTypes
BY DEF TypeOK, KvTypeOK

\* The steps that end or begin the service: they write nothing.
LEMMA ServiceKeepsIInv == ASSUME IInv, Stop \/ Start \/ Reboot PROVE IInv'
<1>1. CASE Stop
    <2>1. /\ agent' = "down" /\ todo' = {} /\ data' = [ct \in CertTypes |-> 0] /\ hook' = FALSE
          /\ outcome' = (IF hook THEN "lost" ELSE outcome)
          /\ UNCHANGED <<installed, newest, whole, chain, files, running, served>>
        BY <1>1 DEF Stop, NoData, kv, nginx
    <2>2. TypeOK'
        <3>1. \A ct \in CertTypes : data'[ct] = 0 /\ 0 <= newest[ct]
            BY <2>1, SecretsStay DEF IInv
        <3> QED
            BY <2>1, <3>1, SecretsStay DEF IInv, TypeOK
    <2>3. Ordered' /\ NotInstalled'
        BY <2>1 DEF IInv, Ordered, NotInstalled
    <2>4. Logged'
        BY <2>1 DEF IInv, Logged
    <2> QED
        BY <2>2, <2>3, <2>4 DEF IInv
<1>2. CASE Start
    BY <1>2 DEF Start, kv, nginx, IInv, TypeOK, KvTypeOK, Ordered, NotInstalled, Logged
<1>3. CASE Reboot
    <2>1. /\ agent' = "down" /\ todo' = {} /\ data' = [ct \in CertTypes |-> 0] /\ hook' = FALSE
          /\ files' = [ct \in CertTypes |-> [f \in Files |-> 0]]
          /\ outcome' = "none" /\ running' = FALSE
          /\ UNCHANGED <<installed, newest, whole, chain, served>>
        BY <1>3 DEF Reboot, NoData, NoFiles, kv
    <2>2. /\ files' \in [CertTypes -> [Files -> Nat]]
          /\ \A ct \in CertTypes : \A f \in Files : files'[ct][f] = 0
        BY <2>1
    <2>3. TypeOK'
        <3>1. \A ct \in CertTypes : data'[ct] = 0 /\ 0 <= newest[ct]
            BY <2>1, SecretsStay DEF IInv
        <3> QED
            BY <2>1, <2>2, <3>1, SecretsStay DEF IInv, TypeOK
    <2>4. Ordered' /\ NotInstalled' /\ Logged'
        BY <2>1, <2>2, TheFiles DEF Ordered, NotInstalled, Logged
    <2> QED
        BY <2>3, <2>4 DEF IInv
<1> QED
    BY <1>1, <1>2, <1>3

\* A pass begins: it is about the last versions.
LEMMA FetchKeepsIInv == ASSUME IInv, Fetch PROVE IInv'
<1>1. PICK types \in (SUBSET {ct \in installed : Outdated(ct)}) \ {{}} :
          /\ data' = [ct \in CertTypes |-> IF ct \in types THEN newest[ct] ELSE 0]
          /\ todo' = {x \in types \X Files : ~UpToDate(x[1], x[2], newest[x[1]])}
    BY DEF Fetch
<1>2. /\ agent' = "rendering" /\ types \subseteq installed /\ installed \subseteq CertTypes
      /\ UNCHANGED <<installed, newest, whole, chain, files, hook, outcome, running, served>>
    BY <1>1 DEF Fetch, kv, nginx, IInv, TypeOK, KvTypeOK
<1>3. todo' \subseteq types \X Files
    BY <1>1
<1>4. todo' # {}
    <2>1. PICK ct \in types : Outdated(ct)
        <3>1. types # {} /\ \A ct \in types : Outdated(ct)
            OBVIOUS
        <3> QED
            BY <3>1
    <2>2. PICK f \in Files : ~UpToDate(ct, f, newest[ct])
        BY <2>1 DEF Outdated
    <2>3. <<ct, f>> \in types \X Files
        BY <2>1, <2>2
    <2>4. <<ct, f>>[1] = ct /\ <<ct, f>>[2] = f
        OBVIOUS
    <2> QED
        BY <1>1, <2>2, <2>3, <2>4
<1>5. \A ct \in types : data'[ct] = newest[ct]
    BY <1>1, <1>2
<1>6. TypeOK'
    <2>1. KvTypeOK' /\ newest \in [CertTypes -> Nat]
        BY <1>2, SecretsStay DEF IInv
    <2>2. data' \in [CertTypes -> Nat] /\ \A ct \in CertTypes : data'[ct] <= newest[ct]
        BY <1>1, <2>1
    <2>3. todo' \subseteq installed' \X Files
        BY <1>2, <1>3
    <2> QED
        BY <1>2, <1>4, <2>1, <2>2, <2>3 DEF IInv, TypeOK
<1>7. Ordered'
    <2>1. \A ct \in CertTypes : served[ct] <= newest[ct]
                                /\ files[ct]["server.key"] <= newest[ct]
        BY <1>2, TheFiles DEF IInv, TypeOK
    <2>2. \A ct \in CertTypes, f \in Files : <<ct, f>> \in todo' => ct \in types
        BY <1>3
    <2> QED
        BY <1>2, <1>5, <2>1, <2>2 DEF IInv, Ordered
<1>8. NotInstalled' /\ Logged'
    BY <1>2 DEF IInv, NotInstalled, Logged
<1> QED
    BY <1>6, <1>7, <1>8 DEF IInv

\* A file is written; if it is the certificate, the command is due.
LEMMA RenderKeepsIInv ==
    ASSUME IInv, NEW ct \in CertTypes, NEW f \in Files, Render(ct, f)
    PROVE  IInv'
<1>1. /\ <<ct, f>> \in todo /\ ct \in installed
      /\ files' = [files EXCEPT ![ct][f] = data[ct]] /\ todo' = todo \ {<<ct, f>>}
      /\ data' = (IF todo' = {} THEN [c \in CertTypes |-> 0] ELSE data)
      /\ agent = "rendering" /\ agent' = (IF todo' = {} THEN "idle" ELSE agent)
      /\ hook' = (hook \/ f = "server.crt")
      /\ UNCHANGED <<installed, newest, whole, chain, outcome, running, served>>
    BY DEF Render, NoData, kv, nginx, IInv, TypeOK
<1>2. /\ files \in [CertTypes -> [Files -> Nat]] /\ data \in [CertTypes -> Nat]
      /\ newest \in [CertTypes -> Nat] /\ data[ct] <= newest[ct]
      /\ served \in [CertTypes -> Nat]
      /\ \A c \in CertTypes : \A g \in Files : files[c][g] <= newest[c]
      /\ KvTypeOK'
    BY <1>1, SecretsStay DEF IInv, TypeOK
<1>3. /\ files' \in [CertTypes -> [Files -> Nat]]
      /\ files'[ct] = [files[ct] EXCEPT ![f] = data[ct]]
      /\ \A c \in CertTypes \ {ct} : files'[c] = files[c]
    BY <1>1, <1>2
<1>4. /\ files'[ct][f] = data[ct]
      /\ \A g \in Files \ {f} : files'[ct][g] = files[ct][g]
    BY <1>2, <1>3
<1>5. hook' \in BOOLEAN
    BY <1>1 DEF IInv, TypeOK
<1>6. TypeOK'
    <2>1. ASSUME NEW c \in CertTypes, NEW g \in Files
          PROVE  files'[c][g] <= newest[c]
        <3>1. CASE c = ct
            <4>1. CASE g = f
                BY <1>2, <1>4, <3>1, <4>1
            <4>2. CASE g # f
                BY <1>2, <1>4, <3>1, <4>2
            <4> QED
                BY <4>1, <4>2
        <3>2. CASE c # ct
            BY <1>2, <1>3, <3>2
        <3> QED
            BY <3>1, <3>2
    <2>2. data' \in [CertTypes -> Nat] /\ \A c \in CertTypes : data'[c] <= newest[c]
        BY <1>1, <1>2 DEF IInv, TypeOK
    <2>3. agent' \in {"down", "idle", "rendering"} /\ (agent' = "rendering" <=> todo' # {})
        BY <1>1
    <2> QED
        BY <1>1, <1>2, <1>3, <1>5, <2>1, <2>2, <2>3 DEF IInv, TypeOK
<1>7. Ordered'
    <2>1. served[ct] <= data[ct]
        BY <1>1 DEF IInv, Ordered
    <2>2. ASSUME NEW c \in CertTypes
          PROVE  files'[c]["server.key"] # 0 => served[c] <= files'[c]["server.key"]
        BY <1>3, <1>4, <2>1, TheFiles DEF IInv, Ordered
    <2>3. ASSUME NEW c \in CertTypes, NEW g \in Files, <<c, g>> \in todo'
          PROVE  served[c] <= data'[c] /\ files'[c]["server.key"] <= data'[c]
        <3>1. <<c, g>> \in todo /\ data' = data
            BY <1>1, <2>3
        <3>2. served[c] <= data[c] /\ files[c]["server.key"] <= data[c]
            BY <3>1 DEF IInv, Ordered
        <3>3. \/ files'[c]["server.key"] = files[c]["server.key"]
              \/ c = ct /\ files'[c]["server.key"] = data[ct]
            BY <1>3, <1>4, TheFiles
        <3>4. data[ct] <= data[ct]
            BY <1>2
        <3> QED
            BY <3>1, <3>2, <3>3, <3>4
    <2> QED
        BY <1>1, <2>2, <2>3 DEF Ordered
<1>8. NotInstalled'
    BY <1>1, <1>3 DEF IInv, NotInstalled
<1>9. Logged'
    <2>1. CASE f = "server.crt"
        BY <1>1, <2>1 DEF Logged
    <2>2. CASE f # "server.crt"
        <3>1. \A c \in CertTypes : files'[c]["server.crt"] = files[c]["server.crt"]
            BY <1>3, <1>4, <2>2, TheFiles
        <3>2. ~hook' => ~hook
            BY <1>1
        <3> QED
            BY <1>1, <3>1, <3>2 DEF IInv, TypeOK, KvTypeOK, Logged
    <2> QED
        BY <2>1, <2>2
<1> QED
    BY <1>6, <1>7, <1>8, <1>9 DEF IInv

\* What NGINX has loaded are complete versions no older than those before, and the
\* certificates that are there.
LEMMA WhatNginxLoads ==
    ASSUME IInv, Loads
    PROVE  /\ served' \in [CertTypes -> Nat]
           /\ \A ct \in CertTypes \ installed : served'[ct] = served[ct]
           /\ \A ct \in installed :
                 /\ served'[ct] = files[ct]["server.key"]
                 /\ served'[ct] \in whole[ct]
                 /\ served'[ct] >= served[ct]
                 /\ chain[ct][served'[ct]] = chain[ct][files[ct]["server.crt"]]
<1>1. /\ served \in [CertTypes -> Nat] /\ files \in [CertTypes -> [Files -> Nat]]
      /\ installed \subseteq CertTypes
      /\ \A ct \in CertTypes : whole[ct] \subseteq 1..newest[ct]
    BY DEF IInv, TypeOK, KvTypeOK
<1>2. /\ served' \in [CertTypes -> Nat]
      /\ \A ct \in CertTypes \ installed : served'[ct] = served[ct]
      /\ \A ct \in installed : served'[ct] = files[ct]["server.key"]
    BY <1>1, TheFiles DEF Loads
<1>3. ASSUME NEW ct \in installed
      PROVE  /\ files[ct]["server.key"] \in whole[ct]
             /\ chain[ct][files[ct]["server.crt"]] = chain[ct][files[ct]["server.key"]]
    BY DEF Loads, Loadable
<1>4. ASSUME NEW ct \in installed
      PROVE  served[ct] <= files[ct]["server.key"]
    <2>1. files[ct]["server.key"] # 0
        BY <1>1, <1>3
    <2> QED
        BY <1>1, <2>1 DEF IInv, Ordered
<1>5. ASSUME NEW ct \in installed
      PROVE  files[ct]["server.key"] \in Nat /\ served[ct] \in Nat
    BY <1>1, TheFiles
<1> QED
    BY <1>2, <1>3, <1>4, <1>5

\* The steps of the hook and of NGINX.
LEMMA NginxKeepsIInv ==
    ASSUME IInv, HookSkips \/ HookFails \/ HookReloads \/ NginxStarts \/ NginxStops
    PROVE  IInv'
<1>1. UNCHANGED <<installed, newest, whole, chain, agent, data, todo, files>>
    BY DEF HookSkips, HookFails, HookReloads, NginxStarts, NginxStops, kv, pass
<1>2. CASE HookSkips \/ HookFails
    <2>1. /\ hook' = FALSE /\ outcome' \in {"skipped", "failed"} /\ UNCHANGED <<running, served>>
        BY <1>2 DEF HookSkips, HookFails, HookEnds, nginx
    <2> QED
        BY <1>1, <2>1 DEF IInv, TypeOK, KvTypeOK, Ordered, NotInstalled, Logged
<1>3. CASE HookReloads \/ NginxStarts
    <2>1. /\ Loads /\ running' = TRUE
          /\ \/ hook' = FALSE /\ outcome' = "reloaded"
             \/ UNCHANGED <<hook, outcome>>
        BY <1>3 DEF HookReloads, HookEnds, NginxStarts, IInv, TypeOK
    <2>2. /\ served' \in [CertTypes -> Nat]
          /\ \A ct \in CertTypes \ installed : served'[ct] = served[ct]
          /\ \A ct \in installed :
                served'[ct] = files[ct]["server.key"]
                /\ chain[ct][served'[ct]] = chain[ct][files[ct]["server.crt"]]
        BY <2>1, WhatNginxLoads
    <2>3. \A ct \in CertTypes : /\ files[ct]["server.key"] \in Nat
                                 /\ files[ct]["server.key"] <= newest[ct]
        BY TheFiles DEF IInv, TypeOK
    <2>4. TypeOK'
        <3>1. ASSUME NEW ct \in CertTypes
              PROVE  served'[ct] <= newest[ct]
            BY <2>2, <2>3 DEF IInv, TypeOK
        <3> QED
            BY <1>1, <2>1, <2>2, <3>1, SecretsStay DEF IInv, TypeOK
    <2>5. Ordered'
        <3>1. ASSUME NEW ct \in CertTypes
              PROVE  served'[ct] = files[ct]["server.key"] \/ served'[ct] = served[ct]
            BY <2>2
        <3>2. ASSUME NEW ct \in CertTypes
              PROVE  files[ct]["server.key"] <= files[ct]["server.key"]
            <4>1. files[ct]["server.key"] \in Nat
                BY <2>3
            <4> QED
                BY <4>1
        <3> QED
            BY <1>1, <3>1, <3>2 DEF IInv, Ordered
    <2>6. NotInstalled' /\ Logged'
        BY <1>1, <2>2 DEF IInv, NotInstalled, Logged
    <2> QED
        BY <2>4, <2>5, <2>6 DEF IInv
<1>4. CASE NginxStops
    BY <1>1, <1>4 DEF NginxStops, IInv, TypeOK, KvTypeOK, Ordered, NotInstalled, Logged
<1> QED
    BY <1>2, <1>3, <1>4

\* Every step, and every stutter, preserves the invariant.
LEMMA NextIInv == IInv /\ [Next]_vars => IInv'
<1> SUFFICES ASSUME IInv, [Next]_vars
             PROVE  IInv'
    OBVIOUS
<1>1. CASE UNCHANGED vars
    BY <1>1 DEF vars, kv, pass, nginx, IInv, TypeOK, KvTypeOK, Ordered, NotInstalled, Logged
<1>2. CASE Next
    BY <1>2, PushKeepsIInv, ServiceKeepsIInv, FetchKeepsIInv, RenderKeepsIInv,
       NginxKeepsIInv DEF Next
<1> QED
    BY <1>1, <1>2

\* The invariant holds throughout.
LEMMA AlwaysIInv == Spec => []IInv
BY InitIInv, NextIInv, PTL DEF Spec

-----------------------------------------------------------------------------
\* All variables keep their types, and a pass has files to write until it ends.
THEOREM AgentTypes == Spec => []TypeOK
<1>1. IInv => TypeOK
    BY DEF IInv
<1> QED
    BY <1>1, AlwaysIInv, PTL

\* When the agent rests and its last command reloaded NGINX, a running NGINX has the
\* certificates of the files: whatever else it has, the command skipped, failed, or was
\* lost with the agent (reload-nginx.sh 29-39).
THEOREM ReloadedMeansLoaded == Spec => []StalenessHasACause
<1>1. IInv => StalenessHasACause
    BY DEF IInv, Logged, StalenessHasACause
<1> QED
    BY <1>1, AlwaysIInv, PTL

\* The hook of an agent that has one type waits for the other's files, which nobody
\* renders: a running NGINX keeps what it has (reload-nginx.sh 17-29).
THEOREM ReloadNeedsBothTypes == Spec => OneTypeNeverReloads
<1>1. IInv /\ [Next]_vars =>
          [running /\ running' /\ served' # served => installed = CertTypes]_vars
    <2> SUFFICES ASSUME IInv, Next, running, running', served' # served
                 PROVE  installed = CertTypes
        OBVIOUS
    <2>1. HookReloads
        BY DEF Next, Push, Fetch, Stop, Start, Reboot, Render, HookSkips, HookFails,
               NginxStarts, NginxStops, nginx
    <2>2. \A ct \in CertTypes : files[ct]["server.crt"] # 0
        BY <2>1, TheFiles DEF HookReloads, AllRendered
    <2> QED
        BY <2>2, TheFiles DEF IInv, TypeOK, KvTypeOK, NotInstalled
<1> QED
    BY <1>1, AlwaysIInv, PTL DEF Spec, OneTypeNeverReloads

\* NGINX loads complete versions of each type only, and never an earlier one after a
\* later one.
THEOREM AgentDelivers == Spec => RefinesDelivery
<1>1. Init => \A ct \in CertTypes : Delivery(ct)!DeliveryInit
    BY DEF Init, Delivery!DeliveryInit
<1>2. IInv /\ [Next]_vars =>
          [\A ct \in CertTypes :
              Delivery(ct)!DeliveryNext \/ UNCHANGED Delivery(ct)!deliveryVars]_vars
    <2> SUFFICES ASSUME IInv, Next, NEW ct \in CertTypes
                 PROVE  Delivery(ct)!DeliveryNext \/ UNCHANGED Delivery(ct)!deliveryVars
        OBVIOUS
    <2>0. /\ newest \in [CertTypes -> Nat] /\ whole \in [CertTypes -> SUBSET Nat]
          /\ running \in BOOLEAN
        BY DEF IInv, TypeOK, KvTypeOK
    <2>1. ASSUME NEW c \in CertTypes, Push(c)
          PROVE  Delivery(ct)!DeliveryNext \/ UNCHANGED Delivery(ct)!deliveryVars
        <3>1. /\ newest' = [newest EXCEPT ![c] = newest[c] + 1]
              /\ whole' = whole \/ whole' = [whole EXCEPT ![c] = @ \cup {newest[c] + 1}]
              /\ newest[c] < MaxVersion[c]
              /\ UNCHANGED <<installed, running, served>>
            BY <2>1 DEF Push, nginx
        <3>2. CASE c = ct
            <4>1. /\ newest'[ct] = newest[ct] + 1 /\ newest[ct] < MaxVersion[ct]
                  /\ whole'[ct] = whole[ct] \/ whole'[ct] = whole[ct] \cup {newest'[ct]}
                BY <2>0, <3>1, <3>2
            <4> QED
                BY <3>1, <4>1 DEF Delivery!Publish, Delivery!DeliveryNext
        <3>3. CASE c # ct
            <4>1. newest'[ct] = newest[ct] /\ whole'[ct] = whole[ct]
                BY <2>0, <3>1, <3>3
            <4> QED
                BY <3>1, <4>1 DEF Delivery!deliveryVars
        <3> QED
            BY <3>2, <3>3
    <2>2. CASE HookReloads \/ NginxStarts
        <3>1. /\ Loads /\ running' = TRUE /\ UNCHANGED <<installed, newest, whole>>
            BY <2>2 DEF HookReloads, NginxStarts, kv, IInv, TypeOK
        <3>2. CASE ct \in installed
            <4>1. served'[ct] \in whole[ct] /\ served'[ct] >= served[ct]
                BY <3>1, <3>2, WhatNginxLoads
            <4> QED
                BY <3>1, <3>2, <4>1 DEF Delivery!Deliver, Delivery!DeliveryNext
        <3>3. CASE ct \notin installed
            <4>1. served'[ct] = served[ct]
                BY <3>1, <3>3, WhatNginxLoads
            <4> QED
                BY <3>1, <3>3, <4>1 DEF Delivery!deliveryVars
        <3> QED
            BY <3>2, <3>3
    <2>3. CASE NginxStops \/ Reboot
        <3>1. running' = FALSE /\ UNCHANGED <<installed, newest, whole, served>>
            BY <2>3 DEF NginxStops, Reboot, kv
        <3> QED
            BY <3>1 DEF Delivery!Stop, Delivery!DeliveryNext, Delivery!deliveryVars
    <2>4. CASE \/ Fetch \/ Stop \/ Start \/ HookSkips \/ HookFails
               \/ \E c \in CertTypes, f \in Files : Render(c, f)
        <3>1. UNCHANGED <<installed, newest, whole, running, served>>
            BY <2>4 DEF Fetch, Stop, Start, HookSkips, HookFails, Render, kv, nginx
        <3> QED
            BY <3>1 DEF Delivery!deliveryVars
    <2> QED
        BY <2>1, <2>2, <2>3, <2>4 DEF Next
<1> QED
    BY <1>1, <1>2, AlwaysIInv, PTL DEF Spec, RefinesDelivery
=============================================================================
