# nsh-vault-deploy: specifications, model checking and proofs

nsh-vault-deploy runs HashiCorp Vault in a container, provisions it with a KV
store and a PKI, and delivers TLS certificates through it: HCL Domino CertMgr
pushes a host's certificate, encrypted key and key password into KV, and a
program on the host fetches them and has NGINX serve them. The modules in this
directory model the parts of it that keep state over several steps, TLC checks
them on small instances, and TLAPS proves the safety properties for every value
of the constants.

## 1. Inventory

| Component | State | Operations | What is hard | What makes it correct |
|---|---|---|---|---|
| **vault-fetcher** (`client/vault-fetcher/main.go`) | loop position, the fetched secret, files in `CERT_OUT_DIR` | login, fetch, write three files, signal NGINX, sleep until renewal | file-by-file writes that truncate first, asynchronous signal, crash in mid-write, retries, renewal arithmetic | only whole sets are signalled; NGINX never goes back; nothing is left behind silently; each complete version is served in the end |
| **start, initialise, reset** (`start-vault.sh`, `server/init/setup.sh`, `cleanup-vault.sh`) | container, seal, volume `vault-data`, `vault-init.json`, `.env` | resume, `--scratch`, init, unseal, cleanup | kills and restarts between two commands, `|| true`, redirections that truncate, a file's existence standing for Vault's state | the key on file is the one of this Vault; "ready" is true; a reset always recovers |
| **C++ push client** (`client/cpp_client`) | token, last error, last HTTP status | `Login`, `PushCert` | lost, late, reordered and cut answers; sticky error text; token expiry; credentials that are zeroed; exceptions | `true` means stored; a failure has an error; what was pushed last is what is served in the end, or the caller was told otherwise |
| **JSON library of the push client** (`include/nlohmann/json.hpp`, vendored) | lexer, parser stack, the document under construction, escape buffer | `parse`, `at`, `dump` | pointers into growing containers, look-ahead, UTF-8 and surrogates, assertions that a release build drops | reads and writes JSON, and nothing else as JSON; no pointer dangles, no buffer overflows |
| **provisioners 01-07, `setup-provisioners.sh`, `script_lib.sh`** | mounts, issuers, roles, policies in Vault; exported files; `.env` | one setup script each, by hand or in order | re-runs, partial failure, swallowed errors, one `.env` that all of them read and replace, stale tokens | success reported means everything is there, of today's Vault; no unattended script lacks a value; no second root CA |
| guided tour (`guided-tour.sh`), token renewal (`renew-token.sh`) | none of their own | the same provisioners with explanations; one command | | |
| **server roles and enrolment** (`create-nginx-role.sh`, 05, `enroll.sh`, `push-cert-api.sh`) | AppRoles, policies, credential files, tokens | create, log in | two names for one policy, runs cut off, in the middle of a file, too, or repeated, another Vault, tokens that outlive a role's change | an enrolled host reads its own certificate, and no other's |
| **Vault Agent for NGINX** (`client/nginx`) | agent token, rendered files | render three templates, reload hook | files written one by one, a command on one of them only, run once, files that outlive the agent but not a boot, a hook that looks for types that are not installed | as vault-fetcher, as far as the hook allows |
| **Vault's own certificate** (`server/agent`, `push-vault-tls.sh`, `tls/bootstrap.sh`) | `server/tls`, KV entry | bootstrap, push, render, SIGHUP | crash between two renders, failing hook | the running Vault converges to the pushed certificate |
| configuration wizard (`setup-vault.sh`) | `.env` | write it | | |
| `vault.sh`, Domino curl test, images | none of their own | | | |

**Interaction.** `start-vault.sh` calls `cleanup-vault.sh` and `setup.sh`; the
three communicate through the container, the volume, `vault-init.json` and
`.env`. The provisioners configure the running Vault, take their values from `.env` and
the token from there or from `vault-init.json`, and replace `.env` when they are done. The push client writes the
KV entries `secret/certs/<fqdn>/<type>` that vault-fetcher, or a Vault Agent,
reads. vault-fetcher and NGINX share a directory and a signal, and so do the agent,
its hook and NGINX. The modules meet at the KV entry: `VaultClient` ends where a
version is stored; `VaultFetcher` and `NginxAgent` begin where one appears (`Push`) and
both implement `CertDelivery`; `CertPipeline` composes `VaultClient` with what
`CertDelivery` promises of each host.

Every component, modelled or not, is listed in `PROJECT.json` under
`components`, and everything that is hard to test under `hazards`, with the
properties that would catch it.

## 2. Modules

| Module | Models | Extends |
|---|---|---|
| `CertDelivery` | abstract: what is promised of one host's certificate | |
| `VaultFetcher` | `main.go` with CertMgr, directory, NGINX, clock and faults; implements `CertDelivery` | |
| `MCVaultFetcher` | symmetry of the files for TLC | `VaultFetcher` |
| `VaultFetcherProofs` | its theorems | `VaultFetcher`, `TLAPS` |
| `VaultLifecycle` | `start-vault.sh`, `setup.sh`, `cleanup-vault.sh` | |
| `MCVaultLifecycle`, `VaultLifecycleProofs` | its instances and theorems | `VaultLifecycle` |
| `VaultClient` | `vault_push.cpp` with network and Vault's KV | |
| `CertPipeline` | `VaultClient`, the versions its pushes make, a fetcher per host as `CertDelivery` has it | `VaultClient` |
| `MCCertPipeline`, `CertPipelineProofs` | its instance; the theorems about it and about `VaultClient` | `CertPipeline` |
| `NginxAgent` | the agent, its templates and command, hook, systemd, NGINX, for one certificate type or both; implements `CertDelivery` for each | |
| `MCNginxAgent`, `NginxAgentProofs` | its instance and theorems | `NginxAgent` |
| `ServerRoles` | `create-nginx-role.sh`, provisioner 05, logins of the servers | |
| `MCServerRoles`, `ServerRolesProofs` | its instance and theorems | `ServerRoles` |
| `JsonLexer` | the lexer of `json.hpp`, byte by byte | |
| `JsonReader` | `parse`: parser, handler, document; `at` and `get` | `JsonLexer` |
| `JsonDump` | `dump` with its defaults | |
| `JsonScalars` | UTF-8 by RFC 3629 and the numbers of RFC 8259 | |
| `JsonExchange` | the bodies the client writes, the answers it reads | `JsonReader`, `JsonDump`, `JsonScalars` |
| `JsonReference` | what a text means by RFC 8259, as a recursive definition | `JsonScalars` |
| `MCJson` | its instance and comparison with the reference | `JsonExchange`, `JsonReference` |
| `JsonProofs` | the theorems about writer and reader, and about both | `JsonExchange` |
| `JsonGrammar` | RFC 8259 again, without recursion | `JsonScalars` |
| `JsonAcceptProofs` | the theorem that what is accepted is JSON | `JsonProofs`, `JsonGrammar` |
| `Provisioning` | `setup-provisioners.sh`, provisioners 01 to 07, `.env` | |
| `MCProvisioning`, `ProvisioningProofs` | its instances and theorems | `Provisioning` |

Definitions whose comment begins with "Mutant:" are deliberately wrong variants
of the definition that follows; no specification uses them. Each property of a
passing run is violated when one of them takes its definition's place.

### 2.1 VaultFetcher

The loop's position is `pc`; the transition from one place to the next is one
call of `main`. `held` is the variable `secret`, as the number of the version
that was read. What a secret contains is reduced to what the code looks at: which
of the fields that become files are not empty, whether `not_after` is there and
can be parsed (`dated`), and how long the certificate still lives (`life`).

| `main.go` | action |
|---|---|
| `loadConfig` .. the first iteration | `Start` |
| `appRoleLogin` 121-150 | `AppRoleLogin`, `AppRoleLoginFails` |
| `fetchSecret` 152-178 | `FetchSecret`, `FetchSecretFails` |
| `writeFiles` 182-200, over a Go map: any order | `FieldMissing`, `OpenFile` (`O_TRUNC`), `FillFile`, `WriteFails` |
| `reloadNginx` 229-235 | `ReloadNginx`, `ReloadNginxFails` |
| `nextRenewal` 204-225 and 290-302 | `NextRenewal`, `RenewImmediately`, `RestUntilRenewal` |
| the two kinds of `time.Sleep` | `Wake` after `RestUntilRenewal`, or after a failure (`GiveUp`) |

*Time* is a countdown: `Tick` lowers every certificate's `life` and the process's
`sleep`. Two sleeps that end and a certificate that expires are thus in any order
the durations allow, and the state space is finite without a bound on time. A
process slower than the clock is included: `Tick` may happen any number of times
between two steps of the loop. The equality `wait == 0` in the code also holds
in the future only for a vanishing instant; like `wait < 0` it is `life <=
RenewBefore`.

*NGINX* is external. `NginxAccept` and `NginxStart` read the directory in one step,
whereas NGINX reads three files one after the other. This loses nothing: the
fetcher fetches a version, writes all files of it, and only then starts on the
next, so if NGINX, reading at different instants, sees all files of version v,
there was an instant at which they all were of version v; and if it does not, it
refuses the set, which `NginxReject` allows at an instant inside the write. That
NGINX refuses a mixed set is an assumption about CertMgr: a renewed certificate
comes with a new key and key password. A truncated file is refused in any case.

*Faults.* `WriteFails`, `Crash`, `NginxStop` and `Reboot` share the bound
`MaxFaults`. Failures of login, fetch and reload are not bounded. `Reboot` empties
the directory, "typically a tmpfs mount shared with NGINX" (`main.go:2`); where the
directory survives a reboot, that reboot is a `Crash` together with an `NginxStop`.

### 2.2 VaultLifecycle

One action per command that reads or changes the container, the volume,
`vault-init.json` or `.env`; `pc` is the next command, `job` the script the
operator started. An initialisation is a number, which stands for the unseal key
and root token it printed: `vol` is the one the volume holds, `initFile` the one on
file, or `Missing`, or `Empty`.

| script | actions |
|---|---|
| `start-vault.sh` 16-47 (`--scratch`) | `RunScratch`, then those of cleanup, `RemoveEnv` |
| `start-vault.sh` 85-159 | `ComposeUp`, `CheckInitFile`, `CheckEnv`, `Finish` |
| `setup.sh` 26-54 | `WaitForVault`, `ReadStatus` |
| `setup.sh` 54-88, both branches | `TruncateInitFile`, `OperatorInit` or `OperatorInitRefused`, `SaveInitFile`, `RereadStatus` |
| `setup.sh` 91-121 | `Unseal`, `UnsealRefused`, `SkipUnseal`, `SetupReturns` |
| `cleanup-vault.sh` 44-148 | `ComposeDown`, `RemoveVolumes`, `RemoveInitFile` |
| `setup-vault.sh` 69-96 | `RunSetupVault` |

Three details of the shell carry weight. `> "$INIT_FILE"` truncates before docker
runs, so truncation, initialisation and saving are three steps. `vault status ...
|| true` turns no answer into an empty string, which is neither "initialised" nor a
failure (`StatusAnswer`, `Branch`). And jq's `//` treats `false` as absent, so
`.sealed // "true"` is "true" for every status: a Vault that is already unsealed is
unsealed again, which it accepts with any non-empty key; the unseal is skipped
only when there was no status at all (`SkipUnseal`).

`VaultRestarts`, `VaultStops`, `ScriptDies` and `DockerFails` may happen between any
two commands, `MaxFaults` times in all. `disturbed` is a history variable: something
failed since the script was started. Nothing reads it but properties.

`docker compose up -d` replaces a container that runs if `.env` gives it another
`VAULT_API_ADDR` or `VAULT_HTTPS_PORT` (`docker-compose.yml:8,13`) than it was made with. What
`.env` says is not modelled, so `ComposeUp` may find either. `server/docker-compose.yml`
describes the same container as another compose project with a volume of its own; the
scripts modelled here use the one at the top, and so does the model.

### 2.3 VaultClient

`HttpPost` is split where the outside world acts: the call (`Login`, `PushCert`)
sends the request, Vault and the network act, and one of the actions that contain
`Return` ends the call: `TransportFails`, `AnswerUnreadable`, `AnsweredRefusal`,
`AnsweredLogin`, `AnsweredPush`; `NoHandle` and `Unencodable` end it before anything is
sent. Two ways out are exceptions (`returned = "threw"`): `dump` refuses a body that is no
UTF-8, and a number too large for a double is `out_of_range`, not the `parse_error` that
`HttpPost` catches (`AnswerOverflows`). A call's number stands for the certificate it
pushes and for the error text it sets. `pending` outlives the call: after a timeout,
Vault may still act on the request. `written` remembers which calls' certificates
have been a version of each host's secret.

The caller is `example.cpp`, generalised: any sequence of `Login` and `PushCert`, on
one thread ("not thread-safe", `vault_push.hpp`), whose credentials are read once
and zeroed by the first `Login`. Its process may end at any moment, in the middle of a
call, too, and start again (`NewClient`); requests that are on their way stay there.

`CertPipeline` adds what happens around it. `history` is the list of versions of each
host's secret; `acked` the last call `PushCert` returned true for; `failed` the calls whose
caller did not get true. `Publish` is a step of `VaultClient` with this record. `Load` is a
host's fetcher, which loads a version that was current when it read it, and none before the
one it has: the promise of `CertDelivery`, which `VaultFetcher` and `NginxAgent` keep.
Certificates are numbered in the order of the calls, versions in the order of arrival, and
the two may differ: a push that timed out may overtake a later one, since writes carry no
check-and-set. `CurrentUnlessReported` says how far that can go: what is current is older
than what was last reported as pushed only if it is a push whose caller did not get `true`.
`RollbackWasReported` says the same of what NGINX serves: it does go back to an older
certificate, by loading a higher version, but only to one that was not reported as pushed.
That each host loads versions in ascending order is an assumption here and no property of
the pipeline; the two fetchers are shown to do so in their own modules.

### 2.4 Provisioning

A provisioner is a list of commands (`KvSecrets` .. `PkiCertmgr`), each with what it
must find in Vault: enable an engine, write something, generate the root CA, export a
file, save `.env`. One action per kind of command; `prov` and `at` are the program
counter. What Vault holds is `mounts`, `made` and `roots`; `files` has, for each file a
provisioner leaves, the initialisation of Vault it belongs to. Consecutive writes that
configure one thing are one command.

| script | actions |
|---|---|
| `setup-vault.sh`, `start-vault.sh --scratch`, `cleanup-vault.sh` | `RunSetupVault`, `Reinitialise` |
| `setup-provisioners.sh` 16-52 (`LoadEnvFile`, required variables) | `RunProvisioners` |
| `setup-provisioners.sh` 54-67 (already provisioned?) | `CheckGuard`, `GuardFails` |
| `setup-provisioners.sh` 85-154 | `NextProvisioner`, `Leave` |
| a provisioner by hand | `RunProvisioner` |
| `script_lib.sh`: `LoadEnvFile`, `LoadVaultToken`, `GetInput` | `LoadConfiguration` with `Loads` |
| `vault secrets enable`, `vault auth enable`, with `\|\| echo "already enabled"` | `EnableEngine`, `EnableFails` |
| every other `vault` command, under `set -euo pipefail` | `WriteToVault`, `GenerateRoot`, `ExportFile`, `CommandFails` |
| `script_lib.sh`: `SaveEnvFile` | `SaveEnvFile` |

A token is the number of the initialisation it is the root token of, 0 for none; a
command works if the token is of today's Vault and what it needs is there (`Works`).
`LoadEnvFile` exports what it reads, so the variables of `setup-provisioners.sh`
(`parent`, `parentToken`) outlive what the provisioners do to `.env`. A provisioner by
hand asks for every value; the operator enters what is missing and may correct the
token. A command that Vault refuses leaves a file alone unless the redirection came first, as
it does for `client-ca.crt` only (`Truncated`); one that is cut off has emptied its file or
not yet (`CutOff`), and a `SaveEnvFile` that is cut off leaves the first lines of `.env`
(`SavedInPart`). Without `.env`, `setup-provisioners.sh` offers to run `setup-vault.sh`: yes
is `RunSetupVault` before `RunProvisioners`, no ends it. `VAULT_ADDR` is left out: it has the same default in every script.
Vault keeps the first root CA as the default issuer of `pki/` when another is
generated; that is Vault's behaviour and assumed here.

### 2.5 NginxAgent

`vault agent` is no part of the repository; it is modelled as `vault-agent.hcl.tpl`
configures it. `installed` are the types of certificate that its configuration has
templates for, one or both. A pass takes one version of each secret it has read anew
(`Fetch`) and writes, one after the other, the files whose text it changes (`Render`). The
certificate's template carries the command (line 43): `hook` says that it is due. It may run
at any time from then on, between two files, too, as the hook itself expects
(`reload-nginx.sh:15-29`). `chain` says which versions have the same certificate: such a
version changes key and password only, so that its pass ends without a reload.

| `client/nginx` | actions |
|---|---|
| `vault-agent.hcl.tpl` 39-56 (templates, command) | `Fetch`, `Render` |
| `reload-nginx.sh` 15-29 | `HookSkips`, and `AllRendered` in the others |
| `reload-nginx.sh` 31-39 | `HookFails`, `HookReloads` |
| `vault-agent.service` 19-31, the end of the service | `Stop` |
| `vault-agent.service` 11-30, its start and a boot | `Start`, `Reboot` |

*Where the files are.* The unit mounts a tmpfs over `/run/vault/ssl` before the agent and
unmounts it after (15-17, 22). But `ProtectSystem`, `ReadWritePaths` and `PrivateTmp` (29-31)
give each of its processes a mount namespace of its own: the tmpfs is seen by the process
that mounts it and no other, the agent writes to the directories of line 13 and 14 on the
host's `/run`, NGINX reads them there, and the unmount at the end removes nothing. So the
files outlive the agent (`Stop`) and vanish with the host (`Reboot`). An agent that was
killed between rendering the certificate and its command has a successor that finds
nothing to render: `outcome` is then "lost", and NGINX keeps the old certificate.

*Which files the hook wants.* It takes every directory there is for a configured type, and
lines 13 and 14 make both. With one type installed, as by default, `AllRendered` is never
true and each command skips its reload.

Assumptions: a pass waits for its command; a command that fails is not run again; nothing
starts NGINX; the load takes place with the hook's last step (`VaultFetcher` has the signal
and the load apart, with the next pass between them). The files of a version belong
together, and key and password of another never fit (`Loadable`). NGINX is configured for
the types that are installed (`Loads`).

`StalenessHasACause` names the three ways in which NGINX stays behind, of which the lost
command is the one that no log shows. `OneTypeNeverReloads` is what becomes of the hook in
an installation for one type. `DeliveredUnlessHookFails` is what is left of the promise that
NGINX gets each certificate: a command that skipped, failed or was lost is never made up
for.

### 2.6 ServerRoles

One action per `vault` command and per credential file, in the order that
`create-nginx-role.sh` and `05-approle-nginx/setup.sh` share: `WritePolicy`, `WriteRole`,
`ReadIds`, `PrintRoleId`, `PrintSecretId`. A redirection truncates before `printf` writes, so a
run that is killed there, or finds the disk full, leaves the file empty (`DiesPrinting`),
also one that an earlier run of the same host has filled. The scripts call a host's AppRole the same and
its policy differently (`PolicyName`: dots become dashes in one of them). One run of each
goes on at a time, both may be under way together, be cut off (`Abort`), be repeated, or
find another Vault (`NewVault`), which no longer obeys their token. `policy[n]` is the host
whose path policy `n` opens; a role and a token carry the name of a policy, which Vault
looks up at each read. An id in a file is represented by the Vault it is of, 0 for none.
A server logs in with its own copy, which `install.sh` made (`AgentLogin`): what a later run
does to the files on the Vault host does not disturb it.

`EnrolledReadsItsOwn` says of a host for which a run has ended well that its role stays and
reads its own certificate, and of its files that they log in or that one of them was
emptied; they never come to be ids of two Vaults.

`EnrolledReadsItsOwn` and `TokenReadsItsOwn` are about hosts without an alias
(`Unaliased`): `a.b` and `a-b` share the policy `nginx-a-b`, although
`create-nginx-role.sh:4` says "scoped to a single server". TLC's two hosts have no alias; the
theorems are about any set of names, with any of them aliased.

### 2.7 Json

| `json.hpp` | definitions |
|---|---|
| `lexer::scan`, `skip_bom`, `skip_whitespace`, `scan_literal` | `ScanStart`, `ScanBom`, `ScanLiteral` |
| `scan_number`, a `goto` automaton | `IntegerMoves`, `FractionMoves`, `ExponentMoves`, `ScanNumber` |
| `scan_string`, `next_byte_in_range`, `get_codepoint` | `ScanChar`, `ScanUtf8`, `ScanEscape`, `ScanHex`, `ScanCodepoint`, `ScanPair` |
| `sax_parse_internal` | the actions of `Parse`; `expect` is the place of `get_token()` it waits at |
| `json_sax_dom_parser` | `HandleValue`, `StartContainer`, `EndContainer`, `HandleKey` |
| `basic_json(initializer_list_t)` | `List` |
| `serializer::dump` | `WriteString`, `WriteObject`, `WriteMember`, `EndObject`; its calls are `frames` |
| `serializer::dump_escaped`, `decode` | `EscapeByte`, `EndEscape`, `IncompleteString`, `Decode` |

A step reads one byte, or takes one byte of a string to write, or goes from one call of
`dump` to the next; `get` and `unget` are as in the code, so that
the look-ahead behind a number is a step of its own. The document is a heap of numbered
nodes; `ref_stack` and `object_element` point into it. That a `std::vector` moves its
elements when it grows is what `PointersHold` is about: a pointer stays good as long as
nothing is added to the container it points into, hence it must point to the last element
of an array. The decoder's table (400 numbers) is its two parts, as sets of moves.
`RoundTrip` reads with the client's reader what the client has written, which stands for
Vault's reader, a different program. It says of each body that the document has the same
names and, for each, the same bytes or an object of the same names and bytes; which is as
deep as the client's bodies are (`ClientBodies`).

What a text means is said twice, and neither translates code. `JsonReference` computes it,
by recursion over the text, for TLC. `JsonGrammar` (`IsJson`) says of a text and a
document that there are tokens the text can be cut into, spaces aside, and for every node of
the document a span of these tokens that is written the way its kind is; for proofs.

## 3. Runs

| Run | Question | Result | Bounds and why they suffice |
|---|---|---|---|
| `VaultFetcher_safety` | Is NGINX ever given, or left with, the wrong files? Does the fetcher implement `CertDelivery`? | holds, 1.2 million states | Three files (all there are), interchangeable, hence symmetry. Three versions: one served, one half written, one that overtakes both. Lifetimes 0 and 2 with `RenewBefore` 1: inside and outside the window. Two faults: a crash in mid-write and one more on the way back. |
| `VaultFetcher_liveness` | Is a complete version served in the end? | holds | Two files, two versions, two faults, without symmetry. |
| `VaultFetcher_renewing` | Does "renewing immediately" have something to renew to? | **violated** | One version, no fault. |
| `VaultLifecycle_safety` | Can the key on file be foreign, "Vault is ready" be untrue, the key be lost elsewhere than where it is known to be? Does a start from scratch mend everything? | holds | Three initialisations, three faults: a reset that failed half-way, and another after it. The reset that mends runs when no fault is left. |
| `VaultLifecycle_ready` | Is what start-vault.sh calls ready unsealed? | **violated** | One initialisation, one fault. |
| `VaultLifecycle_keepskey` | Does setup.sh keep the key of an initialised Vault? | **violated** | One initialisation, one fault. |
| `CertPipeline_safety` | What do `true`, `false` and `LastError` let the caller conclude? When does a host go back to an older certificate? Is what was reported as pushed served in the end? | holds, 74 thousand states | Two hosts, four calls: a login, a push that is late, one it overtakes, and what the next call makes of it. |
| `Provisioning_safety` | Is success what it claims, and does the unattended run need nobody and get through? | holds, 0.6 million states | Two Vaults one after the other, four scripts, one fault: some provisioners by hand, a re-initialisation, a run that fails, and one over what they left. |
| `Provisioning_guard` | Does the guard stop a second run? | **violated** | One Vault, no fault. |
| `NginxAgent_safety` | Why does NGINX stay behind? Does an agent with one type ever reload? Does the agent implement `CertDelivery`? Does it deliver? | holds, 0.8 million states | One type or both. Three versions of the first: one served, one half rendered, one that overtakes both; complete or not, the same certificate or another; one of the second, which is there, half there, or not. Stops, boots and failures are not bounded. |
| `ServerRoles_safety` | Does an enrolled host keep reading its certificate, and only its own? | holds, 0.8 million states | Two hosts, one with dots in its name and so with two policies; two Vaults; five runs (`MaxRuns`), cut off anywhere: both scripts for one host, a repetition, the other host, and one with the token of the first Vault. |
| `Json_safety` | Does `parse` read JSON as what it is, does `dump` write it, do the assertions hold? | holds, 0.3 million states | Answers: up to seven fragments of structure (brackets, keys, a duplicate key, values, NUL), five of text (escapes, surrogates, well-formed and broken UTF-8), six of numbers, five of literals and byte order marks. Bodies: strings of up to three of eleven characters. The buffer has 16 bytes instead of 512, so that every string of three characters meets its end. |

Three runs do not check for deadlock: after `MaxCalls` calls the caller is done, after
`MaxRuns` runs of the role scripts nobody need be enrolled any more, and a text has an end. In the other modules an actor can always move.

### What the violated runs show

1. **Renewing immediately** (`main.go:296`). Inside the renewal window the next pass
   starts without a sleep, but a pass only fetches. Until CertMgr pushes a newer
   version, the fetcher logs in, rewrites the same files and signals NGINX without a
   pause, possibly for all of `RENEW_BEFORE_DAYS`.
2. **Ready means unsealed** (`start-vault.sh:109`). On resume the script only looks at
   whether `vault-init.json` exists. Vault comes up sealed after each container start,
   and the script reports it as ready, contrary to QUICKSTART 32-36. A file that an
   interrupted initialisation left empty has the same effect on a Vault that was
   never initialised.
3. **setup.sh loses the key** (`setup.sh:79`). An unanswered `vault status` counts as
   "not initialised", and the branch for that truncates the file before
   `vault operator init` refuses.
4. **The guard asks without a token** (`setup-provisioners.sh:56`). The listing that
   decides whether Vault was provisioned already uses the token of `.env` only, never
   `vault-init.json`. Without one, as `setup-vault.sh:55` offers, it fails, which counts
   as "not provisioned"; the provisioners then find the token, generate a second root CA
   and overwrite `root-ca.crt` with it.

More disagreements between the code and what is said of it, without a run of their own:

- *A stale error* (`vault_push.cpp:204`). "LastError() has details on failure"
  (`vault_push.hpp:71`), but `m_szLastError` is never cleared and is set after a refusal only
  when it is empty (`AnsweredRefusal`): after one transport error, refusals report it.
- *No automatic login* (`vault_push.cpp:177`). "Calls Login() automatically if not yet
  authenticated" (`vault_push.hpp:70`); `PushCertWithoutToken` fails, and could not log in:
  the client keeps no credentials. `StrandedForGood` is the consequence.
- *Kept configuration does not provision* (`script_lib.sh:88`). `QUICKSTART.md:140` has "Start
  fresh (keep config)". The token in the `.env` that was kept, of the deleted Vault, hides the
  new one in `vault-init.json`; after a complete earlier run `.env` also lacks
  `VAULT_API_ADDR`, on which `setup-provisioners.sh:45` insists. (`FreshConfigProvisions` holds
  for a new `.env`.)
- *Variables vanish.* The provisioners remove variables from `.env` (`SaveEnvFile` replaces it
  by `Variables(prov)`), contrary to "persisted" in `server/provisioners/README.md:67`;
  `NeverPrompts` holds nevertheless, because of the exports.
- *Success without engines.* "All provisioners completed successfully!" says nothing of the
  engines: enabling the cert method may have failed (`EnableFails`), which no later command
  notices; `ProvisionerDelivers` therefore speaks of engines only for undisturbed runs.
- *Pushing with a reader's role.* `push-cert-api.sh` and `client/cpp_client/README.md:79-80` push
  with the AppRole that `create-nginx-role.sh` made, whose policy only reads: always refused.
- *Two hosts, one policy*: see 2.6.
- *A default installation does not reload* (`reload-nginx.sh:17-29`). "Check each cert type
  directory that exists", "skip cert types not configured" say the hook's comments (15, 19);
  `vault-agent.service:13-14` makes both directories, so that the hook of an installation for
  one type waits for files nobody renders and logs "skipping reload" each time
  (`OneTypeNeverReloads`). `client/nginx/README.md:5-6,85,95` promises that NGINX "reloads
  automatically".
- *The tmpfs of the unit is nobody's* (`vault-agent.service:15-17,22`). "SSL files disappear"
  on stop; they do not (2.5). They are on the tmpfs of `/run`, in directories that `mkdir` made
  with its default mode, instead of one of mode 0750 and group `nginx`.
- *The unit after a boot.* `ReadWritePaths=/run/vault` without a `-` (line 30) demands a
  directory that only the unit's own line 13 makes; `install.sh:45` makes `/run/vault-agent`
  alone. systemd does not start the first command, until somebody makes the directory.
- *The hook in the unit's namespaces.* The hook is a process of the unit, so that `nginx -t` runs with a
  read-only file system but for three directories; what it wants to write elsewhere, like
  NGINX's own temporary directories, makes it fail. `HookFails` allows for it.
- *An empty credential is installed* (`install.sh:28`). It asks whether `role_id` and `secret_id`
  exist; a run of `create-nginx-role.sh` that was cut off leaves one of them empty, of a host
  that was enrolled before, too.
- *RSA and dual-stack installations.* To uncomment the RSA section,
  `client/nginx/install.sh:75,78` strips `# ` from every line that continues with two blanks,
  also from the explanations at the top of `config.hcl` (lines 5, 6, 12, 13 of the template),
  which is then no valid configuration. (`installed` has both types where the section is
  uncommented by hand.)
- *Vault's own certificate*: see 6.

`KeyGivenUpKnowingly` and `StaleErrorMeansUnwritten` hold and delimit finding 3 and the stale
error: cleanup and the unanswered query are the only ways to lose a key, and a push with a
stale error was at least certainly refused.

## 4. Fairness

Five runs need it. `VaultFetcher_liveness` uses `FairSpec`: weak fairness of the
clock, of the process's own steps, of waking, and of starting it again (an
assumption about the installation, by a service manager or an operator: the repository
sets no restart policy for it). Strong fairness for `AppRoleLogin`,
`FetchSecret` and `ReloadNginx`: Vault and docker may fail any number of times, but an
attempt that is repeated for ever succeeds now and then. Strong fairness for
`NginxStart` and `NginxAccept`: they are disabled whenever a pass has the files open,
and enabled again after it; NGINX does not meet the same short window each time. There
is no fairness for CertMgr, for a reload's failure, or for any fault.
`VaultLifecycle_safety` and `Provisioning_safety` assume for their liveness properties that
a script that was started runs on; the operator owes nothing, and no fault is left by the
premise `faults = MaxFaults`.
`CertPipeline_safety` assumes that on each host what fetches comes round to the current
version again and again, which is what `VaultFetcher_liveness` shows of the fetcher, under
its own fairness; nothing is assumed of the client, the network or Vault.
`NginxAgent_safety` assumes that the agent reads the secrets again and goes on with its pass
and its command (Vault Agent's template loop). Nothing is assumed of its restart, which after
a boot may never come, or of NGINX, and the hook may fail every time.

## 5. Proofs

The constants are arbitrary: any non-empty set of files, any bounds, times and
lifetimes, any number of initialisations, hosts and calls. The assumptions
(`FilesAssumption`, `BoundsAssumption`, `TimesAssumption`, `LifecycleBounds`,
`ClientBounds`, `ProvisioningBounds`, `VersionBound`, `VaultBound`, `RunBound`, `HostNames`, `BufferBound`,
`AnswerFamilies`, `ClientBodies`) say no more than that, and TLC evaluates them in every run.
Each proofs module defines an inductive invariant `IInv`, proves `Init => IInv` and
`IInv /\ [Next]_vars => IInv'`, one step per action, and draws the theorems from it.

**VaultFetcherProofs.** `TypeCorrect`, `SignalsWholeSets`, `WakesInTime`, `RestsCurrent`,
`NeverRollsBack`, `Refinement`. `SignalledWhole` is not inductive: nothing in it says how
the files came to be those of `held`. `Writing` does: during a pass, the files no longer
in `todo` are those of `held`. `Published` bounds every version on disk by `newest` and
ties each file on disk to a field of its version, so that a whole set is a complete
version. `Advance` relates the version NGINX loaded to those that are in the directory
and held: it is not newer than any file's version, and no file's is newer than `held`; from it follow
`NoRollback` and the refinement's step for `Deliver`. `Signalled` carries
`RestingServesCurrent` from the signal to the sleep. `Refinement` maps `Push` to
`Publish`, `NginxStart` and `NginxAccept` to `Deliver`, `NginxStop` and `Reboot` to `Stop`
or a stutter, all else to a stutter.

**VaultLifecycleProofs.** `LifecycleTypes`, `NoForeignKey`, `SetupIsTruthful`, `KeyIsKept`.
`Numbered` (there is always an initialisation left to make for an empty volume) serves the
types; `Initialising` says what the file and the volume look like between the truncation
and the save; `Undisturbed` carries what setup.sh has seen of Vault through a run without
faults. That the file holds the key of the Vault there is needs no quiet run: it follows from
`KeyMatchesVault` at the unseal.

**CertPipelineProofs.** Of the client: `ClientTypes`, `FailuresHaveAnError`, `TrueIsWritten`,
`StaleErrorIsRefusal`, `StrandedUntilReplaced`. `OnItsWay` and `AnswerIsTrue` relate the
answer that waits, the request on its way and the versions in Vault; `Numbered` keeps late
requests of earlier calls apart from the current one. Of the pipeline: `PipelineTypes`,
`OvertakersWereReported`, `RollbacksWereReported`. Each step of the pipeline is one of the
client or leaves it alone, so that the client's invariant holds of the pipeline, too.
On top of it, `Outstanding` says that what is on its way was either reported as failed or is
the call that has not returned, and `Overtaken` that whatever replaced a push reported as
done is newer or reported as failed. `VersionsWritten` ties each version in `history` to a
call that Vault has stored, and `LateOnesFailed` says that a version behind a newer
certificate is of a call that was reported as failed: what NGINX goes back to by taking
a higher version is one of those.

**NginxAgentProofs.** `AgentTypes`, `ReloadedMeansLoaded`, `ReloadNeedsBothTypes`,
`AgentDelivers`. `Ordered` puts what NGINX has of a type before the key on disk, and that
before the pass. `Logged` is `StalenessHasACause` during a pass, too: it needs that the
certificate is never written without the command becoming due, and that a command which
`Stop` takes away is not counted as one that reloaded. `NotInstalled` says that the files of
a type without templates are never there, so that a reload, which finds all six, had both
types; the other way to another certificate, NGINX's start, is none while it runs.

**ServerRolesProofs.** `RoleTypes`, `RolesHavePolicies`, `EnrolmentLasts`, `TokensStayScoped`.
`PoliciesNamed` says that a policy opens the path of a host that names it so; `InOrder` what
each script has already done at each command; `EnrolledInOrder` that the ids of a host that
is enrolled are of this Vault or gone, and that no run for it with the token of an earlier
Vault is left to bring others.

**JsonProofs.** `ReaderAgrees`, `WriterFits`, `JsonTyped`, `BodiesComeBack`, for any bytes, any length and
nesting of the answers, and any buffer of 13 bytes or more.

- *The writer stays in its buffer.* `WriterInv` says how many bytes of an incomplete code
  point have been copied in each state of the decoder (`Copied`), up to three, which the
  reserve of 13 covers, as it covers an escape and its NUL.
- *Parser and handler agree.* `ReaderInv` relates the two stacks at each place the parser can
  wait (`Depths`, `KindsMatch`, `PlaceMatches`), says that `ref_stack` points to ever newer
  nodes (`Rising`), so that adding a node disturbs none of them, and that each is held by the
  one before it (`Chained`).
- *What the lexer keeps are bytes.* `JsonTyped` needs that what escapes make are bytes:
  `LexerOK` says what the lexer's `rest` is at each label (what is left of a literal, the UTF-8
  ranges that are due, the hexadecimal digits so far) and that a surrogate that waits is a
  high one; `EncodeIs` gives the bytes of a code point. An attempt at `ScanCodepointOK` showed
  that two guards of the definition overlapped, as those of the source do not; it was
  rewritten.
- *Where the writer is.* A place (`Snap`) is the stack of `dump`'s calls, the byte of the
  string the innermost is at, the decoder's state, and how much of an escape is out. `Good`
  says which places there are, `Emits` which byte leads from one to the next, and
  `Reaches(out, p)` that the bytes written so far lead from the start to `p`. That the writer
  only writes along such a path (`WriterAt`) is what ties `out` to the body without a recursive
  definition of JSON. `Covered` and `Clean` are the UTF-8 side: the decoder is back in state 0
  exactly behind whole code points (`Whole`), so a string is written to its end if and only if
  it is UTF-8 (`JsonScalars`, by the code points, not by a table), and `dump` throws for
  nothing else.

The last section proves `BodiesComeBack`: `RoundTrip` for every body of the client's form,
whatever its names and strings, every buffer size, and a connection that is cut anywhere.
`Follows(p)` says what the reader has when it has read as far as the place `p`: the scanner
(`ScannerAt`: the string so far, unescaped; in a code point the ranges that are due; in an
escape its digits), the parser's stack and place (`PlaceOf`), and the document
(`DocumentAt`: the members that are complete, with the values they hold, and the name that
waits for its value). `ReadAlong` takes the path by which the body was written and
says `Follows` of the place on it that the bytes of `text` lead to; each byte moves the
reader one place on (`ParserFollows` for the bytes that end a token), and the path ends
where the body does. The converse part,
that no cut body is taken for a whole one, has a section of its own: at every place but the last,
the end of input is a `parse_error`.
The assumption `ClientBodies` says what the initializer lists of `vault_push.cpp` build:
objects of strings and of objects of strings, in each of which a name occurs once (they are
`std::map`s).

**JsonAcceptProofs.** `OnlyJsonIsAccepted`: whatever bytes the reader is given, if `parse`
returns a value, the bytes are JSON by `JsonGrammar`, and the document is what they say
(`IsJson(text, nodes)`): the strings with their escapes, the numbers, the elements in
their order, and of members of one name the last.

- *The lexer.* `CutUp` says that the bytes so far are tokens, spaces and at most one token
  that is begun; `Partial`, for each label of the lexer, what is begun and what `token_buffer`
  holds of it: the characters of a string so far, an escape or a code point that is open, a
  high surrogate that waits, the part of a number. The byte behind a number is read twice
  (`unget`), so `TextIs` says which bytes have been used. The answer may end with a NUL or
  without one (`EndsAsJson`).
- *Parser and handler.* `TreeSoFar` gives each node the span of its tokens: of a container
  that is closed (`Spanned`) and one on the stack, with its members so far (`OpenIn`) and
  the name or the comma that `expect` has seen (`Waiting`). A token adds to the innermost
  only; `FinishTree` and `ParseEnds` draw `TreeOf` from it at the end of input.
- `JsonInv` puts both together (`JsonSoFar`) with the types and the agreement of parser
  and handler (`TypeInv`), and is inductive.

`IsJson` quantifies over all sequences of tokens, which TLC cannot enumerate; that the
grammar allows too much is what `Understood` guards against, which compares the same
documents with `JsonReference` on small answers.

**ProvisioningProofs.** `ProvisioningTypes`, `Unattended`, `EachDelivers`, `SuccessIsReal`.
`RootsBounded` is needed for the types: while the command that generates the root CA is
ahead, there is room for one more. `Done` and `DoneBefore` say of every command that is
behind, in this provisioner and the ones before it, that its effect is still there
(`Effective`) and what it has shown of the token (`Shown`); `CommandsAddUp` is the step all
commands share. `SuccessIsReal` also needs that the last provisioner writes, which proves
the token good, and saves it. The lists of commands enter only through `StepFacts` and
`Landmarks`.

**Only model-checked**: the liveness properties `Delivered`, `ScratchRecovers`,
`FreshConfigProvisions`, `ServedInTheEnd` and `DeliveredUnlessHookFails`; and of the JSON
library `Understood` and `NothingRefused`, which compare arbitrary answers with
`JsonReference`, a recursive definition over data. Of `Understood`, that what is accepted
is JSON and has this value is proved, against `JsonGrammar`; that the value is the only one,
and that the client takes the token from it, is not. Of `NothingRefused`, the
converse, that no text that is refused begins a JSON text, nothing is.
Liveness under fairness, and ENABLED, are beyond the prover used here.

## 6. Not modelled, and why

- What Vault computes (PKI, token cryptography), openssl, TLS and HTTP: external; their
  outcomes are choices of the actions.
- An arbitrarily malformed store: `Pushable` lets CertMgr omit one field or the date.
- Wording of messages, prompts, and answers like "Cancelled.", which change nothing.
- A command whose effect takes place although it reports failure.
- Two operators at once: the scripts are interactive and have no locking; the model has one
  script at a time.
- *Vault's own certificate* (`server/agent`). As installed it cannot work: `install.sh:15` needs
  `init/vault-tls-approle.env`, which no script of the repository writes; it puts credentials
  and templates into `/etc/vault-agent-host`, while `vault-agent.hcl` reads `/etc/vault-agent`;
  and the agent is to speak plain HTTP to port 8200, which is the TLS listener. A model would
  be one of a program that is not there. `push-vault-tls.sh` reads two files and writes one
  secret, `bootstrap.sh` writes two files.
- `enroll.sh`, which writes a policy and a certificate role for one server and prints a wrapped
  token in one pass, without state of its own on the server it enrols, `push-cert-api.sh` and the other scripts that push one certificate by hand,
  `renew-token.sh` (one command), `guided-tour.sh` (the same provisioners, with explanations).
- Of `json.hpp`, 25 526 lines, what the client never calls: the binary formats (CBOR,
  MessagePack, UBJSON, BSON), iterators, JSON pointers, patches, merging, comparisons, pretty
  printing, `ensure_ascii`, output of numbers and arrays, the callback parser, user-defined
  conversions, and the macros and traits around them. The share of the lines that the map
  covers is therefore small and stays so: the client uses a small part of the file.
  Numbers are their digits, libc's conversions being outside; which of them overflow is a
  choice (`MayOverflow`). The document's destructor, which changes no document, and
  allocation failures are left out.
- The Domino curl test (one request, printed), Makefiles, Dockerfiles and templates keep no
  state of their own.

## 7. Plan

Done: all modules of section 2 with their proofs. Left:

1. Proofs: `RestingServesCurrent`-like statements for `CertPipeline` with `VaultFetcher` in
   place of `CertDelivery`; the converse of `OnlyJsonIsAccepted`, for `NothingRefused`.
2. Should the host's agent be repaired, `HostTls` after the pattern of `NginxAgent`.
3. Enrolment with `enroll.sh`, if it gains state (a retry, a stored certificate).
