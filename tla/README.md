# sshm: a TLA+ verification project

sshm is an SSH connection manager written in Go, with a zero-knowledge cloud
vault (a Cloudflare worker in TypeScript and a browser console in JavaScript),
a local encrypted credential store, a local SSH agent, an MCP server and a
remote terminal. This directory models its stateful core in TLA+, checks it with
TLC on small instances and proves the central safety properties with TLAPS.

## 1. Inventory

| part | state | operations | hard behaviour | module |
|---|---|---|---|---|
| vault data (`cloudsync/data.go`, `merge_additions.go`, `device_entry.go`) | entries, tombstones, conflict records | Import, SetPassword, Remove, Resolve, AddDevice, Merge, repair | three-way merge of edits from several devices | `VaultData` |
| vault synchronization (`cloudsync/client.go`, `cloud/src/index.ts`, `browser/account.js`) | `State` file per device (base, draft, dirty, pending), the account's current snapshot | SaveDraft, Sync, SyncRetry, PUT /v1/vault, browser commits | lost answers, late requests, crashes between two writes, an await between check and commit | `VaultSync` |
| device jobs (`cloud/src/jobs.ts`, `cloudsync/jobs.go`, `commands/cloud_jobs.go`) | job table, receipt journal per installation | dispatch, cancel, poll, claim, execute, report, prune | crash during an execution, two installations with one credential, queue limits, timeouts | `CloudJobs` |
| local credential store (`localstore/`) | one encrypted file, a lock marker, a flock | Update and its six uses, Lock, Unlock, Read, Resolve | several processes; a process that dies inside an update; a lock that races with a write | `LocalStore`, `CredentialStore` |
| local service (`localservice/service.go`, `ssh/managed_auth.go`) | none of its own: it reads the store per target | List, Sign, managedAuth | the store changes between two targets of a request | `LocalService` |
| account server and its clients (`cloud/src/index.ts`, `commands/cloud*.go`) | devices and tokens, root key, links; the state file | register, login, link, approve, revoke, password, recover, rotate | state read before an await and saved after it | `AccountServer`, `CloudAccount` |
| configuration file (`config/`, `cloudsync/local_inventory.go`, the editing commands and tools, `cleanup`) | TOML file, its lock, cloud ownership, activity | Update, add, edit, rm, use, cleanup, probes, PublishInventory | editors that take no lock; observations that arrive after an edit | `ConfigFile` |
| relay and web terminal (`cloud/src/relay.ts`, `cloudagent/`) | sockets, epochs, sessions, replay set, input queues | open, attach, input, output, close, revoke | close/attach races, replayed opens, reconnects | `Terminal` |
| pairing, provisioning and keys (`pair/`, `commands/pair.go`, `provision.go`, `keys/`) | key files, authorized_keys, sshd's password switch, the record of an alias, the callback server | pair, pair --no-callback, provision, gen-key, copy-id | partial failure, retried callbacks, two commands at once | `Enrollment` |
| SSH client (`ssh/`) | transports, agents, sessions of a call; known_hosts | Dial, ProbeRoute, exec, terminal, Close | a timer against a stalled server, fallbacks, first contacts that race | `Connection` |
| MCP cloud session (`mcp/cloud_session.go`) | status, generation, token, timer | Begin, waitApproval, Resolve, Close | an approval that comes after its request was given up | `CloudSession` |
| transfers (`mcp/tools_transfer.go`, `transfer_core.go`, `commands/transfer.go`) | .part files, jobs | upload, download, in the foreground or as jobs | resumption of another file's part, sources that change, two transfers with one destination | `Transfers` |
| service instance (`localservice/`) | process lock, socket | Ensure, Run, RunSupervised | two starters, stale sockets | not modelled yet |
| credential publication and hardening | remembered vaults | publish, rebind, harden | rebinding after a rekey | not modelled yet |
| updater, integrations, safety, inventory, status, desktop session, UI | files, text | ordered steps | partial failure | not modelled |

How they interact: the CLI, the MCP server and the background sync of the local
service all open the account file under `cloudsync.Lock` and the credential
store under its flock; Sync talks to the account server, whose answer it merges
into the draft, publishes into the configuration file and remembers in the
credential store; the SSH client and the agent read the credential store; the
console dispatches jobs through the account server to a device, whose agent
polls them; the relay connects a browser with the agent of a device; MCP
transfers and commands dial through the SSH client with credentials of the
credential store or of the cloud session; the enrolling commands write key
files, hosts and the configuration file.

What makes each part correct is in section 3, by run; what can go wrong where is
in the `hazards` of `PROJECT.json`.

## 2. Modules

**`VaultData`** is the pure part: what a vault holds and every operation on it.
An entry is its server configuration (the route that `EntryID` digests and the
metadata it does not) plus the aliases and credential ids, which merge by union.
Activity, hardware and sources merge pointwise and never decide about an entry,
so they are left out.

**`VaultSync`** EXTENDS it with the devices, the server and the network.
`disk[d]` is the account file of device `d`, `run[d]` the process that holds the
account lock, with its own copy of the `State` and the step of `Sync` it is in.
`wire` holds PUT requests; `PutReceived` is the handler up to the await of the
signature check and `PutCommit` the transaction after it. `Abort` ends a process
anywhere; what it sent stays on the wire. `history` is the sequence of committed
snapshots (the worker keeps the last one in the account row). **`SharedVault`** is what
this promises to the devices: one sequence of vaults, each an edit of the console
or a device's draft merged with the vault before it, committed once; a device
moves forward along it and gives up unsent work only for the commit of that work.
`ImplementsSharedVault` states it under a mapping that reads the account files and
the history: a draft with a pending upload is one that was merged.

**`CloudJobs`** models the job queue of one device on the server, with `prune` at
the head of every request, and `ProcessJobs` on each agent, with the journal
that is written before the claim. Two agents are two installations that share
the credential, for instance a copied configuration.

**`CredentialStore`** is the abstract store: every operation takes effect at one
moment between call and return, or not at all, and nothing changes while the
store is locked. **`LocalStore`** models `Store.Update` as the code runs it: flock,
read and change (`Stage`), the second `CheckLocked` (`Recheck`), the rename
(`Write`) and the release; `Lock` and `Unlock` take the same flock; a process can
die at any point and the operating system drops its flock. `Linearizable` is the
abstract specification under the refinement mapping of `LocalStore`: the content
is the file, the effect is the rename or the change of the marker.

**`LocalService`** EXTENDS it with the two kinds of readers: a signature request of
the SSH agent, which resolves target after target, and a connection attempt of
`managedAuth`. `seen` is a history variable: what the store offered since the
request arrived. A connection whose caller brings signers or a password of its own
(`explicit`) checks the lock and skips the store.

**`AccountServer`** models the `Account` object of `cloud/src/index.ts`: the row of
the account table (root key, recovery code, password, snapshot, sessions) and
the link requests. There is one action per stretch of a handler between two
awaits. A request is `sent`, then `routed` while the job router yields, then
`verifying` while a signature is checked, and what a handler read before an
await travels with the request (`saw`, `root`, `base`). A vault number stands for
a master key, so for its root public key and for the recovery code made with it.

**`CloudAccount`** EXTENDS it with the clients: `register`, `login`, `recover`,
`logout`, `change-password`, `devices --revoke`, `rekey`, `sync` and `link` of the
CLI, and the console that unlocks the vault and approves or rejects links.
`disk[c]` is the state file (or the memory of the console), `proc[c]` the command
that runs under the lock of that file. `Fail` ends a command at any step; its
request is lost, or is served with nobody left to take the answer (`orphan`).
`Expire` lets a session or a link request run out. What a vault contains, the
merge and the retry of a pending upload are the subject of `VaultSync`; here a
draft is only clean or dirty. Account deletion is an operation of the server that
no command of the CLI calls; it is included because it competes with every other
handler.

**`ConfigFile`** models `config.Update` (lock, read, callback, temporary file, second
read, rename) and every caller of it. A callback is a set of configurations:
empty when it returns an error, several when the result depends on the iteration
order of a Go map. Callers that looked at the file before they took the lock (a
wizard, a probe, a cleanup preview) carry what they saw. The editor takes no
lock; its save between the second read and the rename is the window the code
cannot close, recorded by `raced`. The two loops of `PublishInventory` are stated by
what they leave behind: a set of records that goes in some order of the walk
(`Walks`), and a place for each live entry (`Placings`). `MCConfigFile` has them as loops
too, and its `ASSUME LoopsAgree` compares both over all small configurations. An
entry brings its host, its jump host and its cleanup protection (`EntryServer`),
and its id digests the route of both.

**`Terminal`** is the relay, the agent and one client per session, with in-order
sockets that may break. The verification of an `open` yields in the relay, so
its handler is two steps. The agent's `terminal` has the input queue, the attach
to its process and the close as separate steps.

**`Enrollment`** has one process counter per command run; key files are inspected
and written in separate steps because they are not locked, scripts run on their
hosts step by step, callbacks are lost and retried, and an editor changes the
record meanwhile. Copy-id on the host is an append, the truncation of
`authorized_keys.tmp` by the shell, awk's read and its write, the mv, and the trap,
which also runs after a failure; `awk` has what each copier has read and which file
its output still leads to when others move or remove the name. `clashed` records
the users of whose file two copiers were between truncation and mv at once. Updates of the configuration file and of the credential store
are single steps here, which is what `ConfigFile` and `LocalStore` are about.

**`Connection`** models a call of `Dial` or `ProbeRoute` with everything it opens
(`open`): agents, vault signers, proxy processes, transports of the jump host
and the target, SSH connections, sessions, raw terminals. Servers, proxies and
the network may stall, refuse or present another key; the handshake has its
timer; several dials share known_hosts and, within a process, the mutex.

**`CloudSession`** is the MCP process's approval: the mutex is held across the
requests of `Begin` and `Resolve`, the wait runs without it, and the generation
tells a late approval from the one that is waited for. **`Transfers`** has the file
at the destination and its `.part` name, with files that go on being written
through an open handle. **`McpServer`** EXTENDS both: a transfer to a connection of
the vault takes its credentials from the session when it dials.

`MC*` modules give TLC the constants; `*Proofs` modules hold the theorems.

## 3. Runs

| run | instance | shows |
|---|---|---|
| `vault_sync` | 2 devices, a device and a password connection, 2 edits, 1 abort; the vault has a conflict | the devices implement `SharedVault`; no work is dropped, committed twice or mistaken for a rollback; convergence under fairness |
| `vault_sync_tombstone` (violation) | 4 edits, 1 abort | `TombstoneRespected` fails |
| `cloud_jobs_shared` | 1 job, 2 agents, 1 abort, 1 re-login | exactly-once execution, cancellation, truthful and final verdicts, arrival of the receipt if its result is one the server lists (`done` and one it does not list can come out) |
| `cloud_jobs_queue` | 3 jobs, queue of 1, table of 2 | limits under concurrent dispatch, eviction |
| `local_service` | 2 writers, 1 agent request, 1 client with or without credentials of its own | the store implements `CredentialStore`; signatures and logins only with what was on offer, except with explicit credentials |
| `account_links` | 2 installations, the browser, 1 link, 4 sessions, 2 vaults, 1 fault | ended sessions stay ended and do nothing; a link is approved once; who is logged in knows the vault |
| `account_vault` | 2 installations, 3 sessions, 2 vaults, 2 passwords, 1 fault | root, code and snapshot of one vault; the code is never lost |
| `config_file` | 2 processes, 3 operations of 14 kinds, 3 aliases, 2 entries of the vault of which one is reached through the other, 1 editor save | no edit lost; removals take nothing in use and leave no dangling reference but what the vault itself brings; a late observation never lands on another machine's record |
| `terminal` | 1 session, a queue of 1 frame, 2 inputs, 1 output, 2 agent connections, 1 fault | no shell outlives its session, order, silence after revocation, and a terminal whose client left is closed |
| `enrollment` | 8 pairs of commands, 2 key paths, 2 hosts, 2 callback tries, 1 edit | a host closed to passwords stays reachable unless two rewrites of its file overlapped, saved records were proved, "sent" means accepted |
| `connection` | 13 pairs of 9 kinds of call, 3 hosts, in 1 or 2 processes | everything opened is closed, strict routes, pins, no false refusal, and every dial returns |
| `mcp_server` | 2 links, 1 transfer through the vault and 2 changes; or 2 transfers and 1 edit | late approvals are discarded and their tokens revoked, an old session ends, a destination goes from one whole file to another |

Bounds. Two edits let two devices clash, or resolve in two ways the conflict that
the vault has at the start (`FirstVaults`); one abort is enough to lose
an acknowledgement and to leave a late request behind. Two devices suffice for
the merge, which always has three inputs. Two agents and one job reach every race for the claim; three jobs over a
table of two reach eviction and a retried dispatch of an evicted job. For the
account, two vaults allow one rotation after the registration, four sessions a
registration, a web login and two approvals of the same request, and one fault a
revocation, a lost answer or an expiry in the middle of any of it; a second
fault only repeats these. The two runs differ in the commands that users give
(`Commands`), because links and recovery do not fit into one instance. The
refusal of a session above the device limit is in the model and is not reached by
these instances. The configuration file needs two processes for a race and a
third operation so that an observation can be made before, and written after, a
removal and a re-creation; three aliases are a jump host, its user and a new
name. A queue of one frame overflows with two inputs, and two agent connections
are one reconnect. `MixedScenarios` pairs the commands that share a host, a key
path or an alias. For a connection every kind of call of `Calls` runs beside the
one that pins its jump host and falls back, and the one that starts a process
runs beside itself and three others; the proofs cover the pairs left out. In
`mcp_server` two links give an earlier approval that arrives during a later
request; the two halves of the instance share no state, which is why they are
explored one after the other (`Scenes`). The bounds `MaxEdits`, `MaxRecordEdits`, `MaxAborts`,
`MaxCreates`, `MaxAccess`, `MaxSessions`, `MaxVaults`, `MaxPasswords`, `MaxIds`,
`MaxRevision`, `MaxFaults`, `MaxNow`, `MaxOps`, `MaxEpoch`, `MaxTries`, `MaxVault`
and `MaxChanges` are guards of the actions they bound. The proofs hold for every
value of them. Deadlock is not checked where users may simply stop.

Fairness. `VaultSync`: a device starts Sync again and again (`runStoredCloudSync`
loops until its context ends), a process that is not cut off continues, the
server answers. Users and aborts are never fair, and `Converges` says what
happens once the edits stop. `CloudJobs`: the agent polls again, works and is
served. `Terminal`: the relay and the agent handle what arrives, the relay is told
of a closed socket, and the agent's session timer runs; clients and faults are
not fair. `Connection`: a call's own computation goes on and its timer expires;
servers and proxies owe nothing, and the agent is assumed to answer (see below).
`McpServer`: every request that is made under the mutex has a deadline (fifteen
seconds for the account server, thirty for the agent that `Resolve` asks), so its holder
lets it go; the timer's goroutine gets the mutex although others take it again
and again, because Go hands a mutex to whoever has waited longest: strong
fairness.

`SessionKnowsVault` names two exceptions that the code really has. An
installation whose rotation was committed and whose answer was lost keeps a valid
session and the old root: every sync fails on the root it does not know until the
user logs in again with the new phrase. And `cloud login` keeps an unsynced draft
together with its old base when the phrase opens it, which it does after a
rotation by somebody else that reused the phrase (`PhraseOf` is the same for every
vault in the instances, so that this happens).

### Divergences and observations

With a run of its own:

* A tombstone can be dropped silently (`vault_sync_tombstone`): a restore is
  committed but its acknowledgement is lost, the connection is deleted again, the
  retry is refused, and the three-way merge against the old base, in which the
  connection was deleted too, takes the device's restore for the only change.

Found while modelling; the model behaves as the code does, and the properties
that hold are stated around them:

* Vault: a conflict record that is not uploaded yet can be overwritten by a second
  merge, whose local side is nil (`cloudsync/data.go:320`, `:415`). The console's
  form adds a connection under the digest of its route without removing a
  tombstone of that id (`browser/account.js:165`), and `PublishInventory` skips
  tombstoned ids.
* Jobs: the table holds 200 rows, and a dispatch into a full one evicts the oldest
  job that is over (`jobs.ts:46`). An evicted job that the console dispatches again
  while it is fresh is a new job to the server, so a second installation with
  the same credential executes it although the first one did; each installation
  by itself still starts it once (`AgentStartsOnce`). `executeCloudJob` can return
  `installed_version_unknown` (`commands/cloud_jobs.go:45`), which the server's list
  does not have (`jobs.ts:8`): it refuses every report of it, the job expires and the
  update that was made is never shown. `ProcessJobs` ends at the refused report, so
  the jobs behind it in the list wait until the server gives it up, up to ten
  minutes, and may expire as well. `ReceiptArrives` is about the listed results and
  lets a job off while another `Blocking` one is in front; the run has one job, so
  only the first restriction is at work in it.
* Local store: `managedAuth` returns before it opens the store when the caller brings
  signers or a password (`ssh/managed_auth.go:29-33`). A password typed at the prompt,
  `cloud connect` and connections of the MCP server with credentials of the vault so
  reach a target that was disabled on this device, also one that was disabled while
  the prompt was open; an explicit lock stops them. `LoginWhileOffered` is about all
  other connections.
* Configuration: `PublishInventory` carries the last use of a record over to an
  edited connection under the same alias (`cloudsync/local_inventory.go:153`). It removes
  the record of a deleted connection and then publishes the live ones with the
  ProxyJump of their entries (`:139`), so a record can come in that refers to the alias
  just removed. `RemovalIsSafe` excepts exactly this (`BroughtByVault`): the record is
  made from its entry in that publication, and it is the entry that names the alias;
  `init` and the bootstrap tool set the initial state without comparing the
  identity of the record.
* Terminal: "revocation or disconnect wins" (`relay.ts:53`) holds for revocation;
  a client that leaves during the verification of its own open is forwarded to
  the agent all the same, and the session is closed by the next message.
* Enrollment: `pair --no-callback` removes the generated key when it fails
  (`commands/pair.go:434-438`) though its messages say that it will be reused
  (`:505`, `:510`); the removal can meet a second command that has just begun to
  use the file. When two commands generate a key at one path, the second can
  store its recovery secret after the first and then fail on the exclusive
  creation of the file, so the secret in the store is not the one of the key that
  is there (`keys/generate.go:30`, `:129`). If the first of them had closed its host
  to passwords, that key no longer opens it: `KeyOnlyIsReachable` holds for the
  commands of `MixedScenarios` and fails when both provision with a key of their
  own at one path. Copy-id rewrites authorized_keys through
  one temporary name (`keys/copyid.go:35`), so what another copy-id or a pairing
  script appends in between is lost. When two rewrites of one user's file overlap,
  more can be: one shell truncates the temporary file that the other is about to move
  into place, or one's awk writes its older lines into the file the other has moved
  already. The first can leave authorized_keys empty, also on a host that is closed to
  passwords, and two provisions of one alias suffice for the second. So the comment "ensures the given
  public key is present ... exactly once" (`:14-16`) holds for one command at a time.
  `KeyOnlyIsReachable` excepts the users in `clashed`, and the run reaches the
  exception: without it, TLC finds the second of these traces.
* Connection: two concurrent first contacts with one host from two processes both
  pin, each what it saw (`ssh/hostkey.go:47`, `:86-90`). The agent sockets behind a
  vault's signers stay open when a password entry does not use them
  (`ssh/dial.go:138`). An agent that hangs blocks the handshake beyond its timer.
  A proxy that does not parse counts as none, even for a strict route, and `cloud
  connect` does not ask for a strict route. A host whose known_hosts lines are
  partly stale is refused when the stale one has the preferred algorithm, although
  another of its keys is known.
* Cloud session: when the MCP process exits (`commands/mcp.go:25`), the goroutine that
  revokes a token (`mcp/cloud_session.go:145`) dies with it, so this last revocation is
  best effort; the model has no exit of the process. `cloud_lock` does not withdraw its link request, so a later
  approval creates a device whose token nobody holds; the same when the wait
  fails after the approval. The server's expiry ends it.
* Transfers: the SHA-256 an upload reports is that of the local path, not of the
  destination, so a resumption from another version's `.part` reports a checksum
  the destination does not have. Removing and renaming at the end of an upload
  are two steps. Two transfers to one destination share one `.part`, and a second
  upload whose rename fails removes what the first one completed. With three, the
  rename of one moves, by name, the `.part` that another has begun. `alone` in
  `DestinationWhole` excludes exactly these.

## 4. Proofs

Eight modules hold theorems; each holds for every set of devices, entries,
credentials, processes, calls and sessions and for every bound. Few of the
properties are inductive, so each module states the strengthening it needs.

**`VaultSyncProofs`.** `MergeRetains`: what the local draft added survives
`Merge`. Type correctness and the invariants `BaseCommitted`, `CommittedOnce`,
`DraftKept`, `NoFalseAlarm`, with `DirtyUntilCommitted` and `MergeKeepsAdditions`
as action properties. `Inv` adds, in layers: the shape of a process in each step
(what it may have pending, when it has a fetched snapshot); that the history is
numbered by its revisions and every base is in it; that an operation id is
minted once, so an upload in a file, in a process, on the wire or in the history
under one id has one content and one base; and that an answer belongs to the
upload its receiver waits for. `SyncRefines` shows that synchronization implements
`SharedVault`. It needs `Current`: an upload on the wire that was made on the current
revision is the one its device has pending (a late copy of a replaced upload has a
base the server has left), a pending upload is made on a revision not older than
the device's base, and a refusal comes only to an upload whose base the server
has left. So the commit of any request, whoever sent it and whenever, is the
commit of a present draft, and a merge after a refusal is with a later vault.

**`LocalServiceProofs`.** The store: type correctness, one writer, no lost update, a
lock that freezes the store, and `StoreRefines`: the store implements
`CredentialStore`. The strengthening says what a staged copy is: the change of its
process applied to the store of this moment, which only the holder of the flock
can change; and that the marker is absent after the second check and never
without a store. Its readers: `SignedWhileOffered` and `LoginWhileOffered`, because a
matched key is among what was seen, for each step of the request; an attempt with
explicit credentials never reads the store.

**`CloudAccountProofs`.** Type correctness, `OneVault`, `RecoverySaved` and
`SessionKnowsVault` as invariants, `EndedStaysEnded`, `RevocationWins`, the growth of
revisions and `ApprovedOnce` as action properties. `Effect(r)` and `LinksEffect(r)`
say what serving one request may do, whichever handler it is: which sessions may
appear, how root, code and snapshot may move, that nothing changes without an
accepted token. `IInv` says what requests under way satisfy: a put that is being
verified was signed by the root read before the await (`PutSigned`), so the second
comparison of roots makes the new snapshot one of the root in force; the code of
a vault that is being registered or rotated is in its file (`CodesSaved`); a link
id on its way is new to the server and travels once (`LinkFresh`), so a start
never resets an approved request. `SessInv`, for `SessionKnowsVault`, follows the
token: every token anybody holds was issued by the server (`TokensIssued`,
`OfAccount`); a request under way is the one its sender waits for (`Awaited`); and
for each command and each step, the vault that the answer will make the client
remember is the vault in force unless the session is gone by then (`SentBy`,
`AnsweredTo`, `Knows`).

**`CloudJobsProofs`.** Type correctness, `VerdictFinal`, `QueueBounded`, and that an
agent starts a job at most once, for any table. `ExecutedOnce`,
`CancelledNeverRuns` and `ReceiptTruthful` need one assumption more, `Roomy`: the
table has room for every job, so no row is evicted. Without it they are false
(section 3, Jobs). `OnceInv` consists of what the journal says about what was
started (`JournalInv`); that a request whose sender still waits is the only one,
and about the job at hand (`LiveInv`); that a receipt on the wire is one its agent
got by executing (`ReceiptInv`); what a row's status says of its claim (`RowInv`);
that the agent which has started a job, or been told to, is the one the row
names (`OwnerInv`); and that a claim which passed the check still holds
(`VerifiedInv`).

**`TerminalProofs`.** Type correctness, `NoOrphanShell`, `InOrder` and `RevokedIsSilent`.
The first needs the agent alone: where the goroutine of a session is says whether
the process exists and is attached (`SessOK`). Order follows a frame's counter:
whatever the sockets do, a frame with counter k is the k-th its sender made. `Inv`
says it of every place a frame can be in: in the relay and on its sockets
(`RelayOK`, `Routed`), from the agent, and for each session and its client in
pairs (`SendOK`, `InputOK`, `ClientOK`): what was counted is what was sent, and what is
queued continues what the process has read.

**`ConnectionProofs`.** Type correctness, `Released`, `StrictRouteKept`, `PinsStand`,
`KnownServerAccepted`. Every action replaces the record of one call, so `Inv` is a
predicate of a call and known_hosts: which resources a call may hold in which
step, by hop and kind of route (`OpenOK`), which ways it may have tried (`RouteOK`),
what stands behind a key it is about to accept or to append (`TrustOK`).
`KnownServerAccepted` needs `AcceptInv`: the key under negotiation is the one that the
preferences of this hop determine. It assumes `Tidy`: one key per algorithm and
machine, and lines of a host that are all current or all stale at the start. With
one of each the property is false (section 3, Connection).

**`ConfigFileProofs`.** `NoLostEdit`, from `UpdateInv`: one process is between its read
and its rename, and a process that has read the file twice finds it unchanged or
has been raced by the editor. Type correctness, `RemovalIsSafe` and
`ActivityOfIdentity`, from `FileInv`: what waits for the lock is a request some caller
may make, however old its view of the file is (`Asked`), and what is drafted
removes well and observes right with respect to the file it was made from
(`Drafted`), with the backup already kept. `EffectWell` says it of every callback:
most change one record and remove none (`Plain`); a publication may drop a record
only if nothing left refers to it when its turn comes, whatever the order, and what
refers to a dropped alias afterwards is a record it made from an entry with that
jump host (`PublicationWell`, `BroughtByVault`). Then the commands of `Enrollment`: `SavedIsProved`,
because a proof of login is about the user, host and path of its run from the
login to the record (`EnrollInv`); `SentIsAccepted`, because a place whose script has
been answered is the one the callback server accepted, whatever was lost in
between (`ReportInv`); and `ClosesAfterProof`: a host loses its password logins only
after some run logged in to it with a key, because no run is proved before its
steps that close (`ClosedInv`). `KeyOnlyIsReachable`, that a closed host can still be
reached, needs `Apart`: no command but copy-id is given the key path of a
provision. Then (`ReachInv`) nobody else knows that path until the provision has
saved its record (`Hidden`), and a pairing that takes the path from the record
finds the key there and so neither makes nor removes one (`Guests`); the private
key, the store's entry and the agent's copy stay (`Kept`, `Signs`). A line can
disappear from authorized_keys only by a rewrite, and while no two rewrites of the
file overlap, the one there is writes to the temporary file or, once another
command's trap removed it, to nothing (`AwkInv`), and the proved key is in what awk has
read and in what is about to be moved into place (`Carried`, `Listed`, `Lines`). Each step of
a copier keeps this of every key (`LinesGrow`); a key that is just appended has it
from the truncation of its own command on (`Tidy`).
The run goes beyond `Apart` with a pairing and a provision at one path.

**`McpServerProofs`.** `LateApprovalDiscarded` and `TokenNeverDropped`, from `SInv`:
whoever holds the mutex has read the account file, `Begin` holds it only while
the session is locked, only a ready session has a device, and a wait that is not
over is of the session's generation only when the session is pending for it and
it is the newest. `DestinationWhole`, from `TInv`: a transfer that is alone with its
destination is the only writer of the `.part` that the name leads to, and this
file holds exactly the bytes it has copied.

The assumptions are the `ASSUME`s of the modules: model values are distinct from
the values they stand beside, bounds are natural numbers, jobs, sessions and
links are finite sets, links are numbered, blocks of a file are not the mark of a
torn one, no key file is called "none", and transfers are callers of the session.
`Roomy`, `Tidy` and `Apart` are hypotheses of the theorems named above and of no
other.

Model-checked only:

* the liveness properties (`Converges`, `ReceiptArrives`, `LeftIsClosed`,
  `DialReturns`, `AgeEndsSession`), which are out of the prover's reach;
* that the loops of `PublishInventory` compute what `Walks` and `Placings` say
  (`LoopsAgree`), which is an induction over data;
* `KeyOnlyIsReachable` for a provision and another command at one path, which is
  true of the pairing of its run and not of all commands (section 3, Enrollment).


## 5. Not modelled

Encryption, signatures and encodings: an upload is identified by its operation
id, with which blob and signature are made afresh. HTTP framing, rate limiting,
rendering, prompting, text masking, remote probes, operating-system key stores.

Of modelled parts: the collapse of duplicate aliases and the restoration of
legacy bindings in `PublishInventory`, `cloud_bindings.go`, the upgrade of old
configuration files, the validation of metadata and the records of hardware and
platform; remote addresses, `@revoked` and `@cert-authority` lines of
known_hosts, failure categories, and the loading of stored identities into the
agent; terminal resizing; the project and read tools of the MCP server, which
format text. `PROJECT.json` lists every part with its status.

## 6. Plan

Done: the vault and its synchronization, device jobs, the local store with its
abstract specification, the shared vault that synchronization implements, the local
service, the account, the configuration file,
the relay and its terminals, enrollment, the SSH client, the MCP cloud session
and transfers. Next, in order:

1. The service instance and its supervision; the publication of credentials
   (`cloudsync/local_credentials.go`) with rebinding after a rekey; the updater.
2. `AccountServer` shown to implement the sequence of vaults of `SharedVault`, with a
   change of the root for a rotation.
