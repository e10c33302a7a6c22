------------------------------ MODULE VaultSync ------------------------------
(***************************************************************************)
(* Synchronization of the encrypted vault: State.SaveDraft, State.Sync and *)
(* State.SyncRetry of internal/cloudsync/client.go on every device, the    *)
(* compare-and-swap of PUT /v1/vault in cloud/src/index.ts on the server,  *)
(* and the browser console, which commits on the snapshot it holds.        *)
(*                                                                         *)
(* disk[d] is the account file of device d, replaced atomically by         *)
(* State.Save.  A process of the device holds the file lock from load to   *)
(* exit (cloudsync.Lock), so a device runs one of them at a time: run[d]   *)
(* is that process, or idle.  A process can be killed at any step, a       *)
(* request or its answer can be lost, and a request whose sender gave up   *)
(* can still reach the server later.                                       *)
(***************************************************************************)
EXTENDS VaultData, Naturals, Sequences

CONSTANTS Devices,
          NoSnapshot,
          FirstVaults, \* what the vault may hold when the devices log in
          MaxEdits,   \* bound: edits made by all users together
          MaxAborts   \* bound: processes cut off before they finish

ASSUME SyncAssumption ==
    /\ FirstVaults \subseteq Data
    /\ MaxEdits \in Nat /\ MaxAborts \in Nat
    /\ NoSnapshot \notin [rev : Nat, op : Nat, data : Data]
    /\ NoSnapshot \notin [op : Nat, base : Nat, data : Data]

VARIABLES
    history,   \* the committed snapshots; the account row holds the last one
    disk,      \* disk[d]: the persisted State of device d
    run,       \* run[d]: the process that holds d's account lock
    wire,      \* PUT requests on their way to, or inside, the server
    answer,    \* answer[d]: the server's answer to d's outstanding PUT
    edits, aborts,
    ops        \* operation ids minted so far

vars == <<history, disk, run, wire, answer, edits, aborts, ops>>

-----------------------------------------------------------------------------
Snapshot == [rev : Nat, op : Nat, data : Data]
\* The body of PUT /v1/vault.  The operation id stands for the blob and its
\* signature too: both are made afresh with it.
Upload == [op : Nat, base : Nat, data : Data]

State == [base : Snapshot, draft : Data, dirty : BOOLEAN,
          pending : Upload \cup {NoSnapshot}]

\* The steps of Sync between which another process can act.
Steps == {"idle", "sendPending", "awaitPending", "get", "merge",
          "sendPut", "awaitPut"}

Process == [step : Steps, s : State, remote : Snapshot \cup {NoSnapshot}]

Request == [dev : Devices, up : Upload, phase : {"sent", "verified"},
            live : BOOLEAN]

Answer == [code : {"none", "conflict"}] \cup
          [code : {"ok"}, snap : Snapshot]

TypeOK ==
    /\ history \in Seq(Snapshot) /\ Len(history) > 0
    /\ disk \in [Devices -> State]
    /\ run \in [Devices -> Process]
    /\ wire \in SUBSET Request
    /\ answer \in [Devices -> Answer]
    /\ edits \in Nat /\ aborts \in Nat /\ ops \in Nat

server == history[Len(history)]
NoAnswer == [code |-> "none"]

\* No process; s is what the next one will load.
Idle(s) == [step |-> "idle", s |-> s, remote |-> NoSnapshot]

\* Every device has logged in to the same revision, here numbered 1.
Init ==
    \E data \in FirstVaults :
    LET first == [rev |-> 1, op |-> 0, data |-> data]
        fresh == [base |-> first, draft |-> data, dirty |-> FALSE,
                  pending |-> NoSnapshot]
    IN /\ history = <<first>>
       /\ disk = [d \in Devices |-> fresh]
       /\ run = [d \in Devices |-> Idle(fresh)]
       /\ wire = {}
       /\ answer = [d \in Devices |-> NoAnswer]
       /\ edits = 0 /\ aborts = 0 /\ ops = 0

-----------------------------------------------------------------------------
(* Edits on a device: open the draft under the lock, change it, SaveDraft. *)

\* Mutation of SaveDraft: an edit is accepted while an upload is pending.
SaveDraftOverPending(d, data) ==
    /\ run[d].step = "idle"
    /\ edits < MaxEdits
    /\ edits' = edits + 1
    /\ LET s == [disk[d] EXCEPT !.draft = data, !.dirty = TRUE]
       IN disk' = [disk EXCEPT ![d] = s] /\ run' = [run EXCEPT ![d] = Idle(s)]
    /\ UNCHANGED <<history, wire, answer, aborts, ops>>

SaveDraft(d, data) ==
    /\ run[d].step = "idle"
    /\ disk[d].pending = NoSnapshot
    /\ edits < MaxEdits
    /\ edits' = edits + 1
    /\ LET s == [disk[d] EXCEPT !.draft = data, !.dirty = TRUE]
       IN disk' = [disk EXCEPT ![d] = s] /\ run' = [run EXCEPT ![d] = Idle(s)]
    /\ UNCHANGED <<history, wire, answer, aborts, ops>>

ImportEntry(d) ==
    \E id \in Ids, meta \in Metas, a \in Aliases,
       keys \in {{}} \cup {{c} : c \in Credentials} :
        /\ Kind[id] # "device"
        /\ keys # {} => Kind[id] = "key"
        /\ SaveDraft(d, Import(disk[d].draft, id, meta, a, keys))

ChangePassword(d) ==
    \E id \in Ids, c \in Credentials :
        /\ Kind[id] = "password"
        /\ Findable(disk[d].draft, id)
        /\ SaveDraft(d, SetPassword(disk[d].draft, id, c))

RemoveEntry(d) ==
    \E id \in Ids :
        /\ Findable(disk[d].draft, id)
        /\ SaveDraft(d, Remove(disk[d].draft, id))

ResolveConflict(d) ==
    \E id \in Ids, side \in {"local", "remote"} :
        /\ disk[d].draft.conflicts[id] # NoConflict
        /\ SaveDraft(d, Resolve(disk[d].draft, id, side))

AddDeviceEntry(d) ==
    \E id \in Ids, meta \in Metas, a \in Aliases :
        /\ Kind[id] = "device"
        /\ disk[d].draft.conflicts[id] = NoConflict
        /\ SaveDraft(d, AddDevice(disk[d].draft, id, meta, a))

EditDraft(d) == \/ ImportEntry(d) \/ ChangePassword(d) \/ RemoveEntry(d)
                \/ ResolveConflict(d) \/ AddDeviceEntry(d)

-----------------------------------------------------------------------------
(* Sync on a device *)

Goto(d, step) == run' = [run EXCEPT ![d].step = step]

SyncBegin(d) ==
    /\ run[d].step = "idle"
    /\ run' = [run EXCEPT ![d].step = IF disk[d].pending = NoSnapshot
                                        THEN "get" ELSE "sendPending"]
    /\ UNCHANGED <<history, disk, wire, answer, edits, aborts, ops>>

Send(d, await) ==
    /\ wire' = wire \cup {[dev |-> d, up |-> run[d].s.pending,
                           phase |-> "sent", live |-> TRUE]}
    /\ Goto(d, await)
    /\ UNCHANGED <<history, disk, answer, edits, aborts, ops>>

SendPending(d) == run[d].step = "sendPending" /\ Send(d, "awaitPending")
SendPut(d) == run[d].step = "sendPut" /\ Send(d, "awaitPut")

\* Base and Draft become the acknowledged snapshot, Pending and Dirty are
\* cleared, and the account file is saved.
Acknowledged(snap) == [base |-> snap, draft |-> snap.data, dirty |-> FALSE,
                       pending |-> NoSnapshot]

Finish(d, state) ==
    /\ disk' = [disk EXCEPT ![d] = state]
    /\ run' = [run EXCEPT ![d] = Idle(state)]
    /\ answer' = [answer EXCEPT ![d] = NoAnswer]
    /\ UNCHANGED <<history, wire, edits, aborts, ops>>

PutAcknowledged(d) ==
    /\ run[d].step \in {"awaitPending", "awaitPut"}
    /\ answer[d].code = "ok"
    /\ answer[d].snap.op = run[d].s.pending.op
    /\ run[d].step = "awaitPut"
         => answer[d].snap.rev = run[d].remote.rev + 1
    /\ Finish(d, Acknowledged(answer[d].snap))

\* Mutation of PendingRefused: the error ends the sync and keeps the upload.
PendingRefusedGivesUp(d) ==
    /\ run[d].step = "awaitPending"
    /\ answer[d].code = "conflict"
    /\ run' = [run EXCEPT ![d] = Idle(disk[d])]
    /\ answer' = [answer EXCEPT ![d] = NoAnswer]
    /\ UNCHANGED <<history, disk, wire, edits, aborts, ops>>

\* 409 to the retried upload: forget it in memory and start over from the
\* server's snapshot; the file still names it.
PendingRefused(d) ==
    /\ run[d].step = "awaitPending"
    /\ answer[d].code = "conflict"
    /\ run' = [run EXCEPT ![d].s.pending = NoSnapshot, ![d].step = "get"]
    /\ answer' = [answer EXCEPT ![d] = NoAnswer]
    /\ UNCHANGED <<history, disk, wire, edits, aborts, ops>>

\* 409 to the fresh upload: SyncRetry calls Sync again with the State it has.
PutRefused(d) ==
    /\ run[d].step = "awaitPut"
    /\ answer[d].code = "conflict"
    /\ Goto(d, "sendPending")
    /\ answer' = [answer EXCEPT ![d] = NoAnswer]
    /\ UNCHANGED <<history, disk, wire, edits, aborts, ops>>

GetRemote(d) ==
    /\ run[d].step = "get"
    /\ run' = [run EXCEPT ![d].remote = server, ![d].step = "merge"]
    /\ UNCHANGED <<history, disk, wire, answer, edits, aborts, ops>>

\* The two checks of Sync on the snapshot it fetched.
RollbackDetected(d) == run[d].remote.rev < run[d].s.base.rev
HistoryReplaced(d) == /\ run[d].remote.rev = run[d].s.base.rev
                      /\ run[d].remote # run[d].s.base

\* Mutation of FastForward: unsent work is not looked at.
FastForwardOverDirty(d) ==
    /\ run[d].step = "merge"
    /\ ~RollbackDetected(d) /\ ~HistoryReplaced(d)
    /\ Finish(d, Acknowledged(run[d].remote))

FastForward(d) ==
    /\ run[d].step = "merge"
    /\ ~RollbackDetected(d) /\ ~HistoryReplaced(d)
    /\ ~run[d].s.dirty
    /\ Finish(d, Acknowledged(run[d].remote))

\* Mutation of MergeAndSave: the merge after a refusal keeps the operation id.
MergeAndSaveSameOperation(d) ==
    LET s == run[d].s
        merged == Merge(s.base.data, s.draft, run[d].remote.data)
        old == disk[d].pending
        next == [s EXCEPT !.draft = merged,
                          !.pending = [op |-> IF old = NoSnapshot THEN ops + 1
                                                                  ELSE old.op,
                                       base |-> run[d].remote.rev,
                                       data |-> merged]]
    IN /\ run[d].step = "merge"
       /\ ~RollbackDetected(d) /\ ~HistoryReplaced(d)
       /\ s.dirty
       /\ ops' = ops + 1
       /\ disk' = [disk EXCEPT ![d] = next]
       /\ run' = [run EXCEPT ![d].s = next, ![d].step = "sendPut"]
       /\ UNCHANGED <<history, wire, answer, edits, aborts>>

\* Merge, persist the upload as pending, then send it.
MergeAndSave(d) ==
    LET s == run[d].s
        merged == Merge(s.base.data, s.draft, run[d].remote.data)
        next == [s EXCEPT !.draft = merged,
                          !.pending = [op |-> ops + 1,
                                       base |-> run[d].remote.rev,
                                       data |-> merged]]
    IN /\ run[d].step = "merge"
       /\ ~RollbackDetected(d) /\ ~HistoryReplaced(d)
       /\ s.dirty
       /\ ops' = ops + 1
       /\ disk' = [disk EXCEPT ![d] = next]
       /\ run' = [run EXCEPT ![d].s = next, ![d].step = "sendPut"]
       /\ UNCHANGED <<history, wire, answer, edits, aborts>>

\* The process ends before its work does: killed, timed out, network error,
\* retries exhausted.  What it sent may still arrive.
Abort(d) ==
    /\ run[d].step # "idle"
    /\ aborts < MaxAborts
    /\ aborts' = aborts + 1
    /\ run' = [run EXCEPT ![d] = Idle(disk[d])]
    /\ wire' = {[q EXCEPT !.live = @ /\ q.dev # d] : q \in wire}
    /\ answer' = [answer EXCEPT ![d] = NoAnswer]
    /\ UNCHANGED <<history, disk, edits, ops>>

-----------------------------------------------------------------------------
(* The server *)

\* The answer reaches the sender only if it still waits for it.
Reply(q, a) ==
    /\ wire' = wire \ {q}
    /\ answer' = IF q.live THEN [answer EXCEPT ![q.dev] = a] ELSE answer

\* Up to the await of the signature check: an exact replay is answered from
\* the current snapshot, a stale base is refused.
PutReceived(q) ==
    /\ q.phase = "sent"
    /\ \/ /\ server.op = q.up.op
          /\ Reply(q, [code |-> "ok", snap |-> server])
       \/ /\ server.op # q.up.op
          /\ server.rev # q.up.base
          /\ Reply(q, [code |-> "conflict"])
       \/ /\ server.op # q.up.op
          /\ server.rev = q.up.base
          /\ wire' = (wire \ {q}) \cup {[q EXCEPT !.phase = "verified"]}
          /\ UNCHANGED answer
    /\ UNCHANGED <<history, disk, run, edits, aborts, ops>>

\* Mutation of PutCommit: a stale upload is committed on the current revision.
PutCommitRebased(q) ==
    /\ q.phase = "verified"
    /\ LET snap == [rev |-> server.rev + 1, op |-> q.up.op, data |-> q.up.data]
       IN /\ history' = Append(history, snap)
          /\ Reply(q, [code |-> "ok", snap |-> snap])
    /\ UNCHANGED <<disk, run, edits, aborts, ops>>

\* The transaction after the await: the revision is compared again.
PutCommit(q) ==
    /\ q.phase = "verified"
    /\ IF server.rev = q.up.base
         THEN LET snap == [rev |-> q.up.base + 1, op |-> q.up.op,
                           data |-> q.up.data]
              IN /\ history' = Append(history, snap)
                 /\ Reply(q, [code |-> "ok", snap |-> snap])
         ELSE /\ Reply(q, [code |-> "conflict"])
              /\ UNCHANGED history
    /\ UNCHANGED <<disk, run, edits, aborts, ops>>

\* The browser signs a new snapshot on the one it holds; a stale one is
\* refused, so an edit that succeeds is made on the current snapshot.
BrowserCommit(data) ==
    /\ edits < MaxEdits
    /\ edits' = edits + 1 /\ ops' = ops + 1
    /\ history' = Append(history, [rev |-> server.rev + 1, op |-> ops + 1,
                                   data |-> data])
    /\ UNCHANGED <<disk, run, wire, answer, aborts>>

(* What the forms of the console make of the vault v.                      *)

BrowserEdits(v) ==
    UNION {{BrowserEdit(v, id, s, old, new) :
              s \in {t \in Server : Kind[id] = "device" => t.route = v.entries[id].server.route},
              old \in Aliases \cap v.entries[id].adds, new \in Aliases} :
           id \in {i \in Ids : Findable(v, i)}}

BrowserBulkEdits(v) ==
    {BrowserBulkEdit(v, ids, meta) :
        ids \in SUBSET {i \in Ids : Findable(v, i)} \ {{}}, meta \in Metas}

BrowserDeletes(v) ==
    {BrowserDelete(v, ids) : ids \in SUBSET {i \in Ids : v.entries[i] # NoEntry} \ {{}}}

BrowserAdds(v) ==
    {BrowserAdd(v, id, meta, a) : meta \in Metas, a \in Aliases,
        id \in {i \in Ids : Kind[i] # "device" /\ BrowserAddAllowed(v, i)}}

BrowserAddsDevice(v) ==
    {AddDevice(v, id, meta, a) : meta \in Metas, a \in Aliases,
        id \in {i \in Ids : Kind[i] = "device" /\ v.conflicts[i] = NoConflict}}

-----------------------------------------------------------------------------
SyncStep(d) == \/ SendPending(d) \/ SendPut(d)
               \/ PutAcknowledged(d) \/ PendingRefused(d) \/ PutRefused(d)
               \/ GetRemote(d) \/ FastForward(d) \/ MergeAndSave(d)

ServerStep == \E q \in wire : PutReceived(q) \/ PutCommit(q)

Browser == \/ \E data \in BrowserEdits(server.data) : BrowserCommit(data)
           \/ \E data \in BrowserBulkEdits(server.data) : BrowserCommit(data)
           \/ \E data \in BrowserDeletes(server.data) : BrowserCommit(data)
           \/ \E data \in BrowserAdds(server.data) : BrowserCommit(data)
           \/ \E data \in BrowserAddsDevice(server.data) : BrowserCommit(data)

Next == \/ \E d \in Devices : EditDraft(d) \/ SyncBegin(d) \/ SyncStep(d)
                               \/ Abort(d)
        \/ ServerStep
        \/ Browser

Spec == Init /\ [][Next]_vars

\* Background sync starts again and again (runStoredCloudSync), a process that
\* is not cut off finishes, and the server answers every request it has.  No
\* fairness of the users' edits and of Abort.
Fairness == /\ \A d \in Devices : WF_vars(SyncBegin(d)) /\ WF_vars(SyncStep(d))
            /\ WF_vars(ServerStep)

FairSpec == Spec /\ Fairness

-----------------------------------------------------------------------------
(* Properties *)

\* Whatever snapshot a device believes committed (its base, the one it just
\* fetched) is the one the server committed under that revision, through lost
\* acknowledgements, retried uploads and late requests.
BaseCommitted ==
    \A d \in Devices : \A b \in {disk[d].base, run[d].s.base, run[d].remote} :
        b # NoSnapshot => b.rev \in 1..Len(history) /\ history[b.rev] = b

\* The alarms of Sync are silent while the server is honest: a fetched snapshot
\* is neither a rollback nor a replaced history, and an acknowledgement names
\* the upload it answers ("cloud commit acknowledgement mismatch", "pending
\* operation mismatch").
NoFalseAlarm ==
    \A d \in Devices :
        /\ run[d].step = "merge" => ~RollbackDetected(d) /\ ~HistoryReplaced(d)
        /\ answer[d].code = "ok" =>
             /\ answer[d].snap.op = run[d].s.pending.op
             /\ answer[d].snap.data = run[d].s.pending.data
             /\ run[d].step = "awaitPut"
                  => answer[d].snap.rev = run[d].remote.rev + 1

\* An upload that is retried after its answer was lost, or that arrives twice,
\* is committed at most once (the idempotent retry that Sync promises).
CommittedOnce ==
    \A i, j \in DOMAIN history : history[i].op = history[j].op => i = j

\* "A failed upload never erases the encrypted local draft": a device without
\* unsent work holds exactly its base, and a pending upload is its draft.
DraftKept ==
    \A d \in Devices : \A s \in {disk[d], run[d].s} :
        /\ ~s.dirty => s.draft = s.base.data /\ s.pending = NoSnapshot
        /\ s.pending # NoSnapshot => s.pending.data = s.draft

\* Unsent work is given up only for a committed snapshot that contains it: the
\* draft of a dirty device stays dirty until that very draft is in the history.
DirtyUntilCommitted ==
    [][\A d \in Devices :
         disk[d].dirty /\ ~disk'[d].dirty
           => \E i \in DOMAIN history : history[i] = disk'[d].base
                                        /\ history[i].data = run[d].s.draft]_disk

\* What the devices have on disk and what the server committed, as a vault they
\* share: a pending upload is a draft merged with its base.
Commits == [i \in DOMAIN history |-> history[i].data]
Bases == [d \in Devices |-> disk[d].base.rev]
Drafts == [d \in Devices |-> disk[d].draft]
Unsent == [d \in Devices |-> disk[d].dirty]
MergedWith == [d \in Devices |-> IF disk[d].pending = NoSnapshot THEN 0 ELSE disk[d].pending.base]

BrowserVaults(v) ==
    BrowserEdits(v) \cup BrowserBulkEdits(v) \cup BrowserDeletes(v)
        \cup BrowserAdds(v) \cup BrowserAddsDevice(v)

Shared == INSTANCE SharedVault
    WITH Console <- BrowserVaults, log <- Commits, base <- Bases, draft <- Drafts,
         dirty <- Unsent, merged <- MergedWith

\* Sync, SaveDraft and PUT /v1/vault implement SharedVault: through crashes, lost
\* answers, retries and late requests, a commit is the present draft of a device
\* merged with the last vault before it, made once; unsent work is given up only
\* for the commit of that work, and no device goes back.
ImplementsSharedVault == Shared!Spec

\* What was added on this device and is not in the common base survives the
\* merge with any remote vault, in the entry or in its conflict record.
MergeKeepsAdditions ==
    [][\A d \in Devices : disk[d].pending # disk'[d].pending =>
         \A id \in Ids, x \in Items :
            Holds(run[d].s.draft.entries[id], x)
            /\ ~Holds(run[d].s.base.data.entries[id], x)
            /\ disk'[d].pending # NoSnapshot
              => Retains(disk'[d].draft, id, x)]_disk

\* When the users stop editing, background sync brings every device to the
\* server's snapshot, with nothing left to upload.
Converges ==
    <>[](\A d \in Devices : ~disk[d].dirty /\ disk[d].base = server)

-----------------------------------------------------------------------------
(* What the repository's texts say and the code does not do *)

\* The first revision of the run of tombstones of id that ends at n.
TombstoneRev(id, n) ==
    CHOOSE k \in 1..n : /\ \A j \in k..n : id \in history[j].data.deleted
                        /\ k > 1 => id \notin history[k - 1].data.deleted

\* docs/cloud-sync.md: a tombstone is kept and an old offline copy cannot
\* silently revive the connection.  An upload made on a base older than the
\* tombstone it was merged with does not drop that tombstone.
TombstoneRespected ==
    \A d \in Devices, id \in Ids :
        (/\ run[d].step = "sendPut"
         /\ id \in run[d].remote.data.deleted
         /\ run[d].s.base.rev < TombstoneRev(id, run[d].remote.rev))
          => id \in run[d].s.draft.deleted
=============================================================================
