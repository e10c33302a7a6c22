--------------------------- MODULE VaultSyncProofs ---------------------------
(***************************************************************************)
(* The operations on a vault keep its type, and the three-way merge loses  *)
(* no addition of the local side, for every set of ids, aliases,           *)
(* credentials and routes.  Synchronization is safe for any number of      *)
(* devices, ids, edits and aborts.  The inductive invariant is built in    *)
(* five layers, each proved with the help of the ones below it:            *)
(*   Shape    - types, and what each step of Sync knows to be present;     *)
(*   Committed - every snapshot anyone holds is the one in the history;    *)
(*   Operations - an operation id names one upload, committed in one place; *)
(*   Answers  - who waits, for what, and what the answer says;             *)
(*   Current  - an upload that can still be committed is the one its       *)
(*              device has pending.                                        *)
(* With the last one, synchronization implements SharedVault.              *)
(***************************************************************************)
EXTENDS VaultSync, TLAPS

-----------------------------------------------------------------------------
(* The operations on a vault *)

LEMMA NewDataType == NewData \in Data
BY DEF NewData, Data, MaybeEntry, MaybeConflict

LEMMA NewEntryType ==
    ASSUME NEW id \in Ids, NEW meta \in Metas, NEW adds \in SUBSET Items
    PROVE NewEntry(id, meta, adds) \in Entry
BY VaultAssumption DEF NewEntry, Entry, Server

LEMMA ChangedType ==
    ASSUME NEW S, NEW b \in S, NEW l \in S, NEW r \in S
    PROVE Changed(b, l, r) \in S
BY DEF Changed

LEMMA MergeAdditionsType ==
    ASSUME NEW a \in Entry, NEW b \in Entry
    PROVE /\ MergeAdditions(a, b) \in Entry
          /\ MergeAdditions(a, b).adds = a.adds \cup b.adds
BY DEF MergeAdditions, Entry

LEMMA SelectEntryType ==
    ASSUME NEW b \in MaybeEntry, NEW l \in MaybeEntry, NEW r \in MaybeEntry
    PROVE SelectEntry(b, l, r) \in MaybeEntry
<1>1. CASE l = r \/ b = r \/ b = l \/ Clash(b, l, r)
  BY <1>1 DEF SelectEntry
<1>2. CASE l # r /\ b # r /\ b # l /\ ~Clash(b, l, r)
  <2>1. l \in Entry /\ r \in Entry
    BY <1>2 DEF Clash, CompatibleEntries, SameConnectionAddedTwice, MaybeEntry
  <2> QED
    BY <1>2, <2>1, MergeAdditionsType DEF SelectEntry, MaybeEntry
<1> QED
  BY <1>1, <1>2

LEMMA RepairType ==
    ASSUME NEW d \in Data
    PROVE RepairCompatibleConflicts(d) \in Data
<1>1. ASSUME NEW id \in Ids, Repairable(d, id)
      PROVE MergeAdditions(MergeAdditions(d.conflicts[id].local,
                                          d.conflicts[id].remote),
                           d.entries[id]) \in Entry
  <2>1. d.conflicts[id] \in Conflict /\ d.entries[id] \in Entry
    BY <1>1 DEF Repairable, Data, MaybeEntry, MaybeConflict
  <2>2. d.conflicts[id].local \in Entry /\ d.conflicts[id].remote \in Entry
    BY <1>1, <2>1 DEF Repairable, CompatibleEntries, Conflict, MaybeEntry
  <2> QED
    BY <2>1, <2>2, MergeAdditionsType
<1> QED
  BY <1>1 DEF RepairCompatibleConflicts, Data, MaybeEntry, MaybeConflict

\* The merge before the repair of compatible conflicts.
Unrepaired(base, local, remote) ==
    LET b == base.entries
        l == local.entries
        r == remote.entries
        deleted == {id \in Ids : Changed(id \in base.deleted,
                                         id \in local.deleted,
                                         id \in remote.deleted)}
        selected == [id \in Ids |-> SelectEntry(b[id], l[id], r[id])]
        resurrected == {id \in deleted : selected[id] # NoEntry}
    IN [entries   |-> [id \in Ids |-> IF id \in resurrected
                                        THEN NoEntry ELSE selected[id]],
        deleted   |-> deleted,
        conflicts |-> [id \in Ids |->
            IF id \in resurrected \/ Clash(b[id], l[id], r[id])
              THEN [local |-> l[id], remote |-> r[id]]
              ELSE Changed(base.conflicts[id], local.conflicts[id],
                           remote.conflicts[id])]]

LEMMA MergeUnrepaired ==
    ASSUME NEW base, NEW local, NEW remote
    PROVE Merge(base, local, remote)
            = RepairCompatibleConflicts(Unrepaired(base, local, remote))
BY DEF Merge, Unrepaired

LEMMA UnrepairedType ==
    ASSUME NEW base \in Data, NEW local \in Data, NEW remote \in Data
    PROVE Unrepaired(base, local, remote) \in Data
<1>1. ASSUME NEW id \in Ids
      PROVE /\ base.entries[id] \in MaybeEntry /\ local.entries[id] \in MaybeEntry
            /\ remote.entries[id] \in MaybeEntry
            /\ base.conflicts[id] \in MaybeConflict
            /\ local.conflicts[id] \in MaybeConflict
            /\ remote.conflicts[id] \in MaybeConflict
  BY <1>1 DEF Data
<1>2. ASSUME NEW id \in Ids
      PROVE /\ SelectEntry(base.entries[id], local.entries[id], remote.entries[id])
                 \in MaybeEntry
            /\ Changed(base.conflicts[id], local.conflicts[id], remote.conflicts[id])
                 \in MaybeConflict
            /\ [local |-> local.entries[id], remote |-> remote.entries[id]]
                 \in MaybeConflict
  BY <1>1, SelectEntryType, ChangedType DEF Conflict, MaybeConflict
<1>3. NoEntry \in MaybeEntry
  BY DEF MaybeEntry
<1> QED
  BY <1>2, <1>3 DEF Unrepaired, Data

LEMMA MergeType ==
    ASSUME NEW base \in Data, NEW local \in Data, NEW remote \in Data
    PROVE Merge(base, local, remote) \in Data
BY MergeUnrepaired, UnrepairedType, RepairType

\* The repair keeps what an entry holds and, when it drops a conflict record,
\* what the record holds.
LEMMA RepairRetains ==
    ASSUME NEW d \in Data, NEW id \in Ids, NEW x, Retains(d, id, x)
    PROVE Retains(RepairCompatibleConflicts(d), id, x)
<1> DEFINE e == RepairCompatibleConflicts(d)
<1>1. CASE ~Repairable(d, id)
  <2>1. e.entries[id] = d.entries[id] /\ e.conflicts[id] = d.conflicts[id]
    BY <1>1 DEF RepairCompatibleConflicts, Data
  <2> QED
    BY <2>1 DEF Retains
<1>2. CASE Repairable(d, id)
  <2>1. /\ d.conflicts[id].local \in Entry /\ d.conflicts[id].remote \in Entry
        /\ d.entries[id] \in Entry
    BY <1>2 DEF Repairable, CompatibleEntries, Data, Conflict, MaybeEntry,
                MaybeConflict
  <2>2. e.entries[id] = MergeAdditions(MergeAdditions(d.conflicts[id].local,
                                                      d.conflicts[id].remote),
                                       d.entries[id])
    BY <1>2 DEF RepairCompatibleConflicts, Data
  <2>3. /\ e.entries[id] \in Entry
        /\ e.entries[id].adds = (d.conflicts[id].local.adds
                                   \cup d.conflicts[id].remote.adds)
                                \cup d.entries[id].adds
    BY <2>1, <2>2, MergeAdditionsType
  <2> HIDE DEF e
  <2>4. Holds(e.entries[id], x)
    BY <2>3, VaultAssumption DEF Retains, Holds
  <2> QED
    BY <2>4 DEF Retains, e
<1> QED
  BY <1>1, <1>2

\* What the local side added since the base, an alias or a credential, is in
\* the merged entry or in its conflict record, whatever the remote side did.
THEOREM MergeRetains ==
    ASSUME NEW base \in Data, NEW local \in Data, NEW remote \in Data,
           NEW id \in Ids, NEW x \in Items,
           Holds(local.entries[id], x), ~Holds(base.entries[id], x)
    PROVE Retains(Merge(base, local, remote), id, x)
<1> DEFINE b == base.entries[id]
           l == local.entries[id]
           r == remote.entries[id]
           u == Unrepaired(base, local, remote)
<1>1. b \in MaybeEntry /\ l \in Entry /\ r \in MaybeEntry /\ b # l
  BY DEF Data, MaybeEntry, Holds
<1>2. \/ u.entries[id] = SelectEntry(b, l, r) /\ ~Clash(b, l, r)
      \/ u.conflicts[id] = [local |-> l, remote |-> r]
  BY DEF Unrepaired
<1>3. CASE u.conflicts[id] = [local |-> l, remote |-> r]
  <2>1. u.conflicts[id] # NoConflict
    BY <1>1, <1>3, VaultAssumption DEF Conflict, MaybeEntry
  <2> QED
    BY <1>3, <2>1, UnrepairedType, RepairRetains, MergeUnrepaired DEF Retains
<1>4. CASE u.entries[id] = SelectEntry(b, l, r) /\ ~Clash(b, l, r)
  <2>1. CASE l = r \/ b = r
    <3>1. u.entries[id] = l
      BY <1>4, <2>1 DEF SelectEntry
    <3> QED
      BY <3>1, UnrepairedType, RepairRetains, MergeUnrepaired DEF Retains
  <2>2. CASE l # r /\ b # r
    <3>1. r \in Entry
      BY <1>1, <1>4, <2>2 DEF Clash, CompatibleEntries, SameConnectionAddedTwice,
                              MaybeEntry
    <3>2. u.entries[id] = MergeAdditions(l, r)
      BY <1>1, <1>4, <2>2 DEF SelectEntry
    <3>3. u.entries[id] \in Entry /\ u.entries[id].adds = l.adds \cup r.adds
      BY <1>1, <3>1, <3>2, MergeAdditionsType
    <3>4. Holds(u.entries[id], x)
      BY <3>3, VaultAssumption DEF Holds
    <3> QED
      BY <3>4, UnrepairedType, RepairRetains, MergeUnrepaired DEF Retains
  <2> QED
    BY <2>1, <2>2
<1> QED
  BY <1>2, <1>3, <1>4

-----------------------------------------------------------------------------
(* The edits *)

LEMMA ImportType ==
    ASSUME NEW d \in Data, NEW id \in Ids, NEW meta \in Metas, NEW a \in Aliases,
           NEW keys \in SUBSET Credentials
    PROVE Import(d, id, meta, a, keys) \in Data
<1>1. NewEntry(id, meta, {a} \cup keys) \in Entry
  BY NewEntryType DEF Items
<1>2. CASE d.entries[id] = NoEntry
  BY <1>1, <1>2 DEF Import, Data, MaybeEntry
<1>3. CASE d.entries[id] # NoEntry
  <2>1. d.entries[id] \in Entry
    BY <1>3 DEF Data, MaybeEntry
  <2> DEFINE e == [d.entries[id] EXCEPT !.adds = @ \cup {a} \cup keys]
  <2>2. e \in Entry
    BY <2>1 DEF Entry, Items
  <2>3. id \notin d.deleted =>
          Import(d, id, meta, a, keys) = [d EXCEPT !.entries[id] = e]
    BY <1>3 DEF Import
  <2>4. id \in d.deleted => Import(d, id, meta, a, keys) = d
    BY DEF Import
  <2> HIDE DEF e
  <2> QED
    BY <2>2, <2>3, <2>4 DEF Data, MaybeEntry
<1> QED
  BY <1>2, <1>3

LEMMA SetPasswordType ==
    ASSUME NEW d \in Data, NEW id \in Ids, NEW c \in Credentials, Findable(d, id)
    PROVE SetPassword(d, id, c) \in Data
<1>1. d.entries[id] \in Entry
  BY DEF Findable, Data, MaybeEntry
<1>2. [d.entries[id] EXCEPT !.adds = (@ \cap Aliases) \cup {c}] \in Entry
  BY <1>1 DEF Entry, Items
<1> QED
  BY <1>2 DEF SetPassword, Data, MaybeEntry

LEMMA RemoveType ==
    ASSUME NEW d \in Data, NEW id \in Ids
    PROVE Remove(d, id) \in Data
BY DEF Remove, Data, MaybeEntry, MaybeConflict

LEMMA ResolveType ==
    ASSUME NEW d \in Data, NEW id \in Ids, NEW side, d.conflicts[id] # NoConflict
    PROVE Resolve(d, id, side) \in Data
<1> DEFINE e == IF side = "local" THEN d.conflicts[id].local
                                  ELSE d.conflicts[id].remote
<1>1. e \in MaybeEntry
  BY DEF Data, MaybeConflict, Conflict
<1>2. [d EXCEPT !.entries[id] = e, !.deleted = @ \ {id},
                !.conflicts[id] = NoConflict] \in Data
  <2> HIDE DEF e
  <2> QED
    BY <1>1 DEF Data, MaybeConflict
<1> QED
  BY <1>2, RemoveType DEF Resolve

LEMMA AddDeviceType ==
    ASSUME NEW d \in Data, NEW id \in Ids, NEW meta \in Metas, NEW a \in Aliases
    PROVE AddDevice(d, id, meta, a) \in Data
<1>1. NewEntry(id, meta, {a}) \in Entry
  BY NewEntryType DEF Items
<1>2. CASE d.entries[id] = NoEntry
  BY <1>1, <1>2 DEF AddDevice, Data, MaybeEntry
<1>3. CASE d.entries[id] # NoEntry
  <2>1. d.entries[id] \in Entry
    BY <1>3 DEF Data, MaybeEntry
  <2>2. [server |-> [d.entries[id].server EXCEPT !.meta = meta],
         adds |-> (d.entries[id].adds \cap Credentials) \cup {a}] \in Entry
    BY <2>1 DEF Entry, Items, Server
  <2> QED
    BY <1>3, <2>2 DEF AddDevice, Data, MaybeEntry
<1> QED
  BY <1>2, <1>3

LEMMA BrowserEditType ==
    ASSUME NEW d \in Data, NEW id \in Ids, NEW s \in Server, NEW old \in Aliases,
           NEW new \in Aliases, Findable(d, id)
    PROVE BrowserEdit(d, id, s, old, new) \in Data
<1>1. d.entries[id] \in Entry
  BY DEF Findable, Data, MaybeEntry
<1>2. [server |-> s, adds |-> (d.entries[id].adds \ {old}) \cup {new}] \in Entry
  BY <1>1 DEF Entry, Items
<1> QED
  BY <1>2 DEF BrowserEdit, Data, MaybeEntry

LEMMA BrowserBulkEditType ==
    ASSUME NEW d \in Data, NEW ids \in SUBSET Ids, NEW meta \in Metas,
           \A id \in ids : Findable(d, id)
    PROVE BrowserBulkEdit(d, ids, meta) \in Data
<1>1. ASSUME NEW id \in ids
      PROVE [d.entries[id] EXCEPT !.server.meta = meta] \in MaybeEntry
  <2>1. d.entries[id] \in Entry
    BY <1>1 DEF Findable, Data, MaybeEntry
  <2> QED
    BY <2>1 DEF Entry, Server, MaybeEntry
<1> DEFINE f == [id \in Ids |-> IF id \in ids
                                  THEN [d.entries[id] EXCEPT !.server.meta = meta]
                                  ELSE d.entries[id]]
<1>2. f \in [Ids -> MaybeEntry]
  BY <1>1 DEF Data
<1>3. BrowserBulkEdit(d, ids, meta) = [d EXCEPT !.entries = f]
  BY DEF BrowserBulkEdit
<1> HIDE DEF f
<1> QED
  BY <1>2, <1>3 DEF Data

LEMMA BrowserDeleteType ==
    ASSUME NEW d \in Data, NEW ids \in SUBSET Ids
    PROVE BrowserDelete(d, ids) \in Data
BY DEF BrowserDelete, Data, MaybeEntry, MaybeConflict

LEMMA BrowserAddType ==
    ASSUME NEW d \in Data, NEW id \in Ids, NEW meta \in Metas, NEW a \in Aliases
    PROVE BrowserAdd(d, id, meta, a) \in Data
<1>1. NewEntry(id, meta, {a}) \in Entry
  BY NewEntryType DEF Items
<1> QED
  BY <1>1 DEF BrowserAdd, Data, MaybeEntry

-----------------------------------------------------------------------------
(* Layer 1 *)

\* The process of a device works on the account file as it is on disk, except
\* that it may have forgotten a refused upload.
StateLoaded ==
    \A d \in Devices : /\ run[d].s \in {disk[d], [disk[d] EXCEPT !.pending = NoSnapshot]}
                       /\ run[d].step = "idle" => run[d] = Idle(disk[d])

StepShape ==
    \A d \in Devices :
        /\ run[d].step \in {"sendPending", "awaitPending", "sendPut", "awaitPut"}
             => run[d].s.pending # NoSnapshot
        /\ run[d].step \in {"merge", "sendPut", "awaitPut"}
             => run[d].remote # NoSnapshot

Shape == TypeOK /\ StateLoaded /\ StepShape

-----------------------------------------------------------------------------
(* Layer 2 *)

\* A revision is its position in the history.
RevIsIndex == \A i \in 1..Len(history) : history[i].rev = i

InHistory(snap) == snap.rev \in 1..Len(history) /\ history[snap.rev] = snap

AnswerCommitted ==
    \A d \in Devices : answer[d].code = "ok" => InHistory(answer[d].snap)

Committed == RevIsIndex /\ BaseCommitted /\ AnswerCommitted

-----------------------------------------------------------------------------
(* Layer 3 *)

\* Every upload that may still reach the server, now or after a retry.
Uploads == {q.up : q \in wire}
           \cup ({disk[d].pending : d \in Devices} \ {NoSnapshot})

OpsMinted == /\ \A i \in 1..Len(history) : history[i].op <= ops
             /\ \A u \in Uploads : u.op <= ops

OneUploadPerOp == \A u, v \in Uploads : u.op = v.op => u = v

\* If an upload was committed, then right on its base and with its content.
CommitPlace ==
    \A u \in Uploads : \A i \in 1..Len(history) :
        history[i].op = u.op => i = u.base + 1 /\ history[i].data = u.data

OncePerOp ==
    \A i, j \in 1..Len(history) : history[i].op = history[j].op => i = j

Operations == OpsMinted /\ OneUploadPerOp /\ CommitPlace /\ OncePerOp

-----------------------------------------------------------------------------
(* Layer 4 *)

Awaiting == {"awaitPending", "awaitPut"}

\* A request whose answer can still arrive is the pending upload of a process
\* that waits and has no answer yet, and there is one such request.
LiveRequest ==
    /\ \A q \in wire : q.live => /\ run[q.dev].step \in Awaiting
                                 /\ answer[q.dev].code = "none"
                                 /\ q.up = run[q.dev].s.pending
    /\ \A q, p \in wire : q.live /\ p.live /\ q.dev = p.dev => q = p

AnswerAwaited ==
    \A d \in Devices : answer[d].code # "none" => run[d].step \in Awaiting

\* The fetched snapshot is not older than the base, and it is the base of the
\* upload made from it.
RemoteFresh ==
    \A d \in Devices :
        /\ run[d].step \in {"merge", "sendPut", "awaitPut"}
             => run[d].remote.rev >= run[d].s.base.rev
        /\ run[d].step \in {"sendPut", "awaitPut"}
             => run[d].s.pending.base = run[d].remote.rev

AnswerMatches ==
    \A d \in Devices : answer[d].code = "ok" =>
        /\ answer[d].snap.op = run[d].s.pending.op
        /\ answer[d].snap.data = run[d].s.pending.data
        /\ answer[d].snap.rev = run[d].s.pending.base + 1

Answers == LiveRequest /\ AnswerAwaited /\ RemoteFresh /\ AnswerMatches

Inv == Shape /\ Committed /\ Operations /\ DraftKept /\ Answers
-----------------------------------------------------------------------------
(* The steps, with every edit reduced to the vault it saves *)

\* The actions as the layers look at them.
DeviceStep(d) ==
    \/ \E data \in Data : SaveDraft(d, data)
    \/ SyncBegin(d) \/ SendPending(d) \/ SendPut(d)
    \/ PutAcknowledged(d) \/ PendingRefused(d) \/ PutRefused(d)
    \/ GetRemote(d) \/ FastForward(d) \/ MergeAndSave(d) \/ Abort(d)

LEMMA EditStep ==
    ASSUME TypeOK, NEW d \in Devices, EditDraft(d)
    PROVE \E data \in Data : SaveDraft(d, data)
<1>1. disk[d].draft \in Data
  BY DEF TypeOK, State
<1>2. CASE ImportEntry(d)
  <2>1. PICK id \in Ids, meta \in Metas, a \in Aliases,
             keys \in {{}} \cup {{c} : c \in Credentials} :
               SaveDraft(d, Import(disk[d].draft, id, meta, a, keys))
    BY <1>2 DEF ImportEntry
  <2>2. keys \in SUBSET Credentials
    OBVIOUS
  <2> QED
    BY <1>1, <2>1, <2>2, ImportType
<1>3. CASE ChangePassword(d)
  BY <1>1, <1>3, SetPasswordType DEF ChangePassword
<1>4. CASE RemoveEntry(d)
  BY <1>1, <1>4, RemoveType DEF RemoveEntry
<1>5. CASE ResolveConflict(d)
  BY <1>1, <1>5, ResolveType DEF ResolveConflict
<1>6. CASE AddDeviceEntry(d)
  BY <1>1, <1>6, AddDeviceType DEF AddDeviceEntry
<1> QED
  BY <1>2, <1>3, <1>4, <1>5, <1>6 DEF EditDraft

LEMMA ServerInHistory ==
    ASSUME TypeOK PROVE Len(history) \in 1..Len(history) /\ server \in Snapshot
BY DEF TypeOK, server

LEMMA BrowserStep ==
    ASSUME TypeOK, Browser
    PROVE \E data \in Data : data \in BrowserVaults(server.data) /\ BrowserCommit(data)
<1>1. server.data \in Data
  BY ServerInHistory DEF Snapshot
<1>2. BrowserEdits(server.data) \subseteq Data
  BY <1>1, BrowserEditType DEF BrowserEdits
<1>3. BrowserBulkEdits(server.data) \subseteq Data
  BY <1>1, BrowserBulkEditType DEF BrowserBulkEdits
<1>4. BrowserDeletes(server.data) \subseteq Data
  BY <1>1, BrowserDeleteType DEF BrowserDeletes
<1>5. BrowserAdds(server.data) \subseteq Data
  BY <1>1, BrowserAddType DEF BrowserAdds
<1>6. BrowserAddsDevice(server.data) \subseteq Data
  BY <1>1, AddDeviceType DEF BrowserAddsDevice
<1> QED
  BY <1>2, <1>3, <1>4, <1>5, <1>6 DEF Browser, BrowserVaults

LEMMA NextCases ==
    ASSUME TypeOK, [Next]_vars
    PROVE \/ \E d \in Devices : DeviceStep(d)
          \/ \E q \in wire : PutReceived(q) \/ PutCommit(q)
          \/ \E data \in Data : BrowserCommit(data)
          \/ UNCHANGED vars
BY EditStep, BrowserStep DEF Next, DeviceStep, SyncStep, ServerStep

-----------------------------------------------------------------------------
(* Layer 1: shape *)

LEMMA IdleType ==
    ASSUME NEW s \in State
    PROVE Idle(s) \in Process /\ Idle(s).step = "idle" /\ Idle(s).s = s
BY DEF Idle, Process, Steps

LEMMA AcknowledgedType ==
    ASSUME NEW snap \in Snapshot PROVE Acknowledged(snap) \in State
BY DEF Acknowledged, Snapshot, State

LEMMA NoAnswerType == NoAnswer \in Answer
BY DEF NoAnswer, Answer

\* A device that goes idle with a state it has just saved.
LEMMA ShapeIdle ==
    ASSUME Shape, NEW d \in Devices, NEW s \in State,
           disk' = [disk EXCEPT ![d] = s], run' = [run EXCEPT ![d] = Idle(s)]
    PROVE /\ disk' \in [Devices -> State] /\ run' \in [Devices -> Process]
          /\ StateLoaded' /\ StepShape'
BY IdleType DEF Shape, TypeOK, StateLoaded, StepShape

LEMMA ShapeDevice ==
    ASSUME Shape, NEW d \in Devices, DeviceStep(d) PROVE Shape'
<1> USE DEF Shape
<1>1. /\ disk[d] \in State /\ run[d] \in Process /\ run[d].s \in State
  BY DEF TypeOK, Process
<1>2. ASSUME NEW data \in Data, SaveDraft(d, data) PROVE Shape'
  <2> DEFINE s == [disk[d] EXCEPT !.draft = data, !.dirty = TRUE]
  <2>1. s \in State
    BY <1>1, <1>2 DEF State
  <2>2. disk' = [disk EXCEPT ![d] = s] /\ run' = [run EXCEPT ![d] = Idle(s)]
    BY <1>2 DEF SaveDraft
  <2>3. UNCHANGED <<history, wire, answer, aborts, ops>> /\ edits' \in Nat
    BY <1>2 DEF SaveDraft, TypeOK
  <2> HIDE DEF s
  <2>4. /\ disk' \in [Devices -> State] /\ run' \in [Devices -> Process]
        /\ StateLoaded' /\ StepShape'
    BY <2>1, <2>2, ShapeIdle
  <2> QED
    BY <2>3, <2>4 DEF TypeOK
<1>3. CASE SyncBegin(d)
  <2> DEFINE st == IF disk[d].pending = NoSnapshot THEN "get" ELSE "sendPending"
  <2>1. run' = [run EXCEPT ![d].step = st] /\ st \in Steps
    BY <1>3 DEF SyncBegin, Steps
  <2>2. run[d].s = disk[d] /\ (st = "sendPending" => disk[d].pending # NoSnapshot)
        /\ st \in {"get", "sendPending"}
    BY <1>1, <1>3, IdleType DEF SyncBegin, StateLoaded
  <2> HIDE DEF st
  <2> QED
    BY <1>1, <1>3, <2>1, <2>2 DEF SyncBegin, TypeOK, Process, StateLoaded, StepShape
<1>4. CASE SendPending(d) \/ SendPut(d)
  <2>1. run[d].s.pending \in Upload
    BY <1>1, <1>4 DEF SendPending, SendPut, StepShape, State
  <2> DEFINE q == [dev |-> d, up |-> run[d].s.pending, phase |-> "sent", live |-> TRUE]
  <2>2. q \in Request
    BY <2>1 DEF Request
  <2>3. PICK st \in Awaiting : Send(d, st) /\ (st = "awaitPut" => run[d].step = "sendPut")
    BY <1>4 DEF SendPending, SendPut, Awaiting
  <2>4. /\ run' = [run EXCEPT ![d].step = st] /\ wire' = wire \cup {q}
        /\ UNCHANGED <<history, disk, answer, edits, aborts, ops>>
    BY <2>3 DEF Send, Goto
  <2>5. run[d].s.pending # NoSnapshot
    BY <1>4 DEF SendPending, SendPut, StepShape
  <2>6. TypeOK'
    BY <1>1, <2>2, <2>3, <2>4 DEF TypeOK, Process, Steps, Awaiting
  <2>7. StateLoaded' /\ StepShape'
    BY <1>1, <2>3, <2>4, <2>5 DEF TypeOK, Process, StateLoaded, StepShape, Awaiting
  <2> QED
    BY <2>6, <2>7
<1>5. CASE PutAcknowledged(d)
  <2>1. answer[d].snap \in Snapshot
    BY <1>5 DEF PutAcknowledged, TypeOK, Answer
  <2> QED
    BY <1>5, <2>1, AcknowledgedType, ShapeIdle, NoAnswerType
       DEF PutAcknowledged, Finish, TypeOK
<1>6. CASE PendingRefused(d)
  <2>1. [run[d].s EXCEPT !.pending = NoSnapshot] \in State
    BY <1>1 DEF State
  <2>2. [run[d].s EXCEPT !.pending = NoSnapshot]
          = [disk[d] EXCEPT !.pending = NoSnapshot]
    BY <1>1 DEF StateLoaded, State
  <2>3. run' = [run EXCEPT ![d] = [run[d] EXCEPT
                  !.s = [run[d].s EXCEPT !.pending = NoSnapshot], !.step = "get"]]
    BY <1>1, <1>6 DEF PendingRefused, TypeOK, Process, State
  <2> QED
    BY <1>1, <1>6, <2>1, <2>2, <2>3, NoAnswerType
       DEF PendingRefused, TypeOK, Process, Steps, StateLoaded, StepShape
<1>7. CASE PutRefused(d)
  BY <1>1, <1>7, NoAnswerType
     DEF PutRefused, Goto, TypeOK, Process, Steps, StateLoaded, StepShape
<1>8. CASE GetRemote(d)
  BY <1>1, <1>8, ServerInHistory, SyncAssumption
     DEF GetRemote, TypeOK, Process, Steps, StateLoaded, StepShape, Snapshot
<1>9. CASE FastForward(d)
  <2>1. run[d].remote \in Snapshot
    BY <1>1, <1>9 DEF FastForward, StepShape, Process
  <2> QED
    BY <1>9, <2>1, AcknowledgedType, ShapeIdle, NoAnswerType
       DEF FastForward, Finish, TypeOK
<1>10. CASE MergeAndSave(d)
  <2> DEFINE s == run[d].s
             merged == Merge(s.base.data, s.draft, run[d].remote.data)
             up == [op |-> ops + 1, base |-> run[d].remote.rev, data |-> merged]
             next == [s EXCEPT !.draft = merged, !.pending = up]
  <2>1. run[d].remote \in Snapshot
    BY <1>1, <1>10 DEF MergeAndSave, StepShape, Process
  <2>2. merged \in Data
    BY <1>1, <2>1, MergeType DEF State, Snapshot
  <2>3. up \in Upload
    <3> HIDE DEF merged
    <3> QED
      BY <2>1, <2>2 DEF Upload, Snapshot, TypeOK
  <2>6. next \in State /\ next.pending = up
    <3> HIDE DEF merged, up
    <3> QED
      BY <1>1, <2>2, <2>3 DEF State
  <2>4. /\ ops' = ops + 1
        /\ disk' = [disk EXCEPT ![d] = next]
        /\ run' = [run EXCEPT ![d].s = next, ![d].step = "sendPut"]
        /\ UNCHANGED <<history, wire, answer, edits, aborts>>
    BY <1>10 DEF MergeAndSave
  <2>5. up # NoSnapshot
    BY <2>3, SyncAssumption DEF Upload
  <2> HIDE DEF next, up
  <2>7. TypeOK'
    <3>1. run' \in [Devices -> Process]
      BY <1>1, <2>4, <2>6 DEF TypeOK, Process, Steps
    <3>2. disk' \in [Devices -> State]
      BY <2>4, <2>6 DEF TypeOK
    <3> QED
      BY <2>4, <3>1, <3>2 DEF TypeOK
  <2>8. StateLoaded'
    BY <1>1, <2>4, <2>6 DEF TypeOK, Process, StateLoaded
  <2>9. StepShape'
    BY <1>1, <2>1, <2>4, <2>5, <2>6, SyncAssumption
       DEF TypeOK, Process, StepShape, Snapshot
  <2> QED
    BY <2>7, <2>8, <2>9
<1>11. CASE Abort(d)
  <2>1. wire' \in SUBSET Request
    BY <1>11 DEF Abort, TypeOK, Request
  <2>2. disk[d] \in State /\ run' = [run EXCEPT ![d] = Idle(disk[d])] /\ disk' = disk
    BY <1>11 DEF Abort, TypeOK
  <2>3. Idle(disk[d]) \in Process /\ Idle(disk[d]).step = "idle" /\ Idle(disk[d]).s = disk[d]
    BY <2>2, IdleType
  <2>4. /\ run' \in [Devices -> Process] /\ run'[d] = Idle(disk[d])
        /\ \A c \in Devices \ {d} : run'[c] = run[c]
    BY <2>2, <2>3 DEF TypeOK
  <2>5. TypeOK'
    BY <1>11, <2>1, <2>4, NoAnswerType DEF Abort, TypeOK
  <2>6. StateLoaded' /\ StepShape'
    BY <2>2, <2>3, <2>4 DEF StateLoaded, StepShape
  <2> QED
    BY <2>5, <2>6
<1> QED
  BY <1>2, <1>3, <1>4, <1>5, <1>6, <1>7, <1>8, <1>9, <1>10, <1>11 DEF DeviceStep

LEMMA AppendFacts ==
    ASSUME NEW S, NEW h \in Seq(S), NEW e \in S
    PROVE /\ Append(h, e) \in Seq(S)
          /\ Len(Append(h, e)) = Len(h) + 1
          /\ \A i \in 1..Len(h) : Append(h, e)[i] = h[i]
          /\ Append(h, e)[Len(h) + 1] = e
OBVIOUS

LEMMA ReplyType ==
    ASSUME TypeOK, NEW q \in wire, NEW a \in Answer, Reply(q, a)
    PROVE wire' \in SUBSET Request /\ answer' \in [Devices -> Answer]
BY DEF Reply, TypeOK, Request

LEMMA ShapeServer ==
    ASSUME Shape, NEW q \in wire, PutReceived(q) \/ PutCommit(q) PROVE Shape'
<1> USE DEF Shape
<1>1. q \in Request /\ q.up \in Upload
  BY DEF TypeOK, Request
<1>2. CASE PutReceived(q)
  <2>1. [code |-> "ok", snap |-> server] \in Answer /\ [code |-> "conflict"] \in Answer
    BY ServerInHistory DEF Answer
  <2>2. [q EXCEPT !.phase = "verified"] \in Request
    BY <1>1 DEF Request
  <2>3. wire' \in SUBSET Request /\ answer' \in [Devices -> Answer]
    BY <1>2, <2>1, <2>2, ReplyType DEF PutReceived, TypeOK
  <2> QED
    BY <1>2, <2>3 DEF PutReceived, TypeOK, StateLoaded, StepShape
<1>3. CASE PutCommit(q)
  <2> DEFINE snap == [rev |-> q.up.base + 1, op |-> q.up.op, data |-> q.up.data]
  <2>1. snap \in Snapshot
    BY <1>1 DEF Upload, Snapshot
  <2>2. [code |-> "ok", snap |-> snap] \in Answer /\ [code |-> "conflict"] \in Answer
    BY <2>1 DEF Answer
  <2>3. /\ \/ history' = Append(history, snap) /\ Reply(q, [code |-> "ok", snap |-> snap])
           \/ history' = history /\ Reply(q, [code |-> "conflict"])
        /\ UNCHANGED <<disk, run, edits, aborts, ops>>
    BY <1>3 DEF PutCommit
  <2> HIDE DEF snap
  <2>4. wire' \in SUBSET Request /\ answer' \in [Devices -> Answer]
    BY <2>2, <2>3, ReplyType
  <2>5. history' \in Seq(Snapshot) /\ Len(history') > 0
    <3>1. CASE history' = history
      BY <3>1 DEF TypeOK
    <3>2. CASE history' = Append(history, snap)
      BY <2>1, <3>2, AppendFacts DEF TypeOK
    <3> QED
      BY <2>3, <3>1, <3>2
  <2> QED
    BY <2>3, <2>4, <2>5 DEF TypeOK, StateLoaded, StepShape
<1> QED
  BY <1>2, <1>3

LEMMA ShapeBrowser ==
    ASSUME Shape, NEW data \in Data, BrowserCommit(data) PROVE Shape'
<1> USE DEF Shape
<1>1. [rev |-> server.rev + 1, op |-> ops + 1, data |-> data] \in Snapshot
  BY ServerInHistory DEF Snapshot, TypeOK
<1>2. history' \in Seq(Snapshot) /\ Len(history') > 0
  BY <1>1 DEF BrowserCommit, TypeOK
<1> QED
  BY <1>2 DEF BrowserCommit, TypeOK, StateLoaded, StepShape

LEMMA ShapeStep == Shape /\ [Next]_vars => Shape'
<1> SUFFICES ASSUME Shape, [Next]_vars PROVE Shape'
  OBVIOUS
<1>1. CASE UNCHANGED vars
  BY <1>1 DEF vars, Shape, TypeOK, StateLoaded, StepShape
<1> QED
  BY <1>1, NextCases, ShapeDevice, ShapeServer, ShapeBrowser DEF Shape

\* The devices have logged in to a vault that holds data.
Logged(data) ==
    LET first == [rev |-> 1, op |-> 0, data |-> data]
        fresh == [base |-> first, draft |-> data, dirty |-> FALSE,
                  pending |-> NoSnapshot]
    IN /\ history = <<first>>
       /\ disk = [d \in Devices |-> fresh]
       /\ run = [d \in Devices |-> Idle(fresh)]
       /\ wire = {}
       /\ answer = [d \in Devices |-> NoAnswer]
       /\ edits = 0 /\ aborts = 0 /\ ops = 0

LEMMA ShapeInit == Init => Shape
<1> SUFFICES ASSUME Init PROVE Shape
  OBVIOUS
<1>0. PICK data \in FirstVaults : Logged(data)
  BY DEF Init, Logged
<1> DEFINE first == [rev |-> 1, op |-> 0, data |-> data]
           fresh == [base |-> first, draft |-> data, dirty |-> FALSE,
                     pending |-> NoSnapshot]
<1>1. first \in Snapshot
  BY SyncAssumption DEF Snapshot
<1>2. fresh \in State
  BY <1>1, SyncAssumption DEF State
<1>3. /\ history = <<first>> /\ disk = [d \in Devices |-> fresh]
      /\ run = [d \in Devices |-> Idle(fresh)] /\ wire = {}
      /\ answer = [d \in Devices |-> NoAnswer] /\ edits = 0 /\ aborts = 0 /\ ops = 0
  BY <1>0 DEF Logged
<1> HIDE DEF first, fresh
<1>4. TypeOK
  BY <1>1, <1>2, <1>3, IdleType, NoAnswerType DEF TypeOK
<1>5. StateLoaded /\ StepShape
  BY <1>2, <1>3, IdleType DEF StateLoaded, StepShape
<1> QED
  BY <1>4, <1>5 DEF Shape

\* Sync never sends an upload it does not have, never merges without a fetched
\* snapshot, and keeps every part of the state in its type.
THEOREM SyncTyped == Spec => []TypeOK
BY ShapeInit, ShapeStep, PTL DEF Spec, Shape

-----------------------------------------------------------------------------
(* Layer 2: what is believed committed is committed *)

BaseIn(d) == /\ InHistory(disk[d].base)
             /\ run[d].remote # NoSnapshot => InHistory(run[d].remote)

LEMMA SameBase ==
    ASSUME NEW x \in State, NEW y \in {x, [x EXCEPT !.pending = NoSnapshot]}
    PROVE /\ y.base = x.base /\ y.draft = x.draft /\ y.dirty = x.dirty
          /\ y.pending \in {x.pending, NoSnapshot}
          /\ x.base \in Snapshot /\ x.base # NoSnapshot
<1>1. x.base \in Snapshot /\ NoSnapshot \notin Snapshot
  BY SyncAssumption DEF State, Snapshot
<1> QED
  BY <1>1 DEF State

LEMMA BaseCommittedIn ==
    ASSUME Shape
    PROVE BaseCommitted <=> \A d \in Devices : BaseIn(d)
<1>1. ASSUME NEW d \in Devices
      PROVE run[d].s.base = disk[d].base /\ disk[d].base # NoSnapshot
  BY <1>1, SameBase DEF Shape, TypeOK, StateLoaded
<1> QED
  BY <1>1 DEF BaseCommitted, BaseIn, InHistory

LEMMA BaseCommittedInNext ==
    ASSUME Shape' PROVE BaseCommitted' <=> \A d \in Devices : BaseIn(d)'
<1>1. ASSUME NEW d \in Devices
      PROVE run'[d].s.base = disk'[d].base /\ disk'[d].base # NoSnapshot
  BY <1>1, SameBase DEF Shape, TypeOK, StateLoaded
<1> QED
  BY <1>1 DEF BaseCommitted, BaseIn, InHistory

LEMMA ServerCurrent ==
    ASSUME Shape, Committed
    PROVE /\ server \in Snapshot /\ server.rev = Len(history) /\ InHistory(server)
          /\ server = history[Len(history)] /\ server # NoSnapshot
BY ServerInHistory, SyncAssumption
   DEF Shape, TypeOK, Committed, RevIsIndex, InHistory, server, Snapshot

\* The history only grows, by a snapshot with the next revision.
Grown(e) == /\ e \in Snapshot /\ e.rev = Len(history) + 1
            /\ history' = Append(history, e)

LEMMA HistoryGrows ==
    ASSUME Shape, Committed, [Next]_vars
    PROVE history' = history \/ \E e \in Snapshot : Grown(e)
<1>1. ASSUME NEW q \in wire, PutCommit(q)
      PROVE history' = history \/ \E e \in Snapshot : Grown(e)
  <2> DEFINE snap == [rev |-> q.up.base + 1, op |-> q.up.op, data |-> q.up.data]
  <2>1. snap \in Snapshot
    BY DEF Shape, TypeOK, Request, Upload, Snapshot
  <2>2. history' = history \/ (server.rev = q.up.base /\ history' = Append(history, snap))
    BY <1>1 DEF PutCommit
  <2> QED
    BY <2>1, <2>2, ServerCurrent DEF Grown
<1>2. ASSUME NEW data \in Data, BrowserCommit(data)
      PROVE \E e \in Snapshot : Grown(e)
  <2> DEFINE snap == [rev |-> server.rev + 1, op |-> ops + 1, data |-> data]
  <2>1. snap \in Snapshot
    BY ServerCurrent DEF Shape, TypeOK, Snapshot
  <2> QED
    BY <1>2, <2>1, ServerCurrent DEF BrowserCommit, Grown
<1>3. ASSUME NEW d \in Devices, DeviceStep(d) PROVE history' = history
  BY <1>3 DEF DeviceStep, SaveDraft, SyncBegin, SendPending, SendPut, Send,
              PutAcknowledged, Finish, PendingRefused, PutRefused, GetRemote,
              FastForward, MergeAndSave, Abort
<1>4. ASSUME NEW q \in wire, PutReceived(q) PROVE history' = history
  BY <1>4 DEF PutReceived
<1> QED
  BY <1>1, <1>2, <1>3, <1>4, NextCases DEF Shape, vars

LEMMA HistoryKept ==
    ASSUME Shape, Committed, [Next]_vars
    PROVE /\ RevIsIndex'
          /\ \A x : InHistory(x) => x.rev \in 1..Len(history') /\ history'[x.rev] = x
<1>1. CASE history' = history
  BY <1>1 DEF Committed, RevIsIndex, InHistory
<1>2. ASSUME NEW e \in Snapshot, Grown(e)
      PROVE /\ RevIsIndex'
            /\ \A x : InHistory(x) => x.rev \in 1..Len(history') /\ history'[x.rev] = x
  <2>1. /\ history \in Seq(Snapshot) /\ Len(history) \in Nat
        /\ Len(history') = Len(history) + 1
        /\ \A i \in 1..Len(history) : history'[i] = history[i]
        /\ history'[Len(history) + 1] = e
    BY <1>2, AppendFacts DEF Grown, Shape, TypeOK
  <2>2. e.rev = Len(history) + 1
    BY <1>2 DEF Grown
  <2> QED
    BY <2>1, <2>2 DEF Committed, RevIsIndex, InHistory
<1> QED
  BY <1>1, <1>2, HistoryGrows

LEMMA CommittedDevice ==
    ASSUME Shape, Committed, [Next]_vars, NEW d \in Devices, DeviceStep(d)
    PROVE (\A c \in Devices : BaseIn(c)') /\ AnswerCommitted'
<1>1. \A c \in Devices : BaseIn(c)
  BY BaseCommittedIn DEF Committed
<1>2. ASSUME NEW x, InHistory(x) PROVE InHistory(x)'
  BY <1>2, HistoryKept DEF InHistory
<1> USE DEF Shape, TypeOK, Process, State
<1>3. ASSUME NEW data \in Data, SaveDraft(d, data)
      PROVE (\A c \in Devices : BaseIn(c)') /\ AnswerCommitted'
  BY <1>1, <1>2, <1>3 DEF SaveDraft, BaseIn, InHistory, Idle, Committed,
                          AnswerCommitted
<1>4. CASE SyncBegin(d) \/ SendPending(d) \/ SendPut(d)
  BY <1>1, <1>2, <1>4 DEF SyncBegin, SendPending, SendPut, Send, Goto, BaseIn,
                          InHistory, Committed, AnswerCommitted
<1>5. CASE PutAcknowledged(d)
  <2>1. InHistory(answer[d].snap)
    BY <1>5 DEF PutAcknowledged, Committed, AnswerCommitted
  <2> QED
    BY <1>1, <1>5, <2>1 DEF PutAcknowledged, Finish, Acknowledged, Idle, BaseIn,
                            InHistory, Committed, AnswerCommitted, NoAnswer
<1>6. CASE PendingRefused(d) \/ PutRefused(d)
  <2>1. /\ UNCHANGED <<history, disk>>
        /\ answer' = [answer EXCEPT ![d] = NoAnswer]
    BY <1>6 DEF PendingRefused, PutRefused
  <2>2. ASSUME NEW c \in Devices PROVE run'[c].remote = run[c].remote
    <3>1. CASE PendingRefused(d)
      BY <2>2, <3>1 DEF PendingRefused
    <3>2. CASE PutRefused(d)
      BY <2>2, <3>2 DEF PutRefused, Goto
    <3> QED
      BY <1>6, <3>1, <3>2
  <2>3. \A c \in Devices : BaseIn(c)'
    BY <1>1, <2>1, <2>2 DEF BaseIn, InHistory
  <2>4. AnswerCommitted'
    BY <2>1 DEF InHistory, Committed, AnswerCommitted, NoAnswer
  <2> QED
    BY <2>3, <2>4
<1>7. CASE GetRemote(d)
  BY <1>1, <1>7, ServerCurrent DEF GetRemote, BaseIn, InHistory, Committed,
                                   AnswerCommitted
<1>8. CASE FastForward(d)
  <2>1. InHistory(run[d].remote)
    BY <1>1, <1>8 DEF FastForward, BaseIn, StepShape
  <2> QED
    BY <1>1, <1>8, <2>1 DEF FastForward, Finish, Acknowledged, Idle, BaseIn,
                            InHistory, Committed, AnswerCommitted, NoAnswer
<1>9. CASE MergeAndSave(d)
  <2> DEFINE s == run[d].s
             merged == Merge(s.base.data, s.draft, run[d].remote.data)
             up == [op |-> ops + 1, base |-> run[d].remote.rev, data |-> merged]
             next == [s EXCEPT !.draft = merged, !.pending = up]
  <2>1. /\ disk' = [disk EXCEPT ![d] = next]
        /\ run' = [run EXCEPT ![d].s = next, ![d].step = "sendPut"]
        /\ UNCHANGED <<history, answer>>
    BY <1>9 DEF MergeAndSave
  <2>2. next.base = disk[d].base
    BY DEF StateLoaded
  <2> HIDE DEF next
  <2> QED
    BY <1>1, <2>1, <2>2 DEF BaseIn, InHistory, Committed, AnswerCommitted
<1>10. CASE Abort(d)
  BY <1>1, <1>10 DEF Abort, Idle, BaseIn, InHistory, Committed, AnswerCommitted,
                     NoAnswer
<1> QED
  BY <1>3, <1>4, <1>5, <1>6, <1>7, <1>8, <1>9, <1>10 DEF DeviceStep

LEMMA CommittedStep == Shape /\ Committed /\ [Next]_vars => Committed'
<1> SUFFICES ASSUME Shape, Committed, [Next]_vars PROVE Committed'
  OBVIOUS
<1>1. Shape'
  BY ShapeStep
<1>2. SUFFICES (\A c \in Devices : BaseIn(c)') /\ AnswerCommitted'
  BY <1>1, BaseCommittedInNext, HistoryKept DEF Committed
<1>3. \A c \in Devices : BaseIn(c)
  BY BaseCommittedIn DEF Committed
<1>4. ASSUME NEW x, InHistory(x) PROVE InHistory(x)'
  BY <1>4, HistoryKept DEF InHistory
<1>5. ASSUME disk' = disk, run' = run PROVE \A c \in Devices : BaseIn(c)'
  BY <1>3, <1>4, <1>5, HistoryKept DEF BaseIn, InHistory
<1>6. ASSUME answer' = answer PROVE AnswerCommitted'
  BY <1>6, HistoryKept DEF Committed, AnswerCommitted, InHistory
<1>7. ASSUME NEW q \in wire, NEW a \in Answer, Reply(q, a),
             a.code = "ok" => a.snap.rev \in 1..Len(history') /\ history'[a.snap.rev] = a.snap
      PROVE AnswerCommitted'
  BY <1>6, <1>7, HistoryKept DEF Reply, Committed, AnswerCommitted, InHistory, Shape,
                                 TypeOK, Request
<1>8. ASSUME NEW q \in wire, PutReceived(q)
      PROVE (\A c \in Devices : BaseIn(c)') /\ AnswerCommitted'
  <2>1. [code |-> "ok", snap |-> server] \in Answer /\ [code |-> "conflict"] \in Answer
    BY ServerCurrent DEF Answer
  <2>2. history' = history /\ disk' = disk /\ run' = run
    BY <1>8 DEF PutReceived
  <2>3. CASE Reply(q, [code |-> "ok", snap |-> server])
    BY <1>5, <1>7, <2>1, <2>2, <2>3, ServerCurrent DEF InHistory
  <2>4. CASE Reply(q, [code |-> "conflict"])
    BY <1>5, <1>7, <2>1, <2>2, <2>4
  <2> QED
    BY <1>5, <1>6, <1>8, <2>2, <2>3, <2>4 DEF PutReceived
<1>9. ASSUME NEW q \in wire, PutCommit(q)
      PROVE (\A c \in Devices : BaseIn(c)') /\ AnswerCommitted'
  <2> DEFINE snap == [rev |-> q.up.base + 1, op |-> q.up.op, data |-> q.up.data]
  <2>1. snap \in Snapshot
    BY DEF Shape, TypeOK, Request, Upload, Snapshot
  <2>2. [code |-> "ok", snap |-> snap] \in Answer /\ [code |-> "conflict"] \in Answer
    BY <2>1 DEF Answer
  <2>3. disk' = disk /\ run' = run
    BY <1>9 DEF PutCommit
  <2>4. CASE server.rev = q.up.base
    <3>1. /\ history' = Append(history, snap) /\ snap.rev = Len(history) + 1
          /\ Reply(q, [code |-> "ok", snap |-> snap])
      BY <1>9, <2>4, ServerCurrent DEF PutCommit
    <3>2. snap.rev \in 1..Len(history') /\ history'[snap.rev] = snap
      <4> HIDE DEF snap
      <4> QED
        BY <2>1, <3>1, AppendFacts DEF Shape, TypeOK
    <3> HIDE DEF snap
    <3> QED
      BY <1>5, <1>7, <2>2, <2>3, <3>1, <3>2
  <2>5. CASE server.rev # q.up.base
    <3>1. Reply(q, [code |-> "conflict"])
      BY <1>9, <2>5 DEF PutCommit
    <3> QED
      BY <1>5, <1>7, <2>2, <2>3, <3>1
  <2> QED
    BY <2>4, <2>5
<1>10. ASSUME NEW data \in Data, BrowserCommit(data)
       PROVE (\A c \in Devices : BaseIn(c)') /\ AnswerCommitted'
  BY <1>5, <1>6, <1>10 DEF BrowserCommit
<1>11. CASE UNCHANGED vars
  BY <1>5, <1>6, <1>11 DEF vars
<1> QED
  BY <1>8, <1>9, <1>10, <1>11, NextCases, CommittedDevice DEF Shape

LEMMA CommittedInit == Init => Committed
<1> SUFFICES ASSUME Init PROVE Committed
  OBVIOUS
<1>1. Shape
  BY ShapeInit
<1>2. Len(history) = 1 /\ history[1].rev = 1
  BY DEF Init
<1>3. ASSUME NEW d \in Devices PROVE BaseIn(d) /\ answer[d].code = "none"
  BY <1>2, <1>3 DEF Init, BaseIn, InHistory, Idle, NoAnswer
<1> QED
  BY <1>1, <1>2, <1>3, BaseCommittedIn DEF Committed, RevIsIndex, AnswerCommitted

\* Base and fetched snapshots are entries of the server's history, under the
\* revision they name.
THEOREM SyncBaseCommitted == Spec => []BaseCommitted
<1>1. Shape /\ Committed /\ [Next]_vars => (Shape /\ Committed)'
  BY ShapeStep, CommittedStep
<1> QED
  BY <1>1, ShapeInit, CommittedInit, PTL DEF Spec, Committed

-----------------------------------------------------------------------------
(* Layer 3: operation ids *)

LEMMA UploadsType == ASSUME Shape PROVE Uploads \subseteq Upload
BY DEF Shape, TypeOK, Uploads, Request, State

\* What a step does to the uploads, the history and the minted ids.
Quiet == history' = history /\ ops' = ops /\ Uploads' \subseteq Uploads
Mints(u) == /\ history' = history /\ ops' = ops + 1 /\ u.op = ops + 1
            /\ Uploads' \subseteq Uploads \cup {u}
CommitsUpload(u) == /\ u \in Uploads /\ u.base = Len(history) /\ ops' = ops
              /\ Uploads' \subseteq Uploads
              /\ \E e \in Snapshot : Grown(e) /\ e.op = u.op /\ e.data = u.data
Browses == /\ Uploads' \subseteq Uploads /\ ops' = ops + 1
           /\ \E e \in Snapshot : Grown(e) /\ e.op = ops + 1

LEMMA UploadsKept ==
    ASSUME \A q \in wire' : \E p \in wire : q.up = p.up,
           \A d \in Devices : disk'[d].pending \in {disk[d].pending, NoSnapshot}
    PROVE Uploads' \subseteq Uploads
BY DEF Uploads

LEMMA OpsDevice ==
    ASSUME Shape, NEW d \in Devices, DeviceStep(d)
    PROVE Quiet \/ \E u \in Upload : Mints(u)
<1> USE DEF Shape, TypeOK
<1>1. ASSUME NEW data \in Data, SaveDraft(d, data) PROVE Quiet
  <2>1. \A c \in Devices : disk'[c].pending \in {disk[c].pending, NoSnapshot}
    BY <1>1 DEF SaveDraft, State
  <2> QED
    BY <1>1, <2>1, UploadsKept DEF SaveDraft, Quiet
<1>2. CASE SyncBegin(d) \/ PendingRefused(d) \/ PutRefused(d) \/ GetRemote(d)
  BY <1>2, UploadsKept DEF SyncBegin, PendingRefused, PutRefused, GetRemote, Quiet
<1>3. CASE SendPending(d) \/ SendPut(d)
  <2>1. run[d].s.pending # NoSnapshot
    BY <1>3 DEF SendPending, SendPut, StepShape
  <2>2. run[d].s.pending = disk[d].pending
    BY <2>1, SameBase DEF StateLoaded
  <2>3. run[d].s.pending \in Uploads
    BY <2>1, <2>2 DEF Uploads
  <2>4. /\ wire' = wire \cup {[dev |-> d, up |-> run[d].s.pending,
                               phase |-> "sent", live |-> TRUE]}
        /\ disk' = disk /\ history' = history /\ ops' = ops
    BY <1>3 DEF SendPending, SendPut, Send
  <2> QED
    BY <2>3, <2>4 DEF Uploads, Quiet
<1>4. CASE PutAcknowledged(d) \/ FastForward(d)
  <2>1. PICK x : Finish(d, Acknowledged(x))
    BY <1>4 DEF PutAcknowledged, FastForward
  <2>2. \A c \in Devices : disk'[c].pending \in {disk[c].pending, NoSnapshot}
    BY <2>1 DEF Finish, Acknowledged
  <2> QED
    BY <2>1, <2>2, UploadsKept DEF Finish, Quiet
<1>5. CASE MergeAndSave(d)
  <2> DEFINE m == Merge(run[d].s.base.data, run[d].s.draft, run[d].remote.data)
             up == [op |-> ops + 1, base |-> run[d].remote.rev, data |-> m]
             next == [run[d].s EXCEPT !.draft = m, !.pending = up]
  <2>1. /\ disk' = [disk EXCEPT ![d] = next] /\ ops' = ops + 1
        /\ history' = history /\ wire' = wire
    BY <1>5 DEF MergeAndSave
  <2>2. run[d].s \in State /\ run[d].remote \in Snapshot
    BY <1>5 DEF MergeAndSave, StepShape, Process
  <2>3. m \in Data
    BY <2>2, MergeType DEF State, Snapshot
  <2> HIDE DEF m
  <2>4. up \in Upload
    BY <2>2, <2>3 DEF Upload, Snapshot
  <2>5. next.pending = up /\ up.op = ops + 1
    BY <2>2 DEF State
  <2> HIDE DEF up, next
  <2>6. Uploads' \subseteq Uploads \cup {up}
    BY <2>1, <2>5 DEF Uploads
  <2> QED
    BY <2>1, <2>4, <2>5, <2>6 DEF Mints
<1>6. CASE Abort(d)
  <2>1. \A q \in wire' : \E p \in wire : q.up = p.up
    BY <1>6 DEF Abort, Request
  <2> QED
    BY <1>6, <2>1, UploadsKept DEF Abort, Quiet
<1> QED
  BY <1>1, <1>2, <1>3, <1>4, <1>5, <1>6 DEF DeviceStep

LEMMA OpsCases ==
    ASSUME Shape, Committed, [Next]_vars
    PROVE Quiet \/ (\E u \in Upload : Mints(u) \/ CommitsUpload(u)) \/ Browses
<1> USE DEF Shape, TypeOK
<1>1. ASSUME NEW q \in wire, PutReceived(q) PROVE Quiet
  <2>1. \A p \in wire' : \E r \in wire : p.up = r.up
    BY <1>1 DEF PutReceived, Reply, Request
  <2> QED
    BY <1>1, <2>1, UploadsKept DEF PutReceived, Quiet
<1>2. ASSUME NEW q \in wire, PutCommit(q)
      PROVE Quiet \/ \E u \in Upload : CommitsUpload(u)
  <2>1. \A p \in wire' : \E r \in wire : p.up = r.up
    BY <1>2 DEF PutCommit, Reply
  <2>2. Uploads' \subseteq Uploads /\ ops' = ops
    BY <1>2, <2>1, UploadsKept DEF PutCommit
  <2>3. q.up \in Upload /\ q.up \in Uploads
    BY DEF Request, Uploads
  <2> DEFINE snap == [rev |-> q.up.base + 1, op |-> q.up.op, data |-> q.up.data]
  <2>4. CASE server.rev = q.up.base
    <3>1. history' = Append(history, snap)
      BY <1>2, <2>4 DEF PutCommit
    <3>2. snap \in Snapshot /\ snap.op = q.up.op /\ snap.data = q.up.data
          /\ snap.rev = Len(history) + 1 /\ q.up.base = Len(history)
      BY <2>3, <2>4, ServerCurrent DEF Upload, Snapshot
    <3> HIDE DEF snap
    <3> QED
      BY <2>2, <2>3, <3>1, <3>2 DEF CommitsUpload, Grown
  <2>5. CASE server.rev # q.up.base
    BY <1>2, <2>2, <2>5 DEF PutCommit, Quiet
  <2> QED
    BY <2>4, <2>5
<1>3. ASSUME NEW data \in Data, BrowserCommit(data) PROVE Browses
  <2> DEFINE snap == [rev |-> server.rev + 1, op |-> ops + 1, data |-> data]
  <2>1. snap \in Snapshot /\ snap.rev = Len(history) + 1 /\ snap.op = ops + 1
    BY ServerCurrent DEF Snapshot
  <2>2. history' = Append(history, snap) /\ ops' = ops + 1
    BY <1>3 DEF BrowserCommit
  <2>3. Uploads' \subseteq Uploads
    BY <1>3, UploadsKept DEF BrowserCommit
  <2> HIDE DEF snap
  <2> QED
    BY <2>1, <2>2, <2>3 DEF Browses, Grown
<1>4. CASE UNCHANGED vars
  BY <1>4, UploadsKept DEF vars, Quiet
<1> QED
  BY <1>1, <1>2, <1>3, <1>4, NextCases, OpsDevice

LEMMA GrownFacts ==
    ASSUME Shape, NEW e \in Snapshot, Grown(e)
    PROVE /\ Len(history) \in Nat
          /\ Len(history') = Len(history) + 1
          /\ \A i \in 1..Len(history) : history'[i] = history[i]
          /\ history'[Len(history) + 1] = e
          /\ \A i \in 1..Len(history') : i \in 1..Len(history) \/ i = Len(history) + 1
BY AppendFacts DEF Shape, TypeOK, Grown

LEMMA OperationsStep == Shape /\ Committed /\ Operations /\ [Next]_vars => Operations'
<1> SUFFICES ASSUME Shape, Committed, Operations, [Next]_vars PROVE Operations'
  OBVIOUS
<1>0. /\ ops \in Nat /\ Uploads \subseteq Upload
      /\ \A i \in 1..Len(history) : history[i].op \in Nat
  <2>1. \A i \in 1..Len(history) : history[i] \in Snapshot
    BY DEF Shape, TypeOK
  <2> QED
    BY <2>1, UploadsType DEF Shape, TypeOK, Snapshot
<1>1. \A u \in Uploads : u.op \in Nat
  BY <1>0 DEF Upload
<1> USE DEF Operations, OpsMinted, OneUploadPerOp, CommitPlace, OncePerOp
<1>2. CASE Quiet
  BY <1>0, <1>1, <1>2 DEF Quiet
<1>3. ASSUME NEW u \in Upload, Mints(u) PROVE Operations'
  BY <1>0, <1>1, <1>3 DEF Mints
<1>4. ASSUME NEW u \in Upload, CommitsUpload(u) PROVE Operations'
  <2>1. PICK e \in Snapshot : Grown(e) /\ e.op = u.op /\ e.data = u.data
    BY <1>4 DEF CommitsUpload
  <2>2. /\ u \in Uploads /\ u.base = Len(history) /\ ops' = ops
        /\ Uploads' \subseteq Uploads
    BY <1>4 DEF CommitsUpload
  <2>3. \A i \in 1..Len(history) : history[i].op # u.op
    BY <2>2, GrownFacts, <2>1
  <2>4. OpsMinted'
    BY <1>0, <1>1, <2>1, <2>2, GrownFacts
  <2>5. OneUploadPerOp'
    BY <2>2
  <2>6. CommitPlace'
    BY <2>1, <2>2, GrownFacts
  <2>7. OncePerOp'
    BY <2>1, <2>2, <2>3, GrownFacts
  <2> QED
    BY <2>4, <2>5, <2>6, <2>7
<1>5. CASE Browses
  <2>1. PICK e \in Snapshot : Grown(e) /\ e.op = ops + 1
    BY <1>5 DEF Browses
  <2>2. ops' = ops + 1 /\ Uploads' \subseteq Uploads
    BY <1>5 DEF Browses
  <2>3. \A i \in 1..Len(history) : history[i].op # e.op
    BY <1>0, <2>1
  <2>4. OpsMinted'
    BY <1>0, <1>1, <2>1, <2>2, GrownFacts
  <2>5. OneUploadPerOp'
    BY <2>2
  <2>6. CommitPlace'
    BY <1>0, <1>1, <2>1, <2>2, GrownFacts
  <2>7. OncePerOp'
    BY <2>1, <2>3, GrownFacts
  <2> QED
    BY <2>4, <2>5, <2>6, <2>7
<1> QED
  BY <1>2, <1>3, <1>4, <1>5, OpsCases

LEMMA OperationsInit == Init => Operations
<1> SUFFICES ASSUME Init PROVE Operations
  OBVIOUS
<1>1. Len(history) = 1 /\ history[1].op = 0 /\ ops = 0
  BY DEF Init
<1>2. Uploads = {}
  BY DEF Init, Uploads
<1> QED
  BY <1>1, <1>2 DEF Operations, OpsMinted, OneUploadPerOp, CommitPlace, OncePerOp

\* An upload that is retried, duplicated or late is committed at most once.
THEOREM SyncCommittedOnce == Spec => []CommittedOnce
<1>1. Shape /\ Committed /\ Operations /\ [Next]_vars
        => (Shape /\ Committed /\ Operations)'
  BY ShapeStep, CommittedStep, OperationsStep
<1>2. Shape /\ Operations => CommittedOnce
  <2>1. Shape => DOMAIN history = 1..Len(history)
    BY DEF Shape, TypeOK
  <2> QED
    BY <2>1 DEF Operations, OncePerOp, CommittedOnce
<1> QED
  BY <1>1, <1>2, ShapeInit, CommittedInit, OperationsInit, PTL DEF Spec

-----------------------------------------------------------------------------
(* The draft *)

DraftOf(d) == /\ ~disk[d].dirty => /\ disk[d].draft = disk[d].base.data
                                   /\ disk[d].pending = NoSnapshot
              /\ disk[d].pending # NoSnapshot => disk[d].pending.data = disk[d].draft

LEMMA DraftKeptOf == ASSUME Shape PROVE DraftKept <=> \A d \in Devices : DraftOf(d)
<1>1. ASSUME NEW d \in Devices
      PROVE /\ run[d].s.base = disk[d].base /\ run[d].s.draft = disk[d].draft
            /\ run[d].s.dirty = disk[d].dirty
            /\ run[d].s.pending \in {disk[d].pending, NoSnapshot}
  BY <1>1, SameBase DEF Shape, TypeOK, StateLoaded
<1> QED
  BY <1>1 DEF DraftKept, DraftOf

LEMMA DraftKeptOfNext ==
    ASSUME Shape' PROVE DraftKept' <=> \A d \in Devices : DraftOf(d)'
<1>1. ASSUME NEW d \in Devices
      PROVE /\ run'[d].s.base = disk'[d].base /\ run'[d].s.draft = disk'[d].draft
            /\ run'[d].s.dirty = disk'[d].dirty
            /\ run'[d].s.pending \in {disk'[d].pending, NoSnapshot}
  BY <1>1, SameBase DEF Shape, TypeOK, StateLoaded
<1> QED
  BY <1>1 DEF DraftKept, DraftOf

\* A step replaces the account file of one device: by an edited draft, by an
\* acknowledged or fetched snapshot, or by the merge it is about to send.
Merged(d) == [run[d].s EXCEPT
                !.draft = Merge(run[d].s.base.data, run[d].s.draft, run[d].remote.data),
                !.pending = [op |-> ops + 1, base |-> run[d].remote.rev,
                             data |-> Merge(run[d].s.base.data, run[d].s.draft,
                                            run[d].remote.data)]]

LEMMA DiskCases ==
    ASSUME Shape, [Next]_vars
    PROVE \/ disk' = disk
          \/ \E d \in Devices, data \in Data : SaveDraft(d, data)
          \/ \E d \in Devices : PutAcknowledged(d) \/ FastForward(d)
          \/ \E d \in Devices : /\ MergeAndSave(d) /\ run[d].s.dirty
                                /\ disk' = [disk EXCEPT ![d] = Merged(d)]
<1>1. ASSUME NEW d \in Devices, MergeAndSave(d)
      PROVE run[d].s.dirty /\ disk' = [disk EXCEPT ![d] = Merged(d)]
  BY <1>1 DEF MergeAndSave, Merged
<1>2. ASSUME NEW d \in Devices,
             \/ SyncBegin(d) \/ SendPending(d) \/ SendPut(d) \/ PendingRefused(d)
             \/ PutRefused(d) \/ GetRemote(d) \/ Abort(d)
      PROVE disk' = disk
  BY <1>2 DEF SyncBegin, SendPending, SendPut, Send, PendingRefused, PutRefused,
              GetRemote, Abort
<1>3. ASSUME NEW q \in wire, PutReceived(q) \/ PutCommit(q) PROVE disk' = disk
  BY <1>3 DEF PutReceived, PutCommit
<1>4. ASSUME NEW data \in Data, BrowserCommit(data) PROVE disk' = disk
  BY <1>4 DEF BrowserCommit
<1>5. CASE UNCHANGED vars
  BY <1>5 DEF vars
<1> QED
  BY <1>1, <1>2, <1>3, <1>4, <1>5, NextCases DEF Shape, DeviceStep

LEMMA MergedFacts ==
    ASSUME Shape, NEW d \in Devices, MergeAndSave(d)
    PROVE /\ Merged(d).base = run[d].s.base /\ Merged(d).dirty = run[d].s.dirty
          /\ Merged(d).draft = Merge(run[d].s.base.data, run[d].s.draft,
                                     run[d].remote.data)
          /\ Merged(d).pending.data = Merged(d).draft
          /\ Merged(d).pending.base = run[d].remote.rev
          /\ run[d].s \in State /\ run[d].remote \in Snapshot
<1>1. run[d].s \in State /\ run[d].remote \in Snapshot
  BY DEF MergeAndSave, Shape, TypeOK, StepShape, Process
<1> QED
  BY <1>1 DEF Merged, State

LEMMA DraftStep == Shape /\ DraftKept /\ [Next]_vars => DraftKept'
<1> SUFFICES ASSUME Shape, DraftKept, [Next]_vars PROVE DraftKept'
  OBVIOUS
<1>1. Shape'
  BY ShapeStep
<1>2. \A c \in Devices : DraftOf(c)
  BY DraftKeptOf
<1>3. SUFFICES \A c \in Devices : DraftOf(c)'
  BY <1>1, DraftKeptOfNext
<1>4. disk \in [Devices -> State]
  BY DEF Shape, TypeOK
<1>5. ASSUME NEW d \in Devices, NEW data \in Data, SaveDraft(d, data)
      PROVE \A c \in Devices : DraftOf(c)'
  <2>1. /\ disk'[d].dirty /\ disk'[d].pending = NoSnapshot
        /\ \A c \in Devices \ {d} : disk'[c] = disk[c]
    BY <1>4, <1>5 DEF SaveDraft, State
  <2> QED
    BY <1>2, <2>1 DEF DraftOf
<1>6. ASSUME NEW d \in Devices, PutAcknowledged(d) \/ FastForward(d)
      PROVE \A c \in Devices : DraftOf(c)'
  <2>1. PICK x : Finish(d, Acknowledged(x))
    BY <1>6 DEF PutAcknowledged, FastForward
  <2>2. /\ disk'[d].draft = disk'[d].base.data /\ disk'[d].pending = NoSnapshot
        /\ \A c \in Devices \ {d} : disk'[c] = disk[c]
    BY <1>4, <2>1 DEF Finish, Acknowledged
  <2> QED
    BY <1>2, <2>2 DEF DraftOf
<1>7. ASSUME NEW d \in Devices, MergeAndSave(d), run[d].s.dirty,
             disk' = [disk EXCEPT ![d] = Merged(d)]
      PROVE \A c \in Devices : DraftOf(c)'
  BY <1>2, <1>4, <1>7, MergedFacts DEF DraftOf
<1>8. CASE disk' = disk
  BY <1>2, <1>8 DEF DraftOf
<1> QED
  BY <1>5, <1>6, <1>7, <1>8, DiskCases

LEMMA DraftInit == Init => DraftKept
<1> SUFFICES ASSUME Init PROVE DraftKept
  OBVIOUS
<1>1. \A d \in Devices : DraftOf(d)
  BY DEF Init, DraftOf
<1> QED
  BY <1>1, ShapeInit, DraftKeptOf

\* No failed, refused or interrupted upload erases the local draft.
THEOREM SyncDraftKept == Spec => []DraftKept
<1>1. Shape /\ DraftKept /\ [Next]_vars => (Shape /\ DraftKept)'
  BY ShapeStep, DraftStep
<1> QED
  BY <1>1, ShapeInit, DraftInit, PTL DEF Spec

\* What was added on a device survives every merge that Sync saves, in the entry
\* or in its conflict record.
THEOREM SyncMergeKeeps == Spec => MergeKeepsAdditions
<1> DEFINE A == \A d \in Devices : disk[d].pending # disk'[d].pending =>
                  \A id \in Ids, x \in Items :
                     Holds(run[d].s.draft.entries[id], x)
                     /\ ~Holds(run[d].s.base.data.entries[id], x)
                     /\ disk'[d].pending # NoSnapshot
                       => Retains(disk'[d].draft, id, x)
<1>1. Shape /\ [Next]_vars => [A]_disk
  <2> SUFFICES ASSUME Shape, [Next]_vars, NEW d \in Devices,
                      disk[d].pending # disk'[d].pending,
                      NEW id \in Ids, NEW x \in Items,
                      Holds(run[d].s.draft.entries[id], x),
                      ~Holds(run[d].s.base.data.entries[id], x),
                      disk'[d].pending # NoSnapshot
               PROVE Retains(disk'[d].draft, id, x)
    OBVIOUS
  <2>1. disk \in [Devices -> State]
    BY DEF Shape, TypeOK
  <2>2. ASSUME NEW c \in Devices, NEW data \in Data, SaveDraft(c, data) PROVE FALSE
    BY <2>1, <2>2 DEF SaveDraft, State
  <2>3. ASSUME NEW c \in Devices, PutAcknowledged(c) \/ FastForward(c) PROVE FALSE
    <3>1. PICK y : Finish(c, Acknowledged(y))
      BY <2>3 DEF PutAcknowledged, FastForward
    <3> QED
      BY <2>1, <3>1 DEF Finish, Acknowledged
  <2>4. PICK c \in Devices : MergeAndSave(c) /\ disk' = [disk EXCEPT ![c] = Merged(c)]
    BY <2>2, <2>3, DiskCases
  <2>5. c = d /\ disk'[d] = Merged(d)
    BY <2>1, <2>4
  <2>6. /\ run[d].s.base.data \in Data /\ run[d].s.draft \in Data
        /\ run[d].remote.data \in Data
    BY <2>4, <2>5, MergedFacts DEF State, Snapshot
  <2> QED
    BY <2>4, <2>5, <2>6, MergedFacts, MergeRetains
<1> QED
  BY <1>1, ShapeInit, ShapeStep, PTL DEF Spec, MergeKeepsAdditions

-----------------------------------------------------------------------------
(* Layer 4: requests and answers *)

FreshAt(d) ==
    /\ run[d].step \in {"merge", "sendPut", "awaitPut"}
         => run[d].remote.rev >= run[d].s.base.rev
    /\ run[d].step \in {"sendPut", "awaitPut"}
         => run[d].s.pending.base = run[d].remote.rev

\* A step after which device d waits for nothing, and the others are as before.
LEMMA AnswersCalm ==
    ASSUME Shape, Answers, NEW d \in Devices,
           \A q \in wire' : q.live => q \in wire /\ q.dev # d,
           answer'[d].code = "none",
           \A c \in Devices \ {d} : run'[c] = run[c] /\ answer'[c] = answer[c],
           FreshAt(d)'
    PROVE Answers'
<1>1. \A q \in wire : q.dev \in Devices
  BY DEF Shape, TypeOK, Request
<1>2. LiveRequest'
  BY <1>1 DEF Answers, LiveRequest
<1>3. AnswerAwaited' /\ AnswerMatches'
  BY DEF Answers, AnswerAwaited, AnswerMatches
<1>4. RemoteFresh'
  BY DEF Answers, RemoteFresh, FreshAt
<1> QED
  BY <1>2, <1>3, <1>4 DEF Answers

LEMMA NotLive ==
    ASSUME Shape, Answers, NEW d \in Devices,
           run[d].step \notin Awaiting \/ answer[d].code # "none"
    PROVE \A q \in wire : q.live => q.dev # d
BY DEF Answers, LiveRequest

LEMMA AnswersDevice ==
    ASSUME Shape, Committed, Answers, NEW d \in Devices, DeviceStep(d)
    PROVE Answers'
<1>1. /\ run \in [Devices -> Process] /\ answer \in [Devices -> Answer]
      /\ run[d].s \in State /\ wire \in SUBSET Request
  BY DEF Shape, TypeOK, Process
<1>2. run[d].step \notin Awaiting => answer[d].code = "none"
  BY DEF Answers, AnswerAwaited
<1>3. FreshAt(d)
  BY DEF Answers, RemoteFresh, FreshAt
<1>4. ASSUME NEW data \in Data, SaveDraft(d, data) PROVE Answers'
  <2>1. /\ run[d].step = "idle" /\ run'[d].step = "idle"
        /\ \A c \in Devices \ {d} : run'[c] = run[c]
        /\ wire' = wire /\ answer' = answer
    BY <1>1, <1>4 DEF SaveDraft, Idle
  <2> QED
    BY <1>2, <2>1, NotLive, AnswersCalm DEF Awaiting, FreshAt
<1>5. CASE SyncBegin(d)
  <2>1. /\ run[d].step = "idle" /\ run'[d].step \in {"get", "sendPending"}
        /\ \A c \in Devices \ {d} : run'[c] = run[c]
        /\ wire' = wire /\ answer' = answer
    BY <1>1, <1>5 DEF SyncBegin, Process
  <2> QED
    BY <1>2, <2>1, NotLive, AnswersCalm DEF Awaiting, FreshAt
<1>6. CASE SendPending(d) \/ SendPut(d)
  <2> DEFINE q == [dev |-> d, up |-> run[d].s.pending, phase |-> "sent", live |-> TRUE]
  <2>1. PICK st \in Awaiting : /\ Send(d, st)
                               /\ st = "awaitPut" => run[d].step = "sendPut"
    BY <1>6 DEF SendPending, SendPut, Awaiting
  <2>2. run[d].step \notin Awaiting
    BY <1>6 DEF SendPending, SendPut, Awaiting
  <2>3. /\ wire' = wire \cup {q} /\ answer' = answer
        /\ run'[d].step = st /\ run'[d].s = run[d].s /\ run'[d].remote = run[d].remote
        /\ \A c \in Devices \ {d} : run'[c] = run[c]
    BY <1>1, <2>1 DEF Send, Goto, Process
  <2>4. \A p \in wire : p.live => p.dev # d /\ p.dev \in Devices
    BY <1>1, <2>2, NotLive DEF Request
  <2>5. LiveRequest'
    <3>1. q.dev = d /\ q.up = run[d].s.pending
      OBVIOUS
    <3> HIDE DEF q
    <3>2. ASSUME NEW p \in wire', p.live
          PROVE /\ run'[p.dev].step \in Awaiting /\ answer'[p.dev].code = "none"
                /\ p.up = run'[p.dev].s.pending
      <4>1. CASE p = q
        BY <1>2, <2>1, <2>2, <2>3, <3>1, <4>1
      <4>2. CASE p \in wire
        BY <2>3, <2>4, <3>2, <4>2 DEF Answers, LiveRequest
      <4> QED
        BY <2>3, <4>1, <4>2
    <3>3. ASSUME NEW p \in wire', NEW r \in wire', p.live, r.live, p.dev = r.dev
          PROVE p = r
      BY <2>3, <2>4, <3>1, <3>3 DEF Answers, LiveRequest
    <3> QED
      BY <3>2, <3>3 DEF LiveRequest
  <2>6. AnswerAwaited' /\ AnswerMatches'
    BY <1>2, <2>1, <2>2, <2>3 DEF Answers, AnswerAwaited, AnswerMatches
  <2>7. RemoteFresh'
    BY <1>3, <2>1, <2>3 DEF Answers, RemoteFresh, FreshAt, Awaiting
  <2> QED
    BY <2>5, <2>6, <2>7 DEF Answers
<1>7. CASE PutAcknowledged(d) \/ FastForward(d)
  <2>1. PICK x : Finish(d, Acknowledged(x))
    BY <1>7 DEF PutAcknowledged, FastForward
  <2>2. /\ run'[d].step = "idle" /\ answer'[d].code = "none" /\ wire' = wire
        /\ \A c \in Devices \ {d} : run'[c] = run[c] /\ answer'[c] = answer[c]
    BY <1>1, <2>1 DEF Finish, Idle, NoAnswer
  <2>3. run[d].step \notin Awaiting \/ answer[d].code # "none"
    BY <1>7 DEF PutAcknowledged, FastForward, Awaiting
  <2> QED
    BY <2>2, <2>3, NotLive, AnswersCalm DEF FreshAt
<1>8. CASE PendingRefused(d) \/ PutRefused(d)
  <2>1. /\ run'[d].step \in {"get", "sendPending"} /\ answer'[d].code = "none"
        /\ wire' = wire
        /\ \A c \in Devices \ {d} : run'[c] = run[c] /\ answer'[c] = answer[c]
    BY <1>1, <1>8 DEF PendingRefused, PutRefused, Goto, Process, NoAnswer
  <2>2. answer[d].code # "none"
    BY <1>8 DEF PendingRefused, PutRefused
  <2> QED
    BY <2>1, <2>2, NotLive, AnswersCalm DEF FreshAt
<1>9. CASE GetRemote(d)
  <2>1. /\ run[d].step = "get" /\ run'[d].step = "merge" /\ run'[d].remote = server
        /\ run'[d].s = run[d].s /\ wire' = wire /\ answer' = answer
        /\ \A c \in Devices \ {d} : run'[c] = run[c]
    BY <1>1, <1>9 DEF GetRemote, Process
  <2>2. run[d].s.base.rev \in 1..Len(history)
    <3>1. run[d].s.base # NoSnapshot
      BY <1>1, SyncAssumption DEF State, Snapshot
    <3> QED
      BY <3>1 DEF Committed, BaseCommitted
  <2>3. Len(history) >= run[d].s.base.rev
    BY <2>2
  <2>4. FreshAt(d)'
    BY <2>1, <2>3, ServerCurrent DEF FreshAt
  <2> QED
    BY <1>2, <2>1, <2>4, NotLive, AnswersCalm DEF Awaiting
<1>10. CASE MergeAndSave(d)
  <2>1. /\ run[d].step = "merge" /\ run'[d].step = "sendPut"
        /\ run'[d].remote = run[d].remote /\ run'[d].s = Merged(d)
        /\ wire' = wire /\ answer' = answer
        /\ \A c \in Devices \ {d} : run'[c] = run[c]
    BY <1>1, <1>10 DEF MergeAndSave, Merged, Process
  <2>2. FreshAt(d)'
    BY <1>3, <1>10, <2>1, MergedFacts DEF FreshAt
  <2> QED
    BY <1>2, <2>1, <2>2, NotLive, AnswersCalm DEF Awaiting
<1>11. CASE Abort(d)
  <2>1. /\ run'[d].step = "idle" /\ answer'[d].code = "none"
        /\ \A c \in Devices \ {d} : run'[c] = run[c] /\ answer'[c] = answer[c]
    BY <1>1, <1>11 DEF Abort, Idle, NoAnswer
  <2>2. wire' = {[q EXCEPT !.live = @ /\ q.dev # d] : q \in wire}
    BY <1>11 DEF Abort
  <2>3. ASSUME NEW p \in wire', p.live PROVE p \in wire /\ p.dev # d
    <3>1. PICK q \in wire : p = [q EXCEPT !.live = @ /\ q.dev # d]
      BY <2>2
    <3>2. q \in Request
      BY <1>1
    <3>3. p.live = (q.live /\ q.dev # d) /\ p.dev = q.dev
      BY <3>1, <3>2 DEF Request
    <3>4. q.live = TRUE /\ (q.live /\ q.dev # d) = TRUE
      BY <2>3, <3>2, <3>3 DEF Request
    <3>5. p = q
      BY <3>1, <3>2, <3>4 DEF Request
    <3> QED
      BY <2>3, <3>3, <3>5
  <2> QED
    BY <2>1, <2>3, AnswersCalm DEF FreshAt
<1> QED
  BY <1>4, <1>5, <1>6, <1>7, <1>8, <1>9, <1>10, <1>11 DEF DeviceStep

\* The server answers a request with a or, to a dead process, with nothing.
LEMMA AnswersReply ==
    ASSUME Shape, Answers, NEW q \in wire, NEW a, Reply(q, a), run' = run,
           a.code \in {"ok", "conflict"},
           a.code = "ok" => /\ a.snap.op = q.up.op /\ a.snap.data = q.up.data
                            /\ a.snap.rev = q.up.base + 1
    PROVE Answers'
<1>1. /\ q.dev \in Devices /\ q.live \in BOOLEAN /\ answer \in [Devices -> Answer]
  BY DEF Shape, TypeOK, Request
<1>2. RemoteFresh'
  BY DEF Answers, RemoteFresh
<1>3. CASE ~q.live
  <2>1. wire' = wire \ {q} /\ answer' = answer
    BY <1>3 DEF Reply
  <2> QED
    BY <1>2, <2>1 DEF Answers, LiveRequest, AnswerAwaited, AnswerMatches
<1>4. CASE q.live
  <2>1. /\ wire' = wire \ {q} /\ answer'[q.dev] = a
        /\ \A c \in Devices \ {q.dev} : answer'[c] = answer[c]
    BY <1>1, <1>4 DEF Reply
  <2>2. /\ run[q.dev].step \in Awaiting /\ q.up = run[q.dev].s.pending
        /\ \A p \in wire : p.live /\ p.dev = q.dev => p = q
    BY <1>4 DEF Answers, LiveRequest
  <2>3. \A p \in wire : p.dev \in Devices
    BY DEF Shape, TypeOK, Request
  <2>4. LiveRequest'
    BY <2>1, <2>2, <2>3 DEF Answers, LiveRequest
  <2>5. AnswerAwaited'
    BY <2>1, <2>2 DEF Answers, AnswerAwaited
  <2>6. AnswerMatches'
    BY <2>1, <2>2 DEF Answers, AnswerMatches
  <2> QED
    BY <1>2, <2>4, <2>5, <2>6 DEF Answers
<1> QED
  BY <1>1, <1>3, <1>4

LEMMA AnswersServer ==
    ASSUME Shape, Committed, Operations, Answers, NEW q \in wire,
           PutReceived(q) \/ PutCommit(q)
    PROVE Answers'
<1>1. q \in Request /\ q.up \in Upload /\ q.up \in Uploads
  BY DEF Shape, TypeOK, Request, Uploads
<1>2. CASE PutReceived(q)
  <2>1. run' = run
    BY <1>2 DEF PutReceived
  <2>2. CASE server.op = q.up.op /\ Reply(q, [code |-> "ok", snap |-> server])
    <3>1. Len(history) \in 1..Len(history)
      BY ServerInHistory DEF Shape
    <3>2. Len(history) = q.up.base + 1 /\ server.data = q.up.data
      BY <1>1, <2>2, <3>1, ServerCurrent DEF Operations, CommitPlace
    <3> QED
      BY <2>1, <2>2, <3>2, ServerCurrent, AnswersReply
  <2>3. CASE Reply(q, [code |-> "conflict"])
    BY <2>1, <2>3, AnswersReply
  <2>4. CASE /\ wire' = (wire \ {q}) \cup {[q EXCEPT !.phase = "verified"]}
             /\ answer' = answer
    <3> DEFINE v == [q EXCEPT !.phase = "verified"]
    <3>1. v.dev = q.dev /\ v.up = q.up /\ v.live = q.live
      BY <1>1 DEF Request
    <3>2. wire' = (wire \ {q}) \cup {v}
      BY <2>4
    <3> HIDE DEF v
    <3>3. LiveRequest'
      BY <2>1, <2>4, <3>1, <3>2 DEF Answers, LiveRequest
    <3> QED
      BY <2>1, <2>4, <3>3 DEF Answers, AnswerAwaited, AnswerMatches, RemoteFresh
  <2> QED
    BY <1>2, <2>2, <2>3, <2>4 DEF PutReceived
<1>3. CASE PutCommit(q)
  <2> DEFINE snap == [rev |-> q.up.base + 1, op |-> q.up.op, data |-> q.up.data]
  <2>1. /\ run' = run
        /\ \/ Reply(q, [code |-> "ok", snap |-> snap])
           \/ Reply(q, [code |-> "conflict"])
    BY <1>3 DEF PutCommit
  <2> QED
    BY <2>1, AnswersReply
<1> QED
  BY <1>2, <1>3

LEMMA AnswersStep ==
    Shape /\ Committed /\ Operations /\ Answers /\ [Next]_vars => Answers'
<1> SUFFICES ASSUME Shape, Committed, Operations, Answers, [Next]_vars PROVE Answers'
  OBVIOUS
<1>1. ASSUME UNCHANGED <<run, wire, answer>> PROVE Answers'
  BY <1>1 DEF Answers, LiveRequest, AnswerAwaited, AnswerMatches, RemoteFresh
<1>2. ASSUME NEW data \in Data, BrowserCommit(data) PROVE Answers'
  BY <1>1, <1>2 DEF BrowserCommit
<1>3. CASE UNCHANGED vars
  BY <1>1, <1>3 DEF vars
<1> QED
  BY <1>2, <1>3, NextCases, AnswersDevice, AnswersServer DEF Shape

LEMMA AnswersInit == Init => Answers
BY DEF Init, Answers, LiveRequest, AnswerAwaited, AnswerMatches, RemoteFresh, Idle,
       NoAnswer

-----------------------------------------------------------------------------
(* All layers *)

\* The inductive invariant of the protocol.
THEOREM SyncInvariant == Spec => []Inv
<1>1. Inv /\ [Next]_vars => Inv'
  BY ShapeStep, CommittedStep, OperationsStep, DraftStep, AnswersStep DEF Inv
<1>2. Init => Inv
  BY ShapeInit, CommittedInit, OperationsInit, DraftInit, AnswersInit DEF Inv
<1> QED
  BY <1>1, <1>2, PTL DEF Spec

\* An honest server never sets off the rollback, replaced-history and
\* acknowledgement alarms of Sync.
THEOREM SyncNoFalseAlarm == Spec => []NoFalseAlarm
<1>1. Inv => NoFalseAlarm
  <2> SUFFICES ASSUME Inv, NEW d \in Devices
               PROVE /\ run[d].step = "merge" => ~RollbackDetected(d) /\ ~HistoryReplaced(d)
                     /\ answer[d].code = "ok" =>
                          /\ answer[d].snap.op = run[d].s.pending.op
                          /\ answer[d].snap.data = run[d].s.pending.data
                          /\ run[d].step = "awaitPut"
                               => answer[d].snap.rev = run[d].remote.rev + 1
    BY DEF NoFalseAlarm
  <2>1. /\ run[d].s.base \in Snapshot /\ run[d].s.base # NoSnapshot
        /\ run[d].remote # NoSnapshot => run[d].remote \in Snapshot
    BY SyncAssumption DEF Inv, Shape, TypeOK, Process, State, Snapshot
  <2>2. CASE run[d].step = "merge"
    <3>1. run[d].remote # NoSnapshot /\ run[d].remote.rev >= run[d].s.base.rev
      BY <2>2 DEF Inv, Shape, StepShape, Answers, RemoteFresh
    <3>2. /\ history[run[d].s.base.rev] = run[d].s.base
          /\ history[run[d].remote.rev] = run[d].remote
      BY <2>1, <3>1 DEF Inv, Committed, BaseCommitted
    <3>3. ~RollbackDetected(d)
      BY <2>1, <3>1 DEF RollbackDetected, Snapshot
    <3>4. ~HistoryReplaced(d)
      BY <3>2 DEF HistoryReplaced
    <3>5. answer[d].code # "ok"
      BY <2>2 DEF Inv, Answers, AnswerAwaited, Awaiting
    <3> QED
      BY <3>3, <3>4, <3>5
  <2>3. CASE run[d].step # "merge"
    BY <2>3 DEF Inv, Answers, AnswerMatches, RemoteFresh
  <2> QED
    BY <2>2, <2>3
<1> QED
  BY <1>1, SyncInvariant, PTL

LEMMA DirtyLoaded ==
    ASSUME Shape, NEW d \in Devices PROVE run[d].s.dirty = disk[d].dirty
BY SameBase DEF Shape, TypeOK, StateLoaded

\* A device stops being dirty only when the server's history holds its draft.
THEOREM SyncDirtyUntilCommitted == Spec => DirtyUntilCommitted
<1> DEFINE A == \A d \in Devices : disk[d].dirty /\ ~disk'[d].dirty
                  => \E i \in DOMAIN history : history[i] = disk'[d].base
                                               /\ history[i].data = run[d].s.draft
<1>1. Inv /\ [Next]_vars => [A]_disk
  <2> SUFFICES ASSUME Inv, [Next]_vars, NEW d \in Devices,
                      disk[d].dirty, ~disk'[d].dirty
               PROVE \E i \in DOMAIN history : history[i] = disk'[d].base
                                               /\ history[i].data = run[d].s.draft
    OBVIOUS
  <2>1. /\ disk \in [Devices -> State] /\ DOMAIN history = 1..Len(history)
        /\ Shape /\ run[d].s.dirty = disk[d].dirty
    <3>1. Shape
      BY DEF Inv
    <3>2. disk \in [Devices -> State] /\ DOMAIN history = 1..Len(history)
      BY <3>1 DEF Shape, TypeOK
    <3>3. run[d].s.dirty = disk[d].dirty
      BY <3>1, DirtyLoaded
    <3> QED
      BY <3>1, <3>2, <3>3
  <2>2. ASSUME NEW c \in Devices, NEW data \in Data, SaveDraft(c, data) PROVE FALSE
    BY <2>1, <2>2 DEF SaveDraft, State
  <2>3. ASSUME NEW c \in Devices, MergeAndSave(c), run[c].s.dirty,
               disk' = [disk EXCEPT ![c] = Merged(c)]
        PROVE FALSE
    BY <2>1, <2>3, MergedFacts
  <2>4. PICK c \in Devices : PutAcknowledged(c) \/ FastForward(c)
    BY <2>1, <2>2, <2>3, DiskCases
  <2>5. c = d
    <3>1. PICK x : disk' = [disk EXCEPT ![c] = x]
      BY <2>4 DEF PutAcknowledged, FastForward, Finish
    <3> QED
      BY <2>1, <3>1
  <2>6. PutAcknowledged(d)
    BY <2>1, <2>4, <2>5 DEF FastForward
  <2>7. /\ answer[d].code = "ok" /\ disk'[d].base = answer[d].snap
        /\ run[d].step \in Awaiting
    BY <2>1, <2>6 DEF PutAcknowledged, Finish, Acknowledged, Awaiting
  <2>8. /\ answer[d].snap.rev \in 1..Len(history)
        /\ history[answer[d].snap.rev] = answer[d].snap
    BY <2>7 DEF Inv, Committed, AnswerCommitted, InHistory
  <2>9. answer[d].snap.data = run[d].s.draft
    BY <2>7 DEF Inv, Answers, AnswerMatches, Shape, StepShape, Awaiting, DraftKept
  <2> QED
    BY <2>1, <2>7, <2>8, <2>9
<1> QED
  BY <1>1, SyncInvariant, PTL DEF Spec, DirtyUntilCommitted
-----------------------------------------------------------------------------
(* Layer 5: what the server may still commit *)

\* An upload made on the current revision is what its device holds pending:
\* whatever a device did since, it did not replace an upload that can still win.
UploadCurrent ==
    \A q \in wire : /\ q.up.base <= Len(history)
                    /\ q.up.base = Len(history) => disk[q.dev].pending = q.up

PendingAhead ==
    \A d \in Devices : disk[d].pending # NoSnapshot =>
        disk[d].base.rev <= disk[d].pending.base /\ disk[d].pending.base <= Len(history)

\* A refused upload is behind, also when the process has forgotten it.
RefusedBehind ==
    \A d \in Devices : disk[d].pending # NoSnapshot =>
        /\ answer[d].code = "conflict" \/ run[d].step = "get"
             => disk[d].pending.base < Len(history)
        /\ run[d].step = "merge" => disk[d].pending.base < run[d].remote.rev

Current == UploadCurrent /\ PendingAhead /\ RefusedBehind

\* The numbers that the layer compares.
LEMMA CurrentTypes ==
    ASSUME Shape
    PROVE /\ Len(history) \in Nat
          /\ \A q \in wire : q.up \in Upload /\ q.up.base \in Nat /\ q.dev \in Devices /\ q.up # NoSnapshot
          /\ \A d \in Devices : /\ disk[d].base.rev \in Nat
                                /\ disk[d].pending # NoSnapshot => disk[d].pending.base \in Nat
<1>1. Len(history) \in Nat
  BY DEF Shape, TypeOK
<1>2. \A q \in wire : q.up \in Upload /\ q.dev \in Devices
  BY DEF Shape, TypeOK, Request
<1>3. \A u \in Upload : u.base \in Nat /\ u # NoSnapshot
  BY SyncAssumption DEF Upload
<1>4. \A d \in Devices : /\ disk[d].base \in Snapshot
                         /\ disk[d].pending # NoSnapshot => disk[d].pending \in Upload
  BY DEF Shape, TypeOK, State
<1>5. \A x \in Snapshot : x.rev \in Nat
  BY DEF Snapshot
<1> QED
  BY <1>1, <1>2, <1>3, <1>4, <1>5

\* While a process holds an upload, the file holds it too.
LEMMA PendingOnDisk ==
    ASSUME Shape, NEW d \in Devices, run[d].s.pending # NoSnapshot
    PROVE disk[d].pending = run[d].s.pending
<1>1. disk[d] \in State /\ run[d].s \in {disk[d], [disk[d] EXCEPT !.pending = NoSnapshot]}
  BY DEF Shape, TypeOK, StateLoaded
<1>2. [disk[d] EXCEPT !.pending = NoSnapshot].pending = NoSnapshot
  BY <1>1 DEF State
<1> QED
  BY <1>1, <1>2

\* A step of device d that leaves the history, and the uploads of the others.
LEMMA CurrentDevice ==
    ASSUME Shape, Shape', Current, NEW d \in Devices, history' = history,
           \A c \in Devices \ {d} : /\ disk'[c] = disk[c] /\ run'[c] = run[c]
                                    /\ answer'[c] = answer[c],
           \A q \in wire' : \/ q.dev = d /\ q.up = disk'[d].pending
                            \/ \E p \in wire : p.dev = q.dev /\ p.up = q.up,
           \/ disk'[d].pending = disk[d].pending
           \/ \A q \in wire : q.dev = d => q.up.base # Len(history),
           disk'[d].pending # NoSnapshot =>
               /\ disk'[d].base.rev <= disk'[d].pending.base
               /\ disk'[d].pending.base <= Len(history)
               /\ answer'[d].code = "conflict" \/ run'[d].step = "get"
                    => disk'[d].pending.base < Len(history)
               /\ run'[d].step = "merge" => disk'[d].pending.base < run'[d].remote.rev
    PROVE Current'
<1>1. PendingAhead' /\ RefusedBehind'
  BY DEF Current, PendingAhead, RefusedBehind
<1>2. ASSUME NEW q \in wire'
      PROVE /\ q.up.base <= Len(history')
            /\ q.up.base = Len(history') => disk'[q.dev].pending = q.up
  <2>1. q.up # NoSnapshot
    BY SyncAssumption DEF Shape, TypeOK, Request, Upload
  <2>2. CASE q.dev = d /\ q.up = disk'[d].pending
    BY <2>1, <2>2
  <2>3. ASSUME NEW p \in wire, p.dev = q.dev, p.up = q.up
        PROVE /\ q.up.base <= Len(history')
              /\ q.up.base = Len(history') => disk'[q.dev].pending = q.up
    BY <2>3, CurrentTypes DEF Current, UploadCurrent
  <2> QED
    BY <2>2, <2>3
<1> QED
  BY <1>1, <1>2 DEF Current, UploadCurrent

LEMMA CurrentQuiet ==
    ASSUME Shape, Answers, Current, NEW d \in Devices
    PROVE /\ disk[d].pending # NoSnapshot =>
               /\ disk[d].base.rev <= disk[d].pending.base
               /\ disk[d].pending.base <= Len(history)
               /\ answer[d].code = "conflict" \/ run[d].step = "get"
                    => disk[d].pending.base < Len(history)
               /\ run[d].step = "merge" => disk[d].pending.base < run[d].remote.rev
          /\ answer[d].code = "conflict" => run[d].step \in Awaiting
BY DEF Current, PendingAhead, RefusedBehind, Answers, AnswerAwaited

LEMMA CurrentDeviceStep ==
    ASSUME Inv, Shape', Current, NEW d \in Devices, DeviceStep(d)
    PROVE Current'
<1>1. /\ Shape /\ Committed /\ Answers /\ DraftKept /\ Operations
      /\ disk \in [Devices -> State] /\ run \in [Devices -> Process]
      /\ answer \in [Devices -> Answer] /\ run[d].s \in State /\ disk[d] \in State
  BY DEF Inv, Shape, TypeOK, Process
<1>2. ASSUME NEW data \in Data, SaveDraft(d, data) PROVE Current'
  <2>1. /\ history' = history /\ wire' = wire /\ answer' = answer
        /\ disk'[d].pending = NoSnapshot /\ disk[d].pending = NoSnapshot
        /\ \A c \in Devices \ {d} : disk'[c] = disk[c] /\ run'[c] = run[c]
    BY <1>1, <1>2 DEF SaveDraft, State
  <2> QED
    BY <1>1, <2>1, CurrentDevice
<1>3. CASE SyncBegin(d)
  <2>1. /\ history' = history /\ wire' = wire /\ answer' = answer /\ disk' = disk
        /\ run[d].step = "idle" /\ run'[d].step \in {"get", "sendPending"}
        /\ run'[d].step = "get" => disk[d].pending = NoSnapshot
        /\ \A c \in Devices \ {d} : run'[c] = run[c]
    BY <1>1, <1>3 DEF SyncBegin, Process
  <2> QED
    BY <1>1, <2>1, CurrentQuiet, CurrentDevice DEF Awaiting
<1>4. CASE SendPending(d) \/ SendPut(d)
  <2>1. PICK st \in Awaiting : Send(d, st)
    BY <1>4 DEF SendPending, SendPut, Awaiting
  <2>2. run[d].step \in {"sendPending", "sendPut"}
    BY <1>4 DEF SendPending, SendPut
  <2>3. disk[d].pending = run[d].s.pending
    BY <1>1, <2>2, PendingOnDisk DEF Shape, StepShape
  <2> DEFINE q == [dev |-> d, up |-> run[d].s.pending, phase |-> "sent", live |-> TRUE]
  <2>4. /\ history' = history /\ wire' = wire \cup {q} /\ answer' = answer /\ disk' = disk
        /\ run'[d].step \in Awaiting
        /\ \A c \in Devices \ {d} : run'[c] = run[c]
    BY <1>1, <2>1 DEF Send, Goto, Process
  <2>5. q.dev = d /\ q.up = disk'[d].pending
    BY <2>3, <2>4
  <2> HIDE DEF q
  <2> QED
    BY <1>1, <2>2, <2>4, <2>5, CurrentQuiet, CurrentDevice DEF Awaiting
<1>5. CASE PutAcknowledged(d) \/ FastForward(d)
  <2>1. PICK x : Finish(d, Acknowledged(x))
    BY <1>5 DEF PutAcknowledged, FastForward
  <2>2. /\ history' = history /\ wire' = wire /\ disk'[d].pending = NoSnapshot
        /\ \A c \in Devices \ {d} : disk'[c] = disk[c] /\ run'[c] = run[c] /\ answer'[c] = answer[c]
    BY <1>1, <2>1 DEF Finish, Acknowledged
  <2>3. disk[d].pending = NoSnapshot \/ \A q \in wire : q.dev = d => q.up.base # Len(history)
    <3>1. CASE PutAcknowledged(d)
      <4>1. run[d].step \in Awaiting /\ answer[d].code = "ok"
        BY <3>1 DEF PutAcknowledged, Awaiting
      <4>2. disk[d].pending = run[d].s.pending /\ disk[d].pending # NoSnapshot
        BY <1>1, <4>1, PendingOnDisk DEF Shape, StepShape, Awaiting
      <4>3. answer[d].snap.rev = disk[d].pending.base + 1 /\ answer[d].snap.rev \in 1..Len(history)
        BY <1>1, <4>1, <4>2 DEF Answers, AnswerMatches, Committed, AnswerCommitted, InHistory
      <4>4. disk[d].pending.base # Len(history)
        BY <1>1, <4>2, <4>3, CurrentTypes
      <4> QED
        BY <4>4 DEF Current, UploadCurrent
    <3>2. CASE FastForward(d)
      BY <1>1, <3>2, DirtyLoaded DEF FastForward, DraftKept
    <3> QED
      BY <1>5, <3>1, <3>2
  <2> QED
    BY <1>1, <2>2, <2>3, CurrentDevice
<1>6. CASE PendingRefused(d)
  <2>1. /\ history' = history /\ wire' = wire /\ disk' = disk
        /\ answer[d].code = "conflict" /\ answer'[d].code = "none" /\ run'[d].step = "get"
        /\ \A c \in Devices \ {d} : run'[c] = run[c] /\ answer'[c] = answer[c]
    BY <1>1, <1>6 DEF PendingRefused, Process, NoAnswer
  <2> QED
    BY <1>1, <2>1, CurrentQuiet, CurrentDevice
<1>7. CASE PutRefused(d)
  <2>1. /\ history' = history /\ wire' = wire /\ disk' = disk
        /\ answer'[d].code = "none" /\ run'[d].step = "sendPending"
        /\ \A c \in Devices \ {d} : run'[c] = run[c] /\ answer'[c] = answer[c]
    BY <1>1, <1>7 DEF PutRefused, Goto, Process, NoAnswer
  <2> QED
    BY <1>1, <2>1, CurrentQuiet, CurrentDevice
<1>8. CASE GetRemote(d)
  <2>1. /\ history' = history /\ wire' = wire /\ disk' = disk /\ answer' = answer
        /\ run[d].step = "get" /\ run'[d].step = "merge" /\ run'[d].remote = server
        /\ \A c \in Devices \ {d} : run'[c] = run[c]
    BY <1>1, <1>8 DEF GetRemote, Process
  <2>2. server.rev = Len(history)
    BY <1>1, ServerCurrent
  <2> QED
    BY <1>1, <2>1, <2>2, CurrentQuiet, CurrentDevice DEF Awaiting
<1>9. CASE MergeAndSave(d)
  <2>1. /\ history' = history /\ wire' = wire /\ answer' = answer
        /\ disk'[d] = Merged(d) /\ run[d].step = "merge" /\ run'[d].step = "sendPut"
        /\ \A c \in Devices \ {d} : disk'[c] = disk[c] /\ run'[c] = run[c]
    BY <1>1, <1>9 DEF MergeAndSave, Merged, Process
  <2>2. /\ Merged(d).base = run[d].s.base /\ Merged(d).pending.base = run[d].remote.rev
        /\ run[d].remote \in Snapshot /\ run[d].remote # NoSnapshot
    BY <1>1, <1>9, MergedFacts, SyncAssumption DEF Snapshot
  <2>3. /\ run[d].remote.rev >= run[d].s.base.rev /\ run[d].remote.rev \in 1..Len(history)
        /\ run[d].remote.rev \in Nat
    BY <1>1, <2>1, <2>2 DEF Answers, RemoteFresh, Committed, BaseCommitted, Snapshot
  <2>4. run[d].s.base.rev \in Nat
    BY <1>1 DEF State, Snapshot
  <2>5. \A q \in wire : q.dev = d => q.up.base # Len(history)
    <3>1. disk[d].pending # NoSnapshot => disk[d].pending.base < Len(history)
      BY <1>1, <2>1, <2>3, CurrentQuiet, CurrentTypes
    <3> QED
      BY <1>1, <3>1, CurrentTypes DEF Current, UploadCurrent
  <2>6. run[d].s.base.rev <= run[d].remote.rev /\ run[d].remote.rev <= Len(history)
    BY <1>1, <2>3, <2>4, CurrentTypes
  <2>7. answer'[d].code # "conflict"
    BY <1>1, <2>1, CurrentQuiet DEF Awaiting
  <2> QED
    BY <1>1, <2>1, <2>2, <2>5, <2>6, <2>7, CurrentDevice
<1>10. CASE Abort(d)
  <2>1. /\ history' = history /\ disk' = disk /\ run'[d].step = "idle" /\ answer'[d].code = "none"
        /\ \A c \in Devices \ {d} : run'[c] = run[c] /\ answer'[c] = answer[c]
        /\ wire' = {[q EXCEPT !.live = @ /\ q.dev # d] : q \in wire}
    BY <1>1, <1>10 DEF Abort, Idle, NoAnswer
  <2>2. \A q \in wire' : \E p \in wire : p.dev = q.dev /\ p.up = q.up
    BY <2>1 DEF Shape, TypeOK, Request
  <2> QED
    BY <1>1, <2>1, <2>2, CurrentQuiet, CurrentDevice
<1> QED
  BY <1>2, <1>3, <1>4, <1>5, <1>6, <1>7, <1>8, <1>9, <1>10 DEF DeviceStep

\* A step of the server or of the console.
LEMMA CurrentElsewhere ==
    ASSUME Shape, Shape', Current, disk' = disk, run' = run,
           history' = history \/ Len(history') = Len(history) + 1,
           \A q \in wire' : \E p \in wire : p.dev = q.dev /\ p.up = q.up,
           \A d \in Devices : answer'[d].code = "conflict" /\ disk[d].pending # NoSnapshot =>
               answer[d].code = "conflict" \/ disk[d].pending.base < Len(history)
    PROVE Current'
<1>1. Len(history) \in Nat /\ Len(history) <= Len(history')
  BY CurrentTypes
<1>2. UploadCurrent'
  BY <1>1, CurrentTypes DEF Current, UploadCurrent
<1>3. PendingAhead'
  BY <1>1, CurrentTypes DEF Current, PendingAhead
<1>4. RefusedBehind'
  BY <1>1, CurrentTypes DEF Current, RefusedBehind
<1> QED
  BY <1>2, <1>3, <1>4 DEF Current

LEMMA CurrentServer ==
    ASSUME Inv, Shape', Current, NEW q \in wire, PutReceived(q) \/ PutCommit(q)
    PROVE Current'
<1>1. /\ Shape /\ Committed /\ Answers /\ q \in Request /\ q.dev \in Devices
      /\ answer \in [Devices -> Answer]
  BY DEF Inv, Shape, TypeOK, Request
<1>2. disk' = disk /\ run' = run
  BY DEF PutReceived, PutCommit
<1>3. history' = history \/ Len(history') = Len(history) + 1
  <2>1. ASSUME NEW e, history' = Append(history, e) PROVE Len(history') = Len(history) + 1
    BY <1>1, <2>1 DEF Shape, TypeOK
  <2> QED
    BY <2>1 DEF PutReceived, PutCommit
<1>4. ASSUME NEW a, Reply(q, a), a.code = "conflict" => server.rev # q.up.base PROVE Current'
  <2>1. \A p \in wire' : p \in wire
    BY <1>4 DEF Reply
  <2>2. ASSUME NEW d \in Devices, answer'[d].code = "conflict", disk[d].pending # NoSnapshot,
               answer[d].code # "conflict"
        PROVE disk[d].pending.base < Len(history)
    <3>1. q.live /\ q.dev = d /\ a.code = "conflict"
      BY <1>1, <1>4, <2>2 DEF Reply
    <3>2. q.up = run[d].s.pending /\ run[d].step \in Awaiting
      BY <1>1, <3>1 DEF Answers, LiveRequest
    <3>3. disk[d].pending = q.up
      BY <1>1, <3>2, PendingOnDisk DEF Shape, StepShape, Awaiting
    <3>4. q.up.base # Len(history) /\ q.up.base <= Len(history)
      BY <1>1, <1>4, <3>1, ServerCurrent DEF Current, UploadCurrent
    <3> QED
      BY <1>1, <3>3, <3>4, CurrentTypes
  <2> QED
    BY <1>1, <1>2, <1>3, <2>1, <2>2, CurrentElsewhere
<1>5. CASE /\ wire' = (wire \ {q}) \cup {[q EXCEPT !.phase = "verified"]}
           /\ answer' = answer
  <2>1. [q EXCEPT !.phase = "verified"].dev = q.dev /\ [q EXCEPT !.phase = "verified"].up = q.up
    BY <1>1 DEF Request
  <2>2. \A r \in wire' : \E p \in wire : p.dev = r.dev /\ p.up = r.up
    BY <1>5, <2>1
  <2> QED
    BY <1>1, <1>2, <1>3, <1>5, <2>2, CurrentElsewhere
<1>6. CASE PutReceived(q)
  <2>1. \/ Reply(q, [code |-> "ok", snap |-> server])
        \/ server.rev # q.up.base /\ Reply(q, [code |-> "conflict"])
        \/ /\ wire' = (wire \ {q}) \cup {[q EXCEPT !.phase = "verified"]}
           /\ answer' = answer
    BY <1>6 DEF PutReceived
  <2> QED
    BY <1>4, <1>5, <2>1
<1>7. CASE PutCommit(q)
  <2>1. \/ \E e : Reply(q, [code |-> "ok", snap |-> e])
        \/ server.rev # q.up.base /\ Reply(q, [code |-> "conflict"])
    BY <1>7 DEF PutCommit
  <2> QED
    BY <1>4, <2>1
<1> QED
  BY <1>6, <1>7

LEMMA CurrentStep == Inv /\ Inv' /\ Current /\ [Next]_vars => Current'
<1> SUFFICES ASSUME Inv, Inv', Current, [Next]_vars PROVE Current'
  OBVIOUS
<1>1. Shape /\ Shape'
  BY DEF Inv
<1>2. ASSUME NEW data \in Data, BrowserCommit(data) PROVE Current'
  <2>1. PICK e : history' = Append(history, e)
    BY <1>2 DEF BrowserCommit
  <2>2. Len(history') = Len(history) + 1
    BY <1>1, <2>1 DEF Shape, TypeOK
  <2> QED
    BY <1>1, <1>2, <2>2, CurrentElsewhere DEF BrowserCommit
<1>3. CASE UNCHANGED vars
  BY <1>1, <1>3, CurrentElsewhere DEF vars
<1> QED
  BY <1>1, <1>2, <1>3, NextCases, CurrentDeviceStep, CurrentServer DEF Shape

LEMMA CurrentInit == Init => Current
BY DEF Init, Current, UploadCurrent, PendingAhead, RefusedBehind

LEMMA CurrentInvariant == Spec => []Current
BY CurrentInit, CurrentStep, SyncInvariant, PTL DEF Spec

-----------------------------------------------------------------------------
(* The refinement: each step is one of SharedVault or a stutter.           *)

\* The mapping when one device replaces its account file.
LEMMA DiskMapping ==
    ASSUME Shape, NEW d \in Devices, NEW x, disk' = [disk EXCEPT ![d] = x]
    PROVE /\ Bases' = [Bases EXCEPT ![d] = x.base.rev]
          /\ Drafts' = [Drafts EXCEPT ![d] = x.draft]
          /\ Unsent' = [Unsent EXCEPT ![d] = x.dirty]
          /\ MergedWith' = [MergedWith EXCEPT ![d] = IF x.pending = NoSnapshot THEN 0 ELSE x.pending.base]
<1>1. disk'[d] = x /\ \A c \in Devices \ {d} : disk'[c] = disk[c]
  BY DEF Shape, TypeOK
<1>2. Bases' = [Bases EXCEPT ![d] = x.base.rev]
  <2>1. Bases'[d] = (x.base.rev) /\ \A c \in Devices \ {d} : Bases'[c] = Bases[c]
    BY <1>1 DEF Bases
  <2>2. Bases = [c \in Devices |-> Bases[c]] /\ Bases' = [c \in Devices |-> Bases'[c]]
    BY DEF Bases
  <2> QED
    BY <2>1, <2>2
<1>3. Drafts' = [Drafts EXCEPT ![d] = x.draft]
  <2>1. Drafts'[d] = (x.draft) /\ \A c \in Devices \ {d} : Drafts'[c] = Drafts[c]
    BY <1>1 DEF Drafts
  <2>2. Drafts = [c \in Devices |-> Drafts[c]] /\ Drafts' = [c \in Devices |-> Drafts'[c]]
    BY DEF Drafts
  <2> QED
    BY <2>1, <2>2
<1>4. Unsent' = [Unsent EXCEPT ![d] = x.dirty]
  <2>1. Unsent'[d] = (x.dirty) /\ \A c \in Devices \ {d} : Unsent'[c] = Unsent[c]
    BY <1>1 DEF Unsent
  <2>2. Unsent = [c \in Devices |-> Unsent[c]] /\ Unsent' = [c \in Devices |-> Unsent'[c]]
    BY DEF Unsent
  <2> QED
    BY <2>1, <2>2
<1>5. MergedWith' = [MergedWith EXCEPT ![d] = IF x.pending = NoSnapshot THEN 0 ELSE x.pending.base]
  <2>1. MergedWith'[d] = (IF x.pending = NoSnapshot THEN 0 ELSE x.pending.base) /\ \A c \in Devices \ {d} : MergedWith'[c] = MergedWith[c]
    BY <1>1 DEF MergedWith
  <2>2. MergedWith = [c \in Devices |-> MergedWith[c]] /\ MergedWith' = [c \in Devices |-> MergedWith'[c]]
    BY DEF MergedWith
  <2> QED
    BY <2>1, <2>2
<1> QED
  BY <1>2, <1>3, <1>4, <1>5

LEMMA SameDisk ==
    ASSUME disk' = disk
    PROVE Bases' = Bases /\ Drafts' = Drafts /\ Unsent' = Unsent /\ MergedWith' = MergedWith
BY DEF Bases, Drafts, Unsent, MergedWith

LEMMA FunctionIsSeq ==
    ASSUME NEW S, NEW n \in Nat, NEW f \in [1..n -> S] PROVE f \in Seq(S) /\ Len(f) = n
OBVIOUS

LEMMA CommitsFacts ==
    ASSUME Shape
    PROVE /\ Commits \in Seq(Data) /\ Len(Commits) = Len(history)
          /\ \A i \in 1..Len(history) : Commits[i] = history[i].data
<1>1. /\ DOMAIN history = 1..Len(history) /\ Len(history) \in Nat
      /\ \A i \in 1..Len(history) : history[i].data \in Data
  <2>1. /\ DOMAIN history = 1..Len(history) /\ Len(history) \in Nat
        /\ \A i \in 1..Len(history) : history[i] \in Snapshot
    BY DEF Shape, TypeOK
  <2>2. \A x \in Snapshot : x.data \in Data
    BY DEF Snapshot
  <2> QED
    BY <2>1, <2>2
<1>2. Commits = [i \in 1..Len(history) |-> history[i].data]
  BY <1>1 DEF Commits
<1>3. Commits \in [1..Len(history) -> Data] /\ \A i \in 1..Len(history) : Commits[i] = history[i].data
  BY <1>1, <1>2
<1>4. Commits \in Seq(Data) /\ Len(Commits) = Len(history)
  BY <1>1, <1>3, FunctionIsSeq
<1> QED
  BY <1>3, <1>4

LEMMA CommitsGrow ==
    ASSUME Shape, Shape', NEW e \in Snapshot, history' = Append(history, e)
    PROVE Commits' = Append(Commits, e.data)
<1>1. /\ history \in Seq(Snapshot) /\ Len(history') = Len(history) + 1 /\ Len(history) \in Nat
      /\ \A i \in 1..Len(history) : history'[i] = history[i]
      /\ history'[Len(history) + 1] = e /\ e.data \in Data
  BY AppendFacts DEF Shape, TypeOK, Snapshot
<1>2. /\ Commits \in Seq(Data) /\ Len(Commits) = Len(history)
      /\ \A i \in 1..Len(history) : Commits[i] = history[i].data
  BY CommitsFacts
<1>3. /\ Commits' \in Seq(Data) /\ Len(Commits') = Len(history')
      /\ \A i \in 1..Len(history') : Commits'[i] = history'[i].data
  <2>1. /\ DOMAIN history' = 1..Len(history') /\ Len(history') \in Nat
        /\ \A i \in 1..Len(history') : history'[i].data \in Data
    <3>1. /\ DOMAIN history' = 1..Len(history') /\ Len(history') \in Nat
          /\ \A i \in 1..Len(history') : history'[i] \in Snapshot
      BY DEF Shape, TypeOK
    <3>2. \A x \in Snapshot : x.data \in Data
      BY DEF Snapshot
    <3> QED
      BY <3>1, <3>2
  <2>2. Commits' = [i \in 1..Len(history') |-> history'[i].data]
    BY <2>1 DEF Commits
  <2>3. /\ Commits' \in [1..Len(history') -> Data]
        /\ \A i \in 1..Len(history') : Commits'[i] = history'[i].data
    BY <2>1, <2>2
  <2>4. Commits' \in Seq(Data) /\ Len(Commits') = Len(history')
    BY <2>1, <2>3, FunctionIsSeq
  <2> QED
    BY <2>3, <2>4
<1> HIDE DEF Commits
<1>4. \A i \in 1..(Len(Commits) + 1) : Commits'[i] = IF i = Len(Commits) + 1 THEN e.data ELSE Commits[i]
  BY <1>1, <1>2, <1>3
<1> QED
  BY <1>1, <1>2, <1>3, <1>4

LEMMA SharedStep ==
    ASSUME Inv, Inv', Current, [Next]_vars
    PROVE [Shared!Next]_(Shared!vars)
<1>1. /\ Shape /\ Shape' /\ Committed /\ Answers /\ DraftKept
      /\ disk \in [Devices -> State] /\ run \in [Devices -> Process]
      /\ Len(Commits) = Len(history) /\ Len(history) \in Nat
  BY CommitsFacts, CurrentTypes DEF Inv, Shape, TypeOK
<1>2. ASSUME NEW d \in Devices
      PROVE /\ Bases[d] = disk[d].base.rev /\ Drafts[d] = disk[d].draft /\ Unsent[d] = disk[d].dirty
            /\ MergedWith[d] = IF disk[d].pending = NoSnapshot THEN 0 ELSE disk[d].pending.base
            /\ run[d].s.base = disk[d].base /\ run[d].s.draft = disk[d].draft
            /\ run[d].s.dirty = disk[d].dirty
            /\ InHistory(disk[d].base) /\ Commits[disk[d].base.rev] = disk[d].base.data
  <2>1. /\ Bases[d] = disk[d].base.rev /\ Drafts[d] = disk[d].draft /\ Unsent[d] = disk[d].dirty
        /\ MergedWith[d] = IF disk[d].pending = NoSnapshot THEN 0 ELSE disk[d].pending.base
    BY DEF Bases, Drafts, Unsent, MergedWith
  <2>2. run[d].s.base = disk[d].base /\ run[d].s.draft = disk[d].draft /\ run[d].s.dirty = disk[d].dirty
    BY <1>1, SameBase DEF Shape, TypeOK, StateLoaded
  <2>3. disk[d].base # NoSnapshot
    BY <1>1, SyncAssumption DEF State, Snapshot
  <2>4. InHistory(disk[d].base)
    BY <1>1, <2>3 DEF Committed, BaseCommitted, InHistory
  <2>5. Commits[disk[d].base.rev] = disk[d].base.data
    BY <1>1, <2>4, CommitsFacts DEF InHistory
  <2> QED
    BY <2>1, <2>2, <2>4, <2>5
<1>3. ASSUME disk' = disk, history' = history PROVE UNCHANGED Shared!vars
  BY <1>3, SameDisk DEF Shared!vars, Commits
<1>4. ASSUME NEW d \in Devices, NEW data \in Data, SaveDraft(d, data) PROVE Shared!Edit(d)
  <2> DEFINE x == [disk[d] EXCEPT !.draft = data, !.dirty = TRUE]
  <2>1. disk' = [disk EXCEPT ![d] = x] /\ history' = history /\ disk[d].pending = NoSnapshot
    BY <1>4 DEF SaveDraft
  <2>2. \A b \in BOOLEAN : LET y == [disk[d] EXCEPT !.draft = data, !.dirty = b]
                           IN  y.draft = data /\ y.dirty = b /\ y.base = disk[d].base /\ y.pending = disk[d].pending
    BY <1>1 DEF State
  <2>3. x.draft = data /\ x.dirty = TRUE /\ x.base = disk[d].base /\ x.pending = NoSnapshot
    BY <2>1, <2>2
  <2> HIDE DEF x
  <2>4. /\ Bases' = [Bases EXCEPT ![d] = disk[d].base.rev] /\ Drafts' = [Drafts EXCEPT ![d] = data]
        /\ Unsent' = [Unsent EXCEPT ![d] = TRUE] /\ MergedWith' = [MergedWith EXCEPT ![d] = 0]
    <3>1. /\ Bases' = [Bases EXCEPT ![d] = x.base.rev] /\ Drafts' = [Drafts EXCEPT ![d] = x.draft]
          /\ Unsent' = [Unsent EXCEPT ![d] = x.dirty]
          /\ MergedWith' = [MergedWith EXCEPT ![d] = IF x.pending = NoSnapshot THEN 0 ELSE x.pending.base]
      BY <1>1, <2>1, DiskMapping
    <3> QED
      BY <2>3, <3>1
  <2>5. Bases' = Bases /\ MergedWith' = MergedWith /\ MergedWith[d] = 0 /\ Commits' = Commits
    <3>1. Bases = [c \in Devices |-> Bases[c]] /\ MergedWith = [c \in Devices |-> MergedWith[c]]
      BY DEF Bases, MergedWith
    <3> QED
      BY <1>2, <2>1, <2>4, <3>1 DEF Commits
  <2>6. Drafts'[d] = data
    BY <2>4 DEF Drafts
  <2> QED
    BY <2>4, <2>5, <2>6 DEF Shared!Edit
<1>5. ASSUME NEW d \in Devices, MergeAndSave(d), run[d].s.dirty, disk' = [disk EXCEPT ![d] = Merged(d)]
      PROVE Shared!Rebase(d)
  <2> DEFINE n == run[d].remote.rev
             new == Merge(disk[d].base.data, disk[d].draft, run[d].remote.data)
  <2>1. /\ Merged(d).base = disk[d].base /\ Merged(d).dirty = disk[d].dirty /\ Merged(d).draft = new
        /\ Merged(d).pending.base = n /\ run[d].remote \in Snapshot
    BY <1>1, <1>2, <1>5, MergedFacts
  <2>2. /\ run[d].step = "merge" /\ history' = history
    BY <1>5 DEF MergeAndSave
  <2>3. n \in 1..Len(history) /\ history[n] = run[d].remote /\ disk[d].base.rev <= n /\ n # 0
    <3>1. run[d].remote # NoSnapshot
      BY <1>1, <2>2 DEF Shape, StepShape
    <3>2. n \in 1..Len(history) /\ history[n] = run[d].remote
      BY <1>1, <3>1 DEF Committed, BaseCommitted
    <3>3. n >= disk[d].base.rev
      BY <1>1, <1>2, <2>2 DEF Answers, RemoteFresh
    <3> QED
      BY <1>1, <3>2, <3>3, CurrentTypes
  <2>4. Merged(d).pending # NoSnapshot
    <3>1. disk'[d] = Merged(d) /\ run'[d].s.pending # NoSnapshot /\ run'[d].s = Merged(d)
      <4>1. run'[d].s = Merged(d) /\ run'[d].step = "sendPut" /\ disk'[d] = Merged(d)
        BY <1>1, <1>5 DEF MergeAndSave, Merged, Process
      <4> QED
        BY <1>1, <4>1 DEF Shape, StepShape
    <3> QED
      BY <3>1
  <2>5. disk[d].pending # NoSnapshot => disk[d].pending.base < n
    BY <1>1, <2>2, CurrentQuiet
  <2>6. /\ Bases' = [Bases EXCEPT ![d] = disk[d].base.rev] /\ Drafts' = [Drafts EXCEPT ![d] = new]
        /\ Unsent' = [Unsent EXCEPT ![d] = disk[d].dirty] /\ MergedWith' = [MergedWith EXCEPT ![d] = n]
    <3> DEFINE x == Merged(d)
    <3>1. /\ Bases' = [Bases EXCEPT ![d] = x.base.rev] /\ Drafts' = [Drafts EXCEPT ![d] = x.draft]
          /\ Unsent' = [Unsent EXCEPT ![d] = x.dirty]
          /\ MergedWith' = [MergedWith EXCEPT ![d] = IF x.pending = NoSnapshot THEN 0 ELSE x.pending.base]
      BY <1>1, <1>5, DiskMapping
    <3> HIDE DEF new, n
    <3> QED
      BY <2>1, <2>4, <3>1
  <2> HIDE DEF new, n
  <2>7. Bases' = Bases /\ Unsent' = Unsent /\ Commits' = Commits
    <3>1. Bases = [c \in Devices |-> Bases[c]] /\ Unsent = [c \in Devices |-> Unsent[c]]
      BY DEF Bases, Unsent
    <3> QED
      BY <1>2, <2>2, <2>6, <3>1 DEF Commits
  <2>8. /\ n \in Bases[d]..Len(Commits) /\ Unsent[d] /\ (MergedWith[d] # 0 => MergedWith[d] < n)
        /\ new = Merge(Commits[Bases[d]], Drafts[d], Commits[n])
    <3>1. Commits[n] = run[d].remote.data
      BY <1>1, <2>3, CommitsFacts
    <3> QED
      BY <1>1, <1>2, <1>5, <2>3, <2>5, <3>1, CurrentTypes DEF new
  <2> QED
    BY <2>6, <2>7, <2>8 DEF Shared!Rebase
<1>6. ASSUME NEW d \in Devices, NEW x \in Snapshot, InHistory(x), disk[d].base.rev <= x.rev,
             Finish(d, Acknowledged(x)),
             disk[d].dirty => /\ disk[d].pending # NoSnapshot /\ x.rev = disk[d].pending.base + 1
                              /\ x.data = disk[d].draft
      PROVE Shared!Adopt(d)
  <2>1. disk' = [disk EXCEPT ![d] = Acknowledged(x)] /\ history' = history
    BY <1>6 DEF Finish
  <2>2. /\ Acknowledged(x).base = x /\ Acknowledged(x).draft = x.data
        /\ Acknowledged(x).dirty = FALSE /\ Acknowledged(x).pending = NoSnapshot
    BY DEF Acknowledged
  <2>3. /\ Bases' = [Bases EXCEPT ![d] = x.rev] /\ Drafts' = [Drafts EXCEPT ![d] = x.data]
        /\ Unsent' = [Unsent EXCEPT ![d] = FALSE] /\ MergedWith' = [MergedWith EXCEPT ![d] = 0]
        /\ Commits' = Commits
    BY <1>1, <2>1, <2>2, DiskMapping DEF Commits
  <2>4. /\ x.rev \in Bases[d]..Len(Commits) /\ Commits[x.rev] = x.data
    BY <1>1, <1>2, <1>6, CommitsFacts, CurrentTypes DEF InHistory, Snapshot
  <2>5. Unsent[d] => MergedWith[d] # 0 /\ x.rev = MergedWith[d] + 1 /\ Commits[x.rev] = Drafts[d]
    <3>1. disk[d].dirty => disk[d].pending.base # 0
      <4>1. disk[d].base.rev \in 1..Len(history)
        BY <1>2 DEF InHistory
      <4>2. disk[d].dirty => disk[d].base.rev <= disk[d].pending.base
        BY <1>6 DEF Current, PendingAhead
      <4> QED
        BY <1>1, <1>6, <4>1, <4>2, CurrentTypes
    <3> QED
      BY <1>2, <1>6, <2>4, <3>1
  <2> QED
    BY <2>3, <2>4, <2>5 DEF Shared!Adopt
<1>7. ASSUME NEW d \in Devices, PutAcknowledged(d) PROVE Shared!Adopt(d)
  <2>1. run[d].step \in Awaiting /\ answer[d].code = "ok" /\ Finish(d, Acknowledged(answer[d].snap))
    BY <1>7 DEF PutAcknowledged, Awaiting
  <2>2. disk[d].pending = run[d].s.pending /\ disk[d].pending # NoSnapshot
    BY <1>1, <2>1, PendingOnDisk DEF Shape, StepShape, Awaiting
  <2>3. /\ answer[d].snap \in Snapshot /\ InHistory(answer[d].snap)
        /\ answer[d].snap.rev = disk[d].pending.base + 1
        /\ answer[d].snap.data = disk[d].pending.data
    <3>1. answer[d] \in Answer
      BY <1>1 DEF Shape, TypeOK
    <3>2. answer[d].snap \in Snapshot
      BY <2>1, <3>1 DEF Answer
    <3> QED
      BY <1>1, <2>1, <2>2, <3>2 DEF Committed, AnswerCommitted, Answers, AnswerMatches
  <2>4. disk[d].pending.data = disk[d].draft
    BY <2>2, <1>1 DEF DraftKept
  <2>5. disk[d].base.rev <= answer[d].snap.rev
    BY <1>1, <2>2, <2>3, CurrentTypes DEF Current, PendingAhead
  <2> QED
    BY <1>6, <2>1, <2>2, <2>3, <2>4, <2>5
<1>8. ASSUME NEW d \in Devices, FastForward(d) PROVE Shared!Adopt(d)
  <2>1. run[d].step = "merge" /\ ~disk[d].dirty /\ Finish(d, Acknowledged(run[d].remote))
    BY <1>2, <1>8 DEF FastForward
  <2>2. run[d].remote # NoSnapshot /\ run[d].remote \in Snapshot
    BY <1>1, <2>1 DEF Shape, StepShape, Process
  <2>3. InHistory(run[d].remote)
    BY <1>1, <2>2 DEF Committed, BaseCommitted, InHistory
  <2>4. disk[d].base.rev <= run[d].remote.rev
    <3>1. run[d].remote.rev >= disk[d].base.rev /\ run[d].remote.rev \in Nat
      BY <1>1, <1>2, <2>1, <2>2 DEF Answers, RemoteFresh, Snapshot
    <3> QED
      BY <1>1, <3>1, CurrentTypes
  <2> QED
    BY <1>6, <2>1, <2>2, <2>3, <2>4
<1>9. ASSUME NEW q \in wire, PutCommit(q), history' # history PROVE \E d \in Devices : Shared!Commit(d)
  <2> DEFINE d == q.dev
             e == [rev |-> q.up.base + 1, op |-> q.up.op, data |-> q.up.data]
  <2>1. server.rev = q.up.base /\ history' = Append(history, e) /\ disk' = disk
    BY <1>9 DEF PutCommit
  <2>2. d \in Devices /\ q.up \in Upload /\ q.up # NoSnapshot
    BY <1>1, CurrentTypes
  <2>3. e \in Snapshot /\ e.data = q.up.data
    BY <2>2 DEF Upload, Snapshot
  <2> HIDE DEF e
  <2>4. q.up.base = Len(history) /\ disk[d].pending = q.up
    BY <1>1, <2>1, ServerCurrent DEF Current, UploadCurrent
  <2>5. disk[d].dirty /\ disk[d].draft = q.up.data
    BY <1>1, <2>2, <2>4 DEF DraftKept
  <2>6. Commits' = Append(Commits, q.up.data)
    BY <1>1, <2>1, <2>3, CommitsGrow
  <2> HIDE DEF d
  <2>7. Unsent[d] /\ MergedWith[d] = Len(Commits) /\ Drafts[d] = q.up.data
    BY <1>1, <1>2, <2>2, <2>4, <2>5
  <2>8. Shared!Commit(d)
    BY <2>1, <2>6, <2>7, SameDisk DEF Shared!Commit
  <2> QED
    BY <2>2, <2>8
<1>10. ASSUME Browser PROVE Shared!ConsoleEdit
  <2>1. PICK data \in Data : data \in BrowserVaults(server.data) /\ BrowserCommit(data)
    BY <1>1, <1>10, BrowserStep DEF Shape
  <2> DEFINE e == [rev |-> server.rev + 1, op |-> ops + 1, data |-> data]
  <2>2. history' = Append(history, e) /\ disk' = disk
    BY <2>1 DEF BrowserCommit
  <2>3. e \in Snapshot /\ e.data = data
    BY <1>1, ServerCurrent DEF Shape, TypeOK, Snapshot
  <2> HIDE DEF e
  <2>4. Commits' = Append(Commits, data)
    BY <1>1, <2>2, <2>3, CommitsGrow
  <2>5. Commits[Len(Commits)] = server.data
    BY <1>1, CommitsFacts, ServerCurrent, ServerInHistory DEF Shape
  <2> QED
    BY <2>1, <2>2, <2>4, <2>5, SameDisk DEF Shared!ConsoleEdit
<1>11. CASE Browser
  BY <1>10, <1>11 DEF Shared!Next
<1>12. CASE ~Browser
  <2>1. \/ \E d \in Devices : DeviceStep(d)
        \/ \E q \in wire : PutReceived(q) \/ PutCommit(q)
        \/ UNCHANGED vars
    BY <1>1, <1>12, EditStep DEF Shape, Next, DeviceStep, SyncStep, ServerStep
  <2>2. ASSUME NEW d \in Devices, DeviceStep(d) PROVE [Shared!Next]_(Shared!vars)
    <3>1. history' = history
      BY <2>2 DEF DeviceStep, SaveDraft, SyncBegin, SendPending, SendPut, Send, PutAcknowledged, Finish,
                  PendingRefused, PutRefused, GetRemote, FastForward, MergeAndSave, Abort
    <3> QED
      BY <1>1, <1>3, <1>4, <1>5, <1>7, <1>8, <3>1, DiskCases DEF Shared!Next
  <2>3. ASSUME NEW q \in wire, PutReceived(q) \/ PutCommit(q) PROVE [Shared!Next]_(Shared!vars)
    <3>1. disk' = disk /\ (PutReceived(q) => history' = history)
      BY <2>3 DEF PutReceived, PutCommit
    <3> QED
      BY <1>3, <1>9, <2>3, <3>1 DEF Shared!Next
  <2>4. CASE UNCHANGED vars
    BY <1>3, <2>4 DEF vars
  <2> QED
    BY <2>1, <2>2, <2>3, <2>4
<1> QED
  BY <1>11, <1>12

\* Any number of devices, with the server and the console, implement one shared
\* vault: each commit is the present draft of a device merged with the vault
\* before it, or an edit of the console on that vault; a draft is committed once,
\* and unsent work gives way to its own commit only.
THEOREM SyncRefines == Spec => ImplementsSharedVault
<1>1. Init => Shared!Init
  <2> SUFFICES ASSUME Init PROVE Shared!Init
    OBVIOUS
  <2>1. PICK data \in FirstVaults :
          /\ history = <<[rev |-> 1, op |-> 0, data |-> data]>>
          /\ disk = [d \in Devices |-> [base |-> [rev |-> 1, op |-> 0, data |-> data], draft |-> data,
                                        dirty |-> FALSE, pending |-> NoSnapshot]]
    BY DEF Init
  <2>2. Commits = <<data>>
    BY <2>1 DEF Commits
  <2>3. Bases = [d \in Devices |-> 1] /\ Drafts = [d \in Devices |-> data]
    BY <2>1 DEF Bases, Drafts
  <2>4. Unsent = [d \in Devices |-> FALSE] /\ MergedWith = [d \in Devices |-> 0]
    BY <2>1 DEF Unsent, MergedWith
  <2> QED
    BY <2>2, <2>3, <2>4 DEF Shared!Init
<1>2. Inv /\ Inv' /\ Current /\ [Next]_vars => [Shared!Next]_(Shared!vars)
  BY SharedStep
<1> QED
  BY <1>1, <1>2, SyncInvariant, CurrentInvariant, PTL DEF Spec, ImplementsSharedVault, Shared!Spec
=============================================================================
