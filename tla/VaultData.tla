------------------------------ MODULE VaultData ------------------------------
(***************************************************************************)
(* The decrypted content of a cloud vault and the pure operations on it:   *)
(* the three-way merge of internal/cloudsync/data.go, the repair of        *)
(* compatible conflicts of merge_additions.go, and the edits that the CLI  *)
(* and the browser make.                                                   *)
(*                                                                         *)
(* An entry is a connection: its server configuration (the route that      *)
(* EntryID digests, and the metadata it does not) and the aliases and      *)
(* credential ids, which merge by union.  HomeRoute[id] is the route whose *)
(* digest is id: an entry made by Import or AddDevice carries it, an edit  *)
(* in the browser can change it while the id stays.  Kind[id] is how the   *)
(* connection authenticates; "device" is an SSHM client reached through    *)
(* the relay.  Sources, activity and hardware observations are left out:   *)
(* they are merged pointwise and never decide about an entry.              *)
(***************************************************************************)
CONSTANTS Ids,          \* entry ids
          Metas,        \* metadata of a server: label, description, tags
          Aliases, Credentials,
          Routes,       \* host, port, user, auth, proxy settings
          HomeRoute,    \* HomeRoute[id] is the route that EntryID maps to id
          Kind,
          NoEntry, NoConflict

Kinds == {"key", "password", "device"}
Items == Aliases \cup Credentials

Server == [route : Routes, meta : Metas]
Entry == [server : Server, adds : SUBSET Items]
MaybeEntry == Entry \cup {NoEntry}
Conflict == [local : MaybeEntry, remote : MaybeEntry]
MaybeConflict == Conflict \cup {NoConflict}

ASSUME VaultAssumption ==
    /\ HomeRoute \in [Ids -> Routes]
    /\ Kind \in [Ids -> Kinds]
    /\ NoEntry \notin Entry /\ NoConflict \notin Conflict

Data == [entries   : [Ids -> MaybeEntry],
         deleted   : SUBSET Ids,
         conflicts : [Ids -> MaybeConflict]]

NewData == [entries   |-> [id \in Ids |-> NoEntry],
            deleted   |-> {},
            conflicts |-> [id \in Ids |-> NoConflict]]

-----------------------------------------------------------------------------
(* Merge *)

CompatibleEntries(a, b) ==
    a # NoEntry /\ b # NoEntry /\ a.server = b.server

\* Mutation of MergeAdditions: only the second entry's additions are kept.
SecondAdditions(a, b) == b

MergeAdditions(a, b) == [b EXCEPT !.adds = a.adds \cup b.adds]

\* Tombstones and conflict records: the side that changed since the base,
\* the remote one when both did.
Changed(b, l, r) == IF l = r \/ r = b THEN l ELSE r

SameConnectionAddedTwice(b, l, r) ==
    /\ b = NoEntry /\ l # NoEntry /\ r # NoEntry
    /\ l.server.route = r.server.route

\* The default branch of the switch in Merge: both sides changed the entry in
\* ways that do not combine.
Clash(b, l, r) ==
    /\ l # r /\ b # l /\ b # r
    /\ ~CompatibleEntries(l, r)
    /\ ~SameConnectionAddedTwice(b, l, r)

SelectEntry(b, l, r) ==
    IF l = r \/ b = r THEN l
    ELSE IF b = l \/ Clash(b, l, r) THEN r
    ELSE MergeAdditions(l, r)

Repairable(d, id) ==
    LET c == d.conflicts[id] IN
    /\ c # NoConflict
    /\ d.entries[id] # NoEntry
    /\ id \notin d.deleted
    /\ CompatibleEntries(c.local, c.remote)
    /\ CompatibleEntries(c.local, d.entries[id])

RepairCompatibleConflicts(d) ==
    [d EXCEPT
       !.entries = [id \in Ids |->
           IF Repairable(d, id)
             THEN MergeAdditions(MergeAdditions(d.conflicts[id].local,
                                                d.conflicts[id].remote),
                                 d.entries[id])
             ELSE d.entries[id]],
       !.conflicts = [id \in Ids |->
           IF Repairable(d, id) THEN NoConflict ELSE d.conflicts[id]]]

Merge(base, local, remote) ==
    LET b == base.entries
        l == local.entries
        r == remote.entries
        deleted == {id \in Ids : Changed(id \in base.deleted,
                                         id \in local.deleted,
                                         id \in remote.deleted)}
        selected == [id \in Ids |-> SelectEntry(b[id], l[id], r[id])]
        \* "An old offline importer cannot resurrect a tombstone"
        resurrected == {id \in deleted : selected[id] # NoEntry}
    IN RepairCompatibleConflicts(
         [entries   |-> [id \in Ids |-> IF id \in resurrected
                                          THEN NoEntry ELSE selected[id]],
          deleted   |-> deleted,
          conflicts |-> [id \in Ids |->
              IF id \in resurrected \/ Clash(b[id], l[id], r[id])
                THEN [local |-> l[id], remote |-> r[id]]
                ELSE Changed(base.conflicts[id], local.conflicts[id],
                             remote.conflicts[id])]])

-----------------------------------------------------------------------------
(* Edits of the command line client *)

Findable(d, id) == d.entries[id] # NoEntry /\ d.conflicts[id] = NoConflict

NewEntry(id, meta, adds) ==
    [server |-> [route |-> HomeRoute[id], meta |-> meta], adds |-> adds]

\* An existing entry keeps its server configuration and gains the alias and
\* the key files read with it; a tombstoned identity is skipped.
Import(d, id, meta, a, keys) ==
    IF id \in d.deleted THEN d
    ELSE [d EXCEPT !.entries[id] =
            IF d.entries[id] = NoEntry
              THEN NewEntry(id, meta, {a} \cup keys)
              ELSE [d.entries[id] EXCEPT !.adds = @ \cup {a} \cup keys]]

SetPassword(d, id, c) ==
    [d EXCEPT !.entries[id].adds = (@ \cap Aliases) \cup {c}]

Remove(d, id) == [d EXCEPT !.entries[id] = NoEntry,
                           !.conflicts[id] = NoConflict,
                           !.deleted = @ \cup {id}]

Resolve(d, id, side) ==
    LET e == IF side = "local" THEN d.conflicts[id].local
                               ELSE d.conflicts[id].remote
    IN IF e = NoEntry THEN Remove(d, id)
       ELSE [d EXCEPT !.entries[id] = e,
                      !.deleted = @ \ {id},
                      !.conflicts[id] = NoConflict]

\* Adding a device connection is an explicit restore of a tombstoned one; the
\* device's name becomes its only alias.
AddDevice(d, id, meta, a) ==
    [d EXCEPT !.entries[id] =
                IF d.entries[id] = NoEntry
                  THEN NewEntry(id, meta, {a})
                  ELSE [server |-> [@.server EXCEPT !.meta = meta],
                        adds   |-> (@.adds \cap Credentials) \cup {a}],
              !.deleted = @ \ {id}]

-----------------------------------------------------------------------------
(* Edits of the browser console *)

\* The form can change the metadata and, except for a device, the route, and
\* replaces the first alias; the id stays.
BrowserEdit(d, id, s, old, new) ==
    [d EXCEPT !.entries[id] = [server |-> s,
                               adds   |-> (@.adds \ {old}) \cup {new}]]

\* Bulk change of group and tags, and bulk deletion.
BrowserBulkEdit(d, ids, meta) ==
    [d EXCEPT !.entries = [id \in Ids |->
        IF id \in ids THEN [@[id] EXCEPT !.server.meta = meta] ELSE @[id]]]

BrowserDelete(d, ids) ==
    [entries   |-> [id \in Ids |-> IF id \in ids THEN NoEntry
                                                 ELSE d.entries[id]],
     deleted   |-> d.deleted \cup ids,
     conflicts |-> [id \in Ids |-> IF id \in ids THEN NoConflict
                                                 ELSE d.conflicts[id]]]

\* The form refuses a connection whose route some entry already has, and
\* stores the new entry under the digest of its route.  The tombstone of that
\* id is left as it is.
BrowserAddAllowed(d, id) ==
    \A other \in Ids : d.entries[other] # NoEntry
                         => d.entries[other].server.route # HomeRoute[id]

BrowserAdd(d, id, meta, a) ==
    [d EXCEPT !.entries[id] = NewEntry(id, meta, {a})]

-----------------------------------------------------------------------------
(* What the properties say about the data *)

Holds(e, x) == e # NoEntry /\ x \in e.adds

\* x is in the entry or kept in a side of its conflict record.
Retains(d, id, x) ==
    \/ Holds(d.entries[id], x)
    \/ /\ d.conflicts[id] # NoConflict
       /\ \/ Holds(d.conflicts[id].local, x)
          \/ Holds(d.conflicts[id].remote, x)
=============================================================================
