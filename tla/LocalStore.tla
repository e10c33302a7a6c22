----------------------------- MODULE LocalStore -----------------------------
(***************************************************************************)
(* The local credential store of internal/localstore/store.go: one         *)
(* encrypted file that the CLI, the MCP servers, the background sync and   *)
(* the local service share.  Every writer holds the flock of               *)
(* credentials.json.lock from its read to its write; `service lock` leaves *)
(* a marker file beside the store, and CheckLocked looks at it with and    *)
(* without the flock.  The device protector, the envelope and the atomic   *)
(* rename of writePrivate are one indivisible step each; a process can be  *)
(* killed, or its context cancelled, at every other point.                 *)
(***************************************************************************)
EXTENDS Naturals, FiniteSets

CONSTANTS
    Procs,               \* processes that update the store
    Targets,             \* connection identities (Identity of a config.Server)
    Paths, NoPath,       \* private key files, and "no key path"
    KeyPath,             \* KeyPath[t]: the file a key target names
    Keys, Passwords,     \* credentials
    NoCredential,
    Secrets,             \* named secrets: account tokens, vault keys
    NoStore, NoProc

Credentials == Keys \cup Passwords

Data == [connections : [Targets -> SUBSET Credentials],
         keyFiles : [Paths -> Keys \cup {NoCredential}],
         disabled : SUBSET Targets,
         secrets : SUBSET Secrets]

ASSUME StoreAssumption ==
    /\ NoProc \notin Procs /\ NoPath \notin Paths
    /\ NoCredential \notin Credentials /\ NoStore \notin Data
    /\ Keys \cap Passwords = {}
    /\ KeyPath \in [Targets -> Paths \cup {NoPath}]

VARIABLES
    store,    \* the decrypted content of credentials.json, or NoStore
    locked,   \* the marker credentials.json.locked exists
    holder,   \* the process that holds the flock
    proc,     \* proc[p]: the store operation p is in
    files     \* files[f]: the private key in file f, NoCredential if missing

storeVars == <<store, locked, holder, proc, files>>

-----------------------------------------------------------------------------
EmptyData == [connections |-> [t \in Targets |-> {}],
              keyFiles |-> [f \in Paths |-> NoCredential],
              disabled |-> {},
              secrets |-> {}]

\* validateCredentials refuses an empty list.
Changes == [kind : {"ensure"}]
           \cup [kind : {"put"}, t : Targets, cs : SUBSET Credentials \ {{}}]
           \cup [kind : {"disable"}, t : Targets]
           \cup [kind : {"keyFile"}, f : Paths, c : Keys]
           \cup [kind : {"setSecret"}, name : Secrets]
           \cup [kind : {"deleteSecrets"}, names : SUBSET Secrets]

Operations == Changes \cup [kind : {"lock", "unlock"}]
Nothing == [kind |-> "ensure"]

Put(d, t, cs) == [d EXCEPT !.connections[t] = cs, !.disabled = @ \ {t}]
Disable(d, t) == [d EXCEPT !.disabled = @ \cup {t}]
RememberKeyFile(d, f, c) == [d EXCEPT !.keyFiles[f] = c]
SetSecret(d, name) == [d EXCEPT !.secrets = @ \cup {name}]
\* The secrets under a prefix.
DeleteSecrets(d, names) == [d EXCEPT !.secrets = @ \ names]

\* The function an operation passes to Update.
Apply(op, d) ==
    CASE op.kind = "put" -> Put(d, op.t, op.cs)
      [] op.kind = "disable" -> Disable(d, op.t)
      [] op.kind = "keyFile" -> RememberKeyFile(d, op.f, op.c)
      [] op.kind = "setSecret" -> SetSecret(d, op.name)
      [] op.kind = "deleteSecrets" -> DeleteSecrets(d, op.names)
      [] op.kind = "ensure" -> d

\* What Update starts from: the store, created on first use.
Content(st) == IF st = NoStore THEN EmptyData ELSE st

\* The credentials of a target: its own, else the remembered key of its file.
Bound(d, t) ==
    IF d.connections[t] = {} /\ KeyPath[t] # NoPath
      THEN {d.keyFiles[KeyPath[t]]} \ {NoCredential}
      ELSE d.connections[t]

\* A key target whose file holds another key than the stored one.
KeyFileChanged(fs, t, cs) ==
    KeyPath[t] # NoPath /\ \E c \in cs \cap Keys :
                             fs[KeyPath[t]] \notin {c, NoCredential}

\* Mutation of Resolve: Disabled is not looked at.
ResolveInactive(d, fs, t) ==
    LET cs == Bound(d, t)
    IN CASE cs = {} -> [code |-> "notFound"]
         [] cs # {} /\ KeyFileChanged(fs, t, cs) -> [code |-> "changed"]
         [] OTHER -> [code |-> "ok", cs |-> cs]

\* Resolve on an opened snapshot.
Resolve(d, fs, t) ==
    LET cs == Bound(d, t)
    IN CASE t \in d.disabled -> [code |-> "inactive"]
         [] t \notin d.disabled /\ cs = {} -> [code |-> "notFound"]
         [] t \notin d.disabled /\ cs # {} /\ KeyFileChanged(fs, t, cs)
              -> [code |-> "changed"]
         [] OTHER -> [code |-> "ok", cs |-> cs]

\* Read and Resolve of a process without the flock: it takes the flock, so it
\* sees the store between two updates, and refuses behind the marker.
Open(fs, t) ==
    IF store = NoStore THEN [code |-> "notFound"]
    ELSE IF locked THEN [code |-> "locked"]
    ELSE Resolve(store, fs, t)

-----------------------------------------------------------------------------
\* wait: polling for the flock; staged: read and changed in memory; checked:
\* the marker was looked at again; done: the file was replaced.
Steps == {"idle", "wait", "staged", "checked", "done"}

StoreTypeOK ==
    /\ store \in Data \cup {NoStore}
    /\ locked \in BOOLEAN
    /\ holder \in Procs \cup {NoProc}
    /\ proc \in [Procs -> [step : Steps, op : Operations, data : Data]]
    /\ files \in [Paths -> Keys \cup {NoCredential}]

Rest == [step |-> "idle", op |-> Nothing, data |-> EmptyData]

StoreInit ==
    /\ store = NoStore
    /\ locked = FALSE
    /\ holder = NoProc
    /\ proc = [p \in Procs |-> Rest]
    /\ files \in [Paths -> Keys \cup {NoCredential}]

\* Without a store Lock returns ErrNotFound and DeleteSecrets has nothing to
\* do; with one Ensure only reads.
Begin(p, op) ==
    /\ proc[p].step = "idle"
    /\ op.kind \in {"lock", "deleteSecrets"} => store # NoStore
    /\ op.kind = "ensure" => store = NoStore
    /\ proc' = [proc EXCEPT ![p] = [Rest EXCEPT !.step = "wait", !.op = op]]
    /\ UNCHANGED <<store, locked, holder, files>>

Writes(op) == op.kind \notin {"lock", "unlock"}

\* Mutation of Stage: the store is read before the flock is taken.
StageBeforeLock(p) ==
    /\ proc[p].step = "wait" /\ Writes(proc[p].op)
    /\ ~locked
    /\ holder' = IF holder = NoProc THEN p ELSE holder
    /\ proc' = [proc EXCEPT ![p].step = "staged",
                            ![p].data = Apply(proc[p].op, Content(store))]
    /\ UNCHANGED <<store, locked, files>>

\* Update: the flock, read (which refuses behind the marker), the change.
Stage(p) ==
    /\ proc[p].step = "wait" /\ Writes(proc[p].op)
    /\ holder = NoProc
    /\ ~locked
    /\ holder' = p
    /\ proc' = [proc EXCEPT ![p].step = "staged",
                            ![p].data = Apply(proc[p].op, Content(store))]
    /\ UNCHANGED <<store, locked, files>>

\* ErrLocked from Update's read ends the operation.
Refused(p) ==
    /\ proc[p].step = "wait" /\ Writes(proc[p].op)
    /\ holder = NoProc
    /\ locked
    /\ proc' = [proc EXCEPT ![p] = Rest]
    /\ UNCHANGED <<store, locked, holder, files>>

\* The second CheckLocked of Update, after the encryption.
Recheck(p) ==
    /\ proc[p].step = "staged"
    /\ IF locked
         THEN proc' = [proc EXCEPT ![p] = Rest] /\ holder' = NoProc
         ELSE proc' = [proc EXCEPT ![p].step = "checked"] /\ UNCHANGED holder
    /\ UNCHANGED <<store, locked, files>>

\* writePrivate: the file is replaced by a rename.
Write(p) ==
    /\ proc[p].step = "checked"
    /\ store' = proc[p].data
    /\ proc' = [proc EXCEPT ![p].step = "done"]
    /\ UNCHANGED <<locked, holder, files>>

\* Lock writes the marker under the flock.
Lock(p) ==
    /\ proc[p].step = "wait" /\ proc[p].op.kind = "lock"
    /\ holder = NoProc
    /\ holder' = p
    /\ locked' = TRUE
    /\ proc' = [proc EXCEPT ![p].step = "done"]
    /\ UNCHANGED <<store, files>>

\* Unlock reads the store (allowLocked) before it removes the marker.
Unlock(p) ==
    /\ proc[p].step = "wait" /\ proc[p].op.kind = "unlock"
    /\ holder = NoProc
    /\ IF store = NoStore
         THEN proc' = [proc EXCEPT ![p] = Rest] /\ UNCHANGED <<locked, holder>>
         ELSE /\ proc' = [proc EXCEPT ![p].step = "done"]
              /\ locked' = FALSE
              /\ holder' = p
    /\ UNCHANGED <<store, files>>

\* The deferred release, and the operation returns.
Release(p) ==
    /\ proc[p].step = "done"
    /\ holder' = NoProc
    /\ proc' = [proc EXCEPT ![p] = Rest]
    /\ UNCHANGED <<store, locked, files>>

\* Killed, cancelled, or the change itself failed.  The system drops the flock
\* of a dead process; what was not renamed is lost with it.
Abort(p) ==
    /\ proc[p].step # "idle"
    /\ holder' = IF holder = p THEN NoProc ELSE holder
    /\ proc' = [proc EXCEPT ![p] = Rest]
    /\ UNCHANGED <<store, locked, files>>

\* The user replaces or removes a private key file.
ReplaceKeyFile(f) ==
    /\ \E c \in Keys \cup {NoCredential} : files' = [files EXCEPT ![f] = c]
    /\ UNCHANGED <<store, locked, holder, proc>>

Take(p) == Stage(p) \/ Refused(p) \/ Lock(p) \/ Unlock(p)
Proceed(p) == Recheck(p) \/ Write(p) \/ Release(p)

StoreNext == \/ \E p \in Procs : \/ \E op \in Operations : Begin(p, op)
                                 \/ Take(p) \/ Proceed(p) \/ Abort(p)
             \/ \E f \in Paths : ReplaceKeyFile(f)

StoreSpec == StoreInit /\ [][StoreNext]_storeVars

-----------------------------------------------------------------------------
(* Properties *)

\* Update holds the flock from read to rename, so at most one process is
\* between the two, and a dead one never keeps the others out.
OneWriter ==
    \A p \in Procs : proc[p].step \in {"staged", "checked", "done"} <=> holder = p

\* No update of two processes is lost: what a writer renames into place is the
\* store of that moment with the writer's own change and nothing else.
NoLostUpdate ==
    [][store' # store =>
         \E p \in Procs : /\ Writes(proc[p].op)
                          /\ store' = Apply(proc[p].op, Content(store))]_storeVars

\* `service lock` freezes the store: a transaction that was staged before the
\* marker appeared cannot be renamed into place behind it.
LockFreezesStore == [][locked => store' = store]_storeVars

\* The refinement mapping: an operation is called when its process begins it
\* and takes effect with the rename, or with the marker.
NoOp == [kind |-> "none"]
Asked == [p \in Procs |-> IF proc[p].step = "idle" THEN NoOp ELSE proc[p].op]
Took == [p \in Procs |-> proc[p].step = "done"]
ChangeOf(op, st) == Apply(op, Content(st))

Abstract == INSTANCE CredentialStore
              WITH Ops <- Operations, Change <- ChangeOf, NoContent <- NoStore, NoOp <- NoOp,
                   content <- store, frozen <- locked, asked <- Asked, took <- Took

\* The store implements CredentialStore: every Update, Lock and Unlock takes
\* effect at one moment between its call and its return, or not at all,
\* whatever the other processes do and wherever one is killed.
Linearizable == Abstract!Spec
=============================================================================
