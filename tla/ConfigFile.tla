----------------------------- MODULE ConfigFile -----------------------------
(***************************************************************************)
(* The configuration file config.toml and everything that changes it: the  *)
(* command line, the MCP tools, the observations of probes and logins, the *)
(* cleaner, the publication of the cloud inventory, and an editor.         *)
(*                                                                         *)
(* sshm processes change the file by config.Update: under the lock they    *)
(* read the file, run a callback on the decoded copy, write a temporary    *)
(* file, read the file again and rename.  An editor takes no lock.  Most   *)
(* callers looked at the file earlier, without the lock, and bring what    *)
(* they saw then (a wizard's selection, a probe's target) to the callback. *)
(*                                                                         *)
(* A callback is a set of configurations: empty when it returns an error,  *)
(* several when the result depends on the iteration order of a Go map.     *)
(***************************************************************************)
EXTENDS Naturals, FiniteSets, Sequences, Functions

CONSTANTS
    Procs,       \* sshm processes and MCP tool calls
    Aliases,     \* server aliases
    Hosts,       \* connection identities (host, port, user)
    None,        \* an empty string field
    NoServer,    \* an alias without a record
    Damaged,     \* a file that does not parse, or is of a later version
    Entries,     \* cloud vault entries
    EntryServer, \* what an entry holds of its server
    EntryNames,  \* per entry, its alias and then its generated aliases
    InitialFile, \* the file at the start
    Kinds,       \* which operations the instance performs
    MaxNow,      \* bound on the clock
    MaxOps,      \* bound on sshm operations and the editor's saves together
    MaxEdits     \* bound on the editor's saves

VARIABLES
    file,     \* what config.toml holds
    lock,     \* holder of the sidecar lock, or None
    pc,       \* per process: "idle", "waiting", "drafted", "checked"
    op,       \* per process: the operation and what it saw beforehand
    source,   \* per process: the bytes it decoded under the lock
    draft,    \* per process: the configuration its temporary file holds
    raced,    \* per process: an editor saved after the second read
    backups,  \* configurations kept by the cleaner and by publication
    now, ops, edits

vars == <<file, lock, pc, op, source, draft, raced, backups, now, ops, edits>>
-----------------------------------------------------------------------------
Never == [at |-> 0, host |-> None]
Seen == [at : 0..MaxNow, host : Hosts \union {None}]

Server ==
    [host : Hosts, jump : Aliases \union {None}, keep : BOOLEAN,
     entry : Entries \union {None}, owned : BOOLEAN, born : 0..MaxNow, used : Seen, seen : Seen]

Config ==
    [servers : [Aliases -> Server \union {NoServer}],
     default : Aliases \union {None},
     project : Aliases \union {None}, sound : BOOLEAN]

ASSUME ConfigAssumption ==
    /\ None \notin Aliases \union Hosts \union Procs \union Entries
    /\ EntryServer \in [Entries -> [host : Hosts, jump : Aliases \union {None}, keep : BOOLEAN]]
    /\ EntryNames \in [Entries -> Seq(Aliases)]
    /\ NoServer \notin Server /\ Damaged \notin Config /\ InitialFile \in Config \union {Damaged}
    /\ Kinds \subseteq {"add_quick", "add_wizard", "add_server", "edit", "edit_server", "menu", "project",
                       "rm", "remove_server", "cleanup", "use", "probe", "pair", "publish"}
    /\ MaxNow \in Nat \ {0} /\ MaxOps \in Nat /\ MaxEdits \in Nat

Known(cfg) == {a \in Aliases : cfg.servers[a] # NoServer}
Put(cfg, a, s) == [cfg EXCEPT !.servers[a] = s]
Without(cfg, S) ==
    [cfg EXCEPT !.servers = [a \in Aliases |-> IF a \in S THEN NoServer ELSE @[a]]]

NewServer(h, j, e) ==
    [host |-> h, jump |-> j, keep |-> FALSE, entry |-> e,
     owned |-> FALSE, born |-> now,
     used |-> Never, seen |-> Never]

\* Later observations win, earlier ones arriving late do not.
Observe(old, h, at) == IF at > old.at THEN [at |-> at, host |-> h] ELSE old

ClearServerActivity(s, h) ==
    [s EXCEPT !.host = h, !.born = now, !.used = Never, !.seen = Never]

ServersUsingProxyJump(cfg, a) ==
    {b \in Known(cfg) \ {a} : cfg.servers[b].jump = a}

Protected(cfg, a) ==
    \/ cfg.servers[a].keep
    \/ cfg.default = a
    \/ cfg.project = a
    \/ ServersUsingProxyJump(cfg, a) # {}

Unused(s) ==
    LET last == IF s.used.at = 0 THEN s.born ELSE s.used.at
    IN  last = 0 \/ last < now

Review(cfg) ==
    {a \in Known(cfg) : Unused(cfg.servers[a]) /\ ~Protected(cfg, a)}
-----------------------------------------------------------------------------
(* The callbacks.  o.alias is the operand, o.arg the new value and o.view  *)
(* what the caller saw before it asked for the lock.                       *)

\* The alias was free when the caller looked; it is checked again.
AddQuick(cfg, o) ==
    IF cfg.servers[o.alias] # NoServer THEN {}
    ELSE {Put(cfg, o.alias, NewServer(o.arg, None, None))}

\* The wizard makes the first server the default.
AddWizard(cfg, o) ==
    {[new EXCEPT !.default = IF @ = None THEN o.alias ELSE @] : new \in AddQuick(cfg, o)}

HandleAddServer(cfg, o) ==
    IF cfg.servers[o.alias] # NoServer THEN {}
    ELSE {Put(cfg, o.alias, NewServer(o.arg.host, o.arg.jump, None))}

EditCommand(cfg, o) ==
    LET s == cfg.servers[o.alias]
    IN  IF s = NoServer THEN {}
        ELSE {Put(cfg, o.alias,
                IF s.host = o.arg THEN s ELSE ClearServerActivity(s, o.arg))}

\* The tool changes the fields it was given; an empty string is no value.
HandleEditServer(cfg, o) ==
    LET s == cfg.servers[o.alias]
        t == IF s = NoServer \/ o.arg.jump = None THEN s ELSE [s EXCEPT !.jump = o.arg.jump]
    IN  IF s = NoServer THEN {}
        ELSE {Put(cfg, o.alias,
                IF o.arg.host \in {None, s.host} THEN t
                ELSE ClearServerActivity(t, o.arg.host))}

SetDefault(cfg, o) ==
    IF cfg.servers[o.alias] = NoServer THEN {}
    ELSE {[cfg EXCEPT !.default = o.alias]}

\* The toggle was computed from the record the menu showed.
SetProtected(cfg, o) ==
    IF cfg.servers[o.alias] = NoServer THEN {}
    ELSE {[cfg EXCEPT !.servers[o.alias].keep = ~o.view.keep]}

UpsertProject(cfg, o) ==
    IF cfg.servers[o.alias] = NoServer THEN {}
    ELSE {[cfg EXCEPT !.project = o.alias, !.sound = TRUE]}

CheckServerRemoval(cfg, a) ==
    cfg.servers[a] # NoServer /\ ServersUsingProxyJump(cfg, a) = {}

RemoveServer(cfg, o) ==
    IF ~CheckServerRemoval(cfg, o.alias) THEN {}
    ELSE {[Put(cfg, o.alias, NoServer) EXCEPT
             !.project = IF @ = o.alias THEN None ELSE @,
             !.default = IF @ = o.alias THEN None ELSE @]}

\* Mutation of RemoveCleanupServers: the first review is trusted.
RemoveSelectedServers(cfg, o) ==
    IF \E a \in o.view : cfg.servers[a] = NoServer THEN {}
    ELSE {Without(cfg, o.view)}

\* Reviewed again under the lock; the review before it may be stale.
RemoveCleanupServers(cfg, o) ==
    IF \E a \in o.view :
          cfg.servers[a] = NoServer \/ Protected(cfg, a) \/ a \notin Review(cfg)
    THEN {}
    ELSE {Without(cfg, o.view)}

\* Mutation of RecordSSHUse: recorded under the alias, whoever it is now.
RecordUseOfAlias(cfg, o) ==
    LET s == cfg.servers[o.alias]
    IN  IF s = NoServer THEN {cfg}
        ELSE {Put(cfg, o.alias,
                [s EXCEPT !.used = Observe(@, o.view.host, o.arg),
                          !.seen = Observe(@, o.view.host, o.arg)])}

\* A login proved by a handshake, a probe of the TCP port: both belong to the
\* identity that was dialled.
RecordSSHUse(cfg, o) ==
    LET s == cfg.servers[o.alias]
    IN  IF s = NoServer \/ s.host # o.view.host THEN {cfg}
        ELSE {Put(cfg, o.alias,
                [s EXCEPT !.used = Observe(@, o.view.host, o.arg),
                          !.seen = Observe(@, o.view.host, o.arg)])}

RecordProbes(cfg, o) ==
    LET s == cfg.servers[o.alias]
    IN  IF s = NoServer \/ s.host # o.view.host THEN {cfg}
        ELSE {Put(cfg, o.alias, [s EXCEPT !.seen = Observe(@, o.view.host, o.arg)])}

\* Pairing has waited for minutes since it looked at the alias (o.view) and
\* proved a login: on o.arg for a new alias, else on the host it saw.
SavePairedServer(cfg, o) ==
    LET s == cfg.servers[o.alias]
        Save(t) ==
            LET proved == [at |-> now, host |-> t.host]
            IN  [Put(cfg, o.alias, [t EXCEPT !.used = proved, !.seen = proved])
                   EXCEPT !.default = IF @ = None THEN o.alias ELSE @]
    IN  IF o.view = NoServer
        THEN IF s = NoServer THEN {Save(NewServer(o.arg, None, None))} ELSE {}
        ELSE IF s = NoServer THEN {}
        ELSE IF s.host # o.view.host THEN {} ELSE {Save(s)}

\* Publication of the vault: o.arg says for each entry whether it is live,
\* deleted or in conflict.  The digest of a route, jump host included, is the
\* id of its entry.
IdOf(s) == {e \in Entries : EntryServer[e].host = s.host /\ EntryServer[e].jump = s.jump}
Status(o, s) == IF s.entry = None THEN {o.arg[e] : e \in IdOf(s)} ELSE {o.arg[s.entry]}
IsNative(cfg, a) == cfg.servers[a].entry = None

Deleted(cfg, o) ==
    {a \in Known(cfg) : /\ Status(o, cfg.servers[a]) = {"deleted"}
                        /\ IsNative(cfg, a) => cfg.servers[a].owned}

\* A Go map is walked in any order, and a record that something refers to when
\* its turn comes is kept, so which records of deleted entries go depends on
\* the order. A record of the vault goes at once, a native one after the walk.
Goes(cfg, o, rank, gone) ==
    {a \in Deleted(cfg, o) :
        ~Protected(Without(cfg, {b \in gone : ~IsNative(cfg, b) /\ rank[b] < rank[a]}), a)}

Walks(cfg, o) ==
    {gone \in SUBSET Deleted(cfg, o) :
        \E rank \in Injection(Aliases, 1..Cardinality(Aliases)) : gone = Goes(cfg, o, rank, gone)}

\* Native records of entries that the vault has are its own from now on.
Claim(cfg, o) ==
    [cfg EXCEPT !.servers = [a \in Aliases |->
        IF a \in Known(cfg) /\ IsNative(cfg, a)
        THEN [cfg.servers[a] EXCEPT !.owned = @ \/ Status(o, cfg.servers[a]) \ {"deleted"} # {}]
        ELSE cfg.servers[a]]]

NativeIds(cfg, o) ==
    UNION {IdOf(cfg.servers[a]) : a \in {b \in Known(cfg) \ Deleted(cfg, o) : IsNative(cfg, b)}}

\* A live entry keeps the alias that refers to it, else takes the first of its
\* names that is free; the entries go in the order of their ids.
EntryRank == CHOOSE rank \in Injection(Entries, 1..Cardinality(Entries)) : TRUE

PublishedAlias(cfg, e, taken) ==
    LET refs == {a \in Known(cfg) : cfg.servers[a].entry = e}
        free == {i \in DOMAIN EntryNames[e] :
                    EntryNames[e][i] \notin Known(cfg) \union taken}
    IN  IF refs # {} THEN CHOOSE a \in refs : TRUE
        ELSE IF free = {} THEN None
        ELSE EntryNames[e][CHOOSE i \in free : \A k \in free : i <= k]

Placings(cfg, o, native) ==
    {place \in [Entries -> Aliases \union {None}] : \A e \in Entries :
        place[e] = IF o.arg[e] # "live" \/ e \in native THEN None
                   ELSE PublishedAlias(cfg, e,
                          {place[d] : d \in {c \in Entries : EntryRank[c] < EntryRank[e]}})}

\* The record is the entry's, with its jump host and its protection.  The
\* activity of the entry is what this device imported from the record; the
\* route is a choice of this device as long as the target is the same.
PublishedServer(old, e) ==
    LET fresh == [host |-> EntryServer[e].host, jump |-> EntryServer[e].jump,
                  keep |-> EntryServer[e].keep, entry |-> e,
                  owned |-> TRUE, born |-> 0, used |-> Never, seen |-> Never]
    IN  IF old = NoServer THEN fresh
        ELSE [fresh EXCEPT
                !.used = old.used, !.seen = old.seen,
                !.jump = IF old.host = EntryServer[e].host THEN old.jump ELSE @]

Publish(cfg, place) ==
    [cfg EXCEPT !.servers = [a \in Aliases |->
        IF \E e \in Entries : place[e] = a
        THEN PublishedServer(@[a], CHOOSE e \in Entries : place[e] = a)
        ELSE @[a]]]

PublishInventory(cfg, o) ==
    UNION {LET left == Without(Claim(cfg, o), gone)
           IN  {Publish(left, place) : place \in Placings(left, o, NativeIds(cfg, o))} :
           gone \in Walks(cfg, o)}
-----------------------------------------------------------------------------
(* The callers: what each may ask for after it looked at the file, without *)
(* the lock, and let its own checks pass.                                  *)
Ask(kind, names, args, views) ==
    {[kind |-> kind, alias |-> a, arg |-> x, view |-> v] :
        a \in names, x \in args, v \in views}

\* The caller holds the record it saw.
AskSeen(kind, cfg, arg) ==
    {[kind |-> kind, alias |-> a, arg |-> arg, view |-> cfg.servers[a]] :
        a \in Known(cfg)}

AddQuickAsks(cfg) == Ask("add_quick", Aliases \ Known(cfg), Hosts, {None})
AddWizardAsks(cfg) == Ask("add_wizard", Aliases \ Known(cfg), Hosts, {None})

\* The tools check nothing before they take the lock.
Route == [host : Hosts, jump : Aliases \union {None}]
AddServerAsks == Ask("add_server", Aliases, Route, {None})
EditServerAsks ==
    Ask("edit_server", Aliases,
        [host : Hosts, jump : {None}] \union [host : {None}, jump : Aliases], {None})
RemoveServerAsks == Ask("remove_server", Aliases, {None}, {None})
ProjectAsks == Ask("project", Aliases, {None}, {None})

EditAsks == Ask("edit", Aliases, Hosts, {None})
RmAsks(cfg) == Ask("rm", {a \in Aliases : CheckServerRemoval(cfg, a)}, {None}, {None})

\* The server menu of `sshm ls`.
MenuAsks(cfg) ==
    Ask("default", Known(cfg), {None}, {None}) \union AskSeen("protect", cfg, None)

\* The person ticks some of the candidates of the review.
CleanupAsks(cfg) == Ask("cleanup", {None}, {None}, SUBSET Review(cfg) \ {{}})

\* A login or a probe of the record that was read.
UseAsks(cfg) == AskSeen("use", cfg, now)
ProbeAsks(cfg) == AskSeen("probe", cfg, now)

PairAsks(cfg) ==
    AskSeen("pair", cfg, None)
        \union Ask("pair", Aliases \ Known(cfg), Hosts, {NoServer})

\* A synchronization ended with this vault.
PublishAsks ==
    Ask("publish", {None}, [Entries -> {"live", "deleted", "conflict"}], {None})

Asks(cfg, k) ==
    CASE k = "add_quick" -> AddQuickAsks(cfg) [] k = "add_wizard" -> AddWizardAsks(cfg)
      [] k = "add_server" -> AddServerAsks    [] k = "edit_server" -> EditServerAsks
      [] k = "remove_server" -> RemoveServerAsks [] k = "project" -> ProjectAsks
      [] k = "edit" -> EditAsks               [] k = "rm" -> RmAsks(cfg)
      [] k = "menu" -> MenuAsks(cfg)          [] k = "cleanup" -> CleanupAsks(cfg)
      [] k = "use" -> UseAsks(cfg)            [] k = "probe" -> ProbeAsks(cfg)
      [] k = "pair" -> PairAsks(cfg)          [] k = "publish" -> PublishAsks

Effect(cfg, o) ==
    CASE o.kind = "add_quick" -> AddQuick(cfg, o)
      [] o.kind = "add_wizard" -> AddWizard(cfg, o)
      [] o.kind = "add_server" -> HandleAddServer(cfg, o)
      [] o.kind = "edit" -> EditCommand(cfg, o)
      [] o.kind = "edit_server" -> HandleEditServer(cfg, o)
      [] o.kind = "default" -> SetDefault(cfg, o)
      [] o.kind = "protect" -> SetProtected(cfg, o)
      [] o.kind = "project" -> UpsertProject(cfg, o)
      [] o.kind \in {"rm", "remove_server"} -> RemoveServer(cfg, o)
      [] o.kind = "cleanup" -> RemoveCleanupServers(cfg, o)
      [] o.kind = "use" -> RecordSSHUse(cfg, o)
      [] o.kind = "probe" -> RecordProbes(cfg, o)
      [] o.kind = "pair" -> SavePairedServer(cfg, o)
      [] o.kind = "publish" -> PublishInventory(cfg, o)

NoOp == [kind |-> "none", alias |-> None, arg |-> None, view |-> None]
-----------------------------------------------------------------------------
Init ==
    /\ file = InitialFile
    /\ lock = None
    /\ pc = [p \in Procs |-> "idle"]
    /\ op = [p \in Procs |-> NoOp]
    /\ source = [p \in Procs |-> None]
    /\ draft = [p \in Procs |-> None]
    /\ raced = [p \in Procs |-> FALSE]
    /\ backups = {}
    /\ now = 1 /\ ops = 0 /\ edits = 0

Loaded == IF file = Damaged THEN {} ELSE {file}

\* config.Load without the lock, then a form, a dial, a wait: anything may
\* happen before the callback runs.
Start(p) ==
    /\ pc[p] = "idle" /\ ops + edits < MaxOps
    /\ \E cfg \in Loaded, k \in Kinds : \E r \in Asks(cfg, k) :
          op' = [op EXCEPT ![p] = r]
    /\ pc' = [pc EXCEPT ![p] = "waiting"]
    /\ ops' = ops + 1
    /\ UNCHANGED <<file, lock, source, draft, raced, backups, now, edits>>

\* The process forgets the operation; the lock is released on every return.
Finish(p) ==
    /\ lock' = IF lock = p THEN None ELSE lock
    /\ pc' = [pc EXCEPT ![p] = "idle"]
    /\ op' = [op EXCEPT ![p] = NoOp]
    /\ source' = [source EXCEPT ![p] = None]
    /\ draft' = [draft EXCEPT ![p] = None]
    /\ raced' = [raced EXCEPT ![p] = FALSE]

KeepsBackup(o, cfg, new) ==
    \/ o.kind = "cleanup"
    \/ o.kind = "publish" /\ \E a \in Known(cfg) :
          cfg.servers[a].entry = None /\ new.servers[a] = NoServer

\* Lock, read, decode, callback, temporary file.
Update(p) ==
    /\ pc[p] = "waiting" /\ lock = None
    /\ \E cfg \in Loaded : \E new \in Effect(cfg, op[p]) :
          /\ new.sound
          /\ source' = [source EXCEPT ![p] = cfg]
          /\ draft' = [draft EXCEPT ![p] = new]
          /\ backups' = IF KeepsBackup(op[p], cfg, new)
                        THEN backups \union {cfg} ELSE backups
    /\ lock' = p
    /\ pc' = [pc EXCEPT ![p] = "drafted"]
    /\ UNCHANGED <<file, op, raced, now, ops, edits>>

\* The file does not decode, the callback refuses, or a project is unsound.
Refuse(p) ==
    /\ pc[p] = "waiting" /\ lock = None
    /\ \A cfg \in Loaded : \A new \in Effect(cfg, op[p]) : ~new.sound
    /\ Finish(p)
    /\ UNCHANGED <<file, backups, now, ops, edits>>

\* Mutation of SaveIfUnchanged: the file is not read again.
SaveAnyway(p) ==
    /\ pc[p] = "drafted"
    /\ pc' = [pc EXCEPT ![p] = "checked"]
    /\ UNCHANGED <<file, lock, op, source, draft, raced, backups, now, ops, edits>>

SaveIfUnchanged(p) ==
    /\ pc[p] = "drafted"
    /\ \/ /\ file = source[p]
          /\ pc' = [pc EXCEPT ![p] = "checked"]
          /\ UNCHANGED <<lock, op, source, draft, raced>>
       \/ file # source[p] /\ Finish(p)
    /\ UNCHANGED <<file, backups, now, ops, edits>>

Rename(p) ==
    /\ pc[p] = "checked"
    /\ file' = draft[p]
    /\ Finish(p)
    /\ UNCHANGED <<backups, now, ops, edits>>

\* The process dies, or an I/O error ends the update; the operating system
\* releases the lock and the temporary file is no longer anybody's.
Die(p) ==
    /\ pc[p] # "idle"
    /\ Finish(p)
    /\ UNCHANGED <<file, backups, now, ops, edits>>

\* A person saves the file, without the lock: another host, another default,
\* a project that does not validate, a file that does not parse.
Edited(cfg) ==
    {Damaged} \union {[cfg EXCEPT !.sound = FALSE]}
    \union {[cfg EXCEPT !.default = a] : a \in Known(cfg)}
    \union {[cfg EXCEPT !.servers[a].host = h] : a \in Known(cfg), h \in Hosts}

Edit ==
    /\ edits < MaxEdits /\ ops + edits < MaxOps
    /\ edits' = edits + 1
    /\ \E new \in (IF file = Damaged THEN {InitialFile} ELSE Edited(file)) :
          new # file /\ file' = new
    /\ raced' = [p \in Procs |-> raced[p] \/ pc[p] = "checked"]
    /\ UNCHANGED <<lock, pc, op, source, draft, backups, now, ops>>

Tick ==
    /\ now < MaxNow
    /\ now' = now + 1
    /\ UNCHANGED <<file, lock, pc, op, source, draft, raced, backups, ops, edits>>

Next ==
    \/ \E p \in Procs :
          Start(p) \/ Update(p) \/ Refuse(p) \/ SaveIfUnchanged(p) \/ Rename(p) \/ Die(p)
    \/ Edit
    \/ Tick

Spec == Init /\ [][Next]_vars
-----------------------------------------------------------------------------
TypeOK ==
    /\ file \in Config \union {Damaged}
    /\ lock \in Procs \union {None}
    /\ pc \in [Procs -> {"idle", "waiting", "drafted", "checked"}]
    /\ source \in [Procs -> Config \union {None}]
    /\ draft \in [Procs -> Config \union {None}]
    /\ raced \in [Procs -> BOOLEAN]
    /\ backups \subseteq Config
    /\ now \in 1..MaxNow /\ ops \in 0..MaxOps /\ edits \in 0..MaxEdits

\* An update replaces exactly the file it read: no other update and no save of
\* an editor is lost, unless the editor saved between the second read and the
\* rename (saveUnlockedIfUnchanged).
NoLostEdit == [][\A p \in Procs : Rename(p) => file = source[p] \/ raced[p]]_vars

\* The records that disappear from the file with a rename of p.
Removed(p) ==
    IF file = Damaged THEN {} ELSE Known(file) \ Known(draft[p])

\* A publication makes a record from its entry, whose jump host is alias a: the
\* record is new, belonged to another entry or to none, or had another jump host.
BroughtByVault(kind, old, new, a) ==
    /\ kind = "publish" /\ new.entry # None
    /\ EntryServer[new.entry].jump = a
    /\ ~(old # NoServer /\ old.entry = new.entry /\ old.jump = a)

\* No removal by a command, a tool, the cleaner or the publication breaks a
\* reference: the default, the project and the jump hosts of the servers that
\* were there before still resolve whenever they did.  Only a record that the
\* same publication makes from an entry can name a removed jump host, because
\* the entry does. What the cleaner takes away was unused and unprotected at
\* that moment, not only when the person ticked it, and can be restored from a
\* backup; so can the native records a publication takes away.
RemovalIsSafe ==
    [][\A p \in Procs : Rename(p) /\ ~raced[p] =>
         \A a \in Removed(p) :
            /\ file'.default # a /\ file'.project # a
            /\ \A b \in Known(file') :
                  file'.servers[b].jump = a =>
                    BroughtByVault(op[p].kind, file.servers[b], file'.servers[b], a)
            /\ op[p].kind = "cleanup" =>
                  ~Protected(file, a) /\ Unused(file.servers[a])
            /\ (op[p].kind = "cleanup" \/ file.servers[a].entry = None)
                  /\ op[p].kind \notin {"rm", "remove_server"} =>
                  \E b \in backups : b.servers[a] = file.servers[a]]_vars

\* A delayed observation never describes another machine: what an update
\* writes about the activity of a native record was observed on its identity,
\* or was there before.
ActivityOfIdentity ==
    [][\A p \in Procs : Rename(p) /\ ~raced[p] =>
         \A a \in Known(draft[p]) :
            LET s == draft[p].servers[a]
                old == file.servers[a]
                Right(x, was) ==
                    \/ x = Never \/ x.host = s.host
                    \/ old # NoServer /\ old.host = s.host /\ x = was
            IN  s.entry = None => Right(s.used, old.used) /\ Right(s.seen, old.seen)]_vars
=============================================================================
