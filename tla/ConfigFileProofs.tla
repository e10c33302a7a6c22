-------------------------- MODULE ConfigFileProofs --------------------------
(***************************************************************************)
(* No edit of the configuration file is lost, for any number of processes, *)
(* aliases and operations.  NoLostEdit speaks of the moment of the rename; *)
(* what carries it there is that one process is between its read and its   *)
(* rename, and that a process which has read the file a second time sees   *)
(* it unchanged, or knows of the editor's save in between.  What goes from *)
(* the file and whose activity is recorded is right because every callback *)
(* gets it right for the file it is given.  After that, the                *)
(* commands that enroll a host and write its record into that file, for    *)
(* any number of commands, hosts, users and scripts.                       *)
(***************************************************************************)
EXTENDS ConfigFile, Enrollment, TLAPS

\* What the proof needs of the types: the content of the file is immaterial.
Shape ==
    /\ lock \in Procs \union {None}
    /\ pc \in [Procs -> {"idle", "waiting", "drafted", "checked"}]
    /\ raced \in [Procs -> BOOLEAN]
    /\ source = [p \in Procs |-> source[p]]

OneUpdater == \A p \in Procs : pc[p] \in {"drafted", "checked"} <=> lock = p

\* After the second read the file is the one the draft was made from.
CheckedCurrent == \A p \in Procs : pc[p] = "checked" => file = source[p] \/ raced[p]

UpdateInv == Shape /\ OneUpdater /\ CheckedCurrent

LEMMA NoneIsNoProc == None \notin Procs
BY ConfigAssumption

LEMMA UpdateInit == Init => UpdateInv
BY NoneIsNoProc DEF Init, UpdateInv, Shape, OneUpdater, CheckedCurrent

\* Every way out of an operation, whatever it did to the file before, keeps
\* the invariant when no other process is inside or the file is unchanged.
LEMMA FinishStep ==
    ASSUME UpdateInv, NEW p \in Procs, Finish(p), file' = file \/ lock = p
    PROVE UpdateInv'
<1>1. Shape'
  BY DEF Finish, UpdateInv, Shape
<1>2. \A q \in Procs \ {p} : pc'[q] = pc[q] /\ source'[q] = source[q] /\ raced'[q] = raced[q]
  BY DEF Finish, UpdateInv, Shape
<1>3. pc'[p] = "idle"
  BY DEF Finish, UpdateInv, Shape
<1>4. OneUpdater'
  BY <1>2, <1>3, NoneIsNoProc DEF Finish, UpdateInv, OneUpdater
<1>5. CheckedCurrent'
  <2>1. CASE file' = file
    BY <1>2, <1>3, <2>1 DEF UpdateInv, CheckedCurrent
  <2>2. CASE lock = p
    <3>1. \A q \in Procs : pc'[q] # "checked"
      BY <1>2, <1>3, <2>2 DEF UpdateInv, OneUpdater
    <3> QED
      BY <3>1 DEF CheckedCurrent
  <2> QED
    BY <2>1, <2>2
<1> QED
  BY <1>1, <1>4, <1>5 DEF UpdateInv

LEMMA UpdateStep == UpdateInv /\ [Next]_vars => UpdateInv'
<1> SUFFICES ASSUME UpdateInv, [Next]_vars PROVE UpdateInv'
  OBVIOUS
<1>1. ASSUME NEW p \in Procs, Start(p) PROVE UpdateInv'
  BY <1>1 DEF Start, UpdateInv, Shape, OneUpdater, CheckedCurrent
<1>2. ASSUME NEW p \in Procs, Update(p) PROVE UpdateInv'
  <2>1. /\ lock = None /\ lock' = p /\ file' = file /\ raced' = raced
        /\ pc' = [pc EXCEPT ![p] = "drafted"]
    BY <1>2 DEF Update
  <2>2. PICK cfg \in Loaded : source' = [source EXCEPT ![p] = cfg]
    BY <1>2 DEF Update
  <2>3. \A q \in Procs : pc[q] \notin {"drafted", "checked"}
    BY <2>1, NoneIsNoProc DEF UpdateInv, OneUpdater
  <2>4. Shape'
    BY <2>1, <2>2 DEF UpdateInv, Shape
  <2>5. OneUpdater' /\ CheckedCurrent'
    BY <2>1, <2>3 DEF UpdateInv, Shape, OneUpdater, CheckedCurrent
  <2> QED
    BY <2>4, <2>5 DEF UpdateInv
<1>3. ASSUME NEW p \in Procs, Refuse(p) \/ Die(p) PROVE UpdateInv'
  BY <1>3, FinishStep DEF Refuse, Die
<1>4. ASSUME NEW p \in Procs, SaveIfUnchanged(p) PROVE UpdateInv'
  <2>1. CASE file = source[p] /\ pc' = [pc EXCEPT ![p] = "checked"]
                /\ UNCHANGED <<lock, op, source, draft, raced>>
    BY <1>4, <2>1 DEF SaveIfUnchanged, UpdateInv, Shape, OneUpdater, CheckedCurrent
  <2>2. CASE Finish(p)
    BY <1>4, <2>2, FinishStep DEF SaveIfUnchanged
  <2> QED
    BY <1>4, <2>1, <2>2 DEF SaveIfUnchanged
<1>5. ASSUME NEW p \in Procs, Rename(p) PROVE UpdateInv'
  <2>1. lock = p
    BY <1>5 DEF Rename, UpdateInv, OneUpdater
  <2> QED
    BY <1>5, <2>1, FinishStep DEF Rename
<1>6. CASE Edit
  BY <1>6 DEF Edit, UpdateInv, Shape, OneUpdater, CheckedCurrent
<1>7. CASE Tick \/ UNCHANGED vars
  BY <1>7 DEF Tick, vars, UpdateInv, Shape, OneUpdater, CheckedCurrent
<1> QED
  BY <1>1, <1>2, <1>3, <1>4, <1>5, <1>6, <1>7 DEF Next

\* At every moment at most one process is between the read and the rename of
\* config.Update, and the file it has read twice is the file that is there.
THEOREM UpdateInvariant == Spec => []UpdateInv
BY UpdateInit, UpdateStep, PTL DEF Spec

\* However many processes update the file and however often an editor saves
\* it, an update replaces exactly the file it read, unless the save came after
\* its second read.
THEOREM EditsKept == Spec => NoLostEdit
<1>1. UpdateInv /\ [Next]_vars
        => [\A p \in Procs : Rename(p) => file = source[p] \/ raced[p]]_vars
  BY DEF UpdateInv, CheckedCurrent, Rename
<1> QED
  BY <1>1, UpdateInvariant, PTL DEF Spec, NoLostEdit

-----------------------------------------------------------------------------
(* What the callbacks do to a configuration.                               *)

\* What a caller asks for once it has looked at the file.
Asked(o) ==
    CASE o.kind \in {"add_quick", "add_wizard", "edit"} -> o.alias \in Aliases /\ o.arg \in Hosts
      [] o.kind = "add_server" -> o.alias \in Aliases /\ o.arg \in Route
      [] o.kind = "edit_server" ->
           o.alias \in Aliases /\ o.arg.host \in Hosts \union {None} /\ o.arg.jump \in Aliases \union {None}
      [] o.kind \in {"default", "project", "rm", "remove_server"} -> o.alias \in Aliases
      [] o.kind = "protect" -> o.alias \in Aliases /\ o.view \in Server
      [] o.kind = "cleanup" -> o.view \in SUBSET Aliases
      [] o.kind \in {"use", "probe"} -> o.alias \in Aliases /\ o.view \in Server /\ o.arg \in 0..MaxNow
      [] o.kind = "pair" ->
           /\ o.alias \in Aliases
           /\ (o.view = NoServer /\ o.arg \in Hosts) \/ o.view \in Server
      [] o.kind = "publish" -> o.arg \in [Entries -> {"live", "deleted", "conflict"}]
      [] OTHER -> FALSE

\* An observation of a record: none, of its own host, or there before.
Right(x, was, s, old) ==
    \/ x = Never \/ x.host = s.host
    \/ old # NoServer /\ old.host = s.host /\ x = was
Fits(s, old) == s.entry = None => Right(s.used, old.used, s, old) /\ Right(s.seen, old.seen, s, old)

\* A callback that changes one record, and removes none.
Plain(cfg, new, a) ==
    /\ new \in Config /\ a \in Aliases
    /\ \A b \in Aliases \ {a} : new.servers[b] = cfg.servers[b]
    /\ cfg.servers[a] # NoServer => new.servers[a] # NoServer
    /\ new.servers[a] # NoServer => Fits(new.servers[a], cfg.servers[a])

LEMMA PutFacts ==
    ASSUME NEW cfg \in Config, NEW a \in Aliases, NEW t \in Server \union {NoServer}
    PROVE /\ Put(cfg, a, t) \in Config
          /\ Put(cfg, a, t).servers[a] = t
          /\ \A b \in Aliases \ {a} : Put(cfg, a, t).servers[b] = cfg.servers[b]
          /\ Put(cfg, a, t).default = cfg.default /\ Put(cfg, a, t).project = cfg.project
<1> DEFINE servers == [cfg.servers EXCEPT ![a] = t]
<1>1. cfg.servers \in [Aliases -> Server \union {NoServer}]
  BY DEF Config
<1>2. /\ servers \in [Aliases -> Server \union {NoServer}] /\ servers[a] = t
      /\ \A b \in Aliases \ {a} : servers[b] = cfg.servers[b]
  BY <1>1
<1>3. Put(cfg, a, t) = [cfg EXCEPT !.servers = servers]
  BY DEF Put
<1> HIDE DEF servers
<1>4. /\ [cfg EXCEPT !.servers = servers] \in Config
      /\ [cfg EXCEPT !.servers = servers].servers = servers
      /\ [cfg EXCEPT !.servers = servers].default = cfg.default
      /\ [cfg EXCEPT !.servers = servers].project = cfg.project
  BY <1>2 DEF Config
<1> QED
  BY <1>2, <1>3, <1>4

\* The other fields of a configuration do not touch the records.
LEMMA FieldFacts ==
    ASSUME NEW cfg \in Config, NEW d \in Aliases \union {None}
    PROVE /\ [cfg EXCEPT !.default = d] \in Config /\ [cfg EXCEPT !.default = d].servers = cfg.servers
          /\ [cfg EXCEPT !.project = d, !.sound = TRUE] \in Config
          /\ [cfg EXCEPT !.project = d, !.sound = TRUE].servers = cfg.servers
<1>1. [cfg EXCEPT !.default = d] \in Config /\ [cfg EXCEPT !.default = d].servers = cfg.servers
  BY DEF Config
<1>2. \A x \in BOOLEAN : /\ [cfg EXCEPT !.project = d, !.sound = x] \in Config
                         /\ [cfg EXCEPT !.project = d, !.sound = x].servers = cfg.servers
  BY DEF Config
<1> QED
  BY <1>1, <1>2, Zenon

LEMMA NeverType == Never \in Seen
BY ConfigAssumption DEF Never, Seen

LEMMA NewServerFacts ==
    ASSUME now \in 1..MaxNow, NEW h \in Hosts, NEW j \in Aliases \union {None},
           NEW e \in Entries \union {None}
    PROVE /\ NewServer(h, j, e) \in Server /\ NewServer(h, j, e).host = h
          /\ NewServer(h, j, e).used = Never /\ NewServer(h, j, e).seen = Never
BY NeverType, ConfigAssumption DEF NewServer, Server

LEMMA ClearFacts ==
    ASSUME now \in 1..MaxNow, NEW s \in Server, NEW h \in Hosts
    PROVE /\ ClearServerActivity(s, h) \in Server
          /\ ClearServerActivity(s, h).used = Never /\ ClearServerActivity(s, h).seen = Never
<1>1. \A x \in Seen, n \in 0..MaxNow :
        LET t == [s EXCEPT !.host = h, !.born = n, !.used = x, !.seen = x]
        IN  t \in Server /\ t.used = x /\ t.seen = x
  BY DEF Server
<1>2. Never \in Seen /\ now \in 0..MaxNow
  BY NeverType, ConfigAssumption
<1> QED
  BY <1>1, <1>2, Zenon DEF ClearServerActivity

LEMMA ObserveFacts ==
    ASSUME NEW old \in Seen, NEW h \in Hosts, NEW at \in 0..MaxNow
    PROVE Observe(old, h, at) \in Seen /\ (Observe(old, h, at).host = h \/ Observe(old, h, at) = old)
BY DEF Observe, Seen

LEMMA SeenOfServer == \A s \in Server : s.host \in Hosts /\ s.used \in Seen /\ s.seen \in Seen
BY DEF Server

\* A record with other observations.
Noted(s, x, y) == [s EXCEPT !.used = x, !.seen = y]
LEMMA NotedFacts ==
    ASSUME NEW s \in Server, NEW x \in Seen, NEW y \in Seen
    PROVE /\ Noted(s, x, y) \in Server /\ Noted(s, x, y).host = s.host
          /\ Noted(s, x, y).used = x /\ Noted(s, x, y).seen = y
BY DEF Noted, Server

\* A new record, a record at its host, and a record that moves to another.
LEMMA PutPlain ==
    ASSUME NEW cfg \in Config, NEW a \in Aliases, NEW t \in Server,
           Fits(t, cfg.servers[a])
    PROVE Plain(cfg, Put(cfg, a, t), a)
<1>1. NoServer \notin Server
  BY ConfigAssumption
<1> QED
  BY <1>1, PutFacts DEF Plain

LEMMA PutDefaultPlain ==
    ASSUME NEW cfg \in Config, NEW new, NEW a, Plain(cfg, new, a), NEW d \in Aliases \union {None}
    PROVE Plain(cfg, [new EXCEPT !.default = d], a)
BY FieldFacts, Zenon DEF Plain

LEMMA UnchangedPlain ==
    ASSUME NEW cfg \in Config, NEW new \in Config, NEW a \in Aliases, new.servers = cfg.servers
    PROVE Plain(cfg, new, a)
BY DEF Plain, Fits, Right

LEMMA ServerOf ==
    ASSUME NEW cfg \in Config, NEW a \in Aliases
    PROVE /\ cfg.servers[a] \in Server \union {NoServer} /\ cfg.default \in Aliases \union {None}
          /\ cfg.project \in Aliases \union {None}
BY DEF Config

LEMMA AddsPlain ==
    ASSUME now \in 1..MaxNow, NEW cfg \in Config, NEW o, Asked(o), NEW new,
           \/ o.kind = "add_quick" /\ new \in AddQuick(cfg, o)
           \/ o.kind = "add_wizard" /\ new \in AddWizard(cfg, o)
           \/ o.kind = "add_server" /\ new \in HandleAddServer(cfg, o)
    PROVE Plain(cfg, new, o.alias)
<1>1. ASSUME NEW h \in Hosts, NEW j \in Aliases \union {None}, NEW a \in Aliases
      PROVE Plain(cfg, Put(cfg, a, NewServer(h, j, None)), a)
  <2>1. NewServer(h, j, None) \in Server /\ Fits(NewServer(h, j, None), cfg.servers[a])
    BY NewServerFacts DEF Fits, Right
  <2> QED
    BY <2>1, PutPlain
<1>2. CASE o.kind = "add_quick" /\ new \in AddQuick(cfg, o)
  BY <1>1, <1>2 DEF AddQuick, Asked
<1>3. CASE o.kind = "add_wizard" /\ new \in AddWizard(cfg, o)
  <2>1. PICK one \in AddQuick(cfg, o) :
          new = [one EXCEPT !.default = IF one.default = None THEN o.alias ELSE one.default]
    BY <1>3 DEF AddWizard
  <2>2. o.alias \in Aliases /\ Plain(cfg, one, o.alias)
    BY <1>1, <1>3 DEF AddQuick, Asked
  <2>3. (IF one.default = None THEN o.alias ELSE one.default) \in Aliases \union {None}
    BY <2>2, ServerOf DEF Plain
  <2> QED
    BY <2>1, <2>2, <2>3, PutDefaultPlain
<1>4. CASE o.kind = "add_server" /\ new \in HandleAddServer(cfg, o)
  BY <1>1, <1>4 DEF HandleAddServer, Asked, Route
<1> QED
  BY <1>2, <1>3, <1>4

LEMMA KeptFits == \A s : Fits(s, s) \/ s = NoServer
BY DEF Fits, Right

LEMMA EditsPlain ==
    ASSUME now \in 1..MaxNow, NEW cfg \in Config, NEW o, Asked(o), NEW new,
           \/ o.kind = "edit" /\ new \in EditCommand(cfg, o)
           \/ o.kind = "edit_server" /\ new \in HandleEditServer(cfg, o)
    PROVE Plain(cfg, new, o.alias)
<1> DEFINE s == cfg.servers[o.alias]
<1>1. o.alias \in Aliases
  BY DEF Asked
<1>2. s # NoServer => s \in Server
  BY <1>1, ServerOf
<1>3. ASSUME NEW t \in Server, t.host = s.host, t.used = s.used, t.seen = s.seen, s # NoServer
      PROVE Plain(cfg, Put(cfg, o.alias, t), o.alias)
  <2>1. Fits(t, s)
    BY <1>3 DEF Fits, Right
  <2> QED
    BY <1>1, <2>1, PutPlain
<1>4. ASSUME NEW t \in Server, NEW h \in Hosts
      PROVE Plain(cfg, Put(cfg, o.alias, ClearServerActivity(t, h)), o.alias)
  <2>1. ClearServerActivity(t, h) \in Server /\ Fits(ClearServerActivity(t, h), s)
    BY ClearFacts DEF Fits, Right
  <2> QED
    BY <1>1, <2>1, PutPlain
<1>5. CASE o.kind = "edit" /\ new \in EditCommand(cfg, o)
  BY <1>2, <1>3, <1>4, <1>5 DEF EditCommand, Asked
<1>6. CASE o.kind = "edit_server" /\ new \in HandleEditServer(cfg, o)
  <2> DEFINE t == IF s = NoServer \/ o.arg.jump = None THEN s ELSE [s EXCEPT !.jump = o.arg.jump]
  <2>1. /\ s # NoServer
        /\ new = Put(cfg, o.alias, IF o.arg.host \in {None, s.host} THEN t ELSE ClearServerActivity(t, o.arg.host))
    BY <1>6 DEF HandleEditServer
  <2>2. t \in Server /\ t.host = s.host /\ t.used = s.used /\ t.seen = s.seen
    <3>1. \A j \in Aliases \union {None} :
            LET x == [s EXCEPT !.jump = j]
            IN  x \in Server /\ x.host = s.host /\ x.used = s.used /\ x.seen = s.seen
      BY <1>2, <2>1 DEF Server
    <3> QED
      BY <1>2, <1>6, <2>1, <3>1 DEF Asked
  <2>3. o.arg.host \notin {None, s.host} => o.arg.host \in Hosts
    BY <1>6 DEF Asked
  <2> HIDE DEF t, s
  <2> QED
    BY <1>3, <1>4, <2>1, <2>2, <2>3
<1> QED
  BY <1>5, <1>6

LEMMA SettingsPlain ==
    ASSUME NEW cfg \in Config, NEW o, Asked(o), NEW new,
           \/ o.kind = "default" /\ new \in SetDefault(cfg, o)
           \/ o.kind = "protect" /\ new \in SetProtected(cfg, o)
           \/ o.kind = "project" /\ new \in UpsertProject(cfg, o)
    PROVE Plain(cfg, new, o.alias)
<1>1. o.alias \in Aliases
  BY DEF Asked
<1>2. CASE o.kind = "default" /\ new \in SetDefault(cfg, o)
  BY <1>1, <1>2, FieldFacts, UnchangedPlain, Zenon DEF SetDefault
<1>3. CASE o.kind = "project" /\ new \in UpsertProject(cfg, o)
  BY <1>1, <1>3, FieldFacts, UnchangedPlain, ZenonT(30) DEF UpsertProject
<1>4. CASE o.kind = "protect" /\ new \in SetProtected(cfg, o)
  <2> DEFINE s == cfg.servers[o.alias]
             keep == ~o.view.keep
             t == [s EXCEPT !.keep = keep]
  <2>1. s \in Server /\ keep \in BOOLEAN
    BY <1>1, <1>4, ServerOf DEF SetProtected
  <2>2. new = Put(cfg, o.alias, t)
    BY <1>4 DEF SetProtected, Put
  <2> HIDE DEF keep
  <2>3. t \in Server /\ t.host = s.host /\ t.used = s.used /\ t.seen = s.seen
    BY <2>1 DEF Server
  <2>4. s # NoServer
    BY <2>1, ConfigAssumption
  <2> HIDE DEF t
  <2>5. Fits(t, s)
    BY <2>3, <2>4 DEF Fits, Right
  <2> QED
    BY <1>1, <2>2, <2>3, <2>5, PutPlain
<1> QED
  BY <1>2, <1>3, <1>4

LEMMA ObservationsPlain ==
    ASSUME NEW cfg \in Config, NEW o, Asked(o), NEW new,
           \/ o.kind = "use" /\ new \in RecordSSHUse(cfg, o)
           \/ o.kind = "probe" /\ new \in RecordProbes(cfg, o)
    PROVE Plain(cfg, new, o.alias)
<1> DEFINE s == cfg.servers[o.alias]
<1>1. o.alias \in Aliases /\ o.view \in Server /\ o.arg \in 0..MaxNow
  BY DEF Asked
<1>2. CASE new = cfg
  BY <1>1, <1>2, UnchangedPlain
<1>3. ASSUME s # NoServer, s.host = o.view.host, NEW t,
             \/ t = [s EXCEPT !.used = Observe(@, o.view.host, o.arg), !.seen = Observe(@, o.view.host, o.arg)]
             \/ t = [s EXCEPT !.seen = Observe(@, o.view.host, o.arg)]
      PROVE Plain(cfg, Put(cfg, o.alias, t), o.alias)
  <2> DEFINE x == Observe(s.used, o.view.host, o.arg)
             y == Observe(s.seen, o.view.host, o.arg)
  <2>1. s \in Server
    BY <1>1, <1>3, ServerOf
  <2>2. /\ x \in Seen /\ (x.host = s.host \/ x = s.used)
        /\ y \in Seen /\ (y.host = s.host \/ y = s.seen)
    BY <1>1, <1>3, <2>1, SeenOfServer, ObserveFacts
  <2>3. t = Noted(s, x, y) \/ t = Noted(s, s.used, y)
    <3>1. [s EXCEPT !.seen = y] = Noted(s, s.used, y)
      BY <2>1 DEF Noted, Server
    <3> QED
      BY <1>3, <3>1 DEF Noted
  <2> HIDE DEF x, y, s
  <2>4. /\ t \in Server /\ t.host = s.host
        /\ t.used = x \/ t.used = s.used
        /\ t.seen = y
    <3>1. CASE t = Noted(s, x, y)
      BY <2>1, <2>2, <3>1, NotedFacts
    <3>2. CASE t = Noted(s, s.used, y)
      <4>1. s.used \in Seen
        BY <2>1, SeenOfServer
      <4> QED
        BY <2>1, <2>2, <3>2, <4>1, NotedFacts, ZenonT(30)
    <3> QED
      BY <2>3, <3>1, <3>2
  <2>5. Fits(t, s)
    BY <1>3, <2>2, <2>4 DEF Fits, Right
  <2> QED
    BY <1>1, <2>4, <2>5, PutPlain DEF s
<1> QED
  BY <1>2, <1>3 DEF RecordSSHUse, RecordProbes

LEMMA PairPlain ==
    ASSUME now \in 1..MaxNow, NEW cfg \in Config, NEW o, Asked(o), o.kind = "pair",
           NEW new \in SavePairedServer(cfg, o)
    PROVE Plain(cfg, new, o.alias)
<1> DEFINE s == cfg.servers[o.alias]
           Proved(t) == [at |-> now, host |-> t.host]
           Saved(t) == [t EXCEPT !.used = Proved(t), !.seen = Proved(t)]
           One(t) == Put(cfg, o.alias, Saved(t))
           Save(t) == [One(t) EXCEPT !.default = IF One(t).default = None THEN o.alias ELSE One(t).default]
<1>1. o.alias \in Aliases
  BY DEF Asked
<1>2. \E t \in Server : new = Save(t)
  <2>1. CASE o.view = NoServer
    <3>1. o.arg \in Hosts
      BY <2>1, ConfigAssumption DEF Asked
    <3>2. NewServer(o.arg, None, None) \in Server
      BY <3>1, NewServerFacts
    <3> QED
      BY <2>1, <3>2, Zenon DEF SavePairedServer
  <2>2. CASE o.view # NoServer
    BY <1>1, <2>2, ServerOf, Zenon DEF SavePairedServer
  <2> QED
    BY <2>1, <2>2, Zenon
<1>3. ASSUME NEW t \in Server PROVE Plain(cfg, Save(t), o.alias)
  <2>1. Proved(t) \in Seen /\ Proved(t).host = t.host
    BY SeenOfServer, ConfigAssumption DEF Seen
  <2>2. /\ Saved(t) \in Server /\ Saved(t).host = t.host
        /\ Saved(t).used = Proved(t) /\ Saved(t).seen = Proved(t)
    <3>1. Saved(t) = Noted(t, Proved(t), Proved(t))
      BY DEF Noted
    <3> HIDE DEF Proved, Saved
    <3> QED
      BY <2>1, <3>1, NotedFacts
  <2>3. Fits(Saved(t), s)
    BY <2>1, <2>2 DEF Fits, Right
  <2>4. Plain(cfg, One(t), o.alias)
    BY <1>1, <2>2, <2>3, PutPlain
  <2>5. (IF One(t).default = None THEN o.alias ELSE One(t).default) \in Aliases \union {None}
    BY <1>1, <2>4, ServerOf DEF Plain
  <2> HIDE DEF One
  <2> QED
    BY <2>4, <2>5, PutDefaultPlain
<1> QED
  BY <1>2, <1>3, Zenon
-----------------------------------------------------------------------------
(* What disappears from a configuration.                                   *)

\* What the step from cfg to new owes to the records it takes away, and to
\* the activity of those it leaves.
RemovesWell(cfg, new, k) ==
    \A a \in Known(cfg) \ Known(new) :
        /\ k \in {"rm", "remove_server", "cleanup", "publish"}
        /\ new.default # a /\ new.project # a
        /\ \A b \in Known(new) :
              new.servers[b].jump = a => BroughtByVault(k, cfg.servers[b], new.servers[b], a)
        /\ k = "cleanup" => ~Protected(cfg, a) /\ Unused(cfg.servers[a])
Observes(cfg, new) == \A a \in Known(new) : Fits(new.servers[a], cfg.servers[a])

LEMMA PlainIsWell ==
    ASSUME NEW cfg, NEW new, NEW a, Plain(cfg, new, a), NEW k
    PROVE new \in Config /\ RemovesWell(cfg, new, k) /\ Observes(cfg, new)
<1>1. Known(cfg) \subseteq Known(new)
  BY DEF Plain, Known
<1>2. ASSUME NEW b \in Known(new) PROVE Fits(new.servers[b], cfg.servers[b])
  <2>1. CASE b = a
    BY <2>1, <1>2 DEF Plain, Known
  <2>2. CASE b # a
    BY <2>2, <1>2, KeptFits DEF Plain, Known
  <2> QED
    BY <2>1, <2>2
<1> QED
  BY <1>1, <1>2 DEF Plain, RemovesWell, Observes

LEMMA WithoutFacts ==
    ASSUME NEW cfg \in Config, NEW S
    PROVE /\ Without(cfg, S) \in Config
          /\ \A a \in Aliases : Without(cfg, S).servers[a] = IF a \in S THEN NoServer ELSE cfg.servers[a]
          /\ Without(cfg, S).default = cfg.default /\ Without(cfg, S).project = cfg.project
<1> DEFINE servers == [a \in Aliases |-> IF a \in S THEN NoServer ELSE cfg.servers[a]]
<1>1. Without(cfg, S) = [cfg EXCEPT !.servers = servers]
  BY DEF Without
<1>2. servers \in [Aliases -> Server \union {NoServer}]
  BY ServerOf
<1>3. \A a \in Aliases : servers[a] = IF a \in S THEN NoServer ELSE cfg.servers[a]
  OBVIOUS
<1> HIDE DEF servers
<1> QED
  BY <1>1, <1>2, <1>3 DEF Config

LEMMA RemoveWell ==
    ASSUME NEW cfg \in Config, NEW o, o.alias \in Aliases, NEW new \in RemoveServer(cfg, o),
           NEW k \in {"rm", "remove_server"}
    PROVE new \in Config /\ RemovesWell(cfg, new, k) /\ Observes(cfg, new)
<1> DEFINE a == o.alias
           left == Put(cfg, a, NoServer)
           proj == IF left.project = a THEN None ELSE left.project
           def == IF left.default = a THEN None ELSE left.default
<1>1. /\ new = [left EXCEPT !.project = proj, !.default = def]
      /\ a \in Aliases /\ ServersUsingProxyJump(cfg, a) = {}
  BY DEF RemoveServer, CheckServerRemoval
<1>2. /\ left \in Config /\ left.servers[a] = NoServer
      /\ \A b \in Aliases \ {a} : left.servers[b] = cfg.servers[b]
  BY <1>1, PutFacts
<1>3. a # None
  BY <1>1, ConfigAssumption
<1> HIDE DEF left, a
<1>4. proj \in Aliases \union {None} /\ proj # a /\ def \in Aliases \union {None} /\ def # a
  BY <1>2, <1>3, ServerOf
<1> HIDE DEF proj, def
<1>5. new \in Config /\ new.servers = left.servers /\ new.project = proj /\ new.default = def
  BY <1>1, <1>2, <1>4 DEF Config
<1>6. Known(new) = Known(cfg) \ {a}
  BY <1>1, <1>2, <1>5 DEF Known
<1>7. \A b \in Known(new) : new.servers[b] = cfg.servers[b] /\ cfg.servers[b] # NoServer
  BY <1>2, <1>5, <1>6 DEF Known
<1>8. \A b \in Known(new) : new.servers[b].jump # a
  BY <1>1, <1>6, <1>7 DEF ServersUsingProxyJump
<1> QED
  BY <1>4, <1>5, <1>6, <1>7, <1>8, KeptFits DEF RemovesWell, Observes

LEMMA CleanupWell ==
    ASSUME NEW cfg \in Config, NEW o, o.view \in SUBSET Aliases, NEW new \in RemoveCleanupServers(cfg, o)
    PROVE new \in Config /\ RemovesWell(cfg, new, "cleanup") /\ Observes(cfg, new)
<1>1. /\ new = Without(cfg, o.view)
      /\ \A a \in o.view : ~Protected(cfg, a) /\ a \in Review(cfg)
  BY DEF RemoveCleanupServers
<1>2. /\ new \in Config /\ new.default = cfg.default /\ new.project = cfg.project
      /\ \A a \in Aliases : new.servers[a] = IF a \in o.view THEN NoServer ELSE cfg.servers[a]
  BY <1>1, WithoutFacts
<1>3. Known(new) = Known(cfg) \ o.view
  BY <1>2 DEF Known
<1>4. \A b \in Known(new) : new.servers[b] = cfg.servers[b] /\ cfg.servers[b] # NoServer
  BY <1>2, <1>3 DEF Known
<1>5. ASSUME NEW a \in Known(cfg) \ Known(new)
      PROVE /\ new.default # a /\ new.project # a
            /\ \A b \in Known(new) : new.servers[b].jump # a
            /\ ~Protected(cfg, a) /\ Unused(cfg.servers[a])
  <2>1. a \in o.view /\ ~Protected(cfg, a) /\ a \in Review(cfg)
    BY <1>1, <1>3
  <2>2. \A b \in Known(new) : b # a
    BY <2>1, <1>3
  <2> QED
    BY <1>2, <1>3, <1>4, <2>1, <2>2 DEF Protected, Review, ServersUsingProxyJump
<1> QED
  BY <1>2, <1>4, <1>5, KeptFits DEF RemovesWell, Observes
\* Publication claims records, drops some and writes those of the entries.
LEMMA ClaimFacts ==
    ASSUME NEW cfg \in Config, NEW o
    PROVE /\ Claim(cfg, o) \in Config
          /\ Claim(cfg, o).default = cfg.default /\ Claim(cfg, o).project = cfg.project
          /\ \A a \in Aliases :
                LET t == Claim(cfg, o).servers[a]
                    s == cfg.servers[a]
                IN  /\ t = NoServer <=> s = NoServer
                    /\ s # NoServer => /\ t.host = s.host /\ t.jump = s.jump /\ t.entry = s.entry
                                       /\ t.used = s.used /\ t.seen = s.seen
<1> DEFINE own(a) == cfg.servers[a].owned \/ Status(o, cfg.servers[a]) \ {"deleted"} # {}
           claimed(a) == [cfg.servers[a] EXCEPT !.owned = own(a)]
           servers == [a \in Aliases |-> IF a \in Known(cfg) /\ IsNative(cfg, a)
                                         THEN claimed(a) ELSE cfg.servers[a]]
<1>1. Claim(cfg, o) = [cfg EXCEPT !.servers = servers]
  BY DEF Claim
<1>2. \A a \in Aliases : servers[a] = IF a \in Known(cfg) /\ IsNative(cfg, a)
                                      THEN claimed(a) ELSE cfg.servers[a]
  OBVIOUS
<1>3. ASSUME NEW a \in Aliases, cfg.servers[a] # NoServer
      PROVE LET t == claimed(a)
                s == cfg.servers[a]
            IN  /\ t \in Server /\ t.host = s.host /\ t.jump = s.jump /\ t.entry = s.entry
                /\ t.used = s.used /\ t.seen = s.seen
  <2>1. own(a) \in BOOLEAN
    OBVIOUS
  <2>2. cfg.servers[a] \in Server
    BY <1>3, ServerOf
  <2> HIDE DEF own
  <2> QED
    BY <2>1, <2>2 DEF Server
<1>4. \A a \in Aliases :
        /\ servers[a] \in Server \union {NoServer}
        /\ servers[a] = NoServer <=> cfg.servers[a] = NoServer
        /\ cfg.servers[a] # NoServer =>
             /\ servers[a].host = cfg.servers[a].host /\ servers[a].jump = cfg.servers[a].jump
             /\ servers[a].entry = cfg.servers[a].entry
             /\ servers[a].used = cfg.servers[a].used /\ servers[a].seen = cfg.servers[a].seen
  <2>1. NoServer \notin Server
    BY ConfigAssumption
  <2> HIDE DEF claimed, servers
  <2> QED
    BY <1>2, <1>3, <2>1, ServerOf DEF Known
<1>5. servers \in [Aliases -> Server \union {NoServer}]
  <2>1. servers = [a \in Aliases |-> servers[a]]
    OBVIOUS
  <2> HIDE DEF servers
  <2> QED
    BY <1>4, <2>1
<1> HIDE DEF servers
<1>6. /\ Claim(cfg, o) \in Config /\ Claim(cfg, o).servers = servers
      /\ Claim(cfg, o).default = cfg.default /\ Claim(cfg, o).project = cfg.project
  BY <1>1, <1>5 DEF Config
<1> QED
  BY <1>4, <1>6

LEMMA PublishedFacts ==
    ASSUME NEW old \in Server \union {NoServer}, NEW e \in Entries
    PROVE /\ PublishedServer(old, e) \in Server /\ PublishedServer(old, e).entry # None
          /\ PublishedServer(old, e).entry = e
          /\ \/ PublishedServer(old, e).jump = EntryServer[e].jump
             \/ old # NoServer /\ PublishedServer(old, e).jump = old.jump
<1> DEFINE own == EntryServer[e]
           one(j, u, s) == [host |-> own.host, jump |-> j, keep |-> own.keep, entry |-> e,
                            owned |-> TRUE, born |-> 0, used |-> u, seen |-> s]
<1>1. /\ own.host \in Hosts /\ own.jump \in Aliases \union {None} /\ own.keep \in BOOLEAN
      /\ e # None /\ 0 \in 0..MaxNow
  BY ConfigAssumption
<1> HIDE DEF own
<1>2. ASSUME NEW j \in Aliases \union {None}, NEW u \in Seen, NEW s \in Seen
      PROVE one(j, u, s) \in Server /\ one(j, u, s).entry = e /\ one(j, u, s).jump = j
  <2>1. \A b \in BOOLEAN :
          [host |-> own.host, jump |-> j, keep |-> own.keep, entry |-> e,
           owned |-> b, born |-> 0, used |-> u, seen |-> s] \in Server
    BY <1>1 DEF Server
  <2>2. one(j, u, s) \in Server
    BY <2>1
  <2> QED
    BY <2>2
<1>3. CASE old = NoServer
  <2>1. PublishedServer(old, e) = one(own.jump, Never, Never)
    BY <1>3 DEF PublishedServer, own
  <2> HIDE DEF one
  <2> QED
    BY <1>1, <1>2, <2>1, NeverType DEF own
<1>4. CASE old # NoServer
  <2> DEFINE j == IF old.host = own.host THEN old.jump ELSE own.jump
  <2>1. PublishedServer(old, e) = one(j, old.used, old.seen)
    BY <1>4 DEF PublishedServer, own
  <2>2. old.used \in Seen /\ old.seen \in Seen /\ j \in Aliases \union {None} /\ (j = own.jump \/ j = old.jump)
    BY <1>1, <1>4 DEF Server
  <2> HIDE DEF one, j
  <2>3. LET new == one(j, old.used, old.seen)
        IN  new \in Server /\ new.entry = e /\ new.jump = j
    BY <1>2, <2>2
  <2> QED
    BY <1>1, <1>4, <2>1, <2>2, <2>3 DEF own
<1> QED
  BY <1>3, <1>4

LEMMA PublishFacts ==
    ASSUME NEW cfg \in Config, NEW place
    PROVE /\ Publish(cfg, place) \in Config
          /\ Publish(cfg, place).default = cfg.default /\ Publish(cfg, place).project = cfg.project
          /\ \A a \in Aliases :
               \/ Publish(cfg, place).servers[a] = cfg.servers[a]
               \/ \E e \in Entries : /\ place[e] = a
                                  /\ Publish(cfg, place).servers[a] = PublishedServer(cfg.servers[a], e)
<1> DEFINE at(a) == CHOOSE e \in Entries : place[e] = a
           servers == [a \in Aliases |-> IF \E e \in Entries : place[e] = a
                                         THEN PublishedServer(cfg.servers[a], at(a)) ELSE cfg.servers[a]]
<1>1. Publish(cfg, place) = [cfg EXCEPT !.servers = servers]
  BY DEF Publish
<1>2. \A a \in Aliases : \/ servers[a] = cfg.servers[a]
                         \/ \E e \in Entries : place[e] = a /\ servers[a] = PublishedServer(cfg.servers[a], e)
  <2> SUFFICES ASSUME NEW a \in Aliases, servers[a] # cfg.servers[a]
               PROVE  \E e \in Entries : place[e] = a /\ servers[a] = PublishedServer(cfg.servers[a], e)
    OBVIOUS
  <2>1. (\E e \in Entries : place[e] = a) /\ servers[a] = PublishedServer(cfg.servers[a], at(a))
    OBVIOUS
  <2>2. at(a) \in Entries /\ place[at(a)] = a
    BY <2>1
  <2> QED
    BY <2>1, <2>2
<1>3. servers \in [Aliases -> Server \union {NoServer}]
  <2>1. \A a \in Aliases : servers[a] \in Server \union {NoServer}
    BY <1>2, ServerOf, PublishedFacts
  <2>2. servers = [a \in Aliases |-> servers[a]]
    OBVIOUS
  <2> HIDE DEF servers
  <2> QED
    BY <2>1, <2>2
<1> HIDE DEF servers
<1> QED
  BY <1>1, <1>2, <1>3 DEF Config

LEMMA PublicationWell ==
    ASSUME NEW cfg \in Config, NEW o, NEW new \in PublishInventory(cfg, o)
    PROVE new \in Config /\ RemovesWell(cfg, new, "publish") /\ Observes(cfg, new)
<1>1. PICK gone \in Walks(cfg, o) :
        \E place \in Placings(Without(Claim(cfg, o), gone), o, NativeIds(cfg, o)) :
            new = Publish(Without(Claim(cfg, o), gone), place)
  BY DEF PublishInventory
<1> DEFINE mine == Claim(cfg, o)
           left == Without(mine, gone)
<1>2. PICK place \in Placings(left, o, NativeIds(cfg, o)) : new = Publish(left, place)
  BY <1>1
<1>21. \A e \in Entries : place[e] \in Aliases => o.arg[e] = "live"
  BY ConfigAssumption DEF Placings
<1>3. PICK rank : gone = Goes(cfg, o, rank, gone)
  BY DEF Walks
<1>4. /\ mine \in Config /\ mine.default = cfg.default /\ mine.project = cfg.project
      /\ \A a \in Aliases :
           /\ mine.servers[a] = NoServer <=> cfg.servers[a] = NoServer
           /\ cfg.servers[a] # NoServer =>
                /\ mine.servers[a].host = cfg.servers[a].host /\ mine.servers[a].jump = cfg.servers[a].jump
                /\ mine.servers[a].entry = cfg.servers[a].entry
                /\ mine.servers[a].used = cfg.servers[a].used /\ mine.servers[a].seen = cfg.servers[a].seen
  BY ClaimFacts
<1> HIDE DEF mine
<1>5. /\ left \in Config /\ left.default = cfg.default /\ left.project = cfg.project
      /\ \A a \in Aliases : left.servers[a] = IF a \in gone THEN NoServer ELSE mine.servers[a]
  BY <1>4, WithoutFacts
<1> HIDE DEF left
<1>6. /\ new \in Config /\ new.default = cfg.default /\ new.project = cfg.project
      /\ \A a \in Aliases : \/ new.servers[a] = left.servers[a]
                            \/ \E e \in Entries :
                                 /\ o.arg[e] = "live"
                                 /\ new.servers[a] = PublishedServer(left.servers[a], e)
  BY <1>2, <1>21, <1>5, PublishFacts
<1>7. \A a \in Aliases, e \in Entries : PublishedServer(left.servers[a], e) # NoServer
  <2>1. \A a \in Aliases : left.servers[a] \in Server \union {NoServer}
    BY <1>5, ServerOf
  <2>2. NoServer \notin Server
    BY ConfigAssumption
  <2> QED
    BY <2>1, <2>2, PublishedFacts
<1>8. ASSUME NEW a \in Known(cfg) \ Known(new)
      PROVE /\ new.default # a /\ new.project # a
            /\ \A b \in Known(new) : new.servers[b].jump = a =>
                  BroughtByVault("publish", cfg.servers[b], new.servers[b], a)
  <2>1. a \in gone
    BY <1>4, <1>5, <1>6, <1>7 DEF Known
  <2> DEFINE walked == {b \in gone : ~IsNative(cfg, b) /\ rank[b] < rank[a]}
  <2>2. ~Protected(Without(cfg, walked), a)
    BY <1>3, <2>1 DEF Goes
  <2> HIDE DEF walked
  <2>3. cfg.default # a /\ cfg.project # a
    BY <2>2, WithoutFacts DEF Protected
  \* A record that is kept does not refer to a, or a would have been protected.
  <2>4. ASSUME NEW b \in Aliases \ gone, cfg.servers[b] # NoServer, cfg.servers[b].jump = a
        PROVE FALSE
    <3>1. a \in Aliases /\ a # None
      BY ConfigAssumption DEF Known
    <3>2. /\ b \in Known(Without(cfg, walked)) /\ b # a
          /\ Without(cfg, walked).servers[b].jump = a
      BY <2>1, <2>4, <3>1, WithoutFacts DEF walked, Known
    <3>3. b \in ServersUsingProxyJump(Without(cfg, walked), a)
      BY <3>2 DEF ServersUsingProxyJump
    <3> QED
      BY <2>2, <3>3 DEF Protected
  <2>5. ASSUME NEW b \in Known(new), new.servers[b].jump = a
        PROVE BroughtByVault("publish", cfg.servers[b], new.servers[b], a)
    <3>1. b \in Aliases /\ new.servers[b] # NoServer /\ a \in Aliases /\ a # None
      BY ConfigAssumption DEF Known
    <3>2. \A c \in Aliases : left.servers[c] # NoServer =>
            c \notin gone /\ cfg.servers[c] # NoServer /\ left.servers[c].jump = cfg.servers[c].jump
      BY <1>4, <1>5
    <3>3. new.servers[b] # left.servers[b]
      BY <2>4, <2>5, <3>1, <3>2
    <3>4. PICK e \in Entries : o.arg[e] = "live" /\ new.servers[b] = PublishedServer(left.servers[b], e)
      BY <1>6, <3>1, <3>3
    <3>5. left.servers[b] \in Server \union {NoServer}
      BY <1>5, <3>1, ServerOf
    <3>6. /\ new.servers[b].entry = e /\ e # None
          /\ \/ new.servers[b].jump = EntryServer[e].jump
             \/ left.servers[b] # NoServer /\ new.servers[b].jump = left.servers[b].jump
      BY <3>4, <3>5, PublishedFacts
    <3>7. EntryServer[e].jump = a
      BY <2>4, <2>5, <3>1, <3>2, <3>6
    <3>8. ASSUME cfg.servers[b] # NoServer, cfg.servers[b].entry = e, cfg.servers[b].jump = a
          PROVE FALSE
      <4>1. b \in gone
        BY <2>4, <3>1, <3>8
      <4>2. Status(o, cfg.servers[b]) = {"deleted"}
        BY <1>3, <4>1 DEF Goes, Deleted
      <4>3. Status(o, cfg.servers[b]) = {"live"}
        BY <3>4, <3>6, <3>8 DEF Status
      <4> QED
        BY <4>2, <4>3
    <3> QED
      BY <3>6, <3>7, <3>8 DEF BroughtByVault
  <2> QED
    BY <1>6, <2>3, <2>5
<1>9. ASSUME NEW a \in Known(new) PROVE Fits(new.servers[a], cfg.servers[a])
  <2>1. a \in Aliases /\ new.servers[a] # NoServer
    BY DEF Known
  <2>2. CASE new.servers[a] = left.servers[a]
    <3>1. /\ new.servers[a].host = cfg.servers[a].host /\ cfg.servers[a] # NoServer
          /\ new.servers[a].used = cfg.servers[a].used /\ new.servers[a].seen = cfg.servers[a].seen
      BY <1>4, <1>5, <2>1, <2>2
    <3> QED
      BY <3>1 DEF Fits, Right
  <2>3. CASE \E e \in Entries : new.servers[a] = PublishedServer(left.servers[a], e)
    <3>1. left.servers[a] \in Server \union {NoServer}
      BY <1>5, <2>1, ServerOf
    <3>2. new.servers[a].entry # None
      BY <2>3, <3>1, PublishedFacts
    <3> QED
      BY <3>2 DEF Fits
  <2> QED
    BY <1>6, <2>1, <2>2, <2>3
<1> QED
  BY <1>6, <1>8, <1>9 DEF RemovesWell, Observes
-----------------------------------------------------------------------------
(* What a caller may ask for, and what its callback may answer.            *)

LEMMA AsksAsked ==
    ASSUME now \in 1..MaxNow, NEW cfg \in Config, NEW k \in Kinds, NEW r \in Asks(cfg, k)
    PROVE Asked(r)
<1>1. /\ Known(cfg) \subseteq Aliases /\ Review(cfg) \subseteq Aliases /\ now \in 0..MaxNow
      /\ \A a \in Known(cfg) : cfg.servers[a] \in Server
  BY ServerOf, ConfigAssumption DEF Known, Review
<1>2. k \in {"add_quick", "add_wizard", "add_server", "edit", "edit_server", "menu", "project",
             "rm", "remove_server", "cleanup", "use", "probe", "pair", "publish"}
  BY ConfigAssumption
<1>3. CASE k \in {"add_quick", "add_wizard", "edit"}
  <2>1. r.kind \in {"add_quick", "add_wizard", "edit"} /\ r.alias \in Aliases /\ r.arg \in Hosts
    BY <1>1, <1>3 DEF Asks, AddQuickAsks, AddWizardAsks, EditAsks, Ask
  <2> QED
    BY <2>1 DEF Asked
<1>4. CASE k = "add_server"
  <2>1. r.kind = "add_server" /\ r.alias \in Aliases /\ r.arg \in Route
    BY <1>4 DEF Asks, AddServerAsks, Ask
  <2> QED
    BY <2>1 DEF Asked
<1>5. CASE k = "edit_server"
  <2>1. /\ r.kind = "edit_server" /\ r.alias \in Aliases
        /\ r.arg \in [host : Hosts, jump : {None}] \union [host : {None}, jump : Aliases]
    BY <1>5 DEF Asks, EditServerAsks, Ask
  <2> QED
    BY <2>1 DEF Asked
<1>6. CASE k \in {"project", "rm", "remove_server"}
  <2>1. r.kind \in {"project", "rm", "remove_server"} /\ r.alias \in Aliases
    BY <1>6 DEF Asks, ProjectAsks, RmAsks, RemoveServerAsks, Ask
  <2> QED
    BY <2>1 DEF Asked
<1>7. CASE k = "menu"
  <2>1. /\ r.kind \in {"default", "protect"} /\ r.alias \in Aliases
        /\ r.kind = "protect" => r.view \in Server
    BY <1>1, <1>7 DEF Asks, MenuAsks, Ask, AskSeen
  <2> QED
    BY <2>1 DEF Asked
<1>8. CASE k = "cleanup"
  <2>1. r.kind = "cleanup" /\ r.view \in SUBSET Review(cfg)
    BY <1>8 DEF Asks, CleanupAsks, Ask
  <2> QED
    BY <1>1, <2>1 DEF Asked
<1>9. CASE k \in {"use", "probe"}
  <2>1. r.kind \in {"use", "probe"} /\ r.alias \in Aliases /\ r.view \in Server /\ r.arg = now
    BY <1>1, <1>9 DEF Asks, UseAsks, ProbeAsks, AskSeen
  <2> QED
    BY <1>1, <2>1 DEF Asked
<1>10. CASE k = "pair"
  <2>1. /\ r.kind = "pair" /\ r.alias \in Aliases
        /\ (r.view = NoServer /\ r.arg \in Hosts) \/ r.view \in Server
    BY <1>1, <1>10 DEF Asks, PairAsks, Ask, AskSeen
  <2> QED
    BY <2>1 DEF Asked
<1>11. CASE k = "publish"
  <2>1. r.kind = "publish" /\ r.arg \in [Entries -> {"live", "deleted", "conflict"}]
    BY <1>11 DEF Asks, PublishAsks, Ask
  <2> QED
    BY <2>1 DEF Asked
<1> QED
  BY <1>2, <1>3, <1>4, <1>5, <1>6, <1>7, <1>8, <1>9, <1>10, <1>11

LEMMA EffectWell ==
    ASSUME now \in 1..MaxNow, NEW cfg \in Config, NEW o, Asked(o), NEW new \in Effect(cfg, o)
    PROVE new \in Config /\ RemovesWell(cfg, new, o.kind) /\ Observes(cfg, new)
<1>1. o.kind \in {"add_quick", "add_wizard", "add_server", "edit", "edit_server", "default", "protect",
                  "project", "rm", "remove_server", "cleanup", "use", "probe", "pair", "publish"}
  BY DEF Asked
<1>2. CASE o.kind \in {"add_quick", "add_wizard", "add_server"}
  <2>1. \/ o.kind = "add_quick" /\ new \in AddQuick(cfg, o)
        \/ o.kind = "add_wizard" /\ new \in AddWizard(cfg, o)
        \/ o.kind = "add_server" /\ new \in HandleAddServer(cfg, o)
    BY <1>2 DEF Effect
  <2> QED
    BY <2>1, AddsPlain, PlainIsWell
<1>3. CASE o.kind \in {"edit", "edit_server"}
  <2>1. \/ o.kind = "edit" /\ new \in EditCommand(cfg, o)
        \/ o.kind = "edit_server" /\ new \in HandleEditServer(cfg, o)
    BY <1>3 DEF Effect
  <2> QED
    BY <2>1, EditsPlain, PlainIsWell
<1>4. CASE o.kind \in {"default", "protect", "project"}
  <2>1. \/ o.kind = "default" /\ new \in SetDefault(cfg, o)
        \/ o.kind = "protect" /\ new \in SetProtected(cfg, o)
        \/ o.kind = "project" /\ new \in UpsertProject(cfg, o)
    BY <1>4 DEF Effect
  <2> QED
    BY <2>1, SettingsPlain, PlainIsWell
<1>5. CASE o.kind \in {"use", "probe"}
  <2>1. \/ o.kind = "use" /\ new \in RecordSSHUse(cfg, o)
        \/ o.kind = "probe" /\ new \in RecordProbes(cfg, o)
    BY <1>5 DEF Effect
  <2> QED
    BY <2>1, ObservationsPlain, PlainIsWell
<1>6. CASE o.kind = "pair"
  <2>1. new \in SavePairedServer(cfg, o)
    BY <1>6 DEF Effect
  <2> QED
    BY <1>6, <2>1, PairPlain, PlainIsWell
<1>7. CASE o.kind \in {"rm", "remove_server"}
  <2>1. new \in RemoveServer(cfg, o) /\ o.alias \in Aliases
    BY <1>7 DEF Effect, Asked
  <2> QED
    BY <1>7, <2>1, RemoveWell
<1>8. CASE o.kind = "cleanup"
  <2>1. new \in RemoveCleanupServers(cfg, o) /\ o.view \in SUBSET Aliases
    BY <1>8 DEF Effect, Asked
  <2> QED
    BY <1>8, <2>1, CleanupWell
<1>9. CASE o.kind = "publish"
  <2>1. new \in PublishInventory(cfg, o)
    BY <1>9 DEF Effect
  <2> QED
    BY <1>9, <2>1, PublicationWell
<1> QED
  BY <1>1, <1>2, <1>3, <1>4, <1>5, <1>6, <1>7, <1>8, <1>9

-----------------------------------------------------------------------------
(* The invariant of the file: what waits for the lock is a request that    *)
(* some caller may make, and what is drafted under the lock owes nothing   *)
(* to the records it was made from.  A backup is kept before the draft is  *)
(* written, so it is there when the rename takes the record away.          *)

Drafted(p) ==
    /\ source[p] \in Config /\ draft[p] \in Config
    /\ RemovesWell(source[p], draft[p], op[p].kind)
    /\ Observes(source[p], draft[p])
    /\ \A a \in Known(source[p]) \ Known(draft[p]) :
          /\ op[p].kind = "cleanup" \/ source[p].servers[a].entry = None
          /\ op[p].kind \notin {"rm", "remove_server"}
          => source[p] \in backups

FileInv ==
    /\ UpdateInv /\ TypeOK /\ op = [p \in Procs |-> op[p]]
    /\ \A p \in Procs : pc[p] = "waiting" => Asked(op[p])
    /\ \A p \in Procs : pc[p] \in {"drafted", "checked"} => Drafted(p)

LEMMA FileInit == Init => FileInv
<1> SUFFICES ASSUME Init PROVE FileInv
  OBVIOUS
<1>1. TypeOK
  BY ConfigAssumption DEF Init, TypeOK
<1> QED
  BY <1>1, UpdateInit DEF Init, FileInv

\* A draft stays what it was while the process holds it: the clock only makes
\* more records unused, and backups are not taken away.
LEMMA DraftedStays ==
    ASSUME NEW p \in Procs, Drafted(p), now \in Nat, now' \in Nat, now <= now',
           source'[p] = source[p], draft'[p] = draft[p], op'[p] = op[p], backups \subseteq backups'
    PROVE Drafted(p)'
<1>1. \A s \in Server : s.born \in Nat /\ s.used.at \in Nat
  BY ConfigAssumption DEF Server, Seen
<1>2. \A s \in Server : Unused(s) =>
        LET last == IF s.used.at = 0 THEN s.born ELSE s.used.at
        IN  last = 0 \/ last < now'
  BY <1>1 DEF Unused
<1>3. ASSUME NEW a \in Known(source[p]), Unused(source[p].servers[a])
      PROVE  Unused(source[p].servers[a])'
  <2>1. source[p].servers[a] \in Server
    BY ServerOf DEF Drafted, Known
  <2> QED
    BY <1>2, <1>3, <2>1 DEF Unused
<1>4. RemovesWell(source[p], draft[p], op[p].kind)'
  BY <1>3 DEF Drafted, RemovesWell, BroughtByVault, Protected, ServersUsingProxyJump, Known
<1> QED
  BY <1>4 DEF Drafted, Observes, Fits, Right, Known, Never

\* The steps that end an operation.
LEMMA FinishFile ==
    ASSUME FileInv, NEW p \in Procs, Finish(p), UpdateInv', UNCHANGED <<backups, now, ops, edits>>,
           file' \in Config \union {Damaged}
    PROVE FileInv'
<1>1. TypeOK' /\ op' = [q \in Procs |-> op'[q]] /\ pc'[p] = "idle"
  BY DEF FileInv, TypeOK, Finish
<1>2. \A q \in Procs \ {p} : /\ pc'[q] = pc[q] /\ op'[q] = op[q]
                             /\ source'[q] = source[q] /\ draft'[q] = draft[q]
  BY DEF FileInv, TypeOK, Finish
<1>3. \A q \in Procs : pc'[q] = "waiting" => Asked(op[q])'
  BY <1>1, <1>2 DEF FileInv, Asked
<1>4. ASSUME NEW q \in Procs, pc'[q] \in {"drafted", "checked"} PROVE Drafted(q)'
  <2>1. q # p /\ Drafted(q) /\ now \in Nat
    BY <1>1, <1>2, <1>4 DEF FileInv, TypeOK
  <2> QED
    BY <1>2, <2>1, DraftedStays
<1> QED
  BY <1>1, <1>3, <1>4 DEF FileInv

\* What a person saves is a configuration again, or does not parse.
LEMMA EditedType ==
    ASSUME NEW cfg \in Config, NEW new \in Edited(cfg) PROVE new \in Config \union {Damaged}
<1>1. \A x \in BOOLEAN : [cfg EXCEPT !.sound = x] \in Config
  BY DEF Config
<1>2. \A a \in Known(cfg) : [cfg EXCEPT !.default = a] \in Config
  BY FieldFacts, Zenon DEF Known
<1>3. ASSUME NEW a \in Known(cfg), NEW h \in Hosts
      PROVE [cfg EXCEPT !.servers[a].host = h] \in Config
  <2>1. a \in Aliases /\ cfg.servers[a] \in Server
    BY ServerOf DEF Known
  <2>2. [cfg.servers[a] EXCEPT !.host = h] \in Server
    BY <2>1 DEF Server
  <2>3. [cfg EXCEPT !.servers[a].host = h] = Put(cfg, a, [cfg.servers[a] EXCEPT !.host = h])
    BY DEF Put
  <2> QED
    BY <2>1, <2>2, <2>3, PutFacts
<1>4. \/ new = Damaged \/ new = [cfg EXCEPT !.sound = FALSE]
      \/ \E a \in Known(cfg) : new = [cfg EXCEPT !.default = a]
      \/ \E a \in Known(cfg), h \in Hosts : new = [cfg EXCEPT !.servers[a].host = h]
  BY DEF Edited
<1>5. CASE new = [cfg EXCEPT !.sound = FALSE]
  BY <1>1, <1>5
<1>6. CASE \E a \in Known(cfg) : new = [cfg EXCEPT !.default = a]
  BY <1>2, <1>6
<1>7. CASE \E a \in Known(cfg), h \in Hosts : new = [cfg EXCEPT !.servers[a].host = h]
  BY <1>3, <1>7
<1> QED
  BY <1>4, <1>5, <1>6, <1>7

LEMMA FileStep == FileInv /\ [Next]_vars => FileInv'
<1> SUFFICES ASSUME FileInv, [Next]_vars PROVE FileInv'
  OBVIOUS
<1> USE DEF FileInv
<1>0. UpdateInv' /\ now \in Nat
  BY UpdateStep DEF TypeOK
<1>1. ASSUME NEW p \in Procs, Start(p) PROVE FileInv'
  <2>0. PICK cfg \in Loaded, k \in Kinds : \E r \in Asks(cfg, k) : op' = [op EXCEPT ![p] = r]
    BY <1>1 DEF Start
  <2>1. PICK r \in Asks(cfg, k) : op' = [op EXCEPT ![p] = r]
    BY <2>0
  <2>2. Asked(r)
    <3>1. cfg \in Config /\ now \in 1..MaxNow
      BY DEF Loaded, TypeOK
    <3> QED
      BY <3>1, AsksAsked
  <2>3. TypeOK'
    BY <1>1, ConfigAssumption DEF Start, TypeOK
  <2>4. /\ op' = [q \in Procs |-> op'[q]] /\ op'[p] = r /\ pc'[p] = "waiting"
        /\ \A q \in Procs \ {p} : op'[q] = op[q] /\ pc'[q] = pc[q]
    BY <1>1, <2>1 DEF Start, TypeOK
  <2>5. \A q \in Procs : pc'[q] = "waiting" => Asked(op[q])'
    BY <2>2, <2>4 DEF Asked
  <2>6. ASSUME NEW q \in Procs, pc'[q] \in {"drafted", "checked"} PROVE Drafted(q)'
    <3>1. q # p /\ Drafted(q) /\ op'[q] = op[q]
      BY <2>4, <2>6
    <3> QED
      BY <1>0, <1>1, <3>1, DraftedStays DEF Start
  <2> QED
    BY <1>0, <2>3, <2>4, <2>5, <2>6
<1>2. ASSUME NEW p \in Procs, Update(p) PROVE FileInv'
  <2>0. PICK cfg \in Loaded : \E new \in Effect(cfg, op[p]) :
          /\ source' = [source EXCEPT ![p] = cfg]
          /\ draft' = [draft EXCEPT ![p] = new]
          /\ backups' = IF KeepsBackup(op[p], cfg, new) THEN backups \union {cfg} ELSE backups
    BY <1>2 DEF Update
  <2>1. PICK new \in Effect(cfg, op[p]) :
          /\ source' = [source EXCEPT ![p] = cfg]
          /\ draft' = [draft EXCEPT ![p] = new]
          /\ backups' = IF KeepsBackup(op[p], cfg, new) THEN backups \union {cfg} ELSE backups
    BY <2>0
  <2>2. cfg \in Config /\ now \in 1..MaxNow /\ Asked(op[p])
    BY <1>2 DEF Loaded, TypeOK, Update
  <2>3. new \in Config /\ RemovesWell(cfg, new, op[p].kind) /\ Observes(cfg, new)
    BY <2>2, EffectWell
  <2>4. /\ pc' = [pc EXCEPT ![p] = "drafted"] /\ op' = op /\ lock' = p
        /\ file' = file /\ raced' = raced /\ now' = now /\ ops' = ops /\ edits' = edits
    BY <1>2 DEF Update
  <2>5. TypeOK'
    <3>1. backups' \subseteq Config
      BY <2>1, <2>2 DEF TypeOK
    <3>2. source' \in [Procs -> Config \union {None}] /\ draft' \in [Procs -> Config \union {None}]
      BY <2>1, <2>2, <2>3 DEF TypeOK
    <3> QED
      BY <2>4, <3>1, <3>2 DEF TypeOK
  <2>6. /\ source'[p] = cfg /\ draft'[p] = new /\ pc'[p] = "drafted"
        /\ \A q \in Procs \ {p} : source'[q] = source[q] /\ draft'[q] = draft[q] /\ pc'[q] = pc[q]
    BY <2>1, <2>4 DEF TypeOK
  <2>7. \A q \in Procs : pc'[q] = "waiting" => Asked(op[q])'
    BY <2>4, <2>6 DEF Asked
  <2>8. ASSUME NEW a \in Known(cfg) \ Known(new),
               op[p].kind = "cleanup" \/ cfg.servers[a].entry = None,
               op[p].kind \notin {"rm", "remove_server"}
        PROVE  cfg \in backups'
    <3>1. op[p].kind \in {"cleanup", "publish"}
      BY <2>3, <2>8 DEF RemovesWell
    <3>2. new.servers[a] = NoServer
      BY DEF Known
    <3>3. KeepsBackup(op[p], cfg, new)
      BY <2>8, <3>1, <3>2 DEF KeepsBackup
    <3> QED
      BY <2>1, <3>3
  <2>9. Drafted(p)'
    <3>1. RemovesWell(source[p], draft[p], op[p].kind)' /\ Observes(source[p], draft[p])'
      BY <2>3, <2>4, <2>6
        DEF RemovesWell, BroughtByVault, Observes, Protected, Unused, ServersUsingProxyJump, Known, Fits, Right, Never
    <3> QED
      BY <2>2, <2>3, <2>4, <2>6, <2>8, <3>1 DEF Drafted, Known
  <2>10. ASSUME NEW q \in Procs \ {p}, pc'[q] \in {"drafted", "checked"} PROVE Drafted(q)'
    <3>1. Drafted(q) /\ backups \subseteq backups'
      BY <2>1, <2>6, <2>10
    <3> QED
      BY <1>0, <2>4, <2>6, <3>1, DraftedStays
  <2> QED
    BY <1>0, <2>4, <2>5, <2>7, <2>9, <2>10
<1>3. ASSUME NEW p \in Procs, Refuse(p) \/ Die(p) PROVE FileInv'
  BY <1>0, <1>3, FinishFile DEF Refuse, Die, TypeOK
<1>4. ASSUME NEW p \in Procs, SaveIfUnchanged(p) PROVE FileInv'
  <2>1. CASE /\ file = source[p] /\ pc' = [pc EXCEPT ![p] = "checked"]
             /\ UNCHANGED <<lock, op, source, draft, raced>>
    <3>1. UNCHANGED <<file, backups, now, ops, edits>> /\ pc[p] = "drafted"
      BY <1>4 DEF SaveIfUnchanged
    <3>2. TypeOK' /\ op' = [q \in Procs |-> op'[q]]
      BY <2>1, <3>1 DEF TypeOK
    <3>3. \A q \in Procs : pc'[q] = "waiting" => Asked(op[q])'
      BY <2>1 DEF Asked, TypeOK
    <3>4. ASSUME NEW q \in Procs, pc'[q] \in {"drafted", "checked"} PROVE Drafted(q)'
      <4>1. Drafted(q)
        BY <2>1, <3>1, <3>4 DEF TypeOK
      <4> QED
        BY <1>0, <2>1, <3>1, <4>1, DraftedStays
    <3> QED
      BY <1>0, <3>2, <3>3, <3>4
  <2>2. CASE Finish(p)
    BY <1>0, <1>4, <2>2, FinishFile DEF SaveIfUnchanged, TypeOK
  <2> QED
    BY <1>4, <2>1, <2>2 DEF SaveIfUnchanged
<1>5. ASSUME NEW p \in Procs, Rename(p) PROVE FileInv'
  <2>1. file' \in Config
    BY <1>5 DEF Rename, Drafted
  <2> QED
    BY <1>0, <1>5, <2>1, FinishFile DEF Rename
<1>6. CASE Edit
  <2>1. file' \in Config \union {Damaged}
    BY <1>6, EditedType, ConfigAssumption DEF Edit, TypeOK
  <2>2. TypeOK' /\ op' = [q \in Procs |-> op'[q]]
    BY <1>6, <2>1, ConfigAssumption DEF Edit, TypeOK
  <2>3. \A q \in Procs : pc'[q] = "waiting" => Asked(op[q])'
    BY <1>6 DEF Edit, Asked
  <2>4. ASSUME NEW q \in Procs, pc'[q] \in {"drafted", "checked"} PROVE Drafted(q)'
    BY <1>0, <1>6, <2>4, DraftedStays DEF Edit
  <2> QED
    BY <1>0, <2>2, <2>3, <2>4
<1>7. CASE Tick \/ UNCHANGED vars
  <2>1. /\ UNCHANGED <<file, lock, pc, op, source, draft, raced, backups, ops, edits>>
        /\ now' \in 1..MaxNow /\ now' \in Nat /\ now <= now'
    BY <1>7, ConfigAssumption DEF Tick, vars, TypeOK
  <2>2. TypeOK' /\ op' = [q \in Procs |-> op'[q]]
    BY <2>1 DEF TypeOK
  <2>3. \A q \in Procs : pc'[q] = "waiting" => Asked(op[q])'
    BY <2>1 DEF Asked
  <2>4. ASSUME NEW q \in Procs, pc'[q] \in {"drafted", "checked"} PROVE Drafted(q)'
    BY <1>0, <2>1, <2>4, DraftedStays
  <2> QED
    BY <1>0, <2>2, <2>3, <2>4
<1> QED
  BY <1>1, <1>2, <1>3, <1>4, <1>5, <1>6, <1>7 DEF Next

LEMMA FileInvariant == Spec => []FileInv
BY FileInit, FileStep, PTL DEF Spec

\* Every callback turns a configuration into configurations: whatever the
\* commands, the tools, the cleaner, the publication and the editor do, the
\* file holds a configuration or does not parse.
THEOREM FileTypeCorrect == Spec => []TypeOK
BY FileInvariant, PTL DEF FileInv

\* Whatever a caller saw before it took the lock, and in whatever order the
\* publication walks the records: a removal leaves the default, the project and
\* the jump hosts resolvable, except those of records that the publication makes
\* from entries naming what it removes, the cleaner removes only what is unprotected and
\* unused now, and the backup that restores it was kept before.
THEOREM RemovalsAreSafe == Spec => RemovalIsSafe
<1>1. ASSUME FileInv, NEW p \in Procs, Rename(p), ~raced[p], NEW a \in Removed(p)
      PROVE /\ file'.default # a /\ file'.project # a
            /\ \A b \in Known(file') :
                  file'.servers[b].jump = a =>
                    BroughtByVault(op[p].kind, file.servers[b], file'.servers[b], a)
            /\ op[p].kind = "cleanup" => ~Protected(file, a) /\ Unused(file.servers[a])
            /\ (op[p].kind = "cleanup" \/ file.servers[a].entry = None)
                  /\ op[p].kind \notin {"rm", "remove_server"} =>
                  \E b \in backups : b.servers[a] = file.servers[a]
  <2>1. file = source[p] /\ file' = draft[p] /\ Drafted(p)
    BY <1>1 DEF FileInv, UpdateInv, CheckedCurrent, Rename
  <2>2. a \in Known(source[p]) \ Known(draft[p])
    BY <1>1, <2>1 DEF Removed
  <2>3. /\ op[p].kind = "cleanup" \/ source[p].servers[a].entry = None
        /\ op[p].kind \notin {"rm", "remove_server"}
        => source[p] \in backups
    BY <2>1, <2>2 DEF Drafted
  <2> QED
    BY <2>1, <2>2, <2>3 DEF Drafted, RemovesWell
<1>2. FileInv /\ [Next]_vars =>
        [\A p \in Procs : Rename(p) /\ ~raced[p] =>
           \A a \in Removed(p) :
              /\ file'.default # a /\ file'.project # a
              /\ \A b \in Known(file') :
                    file'.servers[b].jump = a =>
                      BroughtByVault(op[p].kind, file.servers[b], file'.servers[b], a)
              /\ op[p].kind = "cleanup" => ~Protected(file, a) /\ Unused(file.servers[a])
              /\ (op[p].kind = "cleanup" \/ file.servers[a].entry = None)
                    /\ op[p].kind \notin {"rm", "remove_server"} =>
                    \E b \in backups : b.servers[a] = file.servers[a]]_vars
  BY <1>1
<1> QED
  BY <1>2, FileInvariant, PTL DEF Spec, RemovalIsSafe

\* However long a probe, a login or a pairing waited for the lock, what it
\* writes about a native record was observed on the identity the record has.
THEOREM ActivityStaysWithIdentity == Spec => ActivityOfIdentity
<1>1. ASSUME FileInv, NEW p \in Procs, Rename(p), ~raced[p], NEW a \in Known(draft[p])
      PROVE Fits(draft[p].servers[a], file.servers[a])
  <2>1. file = source[p] /\ Drafted(p)
    BY <1>1 DEF FileInv, UpdateInv, CheckedCurrent, Rename
  <2> QED
    BY <2>1 DEF Drafted, Observes
<1>2. FileInv /\ [Next]_vars =>
        [\A p \in Procs : Rename(p) /\ ~raced[p] =>
           \A a \in Known(draft[p]) : Fits(draft[p].servers[a], file.servers[a])]_vars
  BY <1>1
<1> QED
  BY <1>2, FileInvariant, PTL DEF Spec, ActivityOfIdentity, Fits, Right

-----------------------------------------------------------------------------
(* Enrolling a host.  A run that is about to save, or to close the host to *)
(* passwords, still is about the host, the account and the key file that   *)
(* it proved; and a callback server believes one place for good.           *)

\* What the proofs need of the types: the fields of the records.
RunShape ==
    run = [p \in Runs |-> [pc |-> run[p].pc, cb |-> run[p].cb, host |-> run[p].host, user |-> run[p].user,
                           path |-> run[p].path, exists |-> run[p].exists, gen |-> run[p].gen,
                           pub |-> run[p].pub, proved |-> run[p].proved]]

IsRun(r) ==
    r = [pc |-> r.pc, cb |-> r.cb, host |-> r.host, user |-> r.user, path |-> r.path,
         exists |-> r.exists, gen |-> r.gen, pub |-> r.pub, proved |-> r.proved]

\* What run p is about.
About(p) == [host |-> run[p].host, user |-> run[p].user, path |-> run[p].path]
Generates(p) == plan[p].op \in {"genKey", "handleGenKey"}

ProvedInv ==
    \A p \in Runs : run[p].pc \in {"harden", "reload"} \/ (run[p].pc = "save" /\ ~Generates(p))
        => run[p].proved = About(p)

EnrollInv == RunShape /\ ProvedInv

\* A step of one run that does not go towards saving.
LEMMA RunGoesOn ==
    ASSUME EnrollInv, NEW p \in Runs, NEW r, run' = [run EXCEPT ![p] = r], plan' = plan,
           IsRun(r),
           \/ r.pc \notin {"harden", "reload", "save"}
           \/ r.pc = "save" /\ Generates(p)
           \/ r.proved = [host |-> r.host, user |-> r.user, path |-> r.path]
    PROVE EnrollInv'
<1>1. run'[p] = r /\ \A q \in Runs \ {p} : run'[q] = run[q]
  BY Zenon DEF EnrollInv, RunShape
<1>2. RunShape'
  BY <1>1, ZenonT(30) DEF EnrollInv, RunShape, IsRun
<1>3. ProvedInv'
  BY <1>1 DEF EnrollInv, ProvedInv, About, Generates
<1> QED
  BY <1>2, <1>3 DEF EnrollInv

\* Steps that only move a run on.
LEMMA RunMovesOn ==
    ASSUME EnrollInv, NEW p \in Runs, NEW s, run' = [run EXCEPT ![p].pc = s], plan' = plan,
           \/ s \notin {"harden", "reload", "save"}
           \/ run[p].pc \in {"harden", "reload"}
           \/ s = "save" /\ Generates(p)
    PROVE EnrollInv'
<1> DEFINE r == [run[p] EXCEPT !.pc = s]
<1>1. /\ IsRun(r) /\ r = [pc |-> s, cb |-> run[p].cb, host |-> run[p].host, user |-> run[p].user,
              path |-> run[p].path, exists |-> run[p].exists, gen |-> run[p].gen,
              pub |-> run[p].pub, proved |-> run[p].proved]
      /\ run' = [run EXCEPT ![p] = r]
  BY DEF EnrollInv, RunShape, IsRun
<1>2. run[p].pc \in {"harden", "reload"} => run[p].proved = About(p)
  BY DEF EnrollInv, ProvedInv
<1> HIDE DEF r
<1> QED
  BY <1>1, <1>2, RunGoesOn DEF About

\* The commands of CopyID's remote shell, after it appended the key.
Copies(p) ==
    \/ CopyIDTruncates(p) \/ CopyIDReads(p) \/ CopyIDWrites(p)
    \/ CopyIDRenames(p) \/ CopyIDExits(p) \/ CopyIDBreaks(p)

\* They touch authorized_keys and nothing else, and move the run on.
CopyMove(p) ==
    /\ UNCHANGED <<plan, files, store, agent, conf, hook, script>>
    /\ run[p].pc \in {"dedupe", "awkReads", "awkWrites", "rename", "mvFailed", "exit"}
    /\ \E s \in {"failed", "awkReads", "awkWrites", "rename", "mvFailed", "exit", "test"} :
          run' = [run EXCEPT ![p].pc = s] /\ (run[p].pc = "dedupe" => s \in {"awkReads", "failed"})

LEMMA CopiesMove == ASSUME NEW p \in Runs, Copies(p) PROVE CopyMove(p)
<1>1. CASE CopyIDTruncates(p) \/ CopyIDReads(p) \/ CopyIDWrites(p)
  BY <1>1, Zenon DEF CopyMove, CopyIDTruncates, CopyIDReads, CopyIDWrites
<1>2. CASE CopyIDRenames(p)
  BY <1>2, Zenon DEF CopyMove, CopyIDRenames
<1>3. CASE CopyIDExits(p) \/ CopyIDBreaks(p)
  BY <1>3, Zenon DEF CopyMove, CopyIDExits, CopyIDBreaks, TrapRemoves
<1> QED
  BY <1>1, <1>2, <1>3 DEF Copies

\* The steps that only move a run on, and those that change more of it.
Moves(p) ==
    \/ Inspect(p) \/ RememberKeyFile(p) \/ WritePrivate(p) \/ WritePublic(p)
    \/ NoToken(p) \/ PublishWithCallback(p) \/ PublishNoCallback(p)
    \/ WaitForPairCallbackRetry(p)
    \/ GenKeyLoads(p) \/ ProvisionLoads(p) \/ SaveKeyPath(p) \/ ToolSavesKeyPath(p)
    \/ Copies(p)
    \/ HardenWrites(p) \/ HardenReloads(p) \/ SavePaired(p) \/ SaveProvisioned(p)

Learns(p) ==
    \/ PairStarts(p) \/ PreparePairKey(p) \/ PairKeyGenerated(p) \/ TakeReport(p)
    \/ VerifyReported(p) \/ VerifyNoCallback(p)
    \/ GenKeyStarts(p) \/ HandleGenKeyStarts(p) \/ ProvisionStarts(p) \/ CopyIDStarts(p)
    \/ CopyIDAppends(p) \/ TestKey(p)

RunStep(p) == Moves(p) \/ Learns(p)

LEMMA MovesOn ==
    ASSUME NEW p \in Runs, Moves(p)
    PROVE /\ plan' = plan
          /\ \E s \in PCs \ {"start"} :
               /\ run' = [run EXCEPT ![p].pc = s]
               /\ \/ s \notin {"harden", "reload", "save"}
                  \/ run[p].pc \in {"harden", "reload"}
                  \/ s = "save" /\ Generates(p)
<1>0. Copies(p) => CopyMove(p)
  BY CopiesMove
<1>1. plan' = plan
  BY <1>0, ZenonT(30) DEF Moves, CopyMove, Inspect, RememberKeyFile, WritePrivate, WritePublic, NoToken,
         PublishWithCallback, PublishNoCallback, WaitForPairCallbackRetry, GenKeyLoads, ProvisionLoads,
         SaveKeyPath, ToolSavesKeyPath, HardenWrites, HardenReloads, SavePaired, SaveProvisioned
<1>2. ASSUME Inspect(p) \/ RememberKeyFile(p) \/ WritePrivate(p) \/ WritePublic(p) \/ NoToken(p)
             \/ PublishWithCallback(p) \/ PublishNoCallback(p) \/ WaitForPairCallbackRetry(p)
             \/ ProvisionLoads(p) \/ Copies(p)
             \/ SavePaired(p) \/ SaveProvisioned(p) \/ SaveKeyPath(p) \/ ToolSavesKeyPath(p)
      PROVE \E s \in PCs \ {"start", "harden", "reload", "save"} : run' = [run EXCEPT ![p].pc = s]
  BY <1>0, <1>2, Zenon DEF PCs, CopyMove, Inspect, RememberKeyFile, WritePrivate, WritePublic, NoToken,
         PublishWithCallback, PublishNoCallback, PairEnds, WaitForPairCallbackRetry, ProvisionLoads,
         SavePaired, SaveProvisioned, SaveKeyPath, ToolSavesKeyPath, SaveFails
<1>3. ASSUME GenKeyLoads(p)
      PROVE Generates(p) /\ \E s \in {"save", "failed"} : run' = [run EXCEPT ![p].pc = s]
  BY <1>3 DEF GenKeyLoads, Generates
<1>4. ASSUME HardenWrites(p) \/ HardenReloads(p)
      PROVE /\ run[p].pc \in {"harden", "reload"}
            /\ \E s \in {"reload", "save"} : run' = [run EXCEPT ![p].pc = s]
  BY <1>4 DEF HardenWrites, HardenReloads
<1> QED
  BY <1>1, <1>2, <1>3, <1>4, Zenon DEF Moves, PCs

LEMMA MovesInv == ASSUME EnrollInv, NEW p \in Runs, Moves(p) PROVE EnrollInv'
BY MovesOn, RunMovesOn

\* The commands begin, read keys and reports, and prove a login.
LEMMA LearnsMore ==
    ASSUME RunShape, NEW p \in Runs, Learns(p)
    PROVE /\ plan' = plan /\ run' = [run EXCEPT ![p] = run'[p]]
          /\ IsRun(run'[p]) /\ run'[p].pc # "start"
          /\ run[p].pc = "start" \/ run'[p].cb = run[p].cb
          /\ \/ run'[p].pc \notin {"harden", "reload", "save"}
             \/ run'[p].proved = [host |-> run'[p].host, user |-> run'[p].user, path |-> run'[p].path]
          /\ run'[p].pc \in {"harden", "save", "done"} \/ run'[p].proved = run[p].proved
<1> DEFINE r == run'[p]
<1>0. IsRun(run[p]) /\ DOMAIN run = Runs
  BY Zenon DEF RunShape, IsRun
<1>1. plan' = plan
  BY Zenon DEF Learns, PairStarts, PreparePairKey, PairKeyGenerated, TakeReport, VerifyReported, VerifyNoCallback,
         GenKeyStarts, HandleGenKeyStarts, ProvisionStarts, StartGeneration, CopyIDStarts, CopyIDAppends, TestKey
<1>2. /\ run' = [run EXCEPT ![p] = r]
      /\ IsRun(r) /\ r.pc # "start"
      /\ run[p].pc = "start" \/ r.cb = run[p].cb
      /\ \/ r.pc \notin {"harden", "reload", "save"}
         \/ r.proved = [host |-> r.host, user |-> r.user, path |-> r.path]
      /\ r.pc \in {"harden", "save", "done"} \/ r.proved = run[p].proved
  <2>1. CASE PairStarts(p)
    <3>1. PICK given, listens, identity \in BOOLEAN, answer \in Users,
               found \in DiscoverCallbackHost, valid \in ValidateCallbackHost :
            LET cb == plan[p].op = "pair" /\ (given \/ found)
                known == IF plan[p].user # NoUser THEN plan[p].user ELSE conf.user
                user == IF known = NoUser /\ plan[p].op = "pair" /\ ~ cb THEN answer ELSE known
                refused == \/ ~ PairCandidate(p)
                           \/ cb /\ given /\ ~ valid
                           \/ cb /\ ~ listens
                           \/ plan[p].op = "pair" /\ ~ cb /\ ~ plan[p].terminal
                           \/ ~ cb /\ user = NoUser
            IN run' = [run EXCEPT ![p] =
                         [run[p] EXCEPT !.pc = IF refused THEN "failed" ELSE "prepare",
                                        !.cb = cb, !.host = plan[p].host, !.user = user,
                                        !.path = IF identity \/ conf.path = "none" THEN plan[p].path ELSE conf.path,
                                        !.exists = conf.present]]
      BY <2>1, Zenon DEF PairStarts
    <3>2. run[p].pc = "start"
      BY <2>1 DEF PairStarts
    <3> QED
      BY <1>0, <3>1, <3>2, ZenonT(30) DEF IsRun
  <2>2. CASE PreparePairKey(p)
    BY <1>0, <2>2 DEF IsRun, PreparePairKey
  <2>3. CASE PairKeyGenerated(p)
    <3>1. CASE run' = [run EXCEPT ![p].pc = IF ManagedPairKey(run[p].path) THEN "publish" ELSE "failed",
                                  ![p].pub = store.key[run[p].path],
                                  ![p].gen = ManagedPairKey(run[p].path)]
      BY <1>0, <3>1 DEF IsRun
    <3>2. ASSUME NEW ok, run' = [run EXCEPT ![p].pc = IF ok THEN "publish" ELSE "failed",
                                            ![p].pub = files[run[p].path].pub, ![p].gen = ok]
          PROVE /\ run' = [run EXCEPT ![p] = r]
                /\ IsRun(r) /\ r.pc \notin {"start", "harden", "reload", "save"}
                /\ r.cb = run[p].cb /\ r.proved = run[p].proved
      BY <1>0, <3>2 DEF IsRun
    <3> QED
      BY <2>3, <3>1, <3>2, ZenonT(30) DEF PairKeyGenerated
  <2>4. CASE TakeReport(p)
    BY <1>0, <2>4 DEF IsRun, TakeReport, PairEnds
  <2>5. CASE VerifyReported(p) \/ VerifyNoCallback(p)
    <3>1. CASE run' = [run EXCEPT ![p].pc = "failed"]
      BY <1>0, <3>1 DEF IsRun
    <3>2. ASSUME NEW u, NEW v,
                 run' = [run EXCEPT ![p] = [run[p] EXCEPT !.pc = "save", !.user = u, !.proved = v]],
                 v = [host |-> run[p].host, user |-> u, path |-> run[p].path]
          PROVE /\ run' = [run EXCEPT ![p] = r]
                /\ IsRun(r) /\ r.pc = "save" /\ r.cb = run[p].cb
                /\ r.proved = [host |-> r.host, user |-> r.user, path |-> r.path]
      BY <1>0, <3>2 DEF IsRun
    <3>3. CASE PairEnds(p)
      BY <3>1, <3>3 DEF PairEnds
    <3>4. CASE Verified(p)
      <4> DEFINE u == Account[run[p].user]
                 v == [host |-> run[p].host, user |-> u, path |-> run[p].path]
      <4>1. run' = [run EXCEPT ![p] = [run[p] EXCEPT !.pc = "save", !.user = u, !.proved = v]]
        BY <3>4 DEF Verified
      <4>2. v = [host |-> run[p].host, user |-> u, path |-> run[p].path]
        OBVIOUS
      <4> HIDE DEF u, v
      <4>3. /\ run' = [run EXCEPT ![p] = r]
            /\ IsRun(r) /\ r.pc = "save" /\ r.cb = run[p].cb
            /\ r.proved = [host |-> r.host, user |-> r.user, path |-> r.path]
        BY <3>2, <4>1, <4>2, Zenon
      <4> HIDE DEF r
      <4> QED
        BY <4>3
    <3> QED
      BY <2>5, <3>3, <3>4 DEF VerifyReported, VerifyNoCallback
  <2>6. CASE GenKeyStarts(p) \/ HandleGenKeyStarts(p) \/ ProvisionStarts(p)
    <3>1. PICK ok \in PassphraseAvailable(p) :
            run' = [run EXCEPT ![p] = [run[p] EXCEPT !.pc = IF conf.present /\ ok THEN "inspect" ELSE "failed",
                                                     !.host = conf.host, !.user = conf.user,
                                                     !.path = plan[p].path]]
      BY <2>6, Zenon DEF GenKeyStarts, HandleGenKeyStarts, ProvisionStarts, StartGeneration
    <3> QED
      BY <1>0, <3>1 DEF IsRun
  <2>7. CASE CopyIDStarts(p)
    BY <1>0, <2>7 DEF IsRun, CopyIDStarts
  <2>8. CASE CopyIDAppends(p)
    BY <1>0, <2>8 DEF IsRun, CopyIDAppends
  <2>9. CASE TestKey(p)
    <3>1. CASE run' = [run EXCEPT ![p].pc = "failed"]
      BY <1>0, <3>1 DEF IsRun
    <3>2. CASE run' = [run EXCEPT ![p] = [run[p] EXCEPT
                 !.pc = IF plan[p].op = "copyID" THEN "done" ELSE IF plan[p].harden THEN "harden" ELSE "save",
                 !.proved = [host |-> run[p].host, user |-> run[p].user, path |-> run[p].path]]]
      BY <1>0, <3>2 DEF IsRun
    <3> QED
      BY <2>9, <3>1, <3>2 DEF TestKey
  <2> QED
    BY <2>1, <2>2, <2>3, <2>4, <2>5, <2>6, <2>7, <2>8, <2>9 DEF Learns
<1> QED
  BY <1>1, <1>2

LEMMA LearnsInv == ASSUME EnrollInv, NEW p \in Runs, Learns(p) PROVE EnrollInv'
<1> DEFINE r == run'[p]
<1>1. /\ plan' = plan /\ run' = [run EXCEPT ![p] = r] /\ IsRun(r)
      /\ \/ r.pc \notin {"harden", "reload", "save"}
         \/ r.proved = [host |-> r.host, user |-> r.user, path |-> r.path]
  BY LearnsMore DEF EnrollInv
<1> HIDE DEF r
<1> QED
  BY <1>1, RunGoesOn DEF IsRun

\* A step of the commands is one of these, or leaves the runs alone.
LEMMA EnrollmentMoves ==
    ASSUME [EnrollmentNext]_enrollmentVars
    PROVE (\E p \in Runs : RunStep(p)) \/ UNCHANGED <<plan, run>>
BY DEF RunStep, Moves, Copies, Learns, EnrollmentNext, enrollmentVars, ScriptInstalls, ScriptCalls,
       ScriptConfirms, SshdRestarts, EditRecord

\* A step is of one run.
LEMMA OneRunMoves ==
    ASSUME RunShape, NEW p \in Runs, NEW q \in Runs \ {p}, RunStep(q)
    PROVE run'[p] = run[p]
<1>0. DOMAIN run = Runs
  BY DEF RunShape
<1>1. CASE Inspect(q) \/ RememberKeyFile(q) \/ WritePrivate(q) \/ WritePublic(q) \/
            NoToken(q) \/ WaitForPairCallbackRetry(q)
  BY <1>0, <1>1 DEF Inspect, RememberKeyFile, WritePrivate, WritePublic, NoToken,
     WaitForPairCallbackRetry
<1>2. CASE PublishWithCallback(q) \/ PublishNoCallback(q) \/ TakeReport(q) \/
            VerifyReported(q) \/ VerifyNoCallback(q) \/ SavePaired(q)
  BY <1>0, <1>2 DEF PublishWithCallback, PublishNoCallback, TakeReport, VerifyReported,
     VerifyNoCallback, SavePaired, Verified, PairEnds
<1>3. CASE GenKeyLoads(q) \/ ProvisionLoads(q) \/ SaveKeyPath(q) \/
            ToolSavesKeyPath(q) \/ SaveProvisioned(q)
  BY <1>0, <1>3, Zenon DEF GenKeyLoads, ProvisionLoads, SaveKeyPath, ToolSavesKeyPath,
     SaveProvisioned, SaveFails
<1>9. CASE Copies(q)
  <2>1. CopyMove(q)
    BY <1>9, CopiesMove
  <2> QED
    BY <1>0, <2>1 DEF CopyMove
<1>4. CASE CopyIDStarts(q) \/ CopyIDAppends(q) \/ TestKey(q)
  BY <1>0, <1>4, Zenon DEF CopyIDStarts, CopyIDAppends, TestKey
<1>5. CASE HardenWrites(q) \/ HardenReloads(q) \/ PreparePairKey(q)
  BY <1>0, <1>5 DEF HardenWrites, HardenReloads, PreparePairKey
<1>6. CASE PairStarts(q)
  BY <1>0, <1>6 DEF PairStarts
<1>7. CASE PairKeyGenerated(q)
  BY <1>0, <1>7, ZenonT(30) DEF PairKeyGenerated
<1>8. CASE GenKeyStarts(q) \/ HandleGenKeyStarts(q) \/ ProvisionStarts(q)
  BY <1>0, <1>8, Zenon DEF GenKeyStarts, HandleGenKeyStarts, ProvisionStarts, StartGeneration
<1> QED
  BY <1>1, <1>2, <1>3, <1>4, <1>5, <1>6, <1>7, <1>8, <1>9 DEF RunStep, Moves, Learns

\* What saves a record.
LEMMA SavingSteps ==
    ASSUME NEW p \in Runs, RunStep(p), run[p].pc = "save", ~Generates(p)
    PROVE SavePaired(p) \/ SaveProvisioned(p)
<1>1. Copies(p) => CopyMove(p)
  BY CopiesMove
<1> QED
  BY <1>1 DEF CopyMove, Generates, RunStep, Moves, Learns, Inspect, RememberKeyFile, WritePrivate, WritePublic,
       NoToken, PublishWithCallback, PublishNoCallback, WaitForPairCallbackRetry, GenKeyLoads,
       ProvisionLoads, SaveKeyPath, ToolSavesKeyPath,
       HardenWrites, HardenReloads, PairStarts, PreparePairKey, PairKeyGenerated, TakeReport,
       VerifyReported, VerifyNoCallback, GenKeyStarts, HandleGenKeyStarts, ProvisionStarts,
       CopyIDStarts, CopyIDAppends, TestKey, StartGeneration

LEMMA EnrollStep == EnrollInv /\ [EnrollmentNext]_enrollmentVars => EnrollInv'
<1> SUFFICES ASSUME EnrollInv, [EnrollmentNext]_enrollmentVars PROVE EnrollInv'
  OBVIOUS
<1>1. CASE UNCHANGED <<plan, run>>
  BY <1>1 DEF EnrollInv, RunShape, ProvedInv, About, Generates
<1> QED
  BY <1>1, EnrollmentMoves, MovesInv, LearnsInv DEF RunStep

LEMMA EnrollStart == EnrollmentInit => EnrollInv
BY DEF EnrollmentInit, EnrollInv, RunShape, ProvedInv

\* What a run of pair or provision is about when it saves is what it proved
\* (verifyPairedServer, newProvisionCmd).
THEOREM EnrollmentInvariant == EnrollmentSpec => []EnrollInv
BY EnrollStart, EnrollStep, PTL DEF EnrollmentSpec

\* The record that pair or provision writes is the one whose key login it
\* proved, for any number of commands, hosts and edits (savePairedServer).
THEOREM SavesAreProved == EnrollmentSpec => SavedIsProved
<1>1. ASSUME EnrollInv, [EnrollmentNext]_enrollmentVars, NEW p \in Runs,
             run[p].pc = "save", run'[p].pc \in {"grace", "done"}, ~Generates(p)
      PROVE [host |-> conf'.host, user |-> conf'.user, path |-> conf'.path] = run[p].proved
  <2>1. run[p].proved = About(p)
    BY <1>1 DEF EnrollInv, ProvedInv
  <2>2. PICK q \in Runs : RunStep(q)
    BY <1>1, EnrollmentMoves
  <2>3. q = p
    BY <1>1, <2>2, OneRunMoves DEF EnrollInv
  <2>4. SavePaired(p) \/ SaveProvisioned(p)
    BY <1>1, <2>2, <2>3, SavingSteps
  <2>5. CASE SavePaired(p)
    <3>1. run[p].exists => conf.host = run[p].host
      BY <1>1, <2>5 DEF SavePaired, PairMaySave, PairEnds, EnrollInv, RunShape
    <3>2. conf' = Record(run[p].host, run[p].user, "key", run[p].path)
      BY <1>1, <2>5, <3>1 DEF SavePaired, PairEnds, EnrollInv, RunShape
    <3> QED
      BY <2>1, <3>2 DEF Record, About
  <2>6. CASE SaveProvisioned(p)
    <3>1. /\ conf.host = run[p].host /\ conf.user = run[p].user
          /\ conf' = Record(conf.host, conf.user, "key", run[p].path)
      BY <1>1, <2>6 DEF SaveProvisioned, EnrollInv, RunShape
    <3> QED
      BY <2>1, <3>1 DEF Record, About
  <2> QED
    BY <2>4, <2>5, <2>6
<1>2. EnrollInv /\ [EnrollmentNext]_enrollmentVars =>
        [\A p \in Runs :
           run[p].pc = "save" /\ run'[p].pc \in {"grace", "done"} /\ plan[p].op \notin {"genKey", "handleGenKey"}
           => [host |-> conf'.host, user |-> conf'.user, path |-> conf'.path] = run[p].proved]_enrollmentVars
  BY <1>1 DEF Generates
<1> QED
  BY <1>2, EnrollmentInvariant, PTL DEF EnrollmentSpec, SavedIsProved

-----------------------------------------------------------------------------
(* The callback servers.                                                   *)

Hook == [up : BOOLEAN, accepted : Places \cup {NoReport}, queued : BOOLEAN, retried : BOOLEAN]
Script == [pc : {"idle", "ready", "call", "confirm", "sent", "failed"}, tries : Nat]
ReportType == hook \in [Runs -> Hook] /\ script \in [Runs -> [Places -> Script]]

\* A script begins when its run has decided whether there is a callback.
BegunInv == \A p \in Runs, w \in Places : script[p][w].pc # "idle" => run[p].pc # "start"

ReportInv == EnrollInv /\ ReportType /\ BegunInv /\ SentIsAccepted

LEMMA NoReportIsNoPlace == NoReport \notin Places
<1>1. \A w \in Places : w[2] \in Users
  BY EnrollmentAssumption
<1> QED
  BY <1>1, EnrollmentAssumption DEF NoReport

\* Whether a run has a callback is decided when it starts.
LEMMA CallbackDecided ==
    ASSUME RunShape, NEW p \in Runs, RunStep(p)
    PROVE run'[p].pc # "start" /\ (run[p].pc # "start" => run'[p].cb = run[p].cb)
<1>1. DOMAIN run = Runs /\ IsRun(run[p])
  BY DEF RunShape, IsRun
<1>2. ASSUME NEW s \in PCs \ {"start"}, run' = [run EXCEPT ![p].pc = s]
      PROVE run'[p].pc # "start" /\ run'[p].cb = run[p].cb
  BY <1>1, <1>2 DEF IsRun
<1> QED
  BY <1>2, MovesOn, LearnsMore DEF RunStep

\* A run leaves what its callback server accepted, and publishes its script or
\* leaves that too.
LEMMA RunsKeepReports ==
    ASSUME ReportType, NEW p \in Runs, RunStep(p)
    PROVE /\ hook' = [hook EXCEPT ![p] = hook'[p]] /\ hook'[p].accepted = hook[p].accepted
          /\ hook'[p] \in Hook
          /\ \/ script' = script
             \/ /\ run[p].pc = "publish"
                /\ script' = [script EXCEPT ![p] = [w \in Places |-> [script[p][w] EXCEPT !.pc = "ready"]]]
<1>0. hook[p] \in Hook /\ DOMAIN hook = Runs /\ hook = [q \in Runs |-> hook[q]]
  BY DEF ReportType
<1>1. CASE UNCHANGED <<hook, script>>
  BY <1>0, <1>1
<1>2. ASSUME NEW k \in Hook, hook' = [hook EXCEPT ![p] = k], k.accepted = hook[p].accepted, script' = script
      PROVE /\ hook' = [hook EXCEPT ![p] = hook'[p]] /\ hook'[p].accepted = hook[p].accepted
            /\ hook'[p] \in Hook
  BY <1>0, <1>2
<1>3. /\ [hook[p] EXCEPT !.up = FALSE] \in Hook /\ [hook[p] EXCEPT !.up = TRUE] \in Hook
      /\ [hook[p] EXCEPT !.queued = FALSE] \in Hook
      /\ [hook[p] EXCEPT !.up = FALSE].accepted = hook[p].accepted
      /\ [hook[p] EXCEPT !.up = TRUE].accepted = hook[p].accepted
      /\ [hook[p] EXCEPT !.queued = FALSE].accepted = hook[p].accepted
  BY <1>0 DEF Hook
<1>4. CASE hook' = [hook EXCEPT ![p].up = FALSE] /\ script' = script
  BY <1>2, <1>3, <1>4
<1>5. CASE hook' = [hook EXCEPT ![p].queued = FALSE] /\ script' = script
  BY <1>2, <1>3, <1>5
<1>6. CASE /\ hook' = hook \/ hook' = [hook EXCEPT ![p].up = TRUE]
           /\ run[p].pc = "publish" /\ CommandPublished(p)
  <2>1. hook' = [hook EXCEPT ![p] = hook'[p]] /\ hook'[p] \in Hook /\ hook'[p].accepted = hook[p].accepted
    BY <1>0, <1>3, <1>6, Zenon
  <2> QED
    BY <1>6, <2>1 DEF CommandPublished
<1>9. Copies(p) => hook' = hook /\ script' = script
  BY CopiesMove DEF CopyMove
<1>7. CASE Moves(p)
  BY <1>1, <1>4, <1>6, <1>7, <1>9, ZenonT(30)
     DEF Moves, Inspect, RememberKeyFile, WritePrivate, WritePublic, NoToken, PublishWithCallback,
         PublishNoCallback, WaitForPairCallbackRetry, GenKeyLoads, ProvisionLoads, SaveKeyPath,
         ToolSavesKeyPath, HardenWrites, HardenReloads, SavePaired, SaveProvisioned, PairEnds
<1>8. CASE Learns(p)
  BY <1>1, <1>4, <1>5, <1>8, Zenon
     DEF Learns, PairStarts, PreparePairKey, PairKeyGenerated, TakeReport, VerifyReported,
         VerifyNoCallback, Verified, PairEnds, GenKeyStarts, HandleGenKeyStarts, ProvisionStarts,
         StartGeneration, CopyIDStarts, CopyIDAppends, TestKey
<1> QED
  BY <1>7, <1>8 DEF RunStep

LEMMA RunStepReports == ASSUME ReportInv, NEW p \in Runs, RunStep(p) PROVE ReportInv'
<1>1. EnrollInv'
  BY MovesInv, LearnsInv DEF ReportInv, RunStep
<1>2. /\ \A q \in Runs \ {p} : run'[q] = run[q]
      /\ run'[p].pc # "start" /\ (run[p].pc # "start" => run'[p].cb = run[p].cb)
  BY OneRunMoves, CallbackDecided DEF ReportInv, EnrollInv
<1>3. /\ hook' = [hook EXCEPT ![p] = hook'[p]] /\ hook'[p].accepted = hook[p].accepted
      /\ hook'[p] \in Hook
      /\ \/ script' = script
         \/ /\ run[p].pc = "publish"
            /\ script' = [script EXCEPT ![p] = [w \in Places |-> [script[p][w] EXCEPT !.pc = "ready"]]]
  BY RunsKeepReports DEF ReportInv
<1>4. /\ \A q \in Runs : hook'[q].accepted = hook[q].accepted
      /\ \A q \in Runs, w \in Places :
           script'[q][w].pc = script[q][w].pc \/ (q = p /\ script'[q][w].pc = "ready")
  <2>1. CASE script' = script
    BY <1>3, <2>1 DEF ReportInv, ReportType
  <2>2. CASE script' = [script EXCEPT ![p] = [w \in Places |-> [script[p][w] EXCEPT !.pc = "ready"]]]
    BY <1>3, <2>2 DEF ReportInv, ReportType, Script
  <2> QED
    BY <1>3, <2>1, <2>2
<1>5. ReportType'
  <2>1. hook' \in [Runs -> Hook]
    BY <1>3 DEF ReportInv, ReportType
  <2>2. CASE script' = script
    BY <2>1, <2>2 DEF ReportInv, ReportType
  <2>3. CASE script' = [script EXCEPT ![p] = [w \in Places |-> [script[p][w] EXCEPT !.pc = "ready"]]]
    <3>1. [w \in Places |-> [script[p][w] EXCEPT !.pc = "ready"]] \in [Places -> Script]
      BY DEF ReportInv, ReportType, Script
    <3> QED
      BY <2>1, <2>3, <3>1 DEF ReportInv, ReportType
  <2> QED
    BY <1>3, <2>2, <2>3
<1>6. BegunInv'
  BY <1>2, <1>4 DEF ReportInv, BegunInv
<1>7. SentIsAccepted'
  BY <1>2, <1>4 DEF ReportInv, BegunInv, SentIsAccepted
<1> QED
  BY <1>1, <1>5, <1>6, <1>7 DEF ReportInv

\* A script that has not begun stays so, and one that reports as sent has been
\* accepted; what was accepted stays.
LEMMA ScriptStepReports ==
    ASSUME ReportInv, NEW p \in Runs, NEW w \in Places, NEW s, NEW k,
           script[p][w].pc # "idle", UNCHANGED <<plan, run>>,
           script' = [script EXCEPT ![p][w] = s], s \in Script,
           hook' = [hook EXCEPT ![p] = k], k = hook[p] \/ k = HandlerKeeps(hook[p], w),
           run[p].cb /\ s.pc \in {"confirm", "sent"} => k.accepted = w
    PROVE ReportInv'
<1>1. EnrollInv'
  BY DEF ReportInv, EnrollInv, RunShape, ProvedInv, About, Generates
<1>2. k \in Hook /\ (hook[p].accepted # NoReport => k.accepted = hook[p].accepted)
  <2>1. hook[p] \in Hook
    BY DEF ReportInv, ReportType
  <2> QED
    BY <2>1 DEF Hook, HandlerKeeps
<1>3. /\ hook'[p] = k /\ \A q \in Runs \ {p} : hook'[q] = hook[q]
      /\ script'[p][w] = s
      /\ \A q \in Runs, v \in Places : q # p \/ v # w => script'[q][v] = script[q][v]
  BY DEF ReportInv, ReportType
<1>4. ReportType'
  BY <1>2 DEF ReportInv, ReportType
<1>5. BegunInv'
  BY <1>3 DEF ReportInv, BegunInv
<1>6. SentIsAccepted'
  <2>1. ASSUME NEW q \in Runs, NEW v \in Places, run'[q].cb, script'[q][v].pc \in {"confirm", "sent"}
        PROVE hook'[q].accepted = v
    <3>1. CASE q = p /\ v = w
      BY <1>3, <2>1, <3>1
    <3>2. CASE q # p \/ v # w
      <4>1. hook[q].accepted = v
        BY <1>3, <2>1, <3>2 DEF ReportInv, SentIsAccepted
      <4> QED
        BY <1>2, <1>3, <4>1, NoReportIsNoPlace
    <3> QED
      BY <3>1, <3>2
  <2> QED
    BY <2>1 DEF SentIsAccepted
<1> QED
  BY <1>1, <1>4, <1>5, <1>6 DEF ReportInv

LEMMA ScriptsInv ==
    ASSUME ReportInv, NEW p \in Runs, NEW w \in Places,
           ScriptInstalls(p, w) \/ ScriptCalls(p, w) \/ ScriptConfirms(p, w)
    PROVE ReportInv'
<1>1. /\ script[p][w] \in Script /\ script \in [Runs -> [Places -> Script]]
      /\ hook = [hook EXCEPT ![p] = hook[p]] /\ hook[p] \in Hook
  BY DEF ReportInv, ReportType
<1>2. CASE ScriptInstalls(p, w)
  <2>1. PICK s \in {"failed", "call", "sent"} :
          script' = [script EXCEPT ![p][w].pc = s] /\ (s = "sent" => ~run[p].cb)
    BY <1>2 DEF ScriptInstalls, BuildScripts
  <2> DEFINE new == [script[p][w] EXCEPT !.pc = s]
  <2>2. script' = [script EXCEPT ![p][w] = new] /\ new \in Script /\ new.pc = s
    BY <1>1, <2>1 DEF Script
  <2>3. script[p][w].pc # "idle" /\ UNCHANGED <<plan, run, hook>>
    BY <1>2 DEF ScriptInstalls
  <2>4. run[p].cb /\ new.pc \in {"confirm", "sent"} => hook[p].accepted = w
    BY <2>1, <2>2
  <2> HIDE DEF new
  <2> QED
    BY <1>1, <2>2, <2>3, <2>4, ScriptStepReports
<1>3. CASE ScriptCalls(p, w)
  <2>1. PICK arrives, answered \in BOOLEAN, valid \in ReportValid :
          LET heard == arrives /\ hook[p].up /\ valid
              accepted == heard /\ answered /\ HandlerAnswer(hook[p], w)
              tries == script[p][w].tries + 1
          IN /\ hook' = IF heard THEN [hook EXCEPT ![p] = HandlerKeeps(hook[p], w)] ELSE hook
             /\ script' = [script EXCEPT ![p][w] =
                    IF accepted THEN [script[p][w] EXCEPT !.pc = "confirm"]
                    ELSE [pc |-> IF tries >= MaxTries THEN "failed" ELSE "call", tries |-> tries]]
    BY <1>3 DEF ScriptCalls
  <2> DEFINE heard == arrives /\ hook[p].up /\ valid
             accepted == heard /\ answered /\ HandlerAnswer(hook[p], w)
             k == IF heard THEN HandlerKeeps(hook[p], w) ELSE hook[p]
             s == IF accepted THEN [script[p][w] EXCEPT !.pc = "confirm"]
                  ELSE [pc |-> IF script[p][w].tries + 1 >= MaxTries THEN "failed" ELSE "call",
                        tries |-> script[p][w].tries + 1]
  <2>2. hook' = [hook EXCEPT ![p] = k] /\ script' = [script EXCEPT ![p][w] = s]
    BY <1>1, <2>1
  <2>3. s \in Script /\ (s.pc \in {"confirm", "sent"} => accepted)
    BY <1>1 DEF Script
  <2>4. accepted => k.accepted = w
    BY <1>1 DEF Hook, HandlerAnswer, HandlerKeeps
  <2>5. k = hook[p] \/ k = HandlerKeeps(hook[p], w)
    OBVIOUS
  <2>6. script[p][w].pc # "idle" /\ UNCHANGED <<plan, run>>
    BY <1>3 DEF ScriptCalls
  <2> HIDE DEF heard, accepted, k, s
  <2> QED
    BY <2>2, <2>3, <2>4, <2>5, <2>6, ScriptStepReports
<1>4. CASE ScriptConfirms(p, w)
  <2>1. PICK arrives \in BOOLEAN :
          hook' = IF arrives /\ hook[p].up THEN [hook EXCEPT ![p] = HandlerKeeps(hook[p], w)] ELSE hook
    BY <1>4 DEF ScriptConfirms
  <2> DEFINE k == IF arrives /\ hook[p].up THEN HandlerKeeps(hook[p], w) ELSE hook[p]
             s == [script[p][w] EXCEPT !.pc = "sent"]
  <2>2. hook' = [hook EXCEPT ![p] = k] /\ script' = [script EXCEPT ![p][w] = s]
    BY <1>1, <1>4, <2>1 DEF ScriptConfirms, ReportInv, ReportType
  <2>3. s \in Script
    BY <1>1 DEF Script
  <2>4. run[p].cb => k.accepted = w
    <3>1. run[p].cb => hook[p].accepted = w
      BY <1>4 DEF ScriptConfirms, ReportInv, SentIsAccepted
    <3>2. hook[p].accepted = w => k.accepted = w
      BY <1>1, NoReportIsNoPlace DEF Hook, HandlerKeeps
    <3> QED
      BY <3>1, <3>2
  <2>5. k = hook[p] \/ k = HandlerKeeps(hook[p], w)
    OBVIOUS
  <2>6. script[p][w].pc # "idle" /\ UNCHANGED <<plan, run>>
    BY <1>4 DEF ScriptConfirms
  <2> HIDE DEF k, s
  <2> QED
    BY <2>2, <2>3, <2>4, <2>5, <2>6, ScriptStepReports
<1> QED
  BY <1>2, <1>3, <1>4

LEMMA ReportStep == ReportInv /\ [EnrollmentNext]_enrollmentVars => ReportInv'
<1> SUFFICES ASSUME ReportInv, [EnrollmentNext]_enrollmentVars PROVE ReportInv'
  OBVIOUS
<1>1. \/ \E p \in Runs : RunStep(p)
      \/ \E p \in Runs, w \in Places : ScriptInstalls(p, w) \/ ScriptCalls(p, w) \/ ScriptConfirms(p, w)
      \/ UNCHANGED <<plan, run, hook, script>>
  BY DEF EnrollmentNext, enrollmentVars, SshdRestarts, EditRecord, RunStep, Moves, Learns, Copies
<1>2. CASE UNCHANGED <<plan, run, hook, script>>
  BY <1>2 DEF ReportInv, EnrollInv, RunShape, ProvedInv, About, Generates, ReportType, BegunInv, SentIsAccepted
<1> QED
  BY <1>1, <1>2, RunStepReports, ScriptsInv

LEMMA ReportStart == EnrollmentInit => ReportInv
BY EnrollStart DEF EnrollmentInit, ReportInv, ReportType, Hook, Script, BegunInv, SentIsAccepted

\* A script that says its report was sent is the one the command believed, for
\* any number of commands, places and retries (HandlerWithRetrySignal).
THEOREM SentScriptsAccepted == EnrollmentSpec => []SentIsAccepted
<1>1. ReportInv => SentIsAccepted
  BY DEF ReportInv
<1> QED
  BY <1>1, ReportStart, ReportStep, PTL DEF EnrollmentSpec

-----------------------------------------------------------------------------
(* Closing a host to passwords.                                            *)

Late == {"harden", "reload", "save", "grace", "done", "failed"}

\* A run that proved a login goes on to its end.
UnprovedInv == \A p \in Runs : run[p].pc \notin Late => run[p].proved = NoProof

\* A host is closed to passwords, or will be when sshd reads its configuration.
Closing(h) == host[h].dropIn \/ host[h].keyOnly

\* Password login goes off only on a host where a run logged in with a key.
ClosedAfterProof ==
    \A h \in Targets : Closing(h) =>
        \E p \in Runs : run[p].proved # NoProof /\ run[p].proved.host = h

IsHost(x) == x = [auth |-> x.auth, tmp |-> x.tmp, dropIn |-> x.dropIn, keyOnly |-> x.keyOnly]
HostShape == host = [h \in Targets |-> host[h]] /\ \A h \in Targets : IsHost(host[h])

ClosedInv == EnrollInv /\ UnprovedInv /\ HostShape /\ ClosedAfterProof

\* The switches of the hosts stay as they are.
Keeps ==
    /\ HostShape'
    /\ \A h \in Targets : host'[h].dropIn = host[h].dropIn /\ host'[h].keyOnly = host[h].keyOnly

\* A record of a host that differs in one field or two.
HostOf(a, t, d, k) == [auth |-> a, tmp |-> t, dropIn |-> d, keyOnly |-> k]

LEMMA HostFields ==
    ASSUME NEW y, IsHost(y), NEW a, NEW t, NEW d, NEW k
    PROVE /\ [y EXCEPT !.auth = a, !.tmp = t] = HostOf(a, t, y.dropIn, y.keyOnly)
          /\ [y EXCEPT !.auth = a] = HostOf(a, y.tmp, y.dropIn, y.keyOnly)
          /\ [y EXCEPT !.tmp = t] = HostOf(y.auth, t, y.dropIn, y.keyOnly)
          /\ [y EXCEPT !.dropIn = d] = HostOf(y.auth, y.tmp, d, y.keyOnly)
          /\ [y EXCEPT !.keyOnly = k] = HostOf(y.auth, y.tmp, y.dropIn, k)
<1>1. [y EXCEPT !.auth = a] = HostOf(a, y.tmp, y.dropIn, y.keyOnly)
  BY DEF IsHost, HostOf
<1>2. [y EXCEPT !.tmp = t] = HostOf(y.auth, t, y.dropIn, y.keyOnly)
  BY DEF IsHost, HostOf
<1>3. [y EXCEPT !.dropIn = d] = HostOf(y.auth, y.tmp, d, y.keyOnly)
  BY DEF IsHost, HostOf
<1>4. [y EXCEPT !.keyOnly = k] = HostOf(y.auth, y.tmp, y.dropIn, k)
  BY DEF IsHost, HostOf
<1>5. [y EXCEPT !.auth = a, !.tmp = t] = HostOf(a, t, y.dropIn, y.keyOnly)
  <2> DEFINE z == HostOf(a, y.tmp, y.dropIn, y.keyOnly)
  <2>1. [y EXCEPT !.auth = a, !.tmp = t] = [z EXCEPT !.tmp = t]
    BY <1>1
  <2>2. z.auth = a /\ z.dropIn = y.dropIn /\ z.keyOnly = y.keyOnly
    BY DEF HostOf
  <2>3. z = [auth |-> z.auth, tmp |-> z.tmp, dropIn |-> z.dropIn, keyOnly |-> z.keyOnly]
    BY DEF HostOf
  <2> HIDE DEF z
  <2>4. [z EXCEPT !.tmp = t] = HostOf(z.auth, t, z.dropIn, z.keyOnly)
    BY <2>3 DEF HostOf
  <2> QED
    BY <2>1, <2>2, <2>4
<1> QED
  BY <1>1, <1>2, <1>3, <1>4, <1>5

LEMMA HostOfFields ==
    ASSUME NEW a, NEW t, NEW d, NEW k
    PROVE IsHost(HostOf(a, t, d, k)) /\ HostOf(a, t, d, k).dropIn = d /\ HostOf(a, t, d, k).keyOnly = k
BY DEF IsHost, HostOf

LEMMA HostChanges ==
    ASSUME HostShape, NEW h, NEW x, host' = [host EXCEPT ![h] = x],
           h \in Targets => IsHost(x)
    PROVE /\ HostShape' /\ \A g \in Targets \ {h} : host'[g] = host[g]
          /\ h \in Targets => host'[h] = x
<1>1. CASE h \in Targets
  BY <1>1 DEF HostShape
<1>2. CASE h \notin Targets
  <2>1. host' = host
    BY <1>2 DEF HostShape
  <2> QED
    BY <1>2, <2>1 DEF HostShape
<1> QED
  BY <1>1, <1>2

LEMMA Unchanging == ASSUME HostShape, host' = host PROVE Keeps
BY DEF HostShape, Keeps

LEMMA SwitchesStay ==
    ASSUME HostShape, NEW h, NEW x, host' = [host EXCEPT ![h] = x],
           IsHost(host[h]) => \E a, t : x = HostOf(a, t, host[h].dropIn, host[h].keyOnly)
    PROVE Keeps
<1>1. h \in Targets => IsHost(x) /\ x.dropIn = host[h].dropIn /\ x.keyOnly = host[h].keyOnly
  BY HostOfFields DEF HostShape
<1> QED
  BY <1>1, HostChanges, Zenon DEF Keeps

LEMMA OneAuthChanges ==
    ASSUME HostShape, NEW h, NEW u, NEW a,
           host' = host \/ host' = [host EXCEPT ![h].auth = a] \/ host' = [host EXCEPT ![h].auth[u] = a]
    PROVE Keeps
<1>1. CASE host' = host
  BY <1>1, Unchanging
<1>2. ASSUME NEW b, host' = [host EXCEPT ![h] = [host[h] EXCEPT !.auth = b]] PROVE Keeps
  <2> DEFINE x == [host[h] EXCEPT !.auth = b]
  <2>1. IsHost(host[h]) => x = HostOf(b, host[h].tmp, host[h].dropIn, host[h].keyOnly)
    BY HostFields, Zenon
  <2>2. host' = [host EXCEPT ![h] = x]
    BY <1>2
  <2> HIDE DEF x
  <2> QED
    BY <2>1, <2>2, SwitchesStay
<1> QED
  BY <1>1, <1>2

LEMMA OneTmpChanges ==
    ASSUME HostShape, NEW h, NEW u, NEW a, host' = [host EXCEPT ![h].tmp[u] = a]
    PROVE Keeps
<1> DEFINE b == [host[h].tmp EXCEPT ![u] = a]
           x == [host[h] EXCEPT !.tmp = b]
<1>1. host' = [host EXCEPT ![h] = x]
  OBVIOUS
<1> HIDE DEF b
<1>2. IsHost(host[h]) => x = HostOf(host[h].auth, b, host[h].dropIn, host[h].keyOnly)
  BY HostFields, Zenon
<1> HIDE DEF x
<1> QED
  BY <1>1, <1>2, SwitchesStay

LEMMA ScriptKeeps ==
    ASSUME HostShape, NEW p \in Runs, NEW w \in Places,
           ScriptInstalls(p, w) \/ ScriptCalls(p, w) \/ ScriptConfirms(p, w)
    PROVE Keeps
<1>1. CASE host' = host
  BY <1>1, OneAuthChanges
<1>2. CASE host' = PosixScript(w[1], w[2], BuildScripts(p).key)
  BY <1>2, OneAuthChanges DEF PosixScript
<1>3. CASE host' = WindowsScript(w[1], w[2], BuildScripts(p).key)
  BY <1>3, OneAuthChanges DEF WindowsScript
<1> QED
  BY <1>1, <1>2, <1>3 DEF ScriptInstalls, ScriptCalls, ScriptConfirms

\* What a run does to the hosts.
LEMMA RunHosts ==
    ASSUME HostShape, NEW p \in Runs, RunStep(p)
    PROVE \/ Keeps
          \/ HardenWrites(p) /\ KeyProved(p) /\ host' = [host EXCEPT ![run[p].host].dropIn = TRUE]
          \/ host' = Reloaded(run[p].host)
<1>1. host' = host => Keeps
  BY OneAuthChanges
<1>2. CASE CopyIDAppends(p)
  <2>1. host' = host \/ host' = [host EXCEPT ![run[p].host].auth[run[p].user] =
                                               @ \cup {files[run[p].path].pub}]
    BY <1>2 DEF CopyIDAppends
  <2> QED
    BY <2>1, OneAuthChanges
<1>3. CASE Copies(p) /\ ~CopyIDRenames(p)
  <2>1. \/ host' = host
        \/ \E a : host' = [host EXCEPT ![run[p].host].auth[run[p].user] = a]
        \/ \E t : host' = [host EXCEPT ![run[p].host].tmp[run[p].user] = t]
    BY <1>3, Zenon DEF Copies, CopyIDTruncates, CopyIDReads, CopyIDWrites, CopyIDExits, CopyIDBreaks, TrapRemoves
  <2>2. ASSUME NEW a, host' = [host EXCEPT ![run[p].host].auth[run[p].user] = a] PROVE Keeps
    BY <2>2, OneAuthChanges
  <2>3. ASSUME NEW t, host' = [host EXCEPT ![run[p].host].tmp[run[p].user] = t] PROVE Keeps
    BY <2>3, OneTmpChanges
  <2> QED
    BY <1>1, <2>1, <2>2, <2>3
<1>4. CASE CopyIDRenames(p)
  <2>1. ASSUME NEW lines, host' = [host EXCEPT ![run[p].host].auth[run[p].user] = lines,
                                              ![run[p].host].tmp[run[p].user] = {}]
        PROVE Keeps
    <3> DEFINE x == run[p].host
               a == [host[x].auth EXCEPT ![run[p].user] = lines]
               t == [host[x].tmp EXCEPT ![run[p].user] = {}]
               new == [host[x] EXCEPT !.auth = a, !.tmp = t]
    <3>1. x \in Targets => host' = [host EXCEPT ![x] = new]
      BY <2>1, ZenonT(30) DEF HostShape, IsHost
    <3>2. x \notin Targets => host' = host
      BY <2>1 DEF HostShape
    <3> HIDE DEF a, t
    <3>3. IsHost(host[x]) => new = HostOf(a, t, host[x].dropIn, host[x].keyOnly)
      BY HostFields, ZenonT(30)
    <3> HIDE DEF new, x
    <3> QED
      BY <3>1, <3>2, <3>3, SwitchesStay, Unchanging
  <2> QED
    BY <1>1, <1>4, <2>1 DEF CopyIDRenames
<1>5. CASE HardenWrites(p) \/ HardenReloads(p)
  BY <1>1, <1>5 DEF HardenWrites, HardenReloads
<1>6. CASE Moves(p) /\ ~Copies(p) /\ ~HardenWrites(p) /\ ~HardenReloads(p)
  BY <1>1, <1>6, Zenon
     DEF Moves, Inspect, RememberKeyFile, WritePrivate, WritePublic, NoToken, PublishWithCallback,
         PublishNoCallback, WaitForPairCallbackRetry, GenKeyLoads, ProvisionLoads, SaveKeyPath,
         ToolSavesKeyPath, SavePaired, SaveProvisioned
<1>7. CASE Learns(p) /\ ~CopyIDAppends(p)
  BY <1>1, <1>7, Zenon
     DEF Learns, PairStarts, PreparePairKey, PairKeyGenerated, TakeReport, VerifyReported,
         VerifyNoCallback, GenKeyStarts, HandleGenKeyStarts, ProvisionStarts, StartGeneration,
         CopyIDStarts, TestKey
<1> QED
  BY <1>2, <1>3, <1>4, <1>5, <1>6, <1>7 DEF RunStep

\* A proof is made once.
LEMMA ProofStays ==
    ASSUME RunShape, UnprovedInv, NEW p \in Runs, RunStep(p)
    PROVE /\ run'[p].pc \notin Late => run'[p].proved = NoProof
          /\ run[p].proved # NoProof => run'[p].proved = run[p].proved
<1>0. IsRun(run[p]) /\ DOMAIN run = Runs
  BY DEF RunShape, IsRun
<1>1. CASE Moves(p)
  <2>1. PICK s \in PCs : run' = [run EXCEPT ![p].pc = s]
    BY <1>1, MovesOn
  <2>2. run[p].pc \in Late => s \in Late
    <3>1. s = run'[p].pc
      BY <1>0, <2>1 DEF IsRun
    <3>2. CASE \/ WaitForPairCallbackRetry(p) \/ HardenWrites(p) \/ HardenReloads(p) \/ SavePaired(p)
               \/ SaveProvisioned(p) \/ SaveKeyPath(p) \/ ToolSavesKeyPath(p)
      <4>1. \E e \in Late : run' = [run EXCEPT ![p].pc = e]
        BY <3>2, Zenon DEF Late, WaitForPairCallbackRetry, HardenWrites, HardenReloads, SavePaired, SaveProvisioned,
             SaveKeyPath, ToolSavesKeyPath, SaveFails, PairEnds
      <4> QED
        BY <1>0, <3>1, <4>1 DEF IsRun
    <3>3. CASE ~(\/ WaitForPairCallbackRetry(p) \/ HardenWrites(p) \/ HardenReloads(p) \/ SavePaired(p)
                 \/ SaveProvisioned(p) \/ SaveKeyPath(p) \/ ToolSavesKeyPath(p))
      <4>1. Copies(p) => CopyMove(p)
        BY CopiesMove
      <4> QED
        BY <1>1, <3>3, <4>1, Zenon DEF CopyMove, Late, Moves, Inspect, RememberKeyFile, WritePrivate, WritePublic, NoToken,
           PublishWithCallback, PublishNoCallback, GenKeyLoads, ProvisionLoads
    <3> QED
      BY <3>2, <3>3
  <2>3. run'[p].proved = run[p].proved /\ run'[p].pc = s
    BY <1>0, <2>1 DEF IsRun
  <2> QED
    BY <2>2, <2>3 DEF UnprovedInv
<1>2. CASE Learns(p)
  <2>1. run[p].pc \notin Late
    BY <1>2, Zenon DEF Late, Learns, PairStarts, PreparePairKey, PairKeyGenerated, TakeReport, VerifyReported,
         VerifyNoCallback, GenKeyStarts, HandleGenKeyStarts, ProvisionStarts, StartGeneration,
         CopyIDStarts, CopyIDAppends, TestKey
  <2>2. run'[p].pc \in Late \/ run'[p].proved = run[p].proved
    BY <1>2, LearnsMore DEF Late
  <2> QED
    BY <2>1, <2>2, Zenon DEF UnprovedInv
<1> QED
  BY <1>1, <1>2 DEF RunStep

\* A reload closes no host but one with a drop-in.
LEMMA ReloadCloses ==
    ASSUME HostShape, NEW x, host' = Reloaded(x)
    PROVE HostShape' /\ \A h \in Targets : Closing(h)' => Closing(h)
<1> DEFINE new == [host[x] EXCEPT !.keyOnly = host[x].keyOnly \/ (host[x].dropIn /\ x \in Includes)]
<1>4. host' = [host EXCEPT ![x] = new]
  BY DEF Reloaded
<1>5. x \in Targets => /\ IsHost(new) /\ new.dropIn = host[x].dropIn
                       /\ new.keyOnly => host[x].keyOnly \/ host[x].dropIn
  <2> DEFINE k == host[x].keyOnly \/ (host[x].dropIn /\ x \in Includes)
             one == [host[x] EXCEPT !.keyOnly = k]
  <2>1. one = new /\ (k => host[x].keyOnly \/ host[x].dropIn)
    OBVIOUS
  <2> HIDE DEF k
  <2>2. x \in Targets => one = HostOf(host[x].auth, host[x].tmp, host[x].dropIn, k)
    BY HostFields, Zenon DEF HostShape
  <2> HIDE DEF one, new
  <2>3. x \in Targets => IsHost(one) /\ one.dropIn = host[x].dropIn /\ one.keyOnly = k
    BY <2>2, HostOfFields
  <2> QED
    BY <2>1, <2>3
<1> HIDE DEF new
<1>1. HostShape'
  BY <1>4, <1>5, HostChanges
<1>2. \A h \in Targets : /\ host'[h].dropIn = host[h].dropIn
                         /\ host'[h].keyOnly => host[h].keyOnly \/ host[h].dropIn
  BY <1>4, <1>5, HostChanges
<1> QED
  BY <1>1, <1>2 DEF Closing

\* Only a provision that has logged in with its key closes a host.
LEMMA RunCloses ==
    ASSUME HostShape, NEW p \in Runs, RunStep(p)
    PROVE /\ HostShape'
          /\ \A h \in Targets : Closing(h)' =>
               Closing(h) \/ (HardenWrites(p) /\ KeyProved(p) /\ h = run[p].host)
<1>1. CASE Keeps
  BY <1>1 DEF Keeps, Closing
<1>2. CASE host' = Reloaded(run[p].host)
  BY <1>2, ReloadCloses
<1>3. CASE HardenWrites(p) /\ KeyProved(p) /\ host' = [host EXCEPT ![run[p].host].dropIn = TRUE]
  <2> DEFINE new == [host[run[p].host] EXCEPT !.dropIn = TRUE]
  <2>1. host' = [host EXCEPT ![run[p].host] = new]
    BY <1>3
  <2>2. run[p].host \in Targets => IsHost(new)
    <3> DEFINE d == TRUE
               one == [host[run[p].host] EXCEPT !.dropIn = d]
    <3>1. one = new
      OBVIOUS
    <3> HIDE DEF d
    <3> DEFINE y == host[run[p].host]
    <3>2. run[p].host \in Targets => IsHost(y)
      BY DEF HostShape
    <3>3. one = [y EXCEPT !.dropIn = d]
      OBVIOUS
    <3> HIDE DEF one, new, y
    <3>4. run[p].host \in Targets => one = HostOf(y.auth, y.tmp, d, y.keyOnly)
      BY <3>2, <3>3, HostFields, Zenon
    <3> QED
      BY <3>1, <3>4, HostOfFields
  <2> HIDE DEF new
  <2>3. HostShape' /\ \A h \in Targets \ {run[p].host} : host'[h] = host[h]
    BY <2>1, <2>2, HostChanges
  <2> QED
    BY <1>3, <2>3 DEF Closing
<1> QED
  BY <1>1, <1>2, <1>3, RunHosts

\* A provision that closes its host has proved its key there.
LEMMA ClosesProved ==
    ASSUME EnrollInv, NEW p \in Runs, HardenWrites(p), KeyProved(p)
    PROVE run[p].proved # NoProof /\ run[p].proved.host = run[p].host
<1>1. run[p].pc = "harden" /\ run[p].user # NoUser
  BY DEF HardenWrites, KeyProved, LoginWith
<1>2. About(p) # NoProof /\ About(p).host = run[p].host
  BY <1>1 DEF About, NoProof
<1> QED
  BY <1>1, <1>2 DEF EnrollInv, ProvedInv

LEMMA RunClosed == ASSUME ClosedInv, NEW p \in Runs, RunStep(p) PROVE ClosedInv'
<1>1. EnrollInv'
  BY MovesInv, LearnsInv DEF ClosedInv, RunStep
<1>2. \A q \in Runs \ {p} : run'[q] = run[q]
  BY OneRunMoves DEF ClosedInv, EnrollInv
<1>3. /\ run'[p].pc \notin Late => run'[p].proved = NoProof
      /\ run[p].proved # NoProof => run'[p].proved = run[p].proved
  BY ProofStays DEF ClosedInv, EnrollInv
<1>4. UnprovedInv'
  BY <1>2, <1>3 DEF ClosedInv, UnprovedInv
<1>5. \A q \in Runs : run[q].proved # NoProof => run'[q].proved = run[q].proved
  BY <1>2, <1>3
<1>6. HostShape' /\ \A h \in Targets : Closing(h)' =>
        Closing(h) \/ (run[p].proved # NoProof /\ run[p].proved.host = h)
  BY RunCloses, ClosesProved DEF ClosedInv
<1>7. ClosedAfterProof'
  BY <1>5, <1>6 DEF ClosedInv, ClosedAfterProof, Closing
<1> QED
  BY <1>1, <1>4, <1>6, <1>7 DEF ClosedInv

\* The other steps close nothing.
LEMMA OtherCloses ==
    ASSUME HostShape, [EnrollmentNext]_enrollmentVars, ~\E p \in Runs : RunStep(p)
    PROVE HostShape' /\ \A h \in Targets : Closing(h)' => Closing(h)
<1>1. \/ \E p \in Runs, w \in Places : ScriptInstalls(p, w) \/ ScriptCalls(p, w) \/ ScriptConfirms(p, w)
      \/ \E x \in Targets : host' = Reloaded(x)
      \/ host' = host
  BY DEF EnrollmentNext, enrollmentVars, SshdRestarts, EditRecord, RunStep, Moves, Learns, Copies
<1>2. CASE \E x \in Targets : host' = Reloaded(x)
  BY <1>2, ReloadCloses
<1>3. CASE Keeps
  BY <1>3 DEF Keeps, Closing
<1> QED
  BY <1>1, <1>2, <1>3, ScriptKeeps, OneAuthChanges

LEMMA ClosedStep == ClosedInv /\ [EnrollmentNext]_enrollmentVars => ClosedInv'
<1> SUFFICES ASSUME ClosedInv, [EnrollmentNext]_enrollmentVars PROVE ClosedInv'
  OBVIOUS
<1>1. CASE \E p \in Runs : RunStep(p)
  BY <1>1, RunClosed
<1>2. CASE ~\E p \in Runs : RunStep(p)
  <2>1. UNCHANGED <<plan, run>>
    BY <1>2, EnrollmentMoves
  <2>2. EnrollInv' /\ UnprovedInv'
    BY <2>1 DEF ClosedInv, EnrollInv, RunShape, ProvedInv, About, Generates, UnprovedInv
  <2>3. HostShape' /\ \A h \in Targets : Closing(h)' => Closing(h)
    BY <1>2, OtherCloses DEF ClosedInv
  <2>4. ClosedAfterProof'
    BY <2>1, <2>3 DEF ClosedInv, ClosedAfterProof, Closing
  <2> QED
    BY <2>2, <2>3, <2>4 DEF ClosedInv
<1> QED
  BY <1>1, <1>2

LEMMA ClosedStart == EnrollmentInit => ClosedInv
<1> SUFFICES ASSUME EnrollmentInit PROVE ClosedInv
  OBVIOUS
<1>1. \A h \in Targets : host[h] = [auth |-> [u \in Users |-> {}], tmp |-> [u \in Users |-> {}],
                                   dropIn |-> FALSE, keyOnly |-> FALSE]
  BY DEF EnrollmentInit
<1>2. HostShape /\ ClosedAfterProof
  <2>1. host = [h \in Targets |-> host[h]]
    BY DEF EnrollmentInit
  <2>2. \A h \in Targets : IsHost(host[h]) /\ ~host[h].dropIn /\ ~host[h].keyOnly
    BY <1>1 DEF IsHost
  <2> QED
    BY <2>1, <2>2 DEF HostShape, ClosedAfterProof, Closing
<1>3. UnprovedInv
  BY DEF EnrollmentInit, UnprovedInv
<1> QED
  BY <1>2, <1>3, EnrollStart DEF ClosedInv

\* Password login goes off, or a drop-in for it is written, only on a host where
\* a run has logged in with its key, for any number of commands and restarts of
\* sshd; that the key goes on to work is ClosedHostsReachable (runProvision,
\* hardenDisablePassword).
THEOREM ClosesAfterProof == EnrollmentSpec => []ClosedAfterProof
<1>1. ClosedInv => ClosedAfterProof
  BY DEF ClosedInv
<1> QED
  BY <1>1, ClosedStart, ClosedStep, PTL DEF EnrollmentSpec

-----------------------------------------------------------------------------
(* The key of a closed host.  Until a provision has saved its record       *)
(* nobody else knows the path of its key, and who learns it then neither   *)
(* makes a key there nor removes one; the host keeps the key listed,       *)
(* because every copy of authorized_keys that could replace the file has   *)
(* it too; and what signs with it stays: the store's entry, the agent, or  *)
(* no passphrase at all.                                                   *)

Prov(p) == plan[p].op = "provision"

\* No other command generates a key at the path of a provision.
Apart == \A p, q \in Runs : Prov(p) /\ plan[q].op # "copyID" /\ plan[p].path = plan[q].path => p = q

Making == {"inspect", "protect", "write", "writePub", "generated"}
Copying == {"append", "dedupe", "awkReads", "awkWrites", "rename", "mvFailed", "exit", "test"}
Rewriting == {"awkReads", "awkWrites", "rename"}
Begun == Rewriting \cup {"mvFailed", "exit", "test"}
ProvSteps == {"start", "harden", "reload", "save", "done", "failed"} \cup Making \cup Copying

\* What the proof needs of the types.
PathType == \A r \in Runs : /\ run[r].path \in Paths \cup {"none"}
                            /\ run[r].pc \notin {"start", "failed"} => run[r].path \in Paths
UserType == conf.user \in User /\ \A r \in Runs : run[r].user \in User
ConfShape == conf = [present |-> conf.present, host |-> conf.host, user |-> conf.user,
                     auth |-> conf.auth, path |-> conf.path]
             /\ conf.path \in Paths \cup {"none"}
FilesShape == files = [y \in Paths |-> [priv |-> files[y].priv, pub |-> files[y].pub]]
StoreShape == store = [on |-> store.on, key |-> [y \in Paths |-> store.key[y]]]
LinesShape == \A h \in Targets : /\ host[h].auth = [u \in Users |-> host[h].auth[u]]
                                 /\ host[h].tmp = [u \in Users |-> host[h].tmp[u]]
StepsInv == \A r \in Runs : /\ run[r].pc \in Copying => plan[r].op \in {"copyID", "provision"}
                            /\ run[r].pc \in {"harden", "reload"} => Prov(r)
                            /\ Prov(r) => run[r].pc \in ProvSteps
                            /\ run[r].pc = "start" => ~run[r].gen /\ run[r].path = "none" /\ run[r].pub = NoKey

\* Nobody knows the path of a provision before its record is saved, and who
\* knows it later makes no key there and removes none.
Hidden(p) == \/ run[p].pc = "done"
             \/ conf.path # plan[p].path /\ \A r \in Runs \ {p} : run[r].path # plan[p].path
Guests(p) == \A r \in Runs \ {p} : run[r].path = plan[p].path =>
                 run[r].pc \notin Making /\ ~run[r].gen /\ ~Generates(r)
Home(p) == run[p].pc # "start" => run[p].path = plan[p].path

\* Its key is where it was put, and nowhere else.
MadeSteps == {"generated", "harden", "reload", "save", "done"} \cup Copying
Made(p) == run[p].pc \in MadeSteps \/ run[p].proved # NoProof
Kept(p) ==
    /\ run[p].pc = "writePub" \/ Made(p) => files[plan[p].path].priv = p
    /\ Made(p) => files[plan[p].path].pub = p
    /\ store.key[plan[p].path] \in {NoKey, p}
    /\ \A y \in Paths \ {plan[p].path} : files[y].pub # p /\ store.key[y] # p
    /\ \A r \in Runs \ {p} : run[r].pub = p => run[r].path = plan[p].path
    /\ \A w \in Places : script[p][w].pc = "idle"

\* One command at a time rewrites the file of a user, and its awk writes to the
\* temporary file or, once that was removed, to nothing.
Of(q, g, u) == run[q].host = g /\ run[q].user = u
One(g, u) ==
    /\ \A q, r \in Runs : Rewrites(q) /\ Of(q, g, u) /\ Rewrites(r) /\ Of(r, g, u) => q = r
    /\ \A q \in Runs : run[q].pc \in {"awkReads", "awkWrites"} /\ Of(q, g, u) =>
          awk[q].out = "tmp" \/ (awk[q].out = "gone" /\ host[g].tmp[u] = {})
AwkForm ==
    /\ awk = [q \in Runs |-> [lines |-> awk[q].lines, out |-> awk[q].out]]
    /\ \A q \in Runs : awk[q].out \in Outputs
AwkInv ==
    /\ AwkForm
    /\ \A g \in Targets, u \in Users : <<g, u>> \notin clashed => One(g, u)

\* The host has the key, also in what is about to replace authorized_keys.
Carried(p, q, g, u) ==
    /\ run[q].pc = "awkWrites" => p \in awk[q].lines
    /\ run[q].pc = "rename" => \A lines \in host[g].tmp[u] : p \in lines
Listed(p, g, u) == p \in host[g].auth[u] /\ \A q \in Runs : Of(q, g, u) => Carried(p, q, g, u)
Tidy(p, g, u) == p \in host[g].auth[u] => Listed(p, g, u)
Lines(p) ==
    run[p].pc \in Begun => \A g \in Targets, u \in Users :
                              Of(p, g, u) /\ <<g, u>> \notin clashed => Tidy(p, g, u)
Signs(p) == \/ store.on /\ store.key[plan[p].path] = p
            \/ plan[p].protect = "plain" \/ p \in agent
Proved(p, g, u) == run[p].proved.host = g /\ run[p].proved.user = u
Works(p) ==
    run[p].proved # NoProof =>
        /\ run[p].proved.path = plan[p].path /\ run[p].proved.user \in Users /\ Signs(p)
        /\ \A g \in Targets, u \in Users :
              Proved(p, g, u) /\ <<g, u>> \notin clashed => Listed(p, g, u)

ProvInv(p) == Hidden(p) /\ Guests(p) /\ Home(p) /\ Kept(p) /\ Lines(p) /\ Works(p)

ClosedByProvision ==
    \A h \in Targets : Closing(h) =>
        \E p \in Runs : Prov(p) /\ run[p].proved # NoProof /\ run[p].proved.host = h

KeyTypes == plan \in Scenarios /\ PathType /\ UserType /\ ConfShape /\ FilesShape /\ StoreShape /\ LinesShape
            /\ AwkInv

KeyInv == EnrollInv /\ ReportType /\ KeyTypes /\ StepsInv

\* What the steps do: moves change where a run is, and nothing else of it.
LEMMA MovesKeep ==
    ASSUME RunShape, NEW r \in Runs, Moves(r)
    PROVE /\ run[r].pc # "start" /\ run'[r].pc \in PCs \ {"start"}
          /\ run'[r] = [run[r] EXCEPT !.pc = run'[r].pc]
          /\ run'[r].path = run[r].path /\ run'[r].user = run[r].user /\ run'[r].host = run[r].host
          /\ run'[r].gen = run[r].gen /\ run'[r].pub = run[r].pub /\ run'[r].proved = run[r].proved
<1>0. IsRun(run[r]) /\ DOMAIN run = Runs
  BY DEF RunShape, IsRun
<1>1. PICK s \in PCs \ {"start"} : run' = [run EXCEPT ![r].pc = s]
  BY MovesOn
<1>2. run'[r] = [run[r] EXCEPT !.pc = s]
  BY <1>0, <1>1, Zenon
<1>4. Copies(r) => CopyMove(r)
  BY CopiesMove
<1>3. run[r].pc # "start"
  BY <1>4, Zenon DEF CopyMove, Moves, Inspect, RememberKeyFile, WritePrivate, WritePublic, NoToken, PublishWithCallback,
         PublishNoCallback, WaitForPairCallbackRetry, GenKeyLoads, ProvisionLoads, SaveKeyPath,
         ToolSavesKeyPath, HardenWrites, HardenReloads, SavePaired, SaveProvisioned
<1> QED
  BY <1>0, <1>1, <1>2, <1>3 DEF IsRun

\* A command begins at its own path or at that of the record.
Begins(r) ==
    /\ run[r].pc = "start" /\ run'[r].gen = run[r].gen /\ run'[r].pub = run[r].pub
    /\ run'[r].proved = run[r].proved
    /\ \/ plan[r].op # "copyID" /\ run'[r].path = plan[r].path
          /\ run'[r].pc \in {"prepare", "inspect", "failed"}
       \/ /\ plan[r].op \in {"pair", "pairNoCallback", "copyID"} /\ run'[r].path = conf.path
          /\ run'[r].pc \in {"prepare", "append", "failed"}
          /\ run'[r].pc # "failed" => conf.path # "none"
    /\ run'[r].pc = "append" => plan[r].op = "copyID"
    /\ run'[r].pc = "prepare" => plan[r].op \in {"pair", "pairNoCallback"}
    /\ run'[r].user \in User

LEMMA StartsBegin ==
    ASSUME KeyInv, NEW r \in Runs,
           PairStarts(r) \/ GenKeyStarts(r) \/ HandleGenKeyStarts(r) \/ ProvisionStarts(r) \/ CopyIDStarts(r)
    PROVE Begins(r)
<1>0. IsRun(run[r]) /\ DOMAIN run = Runs
  BY DEF KeyInv, EnrollInv, RunShape, IsRun
<1>1. conf.user \in User /\ plan[r].user \in User /\ Users \subseteq User /\ plan[r] \in Plan
  BY EnrollmentAssumption DEF KeyInv, KeyTypes, UserType, User, Plan
<1>2. CASE PairStarts(r)
  <2>1. run[r].pc = "start" /\ plan[r].op \in {"pair", "pairNoCallback"}
    BY <1>2, Zenon DEF PairStarts
  <2>2. ASSUME NEW s \in {"failed", "prepare"}, NEW cb, NEW u \in User, NEW path, NEW ex,
               path = plan[r].path \/ (path = conf.path /\ conf.path # "none"),
               run' = [run EXCEPT ![r] = [run[r] EXCEPT !.pc = s, !.cb = cb, !.host = plan[r].host, !.user = u,
                                                        !.path = path, !.exists = ex]]
        PROVE Begins(r)
    <3>1. run'[r] = [run[r] EXCEPT !.pc = s, !.cb = cb, !.host = plan[r].host, !.user = u,
                                                        !.path = path, !.exists = ex]
      BY <1>0, <2>2
    <3>2. /\ run'[r].pc = s /\ run'[r].user = u /\ run'[r].path = path
          /\ run'[r].gen = run[r].gen /\ run'[r].pub = run[r].pub /\ run'[r].proved = run[r].proved
      BY <1>0, <3>1, Zenon DEF IsRun
    <3> QED
      BY <2>1, <2>2, <3>2 DEF Begins
  <2>3. PICK given, listens, identity \in BOOLEAN, answer \in Users,
             found \in DiscoverCallbackHost, valid \in ValidateCallbackHost :
          LET cb == plan[r].op = "pair" /\ (given \/ found)
              known == IF plan[r].user # NoUser THEN plan[r].user ELSE conf.user
              user == IF known = NoUser /\ plan[r].op = "pair" /\ ~ cb THEN answer ELSE known
              refused == \/ ~ PairCandidate(r)
                         \/ cb /\ given /\ ~ valid
                         \/ cb /\ ~ listens
                         \/ plan[r].op = "pair" /\ ~ cb /\ ~ plan[r].terminal
                         \/ ~ cb /\ user = NoUser
          IN run' = [run EXCEPT ![r] =
                       [run[r] EXCEPT !.pc = IF refused THEN "failed" ELSE "prepare",
                                      !.cb = cb, !.host = plan[r].host, !.user = user,
                                      !.path = IF identity \/ conf.path = "none" THEN plan[r].path ELSE conf.path,
                                      !.exists = conf.present]]
    BY <1>2, Zenon DEF PairStarts
  <2> DEFINE cb == plan[r].op = "pair" /\ (given \/ found)
             known == IF plan[r].user # NoUser THEN plan[r].user ELSE conf.user
             user == IF known = NoUser /\ plan[r].op = "pair" /\ ~ cb THEN answer ELSE known
             refused == \/ ~ PairCandidate(r)
                        \/ cb /\ given /\ ~ valid
                        \/ cb /\ ~ listens
                        \/ plan[r].op = "pair" /\ ~ cb /\ ~ plan[r].terminal
                        \/ ~ cb /\ user = NoUser
             s == IF refused THEN "failed" ELSE "prepare"
             path == IF identity \/ conf.path = "none" THEN plan[r].path ELSE conf.path
  <2>4. run' = [run EXCEPT ![r] = [run[r] EXCEPT !.pc = s, !.cb = cb, !.host = plan[r].host, !.user = user,
                                                 !.path = path, !.exists = conf.present]]
    BY <2>3
  <2>5. s \in {"failed", "prepare"} /\ user \in User
    BY <1>1
  <2>6. path = plan[r].path \/ (path = conf.path /\ conf.path # "none")
    OBVIOUS
  <2> HIDE DEF s, user, path, cb
  <2> QED
    BY <2>2, <2>4, <2>5, <2>6, ZenonT(30)
<1>3. CASE GenKeyStarts(r) \/ HandleGenKeyStarts(r) \/ ProvisionStarts(r)
  <2>1. PICK ok \in PassphraseAvailable(r) :
          run' = [run EXCEPT ![r] = [run[r] EXCEPT !.pc = IF conf.present /\ ok THEN "inspect" ELSE "failed",
                                                   !.host = conf.host, !.user = conf.user,
                                                   !.path = plan[r].path]]
    BY <1>3, ZenonT(30) DEF GenKeyStarts, HandleGenKeyStarts, ProvisionStarts, StartGeneration
  <2>2. run[r].pc = "start" /\ plan[r].op # "copyID"
    BY <1>3, Zenon DEF GenKeyStarts, HandleGenKeyStarts, ProvisionStarts, StartGeneration
  <2>3. /\ run'[r].pc \in {"inspect", "failed"} /\ run'[r].user = conf.user /\ run'[r].path = plan[r].path
        /\ run'[r].gen = run[r].gen /\ run'[r].pub = run[r].pub /\ run'[r].proved = run[r].proved
    BY <1>0, <2>1 DEF IsRun
  <2> QED
    BY <1>1, <2>2, <2>3, Zenon DEF Begins
<1>4. CASE CopyIDStarts(r)
  <2>1. run[r].pc = "start" /\ plan[r].op = "copyID"
    BY <1>4 DEF CopyIDStarts
  <2>2. /\ run'[r].pc \in {"append", "failed"} /\ run'[r].user = conf.user /\ run'[r].path = conf.path
        /\ run'[r].pc = "append" => conf.path # "none"
        /\ run'[r].gen = run[r].gen /\ run'[r].pub = run[r].pub /\ run'[r].proved = run[r].proved
    BY <1>0, <1>4 DEF IsRun, CopyIDStarts
  <2> QED
    BY <1>1, <2>1, <2>2 DEF Begins
<1> QED
  BY <1>2, <1>3, <1>4

\* A command goes on at its path.
GoesOn(r) ==
    /\ run[r].pc \notin {"start", "done", "failed"} /\ run'[r].path = run[r].path
    /\ run'[r].user \in User /\ run'[r].pub \in {run[r].pub, files[run[r].path].pub, store.key[run[r].path]}
    /\ run'[r].gen = run[r].gen \/ run[r].pc = "generated"
    /\ run'[r].pc \in Making => run[r].pc \in Making \/ (run[r].pc = "prepare" /\ ~Exists(run[r].path))
    /\ run'[r].pc \in Copying => plan[r].op \in {"copyID", "provision"}
    /\ run'[r].pc \in {"harden", "reload"} => Prov(r)
    /\ Prov(r) => run'[r].pc \in ProvSteps
    /\ run'[r].pc # "start"
    /\ Copies(r) \/ run'[r].pc \notin Rewriting

LEMMA MovesGo == ASSUME KeyInv, NEW r \in Runs, Moves(r) PROVE GoesOn(r)
<1>0. IsRun(run[r]) /\ DOMAIN run = Runs /\ RunShape
  BY DEF KeyInv, EnrollInv, RunShape, IsRun
<1>1. /\ run[r].pc # "start" /\ run'[r].pc # "start"
      /\ run'[r].path = run[r].path /\ run'[r].user = run[r].user
      /\ run'[r].gen = run[r].gen /\ run'[r].pub = run[r].pub
  BY <1>0, MovesKeep
<1>2. run[r].user \in User
  BY DEF KeyInv, KeyTypes, UserType
<1>3. StepsInv
  BY DEF KeyInv
<1>4. /\ run[r].pc \notin {"done", "failed"}
      /\ run'[r].pc \in Making => run[r].pc \in Making
      /\ run'[r].pc \in Copying => plan[r].op \in {"copyID", "provision"}
      /\ run'[r].pc \in {"harden", "reload"} => Prov(r)
      /\ Prov(r) => run'[r].pc \in ProvSteps
      /\ Copies(r) \/ run'[r].pc \notin Rewriting
  <2>1. ASSUME NEW s, run' = [run EXCEPT ![r].pc = s] PROVE run'[r].pc = s
    BY <1>0, <2>1 DEF IsRun
  <2>2. CASE Inspect(r) \/ RememberKeyFile(r) \/ WritePrivate(r) \/ WritePublic(r)
    <3>1. \E s \in Making \cup {"failed"} : run' = [run EXCEPT ![r].pc = s]
      BY <2>2 DEF Inspect, RememberKeyFile, WritePrivate, WritePublic, Making
    <3>2. run[r].pc \in Making
      BY <2>2 DEF Inspect, RememberKeyFile, WritePrivate, WritePublic, Making
    <3> QED
      BY <2>1, <3>1, <3>2 DEF Making, Copying, ProvSteps, Rewriting
  <2>3. CASE NoToken(r) \/ PublishWithCallback(r) \/ PublishNoCallback(r) \/ WaitForPairCallbackRetry(r)
    <3>1. run[r].pc \in {"publish", "grace"}
      BY <2>3 DEF NoToken, PublishWithCallback, PublishNoCallback, WaitForPairCallbackRetry
    <3>2. \E s \in {"failed", "wait", "verify", "done"} : run' = [run EXCEPT ![r].pc = s]
      BY <2>3 DEF NoToken, PublishWithCallback, PublishNoCallback, WaitForPairCallbackRetry, PairEnds
    <3>3. ~Prov(r)
      BY <1>3, <3>1 DEF StepsInv, ProvSteps, Making, Copying
    <3> QED
      BY <2>1, <3>1, <3>2, <3>3 DEF Making, Copying, Rewriting
  <2>4. CASE GenKeyLoads(r) \/ SaveKeyPath(r) \/ ToolSavesKeyPath(r) \/ SavePaired(r) \/ SaveProvisioned(r)
    <3>1. run[r].pc \in {"generated", "save"}
      BY <2>4 DEF GenKeyLoads, SaveKeyPath, ToolSavesKeyPath, SavePaired, SaveProvisioned
    <3>2. \E s \in {"failed", "save", "done", "grace"} :
             run' = [run EXCEPT ![r].pc = s] /\ (s = "grace" => ~Prov(r))
      BY <2>4 DEF GenKeyLoads, SaveKeyPath, ToolSavesKeyPath, SavePaired, SaveProvisioned, SaveFails, PairEnds, Prov
    <3> QED
      BY <2>1, <3>1, <3>2 DEF Making, Copying, ProvSteps, Rewriting
  <2>5. CASE ProvisionLoads(r)
    <3>1. run[r].pc = "generated" /\ Prov(r) /\ \E s \in {"failed", "append"} : run' = [run EXCEPT ![r].pc = s]
      BY <2>5, Zenon DEF ProvisionLoads, Prov
    <3> QED
      BY <2>1, <3>1 DEF Making, Copying, ProvSteps, Prov, Rewriting
  <2>6. CASE Copies(r)
    <3>0. CopyMove(r)
      BY <2>6, CopiesMove
    <3>1. run[r].pc \in Copying /\ \E s \in {"failed"} \cup Copying : run' = [run EXCEPT ![r].pc = s]
      BY <3>0, Zenon DEF CopyMove, Copying
    <3>2. plan[r].op \in {"copyID", "provision"}
      BY <1>3, <3>1 DEF StepsInv
    <3> QED
      BY <2>1, <2>6, <3>1, <3>2 DEF Making, Copying, ProvSteps, Rewriting
  <2>7. CASE HardenWrites(r) \/ HardenReloads(r)
    <3>1. run[r].pc \in {"harden", "reload"} /\ \E s \in {"reload", "save"} : run' = [run EXCEPT ![r].pc = s]
      BY <2>7 DEF HardenWrites, HardenReloads
    <3>2. Prov(r)
      BY <1>3, <3>1 DEF StepsInv
    <3> QED
      BY <2>1, <3>1, <3>2 DEF Making, Copying, ProvSteps, Rewriting
  <2> QED
    BY <2>2, <2>3, <2>4, <2>5, <2>6, <2>7 DEF Moves
<1> QED
  BY <1>1, <1>2, <1>4 DEF GoesOn

LEMMA LearnsGo ==
    ASSUME KeyInv, NEW r \in Runs,
           PreparePairKey(r) \/ PairKeyGenerated(r) \/ TakeReport(r) \/ VerifyReported(r) \/ VerifyNoCallback(r)
           \/ CopyIDAppends(r) \/ TestKey(r)
    PROVE GoesOn(r)
<1>0. IsRun(run[r]) /\ DOMAIN run = Runs
  BY DEF KeyInv, EnrollInv, RunShape, IsRun
<1>2. run[r].user \in User /\ StepsInv
  BY DEF KeyInv, KeyTypes, UserType
<1>3. CASE PreparePairKey(r)
  <2>1. run[r].pc = "prepare" /\ ~Prov(r)
    BY <1>2, <1>3 DEF PreparePairKey, StepsInv, ProvSteps, Making, Copying
  <2>2. /\ run'[r].path = run[r].path /\ run'[r].user = run[r].user /\ run'[r].gen = run[r].gen
        /\ run'[r].pub \in {run[r].pub, files[run[r].path].pub}
        /\ run'[r].pc \in {"publish", "failed", "inspect"}
        /\ run'[r].pc = "inspect" => ~Exists(run[r].path)
    BY <1>0, <1>3 DEF IsRun, PreparePairKey
  <2> QED
    BY <1>2, <2>1, <2>2 DEF GoesOn, Making, Copying, Rewriting
<1>4. CASE PairKeyGenerated(r)
  <2>1. run[r].pc = "generated" /\ ~Prov(r)
    BY <1>4, Zenon DEF PairKeyGenerated, Prov
  <2>2. ASSUME NEW s \in {"publish", "failed"}, NEW k \in {files[run[r].path].pub, store.key[run[r].path]}, NEW g,
               run' = [run EXCEPT ![r].pc = s, ![r].pub = k, ![r].gen = g]
        PROVE GoesOn(r)
    <3>1. /\ run'[r].path = run[r].path /\ run'[r].user = run[r].user
          /\ run'[r].pub = k /\ run'[r].pc = s
      BY <1>0, <2>2 DEF IsRun
    <3> QED
      BY <1>2, <2>1, <3>1 DEF GoesOn, Making, Copying, Rewriting
  <2>3. CASE run' = [run EXCEPT ![r].pc = IF ManagedPairKey(run[r].path) THEN "publish" ELSE "failed",
                                ![r].pub = store.key[run[r].path], ![r].gen = ManagedPairKey(run[r].path)]
    <3> DEFINE s == IF ManagedPairKey(run[r].path) THEN "publish" ELSE "failed"
    <3>1. s \in {"publish", "failed"}
      OBVIOUS
    <3> QED
      BY <2>2, <2>3, <3>1
  <2>4. ASSUME NEW ok, run' = [run EXCEPT ![r].pc = IF ok THEN "publish" ELSE "failed",
                                          ![r].pub = files[run[r].path].pub, ![r].gen = ok]
        PROVE GoesOn(r)
    <3> DEFINE s == IF ok THEN "publish" ELSE "failed"
    <3>1. s \in {"publish", "failed"}
      OBVIOUS
    <3> QED
      BY <2>2, <2>4, <3>1
  <2> QED
    BY <1>4, <2>3, <2>4, ZenonT(30) DEF PairKeyGenerated
<1>5. CASE TakeReport(r) \/ VerifyReported(r) \/ VerifyNoCallback(r)
  <2>1. run[r].pc \in {"wait", "verify"} /\ ~Prov(r)
    BY <1>2, <1>5, Zenon DEF TakeReport, VerifyReported, VerifyNoCallback, StepsInv, ProvSteps, Making, Copying
  <2>2. \E v : \E s \in {"failed", "verify", "save"}, u \in User :
           run' = [run EXCEPT ![r] = [run[r] EXCEPT !.pc = s, !.user = u, !.proved = v]]
    <3>1. CASE PairEnds(r)
      <4>1. run' = [run EXCEPT ![r] = [run[r] EXCEPT !.pc = "failed", !.user = run[r].user, !.proved = run[r].proved]]
        BY <1>0, <3>1 DEF PairEnds, IsRun
      <4> QED
        BY <1>2, <4>1, Zenon
    <3>2. CASE Verified(r)
      <4>1. Account[run[r].user] \in User
        BY <1>2, <3>2, EnrollmentAssumption DEF Verified, LoginWith, User
      <4> QED
        BY <3>2, <4>1, Zenon DEF Verified
    <3>3. CASE run' = [run EXCEPT ![r].pc = "verify", ![r].user = hook[r].accepted[2]]
      <4>1. hook[r].accepted[2] \in User
        <5>1. hook[r].accepted \in Places \cup {NoReport}
          BY DEF KeyInv, ReportType, Hook
        <5> QED
          BY <5>1, EnrollmentAssumption DEF NoReport, User
      <4> DEFINE u == hook[r].accepted[2]
      <4>2. run' = [run EXCEPT ![r].pc = "verify", ![r].user = u]
        BY <3>3
      <4> HIDE DEF u
      <4>3. run' = [run EXCEPT ![r] = [run[r] EXCEPT !.pc = "verify", !.user = u, !.proved = run[r].proved]]
        BY <1>0, <4>2 DEF IsRun
      <4> QED
        BY <4>1, <4>3, Zenon DEF u
    <3> QED
      BY <1>5, <3>1, <3>2, <3>3, Zenon DEF TakeReport, VerifyReported, VerifyNoCallback
  <2>5. PICK v : \E s \in {"failed", "verify", "save"}, u \in User :
           run' = [run EXCEPT ![r] = [run[r] EXCEPT !.pc = s, !.user = u, !.proved = v]]
    BY <2>2, Zenon
  <2>3. PICK s \in {"failed", "verify", "save"}, u \in User :
           run' = [run EXCEPT ![r] = [run[r] EXCEPT !.pc = s, !.user = u, !.proved = v]]
    BY <2>5, Zenon
  <2>4. /\ run'[r].path = run[r].path /\ run'[r].user = u /\ run'[r].gen = run[r].gen
        /\ run'[r].pub = run[r].pub /\ run'[r].pc = s
    BY <1>0, <2>3 DEF IsRun
  <2> QED
    BY <2>1, <2>4 DEF GoesOn, Making, Copying, Rewriting
<1>6. CASE CopyIDAppends(r)
  <2>1. run[r].pc = "append" /\ plan[r].op \in {"copyID", "provision"}
    BY <1>2, <1>6 DEF CopyIDAppends, StepsInv, Copying
  <2>2. /\ run'[r].path = run[r].path /\ run'[r].user = run[r].user /\ run'[r].gen = run[r].gen
        /\ run'[r].pub \in {run[r].pub, files[run[r].path].pub} /\ run'[r].pc \in {"dedupe", "failed"}
    BY <1>0, <1>6 DEF IsRun, CopyIDAppends
  <2> QED
    BY <1>2, <2>1, <2>2 DEF GoesOn, Making, Copying, ProvSteps, Rewriting
<1>7. CASE TestKey(r)
  <2>1. run[r].pc = "test" /\ plan[r].op \in {"copyID", "provision"}
    BY <1>2, <1>7 DEF TestKey, StepsInv, Copying
  <2>2. /\ run'[r].path = run[r].path /\ run'[r].user = run[r].user /\ run'[r].gen = run[r].gen
        /\ run'[r].pub = run[r].pub /\ run'[r].pc \in {"done", "harden", "save", "failed"}
        /\ run'[r].pc = "harden" => plan[r].op # "copyID"
    <3>1. CASE run' = [run EXCEPT ![r].pc = "failed"]
      BY <1>0, <3>1 DEF IsRun
    <3>2. ASSUME NEW s, NEW v, run' = [run EXCEPT ![r] = [run[r] EXCEPT !.pc = s, !.proved = v]]
          PROVE /\ run'[r].path = run[r].path /\ run'[r].user = run[r].user /\ run'[r].gen = run[r].gen
                /\ run'[r].pub = run[r].pub /\ run'[r].pc = s
      BY <1>0, <3>2 DEF IsRun
    <3> DEFINE s == IF plan[r].op = "copyID" THEN "done" ELSE IF plan[r].harden THEN "harden" ELSE "save"
               v == [host |-> run[r].host, user |-> run[r].user, path |-> run[r].path]
    <3>3. run' = [run EXCEPT ![r].pc = "failed"] \/ run' = [run EXCEPT ![r] = [run[r] EXCEPT !.pc = s, !.proved = v]]
      BY <1>7 DEF TestKey
    <3>4. s \in {"done", "harden", "save", "failed"} /\ (s = "harden" => plan[r].op # "copyID")
      OBVIOUS
    <3> HIDE DEF s, v
    <3> QED
      BY <3>1, <3>2, <3>3, <3>4, Zenon
  <2> QED
    BY <1>2, <2>1, <2>2 DEF GoesOn, Making, Copying, ProvSteps, Prov, Rewriting
<1> QED
  BY <1>3, <1>4, <1>5, <1>6, <1>7

LEMMA RunGoes == ASSUME KeyInv, NEW r \in Runs, RunStep(r) PROVE Begins(r) \/ GoesOn(r)
BY MovesGo, LearnsGo, StartsBegin DEF RunStep, Learns

\* Who writes key files, and where.
FilesStep(r) ==
    \/ files' = files
    \/ /\ run[r].pc \notin {"start", "failed", "done"}
       /\ run[r].pc \in Making \/ run[r].gen \/ Generates(r)
       /\ \E a, b : /\ files' = [files EXCEPT ![run[r].path] = [priv |-> a, pub |-> b]]
                    /\ b \in {NoKey, r, files[run[r].path].pub}
                    /\ Prov(r) => run[r].pc \in {"write", "writePub"}

LEMMA PairFields ==
    ASSUME NEW y, y = [priv |-> y.priv, pub |-> y.pub], NEW k
    PROVE /\ [y EXCEPT !.priv = k] = [priv |-> k, pub |-> y.pub]
          /\ [y EXCEPT !.pub = k] = [priv |-> y.priv, pub |-> k]
OBVIOUS

LEMMA RunFiles == ASSUME KeyInv, NEW r \in Runs, RunStep(r) PROVE FilesStep(r)
<1> DEFINE x == run[r].path
<1>1. run[r].pc \notin {"start", "failed"} =>
        x \in Paths /\ files[x] = [priv |-> files[x].priv, pub |-> files[x].pub] /\ x \in DOMAIN files
  BY DEF KeyInv, KeyTypes, PathType, FilesShape
<1>2. ASSUME RemoveGeneratedKeyPair(x), run[r].pc \notin {"start", "failed", "done"},
             run[r].pc \in Making \/ run[r].gen \/ Generates(r), ~Prov(r)
      PROVE FilesStep(r)
  BY <1>2 DEF FilesStep, RemoveGeneratedKeyPair
<1>3. CASE WritePrivate(r)
  <2>1. run[r].pc = "write" /\ (files' = files \/ files' = [files EXCEPT ![x].priv = r])
    BY <1>3 DEF WritePrivate
  <2>2. [files[x] EXCEPT !.priv = r] = [priv |-> r, pub |-> files[x].pub]
    BY <1>1, <2>1, PairFields
  <2>3. files' = files \/ files' = [files EXCEPT ![x] = [priv |-> r, pub |-> files[x].pub]]
    BY <2>1, <2>2
  <2> QED
    BY <2>1, <2>3 DEF FilesStep, Making
<1>4. CASE WritePublic(r)
  <2>1. run[r].pc = "writePub" /\ (files' = [files EXCEPT ![x].pub = r] \/ files' = [files EXCEPT ![x].priv = NoKey])
    BY <1>4 DEF WritePublic
  <2>2. /\ [files[x] EXCEPT !.pub = r] = [priv |-> files[x].priv, pub |-> r]
        /\ [files[x] EXCEPT !.priv = NoKey] = [priv |-> NoKey, pub |-> files[x].pub]
    BY <1>1, <2>1, PairFields
  <2>3. \/ files' = [files EXCEPT ![x] = [priv |-> files[x].priv, pub |-> r]]
        \/ files' = [files EXCEPT ![x] = [priv |-> NoKey, pub |-> files[x].pub]]
    BY <2>1, <2>2
  <2> QED
    BY <2>1, <2>3 DEF FilesStep, Making
<1>5. ASSUME PairEnds(r), run[r].pc \in {"publish", "wait", "verify", "save"}, ~Prov(r) PROVE FilesStep(r)
  BY <1>2, <1>5 DEF PairEnds, FilesStep
<1>6. run[r].pc \in {"publish", "wait", "verify"} => ~Prov(r)
  BY DEF KeyInv, StepsInv, ProvSteps, Making, Copying
<1>7. CASE PublishWithCallback(r) \/ PublishNoCallback(r)
  <2>1. run[r].pc = "publish" /\ (files' = files \/ PairEnds(r))
    BY <1>7 DEF PublishWithCallback, PublishNoCallback, CommandPublished
  <2> QED
    BY <1>5, <1>6, <2>1 DEF FilesStep
<1>8. CASE TakeReport(r) \/ VerifyReported(r) \/ VerifyNoCallback(r)
  <2>1. run[r].pc \in {"wait", "verify"} /\ (files' = files \/ PairEnds(r))
    BY <1>8 DEF TakeReport, VerifyReported, VerifyNoCallback, Verified
  <2> QED
    BY <1>5, <1>6, <2>1 DEF FilesStep
<1>9. CASE SavePaired(r)
  <2>1. run[r].pc = "save" /\ ~Prov(r) /\ (files' = files \/ PairEnds(r))
    BY <1>9 DEF SavePaired, Prov
  <2> QED
    BY <1>5, <2>1 DEF FilesStep
<1>10. CASE SaveKeyPath(r) \/ ToolSavesKeyPath(r)
  <2>1. run[r].pc = "save" /\ Generates(r) /\ ~Prov(r) /\ (files' = files \/ RemoveGeneratedKeyPair(x))
    BY <1>10 DEF SaveKeyPath, ToolSavesKeyPath, SaveFails, Generates, Prov
  <2> QED
    BY <1>2, <2>1 DEF FilesStep
<1>11. CASE NoToken(r)
  <2>1. run[r].pc = "publish" /\ (files' = files \/ (run[r].gen /\ RemoveGeneratedKeyPair(x)))
    BY <1>11 DEF NoToken
  <2> QED
    BY <1>2, <1>6, <2>1 DEF FilesStep
<1>12. CASE PairKeyGenerated(r)
  <2>1. run[r].pc = "generated" /\ ~Prov(r) /\ (files' = files \/ RemoveGeneratedKeyPair(x))
    BY <1>12, ZenonT(30) DEF PairKeyGenerated, Prov
  <2> QED
    BY <1>2, <2>1, Zenon DEF FilesStep, Making
<1>13. CASE Moves(r) /\ ~WritePrivate(r) /\ ~WritePublic(r) /\ ~PublishWithCallback(r) /\ ~PublishNoCallback(r)
                     /\ ~SavePaired(r) /\ ~SaveKeyPath(r) /\ ~ToolSavesKeyPath(r) /\ ~NoToken(r)
  <2>2. Copies(r) => files' = files
    BY CopiesMove DEF CopyMove
  <2>1. files' = files
    BY <1>13, <2>2, ZenonT(30) DEF Moves, Inspect, RememberKeyFile, WaitForPairCallbackRetry, GenKeyLoads,
         ProvisionLoads, HardenWrites, HardenReloads, SaveProvisioned
  <2> QED
    BY <2>1 DEF FilesStep
<1>14. CASE Learns(r) /\ ~PairKeyGenerated(r) /\ ~TakeReport(r) /\ ~VerifyReported(r) /\ ~VerifyNoCallback(r)
  <2>1. files' = files
    BY <1>14, Zenon DEF Learns, PairStarts, PreparePairKey, GenKeyStarts, HandleGenKeyStarts, ProvisionStarts,
         StartGeneration, CopyIDStarts, CopyIDAppends, TestKey
  <2> QED
    BY <2>1 DEF FilesStep
<1> QED
  BY <1>3, <1>4, <1>7, <1>8, <1>9, <1>10, <1>11, <1>12, <1>13, <1>14 DEF RunStep

\* The local store goes on and stays on, and a run saves its own key in it.
StoreStep(r) ==
    /\ store.on => store'.on
    /\ StoreShape'
    /\ \/ store'.key = store.key
       \/ run[r].pc = "protect" /\ store'.key = [store.key EXCEPT ![run[r].path] = r]

LEMMA RunStore == ASSUME KeyInv, NEW r \in Runs, RunStep(r) PROVE StoreStep(r) /\ agent \subseteq agent'
<1>0. StoreShape
  BY DEF KeyInv, KeyTypes
<1>1. store' = store => StoreStep(r)
  BY <1>0 DEF StoreStep, StoreShape
<1>2. ASSUME NEW ok, KeyPassphrase(r, ok) PROVE StoreStep(r)
  <2> DEFINE new == store.on \/ (ok /\ plan[r].protect = "auto")
  <2>1. store' = [store EXCEPT !.on = new] /\ (store.on => new)
    BY <1>2 DEF KeyPassphrase
  <2> HIDE DEF new
  <2>2. store'.on = new /\ store'.key = store.key /\ store' = [on |-> new, key |-> store.key]
    BY <1>0, <2>1 DEF StoreShape
  <2>3. StoreShape'
    <3>1. store'.key = [y \in Paths |-> store'.key[y]]
      BY <1>0, <2>2 DEF StoreShape
    <3> QED
      BY <2>2, <3>1 DEF StoreShape
  <2> QED
    BY <2>1, <2>2, <2>3 DEF StoreStep
<1>3. CASE RememberKeyFile(r)
  <2>3. agent' = agent
    BY <1>3 DEF RememberKeyFile
  <2>1. CASE store' = store
    BY <1>1, <2>1, <2>3
  <2>2. CASE store' = [store EXCEPT !.key[run[r].path] = r]
    <3> DEFINE new == [store.key EXCEPT ![run[r].path] = r]
    <3>1. store' = [store EXCEPT !.key = new]
      BY <2>2
    <3>2. new = [y \in Paths |-> new[y]]
      BY <1>0 DEF StoreShape
    <3> HIDE DEF new
    <3>3. store'.on = store.on /\ store'.key = new /\ store' = [on |-> store.on, key |-> new]
      BY <1>0, <3>1 DEF StoreShape
    <3>4. StoreShape'
      BY <3>2, <3>3 DEF StoreShape
    <3>5. run[r].pc = "protect"
      BY <1>3 DEF RememberKeyFile
    <3> QED
      BY <2>3, <3>3, <3>4, <3>5 DEF StoreStep, new
  <2> QED
    BY <1>3, <2>1, <2>2, <2>3 DEF RememberKeyFile
<1>4. CASE PreparePairKey(r) \/ GenKeyStarts(r) \/ HandleGenKeyStarts(r) \/ ProvisionStarts(r)
  <2>1. store' = store \/ \E ok : KeyPassphrase(r, ok)
    BY <1>4, ZenonT(30) DEF PreparePairKey, GenKeyStarts, HandleGenKeyStarts, ProvisionStarts, StartGeneration
  <2>2. agent' = agent
    BY <1>4, Zenon DEF PreparePairKey, GenKeyStarts, HandleGenKeyStarts, ProvisionStarts, StartGeneration
  <2> QED
    BY <1>1, <1>2, <2>1, <2>2, Zenon
<1>5. \A k, c : agent \subseteq StoreAndLoad(agent, r, k, c)
  BY DEF StoreAndLoad, SSHAddWithAskpass, AgentAdd
<1>6. CASE PairKeyGenerated(r) \/ GenKeyLoads(r) \/ ProvisionLoads(r)
  <2>1. store' = store
    BY <1>6, ZenonT(30) DEF PairKeyGenerated, GenKeyLoads, ProvisionLoads
  <2>2. agent' = agent \/ \E k, c : agent' = StoreAndLoad(agent, r, k, c)
    BY <1>6, ZenonT(30) DEF PairKeyGenerated, GenKeyLoads, ProvisionLoads
  <2> QED
    BY <1>1, <1>5, <2>1, <2>2, Zenon
<1>7. CASE Moves(r) /\ ~RememberKeyFile(r) /\ ~GenKeyLoads(r) /\ ~ProvisionLoads(r)
  <2>2. Copies(r) => store' = store /\ agent' = agent
    BY CopiesMove DEF CopyMove
  <2>1. store' = store /\ agent' = agent
    BY <1>7, <2>2, ZenonT(30) DEF Moves, Inspect, WritePrivate, WritePublic, NoToken, PublishWithCallback,
         PublishNoCallback, WaitForPairCallbackRetry, SaveKeyPath, ToolSavesKeyPath,
         HardenWrites, HardenReloads, SavePaired, SaveProvisioned
  <2> QED
    BY <1>1, <2>1
<1>8. CASE Learns(r) /\ ~PairKeyGenerated(r) /\ ~PreparePairKey(r) /\ ~GenKeyStarts(r)
                     /\ ~HandleGenKeyStarts(r) /\ ~ProvisionStarts(r)
  <2>1. store' = store /\ agent' = agent
    BY <1>8, Zenon DEF Learns, PairStarts, TakeReport, VerifyReported, VerifyNoCallback, CopyIDStarts,
         CopyIDAppends, TestKey
  <2> QED
    BY <1>1, <2>1
<1> QED
  BY <1>3, <1>4, <1>6, <1>7, <1>8 DEF RunStep

\* A run that saves puts its path into the record.
ConfStep(r) ==
    /\ ConfShape' /\ conf'.user \in User
    /\ \/ conf'.path = conf.path
       \/ /\ run[r].pc = "save" /\ conf'.path = run[r].path
          /\ Prov(r) => run'[r].pc = "done"

LEMMA RunConf == ASSUME KeyInv, NEW r \in Runs, RunStep(r) PROVE ConfStep(r)
<1>0. ConfShape /\ conf.user \in User /\ run[r].user \in User /\ RunShape
  BY DEF KeyInv, KeyTypes, UserType, EnrollInv
<1>1. conf' = conf => ConfStep(r)
  BY <1>0 DEF ConfStep, ConfShape
<1>2. run[r].pc = "save" => run[r].path \in Paths
  BY DEF KeyInv, KeyTypes, PathType
<1>3. ASSUME NEW h, NEW u \in User, run[r].pc = "save", conf' = Record(h, u, "key", run[r].path),
             Prov(r) => run'[r].pc = "done"
      PROVE ConfStep(r)
  <2>1. conf'.path = run[r].path /\ conf'.user = u /\ ConfShape'
    BY <1>2, <1>3 DEF Record, ConfShape
  <2> QED
    BY <1>3, <2>1 DEF ConfStep
<1>4. CASE SavePaired(r)
  <2>1. run[r].pc = "save" /\ ~Prov(r)
    BY <1>4 DEF SavePaired, Prov
  <2>2. conf' = conf \/ \E h : conf' = Record(h, run[r].user, "key", run[r].path)
    BY <1>4 DEF SavePaired
  <2> QED
    BY <1>0, <1>1, <1>3, <2>1, <2>2
<1>5. CASE SaveProvisioned(r)
  <2>1. run[r].pc = "save"
    BY <1>5 DEF SaveProvisioned
  <2>2. conf' = conf \/ (/\ conf' = Record(conf.host, conf.user, "key", run[r].path)
                         /\ run' = [run EXCEPT ![r].pc = "done"])
    BY <1>5 DEF SaveProvisioned
  <2>3. run' = [run EXCEPT ![r].pc = "done"] => run'[r].pc = "done"
    BY <1>0 DEF RunShape
  <2> QED
    BY <1>0, <1>1, <1>3, <2>1, <2>2, <2>3
<1>6. CASE SaveKeyPath(r) \/ ToolSavesKeyPath(r)
  <2>1. run[r].pc = "save" /\ ~Prov(r)
    BY <1>6 DEF SaveKeyPath, ToolSavesKeyPath, Prov
  <2>2. \/ conf' = conf \/ conf' = [conf EXCEPT !.path = run[r].path]
        \/ conf' = [conf EXCEPT !.path = run[r].path, !.auth = "key"]
    BY <1>6 DEF SaveKeyPath, ToolSavesKeyPath, SaveFails
  <2>3. CASE conf' = [conf EXCEPT !.path = run[r].path] \/ conf' = [conf EXCEPT !.path = run[r].path, !.auth = "key"]
    <3>1. conf'.path = run[r].path /\ conf'.user = conf.user /\ ConfShape'
      BY <1>0, <1>2, <2>1, <2>3, ZenonT(30) DEF ConfShape
    <3> QED
      BY <1>0, <2>1, <3>1 DEF ConfStep
  <2> QED
    BY <1>1, <2>2, <2>3
<1>7. CASE Moves(r) /\ ~SavePaired(r) /\ ~SaveProvisioned(r) /\ ~SaveKeyPath(r) /\ ~ToolSavesKeyPath(r)
  <2>2. Copies(r) => conf' = conf
    BY CopiesMove DEF CopyMove
  <2>1. conf' = conf
    BY <1>7, <2>2, Zenon DEF Moves, Inspect, RememberKeyFile, WritePrivate, WritePublic, NoToken, PublishWithCallback,
         PublishNoCallback, WaitForPairCallbackRetry, GenKeyLoads, ProvisionLoads,
         HardenWrites, HardenReloads
  <2> QED
    BY <1>1, <2>1
<1>8. CASE Learns(r)
  <2>1. conf' = conf
    BY <1>8, Zenon DEF Learns, PairStarts, PreparePairKey, PairKeyGenerated, TakeReport, VerifyReported,
         VerifyNoCallback, GenKeyStarts, HandleGenKeyStarts, ProvisionStarts, StartGeneration,
         CopyIDStarts, CopyIDAppends, TestKey
  <2> QED
    BY <1>1, <2>1
<1> QED
  BY <1>4, <1>5, <1>6, <1>7, <1>8 DEF RunStep

\* What becomes of the lines of the hosts.
HostKeys == HostShape /\ LinesShape
CopyKeys == HostKeys /\ AwkInv

LEMMA HostOfLines ==
    ASSUME NEW a, NEW t, NEW d, NEW k
    PROVE HostOf(a, t, d, k).auth = a /\ HostOf(a, t, d, k).tmp = t
BY DEF HostOf

LEMMA LinesPut ==
    ASSUME HostKeys, NEW h, NEW a, NEW t, NEW d, NEW k,
           \A g \in Targets : host'[g] = IF g = h THEN HostOf(a, t, d, k) ELSE host[g],
           h \in Targets => a = [v \in Users |-> a[v]] /\ t = [v \in Users |-> t[v]]
    PROVE /\ LinesShape'
          /\ \A g \in Targets : /\ host'[g].auth = IF g = h THEN a ELSE host[g].auth
                                /\ host'[g].tmp = IF g = h THEN t ELSE host[g].tmp
<1> DEFINE x == HostOf(a, t, d, k)
<1>1. x.auth = a /\ x.tmp = t
  BY HostOfLines
<1>2. \A g \in Targets : host'[g] = IF g = h THEN x ELSE host[g]
  OBVIOUS
<1> HIDE DEF x
<1>3. \A g \in Targets : /\ host'[g].auth = IF g = h THEN a ELSE host[g].auth
                         /\ host'[g].tmp = IF g = h THEN t ELSE host[g].tmp
  BY <1>1, <1>2
<1>4. LinesShape'
  BY <1>3 DEF LinesShape, HostKeys
<1> QED
  BY <1>3, <1>4

\* The lines of one user, or their copy, are replaced by a and t.
AuthSet(h, u, a) ==
    /\ LinesShape'
    /\ \A g \in Targets, v \in Users :
         /\ host'[g].tmp[v] = host[g].tmp[v]
         /\ host'[g].auth[v] = IF g = h /\ v = u THEN a ELSE host[g].auth[v]
TmpSet(h, u, t) ==
    /\ LinesShape'
    /\ \A g \in Targets, v \in Users :
         /\ host'[g].auth[v] = host[g].auth[v]
         /\ host'[g].tmp[v] = IF g = h /\ v = u THEN t ELSE host[g].tmp[v]
BothSet(h, u, a) ==
    /\ LinesShape'
    /\ \A g \in Targets, v \in Users :
         /\ host'[g].auth[v] = IF g = h /\ v = u THEN a ELSE host[g].auth[v]
         /\ host'[g].tmp[v] = IF g = h /\ v = u THEN {} ELSE host[g].tmp[v]

LEMMA AuthPut ==
    ASSUME HostKeys, NEW h, NEW u, NEW a, host' = [host EXCEPT ![h].auth[u] = a]
    PROVE AuthSet(h, u, a)
<1> DEFINE y == host[h]
           b == [y.auth EXCEPT ![u] = a]
<1>1. host' = [host EXCEPT ![h] = [y EXCEPT !.auth = b]]
  OBVIOUS
<1>2. h \in Targets => /\ IsHost(y) /\ y.tmp = [v \in Users |-> y.tmp[v]] /\ y.auth = [v \in Users |-> y.auth[v]]
  BY DEF HostKeys, HostShape, LinesShape
<1>3. h \in Targets => b = [v \in Users |-> b[v]] /\ \A v \in Users : b[v] = IF v = u THEN a ELSE y.auth[v]
  BY <1>2
<1>7. h \notin Targets => host' = host
  BY DEF HostKeys, HostShape
<1> HIDE DEF b
<1>4. h \in Targets => [y EXCEPT !.auth = b] = HostOf(b, y.tmp, y.dropIn, y.keyOnly)
  BY <1>2, HostFields, Zenon
<1>8. DOMAIN host = Targets
  BY DEF HostKeys, HostShape
<1>5. \A g \in Targets : host'[g] = IF g = h THEN HostOf(b, y.tmp, y.dropIn, y.keyOnly) ELSE host[g]
  BY <1>1, <1>4, <1>8
<1> HIDE DEF y
<1>6. /\ LinesShape'
      /\ \A g \in Targets : /\ host'[g].auth = IF g = h THEN b ELSE host[g].auth
                            /\ host'[g].tmp = IF g = h THEN y.tmp ELSE host[g].tmp
  BY <1>2, <1>3, <1>5, <1>7, LinesPut
<1> QED
  BY <1>3, <1>6 DEF y, AuthSet

LEMMA TmpPut ==
    ASSUME HostKeys, NEW h, NEW u, NEW a, host' = [host EXCEPT ![h].tmp[u] = a]
    PROVE TmpSet(h, u, a)
<1> DEFINE y == host[h]
           b == [y.tmp EXCEPT ![u] = a]
<1>1. host' = [host EXCEPT ![h] = [y EXCEPT !.tmp = b]]
  OBVIOUS
<1>2. h \in Targets => /\ IsHost(y) /\ y.tmp = [v \in Users |-> y.tmp[v]] /\ y.auth = [v \in Users |-> y.auth[v]]
  BY DEF HostKeys, HostShape, LinesShape
<1>3. h \in Targets => b = [v \in Users |-> b[v]] /\ \A v \in Users : b[v] = IF v = u THEN a ELSE y.tmp[v]
  BY <1>2
<1>7. h \notin Targets => host' = host
  BY DEF HostKeys, HostShape
<1> HIDE DEF b
<1>4. h \in Targets => [y EXCEPT !.tmp = b] = HostOf(y.auth, b, y.dropIn, y.keyOnly)
  BY <1>2, HostFields, Zenon
<1>8. DOMAIN host = Targets
  BY DEF HostKeys, HostShape
<1>5. \A g \in Targets : host'[g] = IF g = h THEN HostOf(y.auth, b, y.dropIn, y.keyOnly) ELSE host[g]
  BY <1>1, <1>4, <1>8
<1> HIDE DEF y
<1>6. /\ LinesShape'
      /\ \A g \in Targets : /\ host'[g].auth = IF g = h THEN y.auth ELSE host[g].auth
                            /\ host'[g].tmp = IF g = h THEN b ELSE host[g].tmp
  BY <1>2, <1>3, <1>5, <1>7, LinesPut
<1> QED
  BY <1>3, <1>6 DEF y, TmpSet

LEMMA LinesMoved ==
    ASSUME HostKeys, NEW h, NEW u, NEW a
    PROVE host' = [host EXCEPT ![h].auth[u] = a, ![h].tmp[u] = {}] => BothSet(h, u, a)
<1>1. ASSUME host' = [host EXCEPT ![h].auth[u] = a, ![h].tmp[u] = {}]
      PROVE BothSet(h, u, a)
  <2> DEFINE y == host[h]
             b == [y.auth EXCEPT ![u] = a]
             c == [y.tmp EXCEPT ![u] = {}]
  <2>2. h \in Targets => /\ IsHost(y) /\ y.tmp = [v \in Users |-> y.tmp[v]] /\ y.auth = [v \in Users |-> y.auth[v]]
    BY DEF HostKeys, HostShape, LinesShape
  <2>1. h \in Targets => host' = [host EXCEPT ![h] = [y EXCEPT !.auth = b, !.tmp = c]]
    BY <1>1, <2>2 DEF HostKeys, HostShape, IsHost
  <2>3. h \in Targets => b = [v \in Users |-> b[v]] /\ \A v \in Users : b[v] = IF v = u THEN a ELSE y.auth[v]
    BY <2>2
  <2>9. h \in Targets => c = [v \in Users |-> c[v]] /\ \A v \in Users : c[v] = IF v = u THEN {} ELSE y.tmp[v]
    BY <2>2
  <2>8. DOMAIN host = Targets
    BY DEF HostKeys, HostShape
  <2>7. \A g \in Targets \ {h} : host'[g] = host[g]
    BY <1>1, <2>8
  <2> HIDE DEF b, c
  <2>4. h \in Targets => [y EXCEPT !.auth = b, !.tmp = c] = HostOf(b, c, y.dropIn, y.keyOnly)
    <3>1. IsHost(y) => [y EXCEPT !.auth = b, !.tmp = c] = HostOf(b, c, y.dropIn, y.keyOnly)
      BY HostFields, ZenonT(30)
    <3> QED
      BY <2>2, <3>1
  <2>11. h \in Targets => host'[h] = [y EXCEPT !.auth = b, !.tmp = c]
    BY <2>1, <2>8
  <2>5. \A g \in Targets : host'[g] = IF g = h THEN HostOf(b, c, y.dropIn, y.keyOnly) ELSE host[g]
    BY <2>4, <2>7, <2>11
  <2> DEFINE d == y.dropIn
             k == y.keyOnly
  <2>12. \A g \in Targets : host'[g] = IF g = h THEN HostOf(b, c, d, k) ELSE host[g]
    BY <2>5
  <2> HIDE DEF d, k
  <2> QED
    <3>1. h \in Targets => b = [v \in Users |-> b[v]] /\ \A v \in Users : b[v] = IF v = u THEN a ELSE host[h].auth[v]
      BY <2>3
    <3>2. h \in Targets => c = [v \in Users |-> c[v]] /\ \A v \in Users : c[v] = IF v = u THEN {} ELSE host[h].tmp[v]
      BY <2>9
    <3>3. h \in Targets => b = [v \in Users |-> b[v]] /\ c = [v \in Users |-> c[v]]
      BY <3>1, <3>2
    <3> HIDE DEF y
    <3>4. /\ LinesShape'
          /\ \A g \in Targets : /\ host'[g].auth = IF g = h THEN b ELSE host[g].auth
                                /\ host'[g].tmp = IF g = h THEN c ELSE host[g].tmp
      BY <2>12, <3>3, LinesPut
    <3>5. ASSUME NEW g \in Targets, NEW v \in Users
          PROVE /\ host'[g].auth[v] = IF g = h /\ v = u THEN a ELSE host[g].auth[v]
                /\ host'[g].tmp[v] = IF g = h /\ v = u THEN {} ELSE host[g].tmp[v]
      BY <3>1, <3>2, <3>4
    <3> QED
      BY <3>4, <3>5 DEF BothSet
<1> QED
  BY <1>1

UserLines(b) == b = [v \in Users |-> b[v]]
AllSet(h, b) ==
    /\ LinesShape'
    /\ \A g \in Targets : host'[g].tmp = host[g].tmp /\ host'[g].auth = IF g = h THEN b ELSE host[g].auth

LEMMA AuthReplaced ==
    ASSUME HostKeys, NEW h, NEW b, host' = [host EXCEPT ![h].auth = b], UserLines(b)
    PROVE AllSet(h, b)
<1> DEFINE y == host[h]
<1>1. host' = [host EXCEPT ![h] = [y EXCEPT !.auth = b]]
  OBVIOUS
<1>2. h \in Targets => /\ IsHost(y) /\ y.tmp = [v \in Users |-> y.tmp[v]]
  BY DEF HostKeys, HostShape, LinesShape
<1>7. h \notin Targets => host' = host
  BY DEF HostKeys, HostShape
<1>4. h \in Targets => [y EXCEPT !.auth = b] = HostOf(b, y.tmp, y.dropIn, y.keyOnly)
  BY <1>2, HostFields, Zenon
<1>8. DOMAIN host = Targets
  BY DEF HostKeys, HostShape
<1>5. \A g \in Targets : host'[g] = IF g = h THEN HostOf(b, y.tmp, y.dropIn, y.keyOnly) ELSE host[g]
  BY <1>1, <1>4, <1>8
<1> HIDE DEF y
<1>6. /\ LinesShape'
      /\ \A g \in Targets : /\ host'[g].auth = IF g = h THEN b ELSE host[g].auth
                            /\ host'[g].tmp = IF g = h THEN y.tmp ELSE host[g].tmp
  <2>1. h \in Targets => b = [v \in Users |-> b[v]] /\ y.tmp = [v \in Users |-> y.tmp[v]]
    BY <1>2 DEF UserLines
  <2>2. \A d, k : (\A g \in Targets : host'[g] = IF g = h THEN HostOf(b, y.tmp, d, k) ELSE host[g]) =>
          /\ LinesShape'
          /\ \A g \in Targets : /\ host'[g].auth = IF g = h THEN b ELSE host[g].auth
                                /\ host'[g].tmp = IF g = h THEN y.tmp ELSE host[g].tmp
    BY <2>1, LinesPut
  <2> QED
    BY <1>5, <2>2
<1> QED
  BY <1>6 DEF y, AllSet

\* The switches of sshd are no lines.
LEMMA SwitchPut ==
    ASSUME HostKeys, NEW h, NEW d,
           host' = [host EXCEPT ![h].dropIn = d] \/ host' = [host EXCEPT ![h].keyOnly = d]
    PROVE LinesShape' /\ \A g \in Targets : host'[g].auth = host[g].auth /\ host'[g].tmp = host[g].tmp
<1> DEFINE y == host[h]
<1>2. h \in Targets => /\ IsHost(y) /\ y.tmp = [v \in Users |-> y.tmp[v]] /\ y.auth = [v \in Users |-> y.auth[v]]
  BY DEF HostKeys, HostShape, LinesShape
<1>7. h \notin Targets => host' = host
  BY DEF HostKeys, HostShape
<1>1. host' = [host EXCEPT ![h] = [y EXCEPT !.dropIn = d]] \/ host' = [host EXCEPT ![h] = [y EXCEPT !.keyOnly = d]]
  OBVIOUS
<1>4. h \in Targets => /\ [y EXCEPT !.dropIn = d] = HostOf(y.auth, y.tmp, d, y.keyOnly)
                       /\ [y EXCEPT !.keyOnly = d] = HostOf(y.auth, y.tmp, y.dropIn, d)
  BY <1>2, HostFields, ZenonT(30)
<1>9. DOMAIN host = Targets
  BY DEF HostKeys, HostShape
<1>5. \E e, k : \A g \in Targets : host'[g] = IF g = h THEN HostOf(y.auth, y.tmp, e, k) ELSE host[g]
  BY <1>1, <1>4, <1>9
<1>8. PICK e, k : \A g \in Targets : host'[g] = IF g = h THEN HostOf(y.auth, y.tmp, e, k) ELSE host[g]
  BY <1>5
<1> HIDE DEF y
<1>6. /\ LinesShape'
      /\ \A g \in Targets : /\ host'[g].auth = IF g = h THEN y.auth ELSE host[g].auth
                            /\ host'[g].tmp = IF g = h THEN y.tmp ELSE host[g].tmp
  BY <1>2, <1>7, <1>8, LinesPut
<1> QED
  BY <1>6 DEF y

\* A file that one command at a time rewrites keeps its keys, and a key that is
\* in it is in what is about to replace it; the key k may have been appended.
LinesGrow(k) ==
    /\ LinesShape' /\ AwkInv' /\ clashed \subseteq clashed'
    /\ \A g \in Targets, u \in Users : <<g, u>> \notin clashed' =>
         \A p \in Runs : /\ Listed(p, g, u) => Listed(p, g, u)'
                         /\ p # k /\ Tidy(p, g, u) => Tidy(p, g, u)'

LinesStep(r) ==
    /\ LinesGrow(files[run[r].path].pub)
    /\ ~CopyIDAppends(r) => LinesGrow(NoKey)
    /\ \A g \in Targets, u \in Users :
         run[r].pc \in Copying /\ run'[r].pc = "awkReads" /\ Of(r, g, u) /\ <<g, u>> \notin clashed'
         => Tidy(r, g, u)'

\* Who rewrites the file of a user after the step did so before, and his awk is
\* as it was.
Quiet(g, u) ==
    \A q \in Runs : Rewrites(q)' /\ Of(q, g, u)' =>
        Rewrites(q) /\ Of(q, g, u) /\ run'[q].pc = run[q].pc /\ awk'[q] = awk[q]

\* A step that rewrites no file of the user.
LEMMA QuietLines ==
    ASSUME NEW g \in Targets, NEW u \in Users, NEW k, Quiet(g, u), One(g, u),
           host'[g].tmp[u] = host[g].tmp[u],
           host'[g].auth[u] = host[g].auth[u] \/ host'[g].auth[u] = host[g].auth[u] \cup {k}
    PROVE /\ One(g, u)'
          /\ \A p \in Runs : /\ Listed(p, g, u) => Listed(p, g, u)'
                             /\ p # k /\ Tidy(p, g, u) => Tidy(p, g, u)'
<1>1. One(g, u)'
  BY DEF One, Quiet, Rewrites
<1>2. ASSUME NEW p \in Runs, NEW q \in Runs, Of(q, g, u)', Listed(p, g, u) PROVE Carried(p, q, g, u)'
  BY <1>2 DEF Listed, Carried, Quiet, Rewrites
<1>3. ASSUME NEW p \in Runs, Listed(p, g, u) PROVE Listed(p, g, u)'
  BY <1>2, <1>3 DEF Listed
<1>4. ASSUME NEW p \in Runs, p # k, Tidy(p, g, u), p \in host'[g].auth[u] PROVE Listed(p, g, u)'
  BY <1>3, <1>4 DEF Tidy
<1> QED
  BY <1>1, <1>3, <1>4 DEF Tidy

\* Steps that leave the copiers alone.
LEMMA QuietGrows ==
    ASSUME AwkInv, LinesShape', awk' = awk, clashed' = clashed, NEW k,
           \A g \in Targets, u \in Users :
              /\ Quiet(g, u) /\ host'[g].tmp[u] = host[g].tmp[u]
              /\ host'[g].auth[u] = host[g].auth[u] \/ host'[g].auth[u] = host[g].auth[u] \cup {k}
    PROVE LinesGrow(k)
<1>1. \A g \in Targets, u \in Users : <<g, u>> \notin clashed' =>
         /\ One(g, u)'
         /\ \A p \in Runs : /\ Listed(p, g, u) => Listed(p, g, u)'
                            /\ p # k /\ Tidy(p, g, u) => Tidy(p, g, u)'
  BY QuietLines DEF AwkInv
<1>2. AwkInv'
  BY <1>1 DEF AwkInv, AwkForm
<1> QED
  BY <1>1, <1>2 DEF LinesGrow

\* A step that neither rewrites a file nor appends to one.
Calm == awk' = awk /\ clashed' = clashed
        /\ \A q \in Runs : Rewrites(q)' => run'[q] = run[q]

LEMMA LinesStay ==
    ASSUME CopyKeys, Calm,
           \/ host' = host
           \/ \E h, d : host' = [host EXCEPT ![h].dropIn = d] \/ host' = [host EXCEPT ![h].keyOnly = d]
    PROVE \A k : LinesGrow(k)
<1>1. LinesShape' /\ \A g \in Targets : host'[g].auth = host[g].auth /\ host'[g].tmp = host[g].tmp
  <2>1. CASE host' = host
    BY <2>1 DEF CopyKeys, HostKeys, LinesShape
  <2> QED
    BY <2>1, SwitchPut DEF CopyKeys
<1>2. \A g, u : Quiet(g, u)
  BY DEF Calm, Quiet, Rewrites, Of
<1> QED
  BY <1>1, <1>2, QuietGrows DEF CopyKeys, Calm

\* What the steps of a copier do to the runs and to the open files.
CopyRun(r, s) ==
    /\ run'[r].pc = s /\ run'[r].host = run[r].host /\ run'[r].user = run[r].user
    /\ \A q \in Runs \ {r} : run'[q] = run[q]

LEMMA CopyRuns ==
    ASSUME RunShape, NEW r \in Runs, NEW s, run' = [run EXCEPT ![r].pc = s] PROVE CopyRun(r, s)
<1>1. DOMAIN run = Runs /\ IsRun(run[r])
  BY DEF RunShape, IsRun
<1> QED
  BY <1>1 DEF CopyRun, IsRun

AwkSet(r, l, o) ==
    AwkForm' /\ awk'[r].lines = l /\ awk'[r].out = o /\ \A q \in Runs \ {r} : awk'[q] = awk[q]

LEMMA AwkPut ==
    ASSUME AwkForm, NEW r \in Runs, NEW l, NEW o \in Outputs,
           awk' = [awk EXCEPT ![r] = [lines |-> l, out |-> o]]
    PROVE AwkSet(r, l, o)
<1>1. DOMAIN awk = Runs /\ \A q \in Runs : awk[q] = [lines |-> awk[q].lines, out |-> awk[q].out]
  BY DEF AwkForm
<1>2. /\ awk'[r] = [lines |-> l, out |-> o] /\ \A q \in Runs \ {r} : awk'[q] = awk[q]
      /\ awk' = [q \in Runs |-> awk'[q]]
  BY <1>1
<1>3. \A q \in Runs : awk'[q] = [lines |-> awk'[q].lines, out |-> awk'[q].out] /\ awk'[q].out \in Outputs
  BY <1>1, <1>2 DEF AwkForm
<1>4. AwkForm'
  BY <1>2, <1>3 DEF AwkForm
<1> QED
  BY <1>2, <1>4 DEF AwkSet

\* rm and mv change what the open files of the copiers of one user are.
Becoming(r, b) ==
    \A q \in Runs \ {r} :
       /\ Of(q, run[r].host, run[r].user) => awk'[q].lines = awk[q].lines /\ awk'[q].out = b[awk[q].out]
       /\ ~Of(q, run[r].host, run[r].user) => awk'[q] = awk[q]

LEMMA AwkBecomes ==
    ASSUME AwkForm, NEW r \in Runs, NEW b \in [Outputs -> Outputs],
           awk' = AwkOutputs(r, b) \/ awk' = [AwkOutputs(r, b) EXCEPT ![r] = NoAwk]
    PROVE AwkForm' /\ Becoming(r, b)
<1> DEFINE new == AwkOutputs(r, b)
<1>1. DOMAIN awk = Runs /\ \A q \in Runs : awk[q] = [lines |-> awk[q].lines, out |-> awk[q].out]
  BY DEF AwkForm
<1>2. \A q \in Runs : new[q] = IF Of(q, run[r].host, run[r].user) THEN [awk[q] EXCEPT !.out = b[awk[q].out]] ELSE awk[q]
  BY DEF AwkOutputs, At, Of
<1>3. DOMAIN new = Runs /\ new = [q \in Runs |-> new[q]]
  BY DEF AwkOutputs
<1>4. \A q \in Runs : [awk[q] EXCEPT !.out = b[awk[q].out]] = [lines |-> awk[q].lines, out |-> b[awk[q].out]]
  BY <1>1
<1>5. \A q \in Runs : new[q] = IF Of(q, run[r].host, run[r].user)
                               THEN [lines |-> awk[q].lines, out |-> b[awk[q].out]] ELSE awk[q]
  BY <1>2, <1>4
<1>6. awk' = new \/ awk' = [new EXCEPT ![r] = NoAwk]
  OBVIOUS
<1> HIDE DEF new
<1>7. DOMAIN awk' = Runs /\ awk' = [q \in Runs |-> awk'[q]]
  BY <1>3, <1>5, <1>6, <1>1
<1>8. \A q \in Runs \ {r} : awk'[q] = new[q]
  BY <1>3, <1>6
<1>9. awk'[r] = new[r] \/ awk'[r] = NoAwk
  BY <1>3, <1>6
<1>10. ASSUME NEW q \in Runs PROVE new[q] = [lines |-> new[q].lines, out |-> new[q].out] /\ new[q].out \in Outputs
  <2> DEFINE l == awk[q].lines
             o == awk[q].out
  <2>1. o \in Outputs /\ b[o] \in Outputs
    BY DEF AwkForm
  <2>2. new[q] = [lines |-> l, out |-> o] \/ new[q] = [lines |-> l, out |-> b[o]]
    BY <1>1, <1>5
  <2> HIDE DEF l, o
  <2> QED
    BY <2>1, <2>2
<1>11. NoAwk = [lines |-> NoAwk.lines, out |-> NoAwk.out] /\ NoAwk.out \in Outputs
  BY DEF NoAwk, Outputs
<1>12. \A q \in Runs : awk'[q] = [lines |-> awk'[q].lines, out |-> awk'[q].out] /\ awk'[q].out \in Outputs
  BY <1>8, <1>9, <1>10, <1>11
<1>13. AwkForm'
  BY <1>7, <1>12 DEF AwkForm
<1>14. ASSUME NEW q \in Runs \ {r}
       PROVE /\ Of(q, run[r].host, run[r].user) => awk'[q].lines = awk[q].lines /\ awk'[q].out = b[awk[q].out]
             /\ ~Of(q, run[r].host, run[r].user) => awk'[q] = awk[q]
  <2>1. awk'[q] = IF Of(q, run[r].host, run[r].user)
                  THEN [lines |-> awk[q].lines, out |-> b[awk[q].out]] ELSE awk[q]
    BY <1>5, <1>8
  <2> QED
    BY <2>1
<1> QED
  BY <1>13, <1>14 DEF Becoming

\* What a step keeps of the file of a user.
Keeping(g, u) ==
    One(g, u)' /\ \A p \in Runs : /\ Listed(p, g, u) => Listed(p, g, u)'
                                  /\ Tidy(p, g, u) => Tidy(p, g, u)'

\* A copier disturbs no other user and no other host.
LEMMA CopyGrows ==
    ASSUME CopyKeys, NEW r \in Runs, NEW s, CopyRun(r, s), LinesShape', AwkForm', clashed \subseteq clashed',
           \A q \in Runs \ {r} : Of(q, run[r].host, run[r].user) \/ awk'[q] = awk[q],
           \A g \in Targets, u \in Users : Of(r, g, u) \/
              (host'[g].auth[u] = host[g].auth[u] /\ host'[g].tmp[u] = host[g].tmp[u]),
           \A g \in Targets, u \in Users : Of(r, g, u) /\ <<g, u>> \notin clashed' => Keeping(g, u)
    PROVE \A k : LinesGrow(k)
<1>1. ASSUME NEW g \in Targets, NEW u \in Users, ~Of(r, g, u), <<g, u>> \notin clashed' PROVE Keeping(g, u)
  <2>1. Quiet(g, u)
    BY <1>1 DEF CopyRun, Quiet, Rewrites, Of
  <2>2. One(g, u)
    BY <1>1 DEF CopyKeys, AwkInv
  <2>3. host'[g].auth[u] = host[g].auth[u] /\ host'[g].tmp[u] = host[g].tmp[u]
    BY <1>1
  <2>4. ASSUME NEW k, k \notin Runs PROVE Keeping(g, u)
    <3>1. /\ One(g, u)'
          /\ \A p \in Runs : /\ Listed(p, g, u) => Listed(p, g, u)'
                             /\ p # k /\ Tidy(p, g, u) => Tidy(p, g, u)'
      BY <2>1, <2>2, <2>3, QuietLines, Zenon
    <3> QED
      BY <2>4, <3>1 DEF Keeping
  <2> QED
    BY <2>4, EnrollmentAssumption
<1>2. \A g \in Targets, u \in Users : <<g, u>> \notin clashed' => Keeping(g, u)
  BY <1>1
<1>3. AwkInv'
  BY <1>2 DEF AwkInv, Keeping
<1> QED
  BY <1>2, <1>3 DEF LinesGrow, Keeping

\* After the step nobody else rewrites the file.
LEMMA SoloKeeps ==
    ASSUME NEW g \in Targets, NEW u \in Users, NEW r \in Runs,
           \A q \in Runs \ {r} : Of(q, g, u)' => ~Rewrites(q)',
           run'[r].pc \in {"awkReads", "awkWrites"} =>
              awk'[r].out = "tmp" \/ (awk'[r].out = "gone" /\ host'[g].tmp[u] = {}),
           \A p \in Runs : Listed(p, g, u) => p \in host'[g].auth[u],
           \A p \in Runs : p \in host'[g].auth[u] /\ Tidy(p, g, u) => Carried(p, r, g, u)'
    PROVE Keeping(g, u)
<1>1. One(g, u)'
  BY DEF One, Rewrites
<1>2. ASSUME NEW p \in Runs, NEW q \in Runs \ {r}, Of(q, g, u)' PROVE Carried(p, q, g, u)'
  BY <1>2 DEF Carried, Rewrites
<1>3. ASSUME NEW p \in Runs, p \in host'[g].auth[u], Tidy(p, g, u) PROVE Listed(p, g, u)'
  BY <1>2, <1>3 DEF Listed
<1>4. \A p \in Runs : Listed(p, g, u) => Tidy(p, g, u)
  BY DEF Tidy
<1> QED
  BY <1>1, <1>3, <1>4 DEF Keeping, Tidy

\* What a copier has of a file that nobody else rewrites.
LEMMA SoloRun ==
    ASSUME CopyKeys, NEW r \in Runs, NEW s, CopyRun(r, s), clashed \subseteq clashed',
           Rewrites(r), NEW g \in Targets, NEW u \in Users, Of(r, g, u), <<g, u>> \notin clashed'
    PROVE \A q \in Runs \ {r} : Of(q, g, u)' => ~Rewrites(q)'
<1>1. One(g, u)
  BY DEF CopyKeys, AwkInv
<1> QED
  BY <1>1 DEF One, CopyRun, Rewrites, Of

LEMMA TruncateLines == ASSUME CopyKeys, RunShape, NEW r \in Runs, CopyIDTruncates(r) PROVE LinesStep(r)
<1> DEFINE h == run[r].host
           v == run[r].user
<1>1. CopyRun(r, "awkReads")
  BY CopyRuns DEF CopyIDTruncates
<1>2. TmpSet(h, v, {{}})
  BY TmpPut DEF CopyKeys, CopyIDTruncates
<1>3. AwkForm' /\ awk'[r].out = "tmp" /\ \A q \in Runs \ {r} : awk'[q] = awk[q]
  <2>1. [awk[r] EXCEPT !.out = "tmp"] = [lines |-> awk[r].lines, out |-> "tmp"]
    BY DEF CopyKeys, AwkInv, AwkForm
  <2>2. awk' = [awk EXCEPT ![r] = [awk[r] EXCEPT !.out = "tmp"]]
    BY DEF CopyIDTruncates
  <2>3. awk' = [awk EXCEPT ![r] = [lines |-> awk[r].lines, out |-> "tmp"]] /\ "tmp" \in Outputs
    BY <2>1, <2>2 DEF Outputs
  <2> DEFINE l == awk[r].lines
  <2> HIDE DEF l
  <2>4. awk' = [awk EXCEPT ![r] = [lines |-> l, out |-> "tmp"]] /\ AwkForm
    BY <2>3 DEF l, CopyKeys, AwkInv
  <2>5. AwkSet(r, l, "tmp")
    BY <2>3, <2>4, AwkPut, Zenon
  <2> QED
    BY <2>5 DEF AwkSet
<1>4. clashed \subseteq clashed' /\ (<<h, v>> \notin clashed' => \A q \in Runs \ {r} : ~(Rewrites(q) /\ At(q, r)))
  BY DEF CopyIDTruncates
<1>5. /\ LinesShape'
      /\ \A g \in Targets, u \in Users : Of(r, g, u) \/
           (host'[g].auth[u] = host[g].auth[u] /\ host'[g].tmp[u] = host[g].tmp[u])
      /\ \A g \in Targets, u \in Users : host'[g].auth[u] = host[g].auth[u]
  BY <1>2 DEF TmpSet, Of
<1>6. ASSUME NEW g \in Targets, NEW u \in Users, Of(r, g, u), <<g, u>> \notin clashed'
      PROVE Keeping(g, u) /\ \A p \in Runs : Tidy(p, g, u)'
  <2>1. g = h /\ u = v
    BY <1>6 DEF Of
  <2>2. \A q \in Runs \ {r} : Of(q, g, u)' => ~Rewrites(q)'
    BY <1>1, <1>4, <1>6, <2>1 DEF CopyRun, Of, At, Rewrites
  <2>3. \A p \in Runs : Carried(p, r, g, u)'
    BY <1>1 DEF CopyRun, Carried
  <2>4. \A p \in Runs : Listed(p, g, u) => p \in host'[g].auth[u]
    BY <1>5 DEF Listed
  <2>5. Keeping(g, u)
    BY <1>3, <2>2, <2>3, <2>4, SoloKeeps
  <2>6. \A p \in Runs : Tidy(p, g, u)'
    BY <2>2, <2>3 DEF Tidy, Listed, Carried, Rewrites
  <2> QED
    BY <2>5, <2>6
<1>7. \A k : LinesGrow(k)
  BY <1>1, <1>3, <1>4, <1>5, <1>6, CopyGrows
<1> QED
  BY <1>6, <1>7 DEF LinesStep

LEMMA ReadLines == ASSUME CopyKeys, RunShape, NEW r \in Runs, CopyIDReads(r) PROVE \A k : LinesGrow(k)
<1> DEFINE l == host[run[r].host].auth[run[r].user]
           o == awk[r].out
<1>1. CopyRun(r, "awkWrites")
  BY CopyRuns DEF CopyIDReads
<1>2. host' = host /\ clashed' = clashed /\ Rewrites(r)
  BY DEF CopyIDReads, Rewrites
<1>3. AwkForm' /\ awk'[r].lines = l /\ awk'[r].out = o /\ \A q \in Runs \ {r} : awk'[q] = awk[q]
  <2>1. [awk[r] EXCEPT !.lines = l] = [lines |-> l, out |-> o]
    BY DEF CopyKeys, AwkInv, AwkForm
  <2>2. awk' = [awk EXCEPT ![r] = [awk[r] EXCEPT !.lines = l]]
    BY DEF CopyIDReads
  <2>3. AwkForm /\ o \in Outputs
    BY DEF CopyKeys, AwkInv, AwkForm
  <2> HIDE DEF l, o
  <2>4. awk' = [awk EXCEPT ![r] = [lines |-> l, out |-> o]]
    BY <2>1, <2>2, Zenon
  <2>5. AwkSet(r, l, o)
    BY <2>3, <2>4, AwkPut, Zenon
  <2> QED
    BY <2>5 DEF AwkSet
<1>4. LinesShape'
  BY <1>2 DEF CopyKeys, HostKeys, LinesShape
<1>5. ASSUME NEW g \in Targets, NEW u \in Users, Of(r, g, u), <<g, u>> \notin clashed' PROVE Keeping(g, u)
  <2>1. l = host[g].auth[u]
    BY <1>5 DEF Of
  <2>2. \A q \in Runs \ {r} : Of(q, g, u)' => ~Rewrites(q)'
    BY <1>1, <1>2, <1>5, SoloRun
  <2>3. awk[r].out = "tmp" \/ (awk[r].out = "gone" /\ host[g].tmp[u] = {})
    BY <1>2, <1>5 DEF CopyIDReads, CopyKeys, AwkInv, One
  <2>4. \A p \in Runs : p \in host'[g].auth[u] => Carried(p, r, g, u)'
    BY <1>1, <1>2, <1>3, <2>1 DEF CopyRun, Carried
  <2>5. awk'[r].out = "tmp" \/ (awk'[r].out = "gone" /\ host'[g].tmp[u] = {})
    BY <1>2, <1>3, <2>3
  <2>6. \A p \in Runs : Listed(p, g, u) => p \in host'[g].auth[u]
    BY <1>2 DEF Listed
  <2> QED
    BY <2>2, <2>4, <2>5, <2>6, SoloKeeps
<1> QED
  BY <1>1, <1>2, <1>3, <1>4, <1>5, CopyGrows

LEMMA WriteLines == ASSUME CopyKeys, RunShape, NEW r \in Runs, CopyIDWrites(r) PROVE \A k : LinesGrow(k)
<1> DEFINE h == run[r].host
           v == run[r].user
           l == awk[r].lines
<1>1. CopyRun(r, "rename")
  BY CopyRuns DEF CopyIDWrites
<1>2. clashed' = clashed /\ Rewrites(r) /\ run[r].pc = "awkWrites"
  BY DEF CopyIDWrites, Rewrites
<1>3. AwkForm' /\ \A q \in Runs \ {r} : awk'[q] = awk[q]
  <2>1. awk' = [awk EXCEPT ![r] = [lines |-> {}, out |-> "none"]] /\ "none" \in Outputs
    BY DEF CopyIDWrites, NoAwk, Outputs
  <2>2. AwkForm
    BY DEF CopyKeys, AwkInv
  <2>3. AwkSet(r, {}, "none")
    BY <2>1, <2>2, AwkPut, Zenon
  <2> QED
    BY <2>3 DEF AwkSet
<1>4. ASSUME NEW g \in Targets, NEW u \in Users, Of(r, g, u), <<g, u>> \notin clashed'
      PROVE \/ l = awk[r].lines /\ awk[r].out = "tmp" /\ g = h /\ u = v
            \/ awk[r].out = "gone" /\ host[g].tmp[u] = {} /\ g = h /\ u = v
  BY <1>2, <1>4 DEF Of, CopyKeys, AwkInv, One
<1>5. CASE awk[r].out = "tmp"
  <2>1. PICK kept \in SUBSET UNION host[h].tmp[v] : host' = [host EXCEPT ![h].tmp[v] = {l \cup kept}]
    BY <1>5 DEF CopyIDWrites
  <2>2. TmpSet(h, v, {l \cup kept})
    BY <2>1, TmpPut DEF CopyKeys
  <2>3. /\ LinesShape'
        /\ \A g \in Targets, u \in Users : Of(r, g, u) \/
             (host'[g].auth[u] = host[g].auth[u] /\ host'[g].tmp[u] = host[g].tmp[u])
        /\ \A g \in Targets, u \in Users : host'[g].auth[u] = host[g].auth[u]
        /\ \A g \in Targets, u \in Users : Of(r, g, u) => host'[g].tmp[u] = {l \cup kept}
    BY <2>2 DEF TmpSet, Of
  <2>4. ASSUME NEW g \in Targets, NEW u \in Users, Of(r, g, u), <<g, u>> \notin clashed' PROVE Keeping(g, u)
    <3>1. \A q \in Runs \ {r} : Of(q, g, u)' => ~Rewrites(q)'
      BY <1>1, <1>2, <2>4, SoloRun
    <3>2. \A p \in Runs : p \in host'[g].auth[u] /\ Tidy(p, g, u) => p \in l
      BY <1>2, <2>3, <2>4 DEF Tidy, Listed, Carried
    <3>3. \A p \in Runs : p \in host'[g].auth[u] /\ Tidy(p, g, u) => Carried(p, r, g, u)'
      BY <1>1, <2>3, <2>4, <3>2 DEF CopyRun, Carried
    <3>4. run'[r].pc \notin {"awkReads", "awkWrites"}
      BY <1>1 DEF CopyRun
    <3>5. \A p \in Runs : Listed(p, g, u) => p \in host'[g].auth[u]
      BY <2>3 DEF Listed
    <3> QED
      BY <3>1, <3>3, <3>4, <3>5, SoloKeeps
  <2> QED
    BY <1>1, <1>2, <1>3, <2>3, <2>4, CopyGrows
<1>6. CASE awk[r].out = "auth"
  <2>1. PICK kept \in SUBSET host[h].auth[v] : host' = [host EXCEPT ![h].auth[v] = l \cup kept]
    BY <1>6 DEF CopyIDWrites
  <2> DEFINE new == l \cup kept
  <2>5. host' = [host EXCEPT ![h].auth[v] = new]
    BY <2>1
  <2> HIDE DEF new
  <2>2. AuthSet(h, v, new)
    BY <2>5, AuthPut DEF CopyKeys
  <2>3. /\ LinesShape'
        /\ \A g \in Targets, u \in Users : Of(r, g, u) \/
             (host'[g].auth[u] = host[g].auth[u] /\ host'[g].tmp[u] = host[g].tmp[u])
    BY <2>2 DEF AuthSet, Of
  <2>4. \A g \in Targets, u \in Users : Of(r, g, u) /\ <<g, u>> \notin clashed' => Keeping(g, u)
    BY <1>4, <1>6
  <2> QED
    BY <1>1, <1>2, <1>3, <2>3, <2>4, CopyGrows
<1>7. CASE awk[r].out \notin {"tmp", "auth"}
  <2>1. host' = host
    BY <1>7 DEF CopyIDWrites
  <2>2. LinesShape'
    BY <2>1 DEF CopyKeys, HostKeys, LinesShape
  <2>4. ASSUME NEW g \in Targets, NEW u \in Users, Of(r, g, u), <<g, u>> \notin clashed' PROVE Keeping(g, u)
    <3>1. \A q \in Runs \ {r} : Of(q, g, u)' => ~Rewrites(q)'
      BY <1>1, <1>2, <2>4, SoloRun
    <3>2. host'[g].tmp[u] = {}
      BY <1>4, <1>7, <2>1, <2>4
    <3>3. \A p \in Runs : Carried(p, r, g, u)'
      BY <1>1, <3>2 DEF CopyRun, Carried
    <3>4. run'[r].pc \notin {"awkReads", "awkWrites"}
      BY <1>1 DEF CopyRun
    <3>5. \A p \in Runs : Listed(p, g, u) => p \in host'[g].auth[u]
      BY <2>1 DEF Listed
    <3> QED
      BY <3>1, <3>3, <3>4, <3>5, SoloKeeps
  <2> QED
    BY <1>1, <1>2, <1>3, <2>1, <2>2, <2>4, CopyGrows
<1> QED
  BY <1>5, <1>6, <1>7

LEMMA RenameLines == ASSUME CopyKeys, RunShape, NEW r \in Runs, CopyIDRenames(r) PROVE \A k : LinesGrow(k)
<1> DEFINE h == run[r].host
           v == run[r].user
<1>1. clashed' = clashed /\ Rewrites(r) /\ run[r].pc = "rename"
  BY DEF CopyIDRenames, Rewrites
<1>2. ASSUME NEW s \in {"mvFailed", "exit"}, CopyRun(r, s), NEW g \in Targets, NEW u \in Users, Of(r, g, u),
             <<g, u>> \notin clashed', \A p \in Runs : Listed(p, g, u) => p \in host'[g].auth[u]
      PROVE Keeping(g, u)
  <2>1. \A q \in Runs \ {r} : Of(q, g, u)' => ~Rewrites(q)'
    BY <1>1, <1>2, SoloRun
  <2>2. \A p \in Runs : Carried(p, r, g, u)'
    BY <1>2 DEF CopyRun, Carried
  <2>3. run'[r].pc \notin {"awkReads", "awkWrites"}
    BY <1>2 DEF CopyRun
  <2> QED
    BY <1>2, <2>1, <2>2, <2>3, SoloKeeps
<1>3. CASE host[h].tmp[v] = {}
  <2>1. host' = host /\ awk' = awk /\ run' = [run EXCEPT ![r].pc = "mvFailed"]
    BY <1>3 DEF CopyIDRenames
  <2>2. CopyRun(r, "mvFailed")
    BY <2>1, CopyRuns
  <2>3. LinesShape' /\ AwkForm'
    BY <2>1 DEF CopyKeys, HostKeys, LinesShape, AwkInv, AwkForm
  <2>4. \A g \in Targets, u \in Users : Of(r, g, u) /\ <<g, u>> \notin clashed' => Keeping(g, u)
    BY <1>2, <2>1, <2>2 DEF Listed
  <2> QED
    BY <1>1, <2>1, <2>2, <2>3, <2>4, CopyGrows
<1>4. CASE host[h].tmp[v] # {}
  <2>1. PICK lines \in host[h].tmp[v] : host' = [host EXCEPT ![h].auth[v] = lines, ![h].tmp[v] = {}]
    BY <1>4 DEF CopyIDRenames
  <2>2. run' = [run EXCEPT ![r].pc = "exit"] /\ awk' = AwkOutputs(r, AfterMv)
    BY <1>4 DEF CopyIDRenames
  <2>3. CopyRun(r, "exit")
    BY <2>2, CopyRuns
  <2>4. AwkForm' /\ Becoming(r, AfterMv)
    <3>1. AfterMv \in [Outputs -> Outputs]
      BY DEF AfterMv, Outputs
    <3> QED
      BY <2>2, <3>1, AwkBecomes DEF CopyKeys, AwkInv
  <2>5. BothSet(h, v, lines)
    BY <2>1, LinesMoved DEF CopyKeys
  <2>6. /\ LinesShape'
        /\ \A g \in Targets, u \in Users : Of(r, g, u) \/
             (host'[g].auth[u] = host[g].auth[u] /\ host'[g].tmp[u] = host[g].tmp[u])
        /\ \A g \in Targets, u \in Users : Of(r, g, u) => host'[g].auth[u] = lines
    BY <2>5 DEF BothSet, Of
  <2>7. \A q \in Runs \ {r} : Of(q, h, v) \/ awk'[q] = awk[q]
    BY <2>4 DEF Becoming
  <2>8. ASSUME NEW g \in Targets, NEW u \in Users, Of(r, g, u), <<g, u>> \notin clashed' PROVE Keeping(g, u)
    <3>1. lines \in host[g].tmp[u]
      BY <2>1, <2>8 DEF Of
    <3>2. \A p \in Runs : Listed(p, g, u) => p \in lines
      BY <1>1, <2>8, <3>1 DEF Listed, Carried
    <3>3. \A p \in Runs : Listed(p, g, u) => p \in host'[g].auth[u]
      BY <2>6, <2>8, <3>2
    <3> QED
      BY <1>2, <2>3, <2>8, <3>3
  <2> QED
    BY <1>1, <2>3, <2>4, <2>6, <2>7, <2>8, CopyGrows
<1> QED
  BY <1>3, <1>4

LEMMA TrapLines ==
    ASSUME CopyKeys, RunShape, NEW r \in Runs, CopyIDExits(r) \/ CopyIDBreaks(r) PROVE \A k : LinesGrow(k)
<1> DEFINE h == run[r].host
           v == run[r].user
<1>1. PICK s \in {"test", "failed"} : run' = [run EXCEPT ![r].pc = s]
  BY DEF CopyIDExits, CopyIDBreaks
<1>2. /\ host' = [host EXCEPT ![h].tmp[v] = {}] /\ clashed' = clashed
      /\ awk' = [AwkOutputs(r, AfterRm) EXCEPT ![r] = NoAwk]
  BY DEF CopyIDExits, CopyIDBreaks, TrapRemoves
<1>3. CopyRun(r, s)
  BY <1>1, CopyRuns
<1>4. AwkForm' /\ Becoming(r, AfterRm)
  <2>1. AfterRm \in [Outputs -> Outputs]
    BY DEF AfterRm, Outputs
  <2> QED
    BY <1>2, <2>1, AwkBecomes DEF CopyKeys, AwkInv
<1>5. TmpSet(h, v, {})
  BY <1>2, TmpPut DEF CopyKeys
<1>6. /\ LinesShape'
      /\ \A g \in Targets, u \in Users : Of(r, g, u) \/
           (host'[g].auth[u] = host[g].auth[u] /\ host'[g].tmp[u] = host[g].tmp[u])
      /\ \A g \in Targets, u \in Users : host'[g].auth[u] = host[g].auth[u]
      /\ \A g \in Targets, u \in Users : Of(r, g, u) => host'[g].tmp[u] = {}
  BY <1>5 DEF TmpSet, Of
<1>7. \A q \in Runs \ {r} : Of(q, h, v) \/ awk'[q] = awk[q]
  BY <1>4 DEF Becoming
<1>8. ASSUME NEW g \in Targets, NEW u \in Users, Of(r, g, u), <<g, u>> \notin clashed' PROVE Keeping(g, u)
  <2>1. One(g, u) /\ g = h /\ u = v
    BY <1>2, <1>8 DEF CopyKeys, AwkInv, Of
  <2>2. \A q \in Runs : Rewrites(q)' /\ Of(q, g, u)' => q # r /\ run'[q] = run[q]
    BY <1>1, <1>3 DEF CopyRun, Rewrites
  <2>3. ASSUME NEW q \in Runs, run'[q].pc \in {"awkReads", "awkWrites"}, Of(q, g, u)'
        PROVE awk'[q].out = "gone" /\ awk'[q].lines = awk[q].lines
    <3>1. q # r /\ run'[q] = run[q] /\ Of(q, g, u)
      BY <2>2, <2>3 DEF Rewrites, Of
    <3>2. awk[q].out \in {"tmp", "gone"}
      BY <2>1, <2>3, <3>1 DEF One
    <3>3. awk'[q].lines = awk[q].lines /\ awk'[q].out = AfterRm[awk[q].out]
      BY <1>4, <2>1, <3>1 DEF Becoming
    <3> QED
      BY <3>2, <3>3 DEF AfterRm, Outputs
  <2>4. host'[g].tmp[u] = {} /\ host'[g].auth[u] = host[g].auth[u]
    BY <1>6, <1>8
  <2>5. One(g, u)'
    <3>1. \A q, e \in Runs : Rewrites(q)' /\ Of(q, g, u)' /\ Rewrites(e)' /\ Of(e, g, u)' => q = e
      BY <2>1, <2>2 DEF One, Rewrites, Of
    <3>2. \A q \in Runs : run'[q].pc \in {"awkReads", "awkWrites"} /\ Of(q, g, u)' =>
             awk'[q].out = "gone" /\ host'[g].tmp[u] = {}
      BY <2>3, <2>4
    <3> QED
      BY <3>1, <3>2 DEF One
  <2>6. ASSUME NEW p \in Runs, Listed(p, g, u) PROVE Listed(p, g, u)'
    <3>1. ASSUME NEW q \in Runs, Of(q, g, u)' PROVE Carried(p, q, g, u)'
      <4>1. run'[q].pc = "awkWrites" => awk'[q].lines = awk[q].lines /\ run[q].pc = "awkWrites" /\ Of(q, g, u)
        BY <2>2, <2>3, <3>1 DEF Rewrites, Of
      <4> QED
        BY <2>4, <2>6, <4>1 DEF Carried, Listed
    <3> QED
      BY <2>4, <2>6, <3>1 DEF Listed
  <2> QED
    BY <2>4, <2>5, <2>6 DEF Keeping, Tidy
<1> QED
  BY <1>2, <1>3, <1>4, <1>6, <1>7, <1>8, CopyGrows

LEMMA RunLines == ASSUME KeyInv, HostShape, NEW r \in Runs, RunStep(r) PROVE LinesStep(r)
<1> DEFINE h == run[r].host
           v == run[r].user
           k == files[run[r].path].pub
<1>0. CopyKeys /\ RunShape /\ NoKey \notin Runs
  BY EnrollmentAssumption DEF CopyKeys, HostKeys, KeyInv, KeyTypes, EnrollInv
<1>10. \A q \in Runs \ {r} : run'[q] = run[q]
  BY <1>0, OneRunMoves
<1>11. ~Copies(r) => awk' = awk /\ clashed' = clashed
  <2>1. Moves(r) /\ ~Copies(r) => awk' = awk /\ clashed' = clashed
    BY ZenonT(30)
       DEF Moves, Inspect, RememberKeyFile, WritePrivate, WritePublic, NoToken, PublishWithCallback,
           PublishNoCallback, WaitForPairCallbackRetry, GenKeyLoads, ProvisionLoads, SaveKeyPath,
           ToolSavesKeyPath, HardenWrites, HardenReloads, SavePaired, SaveProvisioned
  <2>2. Learns(r) => awk' = awk /\ clashed' = clashed
    BY ZenonT(30)
       DEF Learns, PairStarts, PreparePairKey, PairKeyGenerated, TakeReport, VerifyReported,
           VerifyNoCallback, GenKeyStarts, HandleGenKeyStarts, ProvisionStarts, StartGeneration,
           CopyIDStarts, CopyIDAppends, TestKey
  <2> QED
    BY <2>1, <2>2 DEF RunStep
<1>12. ~Copies(r) => run'[r].pc \notin Rewriting
  <2>1. Begins(r) \/ GoesOn(r)
    BY RunGoes
  <2> QED
    BY <2>1 DEF Begins, GoesOn, Rewriting
<1>13. ~Copies(r) => Calm
  BY <1>10, <1>11, <1>12 DEF Calm, Rewrites, Rewriting
<1>1. CASE CopyIDAppends(r)
  <2>1. host' = host \/ host' = [host EXCEPT ![h].auth[v] = host[h].auth[v] \cup {k}]
    BY <1>1 DEF CopyIDAppends
  <2>2. run[r].pc = "append"
    BY <1>1 DEF CopyIDAppends
  <2>3. ~Copies(r)
    <3>1. Copies(r) => CopyMove(r)
      BY CopiesMove
    <3> QED
      BY <2>2, <3>1 DEF CopyMove
  <2>4. run'[r].pc \notin Rewriting
    BY <1>12, <2>3
  <2>5. LinesGrow(k)
    <3>1. CASE host' = host
      BY <1>0, <1>13, <2>3, <3>1, LinesStay
    <3>2. CASE host' = [host EXCEPT ![h].auth[v] = host[h].auth[v] \cup {k}]
      <4> DEFINE new == host[h].auth[v] \cup {k}
      <4>1. host' = [host EXCEPT ![h].auth[v] = new]
        BY <3>2
      <4> HIDE DEF new
      <4>2. AuthSet(h, v, new)
        BY <1>0, <4>1, AuthPut DEF CopyKeys
      <4>3. /\ LinesShape'
            /\ \A g \in Targets, u \in Users :
                 /\ host'[g].tmp[u] = host[g].tmp[u]
                 /\ host'[g].auth[u] = host[g].auth[u] \/ host'[g].auth[u] = host[g].auth[u] \cup {k}
        BY <4>2 DEF AuthSet, new
      <4> HIDE DEF k
      <4>4. \A g, u : Quiet(g, u)
        BY <1>13, <2>3 DEF Calm, Quiet, Rewrites, Of
      <4> QED
        BY <1>0, <1>13, <2>3, <4>3, <4>4, QuietGrows DEF CopyKeys, Calm
    <3> QED
      BY <2>1, <3>1, <3>2
  <2> QED
    BY <1>1, <2>4, <2>5 DEF LinesStep, Rewriting
<1>2. CASE Copies(r) /\ ~CopyIDTruncates(r)
  <2>1. \A e : LinesGrow(e)
    BY <1>0, <1>2, ReadLines, WriteLines, RenameLines, TrapLines DEF Copies
  <2>2. run'[r].pc # "awkReads"
    <3>1. \E s \in {"awkWrites", "rename", "mvFailed", "exit", "test", "failed"} : run' = [run EXCEPT ![r].pc = s]
      BY <1>2, Zenon DEF Copies, CopyIDReads, CopyIDWrites, CopyIDRenames, CopyIDExits, CopyIDBreaks
    <3> QED
      BY <1>0, <3>1 DEF RunShape
  <2> QED
    BY <2>1, <2>2 DEF LinesStep
<1>3. CASE CopyIDTruncates(r)
  BY <1>0, <1>3, TruncateLines
<1>4. CASE ~Copies(r) /\ ~CopyIDAppends(r)
  <2>1. host' = host \/ \E g, d : host' = [host EXCEPT ![g].dropIn = d] \/ host' = [host EXCEPT ![g].keyOnly = d]
    <3>1. CASE HardenWrites(r) \/ HardenReloads(r)
      BY <3>1 DEF HardenWrites, HardenReloads, Reloaded
    <3>2. CASE Moves(r) /\ ~HardenWrites(r) /\ ~HardenReloads(r)
      BY <1>4, <3>2, ZenonT(30)
         DEF Moves, Inspect, RememberKeyFile, WritePrivate, WritePublic, NoToken, PublishWithCallback,
             PublishNoCallback, WaitForPairCallbackRetry, GenKeyLoads, ProvisionLoads, SaveKeyPath,
             ToolSavesKeyPath, SavePaired, SaveProvisioned
    <3>3. CASE Learns(r)
      BY <1>4, <3>3, ZenonT(30)
         DEF Learns, PairStarts, PreparePairKey, PairKeyGenerated, TakeReport, VerifyReported,
             VerifyNoCallback, GenKeyStarts, HandleGenKeyStarts, ProvisionStarts, StartGeneration,
             CopyIDStarts, TestKey
    <3> QED
      BY <3>1, <3>2, <3>3 DEF RunStep
  <2>2. \A e : LinesGrow(e)
    BY <1>0, <1>4, <1>13, <2>1, LinesStay
  <2>3. run'[r].pc # "awkReads"
    BY <1>4, <1>12 DEF Rewriting
  <2> QED
    BY <2>2, <2>3 DEF LinesStep
<1> QED
  BY <1>1, <1>2, <1>3, <1>4

\* A script adds the key it carries, or nothing.
LEMMA ScriptLines ==
    ASSUME CopyKeys, NEW r \in Runs, NEW w \in Places, ScriptInstalls(r, w)
    PROVE LinesGrow(run[r].pub)
<1> DEFINE h == w[1]
           k == run[r].pub
<1>0. HostKeys /\ Calm
  BY DEF CopyKeys, ScriptInstalls, Calm
<1>1. \/ host' = host \/ host' = PosixScript(h, w[2], k) \/ host' = WindowsScript(h, w[2], k)
  BY DEF ScriptInstalls, BuildScripts
<1>5. ASSUME LinesShape',
             \A g \in Targets, u \in Users :
                 /\ host'[g].tmp[u] = host[g].tmp[u]
                 /\ host'[g].auth[u] = host[g].auth[u] \/ host'[g].auth[u] = host[g].auth[u] \cup {k}
      PROVE LinesGrow(k)
  <2>1. \A g, u : Quiet(g, u)
    BY <1>0 DEF Calm, Quiet, Rewrites, Of
  <2> HIDE DEF k
  <2> QED
    BY <1>0, <1>5, <2>1, QuietGrows DEF CopyKeys, Calm
<1>2. CASE host' = host
  BY <1>0, <1>2, LinesStay
<1>3. CASE host' = PosixScript(h, w[2], k)
  <2> DEFINE v == w[2]
             new == host[h].auth[v] \cup {k}
  <2>1. host' = [host EXCEPT ![h].auth[v] = new]
    BY <1>3 DEF PosixScript
  <2> HIDE DEF new, h, v, k
  <2>2. AuthSet(h, v, new)
    BY <1>0, <2>1, AuthPut
  <2>3. /\ LinesShape'
        /\ \A g \in Targets, u \in Users :
              /\ host'[g].tmp[u] = host[g].tmp[u]
              /\ host'[g].auth[u] = host[g].auth[u] \/ host'[g].auth[u] = host[g].auth[u] \cup {k}
    BY <2>2 DEF AuthSet, new
  <2> QED
    BY <1>5, <2>3 DEF k
<1>4. CASE host' = WindowsScript(h, w[2], k) /\ host' # host
  <2> DEFINE new == [v \in Users |-> IF v \in Admins THEN host[h].auth[v] \cup {k} ELSE host[h].auth[v]]
  <2>1. host' = [host EXCEPT ![h].auth = new]
    BY <1>4 DEF WindowsScript
  <2>2. UserLines(new)
    BY DEF UserLines
  <2>4. \A v \in Users : new[v] \in {host[h].auth[v] \cup {k}, host[h].auth[v]}
    OBVIOUS
  <2> HIDE DEF new
  <2>3. AllSet(h, new)
    BY <1>0, <2>1, <2>2, AuthReplaced
  <2> HIDE DEF h, k
  <2>5. /\ LinesShape'
        /\ \A g \in Targets, u \in Users :
              /\ host'[g].tmp[u] = host[g].tmp[u]
              /\ host'[g].auth[u] = host[g].auth[u] \/ host'[g].auth[u] = host[g].auth[u] \cup {k}
    BY <2>3, <2>4 DEF AllSet
  <2> QED
    BY <1>5, <2>5 DEF k
<1> QED
  BY <1>1, <1>2, <1>3, <1>4

\* All that a step of run r does.
Acts(r) ==
    /\ plan' = plan /\ \A q \in Runs \ {r} : run'[q] = run[q]
    /\ Begins(r) \/ GoesOn(r)
    /\ FilesStep(r) /\ StoreStep(r) /\ ConfStep(r) /\ LinesStep(r) /\ agent \subseteq agent'
    /\ run[r].proved # NoProof => run'[r].proved = run[r].proved
    /\ \A q \in Runs, w \in Places : script'[q][w] = script[q][w] \/ (q = r /\ run[r].pc = "publish")

LEMMA RunActs == ASSUME KeyInv, HostShape, UnprovedInv, NEW r \in Runs, RunStep(r) PROVE Acts(r)
<1>5. Copies(r) => plan' = plan
  BY CopiesMove DEF CopyMove
<1>1. plan' = plan
  BY <1>5, Zenon DEF RunStep, Moves, Learns, Inspect, RememberKeyFile, WritePrivate, WritePublic, NoToken,
         PublishWithCallback, PublishNoCallback, WaitForPairCallbackRetry, GenKeyLoads, ProvisionLoads,
         SaveKeyPath, ToolSavesKeyPath, HardenWrites, HardenReloads, SavePaired, SaveProvisioned, PairStarts, PreparePairKey, PairKeyGenerated,
         TakeReport, VerifyReported, VerifyNoCallback, GenKeyStarts, HandleGenKeyStarts,
         ProvisionStarts, StartGeneration, CopyIDStarts, CopyIDAppends, TestKey
<1>0. RunShape /\ ReportType
  BY DEF KeyInv, EnrollInv
<1>2. \A q \in Runs \ {r} : run'[q] = run[q]
  BY <1>0, OneRunMoves
<1>3. run[r].proved # NoProof => run'[r].proved = run[r].proved
  BY <1>0, ProofStays
<1>4. \A q \in Runs, w \in Places : script'[q][w] = script[q][w] \/ (q = r /\ run[r].pc = "publish")
  <2>1. \/ script' = script
        \/ /\ run[r].pc = "publish"
           /\ script' = [script EXCEPT ![r] = [w \in Places |-> [script[r][w] EXCEPT !.pc = "ready"]]]
    BY <1>0, RunsKeepReports
  <2> QED
    BY <1>0, <2>1 DEF ReportType
<1> QED
  BY <1>1, <1>2, <1>3, <1>4, RunGoes, RunFiles, RunStore, RunConf, RunLines, Zenon DEF Acts

LEMMA ActsTypes == ASSUME KeyInv, NEW r \in Runs, Acts(r) PROVE KeyTypes' /\ StepsInv'
<1>0. plan \in Scenarios /\ plan[r].path \in Paths /\ PathType /\ UserType /\ ConfShape /\ FilesShape
  BY EnrollmentAssumption DEF KeyInv, KeyTypes, Plan
<1>1. PathType' /\ UserType'
  <2>1. /\ run'[r].path \in Paths \cup {"none"} /\ run'[r].user \in User
        /\ run'[r].pc \notin {"start", "failed"} => run'[r].path \in Paths
    <3>1. CASE Begins(r)
      BY <1>0, <3>1 DEF Begins, ConfShape
    <3>2. CASE GoesOn(r)
      BY <1>0, <3>2 DEF GoesOn, PathType
    <3> QED
      BY <3>1, <3>2 DEF Acts
  <2>2. conf'.user \in User /\ \A q \in Runs \ {r} : run'[q] = run[q]
    BY DEF Acts, ConfStep
  <2> QED
    BY <1>0, <2>1, <2>2 DEF PathType, UserType
<1>2. FilesShape'
  <2>1. CASE files' = files
    BY <1>0, <2>1 DEF FilesShape
  <2>2. CASE files' # files
    <3>1. PICK a, b : files' = [files EXCEPT ![run[r].path] = [priv |-> a, pub |-> b]]
      BY <2>2 DEF Acts, FilesStep
    <3>2. DOMAIN files = Paths /\ \A y \in Paths : files[y] = [priv |-> files[y].priv, pub |-> files[y].pub]
      BY <1>0 DEF FilesShape
    <3>3. DOMAIN files' = Paths /\ files' = [y \in Paths |-> files'[y]]
      BY <3>1, <3>2
    <3>4. \A y \in Paths : files'[y] = [priv |-> files'[y].priv, pub |-> files'[y].pub]
      BY <3>1, <3>2
    <3> QED
      BY <3>3, <3>4 DEF FilesShape
  <2> QED
    BY <2>1, <2>2
<1>3. KeyTypes'
  BY <1>0, <1>1, <1>2 DEF KeyTypes, Acts, ConfStep, StoreStep, LinesStep, LinesGrow
<1>4. /\ run'[r].pc \in Copying => plan[r].op \in {"copyID", "provision"}
      /\ run'[r].pc \in {"harden", "reload"} => Prov(r)
      /\ Prov(r) => run'[r].pc \in ProvSteps
      /\ run'[r].pc # "start"
  <2>1. CASE Begins(r)
    BY <2>1 DEF Begins, Copying, Making, ProvSteps, Prov
  <2>2. CASE GoesOn(r)
    BY <2>2 DEF GoesOn
  <2> QED
    BY <2>1, <2>2 DEF Acts
<1>5. StepsInv'
  <2>1. StepsInv
    BY DEF KeyInv
  <2>2. plan' = plan /\ \A q \in Runs \ {r} : run'[q] = run[q]
    BY DEF Acts
  <2> QED
    BY <1>4, <2>1, <2>2 DEF StepsInv, Prov
<1> QED
  BY <1>3, <1>5

\* A copier whose run stays where it is still finds its key listed, and a key
\* that was proved still signs.
LEMMA LinesOn ==
    ASSUME NEW p \in Runs, run'[p] = run[p], Lines(p), run[p].pc \in Begun => \E k : k # p /\ LinesGrow(k)
    PROVE Lines(p)'
<1>1. ASSUME NEW g \in Targets, NEW u \in Users, run[p].pc \in Begun, Of(p, g, u), <<g, u>> \notin clashed'
      PROVE Tidy(p, g, u)'
  <2>1. PICK k : k # p /\ LinesGrow(k)
    BY <1>1
  <2>2. Tidy(p, g, u)
    BY <1>1, <2>1 DEF Lines, LinesGrow
  <2> QED
    BY <1>1, <2>1, <2>2 DEF LinesGrow
<1> QED
  BY <1>1 DEF Lines, Of

LEMMA WorksOn ==
    ASSUME NEW p \in Runs, plan' = plan, run'[p].proved = run[p].proved, Works(p), Signs(p) => Signs(p)',
           \E k : LinesGrow(k)
    PROVE Works(p)'
<1>1. ASSUME NEW g \in Targets, NEW u \in Users, run[p].proved # NoProof, Proved(p, g, u), <<g, u>> \notin clashed'
      PROVE Listed(p, g, u)'
  <2>1. Listed(p, g, u)
    BY <1>1 DEF Works, LinesGrow
  <2> QED
    BY <1>1, <2>1 DEF LinesGrow
<1> QED
  BY <1>1 DEF Works, Proved

\* A step of another run leaves a provision and its key alone.
LEMMA OthersSpare ==
    ASSUME Apart, KeyInv, NEW p \in Runs, Prov(p), ProvInv(p), NEW r \in Runs \ {p}, Acts(r)
    PROVE ProvInv(p)'
<1> DEFINE x == plan[p].path
<1>0. /\ plan' = plan /\ x \in Paths /\ run'[p] = run[p] /\ p # NoKey /\ r # NoKey
      /\ \A q \in Runs \ {r} : run'[q] = run[q]
  BY EnrollmentAssumption DEF KeyInv, KeyTypes, Plan, Acts
<1>1. plan[r].op # "copyID" => plan[r].path # x
  BY DEF Apart
<1>2. Hidden(p) /\ Guests(p) /\ Home(p) /\ Kept(p) /\ Lines(p) /\ Works(p) /\ StepsInv
  BY DEF ProvInv, KeyInv
<1>3. run[r].pc \notin {"start", "failed"} => run[r].path \in Paths
  BY DEF KeyInv, KeyTypes, PathType
<1>4. run'[r].path = x => run[r].path = x \/ conf.path = x
  BY <1>1 DEF Acts, Begins, GoesOn
<1>5. conf'.path = x => conf.path = x \/ run[r].path = x
  BY DEF Acts, ConfStep
<1>6. Hidden(p)'
  BY <1>0, <1>2, <1>4, <1>5 DEF Hidden
<1>7. run[p].pc = "done" => Exists(x)
  BY <1>0, <1>2 DEF Kept, Made, MadeSteps, Exists
<1>8. run'[r].path = x => run'[r].pc \notin Making /\ ~run'[r].gen /\ ~Generates(r)
  <2>1. CASE Begins(r)
    BY <1>1, <1>2, <2>1 DEF Begins, StepsInv, Making, Generates
  <2>2. CASE GoesOn(r)
    <3>1. ASSUME run[r].path = x PROVE run[r].pc \notin Making /\ ~run[r].gen /\ ~Generates(r) /\ run[p].pc = "done"
      BY <1>2, <3>1 DEF Hidden, Guests
    <3> QED
      BY <1>7, <2>2, <3>1 DEF GoesOn, Making
  <2> QED
    BY <2>1, <2>2 DEF Acts
<1>9. Guests(p)'
  BY <1>0, <1>2, <1>8 DEF Guests, Generates
<1>10. Home(p)'
  BY <1>0, <1>2 DEF Home
<1>11. /\ files'[x] = files[x]
       /\ \A y \in Paths \ {x} : files'[y].pub # p
  <2>1. CASE files' = files
    BY <1>2, <2>1 DEF Kept
  <2>2. CASE files' # files
    <3>1. /\ run[r].pc \notin {"start", "failed", "done"}
          /\ run[r].pc \in Making \/ run[r].gen \/ Generates(r)
      BY <2>2 DEF Acts, FilesStep
    <3>2. PICK a, b : /\ files' = [files EXCEPT ![run[r].path] = [priv |-> a, pub |-> b]]
                      /\ b \in {NoKey, r, files[run[r].path].pub}
      BY <2>2 DEF Acts, FilesStep
    <3>3. run[r].path # x
      BY <1>2, <3>1 DEF Guests
    <3>4. DOMAIN files = Paths /\ run[r].path \in Paths
      BY <1>3, <3>1 DEF KeyInv, KeyTypes, FilesShape
    <3>5. b # p
      BY <1>0, <1>2, <3>2, <3>3, <3>4 DEF Kept
    <3> QED
      BY <1>2, <3>2, <3>3, <3>4, <3>5 DEF Kept
  <2> QED
    BY <2>1, <2>2
<1>12. /\ store'.key[x] = store.key[x] /\ \A y \in Paths \ {x} : store'.key[y] # p
  <2>1. CASE store'.key = store.key
    BY <1>2, <2>1 DEF Kept
  <2>2. CASE run[r].pc = "protect" /\ store'.key = [store.key EXCEPT ![run[r].path] = r]
    <3>1. run[r].path # x
      BY <1>2, <2>2 DEF Guests, Making
    <3>2. DOMAIN store.key = Paths
      BY DEF KeyInv, KeyTypes, StoreShape
    <3> QED
      BY <1>0, <1>2, <2>2, <3>1, <3>2 DEF Kept
  <2> QED
    BY <2>1, <2>2 DEF Acts, StoreStep
<1>13. run'[r].pub = p => run'[r].path = x
  <2>1. CASE Begins(r)
    BY <1>0, <1>2, <2>1 DEF Begins, StepsInv
  <2>2. CASE GoesOn(r)
    BY <1>2, <1>3, <2>2 DEF GoesOn, Kept
  <2> QED
    BY <2>1, <2>2 DEF Acts
<1>14. \A w \in Places : script'[p][w] = script[p][w]
  BY DEF Acts
<1>15. Made(p)' <=> Made(p)
  BY <1>0 DEF Made
<1>16. Kept(p)'
  <2>1. /\ \A q \in Runs \ {p} : run'[q].pub = p => run'[q].path = x
        /\ \A w \in Places : script'[p][w].pc = "idle"
    BY <1>0, <1>2, <1>13, <1>14 DEF Kept
  <2>2. /\ run[p].pc = "writePub" \/ Made(p) => files'[x].priv = p
        /\ Made(p) => files'[x].pub = p
        /\ store'.key[x] \in {NoKey, p}
        /\ \A y \in Paths \ {x} : files'[y].pub # p /\ store'.key[y] # p
    BY <1>2, <1>11, <1>12 DEF Kept
  <2> QED
    BY <1>0, <1>15, <2>1, <2>2 DEF Kept
<1>17. ASSUME run[p].pc # "done" PROVE \E k : k # p /\ LinesGrow(k)
  <2>1. CASE CopyIDAppends(r)
    <3>1. run[r].pc = "append" /\ run[r].path # x
      BY <1>2, <1>17, <2>1 DEF CopyIDAppends, Hidden
    <3>2. files[run[r].path].pub # p
      BY <1>2, <1>3, <3>1 DEF Kept
    <3> QED
      BY <3>2 DEF Acts, LinesStep
  <2>2. CASE ~CopyIDAppends(r)
    BY <1>0, <2>2 DEF Acts, LinesStep
  <2> QED
    BY <2>1, <2>2
<1>18. Lines(p)'
  <2>1. run[p].pc \in Begun => \E k : k # p /\ LinesGrow(k)
    BY <1>17 DEF Begun, Rewriting
  <2> QED
    BY <1>0, <1>2, <2>1, LinesOn
<1>19. Signs(p) => Signs(p)'
  BY <1>0, <1>12 DEF Signs, Acts, StoreStep
<1>20. Works(p)'
  <2>1. \E k : LinesGrow(k)
    BY DEF Acts, LinesStep
  <2> QED
    BY <1>0, <1>2, <1>19, <2>1, WorksOn
<1> QED
  BY <1>6, <1>9, <1>10, <1>16, <1>18, <1>20 DEF ProvInv

\* The steps of a provision.
OwnStep(p) ==
    LET path == run[p].path
    IN /\ run'[p].pc = "writePub" => files'[path].priv = p
       /\ run'[p].pc \in MadeSteps =>
            \/ run[p].pc \in MadeSteps
            \/ run[p].pc = "writePub" /\ files'[path].priv = files[path].priv /\ files'[path].pub = p
       /\ run'[p].pc \in Begun =>
            /\ run[p].pc \in Copying /\ (run'[p].pc = "awkReads" \/ run[p].pc \in Begun)
            /\ run'[p].host = run[p].host /\ run'[p].user = run[p].user /\ run'[p].proved = run[p].proved
       /\ \/ run'[p].proved = run[p].proved
          \/ /\ run[p].pc = "test" /\ KeyProved(p) /\ run'[p].proved = About(p)
             /\ host' = host /\ files' = files /\ store' = store /\ agent' = agent

LEMMA OwnSteps == ASSUME KeyInv, NEW p \in Runs, Prov(p), RunStep(p) PROVE OwnStep(p)
<1>0. IsRun(run[p]) /\ DOMAIN run = Runs /\ RunShape
  BY DEF KeyInv, EnrollInv, RunShape, IsRun
<1>1. ASSUME NEW s, run' = [run EXCEPT ![p].pc = s]
      PROVE /\ run'[p].pc = s /\ run'[p].host = run[p].host /\ run'[p].user = run[p].user
            /\ run'[p].proved = run[p].proved
  BY <1>0, <1>1 DEF IsRun
<1>9. run[p].pc \in ProvSteps
  BY DEF KeyInv, StepsInv
<1>10. run[p].pc \notin {"start", "failed"} =>
         /\ run[p].path \in Paths /\ DOMAIN files = Paths
         /\ files[run[p].path] = [priv |-> files[run[p].path].priv, pub |-> files[run[p].path].pub]
  BY DEF KeyInv, KeyTypes, PathType, FilesShape
<1>2. CASE Inspect(p) \/ RememberKeyFile(p)
  <2>1. \E s \in {"failed", "protect", "write"} : run' = [run EXCEPT ![p].pc = s]
    BY <1>2 DEF Inspect, RememberKeyFile
  <2> QED
    BY <1>1, <2>1 DEF OwnStep, MadeSteps, Copying, Begun, Rewriting
<1>3. CASE WritePrivate(p)
  <2>1. \/ run' = [run EXCEPT ![p].pc = "failed"]
        \/ run' = [run EXCEPT ![p].pc = "writePub"] /\ files' = [files EXCEPT ![run[p].path].priv = p]
    BY <1>3 DEF WritePrivate
  <2>2. run[p].pc = "write"
    BY <1>3 DEF WritePrivate
  <2>3. files' = [files EXCEPT ![run[p].path].priv = p] => files'[run[p].path].priv = p
    BY <1>10, <2>2
  <2> QED
    BY <1>1, <2>1, <2>3 DEF OwnStep, MadeSteps, Copying, Begun, Rewriting
<1>4. CASE WritePublic(p)
  <2>1. \/ run' = [run EXCEPT ![p].pc = "failed"]
        \/ run' = [run EXCEPT ![p].pc = "generated"] /\ files' = [files EXCEPT ![run[p].path].pub = p]
    BY <1>4 DEF WritePublic
  <2>2. run[p].pc = "writePub"
    BY <1>4 DEF WritePublic
  <2>3. files' = [files EXCEPT ![run[p].path].pub = p] =>
          files'[run[p].path].pub = p /\ files'[run[p].path].priv = files[run[p].path].priv
    BY <1>10, <2>2
  <2> QED
    BY <1>1, <2>1, <2>2, <2>3 DEF OwnStep, MadeSteps, Copying, Begun, Rewriting
<1>5. CASE ProvisionLoads(p)
  <2>1. run[p].pc = "generated" /\ \E s \in {"failed", "append"} : run' = [run EXCEPT ![p].pc = s]
    BY <1>5 DEF ProvisionLoads
  <2> QED
    BY <1>1, <2>1 DEF OwnStep, MadeSteps, Copying, Begun, Rewriting
<1>6. CASE Copies(p)
  <2>1. CopyMove(p)
    BY <1>6, CopiesMove
  <2> QED
    BY <1>1, <2>1 DEF CopyMove, OwnStep, MadeSteps, Copying, Begun, Rewriting
<1>7. CASE HardenWrites(p) \/ HardenReloads(p) \/ SaveProvisioned(p)
  <2>1. /\ run[p].pc \in {"harden", "reload", "save"}
        /\ \E s \in {"failed", "save", "reload", "done"} : run' = [run EXCEPT ![p].pc = s]
    BY <1>7 DEF HardenWrites, HardenReloads, SaveProvisioned
  <2> QED
    BY <1>1, <2>1 DEF OwnStep, MadeSteps, Copying, Begun, Rewriting
<1>8. CASE ProvisionStarts(p)
  <2>1. Begins(p)
    BY <1>8, StartsBegin
  <2>2. run'[p].pc \in {"inspect", "failed"} /\ run'[p].proved = run[p].proved
    BY <2>1 DEF Begins, Prov
  <2> QED
    BY <2>2 DEF OwnStep, MadeSteps, Copying, Begun, Rewriting
<1>11. CASE CopyIDAppends(p)
  <2>1. run[p].pc = "append" /\ run'[p].pc \in {"dedupe", "failed"} /\ run'[p].proved = run[p].proved
    BY <1>0, <1>11 DEF IsRun, CopyIDAppends
  <2> QED
    BY <2>1 DEF OwnStep, MadeSteps, Copying, Begun, Rewriting
<1>12. CASE TestKey(p)
  <2>1. run[p].pc = "test" /\ host' = host /\ files' = files /\ store' = store /\ agent' = agent
    BY <1>12 DEF TestKey
  <2>2. CASE run' = [run EXCEPT ![p].pc = "failed"]
    BY <1>1, <2>2 DEF OwnStep, MadeSteps, Copying, Begun, Rewriting
  <2>3. CASE run' # [run EXCEPT ![p].pc = "failed"]
    <3> DEFINE s == IF plan[p].op = "copyID" THEN "done" ELSE IF plan[p].harden THEN "harden" ELSE "save"
               e == [host |-> run[p].host, user |-> run[p].user, path |-> run[p].path]
    <3>1. KeyProved(p) /\ run' = [run EXCEPT ![p] = [run[p] EXCEPT !.pc = s, !.proved = e]]
      BY <1>12, <2>3 DEF TestKey
    <3>2. s \in {"done", "harden", "save"} /\ e = About(p)
      BY DEF About
    <3> HIDE DEF s, e
    <3>3. run'[p].pc = s /\ run'[p].proved = e
      BY <1>0, <3>1 DEF IsRun
    <3> QED
      BY <2>1, <3>1, <3>2, <3>3 DEF OwnStep, MadeSteps, Copying, Begun, Rewriting
  <2> QED
    BY <2>2, <2>3
<1>13. CASE Moves(p)
  <2>1. ~(\/ NoToken(p) \/ PublishWithCallback(p) \/ PublishNoCallback(p) \/ WaitForPairCallbackRetry(p)
          \/ GenKeyLoads(p) \/ SaveKeyPath(p) \/ ToolSavesKeyPath(p) \/ SavePaired(p))
    BY <1>9 DEF ProvSteps, Making, Copying, Prov, NoToken, PublishWithCallback, PublishNoCallback,
         WaitForPairCallbackRetry, GenKeyLoads, SaveKeyPath, ToolSavesKeyPath, SavePaired
  <2> QED
    BY <1>2, <1>3, <1>4, <1>5, <1>6, <1>7, <1>13, <2>1 DEF Moves
<1>14. CASE Learns(p)
  <2>1. ~(\/ PairStarts(p) \/ PreparePairKey(p) \/ PairKeyGenerated(p) \/ TakeReport(p) \/ VerifyReported(p)
          \/ VerifyNoCallback(p) \/ GenKeyStarts(p) \/ HandleGenKeyStarts(p) \/ CopyIDStarts(p))
    BY <1>9 DEF ProvSteps, Making, Copying, Prov, PairStarts, PreparePairKey, PairKeyGenerated, TakeReport,
         VerifyReported, VerifyNoCallback, GenKeyStarts, HandleGenKeyStarts, CopyIDStarts
  <2> QED
    BY <1>8, <1>11, <1>12, <1>14, <2>1 DEF Learns
<1> QED
  BY <1>13, <1>14 DEF RunStep

\* A provision keeps its key, and proves it where it stays listed.
LEMMA OwnKeeps ==
    ASSUME KeyInv, UnprovedInv, NEW p \in Runs, Prov(p), ProvInv(p), Acts(p), OwnStep(p)
    PROVE ProvInv(p)'
<1> DEFINE x == plan[p].path
<1>0. /\ plan' = plan /\ x \in Paths /\ p # NoKey
      /\ \A q \in Runs \ {p} : run'[q] = run[q]
  BY EnrollmentAssumption DEF KeyInv, KeyTypes, Plan, Acts
<1>1. Hidden(p) /\ Guests(p) /\ Home(p) /\ Kept(p) /\ Lines(p) /\ Works(p) /\ StepsInv
  BY DEF ProvInv, KeyInv
<1>2. run[p].pc # "done" /\ (run[p].pc # "start" => run[p].path = x) /\ run'[p].path = x
  BY <1>1 DEF Acts, Begins, GoesOn, Home, Prov
<1>3. Hidden(p)' /\ Guests(p)' /\ Home(p)'
  <2>1. run'[p].pc = "done" \/ conf'.path = conf.path
    BY DEF Acts, ConfStep
  <2>2. Hidden(p)'
    BY <1>0, <1>1, <1>2, <2>1 DEF Hidden
  <2>3. Guests(p)'
    BY <1>0, <1>1 DEF Guests, Generates
  <2> QED
    BY <1>0, <1>2, <2>2, <2>3 DEF Home
<1>4. \/ files' = files
      \/ /\ run[p].pc \in {"write", "writePub"} /\ run[p].path = x
         /\ \E k : files' = [files EXCEPT ![x] = k]
  BY <1>2 DEF Acts, FilesStep
<1>5. DOMAIN files = Paths /\ DOMAIN store.key = Paths
  BY DEF KeyInv, KeyTypes, FilesShape, StoreShape
<1>6. \A y \in Paths \ {x} : files'[y] = files[y]
  BY <1>0, <1>4, <1>5
<1>7. /\ store'.key[x] \in {store.key[x], p} /\ \A y \in Paths \ {x} : store'.key[y] = store.key[y]
  BY <1>0, <1>2, <1>5 DEF Acts, StoreStep
<1>8. run[p].proved # NoProof => run[p].pc \in Late
  BY DEF UnprovedInv
<1>9. Made(p)' => Made(p) \/ (run[p].pc = "writePub" /\ files'[x].priv = files[x].priv /\ files'[x].pub = p)
  <2>1. CASE run'[p].pc \in MadeSteps
    BY <1>2, <2>1 DEF OwnStep, Made
  <2>2. CASE run'[p].proved # NoProof
    BY <2>2 DEF OwnStep, Made, MadeSteps, Copying
  <2> QED
    BY <2>1, <2>2 DEF Made
<1>10. Made(p) => files' = files
  BY <1>4, <1>8 DEF Made, MadeSteps, Late, Copying
<1>11. run'[p].pc = "writePub" => files'[x].priv = p
  <2>1. Begins(p) => run'[p].pc # "writePub"
    BY DEF Begins
  <2>2. run'[p].pc = "writePub" => run[p].pc # "start"
    BY <2>1 DEF Acts, GoesOn
  <2> QED
    BY <1>2, <2>2 DEF OwnStep
<1>12. Kept(p)'
  <2>1. Made(p)' => files'[x].priv = p /\ files'[x].pub = p
    BY <1>1, <1>9, <1>10 DEF Kept
  <2>2. /\ store'.key[x] \in {NoKey, p}
        /\ \A y \in Paths \ {x} : files'[y].pub # p /\ store'.key[y] # p
    BY <1>1, <1>6, <1>7 DEF Kept
  <2>3. /\ \A q \in Runs \ {p} : run'[q].pub = p => run'[q].path = x
        /\ \A w \in Places : script'[p][w].pc = "idle"
    <3>1. run[p].pc # "publish"
      BY <1>1 DEF StepsInv, ProvSteps, Making, Copying
    <3> QED
      BY <1>0, <1>1, <3>1 DEF Kept, Acts
  <2> QED
    BY <1>0, <1>11, <2>1, <2>2, <2>3 DEF Kept
<1>13. Lines(p)'
  <2>1. ASSUME NEW g \in Targets, NEW u \in Users, run'[p].pc \in Begun, Of(p, g, u)', <<g, u>> \notin clashed'
        PROVE Tidy(p, g, u)'
    <3>0. run[p].pc \in Copying /\ Of(p, g, u)
      BY <2>1 DEF OwnStep, Of
    <3>1. CASE run'[p].pc = "awkReads"
      BY <2>1, <3>0, <3>1 DEF Acts, LinesStep
    <3>2. CASE run[p].pc \in Begun
      <4>1. ~CopyIDAppends(p)
        BY <3>2 DEF CopyIDAppends, Begun, Rewriting
      <4>2. LinesGrow(NoKey) /\ p # NoKey
        BY <1>0, <4>1 DEF Acts, LinesStep
      <4>3. Tidy(p, g, u)
        BY <1>1, <2>1, <3>0, <3>2, <4>2 DEF Lines, LinesGrow
      <4> QED
        BY <2>1, <4>2, <4>3 DEF LinesGrow
    <3> QED
      BY <2>1, <3>1, <3>2 DEF OwnStep
  <2> QED
    BY <2>1 DEF Lines
<1>14. \E k : LinesGrow(k)
  BY DEF Acts, LinesStep
<1>15. Signs(p) => Signs(p)'
  BY <1>0, <1>7 DEF Signs, Acts, StoreStep
<1>16. CASE run'[p].proved = run[p].proved
  <2>1. Works(p)'
    BY <1>0, <1>1, <1>14, <1>15, <1>16, WorksOn
  <2> QED
    BY <2>1, <1>3, <1>12, <1>13 DEF ProvInv
<1>17. CASE /\ run[p].pc = "test" /\ KeyProved(p) /\ run'[p].proved = About(p)
            /\ host' = host /\ files' = files /\ store' = store /\ agent' = agent
  <2>1. run[p].path = x /\ files[x].priv = p /\ store.key[x] \in {NoKey, p}
    BY <1>1, <1>2, <1>17 DEF Kept, Made, MadeSteps, Copying
  <2>2. run[p].user \in Users /\ Usable(files, store, agent, x) /\ p \in host[run[p].host].auth[run[p].user]
    BY <1>17, <2>1 DEF KeyProved, LoginWith, KeyInv, KeyTypes, UserType, User
  <2>3. Signs(p)
    BY <1>0, <2>1, <2>2 DEF Usable, ManagedAuth, LoadKeySigner, Signs
  <2>4. /\ run'[p].proved.path = x /\ run'[p].proved.user = run[p].user /\ run'[p].proved.host = run[p].host
    BY <1>17, <2>1 DEF About
  <2>5. ASSUME NEW g \in Targets, NEW u \in Users, Proved(p, g, u)', <<g, u>> \notin clashed'
        PROVE Listed(p, g, u)'
    <3>1. PICK k : LinesGrow(k)
      BY <1>14
    <3>2. Of(p, g, u)
      BY <2>4, <2>5 DEF Proved, Of
    <3>3. Listed(p, g, u)
      BY <1>1, <1>17, <2>2, <2>5, <3>1, <3>2 DEF Lines, LinesGrow, Begun, Tidy, Of
    <3> QED
      BY <2>5, <3>1, <3>3 DEF LinesGrow
  <2>6. Works(p)'
    BY <1>0, <1>15, <2>2, <2>3, <2>4, <2>5 DEF Works
  <2> QED
    BY <1>3, <1>12, <1>13, <2>6 DEF ProvInv
<1> QED
  BY <1>16, <1>17 DEF OwnStep

\* The other steps: scripts, restarts of sshd and edits of the record.
ElseStep ==
    /\ UNCHANGED <<plan, files, store, agent, run>>
    /\ \A p \in Runs, w \in Places : script[p][w].pc = "idle" => script'[p][w] = script[p][w]
    /\ LinesGrow(NoKey) \/ \E r \in Runs, w \in Places : script[r][w].pc # "idle" /\ LinesGrow(run[r].pub)
    /\ ConfShape' /\ conf'.user \in User /\ conf'.path \in {conf.path, "none"}

LEMMA ElseSteps ==
    ASSUME KeyInv, HostShape, [EnrollmentNext]_enrollmentVars
    PROVE (\E r \in Runs : RunStep(r)) \/ ElseStep
<1>0. CopyKeys /\ ConfShape /\ conf.user \in User /\ ReportType
  BY DEF CopyKeys, HostKeys, KeyInv, KeyTypes, UserType
<1>1. conf' = conf => ConfShape' /\ conf'.user \in User /\ conf'.path \in {conf.path, "none"}
  BY <1>0 DEF ConfShape
<1>7. awk' = awk /\ clashed' = clashed /\ run' = run => Calm
  BY DEF Calm
<1>2. ASSUME UNCHANGED <<plan, files, store, agent, run, script>>, LinesGrow(NoKey),
             ConfShape', conf'.user \in User, conf'.path \in {conf.path, "none"}
      PROVE ElseStep
  BY <1>2 DEF ElseStep
<1>3. CASE EditRecord
  <2>1. UNCHANGED <<plan, files, store, agent, run, script>> /\ host' = host /\ Calm
    BY <1>3, <1>7 DEF EditRecord
  <2>2. ConfShape' /\ conf'.user \in User /\ conf'.path \in {conf.path, "none"}
    <3>1. \/ \E h : conf' = [conf EXCEPT !.host = h] \/ conf' = NoRecord \/ \E u \in Users : conf' = Record0(h, u)
      BY <1>3 DEF EditRecord
    <3>2. ASSUME NEW h, conf' = [conf EXCEPT !.host = h]
          PROVE ConfShape' /\ conf'.user \in User /\ conf'.path \in {conf.path, "none"}
      BY <1>0, <3>2 DEF ConfShape
    <3>3. ASSUME NEW h, NEW u \in Users, conf' = Record0(h, u)
          PROVE ConfShape' /\ conf'.user \in User /\ conf'.path \in {conf.path, "none"}
      BY <3>3 DEF ConfShape, Record0, Record, User
    <3>4. CASE conf' = NoRecord
      BY <3>4 DEF ConfShape, NoRecord, User
    <3> QED
      BY <3>1, <3>2, <3>3, <3>4
  <2> QED
    BY <1>0, <1>2, <2>1, <2>2, LinesStay
<1>4. ASSUME NEW h, SshdRestarts(h) PROVE ElseStep
  <2>1. UNCHANGED <<plan, files, store, agent, run, script>> /\ conf' = conf /\ Calm
    BY <1>4, <1>7 DEF SshdRestarts
  <2>2. \E d : host' = [host EXCEPT ![h].keyOnly = d]
    BY <1>4 DEF SshdRestarts, Reloaded
  <2>3. LinesGrow(NoKey)
    BY <1>0, <2>1, <2>2, LinesStay
  <2> QED
    BY <1>1, <1>2, <2>1, <2>3
<1>5. CASE UNCHANGED enrollmentVars
  <2>1. UNCHANGED <<plan, files, store, agent, run, script>> /\ host' = host /\ conf' = conf /\ Calm
    BY <1>5, <1>7 DEF enrollmentVars
  <2> QED
    BY <1>0, <1>1, <1>2, <2>1, LinesStay
<1>6. ASSUME NEW r \in Runs, NEW w \in Places, ScriptInstalls(r, w) \/ ScriptCalls(r, w) \/ ScriptConfirms(r, w)
      PROVE ElseStep
  <2>1. script[r][w].pc # "idle" /\ UNCHANGED <<plan, files, store, agent, run>> /\ conf' = conf /\ Calm
    BY <1>6, <1>7 DEF ScriptInstalls, ScriptCalls, ScriptConfirms
  <2>2. LinesGrow(run[r].pub)
    <3>1. CASE ScriptInstalls(r, w)
      BY <1>0, <3>1, ScriptLines
    <3>2. CASE ScriptCalls(r, w) \/ ScriptConfirms(r, w)
      <4>1. host' = host
        BY <3>2 DEF ScriptCalls, ScriptConfirms
      <4> QED
        BY <1>0, <2>1, <4>1, LinesStay
    <3> QED
      BY <1>6, <3>1, <3>2
  <2>3. \A p \in Runs, v \in Places : p # r \/ v # w => script'[p][v] = script[p][v]
    <3>1. \E s : script' = [script EXCEPT ![r][w] = s]
      BY <1>6 DEF ScriptInstalls, ScriptCalls, ScriptConfirms
    <3> QED
      BY <1>0, <3>1 DEF ReportType
  <2>4. \A p \in Runs, v \in Places : script[p][v].pc = "idle" => script'[p][v] = script[p][v]
    BY <2>1, <2>3
  <2> QED
    BY <1>1, <2>1, <2>2, <2>4 DEF ElseStep
<1> QED
  BY <1>3, <1>4, <1>5, <1>6 DEF EnrollmentNext, RunStep, Moves, Learns, Copies

LEMMA ElseTypes == ASSUME KeyInv, ElseStep PROVE KeyTypes' /\ StepsInv'
<1>1. StepsInv' /\ PathType' /\ FilesShape' /\ StoreShape'
  BY DEF KeyInv, KeyTypes, ElseStep, StepsInv, PathType, FilesShape, StoreShape, Prov
<1>2. UserType'
  BY DEF KeyInv, KeyTypes, ElseStep, UserType
<1>3. LinesShape' /\ AwkInv'
  BY DEF ElseStep, LinesGrow
<1> QED
  BY <1>1, <1>2, <1>3 DEF KeyTypes, KeyInv, ElseStep

LEMMA ElseSpares ==
    ASSUME KeyInv, NEW p \in Runs, Prov(p), ProvInv(p), ElseStep PROVE ProvInv(p)'
<1> DEFINE x == plan[p].path
<1>0. x \in Paths /\ x # "none" /\ p # NoKey
  BY EnrollmentAssumption DEF KeyInv, KeyTypes, Plan
<1>1. Hidden(p) /\ Guests(p) /\ Home(p) /\ Kept(p) /\ Lines(p) /\ Works(p)
  BY DEF ProvInv
<1>2. UNCHANGED <<plan, files, store, agent, run>>
  BY DEF ElseStep
<1>3. Hidden(p)'
  BY <1>0, <1>1, <1>2 DEF Hidden, ElseStep
<1>4. Guests(p)' /\ Home(p)'
  BY <1>1, <1>2 DEF Guests, Home, Generates
<1>5. Kept(p)'
  <2>1. \A w \in Places : script'[p][w].pc = "idle"
    BY <1>1 DEF Kept, ElseStep
  <2> QED
    BY <1>1, <1>2, <2>1 DEF Kept, Made
<1>6. ASSUME run[p].pc # "done" PROVE \E k : k # p /\ LinesGrow(k)
  <2>1. CASE LinesGrow(NoKey)
    BY <1>0, <2>1
  <2>2. ASSUME NEW r \in Runs, NEW w \in Places, script[r][w].pc # "idle", LinesGrow(run[r].pub)
        PROVE \E k : k # p /\ LinesGrow(k)
    <3>1. run[r].pub # p
      BY <1>1, <1>6, <2>2 DEF Kept, Hidden
    <3> QED
      BY <2>2, <3>1
  <2> QED
    BY <2>1, <2>2 DEF ElseStep
<1>7. Lines(p)'
  <2>1. run[p].pc \in Begun => \E k : k # p /\ LinesGrow(k)
    BY <1>6 DEF Begun, Rewriting
  <2> QED
    BY <1>1, <1>2, <2>1, LinesOn
<1>8. Works(p)'
  <2>1. (\E k : LinesGrow(k)) /\ (Signs(p) => Signs(p)')
    BY <1>2 DEF ElseStep, Signs
  <2> QED
    BY <1>1, <1>2, <2>1, WorksOn
<1> QED
  BY <1>3, <1>4, <1>5, <1>7, <1>8 DEF ProvInv

ReachInv ==
    /\ Apart /\ ReportInv /\ ClosedInv /\ KeyTypes /\ StepsInv
    /\ \A p \in Runs : Prov(p) => ProvInv(p)
    /\ ClosedByProvision

LEMMA ReachStart == EnrollmentInit /\ Apart => ReachInv
<1> SUFFICES ASSUME EnrollmentInit, Apart PROVE ReachInv
  OBVIOUS
<1>1. ReportInv /\ ClosedInv
  BY ReportStart, ClosedStart
<1>2. /\ \A r \in Runs : run[r] = [pc |-> "start", cb |-> FALSE, host |-> "none", user |-> NoUser, path |-> "none",
                                   exists |-> FALSE, gen |-> FALSE, pub |-> NoKey, proved |-> NoProof]
      /\ \A h \in Targets : host[h] = [auth |-> [u \in Users |-> {}], tmp |-> [u \in Users |-> {}],
                                       dropIn |-> FALSE, keyOnly |-> FALSE]
      /\ \A y \in Paths : files[y] = [priv |-> NoKey, pub |-> NoKey] /\ store.key[y] = NoKey
      /\ \A r \in Runs, w \in Places : script[r][w] = [pc |-> "idle", tries |-> 0]
      /\ plan \in Scenarios /\ agent = {}
  BY DEF EnrollmentInit
<1>3. KeyTypes
  <2>1. PathType /\ UserType /\ ConfShape
    BY <1>2 DEF EnrollmentInit, PathType, UserType, User, ConfShape, NoRecord, Record0, Record
  <2>2. FilesShape /\ StoreShape
    BY DEF EnrollmentInit, FilesShape, StoreShape
  <2>3. LinesShape
    BY <1>2 DEF LinesShape
  <2>4. AwkForm
    BY DEF EnrollmentInit, AwkForm, NoAwk, Outputs
  <2>5. AwkInv
    BY <1>2, <2>4 DEF AwkInv, One, Rewrites
  <2> QED
    BY <1>2, <2>1, <2>2, <2>3, <2>5 DEF KeyTypes
<1>4. StepsInv
  BY <1>2 DEF StepsInv, Copying, Making, ProvSteps
<1>5. ASSUME NEW p \in Runs, Prov(p) PROVE ProvInv(p)
  <2>1. plan[p].path \in Paths /\ plan[p].path # "none" /\ p # NoKey
    BY <1>2, EnrollmentAssumption DEF Plan
  <2>2. \A r \in Runs : run[r].path = "none" /\ run[r].pc = "start" /\ run[r].pub = NoKey /\ run[r].proved = NoProof
    BY <1>2
  <2>3. conf.path = "none"
    BY DEF EnrollmentInit, NoRecord, Record0, Record
  <2>4. Hidden(p) /\ Guests(p) /\ Home(p) /\ Lines(p) /\ Works(p)
    BY <2>1, <2>2, <2>3 DEF Hidden, Guests, Home, Lines, Works, Begun, Rewriting
  <2>5. Kept(p)
    BY <1>2, <2>1, <2>2 DEF Kept, Made, MadeSteps, Copying
  <2> QED
    BY <2>4, <2>5 DEF ProvInv
<1>6. ClosedByProvision
  BY <1>2 DEF ClosedByProvision, Closing
<1> QED
  BY <1>1, <1>3, <1>4, <1>5, <1>6 DEF ReachInv

LEMMA ReachStep ==
    ASSUME ReachInv, [EnrollmentNext]_enrollmentVars PROVE ReachInv'
<1>1. ReportInv' /\ ClosedInv'
  BY ReportStep, ClosedStep DEF ReachInv
<1>2. KeyInv /\ HostShape /\ UnprovedInv /\ EnrollInv /\ Apart
  BY DEF ReachInv, ReportInv, ClosedInv, KeyInv
<1>3. ASSUME NEW r \in Runs, RunStep(r) PROVE ReachInv'
  <2>1. Acts(r)
    BY <1>2, <1>3, RunActs
  <2>2. KeyTypes' /\ StepsInv'
    BY <1>2, <2>1, ActsTypes
  <2>3. plan' = plan /\ \A q \in Runs : run[q].proved # NoProof => run'[q].proved = run[q].proved
    BY <2>1 DEF Acts
  <2>4. ASSUME NEW p \in Runs, Prov(p)' PROVE ProvInv(p)'
    <3>1. Prov(p) /\ ProvInv(p)
      BY <2>3, <2>4 DEF Prov, ReachInv
    <3>2. CASE p = r
      BY <1>2, <1>3, <2>1, <3>1, <3>2, OwnSteps, OwnKeeps
    <3>3. CASE p # r
      BY <1>2, <2>1, <3>1, <3>3, OthersSpare
    <3> QED
      BY <3>2, <3>3
  <2>5. \A h \in Targets : Closing(h)' =>
          Closing(h) \/ (Prov(r) /\ run[r].proved # NoProof /\ run[r].proved.host = h)
    <3>1. HardenWrites(r) => Prov(r)
      BY <1>2 DEF HardenWrites, KeyInv, StepsInv
    <3> QED
      BY <1>2, <1>3, <3>1, RunCloses, ClosesProved
  <2>6. ClosedByProvision'
    BY <2>3, <2>5 DEF ReachInv, ClosedByProvision, Prov
  <2> QED
    BY <1>1, <1>2, <2>2, <2>3, <2>4, <2>6 DEF ReachInv, Apart, Prov
<1>4. CASE ~\E r \in Runs : RunStep(r)
  <2>1. ElseStep
    BY <1>2, <1>4, ElseSteps
  <2>2. KeyTypes' /\ StepsInv'
    BY <1>2, <2>1, ElseTypes
  <2>3. plan' = plan /\ run' = run
    BY <2>1 DEF ElseStep
  <2>4. \A p \in Runs : Prov(p)' => ProvInv(p)'
    BY <1>2, <2>1, <2>3, ElseSpares DEF ReachInv, Prov
  <2>5. ClosedByProvision'
    BY <1>2, <1>4, <2>3, OtherCloses DEF ReachInv, ClosedByProvision, Prov
  <2> QED
    BY <1>1, <1>2, <2>2, <2>3, <2>4, <2>5 DEF ReachInv, Apart, Prov
<1> QED
  BY <1>3, <1>4

LEMMA ReachSound == ReachInv => KeyOnlyIsReachable
<1> SUFFICES ASSUME ReachInv, NEW h \in Targets, host[h].keyOnly
             PROVE \E p \in Runs : /\ run[p].proved.host = h
                                  /\ \/ LoginWith(h, run[p].proved.user, run[p].proved.path)
                                     \/ <<h, run[p].proved.user>> \in clashed
  BY DEF KeyOnlyIsReachable
<1>1. PICK p \in Runs : Prov(p) /\ run[p].proved # NoProof /\ run[p].proved.host = h
  BY DEF ReachInv, ClosedByProvision, Closing
<1> DEFINE x == plan[p].path
<1>2. Kept(p) /\ Works(p) /\ p # NoKey
  BY <1>1, EnrollmentAssumption DEF ReachInv, ProvInv
<1>3. /\ run[p].proved.path = x /\ run[p].proved.user \in Users /\ Signs(p)
      /\ <<h, run[p].proved.user>> \notin clashed => p \in host[h].auth[run[p].proved.user]
  BY <1>1, <1>2 DEF Works, Proved, Listed
<1>4. files[x].priv = p /\ store.key[x] \in {NoKey, p}
  BY <1>1, <1>2 DEF Kept, Made
<1>5. Usable(files, store, agent, x)
  BY <1>2, <1>3, <1>4 DEF Usable, ManagedAuth, LoadKeySigner, Signs
<1>6. <<h, run[p].proved.user>> \notin clashed => LoginWith(h, run[p].proved.user, run[p].proved.path)
  BY <1>3, <1>4, <1>5, EnrollmentAssumption DEF LoginWith
<1> QED
  BY <1>1, <1>6

\* A host that provision closed to passwords can still be reached with the key
\* it was closed for, whatever other commands copy, generate, edit or give up
\* between any two commands of the remote shells and whenever sshd restarts, for
\* any number of commands and hosts, if no other command generates a key at the
\* path of a provision, and unless two commands rewrote the authorized_keys of
\* its user through the shared temporary file at the same time
\* (hardenDisablePassword, CopyID, RemoveGeneratedKeyPair).
THEOREM ClosedHostsReachable == EnrollmentSpec /\ Apart => []KeyOnlyIsReachable
<1>1. ReachInv /\ [EnrollmentNext]_enrollmentVars => ReachInv'
  BY ReachStep
<1> QED
  BY <1>1, ReachStart, ReachSound, PTL DEF EnrollmentSpec

=============================================================================
