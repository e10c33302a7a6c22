------------------------- MODULE CloudAccountProofs -------------------------
(***************************************************************************)
(* Proofs about CloudAccount for any number of installations and links and *)
(* any bounds.                                                             *)
(***************************************************************************)
EXTENDS CloudAccount, TLAPS

-----------------------------------------------------------------------------
(* Types of the records that the actions build                             *)

LEMMA IdleType == Blank \in Request /\ Idle \in Process /\ NoAnswer \in Answer
  BY DEF Blank, Request, Clients, Kinds, Idle, Process, NoAnswer, Answer

\* The answer that the server gives is well formed if the account is.
LEMMA ReplyType ==
  ASSUME NEW r \in wire, NEW status, NEW token \in Nat,
         wire \subseteq Request, proc \in [Clients -> Process],
         account' \in Account, Reply(r, status, token)
  PROVE  wire' \subseteq Request /\ proc' \in [Clients -> Process]
<1>1. wire' \subseteq Request
  BY DEF Reply
<1> DEFINE a == [token |-> token, grant |-> 0, root |-> account'.snap,
                 revision |-> account'.revision]
<1>2. a \in Answer /\ r.from \in Clients /\ r \in Request
  BY DEF Answer, Account, Request
<1>3. proc[r.from] \in Process
  BY <1>2
<1>4. CASE r.orphan
  BY <1>1, <1>4 DEF Reply
<1>5. CASE ~r.orphan /\ Ends(r, status)
  BY <1>1, <1>2, <1>5, IdleType DEF Reply
<1>6. CASE ~r.orphan /\ ~Ends(r, status)
  <2>1. proc' = [proc EXCEPT ![r.from] =
                    [proc[r.from] EXCEPT !.step = "answered", !.ans = a]]
    BY <1>6, <1>2 DEF Reply, a
  <2>2. [proc[r.from] EXCEPT !.step = "answered", !.ans = a] \in Process
    BY <1>2, <1>3 DEF Process
  <2> HIDE DEF a
  <2> QED BY <1>1, <1>2, <2>1, <2>2
<1> QED BY <1>4, <1>5, <1>6

LEMMA RefuseType ==
  ASSUME NEW r \in wire, NEW status, ServerTypeOK, Refuse(r, status)
  PROVE  ServerTypeOK'
<1>1. account' \in Account
  BY DEF Refuse, server, ServerTypeOK
<1>2. wire' \subseteq Request /\ proc' \in [Clients -> Process]
  BY <1>1, ReplyType DEF Refuse, ServerTypeOK
<1> QED BY <1>1, <1>2 DEF Refuse, server, ServerTypeOK

LEMMA AdvanceType ==
  ASSUME NEW r \in wire, NEW s \in Request, ServerTypeOK, Advance(r, s)
  PROVE  ServerTypeOK'
BY DEF Advance, server, ServerTypeOK

LEMMA GrantedType ==
  ASSUME NEW D \in SUBSET Device, NEW id \in Nat,
         NEW kind \in {"cli", "browser"}, issued \in Nat
  PROVE  Granted(D, id, kind) \in SUBSET Device
BY DEF Granted, Others, Live, Device

LEMMA LoginType ==
  ASSUME NEW r \in wire, NEW acc \in Account, NEW id \in Nat,
         NEW kind \in {"cli", "browser"}, ServerTypeOK,
         Login(r, acc, id, kind)
  PROVE  ServerTypeOK'
<1>1. CASE HasRoom(acc.devices, id)
  <2>1. Granted(acc.devices, id, kind) \in SUBSET Device
    BY GrantedType DEF ServerTypeOK, Account
  <2>2. account' = [acc EXCEPT !.devices = Granted(acc.devices, id, kind)]
    BY <1>1 DEF Login
  <2>3. account' \in Account
    BY <2>1, <2>2 DEF Account
  <2>4. /\ Reply(r, 200, issued + 1) /\ issued' = issued + 1
        /\ UNCHANGED <<expired, links, rotator>>
    BY <1>1 DEF Login
  <2>5. wire' \subseteq Request /\ proc' \in [Clients -> Process]
    BY <2>3, <2>4, ReplyType DEF ServerTypeOK
  <2> QED BY <2>3, <2>4, <2>5 DEF ServerTypeOK
<1>2. CASE ~HasRoom(acc.devices, id)
  BY <1>2, RefuseType DEF Login
<1> QED BY <1>1, <1>2

\* A handler that saves a well formed account and answers.
LEMMA SaveType ==
  ASSUME NEW r \in wire, ServerTypeOK, account' \in Account,
         links' \in [Links -> Link], issued' \in Nat, rotator' \in Nat,
         expired' \subseteq Nat, NEW token \in Nat, Reply(r, 200, token)
  PROVE  ServerTypeOK'
BY ReplyType DEF ServerTypeOK

LEMMA SessionIn ==
  ASSUME NEW t, Accepted(t)
  PROVE  Session(t) \in account.devices /\ Session(t).token = t
BY DEF Accepted, Session, Live

-----------------------------------------------------------------------------
(* The server keeps its types                                              *)

LEMMA SessionHandlersType ==
  ASSUME NEW r \in wire, ServerTypeOK,
         ServeTouch(r) \/ ServeRevoke(r) \/ ServePassword(r) \/ ServeDelete(r)
  PROVE  ServerTypeOK'
<1>0. account \in Account /\ r \in Request
  BY DEF ServerTypeOK
<1>1. CASE ~Accepted(r.token)
  BY <1>1, RefuseType
     DEF ServeTouch, ServeRevoke, ServePassword, ServeDelete, Resume
<1>2. CASE Accepted(r.token) /\ ServeTouch(r)
  <2>1. account' \in Account
    BY <1>0, <1>2 DEF ServeTouch, Resume, Reread, Account
  <2> QED BY <1>2, <2>1, SaveType DEF ServeTouch, Resume, ServerTypeOK
<1>3. CASE Accepted(r.token) /\ ServeRevoke(r)
  <2>1. account' \in Account
    BY <1>0, <1>3 DEF ServeRevoke, Resume, Reread, Account
  <2> QED BY <1>3, <2>1, SaveType DEF ServeRevoke, Resume, ServerTypeOK
<1>4. CASE Accepted(r.token) /\ ServePassword(r)
  <2>1. CASE account.pw # r.base
    BY <1>4, <2>1, RefuseType DEF ServePassword, Resume
  <2>2. CASE account.pw = r.base
    <3>1. Session(r.token) \in Device /\ r.pw \in Nat
      BY <1>0, <1>4, SessionIn DEF Account, Request
    <3>2. account' = [account EXCEPT !.pw = r.pw,
                                     !.devices = {Session(r.token)}]
      BY <1>4, <2>2 DEF ServePassword, Resume
    <3>3. account' \in Account
      BY <1>0, <3>1, <3>2 DEF Account
    <3> QED BY <1>4, <2>2, <3>3, SaveType
            DEF ServePassword, Resume, ServerTypeOK
  <2> QED BY <2>1, <2>2
<1>5. CASE Accepted(r.token) /\ ServeDelete(r)
  <2>1. CASE account.pw # r.base
    BY <1>5, <2>1, RefuseType DEF ServeDelete, Resume
  <2>2. CASE account.pw = r.base
    <3>1. account' \in Account
      BY <1>5, <2>2 DEF ServeDelete, Resume, NoAccount, Account
    <3>2. links' \in [Links -> Link]
      BY <1>5, <2>2 DEF ServeDelete, Resume, ServerTypeOK, Link
    <3> QED BY <1>5, <2>2, <3>1, <3>2, SaveType
            DEF ServeDelete, Resume, ServerTypeOK
  <2> QED BY <2>1, <2>2
<1> QED BY <1>1, <1>2, <1>3, <1>4, <1>5

LEMMA PutType ==
  ASSUME NEW r \in wire, ServerTypeOK, ServePut(r) \/ CommitPut(r)
  PROVE  ServerTypeOK'
<1>0. account \in Account /\ r \in Request
  BY DEF ServerTypeOK
<1>1. CASE ServePut(r)
  <2>1. [r EXCEPT !.stage = "verifying", !.root = account.root] \in Request
    BY <1>0 DEF Request, Account
  <2> QED BY <1>1, <2>1, RefuseType, AdvanceType DEF ServePut, Resume
<1>2. CASE CommitPut(r) /\ ~(Accepted(r.token) /\ Current(r))
  BY <1>2, RefuseType DEF CommitPut
<1>3. CASE CommitPut(r) /\ Accepted(r.token) /\ Current(r)
  <2>1. Survivors(r) \subseteq Device
    BY <1>0, <1>3, SessionIn DEF Survivors, Account
  <2>2. r.vault \in Nat /\ r.base \in Nat /\ r.token \in Nat
    BY <1>0 DEF Request
  <2>3. account' \in Account
    <3>1. account' = Updated(r)
      BY <1>3 DEF CommitPut
    <3>2. CASE r.kind = "rotate"
      BY <1>0, <2>1, <2>2, <3>1, <3>2 DEF Updated, Account
    <3>3. CASE r.kind # "rotate"
      BY <1>0, <2>1, <2>2, <3>1, <3>3 DEF Updated, Account
    <3> QED BY <3>2, <3>3
  <2>4. rotator' \in Nat /\ UNCHANGED <<expired, links, issued>>
        /\ Reply(r, 200, 0)
    BY <1>3, <2>2 DEF CommitPut, ServerTypeOK
  <2> QED BY <2>3, <2>4, SaveType DEF ServerTypeOK
<1> QED BY <1>1, <1>2, <1>3

LEMMA LinkType ==
  ASSUME NEW r \in wire, ServerTypeOK,
         r.link \in Links \/ r.kind \notin {"link", "approve", "unlink"},
         ServeLink(r) \/ ServeApprove(r) \/ CommitApprove(r) \/ ServeUnlink(r)
  PROVE  ServerTypeOK'
<1>0. account \in Account /\ r \in Request /\ links \in [Links -> Link]
  BY DEF ServerTypeOK
<1>1. CASE ServeLink(r)
  <2>1. CASE ~Exists \/ Cardinality(Rows) >= LinkLimit
    BY <1>1, <2>1, RefuseType DEF ServeLink
  <2>2. CASE Exists /\ ~(Cardinality(Rows) >= LinkLimit)
    <3>1. links' = [links EXCEPT ![r.link] =
                       [links[r.link] EXCEPT !.status = "pending",
                                             !.id = r.id]]
      BY <1>0, <1>1, <2>2 DEF ServeLink
    <3>2. links' \in [Links -> Link]
      BY <1>0, <1>1, <3>1 DEF ServeLink, Link, Request
    <3> QED BY <1>1, <2>2, <3>2, SaveType DEF ServeLink, ServerTypeOK
  <2> QED BY <2>1, <2>2
<1>2. CASE ServeApprove(r)
  <2>1. [r EXCEPT !.stage = "verifying", !.root = account.root] \in Request
    BY <1>0 DEF Request, Account
  <2> QED BY <1>2, <2>1, RefuseType, AdvanceType DEF ServeApprove
<1>3. CASE CommitApprove(r)
  <2> DEFINE id == links[r.link].id
  <2>0. id \in Nat /\ issued \in Nat /\ r.root \in Nat /\ r.link \in Links
    BY <1>0, <1>3 DEF CommitApprove, Link, Request, ServerTypeOK
  <2>1. CASE ~MayApprove(r) \/ ~StillPending(r) \/ ~HasRoom(account.devices, id)
    BY <1>3, <2>1, RefuseType DEF CommitApprove
  <2>2. CASE MayApprove(r) /\ StillPending(r) /\ HasRoom(account.devices, id)
    <3>1. Granted(account.devices, id, "cli") \in SUBSET Device
      BY <1>0, <2>0, GrantedType DEF Account
    <3>2. account' \in Account
      BY <1>0, <1>3, <2>2, <3>1 DEF CommitApprove, Account
    <3>3. links' \in [Links -> Link]
      BY <1>0, <1>3, <2>0, <2>2 DEF CommitApprove, Link
    <3> QED BY <1>3, <2>0, <2>2, <3>2, <3>3, SaveType
            DEF CommitApprove, ServerTypeOK
  <2> QED BY <2>1, <2>2
<1>4. CASE ServeUnlink(r)
  <2>1. CASE UNCHANGED server
    <3>1. account' \in Account
      BY <1>0, <2>1 DEF server
    <3>2. \E status \in Nat : Reply(r, status, 0)
      BY <1>4 DEF ServeUnlink, Refuse
    <3> QED BY <2>1, <3>1, <3>2, ReplyType DEF server, ServerTypeOK
  <2>2. CASE ~UNCHANGED server
    <3>1. links' = [links EXCEPT ![r.link] =
                       [links[r.link] EXCEPT !.status = "gone"]]
          /\ UNCHANGED <<account, expired, issued, rotator>>
          /\ Reply(r, 200, 0)
      BY <1>0, <1>4, <2>2 DEF ServeUnlink, Refuse
    <3>2. links' \in [Links -> Link]
      BY <1>0, <1>4, <3>1 DEF ServeUnlink, Link
    <3> QED BY <3>1, <3>2, SaveType DEF ServerTypeOK
  <2> QED BY <2>1, <2>2
<1> QED BY <1>1, <1>2, <1>3, <1>4

\* Requests about a link carry one.
LinksNamed ==
    \A r \in wire : r.kind \in {"link", "approve", "unlink"} => r.link \in Links

LEMMA ServeType ==
  ASSUME NEW r \in wire, ServerTypeOK, LinksNamed, Serve(r)
  PROVE  ServerTypeOK'
<1>0. account \in Account /\ r \in Request
  BY DEF ServerTypeOK
<1>1. CASE ServeRegister(r)
  <2>1. [r EXCEPT !.stage = "verifying"] \in Request
    BY <1>0 DEF Request
  <2> QED BY <1>1, <2>1, RefuseType, AdvanceType DEF ServeRegister
<1>2. CASE CommitRegister(r)
  <2> DEFINE acc == [root |-> r.vault, recovery |-> r.vault, pw |-> r.pw,
                     snap |-> r.vault, revision |-> 1, devices |-> {}]
  <2>1. acc \in Account /\ r.id \in Nat
    BY <1>0 DEF Account, Request
  <2>2. Refuse(r, 409) \/ Login(r, acc, r.id, "cli")
    BY <1>2 DEF CommitRegister
  <2> HIDE DEF acc
  <2> QED BY <2>1, <2>2, RefuseType, LoginType
<1>3. CASE ServeLogin(r)
  <2>1. KindOf(r) \in {"cli", "browser"} /\ r.id \in Nat
    BY <1>0 DEF KindOf, Request
  <2> QED BY <1>0, <1>3, <2>1, RefuseType, LoginType DEF ServeLogin
<1>4. CASE ServeRecover(r)
  <2> DEFINE acc == [account EXCEPT !.pw = r.pw, !.devices = {}]
  <2>1. acc \in Account /\ r.id \in Nat
    BY <1>0 DEF Account, Request
  <2>2. Refuse(r, 401) \/ Login(r, acc, r.id, "cli")
    BY <1>4 DEF ServeRecover
  <2> HIDE DEF acc
  <2> QED BY <2>1, <2>2, RefuseType, LoginType
<1>5. CASE Route(r)
  <2>1. [r EXCEPT !.stage = "routed", !.saw = account.devices] \in Request
    BY <1>0 DEF Request, Account
  <2> QED BY <1>5, <2>1, RefuseType, AdvanceType DEF Route
<1>6. CASE ServeTouch(r) \/ ServeRevoke(r) \/ ServePassword(r) \/ ServeDelete(r)
  BY <1>6, SessionHandlersType
<1>7. CASE ServePut(r) \/ CommitPut(r)
  BY <1>7, PutType
<1>8. CASE ServeLink(r) \/ ServeApprove(r) \/ CommitApprove(r) \/ ServeUnlink(r)
  BY <1>8, LinkType DEF LinksNamed
<1> QED BY <1>1, <1>2, <1>3, <1>4, <1>5, <1>6, <1>7, <1>8 DEF Serve

-----------------------------------------------------------------------------
(* What serving a request may do                                           *)

\* The served request leaves, or stays with what it was sent to do.
WireEffect(r) ==
    /\ wire \ wire' \subseteq {r}
    /\ \A q \in wire' \ wire :
           /\ q.kind = r.kind /\ q.vault = r.vault /\ q.link = r.link
           /\ q.kind = "put" /\ q.stage = "verifying" => q.vault = q.root

\* A process gets its answer, or is done.
ProcEffect ==
    \A c \in Clients :
        \/ proc'[c] = Idle
        \/ /\ proc'[c].req = proc[c].req
           /\ proc'[c].step \in {proc[c].step, "answered"}

\* No session appears but the one that is being granted.
DeviceEffect ==
    /\ expired' = expired
    /\ \A d \in account'.devices : d \in account.devices \/ d.token = issued + 1

SameVault ==
    /\ account'.root = account.root /\ account'.recovery = account.recovery
    /\ account'.snap = account.snap /\ account'.revision = account.revision

NewVault(r) ==
    /\ account'.root = r.vault /\ account'.recovery = r.vault
    /\ account'.snap = r.vault

\* Registration, an update that the root in force signed, or a rotation.
VaultEffect(r) ==
    \/ SameVault
    \/ account' = NoAccount
    \/ r.kind = "register" /\ ~Exists /\ NewVault(r)
    \/ /\ r.kind = "put" /\ r.stage = "verifying" /\ account.root = r.root
       /\ account'.root = account.root /\ account'.recovery = account.recovery
       /\ account'.snap = r.vault /\ account'.revision = account.revision + 1
    \/ /\ r.kind = "rotate" /\ NewVault(r)
       /\ account'.revision = account.revision + 1

\* A request without an accepted token changes nothing.
AccessEffect(r) ==
    r.kind \in SessionKinds \cup {"approve", "unlink"} /\ ~Accepted(r.token)
    => UNCHANGED <<account, links>>

Effect(r) ==
    /\ WireEffect(r) /\ ProcEffect
    /\ DeviceEffect /\ VaultEffect(r) /\ AccessEffect(r)

LEMMA ReplyWire ==
  ASSUME NEW r \in wire, NEW status, NEW token, ServerTypeOK,
         Reply(r, status, token)
  PROVE  WireEffect(r) /\ ProcEffect
<1>1. WireEffect(r)
  BY DEF Reply, WireEffect
<1>2. r.from \in Clients /\ proc \in [Clients -> Process]
  BY DEF ServerTypeOK, Request
<1>3. CASE r.orphan \/ Ends(r, status)
  BY <1>1, <1>2, <1>3 DEF Reply, ProcEffect
<1>4. CASE ~r.orphan /\ ~Ends(r, status)
  <2> DEFINE a == [token |-> token, grant |-> 0, root |-> account'.snap,
                   revision |-> account'.revision]
  <2>1. proc' = [proc EXCEPT ![r.from] =
                    [proc[r.from] EXCEPT !.step = "answered", !.ans = a]]
    BY <1>2, <1>4 DEF Reply
  <2> HIDE DEF a
  <2> QED BY <1>1, <1>2, <2>1 DEF ProcEffect, Process
<1> QED BY <1>3, <1>4

LEMMA RefuseEffect ==
  ASSUME NEW r \in wire, NEW status, ServerTypeOK, Refuse(r, status)
  PROVE  Effect(r)
BY ReplyWire DEF Refuse, server, Effect, DeviceEffect, VaultEffect, SameVault,
                 AccessEffect

LEMMA AdvanceEffect ==
  ASSUME NEW r \in wire, NEW s, Advance(r, s),
         s.kind = r.kind, s.vault = r.vault, s.link = r.link,
         s.kind = "put" /\ s.stage = "verifying" => s.vault = s.root
  PROVE  Effect(r)
<1>1. WireEffect(r) /\ ProcEffect
  BY DEF Advance, WireEffect, ProcEffect
<1> QED BY <1>1 DEF Advance, server, Effect, DeviceEffect, VaultEffect,
                    SameVault, AccessEffect

LEMMA GrantedEffect ==
  ASSUME NEW D, NEW id, NEW kind, NEW d \in Granted(D, id, kind)
  PROVE  d \in D \/ d.token = issued + 1
BY DEF Granted, Others, Live

LEMMA RegistrationEffect ==
  ASSUME NEW r \in wire, ServerTypeOK,
         ServeRegister(r) \/ CommitRegister(r) \/ ServeLogin(r)
                          \/ ServeRecover(r)
  PROVE  Effect(r)
<1>0. account \in Account /\ r \in Request
  BY DEF ServerTypeOK
<1>1. CASE \E status \in Nat : Refuse(r, status)
  BY <1>1, RefuseEffect
<1>2. CASE ServeRegister(r) /\ ~Exists
  <2>1. Advance(r, [r EXCEPT !.stage = "verifying"]) /\ r.kind = "register"
    BY <1>2 DEF ServeRegister
  <2> QED BY <1>0, <2>1, AdvanceEffect DEF Request
<1>3. ASSUME NEW acc \in Account, NEW id, NEW kind,
             Login(r, acc, id, kind), HasRoom(acc.devices, id),
             acc.devices \subseteq account.devices,
             r.kind \in {"register", "login", "recover"},
             \/ /\ acc.root = account.root /\ acc.recovery = account.recovery
                /\ acc.snap = account.snap /\ acc.revision = account.revision
             \/ /\ r.kind = "register" /\ ~Exists
                /\ acc.root = r.vault /\ acc.recovery = r.vault
                /\ acc.snap = r.vault
      PROVE  Effect(r)
  <2>1. /\ account' = [acc EXCEPT !.devices = Granted(acc.devices, id, kind)]
        /\ Reply(r, 200, issued + 1)
        /\ expired' = expired
    BY <1>3 DEF Login
  <2>2. DeviceEffect
    <3>1. account'.devices = Granted(acc.devices, id, kind)
      BY <2>1 DEF Account
    <3> QED BY <1>3, <2>1, <3>1, GrantedEffect DEF DeviceEffect
  <2>3. VaultEffect(r)
    BY <1>3, <2>1 DEF VaultEffect, SameVault, NewVault, Account
  <2>4. AccessEffect(r)
    BY <1>3 DEF AccessEffect, SessionKinds
  <2> QED BY <2>1, <2>2, <2>3, <2>4, ReplyWire DEF Effect
<1>4. CASE CommitRegister(r) /\ ~Exists
  <2> DEFINE acc == [root |-> r.vault, recovery |-> r.vault, pw |-> r.pw,
                     snap |-> r.vault, revision |-> 1, devices |-> {}]
  <2>1. acc \in Account
    BY <1>0 DEF Account, Request
  <2>2. Login(r, acc, r.id, "cli") /\ r.kind = "register"
    BY <1>4 DEF CommitRegister
  <2>3. /\ acc.devices = {} /\ acc.root = r.vault /\ acc.recovery = r.vault
        /\ acc.snap = r.vault
    OBVIOUS
  <2> HIDE DEF acc
  <2>4. CASE HasRoom(acc.devices, r.id)
    BY <1>3, <1>4, <2>1, <2>2, <2>3, <2>4
  <2>5. CASE ~HasRoom(acc.devices, r.id)
    BY <2>2, <2>5, RefuseEffect DEF Login
  <2> QED BY <2>4, <2>5
<1>5. CASE ServeLogin(r) /\ Exists /\ account.pw = r.pw
  <2>1. Login(r, account, r.id, KindOf(r)) /\ r.kind = "login"
    BY <1>5 DEF ServeLogin
  <2>2. CASE HasRoom(account.devices, r.id)
    BY <1>0, <1>3, <2>1, <2>2
  <2>3. CASE ~HasRoom(account.devices, r.id)
    BY <2>1, <2>3, RefuseEffect DEF Login
  <2> QED BY <2>2, <2>3
<1>6. CASE ServeRecover(r) /\ Exists /\ account.recovery = r.vault
  <2> DEFINE acc == [account EXCEPT !.pw = r.pw, !.devices = {}]
  <2>1. acc \in Account
    BY <1>0 DEF Account, Request
  <2>2. Login(r, acc, r.id, "cli") /\ r.kind = "recover"
    BY <1>6 DEF ServeRecover
  <2>3. /\ acc.devices = {} /\ acc.root = account.root
        /\ acc.recovery = account.recovery /\ acc.snap = account.snap
        /\ acc.revision = account.revision
    BY <1>0 DEF Account
  <2> HIDE DEF acc
  <2>4. CASE HasRoom(acc.devices, r.id)
    BY <1>3, <2>1, <2>2, <2>3, <2>4
  <2>5. CASE ~HasRoom(acc.devices, r.id)
    BY <2>2, <2>5, RefuseEffect DEF Login
  <2> QED BY <2>4, <2>5
<1> QED BY <1>1, <1>2, <1>4, <1>5, <1>6
        DEF ServeRegister, CommitRegister, ServeLogin, ServeRecover

LEMMA SessionEffect ==
  ASSUME NEW r \in wire, ServerTypeOK,
         Route(r) \/ ServeTouch(r) \/ ServeRevoke(r) \/ ServePassword(r)
                  \/ ServeDelete(r)
  PROVE  Effect(r)
<1>0. account \in Account /\ r \in Request
  BY DEF ServerTypeOK
<1>1. CASE \E status \in Nat : Refuse(r, status)
  BY <1>1, RefuseEffect
<1>2. CASE Route(r) /\ Accepted(r.token)
  <2>1. Advance(r, [r EXCEPT !.stage = "routed", !.saw = account.devices])
    BY <1>2 DEF Route
  <2> QED BY <1>0, <2>1, AdvanceEffect DEF Request
<1>3. ASSUME Accepted(r.token), Reply(r, 200, 0), expired' = expired,
             account'.devices \subseteq account.devices,
             SameVault \/ account' = NoAccount
      PROVE  Effect(r)
  BY <1>3, ReplyWire DEF Effect, DeviceEffect, VaultEffect, AccessEffect
<1>4. CASE ServeTouch(r) /\ Accepted(r.token)
  <2>1. SameVault /\ account'.devices \subseteq account.devices
    BY <1>0, <1>4 DEF ServeTouch, Resume, Reread, SameVault, Account
  <2> QED BY <1>3, <1>4, <2>1 DEF ServeTouch, Resume
<1>5. CASE ServeRevoke(r) /\ Accepted(r.token)
  <2>1. SameVault /\ account'.devices \subseteq account.devices
    BY <1>0, <1>5 DEF ServeRevoke, Resume, Reread, SameVault, Account
  <2> QED BY <1>3, <1>5, <2>1 DEF ServeRevoke, Resume
<1>6. CASE ServePassword(r) /\ Accepted(r.token) /\ account.pw = r.base
  <2>1. account' = [account EXCEPT !.pw = r.pw,
                                   !.devices = {Session(r.token)}]
    BY <1>6 DEF ServePassword, Resume
  <2>2. SameVault
    BY <1>0, <2>1 DEF SameVault, Account
  <2>3. account'.devices \subseteq account.devices
    BY <1>0, <1>6, <2>1, SessionIn DEF Account
  <2> QED BY <1>3, <1>6, <2>2, <2>3 DEF ServePassword, Resume
<1>7. CASE ServeDelete(r) /\ Accepted(r.token) /\ account.pw = r.base
  <2>1. account' = NoAccount /\ account'.devices \subseteq account.devices
    BY <1>7 DEF ServeDelete, Resume, NoAccount
  <2> QED BY <1>3, <1>7, <2>1 DEF ServeDelete, Resume
<1> QED BY <1>1, <1>2, <1>4, <1>5, <1>6, <1>7
        DEF Route, ServeTouch, ServeRevoke, ServePassword, ServeDelete, Resume

\* A put is verified only if the root in force signed it; what was read before
\* the verification is read again.
LEMMA PutEffect ==
  ASSUME NEW r \in wire, ServerTypeOK, ServePut(r) \/ CommitPut(r)
  PROVE  Effect(r)
<1>0. account \in Account /\ r \in Request
  BY DEF ServerTypeOK
<1>1. CASE \E status \in Nat : Refuse(r, status)
  BY <1>1, RefuseEffect
<1>2. CASE /\ ServePut(r) /\ Accepted(r.token) /\ r.base = account.revision
           /\ Signed(r)
  <2> DEFINE s == [r EXCEPT !.stage = "verifying", !.root = account.root]
  <2>1. Advance(r, s)
    BY <1>2 DEF ServePut, Resume
  <2>2. /\ s.kind = r.kind /\ s.vault = r.vault /\ s.link = r.link
        /\ s.root = account.root
    BY <1>0 DEF Request
  <2>3. s.kind = "put" => s.vault = s.root
    BY <1>2, <2>2 DEF Signed
  <2> HIDE DEF s
  <2> QED BY <2>1, <2>2, <2>3, AdvanceEffect
<1>3. CASE CommitPut(r) /\ Accepted(r.token) /\ Current(r)
  <2>1. /\ account' = Updated(r) /\ Reply(r, 200, 0) /\ expired' = expired
        /\ r.kind \in {"put", "rotate"} /\ r.stage = "verifying"
    BY <1>3 DEF CommitPut
  <2>2. account'.devices = Survivors(r)
    BY <2>1 DEF Updated
  <2>3. Survivors(r) \subseteq account.devices
    BY <1>3, SessionIn DEF Survivors
  <2>4. VaultEffect(r)
    BY <1>3, <2>1 DEF VaultEffect, NewVault, Updated, Current
  <2> QED BY <1>3, <2>1, <2>2, <2>3, <2>4, ReplyWire
          DEF Effect, DeviceEffect, AccessEffect
<1> QED BY <1>1, <1>2, <1>3 DEF ServePut, CommitPut, Resume

LEMMA LinkEffect ==
  ASSUME NEW r \in wire, ServerTypeOK,
         ServeLink(r) \/ ServeApprove(r) \/ CommitApprove(r) \/ ServeUnlink(r)
  PROVE  Effect(r)
<1>0. account \in Account /\ r \in Request
  BY DEF ServerTypeOK
<1>1. CASE \E status \in Nat : Refuse(r, status)
  BY <1>1, RefuseEffect
<1>2. ASSUME UNCHANGED <<account, expired>>, Reply(r, 200, 0),
             r.kind = "link" \/ Accepted(r.token)
      PROVE  Effect(r)
  BY <1>2, ReplyWire DEF Effect, DeviceEffect, VaultEffect, SameVault,
                         AccessEffect, SessionKinds
<1>3. CASE ServeLink(r)
  BY <1>1, <1>2, <1>3 DEF ServeLink
<1>4. CASE ServeApprove(r)
  <2> DEFINE s == [r EXCEPT !.stage = "verifying", !.root = account.root]
  <2>1. s.kind = r.kind /\ s.vault = r.vault /\ s.link = r.link
    BY <1>0 DEF Request
  <2>2. CASE Advance(r, s)
    <3>1. r.kind = "approve"
      BY <1>4 DEF ServeApprove
    <3> HIDE DEF s
    <3> QED BY <2>1, <2>2, <3>1, AdvanceEffect
  <2> QED BY <1>1, <1>4, <2>2 DEF ServeApprove
<1>5. CASE CommitApprove(r) /\ ~(\E status \in Nat : Refuse(r, status))
  <2> DEFINE id == links[r.link].id
  <2>1. /\ account' = [account EXCEPT !.devices = Granted(@, id, "cli")]
        /\ MayApprove(r) /\ Reply(r, 200, 0) /\ expired' = expired
    BY <1>5 DEF CommitApprove
  <2>2. SameVault /\ account'.devices = Granted(account.devices, id, "cli")
    BY <1>0, <2>1 DEF SameVault, Account
  <2>3. DeviceEffect
    BY <2>1, <2>2, GrantedEffect DEF DeviceEffect
  <2> QED BY <2>1, <2>2, <2>3, ReplyWire
          DEF Effect, VaultEffect, AccessEffect, MayApprove
<1>6. CASE ServeUnlink(r)
  BY <1>1, <1>2, <1>6 DEF ServeUnlink
<1> QED BY <1>1, <1>3, <1>4, <1>5, <1>6

LEMMA ServeEffect ==
  ASSUME NEW r \in wire, ServerTypeOK, Serve(r)
  PROVE  Effect(r)
BY RegistrationEffect, SessionEffect, PutEffect, LinkEffect DEF Serve

\* What serving a request may do to a link.
LinksEffect(r) ==
    /\ r.kind = "link" => wire' = wire \ {r}
    /\ \A l \in Links :
           \/ links'[l] = links[l]
           \/ /\ links[l].status # "unused"
              /\ links'[l] = [links[l] EXCEPT !.status = "gone"]
           \/ r.kind = "link" /\ l = r.link
           \/ links[l].status = "pending"

LEMMA ServeLinks ==
  ASSUME NEW r \in wire, ServerTypeOK, LinksNamed, Serve(r)
  PROVE  LinksEffect(r)
<1>0. links \in [Links -> Link]
  BY DEF ServerTypeOK
<1>1. CASE ServeLink(r)
  <2>1. r.kind = "link" /\ r.link \in Links /\ wire' = wire \ {r}
    BY <1>1 DEF ServeLink, Refuse, Reply, LinksNamed
  <2>2. \A l \in Links : l # r.link => links'[l] = links[l]
    <3>1. CASE links' = links
      BY <3>1
    <3>2. CASE links' # links
      <4>1. links' = [links EXCEPT ![r.link] =
                         [links[r.link] EXCEPT !.status = "pending",
                                               !.id = r.id]]
        BY <1>0, <1>1, <2>1, <3>2 DEF ServeLink, Refuse, server
      <4> QED BY <1>0, <4>1
    <3> QED BY <3>1, <3>2
  <2> QED BY <2>1, <2>2 DEF LinksEffect
<1>2. CASE links' = links /\ ~ServeLink(r)
  <2>1. r.kind # "link"
    BY <1>2 DEF Serve, ServeRegister, CommitRegister, ServeLogin, ServeRecover,
                Route, ServeTouch, ServeRevoke, ServePassword, ServeDelete,
                ServePut, CommitPut, Resume, SessionKinds, ServeApprove,
                CommitApprove, ServeUnlink
  <2> QED BY <1>2, <2>1 DEF LinksEffect
<1>3. CASE links' # links /\ ServeDelete(r)
  <2>1. /\ r.kind = "delete"
        /\ links' = [l \in Links |->
                        IF links[l].status = "unused" THEN links[l]
                        ELSE [links[l] EXCEPT !.status = "gone"]]
    BY <1>3 DEF ServeDelete, Resume, Refuse, server
  <2> QED BY <2>1 DEF LinksEffect
<1>4. CASE links' # links /\ CommitApprove(r)
  <2>1. /\ r.kind = "approve" /\ links[r.link].status = "pending"
        /\ links' = [links EXCEPT ![r.link] =
                        [status |-> "approved", id |-> links[r.link].id,
                         root |-> r.root, token |-> issued + 1]]
    BY <1>4 DEF CommitApprove, Refuse, server, StillPending
  <2> QED BY <1>0, <2>1 DEF LinksEffect
<1>5. CASE links' # links /\ ServeUnlink(r)
  <2>1. r.kind = "unlink" /\ r.link \in Links
    BY <1>5 DEF ServeUnlink, LinksNamed
  <2>2. /\ r.link \in Rows
        /\ links' = [links EXCEPT ![r.link] =
                        [links[r.link] EXCEPT !.status = "gone"]]
    BY <1>0, <1>5, <2>1 DEF ServeUnlink, Refuse, server
  <2>3. links[r.link].status # "unused"
    BY <2>2 DEF Rows
  <2> QED BY <1>0, <2>1, <2>2, <2>3 DEF LinksEffect
<1>6. CASE links' # links /\ ~(ServeDelete(r) \/ CommitApprove(r)
                               \/ ServeUnlink(r) \/ ServeLink(r))
  <2>1. links' = links
    BY <1>6 DEF Serve, ServeRegister, CommitRegister, ServeLogin, ServeRecover,
                Login, Route, ServeTouch, ServeRevoke, ServePassword,
                ServePut, CommitPut, Resume, ServeApprove, Refuse, Advance,
                server
  <2> QED BY <1>6, <2>1
<1> QED BY <1>1, <1>2, <1>3, <1>4, <1>5, <1>6

-----------------------------------------------------------------------------
(* The inductive invariant                                                 *)

\* A process that polls asked for a link.
ProcLinks ==
    \A c \in Clients :
        /\ proc[c].req.kind = "link" => proc[c].req.link \in Links
        /\ proc[c].step \in {"polling", "linked"} => proc[c].req.kind = "link"

\* The root that was in force when a put was verified is the one that signed.
PutSigned ==
    \A r \in wire : r.kind = "put" /\ r.stage = "verifying" => r.vault = r.root

\* The code of a vault is in its file when the vault is on its way.
CodesSaved ==
    \A r \in wire : r.kind \in {"register", "rotate"} => r.vault \in codes

\* A link id that is on its way to the server is new there, and travels once.
LinkFresh ==
    \A r \in wire : r.kind = "link" =>
        /\ links[r.link].status = "unused"
        /\ \A q \in wire : q.kind = "link" /\ q.link = r.link => q = r

\* What the requests and processes of the clients satisfy.
ClientInv == LinksNamed /\ ProcLinks /\ PutSigned /\ CodesSaved /\ LinkFresh

IInv == TypeOK /\ ClientInv /\ OneVault /\ RecoverySaved

THEOREM InitIInv == Init => IInv
<1> SUFFICES ASSUME Init PROVE IInv
  OBVIOUS
<1>1. TypeOK
  BY IdleType DEF Init, ServerInit, TypeOK, ServerTypeOK, NoAccount, Account,
                  Link, State
<1>2. ClientInv
  BY DEF Init, ServerInit, ClientInv, LinksNamed, ProcLinks, PutSigned,
         CodesSaved, LinkFresh, Idle, Blank
<1>3. OneVault /\ RecoverySaved
  BY DEF Init, ServerInit, OneVault, RecoverySaved, Exists, NoAccount
<1> QED BY <1>1, <1>2, <1>3 DEF IInv

LEMMA ServerStepIInv ==
  ASSUME IInv, ServerStep
  PROVE  IInv'
<1> PICK r \in wire : Serve(r)
  BY DEF ServerStep
<1>0. UNCHANGED <<clients, faults>> /\ ServerTypeOK /\ TypeOK
  BY DEF ServerStep, IInv, TypeOK
<1>1. Effect(r)
  BY <1>0, ServeEffect
<1>2. ServerTypeOK'
  BY <1>0, ServeType DEF IInv, ClientInv
<1>3. TypeOK'
  BY <1>0, <1>2 DEF TypeOK, clients
<1>4. LinksNamed' /\ PutSigned' /\ CodesSaved'
  BY <1>0, <1>1 DEF IInv, ClientInv, Effect, WireEffect, LinksNamed, PutSigned,
                    CodesSaved, clients
<1>5. ProcLinks'
  <2> SUFFICES ASSUME NEW c \in Clients
               PROVE  /\ proc'[c].req.kind = "link" => proc'[c].req.link \in Links
                      /\ proc'[c].step \in {"polling", "linked"}
                            => proc'[c].req.kind = "link"
    BY DEF ProcLinks
  <2>1. CASE proc'[c] = Idle
    BY <2>1 DEF Idle, Blank
  <2>2. CASE proc'[c] # Idle
    BY <1>1, <2>2 DEF IInv, ClientInv, ProcLinks, Effect, ProcEffect
  <2> QED BY <2>1, <2>2
<1>7. LinkFresh'
  <2> SUFFICES ASSUME NEW q \in wire', q.kind = "link"
               PROVE  /\ links'[q.link].status = "unused"
                      /\ \A p \in wire' : p.kind = "link" /\ p.link = q.link
                                          => p = q
    BY DEF LinkFresh
  <2>1. LinksEffect(r)
    BY <1>0, ServeLinks DEF IInv, ClientInv
  <2>2. \A p \in wire' : p.kind = "link" => p \in wire /\ p # r
    BY <1>1, <2>1 DEF Effect, WireEffect, LinksEffect
  <2>3. q \in wire /\ q # r /\ q.link \in Links /\ links[q.link].status = "unused"
        /\ \A p \in wire : p.kind = "link" /\ p.link = q.link => p = q
    BY <2>2 DEF IInv, ClientInv, LinkFresh, LinksNamed
  <2>4. links'[q.link] = links[q.link]
    BY <2>1, <2>3 DEF LinksEffect
  <2> QED BY <2>2, <2>3, <2>4
<1>6. OneVault' /\ RecoverySaved'
  <2>1. CASE SameVault \/ account' = NoAccount
    BY <1>0, <2>1 DEF IInv, OneVault, RecoverySaved, Exists, SameVault,
                      NoAccount, clients
  <2>2. CASE NewVault(r) /\ r.kind \in {"register", "rotate"}
    BY <1>0, <2>2 DEF IInv, ClientInv, CodesSaved, OneVault, RecoverySaved,
                      NewVault, clients
  <2>3. CASE /\ r.kind = "put" /\ r.stage = "verifying" /\ account.root = r.root
             /\ account'.root = account.root
             /\ account'.recovery = account.recovery
             /\ account'.snap = r.vault
    BY <1>0, <2>3 DEF IInv, ClientInv, PutSigned, OneVault, RecoverySaved,
                      Exists, clients
  <2> QED BY <1>1, <2>1, <2>2, <2>3 DEF Effect, VaultEffect
<1> QED BY <1>3, <1>4, <1>5, <1>6, <1>7 DEF IInv, ClientInv

\* A request as a client may send it.
WellSent(c, q) ==
    /\ q \in Request /\ q.stage = "sent"
    /\ q.kind \in {"link", "approve", "unlink"} => q.link \in Links
    /\ q.kind \in {"register", "rotate"} => q.vault \in codes'
    /\ q.kind = "link" => /\ links[q.link].status = "unused"
                          /\ \A r \in wire : r.link # q.link

LEMMA AskType ==
  ASSUME TypeOK, NEW c \in Clients, NEW kind \in Kinds
  PROVE  /\ Ask(c, kind) \in Request
         /\ Ask(c, kind).kind = kind /\ Ask(c, kind).stage = "sent"
<1>1. disk[c].token \in Nat /\ disk[c].id \in Nat
  BY DEF TypeOK, State
<1> QED BY <1>1, IdleType DEF Ask, Blank, Request

LEMMA SendInv ==
  ASSUME IInv, NEW c \in Clients, NEW q, WellSent(c, q), Send(c, q),
         codes \subseteq codes', UNCHANGED server
  PROVE  ClientInv' /\ wire' \subseteq Request
                    /\ proc' \in [Clients -> Process]
<1>0. /\ wire \subseteq Request /\ proc \in [Clients -> Process]
      /\ q \in Request /\ q.stage = "sent"
  BY DEF IInv, TypeOK, ServerTypeOK, WellSent
<1>1. [step |-> "await", req |-> q, ans |-> NoAnswer] \in Process
  BY <1>0, IdleType DEF Process
<1>2. wire' \subseteq Request /\ proc' \in [Clients -> Process]
  BY <1>0, <1>1 DEF Send
<1>3. LinksNamed' /\ PutSigned' /\ CodesSaved'
  BY <1>0 DEF IInv, ClientInv, LinksNamed, PutSigned, CodesSaved, WellSent, Send
<1>4. ProcLinks'
  BY <1>0 DEF IInv, ClientInv, ProcLinks, WellSent, Send
<1>5. LinkFresh'
  BY DEF IInv, ClientInv, LinkFresh, WellSent, Send, server
<1> QED BY <1>2, <1>3, <1>4, <1>5 DEF ClientInv

\* A step of a client that leaves the account alone.
LEMMA ClientStepIInv ==
  ASSUME IInv, UNCHANGED server, codes \subseteq codes', ClientInv',
         wire' \subseteq Request, proc' \in [Clients -> Process],
         disk' \in [Clients -> State], codes' \subseteq Nat,
         vaults' \in Nat, passwords' \in Nat, ids' \in Nat, faults' \in Nat
  PROVE  IInv'
<1>1. TypeOK'
  BY DEF IInv, TypeOK, ServerTypeOK, server
<1>2. OneVault' /\ RecoverySaved'
  BY DEF IInv, OneVault, RecoverySaved, Exists, server
<1> QED BY <1>1, <1>2 DEF IInv

LEMMA DrawType ==
  ASSUME NEW id \in Nat, ids \in Nat, Draw(id)
  PROVE  ids' \in Nat
BY DEF Draw

LEMMA IdForType ==
  ASSUME TypeOK, NEW c \in Clients
  PROVE  IdFor(c) \in Nat
<1>1. disk[c] \in State /\ ids \in Nat
  BY DEF TypeOK
<1> QED BY <1>1 DEF IdFor, State

LEMMA StartIInv ==
  ASSUME IInv, Start
  PROVE  IInv'
<1>0. /\ TypeOK /\ UNCHANGED server /\ faults' \in Nat
      /\ disk \in [Clients -> State] /\ codes \subseteq Nat
      /\ vaults \in Nat /\ passwords \in Nat /\ ids \in Nat
      /\ account \in Account /\ Installs \subseteq Clients
      /\ Browser \in Clients
  BY DEF IInv, TypeOK, ServerTypeOK, Start, Clients
<1>a. account.pw \in Nat /\ account.root \in Nat /\ account.revision \in Nat
  BY <1>0 DEF Account
<1>1. ASSUME NEW c \in Clients, NEW q, WellSent(c, q), Send(c, q),
             codes \subseteq codes', disk' \in [Clients -> State],
             codes' \subseteq Nat, vaults' \in Nat, passwords' \in Nat,
             ids' \in Nat
      PROVE  IInv'
  BY <1>0, <1>1, SendInv, ClientStepIInv
<1>2. ASSUME NEW i \in Installs, Register(i) PROVE IInv'
  <2> DEFINE a == Ask(i, "register")
             q == [a EXCEPT !.vault = vaults + 1, !.token = 0,
                            !.pw = passwords + 1, !.id = ids + 1]
  <2>1. /\ Send(i, q) /\ codes' = codes \cup {vaults + 1}
        /\ vaults' = vaults + 1 /\ passwords' = passwords + 1
        /\ Draw(ids + 1) /\ disk' = disk
    BY <1>2 DEF Register, SaveRecovery
  <2>a. a \in Request /\ a.kind = "register" /\ a.stage = "sent"
    BY <1>0, AskType DEF Kinds
  <2> HIDE DEF a
  <2>b. passwords + 1 \in Nat /\ vaults + 1 \in Nat /\ ids + 1 \in Nat
    BY <1>0
  <2>c. q \in Request
    BY <1>0, <2>a, <2>b DEF Request
  <2>d. q.kind = a.kind /\ q.stage = a.stage /\ q.vault = vaults + 1
    BY <2>a DEF Request
  <2>2. WellSent(i, q)
    BY <2>1, <2>a, <2>c, <2>d DEF WellSent
  <2> HIDE DEF q
  <2> QED BY <1>0, <1>1, <2>1, <2>2, DrawType
<1>3. ASSUME NEW i \in Installs, ChangePassword(i) PROVE IInv'
  <2> DEFINE a == Ask(i, "password")
             q == [a EXCEPT !.base = account.pw,
                            !.pw = passwords + 1]
  <2>1. /\ Send(i, q) /\ passwords' = passwords + 1
        /\ UNCHANGED <<disk, codes, vaults, ids>>
    BY <1>3 DEF ChangePassword
  <2>a. a \in Request /\ a.kind = "password" /\ a.stage = "sent"
    BY <1>0, AskType DEF Kinds
  <2> HIDE DEF a
  <2>b. passwords + 1 \in Nat /\ vaults + 1 \in Nat /\ ids + 1 \in Nat
    BY <1>0
  <2>c. q \in Request
    BY <1>a, <2>a, <2>b DEF Request
  <2>d. q.kind = a.kind /\ q.stage = a.stage
    BY <2>a DEF Request
  <2>2. WellSent(i, q)
    BY <2>a, <2>c, <2>d DEF WellSent
  <2> HIDE DEF q
  <2> QED BY <1>0, <1>1, <2>1, <2>2
<1>4. ASSUME NEW i \in Installs, DeleteAccount(i) PROVE IInv'
  <2> DEFINE a == Ask(i, "delete")
             q == [a EXCEPT !.base = account.pw]
  <2>1. Send(i, q) /\ UNCHANGED clients
    BY <1>4 DEF DeleteAccount
  <2>a. a \in Request /\ a.kind = "delete" /\ a.stage = "sent"
    BY <1>0, AskType DEF Kinds
  <2> HIDE DEF a
  <2>2. WellSent(i, q)
    BY <1>0, <1>a, <2>1, <2>a DEF WellSent, Request
  <2> HIDE DEF q
  <2> QED BY <1>0, <1>1, <2>1, <2>2 DEF clients
<1>5. ASSUME NEW i \in Installs, Rekey(i) PROVE IInv'
  <2> DEFINE a == Ask(i, "rotate")
             q == [a EXCEPT !.vault = vaults + 1,
                            !.root = disk[i].root, !.base = disk[i].revision]
  <2>1. /\ Send(i, q) /\ codes' = codes \cup {vaults + 1}
        /\ vaults' = vaults + 1 /\ UNCHANGED <<disk, passwords, ids>>
    BY <1>5 DEF Rekey, SaveRecovery
  <2>2. disk[i].root \in Nat /\ disk[i].revision \in Nat
    BY <1>0 DEF State
  <2>a. a \in Request /\ a.kind = "rotate" /\ a.stage = "sent"
    BY <1>0, AskType DEF Kinds
  <2> HIDE DEF a
  <2>b. passwords + 1 \in Nat /\ vaults + 1 \in Nat /\ ids + 1 \in Nat
    BY <1>0
  <2>c. q \in Request
    BY <2>2, <2>a, <2>b DEF Request
  <2>d. q.kind = a.kind /\ q.stage = a.stage /\ q.vault = vaults + 1
    BY <2>a DEF Request
  <2>3. WellSent(i, q)
    BY <2>1, <2>a, <2>c, <2>d DEF WellSent
  <2> HIDE DEF q
  <2> QED BY <1>0, <1>1, <2>1, <2>3
<1>6. ASSUME NEW i \in Installs, Sync(i) PROVE IInv'
  <2> DEFINE a == Ask(i, "put")
             q == [a EXCEPT !.vault = disk[i].root,
                            !.base = account.revision]
  <2>1. /\ disk' = [disk EXCEPT ![i].revision = account.revision]
        /\ UNCHANGED <<codes, vaults, passwords, ids>>
        /\ Send(i, q) \/ UNCHANGED <<wire, proc>>
    BY <1>6 DEF Sync
  <2>2. disk' \in [Clients -> State]
    BY <1>0, <1>a, <2>1 DEF State
  <2>3. disk[i].root \in Nat
    BY <1>0 DEF State
  <2>4. CASE Send(i, q)
    <3>a. a \in Request /\ a.kind = "put" /\ a.stage = "sent"
      BY <1>0, AskType DEF Kinds
    <3> HIDE DEF a
    <3>1. WellSent(i, q)
      BY <1>0, <1>a, <2>1, <2>3, <3>a DEF WellSent, Request
    <3> HIDE DEF q
    <3> QED BY <1>0, <1>1, <2>1, <2>2, <2>4, <3>1
  <2>5. CASE UNCHANGED <<wire, proc>>
    <3>1. ClientInv' /\ wire' \subseteq Request
                     /\ proc' \in [Clients -> Process]
      BY <1>0, <2>1, <2>5
         DEF IInv, TypeOK, ServerTypeOK, ClientInv, LinksNamed, ProcLinks,
             PutSigned, CodesSaved, LinkFresh, server
    <3> QED BY <1>0, <2>1, <2>2, <3>1, ClientStepIInv
  <2> QED BY <2>1, <2>4, <2>5
<1>7. ASSUME NEW i \in Installs, NEW v \in codes, Recover(i, v) PROVE IInv'
  <2> DEFINE a == Ask(i, "recover")
             q == [a EXCEPT !.vault = v, !.token = 0,
                            !.pw = passwords + 1, !.id = ids + 1]
  <2>1. /\ Send(i, q) /\ passwords' = passwords + 1 /\ Draw(ids + 1)
        /\ UNCHANGED <<disk, codes, vaults>>
    BY <1>7 DEF Recover
  <2>a. a \in Request /\ a.kind = "recover" /\ a.stage = "sent"
    BY <1>0, AskType DEF Kinds
  <2> HIDE DEF a
  <2>b. passwords + 1 \in Nat /\ vaults + 1 \in Nat /\ ids + 1 \in Nat
    BY <1>0
  <2>c. q \in Request
    BY <1>0, <2>a, <2>b DEF Request
  <2>d. q.kind = a.kind /\ q.stage = a.stage
    BY <2>a DEF Request
  <2>2. WellSent(i, q)
    BY <2>a, <2>c, <2>d DEF WellSent
  <2> HIDE DEF q
  <2> QED BY <1>0, <1>1, <2>1, <2>2, DrawType
<1>8. ASSUME NEW i \in Installs, NEW l \in Links, LinkCommand(i, l) PROVE IInv'
  <2> DEFINE a == Ask(i, "link")
             q(rt) == [a EXCEPT !.link = l, !.token = 0, !.id = IdFor(i),
                                !.root = rt]
  <2>1. /\ Draw(IdFor(i))
        /\ UNCHANGED <<disk, codes, vaults, passwords>>
        /\ links[l].status = "unused" /\ \A r \in wire : r.link # l
    BY <1>8 DEF LinkCommand
  <2>b. PICK rt \in {disk[i].root, account.root} : Send(i, q(rt))
    BY <1>8 DEF LinkCommand
  <2>2. rt \in Nat /\ IdFor(i) \in Nat
    BY <1>0, <1>a, IdForType DEF State
  <2>a. a \in Request /\ a.kind = "link" /\ a.stage = "sent"
    BY <1>0, AskType DEF Kinds
  <2> HIDE DEF a
  <2>3. WellSent(i, q(rt))
    BY <1>0, <2>1, <2>2, <2>a DEF WellSent, Request
  <2> HIDE DEF q
  <2> QED BY <1>0, <1>1, <2>1, <2>2, <2>3, <2>b, DrawType
<1>9. ASSUME NEW c \in Clients, LoginCommand(c) PROVE IInv'
  <2> DEFINE a == Ask(c, "login")
             id == IF c = Browser THEN ids + 1 ELSE IdFor(c)
             q == [a EXCEPT !.pw = account.pw, !.token = 0,
                            !.id = id]
  <2>1. Send(c, q) /\ Draw(id) /\ UNCHANGED <<disk, codes, vaults, passwords>>
    BY <1>9 DEF LoginCommand
  <2>2. id \in Nat
    BY <1>0, IdForType
  <2> HIDE DEF id
  <2>a. a \in Request /\ a.kind = "login" /\ a.stage = "sent"
    BY <1>0, AskType DEF Kinds
  <2> HIDE DEF a
  <2>3. WellSent(c, q)
    BY <1>0, <1>a, <2>1, <2>2, <2>a DEF WellSent, Request
  <2> HIDE DEF q
  <2> QED BY <1>0, <1>1, <2>1, <2>2, <2>3, DrawType
<1>10. ASSUME NEW c \in Clients, Touch(c) \/ Logout(c) PROVE IInv'
  <2>1. /\ UNCHANGED clients
        /\ \E kind \in {"touch", "logout"} : Send(c, Ask(c, kind))
    BY <1>10 DEF Touch, Logout
  <2> PICK kind \in {"touch", "logout"} : Send(c, Ask(c, kind))
    BY <2>1
  <2>2. WellSent(c, Ask(c, kind))
    BY <1>0, AskType DEF WellSent, Kinds
  <2> QED BY <1>0, <1>1, <2>1, <2>2 DEF clients
<1>11. ASSUME NEW l \in Links, Approve(l) PROVE IInv'
  <2> DEFINE a == Ask(Browser, "approve")
             q == [a EXCEPT !.link = l,
                            !.vault = disk[Browser].root]
  <2>1. Send(Browser, q) /\ UNCHANGED clients
    BY <1>11 DEF Approve
  <2>2. disk[Browser].root \in Nat
    BY <1>0 DEF State
  <2>a. a \in Request /\ a.kind = "approve" /\ a.stage = "sent"
    BY <1>0, AskType DEF Kinds
  <2> HIDE DEF a
  <2>3. WellSent(Browser, q)
    BY <1>0, <2>2, <2>a DEF WellSent, Request
  <2> HIDE DEF q
  <2> QED BY <1>0, <1>1, <2>1, <2>3 DEF clients
<1>12. ASSUME NEW l \in Links, Reject(l) PROVE IInv'
  <2> DEFINE a == Ask(Browser, "unlink")
             q == [a EXCEPT !.link = l]
  <2>1. Send(Browser, q) /\ UNCHANGED clients
    BY <1>12 DEF Reject
  <2>a. a \in Request /\ a.kind = "unlink" /\ a.stage = "sent"
    BY <1>0, AskType DEF Kinds
  <2> HIDE DEF a
  <2>2. WellSent(Browser, q)
    BY <1>0, <2>a DEF WellSent, Request
  <2> HIDE DEF q
  <2> QED BY <1>0, <1>1, <2>1, <2>2 DEF clients
<1> QED BY <1>2, <1>3, <1>4, <1>5, <1>6, <1>7, <1>8, <1>9, <1>10, <1>11, <1>12
        DEF Start

LEMMA FinishInv ==
  ASSUME IInv, NEW c \in Clients, Finish(c), codes' = codes, UNCHANGED server
  PROVE  ClientInv' /\ wire' \subseteq Request
                    /\ proc' \in [Clients -> Process]
<1>0. wire \subseteq Request /\ proc \in [Clients -> Process] /\ wire' = wire
      /\ proc' = [proc EXCEPT ![c] = Idle]
  BY DEF IInv, TypeOK, ServerTypeOK, Finish
<1>1. LinksNamed' /\ PutSigned' /\ CodesSaved' /\ LinkFresh'
  BY <1>0 DEF IInv, ClientInv, LinksNamed, PutSigned, CodesSaved, LinkFresh,
              server
<1>2. ProcLinks'
  BY <1>0 DEF IInv, ClientInv, ProcLinks, Idle, Blank
<1> QED BY <1>0, <1>1, <1>2, IdleType DEF ClientInv

LEMMA FreshType ==
  ASSUME TypeOK, NEW c \in Clients
  PROVE  Fresh(c) \in State
<1>1. proc[c] \in Process
  BY DEF TypeOK, ServerTypeOK
<1> QED BY <1>1 DEF Fresh, State, Process, Answer, Request

LEMMA EndSessionType ==
  ASSUME TypeOK, NEW c \in Clients
  PROVE  EndSession(c) \in [Clients -> State]
<1>1. disk \in [Clients -> State] /\ disk[c] \in State
  BY DEF TypeOK
<1>2. CASE c = Browser
  BY <1>1, <1>2 DEF EndSession, State
<1>3. CASE c # Browser
  BY <1>1, <1>3 DEF EndSession, State
<1> QED BY <1>2, <1>3

LEMMA ContinueIInv ==
  ASSUME IInv, Continue
  PROVE  IInv'
<1>0. /\ TypeOK /\ UNCHANGED server /\ codes' = codes /\ codes \subseteq Nat
      /\ UNCHANGED <<vaults, passwords, ids, faults>>
      /\ vaults' \in Nat /\ passwords' \in Nat /\ ids' \in Nat /\ faults' \in Nat
      /\ disk \in [Clients -> State] /\ Installs \subseteq Clients
      /\ proc \in [Clients -> Process] /\ wire \subseteq Request
      /\ links \in [Links -> Link] /\ account \in Account
  BY DEF IInv, TypeOK, ServerTypeOK, Continue, Clients
<1>a. \A c \in Clients :
         /\ proc[c].ans \in Answer /\ proc[c].req \in Request
         /\ proc[c].ans.token \in Nat /\ proc[c].ans.root \in Nat
         /\ proc[c].ans.revision \in Nat
         /\ proc[c].req.id \in Nat /\ proc[c].req.vault \in Nat
  BY <1>0 DEF Process, Answer, Request
<1>1. ASSUME NEW c \in Clients, NEW q, WellSent(c, q), Send(c, q),
             disk' \in [Clients -> State]
      PROVE  IInv'
  BY <1>0, <1>1, SendInv, ClientStepIInv
<1>2. ASSUME NEW c \in Clients, Finish(c), disk' \in [Clients -> State]
      PROVE  IInv'
  BY <1>0, <1>2, FinishInv, ClientStepIInv
<1>3. ASSUME NEW i \in Installs, Granting(i) PROVE IInv'
  <2>1. disk' \in [Clients -> State]
    BY <1>0, <1>3, FreshType DEF Granting
  <2> QED BY <1>0, <1>2, <1>3, <2>1 DEF Granting
<1>4. ASSUME NEW i \in Installs, WrongPhrase(i) PROVE IInv'
  <2> DEFINE a == Ask(i, "undo")
             q == [a EXCEPT !.token = proc[i].ans.token,
                            !.id = proc[i].req.id]
  <2>1. Send(i, q) /\ disk' = disk
    BY <1>4 DEF WrongPhrase
  <2>2. a \in Request /\ a.kind = "undo" /\ a.stage = "sent"
    BY <1>0, AskType DEF Kinds
  <2> HIDE DEF a
  <2>3. WellSent(i, q)
    BY <1>0, <1>a, <2>2 DEF WellSent, Request
  <2> HIDE DEF q
  <2> QED BY <1>0, <1>1, <2>1, <2>3
<1>5. ASSUME NEW i \in Installs, PutAnswer(i) PROVE IInv'
  <2>1. disk' \in [Clients -> State]
    BY <1>0, <1>a, <1>5 DEF PutAnswer, State
  <2> QED BY <1>0, <1>2, <1>5, <2>1 DEF PutAnswer
<1>6. ASSUME NEW i \in Installs, RekeyAnswer(i) PROVE IInv'
  <2>1. disk' \in [Clients -> State]
    BY <1>0, <1>a, <1>6 DEF RekeyAnswer, State
  <2> QED BY <1>0, <1>2, <1>6, <2>1 DEF RekeyAnswer
<1>7. ASSUME NEW c \in Clients, LoginAnswer(c) PROVE IInv'
  <2>1. KeepDraft(c) \in State
    BY <1>0, <1>a DEF KeepDraft, State
  <2>2. \/ disk' = disk \/ disk' = [disk EXCEPT ![c] = Fresh(c)]
        \/ disk' = [disk EXCEPT ![c] = KeepDraft(c)]
    BY <1>7 DEF LoginAnswer
  <2>3. disk' \in [Clients -> State]
    BY <1>0, <2>1, <2>2, FreshType
  <2> QED BY <1>2, <1>7, <2>3 DEF LoginAnswer
<1>8. ASSUME NEW c \in Clients, RevokeAnswer(c) \/ LogoutAnswer(c) PROVE IInv'
  <2>1. disk' \in [Clients -> State]
    BY <1>0, <1>8, EndSessionType DEF RevokeAnswer, LogoutAnswer
  <2> QED BY <1>2, <1>8, <2>1 DEF RevokeAnswer, LogoutAnswer
<1>9. ASSUME NEW i \in Installs, LinkAnswer(i) PROVE IInv'
  <2>1. /\ proc' = [proc EXCEPT ![i].step = "polling"]
        /\ proc[i].req.kind = "link" /\ UNCHANGED <<disk, wire>>
    BY <1>9 DEF LinkAnswer, Answered
  <2>2. proc' \in [Clients -> Process]
    BY <1>0, <2>1 DEF Process
  <2>3. ProcLinks'
    BY <1>0, <2>1 DEF IInv, ClientInv, ProcLinks, Process
  <2>4. LinksNamed' /\ PutSigned' /\ CodesSaved' /\ LinkFresh'
    BY <1>0, <2>1 DEF IInv, ClientInv, LinksNamed, PutSigned, CodesSaved,
                      LinkFresh, server
  <2> QED BY <1>0, <2>1, <2>2, <2>3, <2>4, ClientStepIInv DEF ClientInv
<1>10. ASSUME NEW i \in Installs, Poll(i) PROVE IInv'
  <2> DEFINE row == links[proc[i].req.link]
             a == [token |-> row.token, root |-> account.snap,
                   revision |-> account.revision, grant |-> row.root]
             p == [proc[i] EXCEPT !.step = "linked", !.ans = a]
  <2>1. /\ proc[i].step = "polling" /\ UNCHANGED <<disk, wire>>
        /\ \/ proc' = [proc EXCEPT ![i] = Idle]
           \/ proc' = [proc EXCEPT ![i] = p]
    BY <1>0, <1>10 DEF Poll
  <2>2. proc[i].req.kind = "link" /\ proc[i].req.link \in Links
    BY <1>0, <2>1 DEF IInv, ClientInv, ProcLinks
  <2>3. a \in Answer
    BY <1>0, <2>2 DEF Answer, Link, Account
  <2> HIDE DEF a
  <2>4. p \in Process /\ p.req = proc[i].req
    BY <1>0, <2>3 DEF Process
  <2> HIDE DEF p
  <2>5. proc' \in [Clients -> Process]
    BY <1>0, <2>1, <2>4, IdleType
  <2>6. ProcLinks'
    <3>1. CASE proc' = [proc EXCEPT ![i] = Idle]
      BY <1>0, <3>1 DEF IInv, ClientInv, ProcLinks, Idle, Blank
    <3>2. CASE proc' = [proc EXCEPT ![i] = p]
      BY <1>0, <2>2, <2>4, <3>2 DEF IInv, ClientInv, ProcLinks
    <3> QED BY <2>1, <3>1, <3>2
  <2>7. LinksNamed' /\ PutSigned' /\ CodesSaved' /\ LinkFresh'
    BY <1>0, <2>1 DEF IInv, ClientInv, LinksNamed, PutSigned, CodesSaved,
                      LinkFresh, server
  <2> QED BY <1>0, <2>1, <2>5, <2>6, <2>7, ClientStepIInv DEF ClientInv
<1>11. ASSUME NEW i \in Installs, SaveLink(i) PROVE IInv'
  <2> DEFINE a == Ask(i, "unlink")
             q == [a EXCEPT !.token = proc[i].ans.token,
                            !.id = proc[i].req.id,
                            !.link = proc[i].req.link]
  <2>1. CASE disk' = [disk EXCEPT ![i] = Fresh(i)] /\ Send(i, q)
    <3>1. a \in Request /\ a.kind = "unlink" /\ a.stage = "sent"
      BY <1>0, AskType DEF Kinds
    <3> HIDE DEF a
    <3>2. proc[i].req.link \in Links
      BY <1>0, <1>11 DEF SaveLink, IInv, ClientInv, ProcLinks
    <3>3. q \in Request
      BY <1>0, <1>a, <3>1, <3>2 DEF Request
    <3>4. q.kind = a.kind /\ q.stage = a.stage /\ q.link = proc[i].req.link
      BY <3>1 DEF Request
    <3>5. WellSent(i, q)
      BY <3>1, <3>2, <3>3, <3>4 DEF WellSent
    <3>6. disk' \in [Clients -> State]
      BY <1>0, <2>1, FreshType
    <3> HIDE DEF q
    <3> QED BY <1>0, <1>1, <2>1, <3>5, <3>6
  <2>2. CASE disk' = disk /\ Finish(i)
    BY <1>0, <1>2, <2>2
  <2> QED BY <1>11, <2>1, <2>2 DEF SaveLink
<1> QED BY <1>3, <1>4, <1>5, <1>6, <1>7, <1>8, <1>9, <1>10, <1>11 DEF Continue

\* The steps that are no part of a command.
LEMMA OtherIInv ==
  ASSUME IInv,
         \/ (\E i \in Installs : Edit(i)) \/ Unlock \/ Expire
         \/ \E c \in Clients, d \in account.devices : Revoke(c, d.id)
         \/ \E c \in Clients : Fail(c)
  PROVE  IInv'
<1>0. /\ TypeOK /\ codes \subseteq Nat /\ account \in Account
      /\ vaults \in Nat /\ passwords \in Nat /\ ids \in Nat /\ faults \in Nat
      /\ disk \in [Clients -> State] /\ Installs \subseteq Clients
      /\ proc \in [Clients -> Process] /\ wire \subseteq Request
      /\ links \in [Links -> Link] /\ Browser \in Clients
  BY DEF IInv, TypeOK, ServerTypeOK, Clients
<1>1. CASE (\E i \in Installs : Edit(i)) \/ Unlock
  <2>1. disk' \in [Clients -> State]
    <3>1. ASSUME NEW i \in Installs, Edit(i) PROVE disk' \in [Clients -> State]
      BY <1>0, <3>1 DEF Edit, State
    <3>2. ASSUME Unlock PROVE disk' \in [Clients -> State]
      <4>1. account.snap \in Nat /\ account.revision \in Nat
        BY <1>0 DEF Account
      <4>2. disk' = [disk EXCEPT ![Browser].root = account.snap,
                                 ![Browser].revision = account.revision]
        BY <3>2 DEF Unlock
      <4> QED BY <1>0, <4>1, <4>2 DEF State
    <3> QED BY <1>1, <3>1, <3>2
  <2>2. UNCHANGED <<server, codes, vaults, passwords, ids, wire, proc, faults>>
    BY <1>1 DEF Edit, Unlock
  <2>3. ClientInv'
    BY <2>2 DEF IInv, ClientInv, LinksNamed, ProcLinks, PutSigned, CodesSaved,
                LinkFresh, server
  <2> QED BY <1>0, <2>1, <2>2, <2>3, ClientStepIInv
<1>2. CASE Expire
  <2>0. UNCHANGED <<account, issued, rotator, clients, wire, proc>>
        /\ faults' \in Nat
    BY <1>0, <1>2 DEF Expire
  <2>1. expired' \subseteq Nat
    BY <1>0, <1>2 DEF Expire, TypeOK, ServerTypeOK, Live, Account, Device
  <2>2. links' \in [Links -> Link]
    BY <1>0, <1>2 DEF Expire, Rows, Link
  <2>3. TypeOK'
    BY <2>0, <2>1, <2>2 DEF IInv, TypeOK, ServerTypeOK, clients
  <2>4. LinksNamed' /\ ProcLinks' /\ PutSigned' /\ CodesSaved' /\ OneVault'
        /\ RecoverySaved'
    BY <2>0 DEF IInv, ClientInv, LinksNamed, ProcLinks, PutSigned, CodesSaved,
                OneVault, RecoverySaved, Exists, clients
  <2>5. \A l \in Links : links[l].status = "unused" => links'[l] = links[l]
    BY <1>0, <1>2 DEF Expire, Rows
  <2>6. LinkFresh'
    BY <2>0, <2>5 DEF IInv, ClientInv, LinksNamed, LinkFresh
  <2> QED BY <2>3, <2>4, <2>6 DEF IInv, ClientInv
<1>3. ASSUME NEW c \in Clients, NEW d \in account.devices, Revoke(c, d.id)
      PROVE  IInv'
  <2> DEFINE a == Ask(c, "revoke")
             q == [a EXCEPT !.id = d.id]
  <2>1. Send(c, q) /\ UNCHANGED <<server, clients>> /\ faults' \in Nat
    BY <1>0, <1>3 DEF Revoke
  <2>2. a \in Request /\ a.kind = "revoke" /\ a.stage = "sent"
    BY <1>0, AskType DEF Kinds
  <2> HIDE DEF a
  <2>3. d.id \in Nat
    BY <1>0 DEF Account, Device
  <2>4. WellSent(c, q)
    BY <2>2, <2>3 DEF WellSent, Request
  <2> HIDE DEF q
  <2> QED BY <1>0, <2>1, <2>4, SendInv, ClientStepIInv DEF clients
<1>4. ASSUME NEW c \in Clients, Fail(c) PROVE IInv'
  <2> DEFINE mine == {r \in wire : r.from = c /\ ~r.orphan}
             lost == {[r EXCEPT !.orphan = TRUE] : r \in mine}
  <2>0. /\ UNCHANGED <<server, clients>> /\ faults' \in Nat
        /\ proc' = [proc EXCEPT ![c] = Idle]
        /\ wire' \subseteq wire \cup lost
    BY <1>0, <1>4 DEF Fail
  <2>1. \A q \in wire' : \E r \in wire :
           /\ q \in Request /\ q.kind = r.kind /\ q.link = r.link
           /\ q.stage = r.stage /\ q.vault = r.vault /\ q.root = r.root
    <3> SUFFICES ASSUME NEW q \in wire', q \notin wire
                 PROVE  \E r \in wire :
                           /\ q \in Request /\ q.kind = r.kind
                           /\ q.link = r.link /\ q.stage = r.stage
                           /\ q.vault = r.vault /\ q.root = r.root
      BY <1>0
    <3>1. PICK r \in wire : q = [r EXCEPT !.orphan = TRUE]
      BY <2>0
    <3> QED BY <1>0, <3>1 DEF Request
  <2>2. LinksNamed' /\ PutSigned' /\ CodesSaved' /\ wire' \subseteq Request
    BY <2>0, <2>1 DEF IInv, ClientInv, LinksNamed, PutSigned, CodesSaved,
                      clients
  <2>3. ProcLinks' /\ proc' \in [Clients -> Process]
    BY <1>0, <2>0, IdleType DEF IInv, ClientInv, ProcLinks, Idle, Blank
  <2>4. LinkFresh'
    <3> SUFFICES ASSUME NEW q \in wire', q.kind = "link",
                        NEW p \in wire', p.kind = "link", p.link = q.link
                 PROVE  links[q.link].status = "unused" /\ p = q
      BY <2>0 DEF LinkFresh, server
    <3>0. \A u \in wire' : \E r \in wire :
             \/ r \in mine /\ u = [r EXCEPT !.orphan = TRUE]
             \/ r \notin mine /\ u = r
      BY <1>4 DEF Fail
    <3>1. PICK r \in wire : \/ r \in mine /\ q = [r EXCEPT !.orphan = TRUE]
                            \/ r \notin mine /\ q = r
      BY <3>0
    <3>2. PICK t \in wire : \/ t \in mine /\ p = [t EXCEPT !.orphan = TRUE]
                            \/ t \notin mine /\ p = t
      BY <3>0
    <3>a. r.kind = "link" /\ r.link = q.link
      BY <1>0, <3>1 DEF Request
    <3>b. t.kind = "link" /\ t.link = q.link
      BY <1>0, <3>2 DEF Request
    <3>3. r = t /\ links[r.link].status = "unused"
      BY <3>a, <3>b DEF IInv, ClientInv, LinkFresh
    <3> QED BY <3>1, <3>2, <3>3, <3>a
  <2> QED BY <1>0, <2>0, <2>2, <2>3, <2>4, ClientStepIInv DEF ClientInv, clients
<1> QED BY <1>1, <1>2, <1>3, <1>4

LEMMA NextIInv == IInv /\ [Next]_vars => IInv'
<1> SUFFICES ASSUME IInv, [Next]_vars PROVE IInv'
  OBVIOUS
<1>1. CASE Next
  BY <1>1, ServerStepIInv, StartIInv, ContinueIInv, OtherIInv DEF Next
<1>2. CASE UNCHANGED vars
  BY <1>2 DEF vars, server, clients, IInv, TypeOK, ServerTypeOK, ClientInv,
              LinksNamed, ProcLinks, PutSigned, CodesSaved, LinkFresh,
              OneVault, RecoverySaved, Exists
<1> QED BY <1>1, <1>2

-----------------------------------------------------------------------------
(* The theorems                                                            *)

LEMMA Inductive == Spec => []IInv
BY InitIInv, NextIInv, PTL DEF Spec

(***************************************************************************)
(* Requests, sessions, links and saved states stay well formed.            *)
(***************************************************************************)
THEOREM TypeCorrect == Spec => []TypeOK
<1>1. IInv => TypeOK
  BY DEF IInv
<1> QED BY <1>1, Inductive, PTL

(***************************************************************************)
(* Whatever interleaves with an update or a rotation, the root, the        *)
(* recovery code and the snapshot of the account belong to one vault       *)
(* (index.ts, PUT: what was read before the signature check is read        *)
(* again).                                                                 *)
(***************************************************************************)
THEOREM VaultConsistent == Spec => []OneVault
<1>1. IInv => OneVault
  BY DEF IInv
<1> QED BY <1>1, Inductive, PTL

(***************************************************************************)
(* The recovery code that the server accepts is in a private file at every *)
(* moment, whichever process fails (cloudSaveRecovery before the request). *)
(***************************************************************************)
THEOREM CodeNeverLost == Spec => []RecoverySaved
<1>1. IInv => RecoverySaved
  BY DEF IInv
<1> QED BY <1>1, Inductive, PTL

\* The steps that are not the server's leave the account as it is.
LEMMA OtherSteps ==
  ASSUME Next \/ UNCHANGED vars, ~ServerStep
  PROVE  /\ UNCHANGED <<account, issued>> /\ expired \subseteq expired'
         /\ UNCHANGED links \/ UNCHANGED wire
<1>1. CASE UNCHANGED server
  BY <1>1 DEF server
<1>2. CASE Expire
  BY <1>2 DEF Expire
<1>3. CASE UNCHANGED vars
  BY <1>3 DEF vars, server
<1> QED BY <1>1, <1>2, <1>3
        DEF Next, Start, Continue, Edit, Unlock, Revoke, Fail

(***************************************************************************)
(* No step brings an ended session back: revocation, password change,      *)
(* rotation, recovery and expiry are final (index.ts, handle re-reads the  *)
(* account after the job router yields).                                   *)
(***************************************************************************)
THEOREM SessionsEndForGood == Spec => EndedStaysEnded
<1>1. ASSUME IInv, [Next]_vars
      PROVE  \A t \in 1..issued : ~Accepted(t) => ~Accepted(t)'
  <2> SUFFICES ASSUME NEW t \in 1..issued, Accepted(t)' PROVE Accepted(t)
    OBVIOUS
  <2>0. issued \in Nat
    BY <1>1 DEF IInv, TypeOK, ServerTypeOK
  <2>1. PICK d \in account'.devices : d.token = t /\ d.token \notin expired'
    BY DEF Accepted, Live
  <2>2. CASE ServerStep
    <3> PICK r \in wire : Serve(r)
      BY <2>2 DEF ServerStep
    <3>1. DeviceEffect
      BY <1>1, ServeEffect DEF IInv, TypeOK, Effect
    <3> QED BY <2>0, <2>1, <3>1 DEF DeviceEffect, Accepted, Live
  <2>3. CASE ~ServerStep
    <3>1. account' = account /\ expired \subseteq expired'
      BY <1>1, <2>3, OtherSteps
    <3> QED BY <2>1, <3>1 DEF Accepted, Live
  <2> QED BY <2>2, <2>3
<1> QED BY <1>1, Inductive, PTL DEF Spec, EndedStaysEnded

(***************************************************************************)
(* A request whose token is no longer accepted when it is carried out      *)
(* changes neither the account nor a link (index.ts, the second check of   *)
(* every handler).                                                         *)
(***************************************************************************)
THEOREM RevokedDoNothing == Spec => RevocationWins
<1>1. ASSUME IInv, [Next]_vars
      PROVE  \A r \in wire \ wire' :
                r.kind \in SessionKinds \cup {"approve", "unlink"}
                   /\ ~Accepted(r.token)
                => UNCHANGED <<account, links>>
  <2>1. CASE ServerStep
    <3> PICK r \in wire : Serve(r)
      BY <2>1 DEF ServerStep
    <3>1. Effect(r)
      BY <1>1, ServeEffect DEF IInv, TypeOK
    <3> QED BY <3>1 DEF Effect, WireEffect, AccessEffect
  <2>2. CASE ~ServerStep
    BY <1>1, <2>2, OtherSteps
  <2> QED BY <2>1, <2>2
<1> QED BY <1>1, Inductive, PTL DEF Spec, RevocationWins

(***************************************************************************)
(* Optimistic locking works: no update or rotation skips a revision, and   *)
(* the root changes only with one (index.ts, PUT: baseRevision).           *)
(***************************************************************************)
THEOREM NoLostRevision == Spec => RevisionGrows
<1>1. ASSUME IInv, [Next]_vars
      PROVE  Exists /\ Exists' =>
               \/ account'.revision = account.revision
                  /\ account'.root = account.root /\ account'.snap = account.snap
               \/ account'.revision = account.revision + 1
  <2>1. CASE ServerStep
    <3> PICK r \in wire : Serve(r)
      BY <2>1 DEF ServerStep
    <3>1. VaultEffect(r)
      BY <1>1, ServeEffect DEF IInv, TypeOK, Effect
    <3> QED BY <3>1 DEF VaultEffect, SameVault, NoAccount, Exists
  <2>2. CASE ~ServerStep
    BY <1>1, <2>2, OtherSteps
  <2> QED BY <2>1, <2>2
<1> QED BY <1>1, Inductive, PTL DEF Spec, RevisionGrows

(***************************************************************************)
(* A link request is approved at most once, so the device that polls for   *)
(* it is given one session (index.ts, approve: the row must still be       *)
(* pending after the signature check).                                     *)
(***************************************************************************)
THEOREM OneApproval == Spec => ApprovedOnce
<1>1. ASSUME IInv, [Next]_vars
      PROVE  \A l \in Links : links[l].status = "approved" =>
                links'[l] \in {links[l], [links[l] EXCEPT !.status = "gone"]}
  <2> SUFFICES ASSUME NEW l \in Links, links[l].status = "approved"
               PROVE  links'[l] \in {links[l],
                                     [links[l] EXCEPT !.status = "gone"]}
    OBVIOUS
  <2>1. CASE ServerStep
    <3> PICK r \in wire : Serve(r)
      BY <2>1 DEF ServerStep
    <3>1. LinksEffect(r)
      BY <1>1, ServeLinks DEF IInv, TypeOK, ClientInv
    <3>2. ~(r.kind = "link" /\ l = r.link)
      BY <1>1 DEF IInv, ClientInv, LinkFresh
    <3> QED BY <3>1, <3>2 DEF LinksEffect
  <2>2. CASE Expire
    <3>1. links \in [Links -> Link]
      BY <1>1 DEF IInv, TypeOK, ServerTypeOK
    <3> QED BY <2>2, <3>1 DEF Expire
  <2>3. CASE ~ServerStep /\ ~Expire
    <3>1. links' = links
      BY <1>1, <2>3 DEF Next, Start, Continue, Edit, Unlock, Revoke, Fail, vars,
                        server
    <3> QED BY <3>1
  <2> QED BY <2>1, <2>2, <2>3
<1> QED BY <1>1, Inductive, PTL DEF Spec, ApprovedOnce

-----------------------------------------------------------------------------
(* Whoever is logged in knows the vault                                    *)

\* The bearer of token t may take v for the vault in force.
Good(t, v) == ~Accepted(t) \/ v = account.root \/ t = rotator

Knows(x) == Good(x.token, x.root) \/ x.dirty

\* Tokens are numbered in the order in which they are issued.
TokensIssued ==
    /\ \A d \in account.devices : d.token \in 1..issued
    /\ \A l \in Links : links[l].token <= issued
    /\ \A c \in Clients : disk[c].token <= issued /\ proc[c].ans.token <= issued

\* Sessions belong to an account, and no vault has the number 0.
OfAccount == (~Exists => account.devices = {}) /\ 0 \notin codes

\* A request whose sender is still there is the one that the sender awaits.
Awaited ==
    \A r \in wire : ~r.orphan =>
        /\ proc[r.from].step = "await" /\ proc[r.from].req.kind = r.kind
        /\ proc[r.from].req.token = r.token /\ proc[r.from].req.vault = r.vault
        /\ \A q \in wire : ~q.orphan /\ q.from = r.from => q = r

\* Whoever awaits the answer to an update sent it with the saved token, and an
\* upload with the saved root: the state file is locked meanwhile.
SentBy(p, x) ==
    p.step = "await" /\ p.req.kind \in {"put", "rotate"} =>
        p.req.token = x.token /\ (p.req.kind = "put" => p.req.vault = x.root)

\* What an answer makes the saved state, the state knows.
AnsweredTo(p, x) ==
    /\ \/ p.step = "linked"
       \/ p.step = "answered" /\ p.req.kind \in {"register", "login", "recover"}
       => Good(p.ans.token, p.ans.root)
    /\ p.step = "answered" /\ p.req.kind = "put" => Good(x.token, x.root)
    /\ p.step = "answered" /\ p.req.kind = "rotate" => Good(x.token, p.req.vault)

SessInv ==
    /\ TokensIssued /\ OfAccount /\ Awaited
    /\ \A i \in Installs : /\ SentBy(proc[i], disk[i])
                           /\ AnsweredTo(proc[i], disk[i])
                           /\ Knows(disk[i])

\* What a request of the server does to sessions, roots and tokens.
TokenEffect(r) ==
    /\ issued' \in {issued, issued + 1} /\ expired' = expired
    /\ \A d \in account'.devices :
          \/ d \in account.devices
          \/ d.token = issued + 1 /\ issued' = issued + 1
    /\ \A l \in Links : links'[l].token \in {links[l].token, issued'}
    /\ ~Exists' => account'.devices = {}
    /\ \/ account'.root = account.root /\ rotator' = rotator
       \/ \A d \in account'.devices : d.token = issued + 1
       \/ \A d \in account'.devices : d.token = rotator'

\* What its sender is told.
Told(r) ==
    \/ /\ proc' = proc
       /\ \E s : /\ wire' = (wire \ {r}) \cup {s}
                 /\ s.from = r.from /\ s.kind = r.kind /\ s.token = r.token
                 /\ s.vault = r.vault /\ s.orphan = r.orphan
    \/ r.orphan /\ wire' = wire \ {r} /\ proc' = proc
    \/ ~r.orphan /\ wire' = wire \ {r} /\ proc' = [proc EXCEPT ![r.from] = Idle]
    \/ /\ ~r.orphan /\ wire' = wire \ {r}
       /\ r.kind \in {"put", "rotate"} => account'.root = r.vault
       /\ \E p \in Process :
             /\ proc' = [proc EXCEPT ![r.from] = p]
             /\ p.step = "answered" /\ p.req = proc[r.from].req
             /\ p.ans.token \in {0, issued'} /\ p.ans.root = account'.snap

LEMMA ReplyTold ==
  ASSUME NEW r \in wire, NEW status, NEW token, ServerTypeOK, account' \in Account,
         Reply(r, status, token), token \in {0, issued'}, token \in Nat,
         ~Ends(r, status) /\ r.kind \in {"put", "rotate"} => account'.root = r.vault
  PROVE  Told(r)
<1>0. r.from \in Clients /\ proc \in [Clients -> Process] /\ r \in Request
  BY DEF ServerTypeOK, Request
<1>1. CASE r.orphan \/ Ends(r, status)
  BY <1>1 DEF Reply, Told
<1>2. CASE ~r.orphan /\ ~Ends(r, status)
  <2> DEFINE a == [token |-> token, grant |-> 0, root |-> account'.snap,
                   revision |-> account'.revision]
             p == [proc[r.from] EXCEPT !.step = "answered", !.ans = a]
  <2>1. wire' = wire \ {r} /\ proc' = [proc EXCEPT ![r.from] = p]
    BY <1>0, <1>2 DEF Reply
  <2>2. a \in Answer /\ a.token = token /\ a.root = account'.snap
    BY DEF Answer, Account
  <2>3. proc[r.from] \in Process
    BY <1>0
  <2> HIDE DEF a
  <2>4. p \in Process /\ p.step = "answered" /\ p.req = proc[r.from].req /\ p.ans = a
    BY <2>2, <2>3 DEF Process
  <2> HIDE DEF p
  <2> QED BY <1>2, <2>1, <2>2, <2>4 DEF Told
<1> QED BY <1>1, <1>2

LEMMA RefuseTold ==
  ASSUME NEW r \in wire, NEW status, status # 200, ServerTypeOK,
         OfAccount, Refuse(r, status)
  PROVE  TokenEffect(r) /\ Told(r)
<1>1. Reply(r, status, 0) /\ UNCHANGED server /\ account' \in Account /\ issued' = issued
  BY DEF Refuse, server, ServerTypeOK
<1>2. r.kind \in {"put", "rotate"} => Ends(r, status)
  BY DEF Ends
<1>3. Told(r)
  BY <1>1, <1>2, ReplyTold
<1>4. TokenEffect(r)
  BY <1>1 DEF TokenEffect, server, OfAccount, Exists
<1> QED BY <1>3, <1>4

LEMMA AdvanceTold ==
  ASSUME NEW r \in wire, NEW s, Advance(r, s), OfAccount,
         s.from = r.from, s.kind = r.kind, s.token = r.token, s.vault = r.vault,
         s.orphan = r.orphan
  PROVE  TokenEffect(r) /\ Told(r)
<1>1. TokenEffect(r)
  BY DEF Advance, TokenEffect, server, OfAccount, Exists
<1> QED BY <1>1 DEF Advance, Told

\* A handler that saves fewer sessions of the same vault, or none.
LEMMA SaveTold ==
  ASSUME NEW r \in wire, ServerTypeOK, account' \in Account, OfAccount,
         Reply(r, 200, 0), r.kind \notin {"put", "rotate"},
         account'.devices \subseteq account.devices,
         account'.root = account.root \/ account'.devices = {},
         UNCHANGED <<expired, issued, rotator>>,
         \A l \in Links : links'[l].token = links[l].token
  PROVE  TokenEffect(r) /\ Told(r)
<1>1. Told(r)
  BY ReplyTold
<1>2. TokenEffect(r)
  BY DEF TokenEffect, OfAccount, Exists
<1> QED BY <1>1, <1>2

LEMMA LoginTold ==
  ASSUME NEW r \in wire, NEW acc \in Account, NEW id, NEW kind, ServerTypeOK,
         ServerTypeOK', Login(r, acc, id, kind), OfAccount, acc.root # 0,
         r.kind \notin {"put", "rotate"},
         \/ acc.root = account.root /\ acc.devices \subseteq account.devices
         \/ acc.devices = {}
  PROVE  TokenEffect(r) /\ Told(r)
<1>1. CASE HasRoom(acc.devices, id)
  <2>1. /\ account' = [acc EXCEPT !.devices = Granted(acc.devices, id, kind)]
        /\ Reply(r, 200, issued + 1) /\ issued' = issued + 1
        /\ UNCHANGED <<expired, links, rotator>>
    BY <1>1 DEF Login
  <2>2. account'.devices = Granted(acc.devices, id, kind) /\ account'.root = acc.root
    BY <2>1 DEF Account
  <2>3. \A d \in account'.devices : d \in acc.devices \/ d.token = issued + 1
    BY <2>2, GrantedEffect
  <2>4. TokenEffect(r)
    BY <2>1, <2>2, <2>3 DEF TokenEffect, Exists
  <2>5. account' \in Account /\ issued + 1 \in Nat
    BY DEF ServerTypeOK
  <2>6. Told(r)
    BY <2>1, <2>5, ReplyTold
  <2> QED BY <2>4, <2>6
<1>2. CASE ~HasRoom(acc.devices, id)
  BY <1>2, RefuseTold DEF Login
<1> QED BY <1>1, <1>2

LEMMA RegistrationTold ==
  ASSUME NEW r \in wire, ServerTypeOK, ServerTypeOK', OfAccount,
         r.kind = "register" => r.vault # 0,
         ServeRegister(r) \/ CommitRegister(r) \/ ServeLogin(r)
                          \/ ServeRecover(r)
  PROVE  TokenEffect(r) /\ Told(r)
<1>0. account \in Account /\ r \in Request
  BY DEF ServerTypeOK
<1>1. CASE \E status \in Nat \ {200} : Refuse(r, status)
  BY <1>1, RefuseTold
<1>2. CASE ServeRegister(r) /\ ~Exists
  <2>1. Advance(r, [r EXCEPT !.stage = "verifying"])
    BY <1>2 DEF ServeRegister
  <2> QED BY <1>0, <2>1, AdvanceTold DEF Request
<1>3. CASE CommitRegister(r) /\ ~Exists
  <2> DEFINE acc == [root |-> r.vault, recovery |-> r.vault, pw |-> r.pw,
                     snap |-> r.vault, revision |-> 1, devices |-> {}]
  <2>1. acc \in Account
    BY <1>0 DEF Account, Request
  <2>2. Login(r, acc, r.id, "cli") /\ r.kind = "register"
    BY <1>3 DEF CommitRegister
  <2>3. acc.devices = {} /\ acc.root = r.vault
    OBVIOUS
  <2> HIDE DEF acc
  <2> QED BY <2>1, <2>2, <2>3, LoginTold
<1>4. CASE ServeLogin(r) /\ Exists /\ account.pw = r.pw
  <2>1. Login(r, account, r.id, KindOf(r)) /\ r.kind = "login"
    BY <1>4 DEF ServeLogin
  <2> QED BY <1>0, <1>4, <2>1, LoginTold DEF Exists
<1>5. CASE ServeRecover(r) /\ Exists /\ account.recovery = r.vault
  <2> DEFINE acc == [account EXCEPT !.pw = r.pw, !.devices = {}]
  <2>1. acc \in Account
    BY <1>0 DEF Account, Request
  <2>2. Login(r, acc, r.id, "cli") /\ r.kind = "recover"
    BY <1>5 DEF ServeRecover
  <2>3. acc.devices = {} /\ acc.root = account.root
    BY <1>0 DEF Account
  <2> HIDE DEF acc
  <2> QED BY <1>5, <2>1, <2>2, <2>3, LoginTold DEF Exists
<1> QED BY <1>1, <1>2, <1>3, <1>4, <1>5
        DEF ServeRegister, CommitRegister, ServeLogin, ServeRecover

LEMMA SessionTold ==
  ASSUME NEW r \in wire, ServerTypeOK, ServerTypeOK', OfAccount,
         Route(r) \/ ServeTouch(r) \/ ServeRevoke(r) \/ ServePassword(r)
                  \/ ServeDelete(r)
  PROVE  TokenEffect(r) /\ Told(r)
<1>0. account \in Account /\ r \in Request /\ account' \in Account
      /\ links \in [Links -> Link]
  BY DEF ServerTypeOK
<1>1. CASE \E status \in Nat \ {200} : Refuse(r, status)
  BY <1>1, RefuseTold
<1>2. CASE Route(r) /\ Accepted(r.token)
  <2>1. Advance(r, [r EXCEPT !.stage = "routed", !.saw = account.devices])
    BY <1>2 DEF Route
  <2> QED BY <1>0, <2>1, AdvanceTold DEF Request
<1>3. CASE ServeTouch(r) /\ Accepted(r.token)
  <2>1. account'.root = account.root /\ account'.devices \subseteq account.devices
    BY <1>0, <1>3 DEF ServeTouch, Resume, Reread, Account
  <2> QED BY <1>0, <1>3, <2>1, SaveTold DEF ServeTouch, Resume
<1>4. CASE ServeRevoke(r) /\ Accepted(r.token)
  <2>1. account'.root = account.root /\ account'.devices \subseteq account.devices
    BY <1>0, <1>4 DEF ServeRevoke, Resume, Reread, Account
  <2> QED BY <1>0, <1>4, <2>1, SaveTold DEF ServeRevoke, Resume
<1>5. CASE ServePassword(r) /\ Accepted(r.token) /\ account.pw = r.base
  <2>1. account' = [account EXCEPT !.pw = r.pw,
                                   !.devices = {Session(r.token)}]
    BY <1>5 DEF ServePassword, Resume
  <2>2. account'.root = account.root /\ account'.devices \subseteq account.devices
    BY <1>0, <1>5, <2>1, SessionIn DEF Account
  <2> QED BY <1>0, <1>5, <2>2, SaveTold DEF ServePassword, Resume
<1>6. CASE ServeDelete(r) /\ Accepted(r.token) /\ account.pw = r.base
  <2>1. account'.devices = {}
    BY <1>6 DEF ServeDelete, Resume, NoAccount
  <2>2. \A l \in Links : links'[l].token = links[l].token
    BY <1>0, <1>6 DEF ServeDelete, Resume, Link
  <2> QED BY <1>0, <1>6, <2>1, <2>2, SaveTold DEF ServeDelete, Resume
<1> QED BY <1>1, <1>2, <1>3, <1>4, <1>5, <1>6
        DEF Route, ServeTouch, ServeRevoke, ServePassword, ServeDelete, Resume

\* A rotation ends every session but the one that asked for it.
LEMMA PutTold ==
  ASSUME NEW r \in wire, ServerTypeOK, ServerTypeOK', OfAccount, PutSigned,
         r.kind = "rotate" => r.vault # 0,
         ServePut(r) \/ CommitPut(r)
  PROVE  TokenEffect(r) /\ Told(r)
<1>0. account \in Account /\ r \in Request /\ account' \in Account
  BY DEF ServerTypeOK
<1>1. CASE \E status \in Nat \ {200} : Refuse(r, status)
  BY <1>1, RefuseTold
<1>2. CASE /\ ServePut(r) /\ Accepted(r.token) /\ r.base = account.revision
           /\ Signed(r)
  <2> DEFINE s == [r EXCEPT !.stage = "verifying", !.root = account.root]
  <2>1. Advance(r, s)
    BY <1>2 DEF ServePut, Resume
  <2>2. /\ s.from = r.from /\ s.kind = r.kind /\ s.token = r.token
        /\ s.vault = r.vault /\ s.orphan = r.orphan
    BY <1>0 DEF Request
  <2> HIDE DEF s
  <2> QED BY <2>1, <2>2, AdvanceTold
<1>3. CASE CommitPut(r) /\ Accepted(r.token) /\ Current(r)
  <2>1. /\ account' = Updated(r) /\ Reply(r, 200, 0)
        /\ UNCHANGED <<expired, links, issued>>
        /\ r.kind \in {"put", "rotate"} /\ r.stage = "verifying"
        /\ rotator' = IF r.kind = "rotate" THEN r.token ELSE rotator
    BY <1>3 DEF CommitPut
  <2>2. /\ account'.devices = Survivors(r) /\ Survivors(r) \subseteq account.devices
        /\ r.kind = "rotate" => \A d \in Survivors(r) : d.token = r.token
    BY <1>3, <2>1, SessionIn DEF Updated, Survivors
  <2>3. /\ r.kind = "rotate" => account'.root = r.vault
        /\ r.kind = "put" => account'.root = account.root /\ account.root = r.root
    BY <1>3, <2>1 DEF Updated, Current
  <2>4. account'.root = r.vault
    BY <2>1, <2>3 DEF PutSigned
  <2>5. Told(r)
    BY <1>0, <2>1, <2>4, ReplyTold
  <2>6. ~Exists' => account'.devices = {}
    BY <2>1, <2>2, <2>3 DEF Exists, OfAccount
  <2>7. TokenEffect(r)
    BY <2>1, <2>2, <2>3, <2>6 DEF TokenEffect
  <2> QED BY <2>5, <2>7
<1> QED BY <1>1, <1>2, <1>3 DEF ServePut, CommitPut, Resume

LEMMA LinkTold ==
  ASSUME NEW r \in wire, ServerTypeOK, ServerTypeOK', OfAccount, LinksNamed,
         ServeLink(r) \/ ServeApprove(r) \/ CommitApprove(r) \/ ServeUnlink(r)
  PROVE  TokenEffect(r) /\ Told(r)
<1>0. account \in Account /\ r \in Request /\ account' \in Account
      /\ links \in [Links -> Link]
  BY DEF ServerTypeOK
<1>1. CASE \E status \in Nat \ {200} : Refuse(r, status)
  BY <1>1, RefuseTold
<1>2. CASE ServeLink(r) /\ ~(\E status \in Nat \ {200} : Refuse(r, status))
  <2>1. /\ links' = [links EXCEPT ![r.link].status = "pending", ![r.link].id = r.id]
        /\ UNCHANGED <<account, expired, issued, rotator>> /\ Reply(r, 200, 0)
        /\ r.kind = "link"
    BY <1>2 DEF ServeLink
  <2>2. \A l \in Links : links'[l].token = links[l].token
    BY <1>0, <2>1 DEF Link
  <2> QED BY <1>0, <2>1, <2>2, SaveTold
<1>3. CASE ServeApprove(r)
  <2> DEFINE s == [r EXCEPT !.stage = "verifying", !.root = account.root]
  <2>1. /\ s.from = r.from /\ s.kind = r.kind /\ s.token = r.token
        /\ s.vault = r.vault /\ s.orphan = r.orphan
    BY <1>0 DEF Request
  <2>2. CASE Advance(r, s)
    <3> HIDE DEF s
    <3> QED BY <2>1, <2>2, AdvanceTold
  <2> QED BY <1>1, <1>3, <2>2 DEF ServeApprove
<1>4. CASE CommitApprove(r) /\ ~(\E status \in Nat \ {200} : Refuse(r, status))
  <2> DEFINE id == links[r.link].id
  <2>1. /\ account' = [account EXCEPT !.devices = Granted(@, id, "cli")]
        /\ MayApprove(r) /\ Reply(r, 200, 0) /\ issued' = issued + 1
        /\ UNCHANGED <<expired, rotator>> /\ r.kind = "approve"
        /\ links' = [links EXCEPT ![r.link] =
                        [status |-> "approved", id |-> id, root |-> r.root,
                         token |-> issued + 1]]
    BY <1>4 DEF CommitApprove
  <2>2. account'.devices = Granted(account.devices, id, "cli")
        /\ account'.root = account.root
    BY <1>0, <2>1 DEF Account
  <2>3. \A d \in account'.devices : d \in account.devices \/ d.token = issued + 1
    BY <2>2, GrantedEffect
  <2>4. \A l \in Links : links'[l].token \in {links[l].token, issued'}
    BY <1>0, <2>1
  <2>5. Exists
    BY <2>1 DEF MayApprove, Accepted, Live, OfAccount
  <2>6. Told(r)
    BY <1>0, <2>1, ReplyTold
  <2>7. TokenEffect(r)
    BY <2>1, <2>2, <2>3, <2>4, <2>5 DEF TokenEffect, Exists
  <2> QED BY <2>6, <2>7
<1>5. CASE ServeUnlink(r) /\ ~(\E status \in Nat \ {200} : Refuse(r, status))
  <2>1. /\ links' = [links EXCEPT ![r.link].status = "gone"]
        /\ UNCHANGED <<account, expired, issued, rotator>> /\ Reply(r, 200, 0)
        /\ r.kind = "unlink"
    BY <1>5 DEF ServeUnlink
  <2>2. \A l \in Links : links'[l].token = links[l].token
    BY <1>0, <2>1 DEF Link
  <2> QED BY <1>0, <2>1, <2>2, SaveTold
<1> QED BY <1>1, <1>2, <1>3, <1>4, <1>5

\* What the bearer of an old token may think stays true: the root moves only
\* when that token ends or is the one that moved it.
LEMMA GoodKeeps ==
  ASSUME NEW r, TokenEffect(r), issued \in Nat, NEW t \in Nat, t <= issued,
         NEW v, Good(t, v)
  PROVE  Good(t, v)'
<1> SUFFICES ASSUME Accepted(t)' PROVE v = account'.root \/ t = rotator'
  BY DEF Good
<1>1. PICK d \in account'.devices : d.token = t /\ d.token \notin expired'
  BY DEF Accepted, Live
<1>2. t # issued + 1 /\ expired' = expired /\ d \in account.devices
  BY <1>1 DEF TokenEffect
<1>3. Accepted(t)
  BY <1>1, <1>2 DEF Accepted, Live
<1>4. v = account.root \/ t = rotator
  BY <1>3 DEF Good
<1> QED BY <1>1, <1>2, <1>4 DEF TokenEffect

LEMMA ServerSessInv ==
  ASSUME IInv, IInv', SessInv, ServerStep
  PROVE  SessInv'
<1> PICK r \in wire : Serve(r)
  BY DEF ServerStep
<1>0. /\ UNCHANGED <<disk, codes>> /\ ServerTypeOK /\ ServerTypeOK'
      /\ disk \in [Clients -> State] /\ proc \in [Clients -> Process]
      /\ issued \in Nat /\ issued' \in Nat /\ r.from \in Clients
      /\ links \in [Links -> Link]
  BY DEF ServerStep, IInv, TypeOK, ServerTypeOK, clients, Request
<1>1. TokenEffect(r) /\ Told(r)
  <2>1. r.kind \in {"register", "rotate"} => r.vault # 0
    BY DEF IInv, ClientInv, CodesSaved, SessInv, OfAccount
  <2>2. OfAccount /\ LinksNamed /\ PutSigned
    BY DEF IInv, ClientInv, SessInv
  <2> QED BY <1>0, <2>1, <2>2, RegistrationTold, SessionTold, PutTold, LinkTold DEF Serve
<1>2. ASSUME NEW c \in Clients
      PROVE  /\ disk[c].token \in Nat /\ disk[c].token <= issued
             /\ proc[c].ans.token \in Nat /\ proc[c].ans.token <= issued
  BY <1>0 DEF SessInv, TokensIssued, State, Process, Answer
<1>3. TokensIssued'
  <2>1. \A d \in account'.devices : d.token \in 1..issued'
    BY <1>0, <1>1 DEF SessInv, TokensIssued, TokenEffect
  <2>2. ASSUME NEW l \in Links PROVE links'[l].token <= issued'
    <3>1. links[l].token \in Nat /\ links[l].token <= issued
      BY <1>0 DEF Link, SessInv, TokensIssued
    <3>2. issued' \in {issued, issued + 1} /\ links'[l].token \in {links[l].token, issued'}
      BY <1>1 DEF TokenEffect
    <3> QED BY <1>0, <3>1, <3>2
  <2>3. ASSUME NEW c \in Clients
        PROVE  disk'[c].token <= issued' /\ proc'[c].ans.token <= issued'
    <3>1. issued' \in {issued, issued + 1} /\ disk' = disk
      BY <1>0, <1>1 DEF TokenEffect
    <3>2. proc'[c].ans.token \in {proc[c].ans.token, 0, issued'}
      BY <1>0, <1>1 DEF Told, Idle, NoAnswer
    <3> QED BY <1>0, <1>2, <3>1, <3>2
  <2> QED BY <2>1, <2>2, <2>3 DEF TokensIssued
<1>4. OfAccount'
  BY <1>0, <1>1 DEF TokenEffect, SessInv, OfAccount
<1>5. Awaited'
  <2>1. \A q \in wire : ~q.orphan => q.from \in Clients
    BY <1>0 DEF ServerTypeOK, Request
  <2> QED BY <1>0, <1>1, <2>1 DEF Told, SessInv, Awaited
<1>6. ASSUME NEW i \in Installs
      PROVE  SentBy(proc[i], disk[i])' /\ AnsweredTo(proc[i], disk[i])' /\ Knows(disk[i])'
  <2>0. i \in Clients /\ disk' = disk
    BY <1>0 DEF Clients
  <2>1. SentBy(proc[i], disk[i]) /\ AnsweredTo(proc[i], disk[i]) /\ Knows(disk[i])
    BY DEF SessInv
  <2>2. Knows(disk[i])'
    BY <1>0, <1>1, <1>2, <2>0, <2>1, GoodKeeps DEF Knows
  <2>3. CASE proc'[i] = proc[i]
    <3>1. AnsweredTo(proc[i], disk[i])'
      BY <1>0, <1>1, <1>2, <2>0, <2>1, <2>3, GoodKeeps DEF AnsweredTo
    <3> QED BY <2>0, <2>1, <2>2, <2>3, <3>1 DEF SentBy
  <2>4. CASE proc'[i] = Idle
    BY <2>2, <2>4 DEF SentBy, AnsweredTo, Idle
  <2>5. CASE proc'[i] # proc[i] /\ proc'[i] # Idle
    <3>1. /\ i = r.from /\ ~r.orphan /\ proc'[i].step = "answered"
          /\ proc'[i].req = proc[i].req /\ proc'[i].ans.root = account'.snap
          /\ r.kind \in {"put", "rotate"} => account'.root = r.vault
      <4>1. proc' # proc /\ proc' # [proc EXCEPT ![r.from] = Idle]
        BY <1>0, <2>0, <2>5
      <4>2. /\ ~r.orphan /\ (r.kind \in {"put", "rotate"} => account'.root = r.vault)
            /\ \E p \in Process :
                  /\ proc' = [proc EXCEPT ![r.from] = p]
                  /\ p.step = "answered" /\ p.req = proc[r.from].req
                  /\ p.ans.root = account'.snap
        BY <1>1, <4>1 DEF Told
      <4> QED BY <1>0, <2>0, <2>5, <4>2
    <3>2. /\ proc[i].step = "await" /\ proc[i].req.kind = r.kind
          /\ proc[i].req.vault = r.vault
      BY <3>1 DEF SessInv, Awaited
    <3>3. account'.snap = account'.root
      BY DEF IInv, OneVault
    <3>4. r.kind = "put" => disk[i].root = r.vault
      BY <2>1, <3>2 DEF SentBy
    <3>5. AnsweredTo(proc[i], disk[i])'
      BY <2>0, <3>1, <3>2, <3>3, <3>4 DEF AnsweredTo, Good
    <3>6. SentBy(proc[i], disk[i])'
      BY <3>1 DEF SentBy
    <3> QED BY <2>2, <3>5, <3>6
  <2> QED BY <2>3, <2>4, <2>5
<1> QED BY <1>3, <1>4, <1>5, <1>6 DEF SessInv

\* The steps of the clients leave the server alone.  x is the state that client
\* c saves and p what it goes on with.
Saves(c, x, p) ==
    /\ UNCHANGED server
    /\ disk' = [disk EXCEPT ![c] = x] /\ proc' = [proc EXCEPT ![c] = p]
    /\ 0 \notin codes'
    /\ x.token <= issued /\ p.ans.token <= issued
    /\ c \in Installs => Knows(x) /\ SentBy(p, x) /\ AnsweredTo(p, x)

LEMMA SavesSessInv ==
  ASSUME IInv, SessInv, NEW c \in Clients, NEW x, NEW p, Saves(c, x, p),
         Awaited'
  PROVE  SessInv'
<1>0. disk \in [Clients -> State] /\ proc \in [Clients -> Process]
  BY DEF IInv, TypeOK, ServerTypeOK
<1>1. UNCHANGED <<account, expired, links, issued, rotator>>
  BY DEF Saves, server
<1>2. TokensIssued'
  BY <1>0, <1>1 DEF Saves, SessInv, TokensIssued
<1>3. OfAccount'
  BY <1>1 DEF Saves, SessInv, OfAccount, Exists
<1>4. ASSUME NEW t, NEW v, Good(t, v) PROVE Good(t, v)'
  BY <1>1, <1>4 DEF Good, Accepted, Live
<1>5. ASSUME NEW i \in Installs
      PROVE  SentBy(proc[i], disk[i])' /\ AnsweredTo(proc[i], disk[i])' /\ Knows(disk[i])'
  <2>0. i \in Clients
    BY DEF Clients
  <2>1. \E y, q : /\ disk'[i] = y /\ proc'[i] = q
                      /\ Knows(y) /\ SentBy(q, y) /\ AnsweredTo(q, y)
    BY <1>0, <2>0 DEF Saves, SessInv
  <2>2. PICK y, q : /\ disk'[i] = y /\ proc'[i] = q
                      /\ Knows(y) /\ SentBy(q, y) /\ AnsweredTo(q, y)
    BY <2>1
  <2>3. Knows(disk[i])'
    BY <1>4, <2>2 DEF Knows
  <2>4. SentBy(proc[i], disk[i])'
    BY <2>2 DEF SentBy
  <2>5. AnsweredTo(proc[i], disk[i])'
    BY <1>4, <2>2 DEF AnsweredTo
  <2> QED BY <2>3, <2>4, <2>5
<1> QED BY <1>2, <1>3, <1>5 DEF SessInv

\* No request of a client that does not wait is on its way.
LEMMA NotAwaited ==
  ASSUME SessInv, NEW c, proc[c].step # "await"
  PROVE  \A r \in wire : ~r.orphan => r.from # c
BY DEF SessInv, Awaited

LEMMA StaysSess ==
  ASSUME IInv, SessInv, NEW c \in Clients, proc[c].step # "await",
         NEW x, NEW p, Saves(c, x, p), UNCHANGED wire
  PROVE  SessInv'
<1>1. proc \in [Clients -> Process] /\ \A r \in wire : r.from \in Clients
  BY DEF IInv, TypeOK, ServerTypeOK, Request
<1>2. Awaited'
  BY <1>1, NotAwaited DEF SessInv, Awaited, Saves
<1> QED BY <1>2, SavesSessInv

LEMMA FinishSess ==
  ASSUME IInv, SessInv, NEW c \in Clients, proc[c].step # "await", Finish(c),
         UNCHANGED <<server, codes>>, NEW x, disk' = [disk EXCEPT ![c] = x],
         x.token <= issued, c \in Installs => Knows(x)
  PROVE  SessInv'
<1>1. Saves(c, x, Idle)
  BY DEF Saves, Finish, SessInv, OfAccount, Idle, SentBy, AnsweredTo, NoAnswer,
         IInv, TypeOK, ServerTypeOK
<1> QED BY <1>1, StaysSess DEF Finish

LEMMA SendSess ==
  ASSUME IInv, SessInv, NEW c \in Clients, proc[c].step # "await", NEW q, Send(c, q),
         UNCHANGED server, 0 \notin codes', NEW x, disk' = [disk EXCEPT ![c] = x],
         x.token <= issued, c \in Installs => Knows(x),
         q.from = c, q.orphan = FALSE,
         q.kind \in {"put", "rotate"} => q.token = x.token,
         q.kind = "put" => q.vault = x.root
  PROVE  SessInv'
<1>1. proc \in [Clients -> Process] /\ (\A r \in wire : r.from \in Clients) /\ issued \in Nat
  BY DEF IInv, TypeOK, ServerTypeOK, Request
<1> DEFINE p == [step |-> "await", req |-> q, ans |-> NoAnswer]
<1>2. p.step = "await" /\ p.req = q /\ p.ans.token = 0
  BY DEF NoAnswer
<1>3. wire' = wire \cup {q} /\ proc' = [proc EXCEPT ![c] = p]
  BY DEF Send
<1> HIDE DEF p
<1>4. Saves(c, x, p)
  BY <1>1, <1>2, <1>3 DEF Saves, SentBy, AnsweredTo
<1>5. Awaited'
  <2>1. \A r \in wire : ~r.orphan => r.from # c
    BY NotAwaited
  <2>2. proc'[c] = p /\ \A b \in Clients : b # c => proc'[b] = proc[b]
    BY <1>1, <1>3
  <2> SUFFICES ASSUME NEW r \in wire', ~r.orphan
               PROVE  /\ proc'[r.from].step = "await" /\ proc'[r.from].req.kind = r.kind
                      /\ proc'[r.from].req.token = r.token
                      /\ proc'[r.from].req.vault = r.vault
                      /\ \A b \in wire' : ~b.orphan /\ b.from = r.from => b = r
    BY DEF Awaited
  <2>3. CASE r = q
    BY <1>2, <1>3, <2>1, <2>2, <2>3
  <2>4. CASE r # q
    BY <1>1, <1>3, <2>1, <2>2, <2>4 DEF SessInv, Awaited
  <2> QED BY <2>3, <2>4
<1> QED BY <1>4, <1>5, SavesSessInv

LEMMA AskFacts ==
  ASSUME TypeOK, NEW c \in Clients, NEW kind \in Kinds
  PROVE  /\ Ask(c, kind) \in Request /\ Ask(c, kind).kind = kind
         /\ Ask(c, kind).from = c /\ Ask(c, kind).orphan = FALSE
         /\ Ask(c, kind).token = disk[c].token
<1>1. disk[c].token \in Nat /\ disk[c].id \in Nat
  BY DEF TypeOK, State
<1> QED BY <1>1, IdleType, AskType DEF Ask, Blank, Request

\* A command that sends a request and saves nothing.
LEMMA AsksSess ==
  ASSUME IInv, SessInv, NEW c \in Clients, proc[c].step # "await", NEW q, Send(c, q),
         UNCHANGED <<server, disk>>, 0 \notin codes',
         q.from = c, q.orphan = FALSE, q.kind # "put",
         q.kind = "rotate" => q.token = disk[c].token
  PROVE  SessInv'
<1>1. disk \in [Clients -> State]
  BY DEF IInv, TypeOK
<1>2. disk' = [disk EXCEPT ![c] = disk[c]]
  BY <1>1
<1>3. disk[c].token <= issued /\ (c \in Installs => Knows(disk[c]))
  BY DEF SessInv, TokensIssued
<1> QED BY <1>2, <1>3, SendSess

LEMMA StartSess ==
  ASSUME IInv, SessInv, Start
  PROVE  SessInv'
<1>0. /\ TypeOK /\ UNCHANGED server /\ 0 \notin codes /\ vaults \in Nat
      /\ disk \in [Clients -> State]
      /\ Browser \in Clients /\ \A i \in Installs : i \in Clients
  BY DEF Start, IInv, TypeOK, SessInv, OfAccount, Clients
<1>1. ASSUME NEW i \in Installs, Register(i) PROVE SessInv'
  <2> DEFINE q == [Ask(i, "register") EXCEPT !.vault = vaults + 1, !.token = 0,
                                             !.pw = passwords + 1, !.id = ids + 1]
  <2>1. /\ proc[i].step = "idle" /\ Send(i, q) /\ disk' = disk
        /\ codes' = codes \cup {vaults + 1}
    BY <1>1 DEF Register, Command, SaveRecovery
  <2>2. q.from = i /\ q.orphan = FALSE /\ q.kind = "register"
    <3>0. TypeOK /\ i \in Clients /\ "register" \in Kinds
      BY <1>0 DEF Kinds
    <3>1. /\ Ask(i, "register") \in Request /\ Ask(i, "register").kind = "register"
          /\ Ask(i, "register").from = i /\ Ask(i, "register").orphan = FALSE
      BY <3>0, AskFacts
    <3> QED BY <3>1 DEF Request
  <2>3. 0 \notin codes'
    BY <1>0, <2>1
  <2> HIDE DEF q
  <2> QED BY <1>0, <2>1, <2>2, <2>3, AsksSess
<1>2. ASSUME NEW c \in Clients, LoginCommand(c) PROVE SessInv'
  <2>1. PICK id : Send(c, [Ask(c, "login") EXCEPT !.pw = account.pw, !.token = 0,
                                                  !.id = id])
    BY <1>2 DEF LoginCommand
  <2> DEFINE q == [Ask(c, "login") EXCEPT !.pw = account.pw, !.token = 0, !.id = id]
  <2>2. q.from = c /\ q.orphan = FALSE /\ q.kind = "login"
    <3>0. TypeOK /\ c \in Clients /\ "login" \in Kinds
      BY <1>0 DEF Kinds
    <3>1. /\ Ask(c, "login") \in Request /\ Ask(c, "login").kind = "login"
          /\ Ask(c, "login").from = c /\ Ask(c, "login").orphan = FALSE
      BY <3>0, AskFacts
    <3> QED BY <3>1 DEF Request
  <2>3. Send(c, q) /\ proc[c].step = "idle" /\ UNCHANGED <<disk, codes>>
    BY <1>2, <2>1 DEF LoginCommand, Command
  <2> HIDE DEF q
  <2> QED BY <1>0, <2>2, <2>3, AsksSess
<1>3. ASSUME NEW i \in Installs, NEW v \in codes, Recover(i, v) PROVE SessInv'
  <2> DEFINE q == [Ask(i, "recover") EXCEPT !.vault = v, !.token = 0,
                                            !.pw = passwords + 1, !.id = ids + 1]
  <2>1. q.from = i /\ q.orphan = FALSE /\ q.kind = "recover"
    <3>0. TypeOK /\ i \in Clients /\ "recover" \in Kinds
      BY <1>0 DEF Kinds
    <3>1. /\ Ask(i, "recover") \in Request /\ Ask(i, "recover").kind = "recover"
          /\ Ask(i, "recover").from = i /\ Ask(i, "recover").orphan = FALSE
      BY <3>0, AskFacts
    <3> QED BY <3>1 DEF Request
  <2>2. Send(i, q) /\ proc[i].step = "idle" /\ UNCHANGED <<disk, codes>>
    BY <1>3 DEF Recover, Command
  <2> HIDE DEF q
  <2> QED BY <1>0, <2>1, <2>2, AsksSess
<1>4. ASSUME NEW c \in Clients, Touch(c) PROVE SessInv'
  <2>1. /\ Send(c, Ask(c, "touch")) /\ proc[c].step = "idle"
        /\ UNCHANGED <<disk, codes>>
    BY <1>4 DEF Touch, Command, clients
  <2>2. /\ Ask(c, "touch").from = c /\ Ask(c, "touch").orphan = FALSE
        /\ Ask(c, "touch").kind = "touch"
    <3>0. TypeOK /\ c \in Clients /\ "touch" \in Kinds
      BY <1>0 DEF Kinds
    <3> QED BY <3>0, AskFacts
  <2> QED BY <1>0, <2>1, <2>2, AsksSess
<1>5. ASSUME NEW c \in Clients, Logout(c) PROVE SessInv'
  <2>1. /\ Send(c, Ask(c, "logout")) /\ proc[c].step = "idle"
        /\ UNCHANGED <<disk, codes>>
    BY <1>5 DEF Logout, Command, clients
  <2>2. /\ Ask(c, "logout").from = c /\ Ask(c, "logout").orphan = FALSE
        /\ Ask(c, "logout").kind = "logout"
    <3>0. TypeOK /\ c \in Clients /\ "logout" \in Kinds
      BY <1>0 DEF Kinds
    <3> QED BY <3>0, AskFacts
  <2> QED BY <1>0, <2>1, <2>2, AsksSess
<1>6. ASSUME NEW i \in Installs, ChangePassword(i) PROVE SessInv'
  <2> DEFINE q == [Ask(i, "password") EXCEPT !.base = account.pw, !.pw = passwords + 1]
  <2>1. q.from = i /\ q.orphan = FALSE /\ q.kind = "password"
    <3>0. TypeOK /\ i \in Clients /\ "password" \in Kinds
      BY <1>0 DEF Kinds
    <3>1. /\ Ask(i, "password") \in Request /\ Ask(i, "password").kind = "password"
          /\ Ask(i, "password").from = i /\ Ask(i, "password").orphan = FALSE
      BY <3>0, AskFacts
    <3> QED BY <3>1 DEF Request
  <2>2. Send(i, q) /\ proc[i].step = "idle" /\ UNCHANGED <<disk, codes>>
    BY <1>6 DEF ChangePassword, Command
  <2> HIDE DEF q
  <2> QED BY <1>0, <2>1, <2>2, AsksSess
<1>7. ASSUME NEW i \in Installs, DeleteAccount(i) PROVE SessInv'
  <2> DEFINE q == [Ask(i, "delete") EXCEPT !.base = account.pw]
  <2>1. q.from = i /\ q.orphan = FALSE /\ q.kind = "delete"
    <3>0. TypeOK /\ i \in Clients /\ "delete" \in Kinds
      BY <1>0 DEF Kinds
    <3>1. /\ Ask(i, "delete") \in Request /\ Ask(i, "delete").kind = "delete"
          /\ Ask(i, "delete").from = i /\ Ask(i, "delete").orphan = FALSE
      BY <3>0, AskFacts
    <3> QED BY <3>1 DEF Request
  <2>2. Send(i, q) /\ proc[i].step = "idle" /\ UNCHANGED <<disk, codes>>
    BY <1>7 DEF DeleteAccount, Command, clients
  <2> HIDE DEF q
  <2> QED BY <1>0, <2>1, <2>2, AsksSess
<1>8. ASSUME NEW i \in Installs, Rekey(i) PROVE SessInv'
  <2> DEFINE q == [Ask(i, "rotate") EXCEPT !.vault = vaults + 1, !.root = disk[i].root,
                                           !.base = disk[i].revision]
  <2>1. q.from = i /\ q.orphan = FALSE /\ q.kind = "rotate" /\ q.token = disk[i].token
    <3>0. TypeOK /\ i \in Clients /\ "rotate" \in Kinds
      BY <1>0 DEF Kinds
    <3>1. /\ Ask(i, "rotate") \in Request /\ Ask(i, "rotate").kind = "rotate"
          /\ Ask(i, "rotate").from = i /\ Ask(i, "rotate").orphan = FALSE /\ Ask(i, "rotate").token = disk[i].token
      BY <3>0, AskFacts
    <3> QED BY <3>1 DEF Request
  <2>2. /\ Send(i, q) /\ proc[i].step = "idle" /\ disk' = disk
        /\ codes' = codes \cup {vaults + 1}
    BY <1>8 DEF Rekey, Command, SaveRecovery
  <2>3. 0 \notin codes'
    BY <1>0, <2>2
  <2> HIDE DEF q
  <2> QED BY <1>0, <2>1, <2>2, <2>3, AsksSess
<1>9. ASSUME NEW i \in Installs, NEW l \in Links, LinkCommand(i, l) PROVE SessInv'
  <2>1. PICK v : Send(i, [Ask(i, "link") EXCEPT !.link = l, !.token = 0,
                                                !.id = IdFor(i), !.root = v])
    BY <1>9 DEF LinkCommand
  <2> DEFINE q == [Ask(i, "link") EXCEPT !.link = l, !.token = 0,
                                         !.id = IdFor(i), !.root = v]
  <2>2. q.from = i /\ q.orphan = FALSE /\ q.kind = "link"
    <3>0. TypeOK /\ i \in Clients /\ "link" \in Kinds
      BY <1>0 DEF Kinds
    <3>1. /\ Ask(i, "link") \in Request /\ Ask(i, "link").kind = "link"
          /\ Ask(i, "link").from = i /\ Ask(i, "link").orphan = FALSE
      BY <3>0, AskFacts
    <3> QED BY <3>1 DEF Request
  <2>3. Send(i, q) /\ proc[i].step = "idle" /\ UNCHANGED <<disk, codes>>
    BY <1>9, <2>1 DEF LinkCommand, Command
  <2> HIDE DEF q
  <2> QED BY <1>0, <2>2, <2>3, AsksSess
<1>10. ASSUME NEW l \in Links, Approve(l) PROVE SessInv'
  <2> DEFINE q == [Ask(Browser, "approve") EXCEPT !.link = l, !.vault = disk[Browser].root]
  <2>1. q.from = Browser /\ q.orphan = FALSE /\ q.kind = "approve"
    <3>0. TypeOK /\ Browser \in Clients /\ "approve" \in Kinds
      BY <1>0 DEF Kinds
    <3>1. /\ Ask(Browser, "approve") \in Request /\ Ask(Browser, "approve").kind = "approve"
          /\ Ask(Browser, "approve").from = Browser /\ Ask(Browser, "approve").orphan = FALSE
      BY <3>0, AskFacts
    <3> QED BY <3>1 DEF Request
  <2>2. Send(Browser, q) /\ proc[Browser].step = "idle" /\ UNCHANGED <<disk, codes>>
    BY <1>10 DEF Approve, Command, clients
  <2> HIDE DEF q
  <2> QED BY <1>0, <2>1, <2>2, AsksSess
<1>11. ASSUME NEW l \in Links, Reject(l) PROVE SessInv'
  <2> DEFINE q == [Ask(Browser, "unlink") EXCEPT !.link = l]
  <2>1. q.from = Browser /\ q.orphan = FALSE /\ q.kind = "unlink"
    <3>0. TypeOK /\ Browser \in Clients /\ "unlink" \in Kinds
      BY <1>0 DEF Kinds
    <3>1. /\ Ask(Browser, "unlink") \in Request /\ Ask(Browser, "unlink").kind = "unlink"
          /\ Ask(Browser, "unlink").from = Browser /\ Ask(Browser, "unlink").orphan = FALSE
      BY <3>0, AskFacts
    <3> QED BY <3>1 DEF Request
  <2>2. Send(Browser, q) /\ proc[Browser].step = "idle" /\ UNCHANGED <<disk, codes>>
    BY <1>11 DEF Reject, Command, clients
  <2> HIDE DEF q
  <2> QED BY <1>0, <2>1, <2>2, AsksSess
<1>12. ASSUME NEW i \in Installs, Sync(i) PROVE SessInv'
  <2> DEFINE x == [disk[i] EXCEPT !.revision = account.revision]
             q == [Ask(i, "put") EXCEPT !.vault = disk[i].root, !.base = account.revision]
  <2>0. i \in Clients /\ disk[i] \in State
    BY <1>0
  <2>1. /\ q.from = i /\ q.orphan = FALSE /\ q.kind = "put"
        /\ q.token = disk[i].token /\ q.vault = disk[i].root
    <3>0. TypeOK /\ i \in Clients /\ "put" \in Kinds
      BY <1>0 DEF Kinds
    <3>1. /\ Ask(i, "put") \in Request /\ Ask(i, "put").kind = "put"
          /\ Ask(i, "put").from = i /\ Ask(i, "put").orphan = FALSE /\ Ask(i, "put").token = disk[i].token
      BY <3>0, AskFacts
    <3> QED BY <3>1 DEF Request
  <2>2. x.token = disk[i].token /\ x.root = disk[i].root /\ x.dirty = disk[i].dirty
    BY <2>0 DEF State
  <2>3. /\ proc[i].step = "idle" /\ disk' = [disk EXCEPT ![i] = x] /\ codes' = codes
        /\ Send(i, q) \/ UNCHANGED <<wire, proc>>
    BY <1>0, <1>12 DEF Sync, Command
  <2> HIDE DEF x, q
  <2>4. x.token <= issued /\ Knows(x)
    BY <2>0, <2>2 DEF SessInv, TokensIssued, Knows
  <2>5. CASE Send(i, q)
    BY <1>0, <2>0, <2>1, <2>2, <2>3, <2>4, <2>5, SendSess
  <2>6. CASE UNCHANGED <<wire, proc>>
    <3>1. proc' = [proc EXCEPT ![i] = proc[i]] /\ proc[i].ans.token <= issued
      BY <1>0, <2>0, <2>6 DEF SessInv, TokensIssued, TypeOK, ServerTypeOK
    <3>2. Saves(i, x, proc[i])
      BY <1>0, <2>3, <2>4, <3>1 DEF Saves, SentBy, AnsweredTo
    <3> QED BY <2>0, <2>3, <2>6, <3>2, StaysSess
  <2> QED BY <2>3, <2>5, <2>6
<1> QED BY <1>1, <1>2, <1>3, <1>4, <1>5, <1>6, <1>7, <1>8, <1>9, <1>10, <1>11, <1>12
        DEF Start

LEMMA FreshFields ==
  ASSUME NEW i \in Installs
  PROVE  Fresh(i).token = proc[i].ans.token /\ Fresh(i).root = proc[i].ans.root
<1>1. i # Browser
  BY ServerAssumption
<1> QED BY <1>1 DEF Fresh

\* Token 0 is nobody's.
LEMMA LoggedOut ==
  ASSUME SessInv
  PROVE  \A v : Good(0, v)
BY DEF SessInv, TokensIssued, Good, Accepted, Live

LEMMA ContinueSess ==
  ASSUME IInv, SessInv, Continue
  PROVE  SessInv'
<1>0. /\ TypeOK /\ UNCHANGED <<server, codes>> /\ 0 \notin codes
      /\ disk \in [Clients -> State] /\ proc \in [Clients -> Process]
      /\ issued \in Nat /\ (\A i \in Installs : i \in Clients)
  BY DEF Continue, IInv, TypeOK, ServerTypeOK, SessInv, OfAccount, Clients
<1>1. ASSUME NEW c \in Clients
      PROVE  /\ disk[c].token <= issued /\ proc[c].ans.token <= issued
             /\ disk' = disk => disk' = [disk EXCEPT ![c] = disk[c]]
             /\ c \in Installs => AnsweredTo(proc[c], disk[c]) /\ Knows(disk[c])
  BY <1>0 DEF SessInv, TokensIssued
<1>2. ASSUME NEW i \in Installs, Granting(i) PROVE SessInv'
  <2>0. /\ i \in Clients /\ Finish(i) /\ proc[i].step = "answered"
        /\ proc[i].req.kind \in {"register", "recover"}
    BY <1>0, <1>2 DEF Granting, Answered
  <2>1. CASE disk' = disk
    BY <1>0, <1>1, <2>0, <2>1, FinishSess
  <2>2. CASE disk' = [disk EXCEPT ![i] = Fresh(i)]
    <3>1. Good(proc[i].ans.token, proc[i].ans.root)
      BY <1>1, <2>0 DEF AnsweredTo
    <3>2. Knows(Fresh(i)) /\ Fresh(i).token <= issued
      BY <1>1, <2>0, <3>1, FreshFields DEF Knows
    <3> QED BY <1>0, <2>0, <2>2, <3>2, FinishSess
  <2> QED BY <1>2, <2>1, <2>2 DEF Granting
<1>3. ASSUME NEW c \in Clients, LoginAnswer(c) PROVE SessInv'
  <2>0. Finish(c) /\ proc[c].step = "answered" /\ proc[c].req.kind = "login"
    BY <1>3 DEF LoginAnswer, Answered
  <2>1. CASE disk' = disk
    BY <1>0, <1>1, <2>0, <2>1, FinishSess
  <2>2. CASE disk' = [disk EXCEPT ![c] = Fresh(c)]
    <3>1. Fresh(c).token <= issued
      BY <1>1 DEF Fresh
    <3>2. c \in Installs => Knows(Fresh(c))
      BY <1>1, <2>0, FreshFields DEF Knows, AnsweredTo
    <3> QED BY <1>0, <2>0, <2>2, <3>1, <3>2, FinishSess
  <2>3. CASE disk' = [disk EXCEPT ![c] = KeepDraft(c)] /\ disk[c].dirty
    <3>1. KeepDraft(c).token = proc[c].ans.token /\ KeepDraft(c).dirty
      BY <1>0, <2>3 DEF KeepDraft, State
    <3> QED BY <1>0, <1>1, <2>0, <2>3, <3>1, FinishSess DEF Knows
  <2> QED BY <1>3, <2>1, <2>2, <2>3 DEF LoginAnswer
<1>4. ASSUME NEW i \in Installs, WrongPhrase(i) PROVE SessInv'
  <2> DEFINE q == [Ask(i, "undo") EXCEPT !.token = proc[i].ans.token,
                                         !.id = proc[i].req.id]
  <2>1. q.from = i /\ q.orphan = FALSE /\ q.kind = "undo"
    <3>0. TypeOK /\ i \in Clients /\ "undo" \in Kinds
      BY <1>0 DEF Kinds
    <3>1. /\ Ask(i, "undo") \in Request /\ Ask(i, "undo").kind = "undo"
          /\ Ask(i, "undo").from = i /\ Ask(i, "undo").orphan = FALSE
      BY <3>0, AskFacts
    <3> QED BY <3>1 DEF Request
  <2>2. Send(i, q) /\ proc[i].step = "answered" /\ disk' = disk /\ i \in Clients
    BY <1>0, <1>4 DEF WrongPhrase, Answered
  <2> HIDE DEF q
  <2> QED BY <1>0, <2>1, <2>2, AsksSess
<1>5. ASSUME NEW c \in Clients, RevokeAnswer(c) \/ LogoutAnswer(c) PROVE SessInv'
  <2>0. Finish(c) /\ proc[c].step = "answered"
    BY <1>5 DEF RevokeAnswer, LogoutAnswer, Answered
  <2>1. CASE disk' = disk
    BY <1>0, <1>1, <2>0, <2>1, FinishSess
  <2>2. CASE disk' = EndSession(c)
    <3> DEFINE x == [disk[c] EXCEPT !.token = 0,
                                    !.root = IF c = Browser THEN 0 ELSE disk[c].root]
    <3>1. disk' = [disk EXCEPT ![c] = x]
      BY <1>0, <2>2 DEF EndSession
    <3>2. x.token = 0
      BY <1>0 DEF State
    <3> HIDE DEF x
    <3>3. Knows(x) /\ x.token <= issued
      BY <1>0, <3>2, LoggedOut DEF Knows
    <3> QED BY <1>0, <2>0, <3>1, <3>3, FinishSess
  <2> QED BY <1>5, <2>1, <2>2 DEF RevokeAnswer, LogoutAnswer
<1>6. ASSUME NEW i \in Installs, PutAnswer(i) PROVE SessInv'
  <2> DEFINE x == [disk[i] EXCEPT !.revision = proc[i].ans.revision, !.dirty = FALSE]
  <2>0. /\ i \in Clients /\ Finish(i) /\ proc[i].step = "answered"
        /\ proc[i].req.kind = "put" /\ disk' = [disk EXCEPT ![i] = x]
    BY <1>0, <1>6 DEF PutAnswer, Answered
  <2>1. x.token = disk[i].token /\ x.root = disk[i].root
    BY <1>0, <2>0 DEF State
  <2> HIDE DEF x
  <2>2. Knows(x) /\ x.token <= issued
    BY <1>1, <2>0, <2>1 DEF Knows, AnsweredTo
  <2> QED BY <1>0, <2>0, <2>2, FinishSess
<1>7. ASSUME NEW i \in Installs, RekeyAnswer(i) PROVE SessInv'
  <2> DEFINE x == [disk[i] EXCEPT !.root = proc[i].req.vault,
                                  !.revision = proc[i].ans.revision]
  <2>0. /\ i \in Clients /\ Finish(i) /\ proc[i].step = "answered"
        /\ proc[i].req.kind = "rotate" /\ disk' = [disk EXCEPT ![i] = x]
    BY <1>0, <1>7 DEF RekeyAnswer, Answered
  <2>1. x.token = disk[i].token /\ x.root = proc[i].req.vault
    BY <1>0, <2>0 DEF State
  <2> HIDE DEF x
  <2>2. Knows(x) /\ x.token <= issued
    BY <1>1, <2>0, <2>1 DEF Knows, AnsweredTo
  <2> QED BY <1>0, <2>0, <2>2, FinishSess
<1>8. ASSUME NEW i \in Installs, NEW p, proc' = [proc EXCEPT ![i] = p],
             proc[i].step # "await", UNCHANGED <<disk, wire>>, p.ans.token <= issued,
             SentBy(p, disk[i]), AnsweredTo(p, disk[i])
      PROVE  SessInv'
  <2>1. i \in Clients /\ Saves(i, disk[i], p)
    BY <1>0, <1>1, <1>8 DEF Saves
  <2> QED BY <1>8, <2>1, StaysSess
<1>9. ASSUME NEW i \in Installs, LinkAnswer(i) PROVE SessInv'
  <2> DEFINE p == [proc[i] EXCEPT !.step = "polling"]
  <2>0. i \in Clients /\ proc[i] \in Process
    BY <1>0
  <2>1. /\ proc' = [proc EXCEPT ![i] = p] /\ proc[i].step = "answered"
        /\ UNCHANGED <<disk, wire>>
    BY <1>0, <1>9 DEF LinkAnswer, Answered
  <2>2. p.step = "polling" /\ p.ans = proc[i].ans
    BY <2>0 DEF Process
  <2> HIDE DEF p
  <2>3. p.ans.token <= issued
    BY <1>1, <2>0, <2>2
  <2>4. SentBy(p, disk[i]) /\ AnsweredTo(p, disk[i])
    BY <2>2 DEF SentBy, AnsweredTo
  <2> QED BY <1>8, <2>1, <2>3, <2>4
<1>10. ASSUME NEW i \in Installs, Poll(i) PROVE SessInv'
  <2> DEFINE row == links[proc[i].req.link]
             a == [token |-> row.token, root |-> account.snap,
                   revision |-> account.revision, grant |-> row.root]
             p == [proc[i] EXCEPT !.step = "linked", !.ans = a]
  <2>0. /\ i \in Clients /\ proc[i] \in Process /\ proc[i].step = "polling"
        /\ UNCHANGED <<disk, wire>>
    BY <1>0, <1>10 DEF Poll
  <2>1. CASE proc' = [proc EXCEPT ![i] = Idle]
    <3>1. Idle.ans.token <= issued /\ SentBy(Idle, disk[i]) /\ AnsweredTo(Idle, disk[i])
      BY <1>0 DEF Idle, NoAnswer, SentBy, AnsweredTo
    <3> QED BY <1>8, <2>0, <2>1, <3>1
  <2>2. CASE proc' # [proc EXCEPT ![i] = Idle]
    <3>1. proc' = [proc EXCEPT ![i] = p]
      BY <1>0, <1>10, <2>0, <2>2 DEF Poll
    <3>2. proc[i].req.link \in Links
      BY <2>0 DEF IInv, ClientInv, ProcLinks
    <3>3. row.token <= issued
      BY <3>2 DEF SessInv, TokensIssued
    <3>4. p.step = "linked" /\ p.ans = a
      BY <2>0 DEF Process
    <3>5. a.token = row.token /\ a.root = account.root
      BY DEF IInv, OneVault
    <3> HIDE DEF p, a
    <3>6. SentBy(p, disk[i]) /\ AnsweredTo(p, disk[i]) /\ p.ans.token <= issued
      BY <3>3, <3>4, <3>5 DEF SentBy, AnsweredTo, Good
    <3> QED BY <1>8, <2>0, <3>1, <3>6
  <2> QED BY <2>1, <2>2
<1>11. ASSUME NEW i \in Installs, SaveLink(i) PROVE SessInv'
  <2>0. i \in Clients /\ proc[i].step = "linked"
    BY <1>0, <1>11 DEF SaveLink
  <2>1. CASE disk' = disk /\ Finish(i)
    BY <1>0, <1>1, <2>0, <2>1, FinishSess
  <2>2. CASE ~(disk' = disk /\ Finish(i))
    <3> DEFINE q == [Ask(i, "unlink") EXCEPT !.token = proc[i].ans.token,
                                             !.id = proc[i].req.id,
                                             !.link = proc[i].req.link]
    <3>1. Send(i, q) /\ disk' = [disk EXCEPT ![i] = Fresh(i)]
      BY <1>11, <2>2 DEF SaveLink
    <3>2. q.from = i /\ q.orphan = FALSE /\ q.kind = "unlink"
      <4>0. TypeOK /\ i \in Clients /\ "unlink" \in Kinds
        BY <1>0 DEF Kinds
      <4>1. /\ Ask(i, "unlink") \in Request /\ Ask(i, "unlink").kind = "unlink"
            /\ Ask(i, "unlink").from = i /\ Ask(i, "unlink").orphan = FALSE
        BY <4>0, AskFacts
      <4> QED BY <4>1 DEF Request
    <3> HIDE DEF q
    <3>3. Knows(Fresh(i)) /\ Fresh(i).token <= issued
      BY <1>1, <2>0, FreshFields DEF Knows, AnsweredTo
    <3> QED BY <1>0, <2>0, <3>1, <3>2, <3>3, SendSess
  <2> QED BY <2>1, <2>2
<1> QED BY <1>2, <1>3, <1>4, <1>5, <1>6, <1>7, <1>9, <1>10, <1>11 DEF Continue

LEMMA OtherSess ==
  ASSUME IInv, SessInv,
         \/ (\E i \in Installs : Edit(i)) \/ Unlock
         \/ \E c \in Clients, d \in account.devices : Revoke(c, d.id)
         \/ (\E c \in Clients : Fail(c)) \/ Expire
  PROVE  SessInv'
<1>0. /\ TypeOK /\ 0 \notin codes /\ disk \in [Clients -> State]
      /\ proc \in [Clients -> Process] /\ wire \subseteq Request
      /\ issued \in Nat /\ (\A i \in Installs : i \in Clients) /\ Browser \in Clients
  BY DEF IInv, TypeOK, ServerTypeOK, SessInv, OfAccount, Clients
<1>1. ASSUME NEW c \in Clients
      PROVE  /\ disk[c].token <= issued /\ proc[c].ans.token <= issued
             /\ disk[c] \in State
             /\ disk = [disk EXCEPT ![c] = disk[c]] /\ proc = [proc EXCEPT ![c] = proc[c]]
             /\ c \in Installs => Knows(disk[c])
  BY <1>0 DEF SessInv, TokensIssued
<1>2. ASSUME NEW i \in Installs, Edit(i) PROVE SessInv'
  <2> DEFINE x == [disk[i] EXCEPT !.dirty = TRUE]
  <2>1. /\ disk' = [disk EXCEPT ![i] = x] /\ proc[i].step = "idle"
        /\ UNCHANGED <<server, codes, wire, proc>> /\ i \in Clients
    BY <1>0, <1>2 DEF Edit, Command
  <2>2. x.token = disk[i].token /\ x.dirty
    BY <1>1, <2>1 DEF State
  <2> HIDE DEF x
  <2>3. Saves(i, x, proc[i])
    BY <1>0, <1>1, <2>1, <2>2 DEF Saves, Knows, SentBy, AnsweredTo
  <2> QED BY <2>1, <2>3, StaysSess
<1>3. CASE Unlock
  <2> DEFINE x == [disk[Browser] EXCEPT !.root = account.snap,
                                        !.revision = account.revision]
  <2>1. /\ disk' = [disk EXCEPT ![Browser] = x] /\ proc[Browser].step = "idle"
        /\ UNCHANGED <<server, codes, wire, proc>>
    BY <1>0, <1>3 DEF Unlock, Command
  <2>2. x.token = disk[Browser].token
    BY <1>0, <1>1 DEF State
  <2> HIDE DEF x
  <2>3. Saves(Browser, x, proc[Browser])
    BY <1>0, <1>1, <2>1, <2>2, ServerAssumption DEF Saves
  <2> QED BY <1>0, <2>1, <2>3, StaysSess
<1>4. ASSUME NEW c \in Clients, NEW d \in account.devices, Revoke(c, d.id)
      PROVE  SessInv'
  <2> DEFINE q == [Ask(c, "revoke") EXCEPT !.id = d.id]
  <2>1. q.from = c /\ q.orphan = FALSE /\ q.kind = "revoke"
    <3>0. TypeOK /\ c \in Clients /\ "revoke" \in Kinds
      BY <1>0 DEF Kinds
    <3>1. /\ Ask(c, "revoke") \in Request /\ Ask(c, "revoke").kind = "revoke"
          /\ Ask(c, "revoke").from = c /\ Ask(c, "revoke").orphan = FALSE
      BY <3>0, AskFacts
    <3> QED BY <3>1 DEF Request
  <2>2. Send(c, q) /\ proc[c].step = "idle" /\ UNCHANGED <<server, disk, codes>>
    BY <1>4 DEF Revoke, Command, clients
  <2> HIDE DEF q
  <2> QED BY <1>0, <2>1, <2>2, AsksSess
<1>5. ASSUME NEW c \in Clients, Fail(c) PROVE SessInv'
  <2> DEFINE mine == {r \in wire : r.from = c /\ ~r.orphan}
  <2>1. /\ proc' = [proc EXCEPT ![c] = Idle] /\ UNCHANGED <<server, disk, codes>>
        /\ \/ wire' = wire \ mine
           \/ wire' = (wire \ mine) \cup {[r EXCEPT !.orphan = TRUE] : r \in mine}
    BY <1>5 DEF Fail, clients
  <2>2. ASSUME NEW r \in mine PROVE [r EXCEPT !.orphan = TRUE].orphan
    BY <1>0 DEF Request
  <2>3. ASSUME NEW r \in wire', ~r.orphan PROVE r \in wire /\ r.from # c
    <3>1. CASE r \in wire \ mine
      BY <2>3, <3>1
    <3>2. CASE r \in {[q EXCEPT !.orphan = TRUE] : q \in mine}
      <4>1. PICK q \in mine : r = [q EXCEPT !.orphan = TRUE]
        BY <3>2
      <4> QED BY <2>2, <2>3, <4>1
    <3> QED BY <2>1, <3>1, <3>2
  <2>4. Awaited'
    BY <1>0, <2>1, <2>3 DEF SessInv, Awaited, Request
  <2>5. disk' = [disk EXCEPT ![c] = disk[c]]
    BY <1>1, <2>1
  <2>6. Saves(c, disk[c], Idle)
    <3>1. /\ Idle.ans.token <= issued /\ SentBy(Idle, disk[c])
          /\ AnsweredTo(Idle, disk[c])
      BY <1>0 DEF Idle, NoAnswer, SentBy, AnsweredTo
    <3> QED BY <1>0, <1>1, <2>1, <2>5, <3>1 DEF Saves
  <2> QED BY <2>4, <2>6, SavesSessInv
<1>6. CASE Expire
  <2>1. /\ UNCHANGED <<account, issued, rotator, disk, codes, wire, proc>>
        /\ expired \subseteq expired'
        /\ \A l \in Links : links'[l].token = links[l].token
    <3>1. /\ UNCHANGED <<account, issued, rotator, disk, codes, wire, proc>>
          /\ expired \subseteq expired'
      BY <1>6 DEF Expire, clients
    <3>2. links \in [Links -> Link]
          /\ (links' = links \/ \E l \in Rows : links' = [links EXCEPT ![l].status = "gone"])
      BY <1>0, <1>6 DEF Expire, TypeOK, ServerTypeOK
    <3>3. \A l \in Links : links'[l].token = links[l].token
      BY <3>2 DEF Link, Rows
    <3> QED BY <3>1, <3>3
  <2>2. \A t, v : Good(t, v) => Good(t, v)'
    BY <2>1 DEF Good, Accepted, Live
  <2>3. TokensIssued' /\ OfAccount' /\ Awaited'
    <3>1. TokensIssued'
      BY <2>1 DEF SessInv, TokensIssued
    <3>2. OfAccount' /\ Awaited'
      BY <2>1 DEF SessInv, OfAccount, Awaited, Exists
    <3> QED BY <3>1, <3>2
  <2>4. ASSUME NEW i \in Installs
        PROVE SentBy(proc[i], disk[i])' /\ AnsweredTo(proc[i], disk[i])' /\ Knows(disk[i])'
    <3>1. SentBy(proc[i], disk[i]) /\ AnsweredTo(proc[i], disk[i]) /\ Knows(disk[i])
      BY DEF SessInv
    <3> QED BY <2>1, <2>2, <3>1 DEF SentBy, AnsweredTo, Knows
  <2> QED BY <2>3, <2>4 DEF SessInv
<1> QED BY <1>2, <1>3, <1>4, <1>5, <1>6

(***************************************************************************)
(* An installation whose token is accepted knows the vault in force, apart *)
(* from its own rotation whose answer was lost and a draft that login      *)
(* kept: no interleaving of a login, a link or an upload with somebody     *)
(* else's rotation leaves it with an accepted token and another vault      *)
(* (index.ts, PUT: a rotation keeps only the session that asked for it).   *)
(***************************************************************************)
THEOREM LoggedInKnowsVault == Spec => []SessionKnowsVault
<1>1. Init => SessInv
  BY DEF Init, ServerInit, NoAccount, Idle, NoAnswer, SessInv, TokensIssued, OfAccount,
         Awaited, Exists, SentBy, AnsweredTo, Knows, Good, Accepted, Live, Clients
<1>2. IInv /\ IInv' /\ SessInv /\ [Next]_vars => SessInv'
  <2> SUFFICES ASSUME IInv, IInv', SessInv, [Next]_vars PROVE SessInv'
    OBVIOUS
  <2>1. CASE UNCHANGED vars
    <3>1. UNCHANGED <<account, expired, links, issued, rotator, disk, codes, wire, proc>>
      BY <2>1 DEF vars, server, clients
    <3>2. TokensIssued' /\ OfAccount' /\ Awaited'
      BY <3>1 DEF SessInv, TokensIssued, OfAccount, Awaited, Exists
    <3>3. ASSUME NEW i \in Installs
          PROVE SentBy(proc[i], disk[i])' /\ AnsweredTo(proc[i], disk[i])' /\ Knows(disk[i])'
      BY <3>1 DEF SessInv, SentBy, AnsweredTo, Knows, Good, Accepted, Live
    <3> QED BY <3>2, <3>3 DEF SessInv
  <2> QED BY <2>1, ServerSessInv, StartSess, ContinueSess, OtherSess DEF Next
<1>3. SessInv => SessionKnowsVault
  BY DEF SessInv, Knows, Good, SessionKnowsVault
<1> QED BY <1>1, <1>2, <1>3, Inductive, PTL DEF Spec

=============================================================================
