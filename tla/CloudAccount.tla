---------------------------- MODULE CloudAccount ----------------------------
(***************************************************************************)
(* One cloud account with its clients: the account commands of             *)
(* internal/commands/cloud.go and cloud_link.go on the installations, and  *)
(* the browser console that approves links, against AccountServer.         *)
(*                                                                         *)
(* A process can fail at every step: its request may be lost, or be served *)
(* with nobody left to take the answer.                                    *)
(***************************************************************************)
EXTENDS AccountServer

CONSTANTS PhraseOf,      \* PhraseOf[v]: the unlock phrase chosen for vault v
          Commands,      \* bound: the commands that users give
          MaxVaults,     \* bound: vaults made
          MaxPasswords,  \* bound: account passwords chosen
          MaxIds,        \* bound: device ids drawn
          MaxRevision,   \* bound: revisions written on top of
          MaxFaults      \* bound: failures, revocations, periods that run out

AllCommands == {"register", "login", "web", "recover", "touch", "revoke",
                "logout", "password", "delete", "edit", "sync", "rekey", "link",
                "approve", "reject", "expire"}

ASSUME AccountAssumption ==
    /\ DOMAIN PhraseOf = 1..MaxVaults
    /\ Commands \subseteq AllCommands
    /\ MaxVaults \in Nat /\ MaxPasswords \in Nat /\ MaxIds \in Nat
    /\ MaxRevision \in Nat /\ MaxFaults \in Nat

VARIABLES
    disk,       \* disk[c]: the saved state of c; the browser's is in memory
    codes,      \* recovery codes that were written to a private file
    vaults, passwords, ids, faults

clients == <<disk, codes, vaults, passwords, ids>>
vars == <<server, clients, wire, proc, faults>>

\* root 0: there is no state file.  token 0: logged out.
State == [token : Nat, id : Nat, root : Nat, revision : Nat, dirty : BOOLEAN]

TypeOK ==
    /\ ServerTypeOK
    /\ disk \in [Clients -> State]
    /\ codes \subseteq Nat
    /\ vaults \in Nat /\ passwords \in Nat /\ ids \in Nat /\ faults \in Nat

Init ==
    /\ ServerInit
    /\ disk = [c \in Clients |-> [token |-> 0, id |-> 0, root |-> 0,
                                  revision |-> 0, dirty |-> FALSE]]
    /\ codes = {}
    /\ vaults = 0 /\ passwords = 0 /\ ids = 0 /\ faults = 0

ServerStep == (\E r \in wire : Serve(r)) /\ UNCHANGED <<clients, faults>>

-----------------------------------------------------------------------------
(* The clients                                                             *)

Ask(c, kind) == [Blank EXCEPT !.from = c, !.kind = kind,
                              !.token = disk[c].token, !.id = disk[c].id]

Send(c, r) ==
    /\ wire' = wire \cup {r}
    /\ proc' = [proc EXCEPT ![c] = [step |-> "await", req |-> r,
                                    ans |-> NoAnswer]]

\* A command starts under the lock of the state file.
Command(c, name) == name \in Commands /\ proc[c].step = "idle"

HasState(c) == disk[c].root # 0

LoggedIn(c) == disk[c].token # 0

\* The device id of the saved state, or a new one.
IdFor(c) == IF HasState(c) THEN disk[c].id ELSE ids + 1

Draw(id) == id <= MaxIds /\ ids' = IF id > ids THEN id ELSE ids

\* Mutation of SaveRecovery: the code is written when the server has answered.
SaveNothing(v) == codes

\* cloudSaveRecovery: the new code is in its file before anything is sent.
SaveRecovery(v) == codes \cup {v}

Register(i) ==
    /\ Command(i, "register")
    /\ ~LoggedIn(i) /\ ~disk[i].dirty
    /\ vaults < MaxVaults /\ passwords < MaxPasswords
    /\ vaults' = vaults + 1 /\ passwords' = passwords + 1 /\ Draw(ids + 1)
    /\ codes' = SaveRecovery(vaults + 1)
    /\ Send(i, [Ask(i, "register") EXCEPT !.vault = vaults + 1, !.token = 0,
                                          !.pw = passwords + 1, !.id = ids + 1])
    /\ UNCHANGED disk

\* The user types the password of the day.  The browser draws an id each time.
LoginCommand(c) ==
    /\ Command(c, IF c = Browser THEN "web" ELSE "login")
    /\ Exists
    /\ c = Browser => ~LoggedIn(c)
    /\ LET id == IF c = Browser THEN ids + 1 ELSE IdFor(c)
       IN  /\ Send(c, [Ask(c, "login") EXCEPT !.pw = account.pw, !.token = 0,
                                              !.id = id])
           /\ Draw(id)
    /\ UNCHANGED <<disk, codes, vaults, passwords>>

Recover(i, code) ==
    /\ Command(i, "recover")
    /\ HasState(i) => ~LoggedIn(i) /\ ~disk[i].dirty
    /\ code \in codes
    /\ passwords < MaxPasswords
    /\ passwords' = passwords + 1 /\ Draw(ids + 1)
    /\ Send(i, [Ask(i, "recover") EXCEPT !.vault = code, !.token = 0,
                                         !.pw = passwords + 1, !.id = ids + 1])
    /\ UNCHANGED <<disk, codes, vaults>>

\* Heartbeat, version report, renaming.
Touch(c) ==
    /\ Command(c, "touch") /\ LoggedIn(c)
    /\ Send(c, Ask(c, "touch"))
    /\ UNCHANGED clients

Revoke(c, id) ==
    /\ Command(c, "revoke") /\ LoggedIn(c)
    /\ \E d \in Live(account.devices) : d.id = id
    /\ faults < MaxFaults
    /\ faults' = faults + 1
    /\ Send(c, [Ask(c, "revoke") EXCEPT !.id = id])
    /\ UNCHANGED <<server, clients>>

Logout(c) ==
    /\ Command(c, "logout") /\ LoggedIn(c) /\ ~disk[c].dirty
    /\ Send(c, Ask(c, "logout"))
    /\ UNCHANGED clients

ChangePassword(i) ==
    /\ Command(i, "password") /\ LoggedIn(i)
    /\ passwords < MaxPasswords
    /\ passwords' = passwords + 1
    /\ Send(i, [Ask(i, "password") EXCEPT !.base = account.pw,
                                          !.pw = passwords + 1])
    /\ UNCHANGED <<disk, codes, vaults, ids>>

DeleteAccount(i) ==
    /\ Command(i, "delete") /\ LoggedIn(i)
    /\ Send(i, [Ask(i, "delete") EXCEPT !.base = account.pw])
    /\ UNCHANGED clients

Edit(i) ==
    /\ Command(i, "edit") /\ HasState(i) /\ ~disk[i].dirty
    /\ disk' = [disk EXCEPT ![i].dirty = TRUE]
    /\ UNCHANGED <<server, codes, vaults, passwords, ids, wire, proc, faults>>

\* The vault is read, under the root that the state knows, and then written.
Sync(i) ==
    /\ Command(i, "sync") /\ HasState(i)
    /\ Accepted(disk[i].token) /\ account.snap = disk[i].root
    /\ account.revision < MaxRevision
    /\ disk' = [disk EXCEPT ![i].revision = account.revision]
    /\ IF disk[i].dirty
       THEN Send(i, [Ask(i, "put") EXCEPT !.vault = disk[i].root,
                                          !.base = account.revision])
       ELSE UNCHANGED <<wire, proc>>
    /\ UNCHANGED <<codes, vaults, passwords, ids>>

Rekey(i) ==
    /\ Command(i, "rekey") /\ HasState(i) /\ LoggedIn(i) /\ ~disk[i].dirty
    /\ vaults < MaxVaults
    /\ vaults' = vaults + 1
    /\ codes' = SaveRecovery(vaults + 1)
    /\ Send(i, [Ask(i, "rotate") EXCEPT !.vault = vaults + 1,
                                        !.root = disk[i].root,
                                        !.base = disk[i].revision])
    /\ UNCHANGED <<disk, passwords, ids>>

\* The request is pinned to the root in the state, or to the one that the
\* user reads in the browser.
LinkCommand(i, l) ==
    /\ Command(i, "link") /\ ~disk[i].dirty
    /\ links[l].status = "unused" /\ \A r \in wire : r.link # l
    /\ \E pinned \in {disk[i].root, account.root} \ {0} :
          Send(i, [Ask(i, "link") EXCEPT !.link = l, !.token = 0,
                                         !.id = IdFor(i), !.root = pinned])
    /\ Draw(IdFor(i))
    /\ UNCHANGED <<disk, codes, vaults, passwords>>

\* submitUnlock: the console opens the current snapshot with the phrase.
Unlock ==
    /\ Command(Browser, "approve") /\ Accepted(disk[Browser].token)
    /\ disk' = [disk EXCEPT ![Browser].root = account.snap,
                            ![Browser].revision = account.revision]
    /\ disk' # disk
    /\ UNCHANGED <<server, codes, vaults, passwords, ids, wire, proc, faults>>

Approve(l) ==
    /\ Command(Browser, "approve") /\ HasState(Browser)
    /\ Accepted(disk[Browser].token) /\ links[l].status = "pending"
    /\ Send(Browser, [Ask(Browser, "approve") EXCEPT
                         !.link = l, !.vault = disk[Browser].root])
    /\ UNCHANGED clients

Reject(l) ==
    /\ Command(Browser, "reject")
    /\ Accepted(disk[Browser].token) /\ links[l].status = "pending"
    /\ Send(Browser, [Ask(Browser, "unlink") EXCEPT !.link = l])
    /\ UNCHANGED clients

Start ==
    /\ \/ \E i \in Installs : \/ Register(i) \/ ChangePassword(i)
                              \/ DeleteAccount(i) \/ Rekey(i) \/ Sync(i)
                              \/ \E v \in codes : Recover(i, v)
                              \/ \E l \in Links : LinkCommand(i, l)
       \/ \E c \in Clients : \/ LoginCommand(c) \/ Touch(c) \/ Logout(c)
       \/ \E l \in Links : Approve(l) \/ Reject(l)
    /\ UNCHANGED <<server, faults>>

-----------------------------------------------------------------------------
(* The clients, when the answer is there                                   *)

Answered(c, kinds) == proc[c].step = "answered" /\ proc[c].req.kind \in kinds

Finish(c) == proc' = [proc EXCEPT ![c] = Idle] /\ UNCHANGED wire

\* The state of a session that was just granted.
Fresh(c) == [token |-> proc[c].ans.token, id |-> proc[c].req.id,
             root |-> IF c = Browser THEN 0 ELSE proc[c].ans.root,
             revision |-> IF c = Browser THEN 0 ELSE proc[c].ans.revision,
             dirty |-> FALSE]

\* Register compares the snapshot with its own, Recover opens it with the code.
Granting(i) ==
    /\ Answered(i, {"register", "recover"})
    /\ disk' = IF proc[i].ans.root = proc[i].req.vault
               THEN [disk EXCEPT ![i] = Fresh(i)] ELSE disk
    /\ Finish(i)

\* A draft that was not uploaded keeps its base under the new session, if the
\* phrase opens it too.
KeepDraft(i) == [disk[i] EXCEPT !.token = proc[i].ans.token]

SamePhrase(i) == PhraseOf[disk[i].root] = PhraseOf[proc[i].ans.root]

RolledBack(i) == HasState(i) /\ proc[i].ans.revision < disk[i].revision

LoginAnswer(c) ==
    /\ Answered(c, {"login"})
    /\ disk' = CASE c = Browser -> [disk EXCEPT ![c] = Fresh(c)]
                 [] c # Browser /\ RolledBack(c) -> disk
                 [] c # Browser /\ ~RolledBack(c) /\ disk[c].dirty ->
                       IF SamePhrase(c) THEN [disk EXCEPT ![c] = KeepDraft(c)]
                       ELSE disk
                 [] OTHER -> [disk EXCEPT ![c] = Fresh(c)]
    /\ Finish(c)

\* The phrase does not open the snapshot: the session is given back.
WrongPhrase(i) ==
    /\ Answered(i, {"login"})
    /\ Send(i, [Ask(i, "undo") EXCEPT !.token = proc[i].ans.token,
                                      !.id = proc[i].req.id])
    /\ UNCHANGED disk

EndSession(c) == [disk EXCEPT ![c].token = 0,
                              ![c].root = IF c = Browser THEN 0 ELSE @]

RevokeAnswer(c) ==
    /\ Answered(c, {"revoke"})
    /\ disk' = IF proc[c].req.id = disk[c].id THEN EndSession(c)
               ELSE disk
    /\ Finish(c)

\* A session that the server does not know any more is ended as well.
LogoutAnswer(c) ==
    /\ Answered(c, {"logout"})
    /\ disk' = EndSession(c)
    /\ Finish(c)

\* The draft that was uploaded is the new base.
PutAnswer(i) ==
    /\ Answered(i, {"put"})
    /\ disk' = [disk EXCEPT ![i].revision = proc[i].ans.revision,
                            ![i].dirty = FALSE]
    /\ Finish(i)

RekeyAnswer(i) ==
    /\ Answered(i, {"rotate"})
    /\ disk' = [disk EXCEPT ![i].root = proc[i].req.vault,
                            ![i].revision = proc[i].ans.revision]
    /\ Finish(i)

LinkAnswer(i) ==
    /\ Answered(i, {"link"})
    /\ proc' = [proc EXCEPT ![i].step = "polling"]
    /\ UNCHANGED <<disk, wire>>

\* One poll of WaitLink that is not answered with "pending".
Poll(i) ==
    LET row == links[proc[i].req.link]
    IN  /\ proc[i].step = "polling" /\ row.status # "pending"
        /\ proc' = IF row.status = "approved" /\ row.root = account.root
                      /\ Accepted(row.token)
                   THEN [proc EXCEPT ![i].step = "linked",
                                     ![i].ans = [token |-> row.token,
                                                 root |-> account.snap,
                                                 revision |-> account.revision,
                                                 grant |-> row.root]]
                   ELSE [proc EXCEPT ![i] = Idle]
        /\ UNCHANGED <<disk, wire>>

\* The grant and the snapshot are of the pinned vault; the row is removed.
SaveLink(i) ==
    /\ proc[i].step = "linked"
    /\ IF /\ proc[i].ans.root = proc[i].req.root
          /\ proc[i].ans.grant = proc[i].req.root
          /\ ~RolledBack(i)
       THEN /\ disk' = [disk EXCEPT ![i] = Fresh(i)]
            /\ Send(i, [Ask(i, "unlink") EXCEPT !.token = proc[i].ans.token,
                                                !.id = proc[i].req.id,
                                                !.link = proc[i].req.link])
       ELSE UNCHANGED disk /\ Finish(i)

Continue ==
    /\ \/ \E i \in Installs : \/ Granting(i) \/ WrongPhrase(i)
                              \/ PutAnswer(i) \/ RekeyAnswer(i)
                              \/ LinkAnswer(i) \/ Poll(i) \/ SaveLink(i)
       \/ \E c \in Clients : \/ LoginAnswer(c) \/ RevokeAnswer(c)
                             \/ LogoutAnswer(c)
    /\ UNCHANGED <<server, codes, vaults, passwords, ids, faults>>

-----------------------------------------------------------------------------
(* The environment                                                         *)

\* The process of c ends, or its request faults.  What it sent is lost, or is
\* served all the same.
Fail(c) ==
    /\ faults < MaxFaults /\ proc[c].step # "idle"
    /\ faults' = faults + 1
    /\ proc' = [proc EXCEPT ![c] = Idle]
    /\ LET mine == {r \in wire : r.from = c /\ ~r.orphan}
       IN  \/ wire' = wire \ mine
           \/ mine # {} /\ wire' = (wire \ mine) \cup
                                   {[r EXCEPT !.orphan = TRUE] : r \in mine}
    /\ UNCHANGED <<server, clients>>

\* Thirty days pass for a session, ten minutes for a link request.
Expire ==
    /\ "expire" \in Commands
    /\ faults < MaxFaults
    /\ faults' = faults + 1
    /\ \/ \E d \in Live(account.devices) : expired' = expired \cup {d.token}
                                           /\ UNCHANGED links
       \/ \E l \in Rows : links' = [links EXCEPT ![l].status = "gone"]
                          /\ UNCHANGED expired
    /\ UNCHANGED <<account, issued, rotator, clients, wire, proc>>

Next ==
    \/ ServerStep
    \/ Start
    \/ (\E i \in Installs : Edit(i)) \/ Unlock
    \/ \E c \in Clients, d \in account.devices : Revoke(c, d.id)
    \/ Continue
    \/ \E c \in Clients : Fail(c)
    \/ Expire

Spec == Init /\ [][Next]_vars

-----------------------------------------------------------------------------
(* Correctness                                                             *)

(***************************************************************************)
(* A token that the server refuses is refused for ever: no handler that    *)
(* read the account before a revocation, a password change, a rotation or  *)
(* a recovery writes the ended session back (index.ts, handle: "Never save *)
(* a stale account snapshot ... or restore a revoked credential").         *)
(***************************************************************************)
EndedStaysEnded ==
    [][\A t \in 1..issued : ~Accepted(t) => ~Accepted(t)']_vars

(***************************************************************************)
(* Revocation wins over what is under way: a request that carries a token  *)
(* changes the account or grants a link only while that token is accepted, *)
(* however long ago its first check passed.                                *)
(***************************************************************************)
RevocationWins ==
    [][\A r \in wire \ wire' :
          r.kind \in SessionKinds \cup {"approve", "unlink"}
             /\ ~Accepted(r.token)
          => UNCHANGED <<account, links>>]_vars

(***************************************************************************)
(* Root, recovery code and snapshot of the account are always those of one *)
(* vault: the code that /v1/recover accepts opens the snapshot it returns, *)
(* and clients that know the root can verify the snapshot.                 *)
(***************************************************************************)
OneVault ==
    account.recovery = account.root /\ account.snap = account.root

(***************************************************************************)
(* The recovery code that the server would accept has been written to a    *)
(* private file, also when the process that registered or rotated died     *)
(* before it saw the answer.                                               *)
(***************************************************************************)
RecoverySaved == Exists => account.recovery \in codes

(***************************************************************************)
(* An installation whose token is accepted knows the vault in force.  The  *)
(* exceptions: it rotated the vault itself and has not stored the answer,  *)
(* or login kept a draft that was made before somebody else's rotation.    *)
(***************************************************************************)
SessionKnowsVault ==
    \A i \in Installs :
        \/ ~Accepted(disk[i].token)
        \/ disk[i].root = account.root
        \/ disk[i].dirty
        \/ disk[i].token = rotator

(***************************************************************************)
(* A link request is approved once: the session that it delivers is never  *)
(* exchanged for another one while its device may be polling for it.       *)
(***************************************************************************)
ApprovedOnce ==
    [][\A l \in Links : links[l].status = "approved"
          => links'[l] \in {links[l], [links[l] EXCEPT !.status = "gone"]}]_vars

(***************************************************************************)
(* While a vault is in force its revision moves up one at a time, and the  *)
(* root changes only together with the revision: no update that was made   *)
(* on an older revision overwrites a newer one.                            *)
(***************************************************************************)
RevisionGrows ==
    [][Exists /\ Exists' =>
          \/ account'.revision = account.revision
             /\ account'.root = account.root /\ account'.snap = account.snap
          \/ account'.revision = account.revision + 1]_vars

=============================================================================
