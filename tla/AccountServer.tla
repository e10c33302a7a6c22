---------------------------- MODULE AccountServer ---------------------------
(***************************************************************************)
(* The server's side of one cloud account: the sessions, pending device    *)
(* links, recovery code and vault root that the Account object of          *)
(* cloud/src/index.ts keeps, one action for each stretch of a handler      *)
(* between two awaits.  CloudAccount adds the clients.                     *)
(*                                                                         *)
(* A request is "sent", then "routed" while the job router yields, then    *)
(* "verifying" while a signature is checked; other requests are served in  *)
(* between.                                                                *)
(*                                                                         *)
(* Vaults, passwords, device ids and tokens are drawn at random by the     *)
(* code and are numbered here in the order in which they are drawn; 0 is   *)
(* none.  A vault stands for its master key, and so for its root public    *)
(* key and for the recovery code that was made with it.  The documents in  *)
(* the vault and how they merge are the subject of VaultSync.              *)
(***************************************************************************)
EXTENDS Naturals, FiniteSets

CONSTANTS Installs,      \* configurations of the command line program
          Browser,
          Links,         \* link request ids, each drawn once
          NoLink,
          DeviceLimit,   \* sessions of an account, 32 in the code
          LinkLimit,     \* link requests at a time, 12 in the code
          MaxSessions    \* bound: tokens issued

Clients == Installs \cup {Browser}

ASSUME ServerAssumption ==
    /\ Browser \notin Installs
    /\ NoLink \notin Links
    /\ IsFiniteSet(Links)
    /\ DeviceLimit \in Nat \ {0} /\ LinkLimit \in Nat \ {0}
    /\ MaxSessions \in Nat

VARIABLES
    account,    \* the row of the account table; root 0 without one
    expired,    \* tokens issued more than thirty days ago
    links,      \* links[l]: the row of link request l
    issued,     \* tokens issued so far
    rotator,    \* history: the token with which the root was last rotated
    wire,       \* requests on their way to, or inside, the server
    proc        \* proc[c]: the command that client c is executing

server == <<account, expired, links, issued, rotator>>

-----------------------------------------------------------------------------
Device == [id : Nat, token : Nat, kind : {"cli", "browser"}]

\* snap is the vault that encrypted and signed the current snapshot.
Account == [root : Nat, recovery : Nat, pw : Nat, snap : Nat,
            revision : Nat, devices : SUBSET Device]

NoAccount == [root |-> 0, recovery |-> 0, pw |-> 0, snap |-> 0,
              revision |-> 0, devices |-> {}]

Link == [status : {"unused", "pending", "approved", "gone"}, id : Nat,
         root : Nat, token : Nat]

Kinds == {"register", "login", "recover", "touch", "revoke", "undo",
          "logout", "password", "delete", "put", "rotate", "link",
          "approve", "unlink"}

Request == [from : Clients, kind : Kinds,
            stage : {"sent", "routed", "verifying"}, token : Nat, id : Nat,
            vault : Nat, root : Nat, base : Nat, pw : Nat,
            link : Links \cup {NoLink}, saw : SUBSET Device, orphan : BOOLEAN]

Answer == [token : Nat, root : Nat, revision : Nat, grant : Nat]

NoAnswer == [token |-> 0, root |-> 0, revision |-> 0, grant |-> 0]

Blank == [from |-> Browser, kind |-> "touch", stage |-> "sent", token |-> 0,
          id |-> 0, vault |-> 0, root |-> 0, base |-> 0, pw |-> 0,
          link |-> NoLink, saw |-> {}, orphan |-> FALSE]

Process == [step : {"idle", "await", "answered", "polling", "linked"},
            req : Request, ans : Answer]

Idle == [step |-> "idle", req |-> Blank, ans |-> NoAnswer]

ServerTypeOK ==
    /\ account \in Account
    /\ expired \subseteq Nat
    /\ links \in [Links -> Link]
    /\ issued \in Nat /\ rotator \in Nat
    /\ wire \subseteq Request
    /\ proc \in [Clients -> Process]

ServerInit ==
    /\ account = NoAccount
    /\ expired = {}
    /\ links = [l \in Links |->
                   [status |-> "unused", id |-> 0, root |-> 0, token |-> 0]]
    /\ issued = 0 /\ rotator = 0
    /\ wire = {}
    /\ proc = [c \in Clients |-> Idle]

-----------------------------------------------------------------------------
(* The server: sessions                                                    *)

Exists == account.root # 0

Live(devices) == {d \in devices : d.token \notin expired}

Accepted(t) == \E d \in Live(account.devices) : d.token = t

Session(t) == CHOOSE d \in Live(account.devices) : d.token = t

\* The sessions that login keeps: the device's own is replaced.
Others(devices, id) == {d \in Live(devices) : d.id # id}

Granted(devices, id, kind) ==
    Others(devices, id) \cup {[id |-> id, token |-> issued + 1, kind |-> kind]}

HasRoom(devices, id) == Cardinality(Others(devices, id)) < DeviceLimit

\* The client does nothing with the answer but report it.
Ends(r, status) ==
    \/ r.kind \in {"touch", "undo", "password", "delete", "approve", "unlink"}
    \/ status # 200 /\ ~(status = 401 /\ r.kind = "logout")

\* The answer is taken by the process that sent r, if it is still there.
Reply(r, status, token) ==
    /\ wire' = wire \ {r}
    /\ proc' = CASE r.orphan -> proc
                 [] ~r.orphan /\ Ends(r, status) ->
                       [proc EXCEPT ![r.from] = Idle]
                 [] OTHER ->
                       [proc EXCEPT ![r.from].step = "answered",
                                    ![r.from].ans =
                           [token |-> token, grant |-> 0,
                            root |-> account'.snap,
                            revision |-> account'.revision]]

Refuse(r, status) == UNCHANGED server /\ Reply(r, status, 0)

Advance(r, s) ==
    /\ wire' = (wire \ {r}) \cup {s}
    /\ UNCHANGED <<server, proc>>

\* acc is the state on which login works, which it saves.
Login(r, acc, id, kind) ==
    /\ issued < MaxSessions
    /\ IF HasRoom(acc.devices, id)
       THEN /\ account' = [acc EXCEPT !.devices = Granted(acc.devices, id, kind)]
            /\ issued' = issued + 1
            /\ Reply(r, 200, issued + 1)
            /\ UNCHANGED <<expired, links, rotator>>
       ELSE Refuse(r, 409)

\* b._browser marks the logins that come through /v1/web.
KindOf(r) == IF r.from = Browser THEN "browser" ELSE "cli"

ServeRegister(r) ==
    /\ r.kind = "register" /\ r.stage = "sent"
    /\ IF Exists THEN Refuse(r, 409)
       ELSE Advance(r, [r EXCEPT !.stage = "verifying"])

CommitRegister(r) ==
    /\ r.kind = "register" /\ r.stage = "verifying"
    /\ IF Exists THEN Refuse(r, 409)
       ELSE Login(r, [root |-> r.vault, recovery |-> r.vault, pw |-> r.pw,
                      snap |-> r.vault, revision |-> 1, devices |-> {}],
                  r.id, "cli")

ServeLogin(r) ==
    /\ r.kind = "login"
    /\ IF Exists /\ account.pw = r.pw THEN Login(r, account, r.id, KindOf(r))
       ELSE Refuse(r, 401)

ServeRecover(r) ==
    /\ r.kind = "recover"
    /\ IF Exists /\ account.recovery = r.vault
       THEN Login(r, [account EXCEPT !.pw = r.pw, !.devices = {}], r.id, "cli")
       ELSE Refuse(r, 401)

-----------------------------------------------------------------------------
(* The server: requests of a session                                       *)

SessionKinds == {"touch", "revoke", "undo", "logout", "password", "delete",
                 "put", "rotate"}

\* saw is the state that the handler read before the job router yields.
Route(r) ==
    /\ r.kind \in SessionKinds /\ r.stage = "sent"
    /\ IF Accepted(r.token)
       THEN Advance(r, [r EXCEPT !.stage = "routed", !.saw = account.devices])
       ELSE Refuse(r, 401)

\* Mutation of Reread: the state from before the yield is saved.
StaleRead(r) == r.saw

\* The state that is changed and saved: it is read again after the yield.
Reread(r) == account.devices

\* A handler of a session acts only if its token is accepted when it resumes.
Resume(r, kinds, Do) ==
    /\ r.kind \in kinds /\ r.stage = "routed"
    /\ IF Accepted(r.token) THEN Do ELSE Refuse(r, 401)

\* Heartbeat, version report and renaming write fields of a device only.
ServeTouch(r) ==
    Resume(r, {"touch"},
           /\ account' = [account EXCEPT !.devices = Reread(r)]
           /\ Reply(r, 200, 0)
           /\ UNCHANGED <<expired, links, issued, rotator>>)

ServeRevoke(r) ==
    Resume(r, {"revoke", "undo", "logout"},
           /\ account' = [account EXCEPT !.devices =
                             {d \in Reread(r) : d.id # r.id}]
           /\ Reply(r, 200, 0)
           /\ UNCHANGED <<expired, links, issued, rotator>>)

ServePassword(r) ==
    Resume(r, {"password"},
           IF account.pw # r.base THEN Refuse(r, 401)
           ELSE /\ account' = [account EXCEPT !.pw = r.pw,
                                              !.devices = {Session(r.token)}]
                /\ Reply(r, 200, 0)
                /\ UNCHANGED <<expired, links, issued, rotator>>)

ServeDelete(r) ==
    Resume(r, {"delete"},
           IF account.pw # r.base THEN Refuse(r, 401)
           ELSE /\ account' = NoAccount
                /\ links' = [l \in Links |->
                                IF links[l].status = "unused" THEN links[l]
                                ELSE [links[l] EXCEPT !.status = "gone"]]
                /\ Reply(r, 200, 0)
                /\ UNCHANGED <<expired, issued, rotator>>)

\* An update is signed by the root in force, a rotation is authorised by it.
Signed(r) == account.root = IF r.kind = "put" THEN r.vault ELSE r.root

ServePut(r) ==
    Resume(r, {"put", "rotate"},
           CASE r.base # account.revision -> Refuse(r, 409)
             [] r.base = account.revision /\ ~Signed(r) -> Refuse(r, 403)
             [] OTHER -> Advance(r, [r EXCEPT !.stage = "verifying",
                                              !.root = account.root]))

\* Mutation of Current: nothing is checked again once the signature is.
NeverStale(r) == TRUE

\* What was read before the signature check still holds.
Current(r) == account.revision = r.base /\ account.root = r.root

\* Mutation of Survivors: a rotation leaves every session as it is.
EveryDevice(r) == account.devices

\* The sessions that outlive a committed update.
Survivors(r) ==
    IF r.kind = "rotate" THEN {Session(r.token)} ELSE account.devices

\* A rotation brings a root and a recovery code of its own.
Updated(r) ==
    [root |-> IF r.kind = "rotate" THEN r.vault ELSE account.root,
     recovery |-> IF r.kind = "rotate" THEN r.vault ELSE account.recovery,
     pw |-> account.pw, snap |-> r.vault, revision |-> r.base + 1,
     devices |-> Survivors(r)]

CommitPut(r) ==
    /\ r.kind \in {"put", "rotate"} /\ r.stage = "verifying"
    /\ CASE ~Accepted(r.token) -> Refuse(r, 401)
         [] Accepted(r.token) /\ ~Current(r) -> Refuse(r, 409)
         [] OTHER ->
               /\ account' = Updated(r)
               /\ rotator' = IF r.kind = "rotate" THEN r.token ELSE rotator
               /\ Reply(r, 200, 0)
               /\ UNCHANGED <<expired, links, issued>>

-----------------------------------------------------------------------------
(* The server: device links                                                *)

Rows == {l \in Links : links[l].status \in {"pending", "approved"}}

ServeLink(r) ==
    /\ r.kind = "link"
    /\ CASE ~Exists -> Refuse(r, 401)
         [] Exists /\ Cardinality(Rows) >= LinkLimit -> Refuse(r, 429)
         [] OTHER ->
               /\ links' = [links EXCEPT ![r.link].status = "pending",
                                         ![r.link].id = r.id]
               /\ UNCHANGED <<account, expired, issued, rotator>>
               /\ Reply(r, 200, 0)

\* Only a browser session approves; its grant is signed by the vault that the
\* console has unlocked.
ServeApprove(r) ==
    /\ r.kind = "approve" /\ r.stage = "sent"
    /\ CASE ~Accepted(r.token) -> Refuse(r, 401)
         [] Accepted(r.token) /\ Session(r.token).kind # "browser" ->
               Refuse(r, 403)
         [] Accepted(r.token) /\ Session(r.token).kind = "browser"
                              /\ links[r.link].status # "pending" ->
               Refuse(r, 409)
         [] Accepted(r.token) /\ Session(r.token).kind = "browser"
                              /\ links[r.link].status = "pending"
                              /\ r.vault # account.root -> Refuse(r, 403)
         [] OTHER -> Advance(r, [r EXCEPT !.stage = "verifying",
                                          !.root = account.root])

\* Mutation of StillPending: a second approval may follow the first.
NotDeleted(r) == links[r.link].status \in {"pending", "approved"}

\* The link request is as it was before the signature check.
StillPending(r) == links[r.link].status = "pending"

\* Mutation of MayApprove: the approving session is not looked up again.
RootUnchanged(r) == account.root = r.root

\* The root and the approving session are those of before the check.
MayApprove(r) == account.root = r.root /\ Accepted(r.token)

CommitApprove(r) ==
    /\ r.kind = "approve" /\ r.stage = "verifying"
    /\ IF ~MayApprove(r) \/ ~StillPending(r) THEN Refuse(r, 409)
       ELSE /\ issued < MaxSessions
            /\ IF HasRoom(account.devices, links[r.link].id)
               THEN /\ account' = [account EXCEPT !.devices =
                                      Granted(@, links[r.link].id, "cli")]
                    /\ links' = [links EXCEPT ![r.link] =
                                    [status |-> "approved",
                                     id |-> links[r.link].id,
                                     root |-> r.root, token |-> issued + 1]]
                    /\ issued' = issued + 1
                    /\ Reply(r, 200, 0)
                    /\ UNCHANGED <<expired, rotator>>
               ELSE Refuse(r, 409)

\* By the browser, or by the device that asked.
ServeUnlink(r) ==
    /\ r.kind = "unlink"
    /\ CASE ~Accepted(r.token) -> Refuse(r, 401)
         [] Accepted(r.token) /\ r.link \notin Rows -> Refuse(r, 404)
         [] Accepted(r.token) /\ r.link \in Rows
            /\ Session(r.token).kind # "browser"
            /\ Session(r.token).id # links[r.link].id -> Refuse(r, 403)
         [] OTHER ->
               /\ links' = [links EXCEPT ![r.link].status = "gone"]
               /\ UNCHANGED <<account, expired, issued, rotator>>
               /\ Reply(r, 200, 0)

Serve(r) ==
    \/ ServeRegister(r) \/ CommitRegister(r)
    \/ ServeLogin(r) \/ ServeRecover(r)
    \/ Route(r) \/ ServeTouch(r) \/ ServeRevoke(r) \/ ServePassword(r)
    \/ ServeDelete(r) \/ ServePut(r) \/ CommitPut(r)
    \/ ServeLink(r) \/ ServeApprove(r) \/ CommitApprove(r) \/ ServeUnlink(r)

=============================================================================
