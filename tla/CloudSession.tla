---------------------------- MODULE CloudSession ----------------------------
(***************************************************************************)
(* The cloud session of one MCP process (mcp/cloud_session.go): a browser  *)
(* approval that is asked for, waited for in the background, used to read  *)
(* the vault at every new connection, and locked by its user, by a timer,  *)
(* or by the first sign that the account, the vault or the device changed. *)
(*                                                                         *)
(* The mutex of the session is held while Begin and Resolve talk to the    *)
(* server; the server, the account file of the command line program and    *)
(* the background wait go on meanwhile.  The device that an approval       *)
(* creates is named after the link it answers.                             *)
(***************************************************************************)
EXTENDS Naturals

CONSTANTS Links,      \* link requests, numbered in the order they are made
          Callers,    \* operations that open connections
          None,
          MaxVault,   \* bound on the vault's revisions
          MaxChanges  \* bound on locking by hand and on changes outside the process

ASSUME SessionAssumption ==
    /\ Links \subseteq Nat
    /\ None \notin Callers \cup Links /\ "begin" \notin Callers \cup {None}
    /\ MaxVault \in Nat /\ MaxChanges \in Nat

VARIABLES
    session,   \* the fields of CloudSession, all but the mutex
    mu,        \* who holds the mutex across a request: Begin or a caller
    read,      \* the account file as the holder of the mutex read it
    wait,      \* wait[l]: the goroutine that waits for the approval of l
    revoking,  \* devices with a revocation on its way
    account,   \* the account file
    link,      \* link[l]: the server's row of l; root is the approved vault's
    device,    \* device[l]: the server's session of the device l created
    vault,     \* the server's vault: its root and its revision
    changes

sessionVars == <<session, mu, read, wait, revoking, account, link, device, vault, changes>>

-----------------------------------------------------------------------------
\* The login of the command line program on this computer; 0 is logged out.
Account == [login : Nat, root : Nat, revision : Nat]

Session == [status : {"locked", "pending", "ready"}, generation : Nat,
            device : Links \cup {None}, owner : Nat, root : Nat, base : Nat,
            idle : BOOLEAN, old : BOOLEAN, armed : BOOLEAN]

Wait == [step : {"none", "polling", "approved", "failed", "done"},
         generation : Nat, original : Account \cup {None}, base : Nat]

SessionTypeOK ==
    /\ session \in Session
    /\ mu \in Callers \cup {None, "begin"}
    /\ read \in Account \cup {None}
    /\ wait \in [Links -> Wait]
    /\ revoking \subseteq Links
    /\ account \in Account
    /\ link \in [Links -> [status : {"unused", "pending", "approved", "gone"}, root : Nat]]
    /\ device \in [Links -> {"none", "live", "dead"}]
    /\ vault \in [root : Nat, revision : Nat]
    /\ changes \in 0..MaxChanges

NewSession == [status |-> "locked", generation |-> 0, device |-> None, owner |-> 0,
               root |-> 0, base |-> 0, idle |-> FALSE, old |-> FALSE, armed |-> FALSE]

\* Earlier links, if any, were never approved.
SessionInit(over, changesDone) ==
    /\ session = NewSession
    /\ mu = None /\ read = None
    /\ wait = [l \in Links |-> [step |-> "none", generation |-> 0, original |-> None, base |-> 0]]
    /\ revoking = {}
    /\ account = [login |-> 1, root |-> 0, revision |-> 1]
    /\ link = [l \in Links |-> [status |-> IF l \in over THEN "gone" ELSE "unused", root |-> 0]]
    /\ device = [l \in Links |-> "none"]
    /\ vault = [root |-> 0, revision |-> 1]
    /\ changes = changesDone

-----------------------------------------------------------------------------
(* What the methods do while they hold the mutex.                          *)

\* lockLocked: the generation moves on, so that whatever is under way for an
\* earlier one is discarded, and the device of the session is revoked.
Locked(s) == [NewSession EXCEPT !.generation = s.generation + 1]
Revoked(s) == {s.device} \ {None}

\* expireLocked, at the beginning of every method: idle for too long, or at
\* its maximum age, or the token at its end.
Due(s) == s.status = "ready" /\ (s.idle \/ s.old)
Expired(s) == IF Due(s) THEN Locked(s) ELSE s
ExpiredDevice(s) == IF Due(s) THEN Revoked(s) ELSE {}

Lock == session' = Locked(session) /\ revoking' = revoking \cup Revoked(session)
Expire == session' = Expired(session) /\ revoking' = revoking \cup ExpiredDevice(session)

Change == changes < MaxChanges /\ changes' = changes + 1

\* The account is still the one that asked: the same login, the same vault.
SameOwner(a, s, root) == a.login = s.owner /\ a.login # 0 /\ a.root = root

-----------------------------------------------------------------------------
(* Begin, and the wait in the background.                                  *)

\* cloud_unlock: a request that is pending or approved is reported again; else
\* the server is asked for a link, with the root that the account file pins.
Begin ==
    /\ mu = None
    /\ Expire
    /\ IF session'.status = "locked" /\ account.login # 0 /\ \E l \in Links : link[l].status = "unused"
       THEN mu' = "begin" /\ read' = account
       ELSE UNCHANGED <<mu, read>>
    /\ UNCHANGED <<wait, account, link, device, vault, changes>>

IsNext(l) == link[l].status = "unused" /\ \A k \in Links : link[k].status = "unused" => l <= k

\* The answer: the wait begins. Without one the link may exist all the same.
BeginAnswered ==
    /\ mu = "begin"
    /\ mu' = None /\ read' = None
    /\ \E l \in Links :
         /\ IsNext(l)
         /\ \/ /\ link' = [link EXCEPT ![l].status = "pending"]
               /\ session' = [session EXCEPT !.status = "pending", !.generation = @ + 1, !.owner = read.login]
               /\ wait' = [wait EXCEPT ![l] = [step |-> "polling", generation |-> session.generation + 1,
                                               original |-> read, base |-> 0]]
            \/ /\ link' = link \/ link' = [link EXCEPT ![l].status = "pending"]
               /\ UNCHANGED <<session, wait>>
    /\ UNCHANGED <<revoking, account, device, vault, changes>>

\* WaitLink comes back with a vault of the root the request pinned, or fails:
\* the answer is lost, the link is gone, too old or answered for another root,
\* or the context was cancelled.
WaitReturns(l) ==
    /\ wait[l].step = "polling"
    /\ \/ /\ link[l].status = "approved" /\ device[l] = "live"
          /\ link[l].root = vault.root /\ vault.root = wait[l].original.root
          /\ wait' = [wait EXCEPT ![l].step = "approved", ![l].base = vault.revision]
       \/ wait' = [wait EXCEPT ![l].step = "failed"]
    /\ UNCHANGED <<session, mu, read, revoking, account, link, device, vault, changes>>

\* The device a wait brought, if any.
Brought(l) == IF wait[l].step = "approved" THEN {l} ELSE {}

\* What waitApproval checks before it installs an approval: the account file is
\* the one that asked, and its vault is not newer than the approved one.
StillAsked(l) ==
    /\ SameOwner(account, session, wait[l].original.root)
    /\ wait[l].base >= account.revision

\* Mutation of WaitEnds: an approval is installed whatever happened meanwhile.
WaitEndsAnyway(l) ==
    /\ mu = None /\ wait[l].step \in {"approved", "failed"}
    /\ wait' = [wait EXCEPT ![l].step = "done"]
    /\ \/ /\ wait[l].step = "approved"
          /\ session' = [session EXCEPT !.status = "ready", !.device = l, !.root = wait[l].original.root,
                                        !.base = wait[l].base, !.armed = TRUE]
          /\ UNCHANGED revoking
       \/ wait[l].step = "failed" /\ Lock
    /\ UNCHANGED <<mu, read, account, link, device, vault, changes>>
\* Mutation of WaitEnds: an approval of another generation is forgotten.
WaitEndsForgets(l) ==
    /\ mu = None /\ wait[l].step \in {"approved", "failed"}
    /\ wait' = [wait EXCEPT ![l].step = "done"]
    /\ \/ wait[l].generation # session.generation /\ UNCHANGED <<session, revoking>>
       \/ /\ wait[l].generation = session.generation
          /\ wait[l].step = "failed" \/ ~StillAsked(l)
          /\ session' = Locked(session)
          /\ revoking' = revoking \cup Revoked(session) \cup Brought(l)
       \/ /\ wait[l].generation = session.generation
          /\ wait[l].step = "approved" /\ StillAsked(l)
          /\ session' = [session EXCEPT !.status = "ready", !.device = l, !.root = wait[l].original.root,
                                        !.base = wait[l].base, !.armed = TRUE]
          /\ UNCHANGED revoking
    /\ UNCHANGED <<mu, read, account, link, device, vault, changes>>
\* waitApproval, after WaitLink: an approval of another generation is revoked,
\* a failure locks, and so does an account that changed meanwhile.
WaitEnds(l) ==
    /\ mu = None /\ wait[l].step \in {"approved", "failed"}
    /\ wait' = [wait EXCEPT ![l].step = "done"]
    /\ \/ /\ wait[l].generation # session.generation
          /\ revoking' = revoking \cup Brought(l)
          /\ UNCHANGED session
       \/ /\ wait[l].generation = session.generation
          /\ wait[l].step = "failed" \/ ~StillAsked(l)
          /\ session' = Locked(session)
          /\ revoking' = revoking \cup Revoked(session) \cup Brought(l)
       \/ /\ wait[l].generation = session.generation
          /\ wait[l].step = "approved" /\ StillAsked(l)
          /\ session' = [session EXCEPT !.status = "ready", !.device = l, !.root = wait[l].original.root,
                                        !.base = wait[l].base, !.armed = TRUE]
          /\ UNCHANGED revoking
    /\ UNCHANGED <<mu, read, account, link, device, vault, changes>>

\* cloud_lock, and the end of the process.
Close ==
    /\ mu = None
    /\ Lock
    /\ Change
    /\ UNCHANGED <<mu, read, wait, account, link, device, vault>>

\* cloud_unlock_status.
Status ==
    /\ mu = None /\ Due(session)
    /\ Expire
    /\ UNCHANGED <<mu, read, wait, account, link, device, vault, changes>>

\* The timer of armLocked, for the generation it was armed in; locking stops it.
TimerFires ==
    /\ mu = None /\ session.armed /\ Due(session)
    /\ Expire
    /\ UNCHANGED <<mu, read, wait, account, link, device, vault, changes>>

\* revokeCloudSession: one request, answered or given up after five seconds.
RevokeEnds(l) ==
    /\ l \in revoking
    /\ revoking' = revoking \ {l}
    /\ \/ device' = [device EXCEPT ![l] = "dead"]
       \/ UNCHANGED device
    /\ UNCHANGED <<session, mu, read, wait, account, link, vault, changes>>

-----------------------------------------------------------------------------
(* Resolve.                                                                *)

\* The session is ready and the account is still its owner's; the vault is
\* asked for. (A record of another vault is refused without any change.)
Resolve(c) ==
    /\ mu = None
    /\ Expire
    /\ session'.status = "ready" /\ SameOwner(account, session', session'.root)
    /\ mu' = c /\ read' = account
    /\ UNCHANGED <<wait, account, link, device, vault, changes>>

\* It is locked, or the account changed, which locks it.
ResolveRefused(c) ==
    /\ mu = None
    /\ LET s == Expired(session)
           changed == s.status = "ready" /\ ~SameOwner(account, s, s.root)
       IN  /\ s.status # "ready" \/ changed
           /\ session' = IF changed THEN Locked(s) ELSE s
           /\ revoking' = revoking \cup ExpiredDevice(session) \cup (IF changed THEN Revoked(s) ELSE {})
    /\ UNCHANGED <<mu, read, wait, account, link, device, vault, changes>>

\* The vault is of the approved root and not older than the one last seen, by
\* the session and by the account file.
Genuine == vault.root = session.root /\ vault.revision >= session.base /\ vault.revision >= read.revision

Answered(c) == mu = c /\ mu' = None /\ read' = None

\* The credentials of the entry are handed out, and the timer starts again.
Resolved(c) ==
    /\ Answered(c)
    /\ device[session.device] = "live" /\ Genuine
    /\ session' = [session EXCEPT !.base = vault.revision, !.idle = FALSE, !.armed = TRUE]
    /\ UNCHANGED <<wait, revoking, account, link, device, vault, changes>>

\* Mutation of NoEntry: the timer is stopped and not started again.
NoEntryUnarmed(c) ==
    /\ Answered(c)
    /\ device[session.device] = "live" /\ Genuine
    /\ session' = [session EXCEPT !.base = vault.revision, !.idle = FALSE, !.armed = FALSE]
    /\ UNCHANGED <<wait, revoking, account, link, device, vault, changes>>
\* The vault is genuine and does not have the entry, or has another route.
NoEntry(c) ==
    /\ Answered(c)
    /\ device[session.device] = "live" /\ Genuine
    /\ session' = [session EXCEPT !.base = vault.revision, !.idle = FALSE, !.armed = TRUE]
    /\ UNCHANGED <<wait, revoking, account, link, device, vault, changes>>

\* The device is revoked, or the vault another one or an older one.
ResolveLocks(c) ==
    /\ Answered(c)
    /\ device[session.device] # "live" \/ ~Genuine
    /\ Lock
    /\ UNCHANGED <<wait, account, link, device, vault, changes>>

\* No answer in time: nothing is served from memory.
ResolveFails(c) ==
    /\ Answered(c)
    /\ UNCHANGED <<session, wait, revoking, account, link, device, vault, changes>>

-----------------------------------------------------------------------------
(* Outside the process.                                                    *)

Outside == UNCHANGED <<session, mu, read, wait, revoking>>

\* The browser approves a link with the vault it has open, or its row goes.
Approve(l) ==
    /\ link[l].status = "pending"
    /\ link' = [link EXCEPT ![l] = [status |-> "approved", root |-> vault.root]]
    /\ device' = [device EXCEPT ![l] = "live"]
    /\ UNCHANGED <<account, vault, changes>> /\ Outside
LinkGoes(l) ==
    /\ link[l].status = "pending"
    /\ link' = [link EXCEPT ![l].status = "gone"]
    /\ UNCHANGED <<account, device, vault, changes>> /\ Outside

\* A person removes the device.
RemoveDevice(l) ==
    /\ Change /\ device[l] = "live"
    /\ device' = [device EXCEPT ![l] = "dead"]
    /\ UNCHANGED <<account, link, vault>> /\ Outside

\* Another device commits, rotates the root, or the server's data is restored
\* from a backup.
Commit ==
    /\ Change /\ vault.revision < MaxVault
    /\ vault' = [vault EXCEPT !.revision = @ + 1]
    /\ UNCHANGED <<account, link, device>> /\ Outside
Rotate ==
    /\ Change /\ vault.revision < MaxVault
    /\ vault' = [root |-> vault.root + 1, revision |-> vault.revision + 1]
    /\ device' = [l \in Links |-> IF device[l] = "live" THEN "dead" ELSE device[l]]
    /\ UNCHANGED <<account, link>> /\ Outside
Restore ==
    /\ Change /\ vault.revision > 0
    /\ vault' = [vault EXCEPT !.revision = @ - 1]
    /\ UNCHANGED <<account, link, device>> /\ Outside

\* The command line program logs in again, logs out, synchronizes.
Login ==
    /\ Change
    /\ account' = [login |-> changes + 2, root |-> vault.root, revision |-> vault.revision]
    /\ UNCHANGED <<link, device, vault>> /\ Outside
Logout ==
    /\ Change /\ account.login # 0
    /\ account' = [account EXCEPT !.login = 0]
    /\ UNCHANGED <<link, device, vault>> /\ Outside
Synchronize ==
    /\ account.login # 0 /\ account.root = vault.root /\ account.revision < vault.revision
    /\ account' = [account EXCEPT !.revision = vault.revision]
    /\ UNCHANGED <<link, device, vault, changes>> /\ Outside

\* Time passes: the session has been idle for too long, or is too old.
Idles ==
    /\ session.status = "ready" /\ ~session.idle
    /\ session' = [session EXCEPT !.idle = TRUE]
    /\ UNCHANGED <<mu, read, wait, revoking, account, link, device, vault, changes>>
GrowsOld ==
    /\ session.status = "ready" /\ ~session.old
    /\ session' = [session EXCEPT !.old = TRUE]
    /\ UNCHANGED <<mu, read, wait, revoking, account, link, device, vault, changes>>

SessionNext ==
    \/ Begin \/ BeginAnswered \/ Close \/ Status \/ TimerFires
    \/ \E l \in Links : WaitReturns(l) \/ WaitEnds(l) \/ RevokeEnds(l)
                        \/ Approve(l) \/ LinkGoes(l) \/ RemoveDevice(l)
    \/ Commit \/ Rotate \/ Restore \/ Login \/ Logout \/ Synchronize
    \/ Idles \/ GrowsOld

-----------------------------------------------------------------------------
(* Properties.                                                             *)

Begun == {l \in Links : wait[l].step # "none"}

\* A session becomes ready only by the approval of the request it is waiting
\* for: an approval that comes after cloud_lock, after the request failed or
\* for an earlier request is discarded (waitApproval compares generations).
LateApprovalDiscarded ==
    [][session.status # "ready" /\ session'.status = "ready" =>
         /\ session.status = "pending"
         /\ \A l \in Begun : l <= session'.device]_sessionVars

\* The devices whose token is in the memory of the process.
Held == Revoked(session) \cup {l \in Links : wait[l].step = "approved"}

\* A token is never dropped without the revocation of its device being on its
\* way: not by a lock, not by a timer, not by an approval that nobody waits
\* for any more (lockLocked, revokeCloudSession).
TokenNeverDropped == [][Held \ Held' \subseteq revoking']_sessionVars
=============================================================================
