-------------------------- MODULE McpServerProofs ---------------------------
(***************************************************************************)
(* The approvals of the cloud session, for any number of links, transfers  *)
(* and changes outside the process.  That a late approval is discarded is  *)
(* a fact about generations: a wait that is not over has the generation of *)
(* the session only while the session is pending for that very wait, and   *)
(* that wait is the newest.  That no token is dropped needs in addition    *)
(* that only a ready session has a device.  After it the transfers: what a *)
(* transfer has copied while it was alone with its destination, and that   *)
(* destinations therefore go from one whole file to another.               *)
(***************************************************************************)
EXTENDS McpServer, TLAPS

Waiting(l) == wait[l].step \in {"polling", "approved", "failed"}

\* Whoever holds the mutex has read the account file, and Begin holds it only
\* while the session is locked.
HolderInv ==
    /\ mu # None => read \in Account
    /\ mu = "begin" => session.status = "locked"

\* Only a ready session has a device.
DeviceInv == session.status # "ready" => session.device = None

\* A wait belongs to a link that was made, has the account that asked, and was
\* made before every link that is not made yet.
WaitInv ==
    \A l \in Links :
        wait[l].step # "none" => /\ link[l].status # "unused"
                                 /\ wait[l].original \in Account
                                 /\ \A k \in Links : link[k].status = "unused" => l <= k

\* A wait that is not over is of this generation only when the session is
\* pending for it, and then it is the newest.
GenerationInv ==
    \A l \in Links : Waiting(l) =>
        /\ wait[l].generation <= session.generation
        /\ wait[l].generation = session.generation =>
             session.status = "pending" /\ \A k \in Begun : k <= l

SInv == SessionTypeOK /\ HolderInv /\ DeviceInv /\ WaitInv /\ GenerationInv

-----------------------------------------------------------------------------
(* What the steps do to the session.                                       *)

LEMMA NewSessionType == NewSession \in Session
BY DEF NewSession, Session

LEMMA LockedFacts ==
    ASSUME session \in Session
    PROVE /\ Locked(session) \in Session /\ Locked(session).status = "locked"
          /\ Locked(session).generation = session.generation + 1
          /\ Locked(session).device = None
<1>1. NewSession \in Session /\ NewSession.status = "locked" /\ NewSession.device = None
  BY NewSessionType DEF NewSession
<1>2. session.generation + 1 \in Nat
  BY DEF Session
<1>3. Locked(session) = [NewSession EXCEPT !.generation = session.generation + 1]
  BY DEF Locked
<1> QED
  BY <1>1, <1>2, <1>3 DEF Session

\* The session as it was, or locked, as far as approvals are concerned.
Same(s) == s.status = session.status /\ s.generation = session.generation /\ s.device = session.device
Later(s) == s.status = "locked" /\ s.generation = session.generation + 1 /\ s.device = None

LEMMA ExpiredFacts ==
    ASSUME session \in Session
    PROVE /\ Expired(session) \in Session
          /\ Same(Expired(session)) \/ Later(Expired(session))
BY LockedFacts DEF Expired, Same, Later

\* Waits and links stay, and the session stays or locks.
LEMMA SessionStep ==
    ASSUME SInv, session' \in Session, Same(session') \/ Later(session'), wait' = wait, link' = link
    PROVE DeviceInv' /\ WaitInv' /\ GenerationInv'
<1>1. session.generation \in Nat /\ \A l \in Links : wait[l].generation \in Nat
  BY DEF SInv, SessionTypeOK, Session, Wait
<1>2. DeviceInv'
  BY DEF SInv, DeviceInv, Same, Later
<1>3. WaitInv'
  BY DEF SInv, WaitInv
<1>4. GenerationInv'
  BY <1>1 DEF SInv, GenerationInv, Waiting, Begun, Same, Later
<1> QED
  BY <1>2, <1>3, <1>4

\* The session and the waits stay, and no link becomes unused.
LEMMA OutsideStep ==
    ASSUME SInv, UNCHANGED <<session, mu, read, wait>>,
           \A l \in Links : link'[l].status = "unused" <=> link[l].status = "unused"
    PROVE HolderInv' /\ DeviceInv' /\ WaitInv' /\ GenerationInv'
BY DEF SInv, HolderInv, DeviceInv, WaitInv, GenerationInv, Waiting, Begun

-----------------------------------------------------------------------------
LEMMA SessionStart ==
    ASSUME NEW over, NEW n \in 0..MaxChanges, SessionInit(over, n)
    PROVE SInv
<1>1. SessionTypeOK
  BY NewSessionType, SessionAssumption DEF SessionInit, SessionTypeOK, Account, Wait
<1>2. HolderInv /\ DeviceInv /\ WaitInv /\ GenerationInv
  BY SessionAssumption DEF SessionInit, NewSession, HolderInv, DeviceInv, WaitInv, GenerationInv, Waiting
<1> QED
  BY <1>1, <1>2 DEF SInv

LEMMA BeginInv == ASSUME SInv, Begin PROVE SInv'
<1>1. session' \in Session /\ (Same(session') \/ Later(session'))
  BY ExpiredFacts DEF Begin, Expire, SInv, SessionTypeOK
<1>2. SessionTypeOK'
  BY <1>1 DEF Begin, Expire, ExpiredDevice, Revoked, SInv, SessionTypeOK, Session
<1>3. HolderInv'
  BY SessionAssumption DEF Begin, SInv, HolderInv, SessionTypeOK
<1> QED
  BY <1>1, <1>2, <1>3, SessionStep DEF SInv, Begin

LEMMA BeginAnsweredInv == ASSUME SInv, BeginAnswered PROVE SInv'
<1>0. read \in Account /\ session.status = "locked" /\ session.device = None
  BY SessionAssumption DEF BeginAnswered, SInv, HolderInv, DeviceInv
<1>1. PICK l \in Links :
        /\ IsNext(l)
        /\ \/ /\ link' = [link EXCEPT ![l].status = "pending"]
              /\ session' = [session EXCEPT !.status = "pending", !.generation = @ + 1, !.owner = read.login]
              /\ wait' = [wait EXCEPT ![l] = [step |-> "polling", generation |-> session.generation + 1,
                                              original |-> read, base |-> 0]]
           \/ /\ link' = link \/ link' = [link EXCEPT ![l].status = "pending"]
              /\ UNCHANGED <<session, wait>>
  BY DEF BeginAnswered
<1>2. /\ mu' = None /\ read' = None
      /\ UNCHANGED <<revoking, account, device, vault, changes>>
  BY DEF BeginAnswered
<1>3. link' \in [Links -> [status : {"unused", "pending", "approved", "gone"}, root : Nat]]
  <2>1. link \in [Links -> [status : {"unused", "pending", "approved", "gone"}, root : Nat]]
    BY DEF SInv, SessionTypeOK
  <2>2. CASE link' = [link EXCEPT ![l].status = "pending"]
    BY <2>1, <2>2
  <2> QED
    BY <1>1, <2>1, <2>2
<1>4. /\ \A k \in Links : link'[k].status = "unused" => link[k].status = "unused" /\ l <= k
      /\ \A k \in Links : link[k].status # "unused" => link'[k].status # "unused"
  <2>1. link \in [Links -> [status : {"unused", "pending", "approved", "gone"}, root : Nat]]
    BY DEF SInv, SessionTypeOK
  <2>2. \A k \in Links \ {l} : link'[k] = link[k]
    BY <1>1, <2>1
  <2>3. link'[l] = link[l] \/ link'[l].status = "pending"
    BY <1>1, <2>1
  <2>4. link[l].status = "unused" /\ \A k \in Links : link[k].status = "unused" => l <= k
    BY <1>1 DEF IsNext
  <2> QED
    BY <2>2, <2>3, <2>4
<1>5. HolderInv'
  BY <1>2, SessionAssumption DEF HolderInv
<1>6. CASE UNCHANGED <<session, wait>>
  <2>1. SessionTypeOK'
    BY <1>2, <1>3, <1>6 DEF SInv, SessionTypeOK
  <2>2. DeviceInv' /\ WaitInv' /\ GenerationInv'
    BY <1>4, <1>6 DEF SInv, DeviceInv, WaitInv, GenerationInv, Waiting, Begun
  <2> QED
    BY <2>1, <2>2, <1>5 DEF SInv
<1>7. CASE /\ link' = [link EXCEPT ![l].status = "pending"]
           /\ session' = [session EXCEPT !.status = "pending", !.generation = @ + 1, !.owner = read.login]
           /\ wait' = [wait EXCEPT ![l] = [step |-> "polling", generation |-> session.generation + 1,
                                           original |-> read, base |-> 0]]
  <2>1. session' \in Session /\ session'.status = "pending" /\ session'.device = None
        /\ session.generation \in Nat /\ session'.generation = session.generation + 1
    <3>1. session \in Session /\ session.generation \in Nat /\ session.generation + 1 \in Nat /\ read.login \in Nat
      BY <1>0 DEF SInv, SessionTypeOK, Session, Account
    <3>2. session' = [session EXCEPT !.status = "pending", !.generation = session.generation + 1,
                                     !.owner = read.login]
      BY <1>7
    <3> QED
      BY <1>0, <3>1, <3>2 DEF Session
  <2>2. [step |-> "polling", generation |-> session.generation + 1, original |-> read, base |-> 0] \in Wait
    BY <1>0, <2>1 DEF Wait
  <2>3. SessionTypeOK'
    BY <1>2, <1>3, <1>7, <2>1, <2>2 DEF SInv, SessionTypeOK
  <2>4. /\ wait'[l].step = "polling" /\ wait'[l].generation = session'.generation /\ wait'[l].original = read
        /\ link'[l].status = "pending"
        /\ \A k \in Links \ {l} : wait'[k] = wait[k]
    BY <1>7, <2>1 DEF SInv, SessionTypeOK
  <2>5. DeviceInv'
    BY <2>1 DEF DeviceInv
  <2>6. WaitInv'
    BY <1>0, <1>4, <2>4 DEF SInv, WaitInv
  <2>7. \A k \in Begun' : k <= l
    BY <1>1, <2>4, SessionAssumption DEF Begun, SInv, WaitInv, IsNext
  <2>8. \A k \in Links \ {l} : Waiting(k)' => wait'[k].generation <= session.generation
    BY <2>4 DEF SInv, GenerationInv, Waiting
  <2>9. \A k \in Links : wait'[k].generation \in Nat
    BY <2>3 DEF SessionTypeOK, Wait
  <2>10. GenerationInv'
    BY <2>1, <2>4, <2>7, <2>8, <2>9 DEF GenerationInv
  <2> QED
    BY <2>3, <2>5, <2>6, <2>10, <1>5 DEF SInv
<1> QED
  BY <1>1, <1>6, <1>7

\* A wait goes on, in the generation it was made in.
LEMMA WaitMoves ==
    ASSUME SInv, NEW l \in Links, NEW s \in {"approved", "failed", "done"}, NEW b \in Nat, Waiting(l),
           wait' = [wait EXCEPT ![l].step = s, ![l].base = b]
    PROVE /\ wait' \in [Links -> Wait]
          /\ \A k \in Links \ {l} : wait'[k] = wait[k]
          /\ wait'[l].step = s /\ wait'[l].generation = wait[l].generation
          /\ wait'[l].original = wait[l].original
          /\ Begun' = Begun
<1>1. /\ wait' \in [Links -> Wait] /\ \A k \in Links \ {l} : wait'[k] = wait[k]
      /\ wait'[l].step = s /\ wait'[l].generation = wait[l].generation
      /\ wait'[l].original = wait[l].original
  <2> DEFINE w == [wait[l] EXCEPT !.step = s, !.base = b]
  <2>1. wait \in [Links -> Wait] /\ wait[l] \in Wait
    BY DEF SInv, SessionTypeOK
  <2>2. /\ w \in Wait /\ w.step = s
        /\ w.generation = wait[l].generation /\ w.original = wait[l].original
    BY <2>1 DEF Wait
  <2>3. wait' = [wait EXCEPT ![l] = w]
    BY <2>1
  <2> HIDE DEF w
  <2>4. wait'[l] = w /\ wait' \in [Links -> Wait] /\ \A k \in Links \ {l} : wait'[k] = wait[k]
    BY <2>1, <2>2, <2>3
  <2> QED
    BY <2>2, <2>4
<1>2. Begun' = Begun
  BY <1>1 DEF Begun, Waiting
<1> QED
  BY <1>1, <1>2

LEMMA WaitReturnsInv == ASSUME SInv, NEW l \in Links, WaitReturns(l) PROVE SInv'
<1>1. wait[l] \in Wait /\ vault.revision \in Nat
  BY DEF SInv, SessionTypeOK
<1>2. PICK s \in {"approved", "failed"}, b \in Nat : wait' = [wait EXCEPT ![l].step = s, ![l].base = b]
  <2>1. CASE wait' = [wait EXCEPT ![l].step = "approved", ![l].base = vault.revision]
    BY <1>1, <2>1
  <2>2. CASE wait' = [wait EXCEPT ![l].step = "failed"]
    <3>1. [wait EXCEPT ![l].step = "failed"] = [wait EXCEPT ![l].step = "failed", ![l].base = wait[l].base]
      BY <1>1 DEF Wait, SInv, SessionTypeOK
    <3> QED
      BY <1>1, <2>2, <3>1 DEF Wait
  <2> QED
    BY <2>1, <2>2 DEF WaitReturns
<1>3. Waiting(l)
  BY DEF WaitReturns, Waiting
<1>4. UNCHANGED <<session, mu, read, revoking, account, link, device, vault, changes>>
  BY DEF WaitReturns
<1>5. /\ wait' \in [Links -> Wait] /\ \A k \in Links \ {l} : wait'[k] = wait[k]
      /\ wait'[l].step = s /\ wait'[l].generation = wait[l].generation
      /\ wait'[l].original = wait[l].original /\ Begun' = Begun
  BY <1>2, <1>3, WaitMoves
<1>6. SessionTypeOK' /\ HolderInv' /\ DeviceInv'
  BY <1>4, <1>5 DEF SInv, SessionTypeOK, HolderInv, DeviceInv
<1>7. WaitInv'
  BY <1>3, <1>4, <1>5 DEF SInv, WaitInv, Waiting
<1>8. GenerationInv'
  BY <1>3, <1>4, <1>5 DEF SInv, GenerationInv, Waiting
<1> QED
  BY <1>6, <1>7, <1>8 DEF SInv

\* The only way to become ready: the wait is of this generation.
Installs(l) ==
    /\ wait[l].generation = session.generation /\ wait[l].step = "approved"
    /\ session' = [session EXCEPT !.status = "ready", !.device = l, !.root = wait[l].original.root,
                                  !.base = wait[l].base, !.armed = TRUE]

LEMMA WaitEndsInv == ASSUME SInv, NEW l \in Links, WaitEnds(l) PROVE SInv'
<1>1. Waiting(l) /\ wait' = [wait EXCEPT ![l].step = "done"]
  BY DEF WaitEnds, Waiting
<1>2. UNCHANGED <<mu, read, account, link, device, vault, changes>> /\ mu = None
  BY DEF WaitEnds
<1>3. /\ wait' \in [Links -> Wait] /\ \A k \in Links \ {l} : wait'[k] = wait[k]
      /\ wait'[l].step = "done" /\ wait'[l].generation = wait[l].generation
      /\ wait'[l].original = wait[l].original /\ Begun' = Begun
  <2>1. wait[l].base \in Nat
    BY DEF SInv, SessionTypeOK, Wait
  <2>2. wait' = [wait EXCEPT ![l].step = "done", ![l].base = wait[l].base]
    BY <1>1 DEF SInv, SessionTypeOK, Wait
  <2> QED
    BY <1>1, <2>1, <2>2, WaitMoves
<1>4. session.generation \in Nat /\ \A k \in Links : wait[k].generation \in Nat
  BY DEF SInv, SessionTypeOK, Session, Wait
<1>5. HolderInv'
  BY <1>2, SessionAssumption DEF SInv, HolderInv
<1>6. WaitInv'
  BY <1>1, <1>2, <1>3 DEF SInv, WaitInv, Waiting
<1>7. revoking' \subseteq Links
  BY LockedFacts DEF WaitEnds, Brought, Revoked, SInv, SessionTypeOK, Session
<1>8. CASE session' = session \/ session' = Locked(session)
  <2>1. session' \in Session /\ (Same(session') \/ Later(session'))
    BY <1>8, LockedFacts DEF Same, Later, SInv, SessionTypeOK
  <2>2. DeviceInv'
    BY <2>1 DEF SInv, DeviceInv, Same, Later
  <2>3. GenerationInv'
    BY <1>3, <1>4, <2>1 DEF SInv, GenerationInv, Waiting, Same, Later
  <2>4. SessionTypeOK'
    BY <1>2, <1>3, <1>7, <2>1 DEF SInv, SessionTypeOK
  <2> QED
    BY <1>5, <1>6, <2>2, <2>3, <2>4 DEF SInv
<1>9. CASE Installs(l)
  <2>1. wait[l].original \in Account /\ wait[l].base \in Nat
    BY <1>1 DEF SInv, WaitInv, Waiting, SessionTypeOK, Wait
  <2>2. session' \in Session /\ session'.status = "ready" /\ session'.generation = session.generation
    BY <1>9, <2>1 DEF Installs, SInv, SessionTypeOK, Session, Account
  <2>3. DeviceInv'
    BY <2>2 DEF DeviceInv
  <2>4. \A k \in Links \ {l} : Waiting(k) => wait[k].generation # session.generation
    <3>1. \A k \in Begun : k <= l
      BY <1>1, <1>9 DEF Installs, SInv, GenerationInv
    <3>2. ASSUME NEW k \in Links \ {l}, Waiting(k), wait[k].generation = session.generation PROVE FALSE
      <4>1. k \in Begun /\ l \in Begun
        BY <3>2, <1>1 DEF Begun, Waiting
      <4>2. l <= k /\ k <= l
        BY <3>1, <3>2, <4>1 DEF SInv, GenerationInv
      <4>3. k \in Nat /\ l \in Nat
        BY SessionAssumption
      <4> QED
        BY <4>2, <4>3, <3>2
    <3> QED
      BY <3>2
  <2>5. GenerationInv'
    BY <1>3, <2>2, <2>4 DEF SInv, GenerationInv, Waiting
  <2>6. SessionTypeOK'
    BY <1>2, <1>3, <1>7, <2>2 DEF SInv, SessionTypeOK
  <2> QED
    BY <1>5, <1>6, <2>3, <2>5, <2>6 DEF SInv
<1> QED
  BY <1>8, <1>9 DEF WaitEnds, Installs

-----------------------------------------------------------------------------
(* The other steps of the session.                                         *)

LEMMA ExpireType ==
    ASSUME SInv, Expire
    PROVE session' \in Session /\ (Same(session') \/ Later(session')) /\ revoking' \subseteq Links
BY ExpiredFacts DEF Expire, ExpiredDevice, Revoked, SInv, SessionTypeOK, Session

LEMMA LockType ==
    ASSUME SInv, Lock
    PROVE session' \in Session /\ Later(session') /\ revoking' \subseteq Links
BY LockedFacts DEF Lock, Revoked, SInv, SessionTypeOK, Session, Later

\* Whatever locks the session, or keeps it, and leaves the server alone.
LEMMA LocksInv ==
    ASSUME SInv, session' \in Session, Same(session') \/ Later(session'), revoking' \subseteq Links,
           changes' \in 0..MaxChanges, UNCHANGED <<wait, account, link, device, vault>>,
           mu' \in Callers \cup {None, "begin"}, read' \in Account \cup {None},
           mu' # None => read' \in Account, mu' # "begin"
    PROVE SInv'
<1>1. SessionTypeOK'
  BY DEF SInv, SessionTypeOK
<1>2. HolderInv'
  BY DEF HolderInv
<1> QED
  BY <1>1, <1>2, SessionStep DEF SInv

LEMMA CloseInv == ASSUME SInv, Close PROVE SInv'
<1>1. session' \in Session /\ Later(session') /\ revoking' \subseteq Links
  BY LockType DEF Close
<1>2. changes' \in 0..MaxChanges
  BY SessionAssumption DEF Close, Change, SInv, SessionTypeOK
<1> QED
  BY <1>1, <1>2, LocksInv, SessionAssumption DEF Close, SInv, SessionTypeOK, HolderInv

LEMMA TimersInv == ASSUME SInv, Status \/ TimerFires PROVE SInv'
<1>1. session' \in Session /\ (Same(session') \/ Later(session')) /\ revoking' \subseteq Links
  BY ExpireType DEF Status, TimerFires
<1> QED
  BY <1>1, LocksInv, SessionAssumption DEF Status, TimerFires, SInv, SessionTypeOK, HolderInv

LEMMA ResolveInv == ASSUME SInv, NEW c \in Callers, Resolve(c) PROVE SInv'
<1>1. session' \in Session /\ (Same(session') \/ Later(session')) /\ revoking' \subseteq Links
  BY ExpireType DEF Resolve
<1> QED
  BY <1>1, LocksInv, SessionAssumption DEF Resolve, SInv, SessionTypeOK, HolderInv

LEMMA ResolveRefusedInv == ASSUME SInv, NEW c \in Callers, ResolveRefused(c) PROVE SInv'
<1> DEFINE s == Expired(session)
<1>1. session \in Session /\ s \in Session /\ (Same(s) \/ Later(s)) /\ revoking \subseteq Links
  BY ExpiredFacts DEF SInv, SessionTypeOK
<1>2. session' \in Session /\ (Same(session') \/ Later(session'))
  <2>1. CASE session' = s
    BY <1>1, <2>1
  <2>2. CASE s.status = "ready" /\ session' = Locked(s)
    <3>1. s = session
      BY <2>2, LockedFacts, <1>1 DEF Expired
    <3> QED
      BY <1>1, <2>2, <3>1, LockedFacts DEF Later
  <2> QED
    BY <2>1, <2>2 DEF ResolveRefused
<1>3. revoking' \subseteq Links
  BY <1>1 DEF ResolveRefused, ExpiredDevice, Revoked, Session
<1> QED
  BY <1>2, <1>3, LocksInv, SessionAssumption DEF ResolveRefused, SInv, SessionTypeOK, HolderInv

LEMMA AnsweredInv ==
    ASSUME SInv, NEW c \in Callers, Resolved(c) \/ NoEntry(c) \/ ResolveLocks(c) \/ ResolveFails(c)
    PROVE SInv'
<1>1. mu' = None /\ read' = None /\ UNCHANGED <<wait, account, link, device, vault, changes>>
  BY DEF Resolved, NoEntry, ResolveLocks, ResolveFails, Answered
<1>2. session' \in Session /\ (Same(session') \/ Later(session')) /\ revoking' \subseteq Links
  <2>1. CASE ResolveLocks(c)
    BY <2>1, LockType DEF ResolveLocks
  <2>2. CASE ResolveFails(c)
    BY <2>2 DEF ResolveFails, SInv, SessionTypeOK, Same
  <2>3. CASE Resolved(c) \/ NoEntry(c)
    <3>1. session \in Session /\ vault.revision \in Nat /\ revoking' = revoking /\ revoking \subseteq Links
      BY <2>3 DEF Resolved, NoEntry, SInv, SessionTypeOK
    <3>2. session' = [session EXCEPT !.base = vault.revision, !.idle = FALSE, !.armed = TRUE]
      BY <2>3 DEF Resolved, NoEntry
    <3> QED
      BY <3>1, <3>2 DEF Session, Same
  <2> QED
    BY <2>1, <2>2, <2>3
<1> QED
  BY <1>1, <1>2, LocksInv, SessionAssumption DEF SInv, SessionTypeOK, HolderInv

LEMMA TimePassesInv == ASSUME SInv, Idles \/ GrowsOld PROVE SInv'
<1>1. session \in Session
  BY DEF SInv, SessionTypeOK
<1>2. session' = [session EXCEPT !.idle = TRUE] \/ session' = [session EXCEPT !.old = TRUE]
  BY DEF Idles, GrowsOld
<1>3. session' \in Session /\ Same(session')
  BY <1>1, <1>2 DEF Session, Same
<1>4. UNCHANGED <<mu, read, wait, revoking, account, link, device, vault, changes>>
  BY DEF Idles, GrowsOld
<1>5. SessionTypeOK'
  BY <1>3, <1>4 DEF SInv, SessionTypeOK
<1>6. HolderInv'
  BY <1>3, <1>4 DEF SInv, HolderInv, Same
<1> QED
  BY <1>3, <1>4, <1>5, <1>6, SessionStep DEF SInv

LEMMA RevokeEndsInv == ASSUME SInv, NEW l \in Links, RevokeEnds(l) PROVE SInv'
<1>1. SessionTypeOK'
  <2>1. device' \in [Links -> {"none", "live", "dead"}]
    BY DEF RevokeEnds, SInv, SessionTypeOK
  <2> QED
    BY <2>1 DEF RevokeEnds, SInv, SessionTypeOK
<1> QED
  BY <1>1, OutsideStep DEF RevokeEnds, SInv

\* The server and the account file change, and the links that are made stay so.
LEMMA OutsideInv ==
    ASSUME SInv, Outside, account' \in Account, vault' \in [root : Nat, revision : Nat],
           link' \in [Links -> [status : {"unused", "pending", "approved", "gone"}, root : Nat]],
           device' \in [Links -> {"none", "live", "dead"}], changes' \in 0..MaxChanges,
           \A l \in Links : link'[l].status = "unused" <=> link[l].status = "unused"
    PROVE SInv'
<1>1. SessionTypeOK'
  BY DEF Outside, SInv, SessionTypeOK
<1> QED
  BY <1>1, OutsideStep DEF Outside, SInv

LEMMA LinkInv == ASSUME SInv, NEW l \in Links, Approve(l) \/ LinkGoes(l) PROVE SInv'
<1>1. /\ link \in [Links -> [status : {"unused", "pending", "approved", "gone"}, root : Nat]]
      /\ vault \in [root : Nat, revision : Nat] /\ vault.root \in Nat
  BY DEF SInv, SessionTypeOK
<1>2. CASE Approve(l)
  <2>1. link' = [link EXCEPT ![l] = [status |-> "approved", root |-> vault.root]]
    BY <1>2 DEF Approve
  <2>2. /\ link' \in [Links -> [status : {"unused", "pending", "approved", "gone"}, root : Nat]]
        /\ \A k \in Links \ {l} : link'[k] = link[k]
        /\ link'[l].status = "approved"
    BY <1>1, <2>1
  <2>3. device' \in [Links -> {"none", "live", "dead"}]
    BY <1>2 DEF Approve, SInv, SessionTypeOK
  <2>4. Outside /\ UNCHANGED <<account, vault, changes>> /\ link[l].status = "pending"
    BY <1>2 DEF Approve
  <2>5. account' \in Account /\ vault' \in [root : Nat, revision : Nat] /\ changes' \in 0..MaxChanges
    BY <2>4 DEF SInv, SessionTypeOK
  <2>6. \A k \in Links : link'[k].status = "unused" <=> link[k].status = "unused"
    BY <2>2, <2>4
  <2> QED
    BY <2>2, <2>3, <2>4, <2>5, <2>6, OutsideInv
<1>3. CASE LinkGoes(l)
  <2>1. link' = [link EXCEPT ![l].status = "gone"]
    BY <1>3 DEF LinkGoes
  <2>2. /\ link' \in [Links -> [status : {"unused", "pending", "approved", "gone"}, root : Nat]]
        /\ \A k \in Links \ {l} : link'[k] = link[k]
        /\ link'[l].status = "gone"
    BY <1>1, <2>1
  <2>3. Outside /\ UNCHANGED <<account, device, vault, changes>> /\ link[l].status = "pending"
    BY <1>3 DEF LinkGoes
  <2>4. /\ account' \in Account /\ vault' \in [root : Nat, revision : Nat] /\ changes' \in 0..MaxChanges
        /\ device' \in [Links -> {"none", "live", "dead"}]
    BY <2>3 DEF SInv, SessionTypeOK
  <2>5. \A k \in Links : link'[k].status = "unused" <=> link[k].status = "unused"
    BY <2>2, <2>3
  <2> QED
    BY <2>2, <2>3, <2>4, <2>5, OutsideInv
<1> QED
  BY <1>2, <1>3

LEMMA ChangesInv ==
    ASSUME SInv, \/ \E l \in Links : RemoveDevice(l)
                 \/ Commit \/ Rotate \/ Restore \/ Login \/ Logout \/ Synchronize
    PROVE SInv'
<1>1. /\ vault \in [root : Nat, revision : Nat] /\ vault.root \in Nat /\ vault.revision \in Nat
      /\ account \in Account /\ account.login \in Nat /\ account.root \in Nat /\ account.revision \in Nat
      /\ device \in [Links -> {"none", "live", "dead"}]
      /\ link \in [Links -> [status : {"unused", "pending", "approved", "gone"}, root : Nat]]
      /\ changes \in Nat
  BY SessionAssumption DEF SInv, SessionTypeOK, Account
<1>2. Outside /\ UNCHANGED link
  BY DEF RemoveDevice, Commit, Rotate, Restore, Login, Logout, Synchronize
<1>3. changes' \in 0..MaxChanges
  BY SessionAssumption
     DEF RemoveDevice, Commit, Rotate, Restore, Login, Logout, Synchronize, Change, SInv, SessionTypeOK
<1>4. device' \in [Links -> {"none", "live", "dead"}]
  BY <1>1 DEF RemoveDevice, Commit, Rotate, Restore, Login, Logout, Synchronize
<1>5. vault' \in [root : Nat, revision : Nat]
  <2>1. CASE Commit
    BY <1>1, <2>1 DEF Commit
  <2>2. CASE Rotate
    BY <1>1, <2>2 DEF Rotate
  <2>3. CASE Restore
    <3>1. vault' = [vault EXCEPT !.revision = vault.revision - 1] /\ vault.revision - 1 \in Nat
      BY <1>1, <2>3 DEF Restore
    <3> QED
      BY <1>1, <3>1
  <2> QED
    BY <1>1, <2>1, <2>2, <2>3 DEF RemoveDevice, Login, Logout, Synchronize
<1>6. account' \in Account
  <2>1. CASE Login
    BY <1>1, <2>1 DEF Login, Account
  <2>2. CASE Logout
    BY <1>1, <2>2 DEF Logout, Account
  <2>3. CASE Synchronize
    BY <1>1, <2>3 DEF Synchronize, Account
  <2> QED
    BY <1>1, <2>1, <2>2, <2>3 DEF RemoveDevice, Commit, Rotate, Restore
<1> QED
  BY <1>1, <1>2, <1>3, <1>4, <1>5, <1>6, OutsideInv

-----------------------------------------------------------------------------
(* The invariant.                                                          *)

LEMMA StutterInv == ASSUME SInv, UNCHANGED sessionVars PROVE SInv'
<1>1. /\ session' = session /\ mu' = mu /\ read' = read /\ wait' = wait /\ revoking' = revoking
      /\ account' = account /\ link' = link /\ device' = device /\ vault' = vault /\ changes' = changes
  BY DEF sessionVars
<1>2. SessionTypeOK'
  BY <1>1 DEF SInv, SessionTypeOK
<1> QED
  BY <1>1, <1>2, OutsideStep DEF SInv

LEMMA SessionNextInv == ASSUME SInv, SessionNext PROVE SInv'
BY BeginInv, BeginAnsweredInv, CloseInv, TimersInv, WaitReturnsInv, WaitEndsInv, RevokeEndsInv,
   LinkInv, ChangesInv, TimePassesInv DEF SessionNext

\* What a transfer does to the session: it asks, it is answered, or nothing.
LEMMA TransferStep ==
    ASSUME [Next]_mcpVars
    PROVE \/ SessionNext
          \/ \E t \in Transfers : \/ Resolve(t) \/ ResolveRefused(t)
                                   \/ Resolved(t) \/ NoEntry(t) \/ ResolveLocks(t) \/ ResolveFails(t)
          \/ UNCHANGED sessionVars
BY DEF Next, mcpVars, Ask, Answer, OpensWithCredentials, Refused, GoesOn

LEMMA StepInv == ASSUME SInv, [Next]_mcpVars PROVE SInv'
BY TransferStep, SessionNextInv, ResolveInv, ResolveRefusedInv, AnsweredInv, StutterInv, CallersAssumption

LEMMA Starts == ASSUME Init PROVE SInv
<1>1. PICK s \in Scenes : SessionInit(Links \ s.links, MaxChanges - s.changes)
  BY DEF Init
<1>2. MaxChanges - s.changes \in 0..MaxChanges
  BY SceneAssumption, SessionAssumption
<1> QED
  BY <1>1, <1>2, SessionStart

\* The invariant of the session: types, who holds the mutex, which session has
\* a device, and which generation a wait can be of (cloud_session.go).
THEOREM SessionInvariant == Spec => []SInv
<1>1. Init => SInv
  BY Starts
<1>2. SInv /\ [Next]_mcpVars => SInv'
  BY StepInv
<1> QED
  BY <1>1, <1>2, PTL DEF Spec

-----------------------------------------------------------------------------
(* The two properties.                                                     *)

\* Every step keeps the session, locks it, makes it pending, or installs an
\* approval.
LEMMA Moves ==
    ASSUME SInv, [Next]_mcpVars
    PROVE \/ Same(session') \/ Later(session') \/ session'.status = "pending"
          \/ \E l \in Links : WaitEnds(l) /\ Installs(l)
<1>1. session \in Session
  BY DEF SInv, SessionTypeOK
<1>2. CASE session' = session
  BY <1>2 DEF Same
<1>3. CASE Begin \/ Status \/ TimerFires \/ \E t \in Transfers : Resolve(t)
  BY <1>3, ExpireType DEF Begin, Status, TimerFires, Resolve
<1>4. CASE Close \/ \E t \in Transfers : ResolveLocks(t)
  BY <1>4, LockType DEF Close, ResolveLocks
<1>5. CASE BeginAnswered
  BY <1>1, <1>2, <1>5 DEF BeginAnswered, Session
<1>6. ASSUME NEW l \in Links, WaitEnds(l)
      PROVE Same(session') \/ Later(session') \/ Installs(l)
  BY <1>1, <1>6, LockedFacts DEF WaitEnds, Installs, Same, Later
<1>7. ASSUME NEW t \in Transfers, ResolveRefused(t) PROVE Same(session') \/ Later(session')
  <2>1. CASE session' = Expired(session)
    BY <1>1, <2>1, ExpiredFacts
  <2>2. CASE Expired(session).status = "ready" /\ session' = Locked(Expired(session))
    BY <1>1, <2>2, LockedFacts DEF Expired, Later
  <2> QED
    BY <1>7, <2>1, <2>2 DEF ResolveRefused
<1>8. ASSUME NEW t \in Transfers, Resolved(t) \/ NoEntry(t) PROVE Same(session')
  <2>1. session' = [session EXCEPT !.base = vault.revision, !.idle = FALSE, !.armed = TRUE]
    BY <1>8 DEF Resolved, NoEntry
  <2> QED
    BY <1>1, <2>1 DEF Session, Same
<1>9. CASE Idles \/ GrowsOld
  <2>1. session' = [session EXCEPT !.idle = TRUE] \/ session' = [session EXCEPT !.old = TRUE]
    BY <1>9 DEF Idles, GrowsOld
  <2> QED
    BY <1>1, <2>1 DEF Session, Same
<1>10. \/ session' = session
       \/ Begin \/ Status \/ TimerFires \/ Close \/ BeginAnswered \/ Idles \/ GrowsOld
       \/ \E l \in Links : WaitEnds(l)
       \/ \E t \in Transfers : Resolve(t) \/ ResolveRefused(t) \/ Resolved(t) \/ NoEntry(t) \/ ResolveLocks(t)
  BY TransferStep
     DEF SessionNext, sessionVars, WaitReturns, RevokeEnds, Approve, LinkGoes, RemoveDevice, Commit, Rotate,
         Restore, Login, Logout, Synchronize, Outside, ResolveFails
<1> QED
  BY <1>2, <1>3, <1>4, <1>5, <1>6, <1>7, <1>8, <1>9, <1>10

\* A session becomes ready only by the approval of the newest request, and
\* only while it waits for it (waitApproval).
THEOREM LateApprovals == Spec => LateApprovalDiscarded
<1>1. ASSUME SInv, [Next]_mcpVars, session.status # "ready", session'.status = "ready"
      PROVE session.status = "pending" /\ \A k \in Begun : k <= session'.device
  <2>1. PICK l \in Links : WaitEnds(l) /\ Installs(l)
    BY <1>1, Moves DEF Same, Later
  <2>2. Waiting(l) /\ wait[l].generation = session.generation
    BY <2>1 DEF Installs, Waiting
  <2>3. session.status = "pending" /\ \A k \in Begun : k <= l
    BY <1>1, <2>2 DEF SInv, GenerationInv
  <2>4. session'.device = l
    <3>1. session' = [session EXCEPT !.status = "ready", !.device = l, !.root = wait[l].original.root,
                                     !.base = wait[l].base, !.armed = TRUE]
      BY <2>1 DEF Installs
    <3> QED
      BY <1>1, <3>1 DEF SInv, SessionTypeOK, Session
  <2> QED
    BY <2>3, <2>4
<1>2. SInv /\ [Next]_mcpVars =>
        [session.status # "ready" /\ session'.status = "ready" =>
           session.status = "pending" /\ \A l \in Begun : l <= session'.device]_sessionVars
  BY <1>1
<1> QED
  BY <1>2, SessionInvariant, PTL DEF Spec, LateApprovalDiscarded

\* The device of the session is kept, or on its way to be revoked.
LEMMA DeviceKept ==
    ASSUME SInv, [Next]_mcpVars, session.device # None
    PROVE session'.device = session.device \/ session.device \in revoking'
<1>1. session \in Session /\ session.status = "ready"
  BY DEF SInv, SessionTypeOK, DeviceInv
<1>2. CASE session' = session
  BY <1>2
<1>3. CASE Expire
  BY <1>3 DEF Expire, Expired, ExpiredDevice, Revoked
<1>4. CASE Lock
  BY <1>4 DEF Lock, Revoked
<1>5. CASE BeginAnswered
  BY <1>1, <1>5, SessionAssumption DEF BeginAnswered, SInv, HolderInv
<1>6. ASSUME NEW l \in Links, WaitEnds(l)
      PROVE session' = session \/ session.device \in revoking'
  <2>1. Waiting(l)
    BY <1>6 DEF WaitEnds, Waiting
  <2>2. wait[l].generation # session.generation
    BY <1>1, <2>1 DEF SInv, GenerationInv
  <2> QED
    BY <1>6, <2>2 DEF WaitEnds
<1>7. ASSUME NEW t \in Transfers, ResolveRefused(t)
      PROVE session' = session \/ session.device \in revoking'
  <2>1. CASE Due(session)
    BY <1>7, <2>1 DEF ResolveRefused, ExpiredDevice, Revoked
  <2>2. CASE ~Due(session)
    BY <1>7, <2>2 DEF ResolveRefused, Expired, Revoked
  <2> QED
    BY <2>1, <2>2
<1>8. ASSUME NEW t \in Transfers, Resolved(t) \/ NoEntry(t) PROVE session'.device = session.device
  <2>1. session' = [session EXCEPT !.base = vault.revision, !.idle = FALSE, !.armed = TRUE]
    BY <1>8 DEF Resolved, NoEntry
  <2> QED
    BY <1>1, <2>1 DEF Session
<1>9. CASE Idles \/ GrowsOld
  <2>1. session' = [session EXCEPT !.idle = TRUE] \/ session' = [session EXCEPT !.old = TRUE]
    BY <1>9 DEF Idles, GrowsOld
  <2> QED
    BY <1>1, <2>1 DEF Session
<1>10. \/ session' = session \/ Expire \/ Lock \/ BeginAnswered \/ Idles \/ GrowsOld
       \/ \E l \in Links : WaitEnds(l)
       \/ \E t \in Transfers : ResolveRefused(t) \/ Resolved(t) \/ NoEntry(t)
  BY TransferStep
     DEF SessionNext, sessionVars, WaitReturns, RevokeEnds, Approve, LinkGoes, RemoveDevice, Commit, Rotate,
         Restore, Login, Logout, Synchronize, Outside, ResolveFails, Begin, Close, Status, TimerFires,
         Resolve, ResolveLocks
<1> QED
  BY <1>2, <1>3, <1>4, <1>5, <1>6, <1>7, <1>8, <1>9, <1>10

\* An approval that came is kept, becomes the session's, or is being revoked.
LEMMA ApprovalKept ==
    ASSUME SInv, [Next]_mcpVars, NEW l \in Links, wait[l].step = "approved"
    PROVE wait'[l].step = "approved" \/ session'.device = l \/ l \in revoking'
<1>1. wait \in [Links -> Wait] /\ session \in Session
  BY DEF SInv, SessionTypeOK
<1>2. CASE wait' = wait
  BY <1>2
<1>3. CASE BeginAnswered
  <2>1. PICK k \in Links : /\ IsNext(k)
                           /\ \/ wait' = [wait EXCEPT ![k] = [step |-> "polling",
                                       generation |-> session.generation + 1, original |-> read, base |-> 0]]
                              \/ wait' = wait
    BY <1>3 DEF BeginAnswered
  <2>2. k # l
    BY <2>1 DEF IsNext, SInv, WaitInv
  <2> QED
    BY <1>1, <2>1, <2>2
<1>4. ASSUME NEW k \in Links, WaitReturns(k) PROVE wait'[l] = wait[l]
  <2>1. k # l
    BY <1>4 DEF WaitReturns
  <2>2. \/ wait' = [wait EXCEPT ![k].step = "approved", ![k].base = vault.revision]
        \/ wait' = [wait EXCEPT ![k].step = "failed"]
    BY <1>4 DEF WaitReturns
  <2> QED
    BY <1>1, <2>1, <2>2
<1>5. ASSUME NEW k \in Links, WaitEnds(k), k # l PROVE wait'[l] = wait[l]
  <2>1. wait' = [wait EXCEPT ![k].step = "done"]
    BY <1>5 DEF WaitEnds
  <2> QED
    BY <1>1, <1>5, <2>1
<1>6. CASE WaitEnds(l)
  <2>1. CASE l \in revoking'
    BY <2>1
  <2>2. CASE Installs(l)
    <3>1. session' = [session EXCEPT !.status = "ready", !.device = l, !.root = wait[l].original.root,
                                     !.base = wait[l].base, !.armed = TRUE]
      BY <2>2 DEF Installs
    <3> QED
      BY <1>1, <3>1 DEF Session
  <2> QED
    BY <1>6, <2>1, <2>2 DEF WaitEnds, Brought, Installs
<1>7. wait' = wait \/ BeginAnswered \/ \E k \in Links : WaitReturns(k) \/ WaitEnds(k)
  BY TransferStep
     DEF SessionNext, sessionVars, RevokeEnds, Approve, LinkGoes, RemoveDevice, Commit, Rotate,
         Restore, Login, Logout, Synchronize, Outside, Begin, Close, Status, TimerFires, Idles, GrowsOld,
         Resolve, ResolveRefused, Resolved, NoEntry, ResolveLocks, ResolveFails
<1> QED
  BY <1>2, <1>3, <1>4, <1>5, <1>6, <1>7

\* No token leaves the memory of the process without the revocation of its
\* device being on its way (lockLocked, waitApproval, revokeCloudSession).
THEOREM TokensAreRevoked == Spec => TokenNeverDropped
<1>1. ASSUME SInv, [Next]_mcpVars, NEW l \in Held \ Held' PROVE l \in revoking'
  <2>1. CASE l \in Revoked(session)
    <3>1. l = session.device /\ session.device # None
      BY <2>1 DEF Revoked
    <3>2. session'.device # l
      BY <1>1, <3>1 DEF Held, Revoked
    <3> QED
      BY <1>1, <3>1, <3>2, DeviceKept
  <2>2. CASE l \in Links /\ wait[l].step = "approved"
    <3>1. wait'[l].step # "approved" /\ session'.device # l
      BY <1>1, <2>2, SessionAssumption DEF Held, Revoked
    <3> QED
      BY <1>1, <2>2, <3>1, ApprovalKept
  <2> QED
    BY <1>1, <2>1, <2>2 DEF Held
<1>2. SInv /\ [Next]_mcpVars => [Held \ Held' \subseteq revoking']_sessionVars
  BY <1>1
<1> QED
  BY <1>2, SessionInvariant, PTL DEF Spec, TokenNeverDropped

-----------------------------------------------------------------------------
(* Transfers: while a transfer that is alone writes, the .part name leads  *)
(* to its file, nobody else has that file open, and the file holds what    *)
(* the transfer has copied.                                                *)

\* The first n blocks of the source as it was at the start.
First(n) == [i \in 1..n |-> Versions[1][i]]

Writes(r) == r.step \in {"copy", "closed", "verified", "removed"}

\* What is open is a version of the source, and the first one while the source
\* is not edited.
ReadInv ==
    /\ \A t \in Transfers : trans[t].read \in DOMAIN Versions
    /\ edits = 0 => source = 1 /\ \A t \in Transfers : trans[t].read = 1

\* A transfer has a file from OpenPart on.
OutInv ==
    \A t \in Transfers : IF Writes(trans[t]) THEN trans[t].out \in Transfers
                         ELSE trans[t].step \in {"completed", "failed"} \/ trans[t].out = Nothing

\* What a transfer that is alone has copied.
Copied(r, content) ==
    /\ r.step \in {"verified", "removed"} /\ r.plan.kind = "download" /\ r.plan.want # Nothing
         => content = r.plan.want
    /\ ~r.plan.resume /\ edits = 0
         => /\ ~r.append /\ r.at <= Len(Versions[1]) /\ content = First(r.at)
            /\ r.step # "copy" => r.at = Len(Versions[1])

AloneInv ==
    \A t \in Transfers : Writes(trans[t]) /\ trans[t].alone =>
        /\ name.part = trans[t].out
        /\ \A u \in Transfers \ {t} : Writes(trans[u]) => trans[u].out # trans[t].out
        /\ Copied(trans[t], file[trans[t].out])

TInv == TransferTypeOK /\ ReadInv /\ OutInv /\ AloneInv

LEMMA VersionsType ==
    /\ 1 \in DOMAIN Versions
    /\ \A v \in DOMAIN Versions : Versions[v] \in Seq(Nat \ {0}) /\ Versions[v] \in Seq(Nat)
BY TransferAssumption

LEMMA FirstFacts ==
    /\ First(0) = << >>
    /\ First(Len(Versions[1])) = Versions[1]
    /\ \A n \in Nat : n <= Len(Versions[1]) => Len(First(n)) = n /\ First(n) # Torn
    /\ \A n \in Nat : n < Len(Versions[1]) => Append(First(n), Versions[1][n + 1]) = First(n + 1)
<1> DEFINE V == Versions[1]
<1>1. V \in Seq(Nat \ {0})
  BY VersionsType
<1>2. \A n \in Nat : n <= Len(V) => First(n) \in Seq(Nat \ {0}) /\ Len(First(n)) = n
  BY <1>1 DEF First
<1>3. First(0) = << >>
  BY DEF First
<1>4. First(Len(V)) = V
  BY <1>1 DEF First
<1>5. ASSUME NEW n \in Nat, n <= Len(V) PROVE First(n) # Torn
  <2>1. n = 0 => Len(First(n)) # Len(Torn)
    BY <1>2, <1>5 DEF Torn
  <2>2. n > 0 => First(n)[1] # Torn[1]
    BY <1>1, <1>5 DEF First, Torn
  <2> QED
    BY <2>1, <2>2
<1>6. ASSUME NEW n \in Nat, n < Len(V) PROVE Append(First(n), V[n + 1]) = First(n + 1)
  BY <1>1, <1>2, <1>6 DEF First
<1> QED
  BY <1>2, <1>3, <1>4, <1>5, <1>6

LEMMA TransferStart ==
    ASSUME NEW over, NEW plans \in SUBSET Plan, NEW n \in 0..MaxEdits, TransferInit(over, plans, n)
    PROVE TInv
<1>1. PICK p \in [Transfers -> plans] :
        trans = [t \in Transfers |->
                   [NewTransfer(p[t]) EXCEPT !.step = IF t \in over THEN "failed" ELSE "idle"]]
  BY DEF TransferInit
<1>2. \A t \in Transfers : /\ trans[t] \in Transfer /\ trans[t].step \in {"idle", "failed"}
                           /\ trans[t].read = 1 /\ trans[t].out = Nothing
  BY <1>1 DEF NewTransfer, Transfer, Steps
<1>3. TransferTypeOK
  BY <1>1, <1>2, VersionsType DEF TransferInit, TransferTypeOK, File
<1>4. ReadInv
  BY <1>2, VersionsType DEF ReadInv, TransferInit
<1>5. OutInv /\ AloneInv
  BY <1>2 DEF OutInv, AloneInv, Writes
<1> QED
  BY <1>3, <1>4, <1>5 DEF TInv

\* A transfer that is not writing goes on or ends.
LEMMA GoesOnQuietly ==
    ASSUME TInv, NEW t \in Transfers, NEW r \in Transfer, trans' = [trans EXCEPT ![t] = r],
           UNCHANGED <<source, name, file, edits>>,
           r.read \in DOMAIN Versions, edits = 0 => r.read = 1,
           ~Writes(r), r.step \in {"completed", "failed"} \/ r.out = Nothing
    PROVE TInv'
<1>1. TransferTypeOK'
  BY DEF TInv, TransferTypeOK
<1>2. trans'[t] = r /\ \A u \in Transfers \ {t} : trans'[u] = trans[u]
  BY DEF TInv, TransferTypeOK
<1>3. ReadInv'
  BY <1>2 DEF TInv, ReadInv
<1>4. OutInv'
  BY <1>2 DEF TInv, OutInv
<1>5. AloneInv'
  BY <1>2 DEF TInv, AloneInv, Copied
<1> QED
  BY <1>1, <1>3, <1>4, <1>5 DEF TInv

LEMMA QuietSteps ==
    ASSUME TInv, NEW t \in Transfers,
           Start(t) \/ Connected(t) \/ Stat(t) \/ OpenSource(t) \/ HashSource(t) \/ Fails(t)
    PROVE TInv'
<1> DEFINE r == trans'[t]
           Early == trans[t].step \in {"idle", "dial", "stat", "open", "hash"}
<1>1. /\ trans[t] \in Transfer /\ trans[t].read \in DOMAIN Versions /\ source \in DOMAIN Versions
      /\ trans \in [Transfers -> Transfer] /\ Versions[source] \in Seq(Nat) /\ source \in Nat
  BY VersionsType, TransferAssumption DEF TInv, TransferTypeOK, ReadInv
<1>2. edits = 0 => source = 1 /\ trans[t].read = 1
  BY DEF TInv, ReadInv
<1>3. UNCHANGED <<source, name, file, edits>> /\ trans' = [trans EXCEPT ![t] = r]
  BY <1>1 DEF Start, Connected, Stat, OpenSource, HashSource, Fails, Goto, Set
<1>4. /\ r \in Transfer /\ ~Writes(r) /\ r.read \in {trans[t].read, source}
      /\ r.step = "failed" \/ (r.out = trans[t].out /\ Early)
  <2>1. CASE Start(t)
    <3>1. r = [trans[t] EXCEPT !.step = "dial"]
      BY <1>1, <2>1 DEF Start, Goto
    <3> QED
      BY <1>1, <2>1, <3>1 DEF Start, Writes, Transfer, Steps
  <2>2. CASE Connected(t)
    <3>1. r = [trans[t] EXCEPT !.step = "stat"]
      BY <1>1, <2>2 DEF Connected, Goto
    <3> QED
      BY <1>1, <2>2, <3>1 DEF Connected, Writes, Transfer, Steps
  <2>3. CASE Stat(t)
    <3>1. \/ r = [trans[t] EXCEPT !.step = "open", !.stat = source]
          \/ r = [trans[t] EXCEPT !.step = "hash", !.stat = source, !.read = source]
      BY <1>1, <2>3 DEF Stat, Set
    <3> QED
      BY <1>1, <2>3, <3>1 DEF Stat, Writes, Transfer, Steps
  <2>4. CASE OpenSource(t)
    <3>1. r = [trans[t] EXCEPT !.step = "part", !.read = source]
      BY <1>1, <2>4 DEF OpenSource, Set
    <3> QED
      BY <1>1, <2>4, <3>1 DEF OpenSource, Writes, Transfer, Steps
  <2>5. CASE HashSource(t)
    <3>1. r = [trans[t] EXCEPT !.step = "part", !.sum = Versions[source]]
      BY <1>1, <2>5 DEF HashSource, Set
    <3> QED
      BY <1>1, <2>5, <3>1 DEF HashSource, Writes, Transfer, Steps
  <2>6. CASE Fails(t)
    <3>1. r = [trans[t] EXCEPT !.step = "failed"]
      BY <1>1, <2>6 DEF Fails, Goto
    <3> QED
      BY <1>1, <2>6, <3>1 DEF Writes, Transfer, Steps
  <2> QED
    BY <2>1, <2>2, <2>3, <2>4, <2>5, <2>6
<1>5. r.step \in {"completed", "failed"} \/ r.out = Nothing
  BY <1>4 DEF TInv, OutInv, Writes
<1>6. r.read \in DOMAIN Versions /\ (edits = 0 => r.read = 1)
  BY <1>1, <1>2, <1>4
<1> HIDE DEF r
<1> QED
  BY <1>3, <1>4, <1>5, <1>6, GoesOnQuietly

\* A transfer that writes changes its own record, and other transfers at most
\* lose their file: nothing else of them changes.
LEMMA OthersStay ==
    ASSUME TInv, NEW t \in Transfers, UNCHANGED <<source, edits>>,
           trans'[t].read = trans[t].read,
           IF Writes(trans'[t]) THEN trans'[t].out \in Transfers ELSE trans'[t].step = "completed",
           \A u \in Transfers \ {t} :
               trans'[u] = trans[u] \/ trans'[u] = [trans[u] EXCEPT !.alone = FALSE]
    PROVE ReadInv' /\ OutInv'
<1>1. \A u \in Transfers \ {t} : /\ trans'[u].read = trans[u].read /\ trans'[u].out = trans[u].out
                                 /\ trans'[u].step = trans[u].step
  BY DEF TInv, TransferTypeOK, Transfer
<1>2. ReadInv'
  BY <1>1 DEF TInv, ReadInv
<1>3. OutInv'
  BY <1>1 DEF TInv, OutInv, Writes
<1> QED
  BY <1>2, <1>3

LEMMA CopyEndsInv == ASSUME TInv, NEW t \in Transfers, CopyEnds(t) PROVE TInv'
<1> DEFINE s == IF trans[t].plan.kind = "upload" THEN "verified" ELSE "closed"
<1>1. /\ trans' = [trans EXCEPT ![t].step = s] /\ UNCHANGED <<source, name, file, edits>>
      /\ trans[t].step = "copy" /\ trans[t].at >= Size(trans[t].read)
  BY DEF CopyEnds, Goto
<1>2. trans \in [Transfers -> Transfer]
  BY DEF TInv, TransferTypeOK
<1>3. /\ trans'[t] = [trans[t] EXCEPT !.step = s] /\ trans'[t] \in Transfer
      /\ \A u \in Transfers \ {t} : trans'[u] = trans[u]
  BY <1>1, <1>2 DEF Transfer, Steps
<1>4. TransferTypeOK'
  BY <1>1, <1>2, <1>3 DEF TInv, TransferTypeOK
<1>5. /\ trans'[t].step = s /\ trans'[t].out = trans[t].out /\ trans'[t].alone = trans[t].alone
      /\ trans'[t].plan = trans[t].plan /\ trans'[t].append = trans[t].append
      /\ trans'[t].at = trans[t].at /\ trans'[t].read = trans[t].read
  BY <1>2, <1>3 DEF Transfer
<1>6. ReadInv' /\ OutInv'
  BY <1>1, <1>3, <1>5, OthersStay DEF TInv, OutInv, Writes
<1>7. Copied(trans[t], file[trans[t].out]) => Copied(trans[t], file[trans[t].out])' 
  <2>1. trans[t].plan.kind = "upload" => s = "verified"
    OBVIOUS
  <2>2. trans[t].plan.kind # "upload" => s = "closed"
    OBVIOUS
  <2>3. edits = 0 => trans[t].at >= Len(Versions[1])
    BY <1>1 DEF Size, TInv, ReadInv
  <2>4. trans[t].at \in Nat /\ Len(Versions[1]) \in Nat
    BY <1>2, VersionsType DEF Transfer
  <2> HIDE DEF s
  <2> QED
    BY <1>1, <1>5, <2>1, <2>2, <2>3, <2>4 DEF Copied
<1>8. AloneInv'
  <2> HIDE DEF s
  <2> QED
    BY <1>1, <1>3, <1>5, <1>7 DEF TInv, AloneInv, Writes, Copied
<1> QED
  BY <1>4, <1>6, <1>8 DEF TInv

LEMMA VerifyInv == ASSUME TInv, NEW t \in Transfers, Verify(t) PROVE TInv'
<1>1. /\ trans' = [trans EXCEPT ![t] = [trans[t] EXCEPT !.step = "verified", !.sum = PartSum]]
      /\ trans[t].step = "closed" /\ name.part # Nothing /\ trans[t].plan.want \in {Nothing, PartSum}
      /\ UNCHANGED <<source, name, file, edits>>
  BY DEF Verify, Set
<1>2. trans \in [Transfers -> Transfer] /\ PartSum \in Seq(Nat) /\ PartSum = file[name.part]
  BY <1>1 DEF TInv, TransferTypeOK, PartSum, File
<1>3. /\ trans'[t] = [trans[t] EXCEPT !.step = "verified", !.sum = PartSum] /\ trans'[t] \in Transfer
      /\ \A u \in Transfers \ {t} : trans'[u] = trans[u]
  BY <1>1, <1>2 DEF Transfer, Steps
<1>4. TransferTypeOK'
  BY <1>1, <1>2, <1>3 DEF TInv, TransferTypeOK
<1>5. /\ trans'[t].step = "verified" /\ trans'[t].out = trans[t].out /\ trans'[t].alone = trans[t].alone
      /\ trans'[t].plan = trans[t].plan /\ trans'[t].append = trans[t].append
      /\ trans'[t].at = trans[t].at /\ trans'[t].read = trans[t].read
  BY <1>2, <1>3 DEF Transfer
<1>6. ReadInv' /\ OutInv'
  BY <1>1, <1>3, <1>5, OthersStay DEF TInv, OutInv, Writes
<1>7. AloneInv'
  BY <1>1, <1>2, <1>3, <1>5 DEF TInv, AloneInv, Writes, Copied
<1> QED
  BY <1>4, <1>6, <1>7 DEF TInv

LEMMA RemoveOldInv == ASSUME TInv, NEW t \in Transfers, RemoveOld(t) PROVE TInv'
<1>1. /\ trans' = [trans EXCEPT ![t].step = "removed"] /\ name' = [name EXCEPT !.dst = Nothing]
      /\ trans[t].step = "verified" /\ trans[t].plan.kind = "upload"
      /\ UNCHANGED <<source, file, edits>>
  BY DEF RemoveOld, Goto
<1>2. trans \in [Transfers -> Transfer] /\ name \in [dst : File \cup {Old}, part : File]
  BY DEF TInv, TransferTypeOK
<1>3. /\ trans'[t] = [trans[t] EXCEPT !.step = "removed"] /\ trans'[t] \in Transfer
      /\ \A u \in Transfers \ {t} : trans'[u] = trans[u]
  BY <1>1, <1>2 DEF Transfer, Steps
<1>4. name' \in [dst : File \cup {Old}, part : File] /\ name'.part = name.part
  BY <1>1, <1>2 DEF File
<1>5. TransferTypeOK'
  BY <1>1, <1>2, <1>3, <1>4 DEF TInv, TransferTypeOK
<1>6. /\ trans'[t].step = "removed" /\ trans'[t].out = trans[t].out /\ trans'[t].alone = trans[t].alone
      /\ trans'[t].plan = trans[t].plan /\ trans'[t].append = trans[t].append
      /\ trans'[t].at = trans[t].at /\ trans'[t].read = trans[t].read
  BY <1>2, <1>3 DEF Transfer
<1>7. ReadInv' /\ OutInv'
  BY <1>1, <1>3, <1>6, OthersStay DEF TInv, OutInv, Writes
<1>8. AloneInv'
  BY <1>1, <1>3, <1>4, <1>6 DEF TInv, AloneInv, Writes, Copied
<1> QED
  BY <1>5, <1>7, <1>8 DEF TInv

LEMMA LosesFile == ASSUME NEW r \in Transfer PROVE [r EXCEPT !.alone = FALSE] \in Transfer
BY DEF Transfer

LEMMA GetsFile ==
    ASSUME NEW r \in Transfer, NEW o \in Transfers, NEW n \in Nat, NEW a \in BOOLEAN, NEW b \in BOOLEAN
    PROVE [r EXCEPT !.step = "copy", !.out = o, !.at = n, !.append = a, !.alone = b] \in Transfer
BY DEF Transfer, Steps

\* Whoever has the file that moves is not alone any more.
LEMMA ReplaceInv == ASSUME TInv, NEW t \in Transfers, Replace(t) PROVE TInv'
<1>1. /\ name.part # Nothing /\ name' = [dst |-> name.part, part |-> Nothing]
      /\ UNCHANGED <<source, file, edits>>
  BY DEF Replace
<1>2. trans \in [Transfers -> Transfer] /\ name \in [dst : File \cup {Old}, part : File]
  BY DEF TInv, TransferTypeOK
<1>3. /\ trans'[t] = [trans[t] EXCEPT !.step = "completed"]
      /\ \A u \in Transfers \ {t} :
           trans'[u] = IF trans[u].out = name.part /\ Running(u) THEN [trans[u] EXCEPT !.alone = FALSE]
                       ELSE trans[u]
      /\ trans' = [u \in Transfers |-> trans'[u]]
  BY DEF Replace
<1>4. trans' \in [Transfers -> Transfer]
  <2>1. trans'[t] \in Transfer
    BY <1>2, <1>3 DEF Transfer, Steps
  <2>2. \A u \in Transfers \ {t} : trans'[u] \in Transfer
    BY <1>2, <1>3, LosesFile
  <2> QED
    BY <1>3, <2>1, <2>2
<1>5. TransferTypeOK'
  BY <1>1, <1>2, <1>4 DEF TInv, TransferTypeOK, File
<1>6. trans'[t].step = "completed" /\ trans'[t].read = trans[t].read
  BY <1>2, <1>3 DEF Transfer
<1>7. ReadInv' /\ OutInv'
  BY <1>1, <1>3, <1>6, OthersStay DEF Writes
<1>8. ASSUME NEW u \in Transfers PROVE ~(Writes(trans'[u]) /\ trans'[u].alone)
  <2>1. CASE u = t
    BY <1>6, <2>1 DEF Writes
  <2>2. CASE u # t /\ trans[u].out = name.part /\ Running(u)
    <3>1. trans'[u] = [trans[u] EXCEPT !.alone = FALSE]
      BY <1>3, <2>2
    <3> QED
      BY <1>2, <3>1 DEF Transfer
  <2>3. CASE u # t /\ ~(trans[u].out = name.part /\ Running(u))
    <3>1. trans'[u] = trans[u]
      BY <1>3, <2>3
    <3> QED
      BY <2>3, <3>1 DEF TInv, AloneInv, Writes, Running
  <2> QED
    BY <2>1, <2>2, <2>3
<1>9. AloneInv'
  BY <1>8 DEF AloneInv
<1> QED
  BY <1>5, <1>7, <1>9 DEF TInv

\* Whoever had the .part file open is not alone any more, and the one that opens
\* it is alone when nobody had.
LEMMA OpenPartInv == ASSUME TInv, NEW t \in Transfers, OpenPart(t) PROVE TInv'
<1> DEFINE out == IF name.part = Nothing THEN t ELSE name.part
           others == {u \in Transfers : Running(u) /\ trans[u].out = out}
           done == Offset(t)
           first == IF done = 0 THEN << >> ELSE file[out]
<1>1. /\ trans[t].step = "part" /\ name' = [name EXCEPT !.part = out]
      /\ file' = [file EXCEPT ![out] = first] /\ UNCHANGED <<source, edits>>
  BY DEF OpenPart
<1>2. /\ trans'[t] = [trans[t] EXCEPT !.step = "copy", !.out = out, !.at = done,
                                      !.append = done > 0, !.alone = others = {}]
      /\ \A u \in Transfers \ {t} :
           trans'[u] = IF trans[u].out = out /\ Running(u) THEN [trans[u] EXCEPT !.alone = FALSE]
                       ELSE trans[u]
      /\ trans' = [u \in Transfers |-> trans'[u]]
  BY DEF OpenPart
<1>3. /\ trans \in [Transfers -> Transfer] /\ name \in [dst : File \cup {Old}, part : File]
      /\ file \in [Transfers -> Seq(Nat)]
  BY DEF TInv, TransferTypeOK
<1>4. out \in Transfers
  BY <1>3 DEF File
<1>5. done \in Nat /\ (~trans[t].plan.resume => done = 0)
  BY <1>3 DEF Offset, File
<1>6. first \in Seq(Nat) /\ (done = 0 => first = First(0))
  BY <1>3, <1>4, FirstFacts
<1> HIDE DEF out, done, first
<1>7. trans' \in [Transfers -> Transfer]
  <2>1. trans'[t] \in Transfer
    <3>1. trans[t] \in Transfer /\ (done > 0) \in BOOLEAN /\ (others = {}) \in BOOLEAN
      BY <1>3
    <3>2. [trans[t] EXCEPT !.step = "copy", !.out = out, !.at = done, !.append = done > 0,
                           !.alone = others = {}] \in Transfer
      BY ONLY <1>4, <1>5, <3>1, GetsFile
    <3> QED
      BY <1>2, <3>2
  <2>2. ASSUME NEW u \in Transfers \ {t} PROVE trans'[u] \in Transfer
    <3>1. trans'[u] = trans[u] \/ trans'[u] = [trans[u] EXCEPT !.alone = FALSE]
      BY <1>2
    <3>2. trans[u] \in Transfer
      BY <1>3
    <3> QED
      BY <3>1, <3>2, LosesFile
  <2> QED
    BY <1>2, <2>1, <2>2
<1>8. TransferTypeOK'
  BY <1>1, <1>3, <1>4, <1>6, <1>7 DEF TInv, TransferTypeOK, File
<1>9. /\ trans'[t].step = "copy" /\ trans'[t].out = out /\ trans'[t].at = done
      /\ trans'[t].append = (done > 0) /\ trans'[t].alone = (others = {})
      /\ trans'[t].plan = trans[t].plan /\ trans'[t].read = trans[t].read
  BY <1>2, <1>3 DEF Transfer
<1>10. ReadInv' /\ OutInv'
  BY <1>1, <1>2, <1>4, <1>9, OthersStay DEF Writes
<1>11. ASSUME NEW u \in Transfers \ {t} PROVE ~(Writes(trans'[u]) /\ trans'[u].alone)
  <2>1. CASE trans[u].out = out /\ Running(u)
    <3>1. trans'[u] = [trans[u] EXCEPT !.alone = FALSE]
      BY <1>2, <2>1
    <3> QED
      BY <1>3, <3>1 DEF Transfer
  <2>2. CASE ~(trans[u].out = out /\ Running(u))
    <3>1. trans'[u] = trans[u]
      BY <1>2, <2>2
    <3>2. Writes(trans[u]) => trans[u].out \in Transfers /\ Running(u)
      BY DEF TInv, OutInv, Writes, Running
    <3>3. Writes(trans[u]) /\ trans[u].alone => trans[u].out = name.part
      BY DEF TInv, AloneInv
    <3> QED
      BY <2>2, <3>1, <3>2, <3>3, TransferAssumption DEF out
  <2> QED
    BY <2>1, <2>2
<1>12. ASSUME trans'[t].alone, NEW u \in Transfers \ {t}, Writes(trans'[u]) PROVE trans'[u].out # out
  <2>1. u \notin others
    BY <1>9, <1>12
  <2>2. trans'[u] = trans[u]
    BY <1>2, <2>1
  <2> QED
    BY <1>12, <2>1, <2>2 DEF Writes, Running
<1>13. Copied(trans[t], file[trans[t].out])'
  <2>1. file'[out] = first
    BY <1>1, <1>3, <1>4
  <2>2. 0 <= Len(Versions[1])
    BY VersionsType
  <2>3. ~trans[t].plan.resume =>
          ~trans'[t].append /\ trans'[t].at = 0 /\ file'[trans'[t].out] = First(0)
    <3>1. trans'[t].append => done > 0
      BY <1>9
    <3>2. done = 0 => ~(done > 0)
      OBVIOUS
    <3> QED
      BY <1>5, <1>6, <1>9, <2>1, <3>1, <3>2
  <2> QED
    BY <1>9, <2>2, <2>3 DEF Copied
<1>14. name'.part = out
  BY <1>1, <1>3
<1>15. AloneInv'
  BY <1>9, <1>11, <1>12, <1>13, <1>14 DEF AloneInv
<1> QED
  BY <1>8, <1>10, <1>15 DEF TInv

\* The file of a transfer that is alone grows by the block that is its turn.
LEMMA CopyBlockInv == ASSUME TInv, NEW t \in Transfers, CopyBlock(t) PROVE TInv'
<1> DEFINE r == trans[t]
           old == file[r.out]
           block == Versions[r.read][r.at + 1]
           new == IF old = Torn \/ (~r.append /\ r.at # Len(old)) THEN Torn ELSE Append(old, block)
           next == r.at + 1
<1>1. /\ r.step = "copy" /\ r.at < Size(r.read) /\ file' = [file EXCEPT ![r.out] = new]
      /\ trans' = [trans EXCEPT ![t] = [r EXCEPT !.at = next]] /\ UNCHANGED <<source, name, edits>>
  BY DEF CopyBlock, Set
<1>2. trans \in [Transfers -> Transfer] /\ file \in [Transfers -> Seq(Nat)] /\ r \in Transfer
  BY DEF TInv, TransferTypeOK
<1>3. r.out \in Transfers /\ r.read \in DOMAIN Versions
  BY <1>1 DEF TInv, OutInv, ReadInv, Writes
<1>4. next \in Nat /\ block \in Nat
  <2>1. r.at \in Nat /\ Versions[r.read] \in Seq(Nat)
    BY <1>2, <1>3, VersionsType DEF Transfer
  <2>2. r.at + 1 \in 1..Len(Versions[r.read])
    BY <1>1, <2>1 DEF Size
  <2>3. ASSUME NEW v \in Seq(Nat), NEW i \in 1..Len(v) PROVE v[i] \in Nat
    OBVIOUS
  <2>4. block \in Nat
    BY <2>1, <2>2, <2>3
  <2> QED
    BY <2>1, <2>4
<1>5. new \in Seq(Nat)
  <2>1. Torn \in Seq(Nat)
    BY DEF Torn
  <2>2. old \in Seq(Nat)
    BY <1>2, <1>3
  <2>3. Append(old, block) \in Seq(Nat)
    BY <1>4, <2>2
  <2> QED
    BY <2>1, <2>3
<1>6. edits = 0 /\ ~r.append /\ old = First(r.at) => new = First(next) /\ next <= Len(Versions[1])
  <2>1. SUFFICES ASSUME edits = 0, ~r.append, old = First(r.at)
                 PROVE new = First(next) /\ next <= Len(Versions[1])
    OBVIOUS
  <2>2. r.read = 1 /\ r.at \in Nat /\ r.at < Len(Versions[1]) /\ Len(Versions[1]) \in Nat
    BY <1>1, <1>2, <2>1, VersionsType DEF TInv, ReadInv, Size, Transfer
  <2>3. Len(old) = r.at /\ old # Torn
    BY <2>1, <2>2, FirstFacts
  <2>4. new = Append(First(r.at), Versions[1][r.at + 1])
    BY <2>1, <2>2, <2>3
  <2>5. Append(First(r.at), Versions[1][r.at + 1]) = First(r.at + 1)
    BY <2>2, FirstFacts
  <2>6. r.at + 1 <= Len(Versions[1])
    BY <2>2
  <2> QED
    BY <2>4, <2>5, <2>6
<1> HIDE DEF new, next, block
<1>7. /\ trans'[t] = [r EXCEPT !.at = next] /\ trans'[t] \in Transfer
      /\ \A u \in Transfers \ {t} : trans'[u] = trans[u]
  BY <1>1, <1>2, <1>4 DEF Transfer
<1>8. /\ file' \in [Transfers -> Seq(Nat)] /\ file'[r.out] = new
      /\ \A f \in Transfers \ {r.out} : file'[f] = file[f]
  BY <1>1, <1>2, <1>3, <1>5
<1>9. TransferTypeOK'
  BY <1>1, <1>2, <1>7, <1>8 DEF TInv, TransferTypeOK
<1>10. /\ trans'[t].step = "copy" /\ trans'[t].out = r.out /\ trans'[t].alone = r.alone
       /\ trans'[t].plan = r.plan /\ trans'[t].append = r.append
       /\ trans'[t].at = next /\ trans'[t].read = r.read
  BY <1>1, <1>2, <1>7 DEF Transfer
<1>11. ReadInv' /\ OutInv'
  BY <1>1, <1>3, <1>7, <1>10, OthersStay DEF Writes
<1>12. r.alone => Copied(trans[t], file[trans[t].out])'
  <2>1. r.alone => Copied(r, old)
    BY <1>1 DEF TInv, AloneInv, Writes
  <2> QED
    BY <1>1, <1>6, <1>8, <1>10, <2>1 DEF Copied
<1>13. ASSUME NEW u \in Transfers \ {t}, Writes(trans[u]), trans[u].alone
       PROVE Copied(trans[u], file[trans[u].out])'
  <2>1. trans[u].out \in Transfers \ {r.out} /\ Copied(trans[u], file[trans[u].out])
    BY <1>1, <1>13 DEF TInv, OutInv, AloneInv, Writes
  <2>2. file'[trans[u].out] = file[trans[u].out] /\ trans'[u] = trans[u]
    BY <1>7, <1>8, <2>1
  <2> QED
    BY <1>1, <2>1, <2>2 DEF Copied
<1>14. Writes(r) /\ Writes(trans'[t])
  BY <1>1, <1>10 DEF Writes
<1>15. AloneInv'
  <2>1. ASSUME NEW u \in Transfers, NEW v \in Transfers \ {u}, Writes(trans'[u]), trans'[u].alone, Writes(trans'[v])
        PROVE trans'[v].out # trans'[u].out
    <3>1. /\ Writes(trans[u]) /\ trans[u].alone /\ Writes(trans[v])
          /\ trans'[u].out = trans[u].out /\ trans'[v].out = trans[v].out
      BY <1>7, <1>10, <1>14, <2>1
    <3> QED
      BY <3>1 DEF TInv, AloneInv
  <2>2. ASSUME NEW u \in Transfers, Writes(trans'[u]), trans'[u].alone
        PROVE name'.part = trans'[u].out /\ Copied(trans[u], file[trans[u].out])'
    BY <1>1, <1>7, <1>10, <1>12, <1>13, <1>14, <2>2 DEF TInv, AloneInv
  <2> QED
    BY <2>1, <2>2 DEF AloneInv
<1> QED
  BY <1>9, <1>11, <1>15 DEF TInv

\* The source is edited: what a transfer has copied is no longer told by it.
LEMMA EditSourceInv == ASSUME TInv, EditSource PROVE TInv'
<1>1. /\ edits < MaxEdits /\ source < Len(Versions) /\ source' = source + 1 /\ edits' = edits + 1
      /\ UNCHANGED <<name, file>>
  BY DEF EditSource
<1>2. /\ trans \in [Transfers -> Transfer] /\ edits \in Nat /\ source \in DOMAIN Versions
      /\ source \in Nat /\ MaxEdits \in Nat
  BY TransferAssumption DEF TInv, TransferTypeOK
<1>3. source' \in DOMAIN Versions /\ source' \in Nat /\ edits' \in 0..MaxEdits /\ edits' # 0
  BY <1>1, <1>2, TransferAssumption
<1>4. \A t \in Transfers : trans'[t] = trans[t] \/ trans'[t] = [trans[t] EXCEPT !.read = source']
  BY DEF EditSource
<1>5. trans' \in [Transfers -> Transfer]
  <2>1. ASSUME NEW t \in Transfers PROVE trans'[t] \in Transfer
    BY <1>2, <1>3, <1>4 DEF Transfer
  <2>2. trans' = [t \in Transfers |-> trans'[t]]
    BY <1>2 DEF EditSource
  <2> QED
    BY <2>1, <2>2
<1>6. \A t \in Transfers :
        /\ trans'[t].step = trans[t].step /\ trans'[t].out = trans[t].out
        /\ trans'[t].alone = trans[t].alone /\ trans'[t].plan = trans[t].plan
        /\ trans'[t].read \in {trans[t].read, source'}
  BY <1>2, <1>4 DEF Transfer
<1>7. TransferTypeOK'
  BY <1>1, <1>3, <1>5 DEF TInv, TransferTypeOK
<1>8. ReadInv'
  BY <1>3, <1>6 DEF TInv, ReadInv
<1>9. OutInv'
  BY <1>6 DEF TInv, OutInv, Writes
<1>10. AloneInv'
  BY <1>1, <1>3, <1>6 DEF TInv, AloneInv, Writes, Copied
<1> QED
  BY <1>7, <1>8, <1>9, <1>10 DEF TInv

-----------------------------------------------------------------------------
\* What a step is for the transfers.
LEMMA TransferMoves ==
    ASSUME [Next]_mcpVars
    PROVE \/ UNCHANGED transferVars \/ EditSource
          \/ \E t \in Transfers : Start(t) \/ Connected(t) \/ Copying(t) \/ Fails(t)
BY DEF Next, mcpVars, Ask, Answer, OpensWithCredentials, Refused, GoesOn

LEMMA TransferInv == ASSUME TInv, [Next]_mcpVars PROVE TInv'
<1>1. CASE UNCHANGED transferVars
  BY <1>1 DEF transferVars, TInv, TransferTypeOK, ReadInv, OutInv, AloneInv, Copied
<1>2. ASSUME NEW t \in Transfers, Copying(t) PROVE TInv'
  BY <1>2, QuietSteps, OpenPartInv, CopyBlockInv, CopyEndsInv, VerifyInv, ReplaceInv, RemoveOldInv
     DEF Copying, Rename, RenameAgain
<1> QED
  BY <1>1, <1>2, TransferMoves, EditSourceInv, QuietSteps

LEMMA TransfersStart == ASSUME Init PROVE TInv
<1>1. PICK s \in Scenes : TransferInit(Transfers \ s.transfers, s.plans, MaxEdits - s.edits)
  BY DEF Init
<1>2. MaxEdits - s.edits \in 0..MaxEdits /\ s.plans \in SUBSET Plan
  BY SceneAssumption, TransferAssumption
<1> QED
  BY <1>1, <1>2, TransferStart

\* The invariant of the transfers: types, what is open, and what a transfer that
\* is alone has copied (copySeekableToAtomicFile, uploadLocalFile).
THEOREM TransferInvariant == Spec => []TInv
<1>1. Init => TInv
  BY TransfersStart
<1>2. TInv /\ [Next]_mcpVars => TInv'
  BY TransferInv
<1> QED
  BY <1>1, <1>2, PTL DEF Spec

\* What a transfer that is alone has beside the destination when it is done.
LEMMA PartIsWhole ==
    ASSUME TInv, NEW t \in Transfers, trans[t].step \in {"verified", "removed"}, trans[t].alone
    PROVE name.part \in Transfers /\ Whole(t, file[name.part])
<1>1. name.part = trans[t].out /\ name.part \in Transfers /\ Copied(trans[t], file[name.part])
  BY DEF TInv, OutInv, AloneInv, Writes
<1>2. edits = 0 => Versions[source] = Versions[1]
  BY DEF TInv, ReadInv
<1> QED
  BY <1>1, <1>2, FirstFacts DEF Copied, Whole

\* A destination changes only to a whole file, and is removed only beside one,
\* for any number of transfers and edits, as long as no other transfer used or
\* moved the .part file (copySeekableToAtomicFile, uploadLocalFile).
THEOREM DestinationsStayWhole == Spec => DestinationWhole
<1>1. ASSUME TInv, [Next]_mcpVars, NEW t \in Transfers,
             name'.dst # name.dst, trans'[t].step # trans[t].step, trans[t].alone
      PROVE Whole(t, file[IF name'.dst = Nothing THEN name.part ELSE name'.dst])
  <2>1. trans \in [Transfers -> Transfer] /\ name \in [dst : File \cup {Old}, part : File]
    BY <1>1 DEF TInv, TransferTypeOK
  <2>2. PICK u \in Transfers : RemoveOld(u) \/ ((Rename(u) \/ RenameAgain(u)) /\ Replace(u))
    <3>1. ~UNCHANGED name
      BY <1>1
    <3>2. ASSUME NEW u \in Transfers, OpenPart(u) PROVE name'.dst = name.dst
      BY <2>1, <3>2 DEF OpenPart
    <3> QED
      BY <1>1, <3>1, <3>2, TransferMoves
         DEF transferVars, EditSource, Start, Connected, Fails, Copying, Stat, OpenSource, HashSource,
             CopyBlock, CopyEnds, Verify, Rename, RenameAgain
  <2>3. u = t
    <3>1. ASSUME RemoveOld(u), u # t PROVE trans'[t].step = trans[t].step
      BY <2>1, <3>1 DEF RemoveOld, Goto
    <3>2. ASSUME Replace(u), u # t PROVE trans'[t].step = trans[t].step
      <4>1. trans'[t] = trans[t] \/ trans'[t] = [trans[t] EXCEPT !.alone = FALSE]
        BY <3>2 DEF Replace
      <4> QED
        BY <2>1, <4>1 DEF Transfer
    <3> QED
      BY <1>1, <2>2, <3>1, <3>2
  <2>4. trans[t].step \in {"verified", "removed"}
    BY <2>2, <2>3 DEF RemoveOld, Rename, RenameAgain
  <2>5. name'.dst \in {Nothing, name.part}
    BY <2>1, <2>2 DEF RemoveOld, Replace
  <2> QED
    BY <1>1, <2>4, <2>5, PartIsWhole
<1>2. TInv /\ [Next]_mcpVars =>
        [\A t \in Transfers :
           name'.dst # name.dst /\ trans'[t].step # trans[t].step /\ trans[t].alone
              => Whole(t, file[IF name'.dst = Nothing THEN name.part ELSE name'.dst])]_transferVars
  BY <1>1
<1> QED
  BY <1>2, TransferInvariant, PTL DEF Spec, DestinationWhole
=============================================================================
