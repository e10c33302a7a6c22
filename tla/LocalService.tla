---------------------------- MODULE LocalService ----------------------------
(***************************************************************************)
(* The readers of the local credential store: the SSH agent of             *)
(* internal/localservice/service.go, which opens the store anew for every  *)
(* target of a request, and managedAuth of internal/ssh/managed_auth.go,   *)
(* with which the CLI and the MCP servers choose the credentials of a      *)
(* connection.  Both look at the lock marker without the flock, so updates *)
(* and `service lock` of other processes fall between their steps.         *)
(***************************************************************************)
EXTENDS LocalStore

CONSTANTS Handlers,    \* connections of the agent socket being served
          Clients,     \* processes that open SSH connections
          Fallback     \* the authentication outside the store

ASSUME ServiceAssumption ==
    Fallback \notin Credentials /\ Keys # {} /\ Targets # {}

VARIABLES
    sign,   \* sign[h]: the signature request h serves
    login   \* login[c]: the connection attempt of client c

vars == <<storeVars, sign, login>>
readers == <<sign, login>>

-----------------------------------------------------------------------------
\* What the store offers a target at a moment: nothing behind the marker or
\* for a disabled target, its credentials, or leave to authenticate elsewhere.
Offers(st, lk, t) ==
    IF lk THEN {}
    ELSE IF st = NoStore THEN {Fallback}
    ELSE IF t \in st.disabled THEN {}
    ELSE IF Bound(st, t) = {} THEN {Fallback}
    ELSE Bound(st, t)

\* seen is the history a request is judged by: all that was on offer at some
\* moment since it arrived.
SignRequest == [step : {"idle", "scan", "match", "clear"}, key : Keys,
                todo : SUBSET Targets, signed : BOOLEAN,
                seen : SUBSET (Credentials \cup {Fallback})]
\* explicit: the caller brings a password or signers of its own.
Attempt == [step : {"idle", "open", "end"}, t : Targets, explicit : BOOLEAN,
            auth : SUBSET (Credentials \cup {Fallback}),
            seen : SUBSET (Credentials \cup {Fallback})]

TypeOK == /\ StoreTypeOK
          /\ sign \in [Handlers -> SignRequest]
          /\ login \in [Clients -> Attempt]

AllOffers(st, lk) == UNION {Offers(st, lk, t) : t \in Targets}

NoRequest == [step |-> "idle", key |-> CHOOSE k \in Keys : TRUE, todo |-> {},
              signed |-> FALSE, seen |-> {}]
NoAttempt == [step |-> "idle", t |-> CHOOSE t \in Targets : TRUE,
              explicit |-> FALSE, auth |-> {}, seen |-> {}]

Init == /\ StoreInit
        /\ sign = [h \in Handlers |-> NoRequest]
        /\ login = [c \in Clients |-> NoAttempt]

\* Every step of a store process is seen by the requests under way.
Observed ==
    /\ sign' = [h \in Handlers |->
                  IF sign[h].step = "idle" THEN sign[h]
                  ELSE [sign[h] EXCEPT !.seen = @ \cup AllOffers(store', locked')]]
    /\ login' = [c \in Clients |->
                   IF login[c].step # "open" THEN login[c]
                   ELSE [login[c] EXCEPT
                           !.seen = @ \cup Offers(store', locked', login[c].t)]]

-----------------------------------------------------------------------------
(* SignWithFlags over withSigners *)

\* The first CheckLocked, then the targets of the configuration, in any order.
SignBegin(h, k) ==
    /\ sign[h].step = "idle"
    /\ ~locked
    /\ sign' = [sign EXCEPT ![h] = [step |-> "scan", key |-> k,
                                    todo |-> Targets, signed |-> FALSE,
                                    seen |-> AllOffers(store, locked)]]
    /\ UNCHANGED <<storeVars, login>>

\* Resolve of the next target: one that is unknown or inactive is passed over,
\* any other failure denies the request.
Scan(h, t) ==
    LET res == Open(files, t)
        found == res.code = "ok" /\ sign[h].key \in res.cs /\ ~sign[h].signed
    IN /\ sign[h].step = "scan" /\ t \in sign[h].todo
       /\ holder = NoProc
       /\ sign' = IF res.code \in {"locked", "changed"}
                    THEN [sign EXCEPT ![h] = NoRequest]
                    ELSE [sign EXCEPT ![h].todo = @ \ {t},
                                      ![h].step = IF found THEN "match"
                                                           ELSE "scan"]
       /\ UNCHANGED <<storeVars, login>>

\* The key matches: the marker is looked at once more before the signature.
SignCheck(h) ==
    /\ sign[h].step = "match"
    /\ sign' = IF locked THEN [sign EXCEPT ![h] = NoRequest]
                         ELSE [sign EXCEPT ![h].step = "clear"]
    /\ UNCHANGED <<storeVars, login>>

Sign(h) ==
    /\ sign[h].step = "clear"
    /\ sign' = [sign EXCEPT ![h].signed = TRUE, ![h].step = "scan"]
    /\ UNCHANGED <<storeVars, login>>

\* The answer, a signature or a denial, after the last target; or the client
\* hangs up, or the service stops.
SignEnd(h) ==
    /\ sign[h].step # "idle"
    /\ sign' = [sign EXCEPT ![h] = NoRequest]
    /\ UNCHANGED <<storeVars, login>>

-----------------------------------------------------------------------------
(* managedAuth *)

\* CheckLocked.  Explicit credentials (a password that the user just typed, the
\* vault session of `cloud connect` or of an MCP call) end managedAuth here: the
\* store is not opened, so its list of disabled targets is not read.
LoginBegin(c, t, explicit) ==
    /\ login[c].step = "idle"
    /\ ~locked
    /\ login' = [login EXCEPT ![c] =
                    [step |-> IF explicit THEN "end" ELSE "open",
                     t |-> t, explicit |-> explicit,
                     auth |-> IF explicit THEN {Fallback} ELSE {},
                     seen |-> Offers(store, locked, t)]]
    /\ UNCHANGED <<storeVars, sign>>

\* Mutation of LoginResolve: a locked store counts as one without credentials.
LoginResolveAround(c) ==
    LET res == Open(files, login[c].t)
    IN /\ login[c].step = "open"
       /\ holder = NoProc
       /\ login' = [login EXCEPT
                      ![c].step = "end",
                      ![c].auth = IF res.code = "ok" THEN res.cs ELSE {Fallback}]
       /\ UNCHANGED <<storeVars, sign>>

\* Enabled and Resolve: ErrNotFound leaves the choice to the other
\* authentication methods, every other error ends the attempt.
LoginResolve(c) ==
    LET res == Open(files, login[c].t)
    IN /\ login[c].step = "open"
       /\ holder = NoProc
       /\ login' = [login EXCEPT
                      ![c].step = "end",
                      ![c].auth = CASE res.code = "ok" -> res.cs
                                    [] res.code = "notFound" -> {Fallback}
                                    [] OTHER -> {}]
       /\ UNCHANGED <<storeVars, sign>>

LoginEnd(c) ==
    /\ login[c].step = "end"
    /\ login' = [login EXCEPT ![c] = NoAttempt]
    /\ UNCHANGED <<storeVars, sign>>

-----------------------------------------------------------------------------
Agent(h) == \/ \E k \in Keys : SignBegin(h, k)
            \/ \E t \in Targets : Scan(h, t)
            \/ SignCheck(h) \/ Sign(h) \/ SignEnd(h)
Client(c) == \/ \E t \in Targets, explicit \in BOOLEAN : LoginBegin(c, t, explicit)
             \/ LoginResolve(c) \/ LoginEnd(c)

Next == \/ StoreNext /\ Observed
        \/ \E h \in Handlers : Agent(h)
        \/ \E c \in Clients : Client(c)

Spec == Init /\ [][Next]_vars

-----------------------------------------------------------------------------
(* Properties *)

\* The agent signs only with a key that some active target of the unlocked
\* store held at a moment after the request arrived: not for a request that
\* comes after `service lock`, nor with the key of a target disabled before.
SignedWhileOffered == \A h \in Handlers : sign[h].signed => sign[h].key \in sign[h].seen

\* A connection whose caller brings no credentials of its own uses those of
\* its target, or goes around the store, only if the store offered just that at
\* a moment of the attempt: neither an explicit lock nor an accepted deletion is
\* bypassed.  Explicit credentials respect the lock alone; with them a disabled
\* target is connected to.
LoginWhileOffered ==
    \A c \in Clients : ~login[c].explicit => login[c].auth \subseteq login[c].seen
=============================================================================
