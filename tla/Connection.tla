----------------------------- MODULE Connection -----------------------------
(***************************************************************************)
(* Opening, using and closing an SSH connection (internal/ssh): Dial with  *)
(* its credentials, its route (a proxy command, one jump host, a SOCKS     *)
(* proxy or none), the handshake under a timer, trust on first use in      *)
(* known_hosts, the direct fallback, the sessions on the connection, and   *)
(* ProbeRoute.                                                             *)
(*                                                                         *)
(* Dials run concurrently, in one process or in several: the processes     *)
(* share the file known_hosts and each has a lock of its own for pinning.  *)
(* The network, the servers and the agent may fail at every step.          *)
(***************************************************************************)
EXTENDS SequencesExt

CONSTANTS Dials,       \* calls of Dial and ProbeRoute
          Procs,       \* processes
          Placements,  \* the process each call runs in: the ways considered
          Hosts, NoHost,
          Keys, NoKey, \* host keys
          Algorithm,   \* of a host key
          Default,     \* the library's order of the algorithms
          Backends,    \* the machines behind a host: sets of the keys they hold
          Pinned,      \* known_hosts at the start: the keys of a host, in order
          Asked        \* what each call is asked to do: the ways considered

Kind == {"command", "jump", "socks", "direct"}
Auth == {"managed", "password", "key", "agentkey", "agent", "signers"}
Hop  == {"target", "jump"}

\* A call: the target and its configured route, whether the SOCKS address of
\* that route parses, the jump host with its route, whether the environment
\* names a SOCKS proxy, StrictRoute, whether the
\* target or its jump host is a cloud binding ("session": of an approved MCP
\* session, "cli": of `cloud connect'), the authentication of each hop,
\* Insecure, and whether it is ProbeRoute.
Plan == [host : Hosts, route : Kind, parses : BOOLEAN, jump : Hosts \cup {NoHost},
         jroute : Kind \ {"jump"}, env : BOOLEAN, strict : BOOLEAN, vault : {"no", "session", "cli"}, jvault : BOOLEAN,
         auth : Auth, jauth : Auth, insecure : BOOLEAN, probe : BOOLEAN]

ASSUME ConnectionAssumption ==
    /\ Placements \subseteq [Dials -> Procs]
    /\ NoHost \notin Hosts /\ NoKey \notin Keys
    /\ Default \in Seq(Range(Default)) /\ Algorithm \in [Keys -> Range(Default)]
    /\ Backends \in [Hosts -> SUBSET ((SUBSET Keys) \ {{}})]
    /\ Pinned \in [Hosts -> Seq(Keys)]
    /\ Asked \subseteq [Dials -> Plan]
    /\ \A f \in Asked : \A d \in Dials : f[d].route = "jump" => f[d].jump \in Hosts \ {f[d].host}

VARIABLES known,   \* known_hosts: the keys pinned for a host, in file order
          mu,      \* appendMu of a process: the dial that holds it, or "free"
          dial     \* the calls

vars == <<known, mu, dial>>

\* What a call holds open, on which hop: the decrypted vault, agent sockets
\* behind the vault's signers, the agent socket of its own authentication,
\* the transport and the process behind it, the SSH connection, its sessions,
\* and the local terminal in raw mode.
Resource == Hop \X {"vault", "signers", "agent", "conn", "process", "ssh", "observe", "session", "raw"}
T(r) == <<"target", r>>
J(r) == <<"jump", r>>

Steps == {"idle", "resolve", "auth", "config", "transport", "resolvejump", "shake", "check", "lock",
          "recheck", "append", "login", "connect", "banner", "discover", "observe",
          "open", "exec", "attached", "opening", "terminal", "broken", "failed", "closed"}

TypeOK ==
    /\ known \in [Hosts -> Seq(Keys)]
    /\ mu \in [Procs -> Dials \cup {"free"}]
    /\ dial \in [Dials -> [plan : Plan, proc : Procs, pc : Steps, hop : Hop, forced : BOOLEAN,
                           kind : [Hop -> Kind \cup {"none"}],
                           prefer : [Hop -> SUBSET Range(Default)],
                           key : Keys \cup {NoKey}, expired : BOOLEAN,
                           open : SUBSET Resource, owned : SUBSET Resource,
                           refused : SUBSET Hosts]]

Init ==
    /\ known = Pinned
    /\ mu = [p \in Procs |-> "free"]
    /\ \E plan \in Asked, procOf \in Placements :
         dial = [d \in Dials |->
           [plan |-> plan[d], proc |-> procOf[d], pc |-> "idle", hop |-> "target", forced |-> FALSE,
            kind |-> [h \in Hop |-> "none"], prefer |-> [h \in Hop |-> {}], key |-> NoKey,
            expired |-> FALSE, open |-> {}, owned |-> {}, refused |-> {}]]

-----------------------------------------------------------------------------
(* Helpers.                                                                *)

HostOf(x) == IF x.hop = "jump" THEN x.plan.jump ELSE x.plan.host
AuthOf(x) == IF x.hop = "jump" THEN x.plan.jauth ELSE x.plan.auth
Here(x, r) == <<x.hop, r>>

Goto(x, pc) == [x EXCEPT !.pc = pc]
Opened(x, R) == [x EXCEPT !.open = @ \cup R]
Dropped(x, R) == [x EXCEPT !.open = @ \ R]

\* The io.Closer BuildClientConfig returned for a hop.
Closer(x, h) == x.owned \cap {<<h, "agent">>, <<h, "signers">>}
\* Closing a transport ends the proxy command behind it and waits for it.
CloseConn(h) == {<<h, "conn">>, <<h, "process">>}
\* Closing an SSH connection ends its sessions and closes its transport.
CloseSSH(h) == CloseConn(h) \cup {<<h, "ssh">>, <<h, "session">>, <<h, "observe">>}
\* The multiCloser of dialViaJump.
Aux(x) == CloseSSH("jump") \cup Closer(x, "jump")

\* Mutation of StrictRoute: a resolved cloud binding is not made strict.
StrictAsAsked(x) == x.plan.strict
\* StrictRoute of the options, which a resolved cloud binding sets; the
\* options of the jump host inherit it, or set it for a binding of its own.
StrictRoute(x) == x.plan.strict \/ x.plan.vault = "session" \/ (x.hop = "jump" /\ x.plan.jvault)

\* parseSocksAddr: an address that does not parse is no proxy.
Configured(plan) == IF plan.route = "socks" /\ ~plan.parses THEN "direct" ELSE plan.route

\* resolveRouteTransportKind: the configured route, or the environment's
\* proxy, or none; and the direct retry, which a strict route does not know.
RouteKind(x) ==
    LET configured == IF x.hop = "jump" THEN x.plan.jroute ELSE Configured(x.plan)
    IN  IF x.forced /\ x.hop = "target" /\ ~StrictRoute(x) THEN "direct"
        ELSE IF configured = "direct" /\ x.plan.env /\ ~StrictRoute(x) THEN "socks"
        ELSE configured

\* knownhosts: of the lines for a host, the first of each algorithm counts.
Match(keys, k) ==
    \E i \in 1..Len(keys) : /\ keys[i] = k
                            /\ \A j \in 1..(i - 1) : Algorithm[keys[j]] # Algorithm[k]

\* The place of an algorithm in the library's order.
Place(a) == CHOOSE i \in 1..Len(Default) : Default[i] = a
\* Mutation of Order: the algorithms known for the host get no preference.
DefaultOrder(prefer, a, b) == Place(a) <= Place(b)
\* preferredHostKeyAlgorithms: those in known_hosts first, then the others.
Order(prefer, a, b) ==
    IF a \in prefer <=> b \in prefer THEN Place(a) <= Place(b) ELSE a \in prefer
\* The key a machine presents: of the first algorithm the client asks for
\* that it has a key of.
Negotiated(prefer, machine) ==
    CHOOSE k \in machine : \A l \in machine : Order(prefer, Algorithm[k], Algorithm[l])

-----------------------------------------------------------------------------
(* The ends of an attempt. Each releases what the code on that path does.  *)

\* Dial fails: its closer is closed and the vault's cleanup runs.
DialFails(x) == Goto(Dropped(x, Closer(x, "target") \cup {T("vault")}), "failed")

\* A proxy or a jump host failed: one direct attempt, unless the route is
\* strict. ProbeRoute makes one attempt only.
AttemptFails(x) ==
    LET y == [x EXCEPT !.hop = "target", !.key = NoKey, !.expired = FALSE]
    IN  IF y.kind["target"] # "direct" /\ ~StrictRoute(y) /\ ~y.plan.probe
        THEN [y EXCEPT !.pc = "transport", !.forced = TRUE]
        ELSE DialFails(y)

\* dialViaJump returns an error before its closer exists.
JumpFails(x) == AttemptFails(Dropped(x, {J("vault")}))
\* ... and after: every path out of it closes what it opened.
JumpTransportFails(x) == AttemptFails(Dropped(x, Closer(x, "jump") \cup {J("vault")}))
JumpHandshakeFails(x) ==
    AttemptFails(Dropped(x, CloseConn("jump") \cup {J("vault")} \cup Closer(x, "jump")))
\* Mutation of JumpConnectFails: the jump host's agent socket is forgotten.
JumpConnectFailsOpen(x) == AttemptFails(Dropped(x, CloseSSH("jump") \cup {J("vault")}))
JumpConnectFails(x) ==
    AttemptFails(Dropped(x, CloseSSH("jump") \cup {J("vault")} \cup Closer(x, "jump")))
TargetHandshakeFails(x) == AttemptFails(Dropped(x, CloseConn("target") \cup Aux(x)))

HandshakeFails(x) == IF x.hop = "jump" THEN JumpHandshakeFails(x) ELSE TargetHandshakeFails(x)
TransportFails(x) == IF x.hop = "jump" THEN JumpTransportFails(x) ELSE AttemptFails(x)
AuthFails(x) == IF x.hop = "jump" THEN JumpFails(x) ELSE DialFails(x)

-----------------------------------------------------------------------------
(* Credentials and configuration of a hop.                                 *)

Set(d, x) == dial' = [dial EXCEPT ![d] = x]

\* Dial is called; ProbeRoute goes straight to the transport.
Dial(d) ==
    LET x == dial[d]
    IN  /\ x.pc = "idle"
        /\ Set(d, Goto(x, IF x.plan.probe THEN "transport"
                          ELSE IF x.plan.vault # "no" THEN "resolve" ELSE "auth"))
        /\ UNCHANGED <<known, mu>>

\* resolveCloudEntry and cloudAuth: the signer of an encrypted key of the
\* entry is the agent's, over a socket of its own.
VaultSigners(x, h) ==
    IF (h = "target" /\ x.plan.auth \in {"signers", "password"}) \/ (h = "jump" /\ x.plan.jauth = "signers")
    THEN {{}, {<<h, "signers">>}} ELSE {{}}

\* CloudSession.Resolve, or the vault `cloud connect' has opened.
ResolveCloud(d) ==
    LET x == dial[d]
    IN  /\ x.pc = "resolve"
        /\ \E R \in VaultSigners(x, "target") :
             \/ Set(d, Goto(Opened(x, R \cup (IF x.plan.vault = "session" THEN {T("vault")} ELSE {})), "auth"))
             \/ Set(d, DialFails(Opened(x, R)))
        /\ UNCHANGED <<known, mu>>

\* What building the authentication of a hop may come to: a failure, or
\* success with the sockets its closer owns.
Got(R) == [ok |-> TRUE, owns |-> R]
Failed == [ok |-> FALSE, owns |-> {}]

\* agentSignerFor: of the agents that can be reached, the one that holds the
\* key; the sockets of the others are closed.
AgentSignerFor(h) == {Got({<<h, "agent">>}), Failed}
\* loadLocalAgentSigners: the identities cached for just this target and
\* binding that the agent still holds.
LocalAgentSigners(h) == {Got({<<h, "agent">>}), Failed}
\* loadKeySigner: a key file, by itself or, encrypted, through the agent.
KeySigner(h, encrypted) == IF encrypted THEN AgentSignerFor(h) ELSE {Got({}), Failed}
\* dialAgent: the first agent that can be reached.
AgentAuth(h) == {Got({<<h, "agent">>}), Failed}

\* buildAuth, after managedAuth found the store unlocked: what was supplied
\* goes first; a key that cannot be loaded leaves the cached identities.
Methods(x) ==
    CASE AuthOf(x) = "managed" -> {Got({}), Failed}
      [] AuthOf(x) = "signers" -> {Got({Here(x, "signers")})}
      [] AuthOf(x) \in {"key", "agentkey"} ->
            {r \in KeySigner(x.hop, AuthOf(x) = "agentkey") : r.ok} \cup LocalAgentSigners(x.hop)
      [] AuthOf(x) = "password" -> {Got({}), Failed}
      [] AuthOf(x) = "agent" -> AgentAuth(x.hop)

\* A locked store ends it, whatever was supplied.
BuildAuth(d) ==
    LET x == dial[d]
    IN  /\ x.pc = "auth"
        /\ \E r \in Methods(x) \cup {Failed} :
             Set(d, IF r.ok THEN Goto([Opened(x, r.owns \ {Here(x, "signers")}) EXCEPT !.owned = @ \cup r.owns], "config")
                    ELSE AuthFails(x))
        /\ UNCHANGED <<known, mu>>

\* hostKeyCallback and preferredHostKeyAlgorithms: known_hosts is read, and
\* if it cannot be, the closer is closed.
BuildClientConfig(d) ==
    LET x == dial[d]
        prefer == IF x.plan.insecure THEN {} ELSE {Algorithm[k] : k \in Range(known[HostOf(x)])}
    IN  /\ x.pc = "config"
        /\ \/ Set(d, Goto([x EXCEPT !.prefer[x.hop] = prefer], "transport"))
           \/ /\ ~x.plan.insecure
              /\ Set(d, AuthFails(Dropped(x, Closer(x, x.hop))))
        /\ UNCHANGED <<known, mu>>

-----------------------------------------------------------------------------
(* The transport.                                                          *)

\* net.DialTimeout; dialSOCKS5 under its context; dialProxyCommand, whose
\* process is started and not waited for. A process that starts proves nothing.
DialDirect(h) == {{}, {<<h, "conn">>}}
DialSOCKS5(h) == {{}, {<<h, "conn">>}}
DialProxyCommand(h) == {{}, {<<h, "conn">>, <<h, "process">>}}

\* dialTransportKind: one of these, or the jump host first.
DialTransport(d) ==
    LET x == [dial[d] EXCEPT !.kind[dial[d].hop] = RouteKind(dial[d])]
        kind == x.kind[x.hop]
        up == IF x.plan.probe /\ x.hop = "target" THEN "banner" ELSE "shake"
    IN  /\ x.pc = "transport"
        /\ \/ /\ kind = "jump"
              /\ Set(d, [x EXCEPT !.hop = "jump", !.pc = "resolvejump"])
           \/ \E R \in CASE kind = "direct" -> DialDirect(x.hop)
                          [] kind = "socks" -> DialSOCKS5(x.hop)
                          [] kind = "command" -> DialProxyCommand(x.hop)
                          [] kind = "jump" -> {} :
                Set(d, IF R = {} THEN TransportFails(x) ELSE Goto(Opened(x, R), up))
        /\ UNCHANGED <<known, mu>>

\* The jump host: from the vault of the target, or an alias or an address,
\* whose record may be a cloud binding of its own.
ResolveJump(d) ==
    LET x == dial[d]
    IN  /\ x.pc = "resolvejump"
        /\ \E R \in VaultSigners(x, "jump") :
             \/ Set(d, Goto(Opened(x, R \cup (IF x.plan.jvault THEN {J("vault")} ELSE {})), "auth"))
             \/ Set(d, JumpFails(Opened(x, R)))
        /\ UNCHANGED <<known, mu>>

-----------------------------------------------------------------------------
(* The handshake.                                                          *)

\* One of the machines behind the host answers with a key.
ServerAnswers(d) ==
    LET x == dial[d]
    IN  /\ x.pc = "shake" /\ ~x.expired
        /\ \E machine \in Backends[HostOf(x)] :
             Set(d, [x EXCEPT !.pc = "check", !.key = Negotiated(x.prefer[x.hop], machine)])
        /\ UNCHANGED <<known, mu>>

\* Mutation of Expire: the pipes of a proxy command ignore the deadline.
ExpireSocket(d) ==
    LET x == dial[d]
    IN  /\ x.pc \in {"shake", "check", "lock", "recheck", "append", "login"} /\ ~x.expired
        /\ x.kind[x.hop] # "command"
        /\ Set(d, [Dropped(x, CloseConn(x.hop)) EXCEPT !.expired = TRUE])
        /\ UNCHANGED <<known, mu>>
\* The timer of handshake closes the transport under whatever is going on.
Expire(d) ==
    LET x == dial[d]
    IN  /\ x.pc \in {"shake", "check", "lock", "recheck", "append", "login"} /\ ~x.expired
        /\ Set(d, [Dropped(x, CloseConn(x.hop)) EXCEPT !.expired = TRUE])
        /\ UNCHANGED <<known, mu>>

\* Mutation of CheckKey: a key that differs is taken for a host unknown.
CheckKeyAcceptsNew(d) ==
    LET x == dial[d]
    IN  /\ x.pc = "check"
        /\ Set(d, IF x.plan.insecure \/ Match(known[HostOf(x)], x.key) THEN Goto(x, "login") ELSE Goto(x, "lock"))
        /\ UNCHANGED <<known, mu>>
\* tofuHostKeyCallback: a key that matches is accepted, a host without a key
\* is to be pinned, any other key is refused; so is an unreadable file.
CheckKey(d) ==
    LET x == dial[d]
        keys == known[HostOf(x)]
    IN  /\ x.pc = "check"
        /\ \/ /\ x.plan.insecure \/ Match(keys, x.key)
              /\ Set(d, Goto(x, "login"))
           \/ /\ ~x.plan.insecure /\ keys = << >>
              /\ Set(d, Goto(x, "lock"))
           \/ /\ ~x.plan.insecure /\ keys # << >> /\ ~Match(keys, x.key)
              /\ Set(d, HandshakeFails([x EXCEPT !.refused = @ \cup {HostOf(x)}]))
           \/ /\ ~x.plan.insecure
              /\ Set(d, HandshakeFails(x))
        /\ UNCHANGED <<known, mu>>

\* appendKnownHost: the lock of this process, ...
LockPin(d) ==
    LET x == dial[d]
    IN  /\ x.pc = "lock" /\ mu[x.proc] = "free"
        /\ mu' = [mu EXCEPT ![x.proc] = d]
        /\ Set(d, Goto(x, "recheck"))
        /\ UNCHANGED known

\* ... another look at the file, ...
Recheck(d) ==
    LET x == dial[d]
        pinned == Match(known[HostOf(x)], x.key)
    IN  /\ x.pc = "recheck"
        /\ mu' = [mu EXCEPT ![x.proc] = IF pinned THEN "free" ELSE @]
        /\ Set(d, Goto(x, IF pinned THEN "login" ELSE "append"))
        /\ UNCHANGED known

\* ... and a line at its end, or an error.
AppendKnownHost(d) ==
    LET x == dial[d]
    IN  /\ x.pc = "append"
        /\ mu' = [mu EXCEPT ![x.proc] = "free"]
        /\ \/ /\ known' = [known EXCEPT ![HostOf(x)] = Append(@, x.key)]
              /\ Set(d, Goto(x, "login"))
           \/ /\ UNCHANGED known
              /\ Set(d, HandshakeFails(x))

\* Authentication succeeds before the timer fires. The use of the alias is
\* recorded; the jump host then opens the connection to the target.
LoggedIn(d) ==
    LET x == dial[d]
    IN  /\ x.pc = "login" /\ ~x.expired
        /\ Set(d, Goto(Opened(x, {Here(x, "ssh")}), IF x.hop = "jump" THEN "connect" ELSE "discover"))
        /\ UNCHANGED <<known, mu>>

\* The server hangs up or refuses every credential.
ServerRefuses(d) ==
    LET x == dial[d]
    IN  /\ x.pc \in {"shake", "login"} /\ ~x.expired
        /\ Set(d, HandshakeFails(x))
        /\ UNCHANGED <<known, mu>>

\* handshake returns DeadlineExceeded, though the library may have finished.
HandshakeExpired(d) ==
    LET x == dial[d]
    IN  /\ x.pc \in {"shake", "login"} /\ x.expired
        /\ Set(d, HandshakeFails(x))
        /\ UNCHANGED <<known, mu>>

\* The target through the jump host, in time or not; dialViaJump returns, so
\* the jump host's vault is closed.
JumpConnect(d) ==
    LET x == dial[d]
        through == Opened(Dropped(x, {J("vault")}), {T("conn")})
    IN  /\ x.pc = "connect"
        /\ \/ Set(d, [through EXCEPT !.hop = "target", !.key = NoKey,
                                     !.pc = IF x.plan.probe THEN "banner" ELSE "shake"])
           \/ Set(d, JumpConnectFails(x))
        /\ UNCHANGED <<known, mu>>

\* ProbeRoute: a proxy command must show an SSH banner before the context
\* ends and closes the process; then everything is closed.
ProbeEnds(d) ==
    LET x == dial[d]
    IN  /\ x.pc = "banner"
        /\ Set(d, Goto(Dropped(x, CloseConn("target") \cup Aux(x)), "closed"))
        /\ UNCHANGED <<known, mu>>

-----------------------------------------------------------------------------
(* The connection in use.                                                  *)

\* Dial returns: the cleanup of the vault runs.
Returned(x) == Goto(Dropped(x, {T("vault")}), "open")

\* detectManagedPlatform asks the host in a session of its own, unless told
\* not to or the answer is recent; it waits at most for its context.
Discover(d) ==
    LET x == dial[d]
    IN  /\ x.pc = "discover"
        /\ \/ Set(d, Returned(x))
           \/ Set(d, Goto(Opened(x, {T("observe")}), "observe"))
        /\ UNCHANGED <<known, mu>>

\* The answer, or the end of the context; the session may still be opening.
Observed(d) ==
    LET x == dial[d]
    IN  /\ x.pc = "observe"
        /\ \/ Set(d, Returned(Dropped(x, {T("observe")})))
           \/ Set(d, Returned(x))
        /\ UNCHANGED <<known, mu>>

Using == {"open", "exec", "attached", "opening", "terminal", "broken"}
\* The session that was opened too late is closed at once.
ObservedLate(d) ==
    LET x == dial[d]
    IN  /\ x.pc \in Using /\ T("observe") \in x.open
        /\ Set(d, Dropped(x, {T("observe")}))
        /\ UNCHANGED <<known, mu>>

\* Exec, and StreamExec: the command runs in a session of its own; it ends,
\* or its context does, and either way the session is closed first.
Exec(d) ==
    LET x == dial[d]
    IN  /\ x.pc = "open"
        /\ Set(d, Goto(Opened(x, {T("session")}), "exec"))
        /\ UNCHANGED <<known, mu>>
ExecEnds(d) ==
    LET x == dial[d]
    IN  /\ x.pc = "exec"
        /\ Set(d, Goto(Dropped(x, {T("session")}), "open"))
        /\ UNCHANGED <<known, mu>>

\* attachInteractive: the local terminal is raw from before the remote one
\* is asked for until every way out.
Attach(d) ==
    LET x == dial[d]
    IN  /\ x.pc = "open"
        /\ Set(d, Goto(Opened(x, {T("session"), T("raw")}), "attached"))
        /\ UNCHANGED <<known, mu>>
AttachEnds(d) ==
    LET x == dial[d]
    IN  /\ x.pc = "attached"
        /\ Set(d, Goto(Dropped(x, {T("session"), T("raw")}), "open"))
        /\ UNCHANGED <<known, mu>>

\* OpenTerminal: a watcher closes the transport when the context ends during
\* the setup, and only the transport: the owner still closes the client.
OpenTerminal(d) ==
    LET x == dial[d]
    IN  /\ x.pc = "open"
        /\ Set(d, Goto(Opened(x, {T("session")}), "opening"))
        /\ UNCHANGED <<known, mu>>
TerminalStarts(d) ==
    LET x == dial[d]
    IN  /\ x.pc = "opening"
        /\ \/ Set(d, Goto(x, "terminal"))
           \/ Set(d, Goto(Dropped(x, {T("session")}), "open"))
           \/ Set(d, Goto(Dropped(x, CloseSSH("target")), "broken"))
        /\ UNCHANGED <<known, mu>>

\* Client.Close, and TerminalStream.Close with its session: the connection
\* with its sessions, the closer of the credentials and the jump host's.
Close(d) ==
    LET x == dial[d]
    IN  /\ x.pc \in {"open", "terminal", "broken"}
        /\ Set(d, Goto(Dropped(x, CloseSSH("target") \cup Closer(x, "target") \cup Aux(x)), "closed"))
        /\ UNCHANGED <<known, mu>>

-----------------------------------------------------------------------------
\* What a call does without waiting for a server to answer. An agent is
\* assumed to answer: neither listing nor signing has a deadline during the
\* handshake, and the timer does not close the agent's socket.
Computes(d) ==
    \/ ResolveCloud(d) \/ BuildAuth(d) \/ BuildClientConfig(d)
    \/ DialTransport(d) \/ ResolveJump(d)
    \/ CheckKey(d) \/ LockPin(d) \/ Recheck(d) \/ AppendKnownHost(d)
    \/ HandshakeExpired(d) \/ JumpConnect(d) \/ ProbeEnds(d)
    \/ Discover(d) \/ Observed(d)

Next ==
    \E d \in Dials :
        \/ Dial(d) \/ Computes(d) \/ Expire(d)
        \/ ServerAnswers(d) \/ ServerRefuses(d) \/ LoggedIn(d)
        \/ ObservedLate(d) \/ Exec(d) \/ ExecEnds(d) \/ Attach(d) \/ AttachEnds(d)
        \/ OpenTerminal(d) \/ TerminalStarts(d) \/ Close(d)

Fairness == \A d \in Dials : WF_vars(Computes(d)) /\ WF_vars(Expire(d))

Spec == Init /\ [][Next]_vars
FairSpec == Spec /\ Fairness

-----------------------------------------------------------------------------
(* Properties.                                                             *)

Ended(x) == x.pc \in {"failed", "closed"}

\* A call that failed, at whatever step and after however many attempts, and
\* a connection that was closed, hold no transport, no process, no SSH
\* connection, no session, no raw terminal, no decrypted vault and no agent
\* socket of their own
\* (Dial, dialViaJump, Client.Close). The sockets behind a vault's signers
\* are left out: a password entry with an encrypted key leaves them open.
Released ==
    \A d \in Dials : Ended(dial[d]) => dial[d].open \subseteq {T("signers"), J("signers")}

\* A strict call, and every call for a cloud binding, never even tries a way
\* to its target, or to its jump host, other than the configured one: no
\* proxy of the environment and no direct retry (StrictRoute).
StrictRouteKept ==
    \A d \in Dials :
        LET x == dial[d]
        IN  (x.plan.strict \/ x.plan.vault = "session")
                => /\ x.kind["target"] \in {"none", Configured(x.plan)}
                   /\ x.kind["jump"] \in {"none", x.plan.jroute}
                   /\ x.pc = "open" /\ x.plan.route = "jump" => x.kind["jump"] = x.plan.jroute

\* A host that was in known_hosts at the start gains no key, whatever the
\* machines behind it present, and a verified hop is logged in to with a key
\* of that list only (tofuHostKeyCallback, appendKnownHost).
PinsStand ==
    /\ \A h \in Hosts : Pinned[h] # << >> => known[h] = Pinned[h]
    /\ \A d \in Dials :
         LET x == dial[d]
         IN  (x.pc \in {"login", "connect", "discover"} /\ ~x.plan.insecure /\ x.key # NoKey)
                 => x.key \in Range(known[HostOf(x)])

\* A host with one machine is never refused while that machine still holds a
\* key that is in known_hosts, although it presents only one of its keys and
\* concurrent dials pin (preferredHostKeyAlgorithms).
KnownServerAccepted ==
    \A d \in Dials : \A h \in dial[d].refused : \A machine \in Backends[h] :
        Backends[h] = {machine} => machine \cap Range(known[h]) = {}

\* Every call returns, with a connection or an error, though servers may stay
\* silent for ever and dials wait for one another's pinning (handshake).
DialReturns ==
    \A d \in Dials :
        dial[d].pc = "resolve" \/ dial[d].pc = "auth" \/ dial[d].pc = "transport"
            ~> dial[d].pc \in {"open", "failed", "closed"}
=============================================================================
