------------------------------ MODULE Terminal ------------------------------
(***************************************************************************)
(* Encrypted terminals: the relay of the cloud worker (relay.ts), the      *)
(* agent a device keeps connected to it (cloudagent) and the clients that  *)
(* open terminals through it (OpenDeviceTerminal, the browser page).       *)
(*                                                                         *)
(* The account has one device that runs the agent and, for every session,  *)
(* one client; a session identifier is random and belongs to one attempt.  *)
(* WebSockets deliver in order until they break. The relay handles a       *)
(* message in one step, except that verifying the signature of an `open'   *)
(* yields, so the handler is two steps and everything may happen between.  *)
(***************************************************************************)
EXTENDS Naturals, FiniteSets, SequencesExt

CONSTANTS Sessions,      \* session identifiers, one client each
          Host,          \* the device whose agent serves terminals
          InputCap,      \* frames that wait for the process (32 in agent.go)
          Inputs,        \* inputs the user of a session types at most
          Outputs,       \* outputs the process of a session writes at most
          MaxEpoch,      \* bound: agent connections
          MaxFaults      \* bound: broken connections, revocations and expiries

ASSUME TerminalAssumption ==
    /\ IsFiniteSet(Sessions) /\ Host \notin Sessions
    /\ InputCap \in Nat
    /\ Inputs \in [Sessions -> Nat] /\ Outputs \in [Sessions -> Nat]
    /\ MaxEpoch \in Nat /\ MaxFaults \in Nat

VARIABLES relay,      \* the sockets, what it sent on them, who is authorised
          agent,      \* the agent's connection
          sess,       \* the agent's sessions with their terminals
          client,     \* the clients
          toRelay,    \* what each client sent and the relay has not read
          fromAgent,  \* what the agent sent and the relay has not read
          faults      \* faults so far

vars == <<relay, agent, sess, client, toRelay, fromAgent, faults>>

-----------------------------------------------------------------------------
(* Messages. A frame carries the sender's counter, which its ciphertext    *)
(* authenticates, and the payload; `gone' and `eof' are the close events   *)
(* the relay and its peers observe.                                        *)

Frame(s, seq, body, n) == [type |-> "frame", session |-> s, seq |-> seq, body |-> body, n |-> n]
Control(type, s) == [type |-> type, session |-> s, seq |-> 0, body |-> "none", n |-> 0]
Message == [type : {"open", "frame", "close", "gone", "eof"}, session : Sessions \cup {Host},
            seq : Nat, body : {"none", "shell", "ssh", "legacy", "select", "connect", "ready", "input", "output", "error"},
            n : Nat]

-----------------------------------------------------------------------------
(* The relay.                                                              *)

\* valid(): the device still holds the session it connected with, and the
\* socket was heard from in the last ninety seconds.
BrowserValid(r, s) == r.b[s].fresh /\ s \in r.ok
\* agent(): the device's agent socket, if it is open and valid.
AgentValid(r) == r.a.sock = "open" /\ r.a.fresh /\ Host \in r.ok

ToAgent(r, m) == IF AgentValid(r) THEN [r EXCEPT !.toAgent = Append(@, m)] ELSE r

\* ws.close() on clients' sockets: each reads what was sent before, then the end.
HangUp(r, S) ==
    LET live == {s \in S : r.b[s].sock = "open"}
    IN  [r EXCEPT !.b = [s \in Sessions |->
                            IF s \in live THEN [r.b[s] EXCEPT !.sock = "closed"] ELSE r.b[s]],
                  !.toClient = [s \in Sessions |->
                            IF s \in live THEN Append(r.toClient[s], Control("eof", s))
                            ELSE r.toClient[s]]]

\* closed() for a client: its agent is told, once a target is attached.
BrowserClosed(r, s) ==
    IF r.b[s].epoch # 0 THEN ToAgent(r, Control("close", s)) ELSE r
DropBrowser(r, s) == HangUp(BrowserClosed(r, s), {s})

\* closed() for an agent: the clients of that connection are hung up.
AgentClosed(r) ==
    HangUp([r EXCEPT !.a.sock = "closed"], {s \in Sessions : r.b[s].epoch = r.a.epoch})
DropAgent(r) == [AgentClosed(r) EXCEPT !.toAgent = Append(@, Control("eof", Host))]

\* prune(): every open socket that is no longer valid is closed.
Prune(r) ==
    LET r1  == IF r.a.sock = "open" /\ ~AgentValid(r) THEN DropAgent(r) ELSE r
        bad == {s \in Sessions : r1.b[s].sock = "open" /\ ~BrowserValid(r1, s)}
        told == IF AgentValid(r1) THEN {s \in bad : r1.b[s].epoch # 0} ELSE {}
    IN  HangUp([r1 EXCEPT !.toAgent = @ \o SetToSeq({Control("close", s) : s \in told})], bad)

\* upgrade() for an agent, after its token was accepted: the sockets that
\* ended are pruned, and one agent of a device is connected at a time.
UpgradeAgent(r, epoch) ==
    IF AgentValid(Prune(r)) THEN Prune(r)
    ELSE [Prune(r) EXCEPT !.a = [epoch |-> epoch, sock |-> "open", fresh |-> TRUE],
                          !.toAgent = << >>]

\* upgrade() for a client: one socket per session; sockets beyond the ones
\* modelled here may already be eight, the limit.
UpgradeBrowser(r, s, full) ==
    IF full \/ Prune(r).b[s].sock # "none" THEN Prune(r)
    ELSE [Prune(r) EXCEPT !.b[s] = [epoch |-> 0, sock |-> "open", fresh |-> TRUE,
                                    verify |-> 0, mode |-> "none"]]

\* message() with an `open': the agent connection it was signed for is there;
\* the signature is then verified, which yields.
OpenAsked(r, m) ==
    LET s == m.session
    IN  IF AgentValid(r) /\ r.a.epoch = m.seq /\ r.b[s].epoch = 0
        THEN [r EXCEPT !.b[s].verify = m.seq, !.b[s].mode = m.body]
        ELSE DropBrowser(r, s)

\* Mutation of OpenVerified: what was checked before the yield is trusted.
OpenVerifiedOnce(r, s) ==
    [ r EXCEPT !.b[s].verify = 0, !.b[s].epoch = r.b[s].verify,
               !.toAgent = Append(@, [Control("open", s) EXCEPT !.seq = r.b[s].verify,
                                                               !.body = r.b[s].mode])]
\* The rest of the handler: the client is still authorised and the agent is
\* still the one that was there before the yield.
OpenVerified(r, s) ==
    LET e == r.b[s].verify
        r1 == [r EXCEPT !.b[s].verify = 0]
    IN  IF s \in r.ok /\ AgentValid(r) /\ r.a.epoch = e
        THEN ToAgent([r1 EXCEPT !.b[s].epoch = e], [Control("open", s) EXCEPT !.seq = e, !.body = r.b[s].mode])
        ELSE DropBrowser(r1, s)

\* message() of an attached client.
BrowserSays(r, m) ==
    LET s == m.session
    IN  IF r.b[s].epoch = 0 \/ ~AgentValid(r) THEN DropBrowser(r, s)
        ELSE IF m.type = "frame" THEN ToAgent(r, m)
        ELSE IF m.type = "close" THEN HangUp(ToAgent(r, m), {s})
        ELSE DropBrowser(r, s)

\* message() of the agent: routed to the client of this connection and session.
AgentSays(r, m) ==
    LET s == m.session
        said == [r EXCEPT !.toClient[s] = Append(@, m)]
    IN  IF ~(r.b[s].sock = "open" /\ r.b[s].epoch = r.a.epoch /\ BrowserValid(r, s)) THEN r
        ELSE IF m.type = "frame" THEN said
        ELSE HangUp(said, {s})

\* Mutation of BrowserGone: the agent is not told.
BrowserGoneSilently(r, s) == [r EXCEPT !.b[s].sock = "gone"]
\* webSocketClose / webSocketError of a client.
BrowserGone(r, s) == [BrowserClosed(r, s) EXCEPT !.b[s].sock = "gone"]

\* webSocketMessage of a client's socket.
RelayReadsClient(s) ==
    /\ toRelay[s] # << >>
    /\ LET m == Head(toRelay[s])
       IN  relay' = CASE m.type = "gone" -> BrowserGone(relay, s)
                      [] m.type # "gone" /\ relay.b[s].sock # "open" -> relay
                      [] m.type # "gone" /\ relay.b[s].sock = "open" ->
                           IF ~BrowserValid(relay, s) THEN DropBrowser(relay, s)
                           ELSE IF m.type = "open" THEN OpenAsked(relay, m)
                           ELSE BrowserSays(relay, m)
    /\ toRelay' = [toRelay EXCEPT ![s] = Tail(@)]
    /\ UNCHANGED <<agent, sess, client, fromAgent, faults>>

\* webSocketMessage of a client's socket, resumed after the verification.
RelayVerifies(s) ==
    /\ relay.b[s].verify # 0
    /\ relay' = OpenVerified(relay, s)
    /\ UNCHANGED <<agent, sess, client, toRelay, fromAgent, faults>>

\* webSocketMessage of the agent's socket.
RelayReadsAgent ==
    /\ fromAgent # << >>
    /\ LET m == Head(fromAgent)
       IN  relay' = CASE relay.a.sock # "open" -> relay
                      [] relay.a.sock = "open" ->
                           IF m.type = "gone" THEN AgentClosed(relay)
                           ELSE IF AgentValid(relay) THEN AgentSays(relay, m)
                           ELSE DropAgent(relay)
    /\ fromAgent' = Tail(fromAgent)
    /\ UNCHANGED <<agent, sess, client, toRelay, faults>>

\* The pings of both ends, every 25 seconds: one that arrives on a socket that
\* is no longer valid ends it; any other leaves the socket as it is.
RelayPinged ==
    /\ \/ /\ relay.a.sock = "open" /\ ~AgentValid(relay)
          /\ agent.conn /\ agent.epoch = relay.a.epoch
          /\ relay' = DropAgent(relay)
       \/ \E s \in Sessions :
             /\ relay.b[s].sock = "open" /\ ~BrowserValid(relay, s)
             /\ client[s].pc \notin {"idle", "found", "closed"}
             /\ relay' = DropBrowser(relay, s)
    /\ UNCHANGED <<agent, sess, client, toRelay, fromAgent, faults>>

\* Ninety seconds of silence: the peer is gone and the relay was not told.
SocketStale ==
    /\ \/ /\ relay.a.sock = "open" /\ relay.a.fresh
          /\ ~(agent.conn /\ agent.epoch = relay.a.epoch)
          /\ relay' = [relay EXCEPT !.a.fresh = FALSE]
       \/ \E s \in Sessions :
             /\ relay.b[s].sock = "open" /\ relay.b[s].fresh /\ client[s].pc = "closed"
             /\ relay' = [relay EXCEPT !.b[s].fresh = FALSE]
    /\ UNCHANGED <<agent, sess, client, toRelay, fromAgent, faults>>

\* save() after a device was removed, its session replaced or the root rotated.
Revoke(x) ==
    /\ faults < MaxFaults /\ x \in relay.ok
    /\ relay' = Prune([relay EXCEPT !.ok = @ \ {x}])
    /\ faults' = faults + 1
    /\ UNCHANGED <<agent, sess, client, toRelay, fromAgent>>

\* A device session reaches its expiry; nothing runs at that moment.
Expire(x) ==
    /\ faults < MaxFaults /\ x \in relay.ok
    /\ relay' = [relay EXCEPT !.ok = @ \ {x}]
    /\ faults' = faults + 1
    /\ UNCHANGED <<agent, sess, client, toRelay, fromAgent>>

-----------------------------------------------------------------------------
(* The agent. A session's terminal is owned by a goroutine: it starts the  *)
(* process (or dials the server), attaches it to the session, announces it *)
(* and copies its output. `g' is where that goroutine is.                  *)

NoSession ==
    [state |-> "none", epoch |-> 0, legacy |-> FALSE, started |-> FALSE, recv |-> 0, send |-> 0, input |-> << >>,
     pty |-> FALSE, g |-> "none", tty |-> "none", wrote |-> << >>, made |-> 0]

\* send(): one message on the connection the session was opened on.
OnLine(s) == agent.conn /\ agent.epoch = sess[s].epoch
Say(s, ms) == IF OnLine(s) THEN fromAgent \o ms ELSE fromAgent

\* closeSession() and close(): the session leaves the table, and the terminal
\* is closed if it is attached by now.
Close(x) ==
    IF x.state # "live" THEN x
    ELSE [x EXCEPT !.state = "closed", !.tty = IF x.pty THEN "dead" ELSE @]
CloseSession(s) == sess' = [sess EXCEPT ![s] = Close(@)]

\* Mutation of AttachTo: the session's closed flag is not looked at.
AttachAnyway(x) == [x EXCEPT !.pty = TRUE, !.g = "hello"]
\* attach(): a terminal that comes too late is closed by the one who made it.
AttachTo(x) ==
    IF x.state = "closed" THEN [x EXCEPT !.tty = "dead", !.g = "done"]
    ELSE [x EXCEPT !.pty = TRUE, !.g = "hello"]

\* payload(): sealed and sent under one lock.
Sealed(s, x, body) == <<Frame(s, x.send, body, IF body = "output" THEN x.made + 1 ELSE 0)>>

\* The deferred part of connectPath: every session of the connection is closed,
\* and the socket.
EndConnection(sent) ==
    /\ agent' = [agent EXCEPT !.conn = FALSE]
    /\ sess' = [s \in Sessions |-> IF OnLine(s) THEN Close(sess[s]) ELSE sess[s]]
    /\ fromAgent' = sent

\* servePath: a refused token ends the agent, anything else is tried again.
AgentRefused ==
    /\ ~agent.conn /\ ~agent.stopped /\ Host \notin relay.ok
    /\ agent' = [agent EXCEPT !.stopped = TRUE]
    /\ UNCHANGED <<relay, sess, client, toRelay, fromAgent, faults>>

AgentConnects ==
    /\ ~agent.conn /\ ~agent.stopped /\ Host \in relay.ok /\ agent.epoch < MaxEpoch
    /\ LET e == agent.epoch + 1
       IN  /\ relay' = UpgradeAgent(relay, e)
           /\ relay'.a.epoch = e
           /\ agent' = [agent EXCEPT !.epoch = e, !.conn = TRUE]
    /\ fromAgent' = << >>
    /\ UNCHANGED <<sess, client, toRelay, faults>>

\* The relay accepted, but the dial failed before its answer arrived.
AgentConnectLost ==
    /\ ~agent.conn /\ ~agent.stopped /\ Host \in relay.ok /\ agent.epoch < MaxEpoch
    /\ faults < MaxFaults /\ faults' = faults + 1
    /\ LET e == agent.epoch + 1
       IN  /\ relay' = UpgradeAgent(relay, e)
           /\ relay'.a.epoch = e
           /\ agent' = [agent EXCEPT !.epoch = e]
    /\ fromAgent' = << >>
    /\ UNCHANGED <<sess, client, toRelay>>

\* The connection breaks: the relay is told, or hears nothing more.
AgentLosesConnection ==
    /\ agent.conn
    /\ faults < MaxFaults /\ faults' = faults + 1
    /\ \E told \in BOOLEAN : EndConnection(IF told THEN <<Control("gone", Host)>> ELSE << >>)
    /\ UNCHANGED <<relay, client, toRelay>>

\* runCloudAgent ends: the user stops it, or its synchronization finds another
\* session in the state file; the agent's context is cancelled and waited for.
AgentStops ==
    /\ ~agent.stopped
    /\ faults < MaxFaults /\ faults' = faults + 1
    /\ agent' = [agent EXCEPT !.conn = FALSE, !.stopped = TRUE]
    /\ sess' = [s \in Sessions |-> IF OnLine(s) THEN Close(sess[s]) ELSE sess[s]]
    /\ fromAgent' = IF agent.conn THEN Append(fromAgent, Control("gone", Host)) ELSE fromAgent
    /\ UNCHANGED <<relay, client, toRelay>>

\* connectPath reads the end of the connection.
AgentHungUp ==
    /\ agent.conn /\ relay.toAgent # << >> /\ Head(relay.toAgent).type = "eof"
    /\ EndConnection(Append(fromAgent, Control("gone", Host)))
    /\ relay' = [relay EXCEPT !.toAgent = << >>]
    /\ UNCHANGED <<client, toRelay, faults>>

\* case "open": VerifyShell, the limits, the new session and its goroutines.
\* The limits are two sessions and 256 remembered identifiers; `full' says that
\* other sessions of the connection reach one of them.
AgentOpen(m, full) ==
    LET s    == m.session
        ssh  == m.body = "ssh"
        busy == full \/ sess[s].state # "none"
        x    == [NoSession EXCEPT !.state = "live", !.epoch = agent.epoch, !.legacy = m.body = "legacy",
                                  !.started = ~ssh]
    IN  IF m.seq # agent.epoch THEN UNCHANGED <<sess, fromAgent>>
        ELSE IF busy THEN /\ fromAgent' = Append(fromAgent, Control("close", s))
                          /\ UNCHANGED sess
        ELSE IF ssh
             THEN /\ sess' = [sess EXCEPT ![s] = [x EXCEPT !.send = 1]]
                  /\ fromAgent' = fromAgent \o Sealed(s, x, "select")
             ELSE /\ sess' = [sess EXCEPT ![s] = [x EXCEPT !.g = "starting"]]
                  /\ UNCHANGED fromAgent

\* Open() of the receiving cipher: the next frame of this session, or none.
Opens(x, m) == m.seq = x.recv

\* Mutation of Enqueue: in a full queue the oldest input makes room.
EnqueueOverOldest(x, m) ==
    IF Len(x.input) < InputCap THEN [x EXCEPT !.recv = @ + 1, !.input = Append(@, m.n)]
    ELSE [x EXCEPT !.recv = @ + 1, !.input = Append(Tail(@), m.n)]
\* The queue of 32 frames to the process; one that finds it full closes the
\* session.
Enqueue(x, m) ==
    IF Len(x.input) < InputCap THEN [x EXCEPT !.recv = @ + 1, !.input = Append(@, m.n)]
    ELSE Close(x)

\* case "frame": `connect' once, anything else only when the terminal is
\* attached; whatever is refused closes the session.
AgentFrame(m) ==
    LET s == m.session
        x == sess[s]
    IN  /\ sess' = [sess EXCEPT ![s] =
               CASE ~OnLine(s) \/ x.state # "live" -> x
                 [] OnLine(s) /\ x.state = "live" ->
                      IF ~Opens(x, m) THEN Close(x)
                      ELSE IF m.body = "connect"
                           THEN IF x.started THEN Close(x)
                                ELSE [x EXCEPT !.recv = @ + 1, !.started = TRUE, !.g = "dialing"]
                      ELSE IF ~x.pty THEN Close(x)
                      ELSE Enqueue(x, m)]
        /\ UNCHANGED fromAgent

AgentReads ==
    /\ agent.conn /\ relay.toAgent # << >>
    /\ LET m == Head(relay.toAgent)
       IN  \/ m.type = "open" /\ \E full \in BOOLEAN : AgentOpen(m, full)
           \/ m.type = "frame" /\ AgentFrame(m)
           \/ m.type = "close" /\ CloseSession(m.session) /\ UNCHANGED fromAgent
    /\ relay' = [relay EXCEPT !.toAgent = Tail(@)]
    /\ UNCHANGED <<agent, client, toRelay, faults>>

\* startTerminal: the shell of the device's user runs on a new pty.
StartTerminal(s) ==
    /\ sess[s].g = "starting"
    /\ sess' = [sess EXCEPT ![s].g = "attach", ![s].tty = "live"]
    /\ UNCHANGED <<relay, agent, client, toRelay, fromAgent, faults>>

StartFails(s) ==
    /\ sess[s].g = "starting"
    /\ sess' = [sess EXCEPT ![s] = [Close(@) EXCEPT !.g = "done"]]
    /\ fromAgent' = Say(s, <<Control("close", s)>>)
    /\ UNCHANGED <<relay, agent, client, toRelay, faults>>

\* openTarget: the vault is read afresh, the entry resolved, the server dialled
\* and its terminal opened.
OpenTarget(s) ==
    /\ sess[s].g = "dialing"
    /\ sess' = [sess EXCEPT ![s].g = "attach", ![s].tty = "live"]
    /\ UNCHANGED <<relay, agent, client, toRelay, fromAgent, faults>>

\* openTarget fails, a client that closed during the dial included.
TargetFails(s) ==
    /\ sess[s].g = "dialing"
    /\ sess' = [sess EXCEPT ![s] = [Close(sess[s]) EXCEPT !.g = "done", !.send = @ + 1]]
    /\ fromAgent' = Say(s, Sealed(s, sess[s], "error") \o <<Control("close", s)>>)
    /\ UNCHANGED <<relay, agent, client, toRelay, faults>>

\* runTerminal: attach, then `ready'.
Attach(s) ==
    /\ sess[s].g = "attach"
    /\ sess' = [sess EXCEPT ![s] = AttachTo(@)]
    /\ UNCHANGED <<relay, agent, client, toRelay, fromAgent, faults>>

SayReady(s) ==
    /\ sess[s].g = "hello"
    /\ sess' = [sess EXCEPT ![s].g = IF OnLine(s) THEN "run" ELSE "ending", ![s].send = @ + 1]
    /\ fromAgent' = Say(s, Sealed(s, sess[s], "ready"))
    /\ UNCHANGED <<relay, agent, client, toRelay, faults>>

\* runTerminal: the goroutine that writes the client's input to the process.
WriteInput(s) ==
    /\ sess[s].g = "run" /\ sess[s].state = "live" /\ sess[s].input # << >>
    /\ sess' = [sess EXCEPT ![s].input = Tail(@), ![s].wrote = Append(@, Head(sess[s].input))]
    /\ UNCHANGED <<relay, agent, client, toRelay, fromAgent, faults>>

\* runTerminal: output of the process is sealed and sent.
ReadOutput(s) ==
    /\ sess[s].g = "run" /\ sess[s].tty = "live" /\ sess[s].made < Outputs[s]
    /\ sess' = [sess EXCEPT ![s].made = @ + 1, ![s].send = @ + 1,
                            ![s].g = IF OnLine(s) THEN "run" ELSE "ending"]
    /\ fromAgent' = Say(s, Sealed(s, sess[s], "output"))
    /\ UNCHANGED <<relay, agent, client, toRelay, faults>>

\* The process exits.
ProcessExits(s) ==
    /\ sess[s].tty = "live" /\ sess[s].g = "run"
    /\ sess' = [sess EXCEPT ![s].tty = "dead"]
    /\ UNCHANGED <<relay, agent, client, toRelay, fromAgent, faults>>

\* runTerminal reads the end of a terminal; its deferred calls send `close'
\* and close the session.
TerminalEnds(s) ==
    /\ sess[s].g = "ending" \/ (sess[s].g = "run" /\ sess[s].tty = "dead")
    /\ sess' = [sess EXCEPT ![s] = [Close(@) EXCEPT !.g = "done"]]
    /\ fromAgent' = Say(s, <<Control("close", s)>>)
    /\ UNCHANGED <<relay, agent, client, toRelay, faults>>

\* Thirty seconds without a terminal, or the deadline of an older client's open.
SessionTimer(s) ==
    /\ sess[s].state = "live"
    /\ ~sess[s].pty \/ sess[s].legacy
    /\ CloseSession(s)
    /\ UNCHANGED <<relay, agent, client, toRelay, fromAgent, faults>>

-----------------------------------------------------------------------------
(* The clients.                                                            *)

\* Agents(): the connection of the device at that moment. A client asks for
\* the device's shell, or for a server the device connects to; an older client
\* asks for a shell that ends when its request expires.
Discover(s) ==
    /\ client[s].pc = "idle"
    /\ \E kind \in {"shell", "ssh", "legacy"} :
       client' = [client EXCEPT ![s].kind = kind,
                                ![s].pc = IF AgentValid(relay) THEN "found" ELSE "closed",
                                ![s].epoch = IF AgentValid(relay) THEN relay.a.epoch ELSE 0]
    /\ UNCHANGED <<relay, agent, sess, toRelay, fromAgent, faults>>

\* The dial, and the signed `open' as the first message.
Dial(s) ==
    /\ client[s].pc = "found"
    /\ \E full \in BOOLEAN :
          relay' = IF s \in relay.ok THEN UpgradeBrowser(relay, s, full) ELSE relay
    /\ IF relay'.b[s].sock = "open"
       THEN /\ client' = [client EXCEPT ![s].pc = "opening"]
            /\ toRelay' = [toRelay EXCEPT ![s] =
                   <<[Control("open", s) EXCEPT !.seq = client[s].epoch, !.body = client[s].kind]>>]
       ELSE client' = [client EXCEPT ![s].pc = "closed"] /\ UNCHANGED toRelay
    /\ UNCHANGED <<agent, sess, fromAgent, faults>>

Connected(s) == client[s].pc \in {"opening", "selected", "ready"}

\* end() and Close(): the page says `close' first, the command only hangs up.
ClientEnds(s, words) ==
    /\ client' = [client EXCEPT ![s].pc = "closed"]
    /\ toRelay' = [toRelay EXCEPT ![s] = @ \o words \o <<Control("gone", s)>>]

\* Receive(): frames in their order; anything out of order ends the session.
Receive(s) ==
    /\ Connected(s) /\ relay.toClient[s] # << >>
    /\ LET m == Head(relay.toClient[s])
           c == client[s]
           next == [c EXCEPT !.recv = @ + 1]
       IN  CASE m.type # "frame" \/ m.seq # c.recv -> ClientEnds(s, << >>)
             [] m.type = "frame" /\ m.seq = c.recv ->
                  IF m.body = "select" /\ c.kind = "ssh" /\ c.pc = "opening"
                  THEN /\ client' = [client EXCEPT ![s] = [next EXCEPT !.pc = "selected", !.send = @ + 1]]
                       /\ toRelay' = [toRelay EXCEPT ![s] = Append(@, Frame(s, c.send, "connect", 0))]
                  ELSE IF m.body = "ready" /\ c.pc = (IF c.kind = "ssh" THEN "selected" ELSE "opening")
                  THEN /\ client' = [client EXCEPT ![s] = [next EXCEPT !.pc = "ready"]]
                       /\ UNCHANGED toRelay
                  ELSE IF m.body = "output" /\ c.pc = "ready"
                  THEN /\ client' = [client EXCEPT ![s] = [next EXCEPT !.shown = Append(@, m.n)]]
                       /\ UNCHANGED toRelay
                  ELSE ClientEnds(s, << >>)
    /\ relay' = [relay EXCEPT !.toClient[s] = Tail(@)]
    /\ UNCHANGED <<agent, sess, fromAgent, faults>>

\* Send(): sealed and written under one lock.
Type(s) ==
    /\ client[s].pc = "ready" /\ client[s].typed < Inputs[s]
    /\ client' = [client EXCEPT ![s].typed = @ + 1, ![s].send = @ + 1]
    /\ toRelay' = [toRelay EXCEPT ![s] = Append(@, Frame(s, client[s].send, "input", client[s].typed + 1))]
    /\ UNCHANGED <<relay, agent, sess, fromAgent, faults>>

\* The user leaves, the vault is locked, or the handshake takes too long.
Leave(s) ==
    /\ Connected(s)
    /\ \E words \in {<< >>, <<Control("close", s)>>} : ClientEnds(s, words)
    /\ UNCHANGED <<relay, agent, sess, fromAgent, faults>>

\* The client's connection breaks; what was in flight is lost.
ClientDrops(s) ==
    /\ Connected(s)
    /\ faults < MaxFaults /\ faults' = faults + 1
    /\ client' = [client EXCEPT ![s].pc = "closed"]
    /\ toRelay' = [toRelay EXCEPT ![s] = <<Control("gone", s)>>]
    /\ UNCHANGED <<relay, agent, sess, fromAgent>>

-----------------------------------------------------------------------------
Init ==
    /\ relay = [a |-> [epoch |-> 0, sock |-> "none", fresh |-> FALSE],
                b |-> [s \in Sessions |-> [epoch |-> 0, sock |-> "none", fresh |-> FALSE, verify |-> 0, mode |-> "none"]],
                toAgent |-> << >>, toClient |-> [s \in Sessions |-> << >>],
                ok |-> Sessions \cup {Host}]
    /\ agent = [epoch |-> 0, conn |-> FALSE, stopped |-> FALSE]
    /\ sess = [s \in Sessions |-> NoSession]
    /\ client = [s \in Sessions |-> [pc |-> "idle", kind |-> "shell", epoch |-> 0, send |-> 0, recv |-> 0,
                                     typed |-> 0, shown |-> << >>]]
    /\ toRelay = [s \in Sessions |-> << >>]
    /\ fromAgent = << >>
    /\ faults = 0

RelayStep(s) == RelayReadsClient(s) \/ RelayVerifies(s)
TerminalStep(s) ==
    \/ StartTerminal(s) \/ StartFails(s) \/ OpenTarget(s) \/ TargetFails(s) \/ Attach(s)
    \/ SayReady(s) \/ WriteInput(s) \/ ReadOutput(s) \/ TerminalEnds(s)

Next ==
    \/ RelayReadsAgent \/ RelayPinged \/ SocketStale
    \/ AgentRefused \/ AgentConnects \/ AgentConnectLost \/ AgentLosesConnection
    \/ AgentStops \/ AgentHungUp \/ AgentReads
    \/ \E s \in Sessions :
          \/ RelayStep(s) \/ TerminalStep(s) \/ ProcessExits(s) \/ SessionTimer(s)
          \/ Discover(s) \/ Dial(s) \/ Receive(s) \/ Type(s) \/ Leave(s) \/ ClientDrops(s)
    \/ \E x \in Sessions \cup {Host} : Revoke(x) \/ Expire(x)

\* Messages that arrived are handled, goroutines run, pings are sent and
\* timers fire; users and faults owe nothing.
Fairness ==
    /\ WF_vars(RelayReadsAgent) /\ WF_vars(RelayPinged)
    /\ WF_vars(AgentHungUp) /\ WF_vars(AgentReads)
    /\ \A s \in Sessions : WF_vars(RelayReadsClient(s)) /\ WF_vars(RelayVerifies(s))
                           /\ WF_vars(TerminalStep(s)) /\ WF_vars(SessionTimer(s)) /\ WF_vars(Receive(s))

Spec == Init /\ [][Next]_vars /\ Fairness

-----------------------------------------------------------------------------
TypeOK ==
    /\ relay.a \in [epoch : 0..MaxEpoch, sock : {"none", "open", "closed"}, fresh : BOOLEAN]
    /\ relay.b \in [Sessions -> [epoch : 0..MaxEpoch, sock : {"none", "open", "closed", "gone"},
                                 fresh : BOOLEAN, verify : 0..MaxEpoch, mode : {"none", "shell", "ssh", "legacy"}]]
    /\ relay.toAgent \in Seq(Message)
    /\ relay.toClient \in [Sessions -> Seq(Message)]
    /\ relay.ok \subseteq Sessions \cup {Host}
    /\ agent \in [epoch : 0..MaxEpoch, conn : BOOLEAN, stopped : BOOLEAN]
    /\ fromAgent \in Seq(Message) /\ toRelay \in [Sessions -> Seq(Message)]
    /\ faults \in 0..MaxFaults

\* A shell never outlives its session: a process that runs for a closed session
\* is still in the hands of the goroutine that will find the session closed
\* (session.close and session.attach, agent.go).
NoOrphanShell ==
    \A s \in Sessions : sess[s].tty = "live" /\ sess[s].state # "live" => sess[s].g = "attach"

\* What the process read is what the user typed, and what the user saw is what
\* the process wrote: in order, without gaps, whatever was closed, dropped or
\* reconnected on the way (ShellCipher, the input queue, the relay's routing).
InOrder ==
    \A s \in Sessions :
        /\ sess[s].wrote = [n \in 1..Len(sess[s].wrote) |-> n]
        /\ client[s].shown = [n \in 1..Len(client[s].shown) |-> n]
        /\ Len(sess[s].wrote) <= client[s].typed /\ Len(client[s].shown) <= sess[s].made

Forwarded(s) == {i \in 1..Len(relay.toAgent) : relay.toAgent[i].session = s /\ relay.toAgent[i].type # "close"}

\* A client whose device was revoked or expired reaches the agent no more: no
\* `open' that was being verified, no frame that was on its way (message(),
\* relay.ts).
RevokedIsSilent ==
    [][\A s \in Sessions : s \notin relay.ok \/ Host \notin relay.ok =>
          Cardinality(Forwarded(s)') <= Cardinality(Forwarded(s))]_vars

\* A terminal whose client leaves after it was attached is closed, and its
\* place on the agent is free for good.
LeftIsClosed ==
    \A s \in Sessions :
        (client[s].pc = "closed" /\ relay.b[s].sock = "open" /\ relay.b[s].epoch # 0)
            ~> [](sess[s].state # "live")

=============================================================================
