--------------------------- MODULE TerminalProofs ---------------------------
(***************************************************************************)
(* Theorems about Terminal: no shell outlives its session, what crosses    *)
(* the relay arrives in order, and a revoked client reaches nothing.       *)
(*                                                                         *)
(* The first needs the agent's goroutines only. The second follows what a  *)
(* frame's counter says: whatever the sockets do, a frame with counter k   *)
(* is the k-th its sender made, so that a receiver that takes its counters *)
(* one by one takes the payloads one by one.                               *)
(***************************************************************************)
EXTENDS Terminal, FiniteSetTheorems, SequenceTheorems, TLAPS

-----------------------------------------------------------------------------
(* Terminals of the agent.                                                 *)

SessionT ==
    [state : {"none", "live", "closed"}, epoch : 0..MaxEpoch, legacy : BOOLEAN, started : BOOLEAN,
     recv : Nat, send : Nat, input : Seq(Nat), pty : BOOLEAN,
     g : {"none", "starting", "dialing", "attach", "hello", "run", "ending", "done"},
     tty : {"none", "live", "dead"}, wrote : Seq(Nat), made : Nat]

\* Where the goroutine of a session is says whether the terminal exists and is
\* attached; an attached terminal of a session that is over is closed.
SessOK(x) ==
    /\ x.state = "none" => x = NoSession
    /\ x.tty = "live" => x.g \in {"attach", "hello", "run", "ending"}
    /\ x.g \in {"hello", "run", "ending"} => x.pty
    /\ x.g \in {"none", "starting", "dialing", "attach"} => ~x.pty
    /\ ~x.started => x.g = "none"
    /\ x.pty /\ x.state # "live" => x.tty # "live"

-----------------------------------------------------------------------------
(* Clients, and what a message may say.                                    *)

Kinds == {"shell", "ssh", "legacy"}
ClientT ==
    [pc : {"idle", "found", "opening", "selected", "ready", "closed"}, kind : Kinds, epoch : 0..MaxEpoch,
     send : Nat, recv : Nat, typed : Nat, shown : Seq(Nat)]

\* The client has sent its `open', so its kind is settled.
Begun(c) == c.pc \notin {"idle", "found"}
\* Frames the agent sends before the first output, and inputs among the first q
\* frames of a client: to a server, `select' and `connect' come first.
Lead(c) == IF c.kind = "ssh" THEN 2 ELSE 1
Count(c, q) == IF c.kind = "ssh" /\ q # 0 THEN q - 1 ELSE q

\* A message from a client: what it says of that client is true.
FromClient(m, c) ==
    /\ m.type = "open" => Begun(c) /\ m.body = c.kind
    /\ m.type = "frame" =>
         /\ Begun(c) /\ m.seq < c.send
         /\ IF c.kind = "ssh" /\ m.seq = 0 THEN m.body = "connect"
            ELSE m.body # "connect" /\ m.n = Count(c, m.seq + 1)
\* A message from the terminal x of client c.
FromSession(m, x, c) ==
    m.type = "frame" =>
        /\ Begun(c) /\ x.state # "none"
        /\ m.body = "output" => m.n \in 1..x.made /\ m.seq = Lead(c) + m.n - 1

\* The messages that may be on their way when the clients are c and the agent's
\* sessions are x; Host has no frames.
In(c) == {m \in Message : /\ m.type \in {"open", "frame", "close"} => m.session \in Sessions
                          /\ m.session \in Sessions => FromClient(m, c[m.session])}
Out(c, x) == {m \in Message : /\ m.type \in {"frame", "close"} => m.session \in Sessions
                              /\ m.session \in Sessions => FromSession(m, x[m.session], c[m.session])}
Of(B, s) == {m \in B : m.session = s}

-----------------------------------------------------------------------------
(* The relay, between what it may read (A, from clients) and (B, from the  *)
(* agent).                                                                 *)

AgentSock == [epoch : 0..MaxEpoch, sock : {"none", "open", "closed"}, fresh : BOOLEAN]
Sock == [epoch : 0..MaxEpoch, sock : {"none", "open", "closed", "gone"},
         fresh : BOOLEAN, verify : 0..MaxEpoch, mode : {"none", "shell", "ssh", "legacy"}]
Relays(A) == [a : AgentSock, b : [Sessions -> Sock], toAgent : Seq(A),
              toClient : [Sessions -> Seq(Message)], ok : SUBSET (Sessions \cup {Host})]

Request(s, e, mode) == [Control("open", s) EXCEPT !.seq = e, !.body = mode]
Verifiable(b, A) == \A s \in Sessions : b[s].verify # 0 => Request(s, b[s].verify, b[s].mode) \in A
Routed(q, B) == \A s \in Sessions : q[s] \in Seq(Of(B, s))

RelayOK(r, A, B) == r \in Relays(A) /\ Verifiable(r.b, A) /\ Routed(r.toClient, B)

\* The controls the relay itself sends.
Wires(A, B) ==
    /\ A \subseteq Message /\ B \subseteq Message
    /\ Control("eof", Host) \in A
    /\ \A s \in Sessions : Control("close", s) \in A /\ Control("eof", s) \in B

-----------------------------------------------------------------------------
LEMMA SetA ==
    ASSUME NEW A, NEW B, NEW r, RelayOK(r, A, B), NEW a \in AgentSock
    PROVE  /\ RelayOK([r EXCEPT !.a = a], A, B)
           /\ [r EXCEPT !.a = a].a = a /\ [r EXCEPT !.a = a].b = r.b /\ [r EXCEPT !.a = a].ok = r.ok
           /\ [r EXCEPT !.a = a].toAgent = r.toAgent /\ [r EXCEPT !.a = a].toClient = r.toClient
BY DEF RelayOK, Relays

LEMMA SetB ==
    ASSUME NEW A, NEW B, NEW r, RelayOK(r, A, B), NEW b \in [Sessions -> Sock], Verifiable(b, A)
    PROVE  /\ RelayOK([r EXCEPT !.b = b], A, B)
           /\ [r EXCEPT !.b = b].a = r.a /\ [r EXCEPT !.b = b].b = b /\ [r EXCEPT !.b = b].ok = r.ok
           /\ [r EXCEPT !.b = b].toAgent = r.toAgent /\ [r EXCEPT !.b = b].toClient = r.toClient
BY DEF RelayOK, Relays

LEMMA SetToAgent ==
    ASSUME NEW A, NEW B, NEW r, RelayOK(r, A, B), NEW q \in Seq(A)
    PROVE  /\ RelayOK([r EXCEPT !.toAgent = q], A, B)
           /\ [r EXCEPT !.toAgent = q].a = r.a /\ [r EXCEPT !.toAgent = q].b = r.b
           /\ [r EXCEPT !.toAgent = q].ok = r.ok
           /\ [r EXCEPT !.toAgent = q].toAgent = q /\ [r EXCEPT !.toAgent = q].toClient = r.toClient
BY DEF RelayOK, Relays

LEMMA SetToClient ==
    ASSUME NEW A, NEW B, B \subseteq Message, NEW r, RelayOK(r, A, B), NEW q,
           q = [s \in Sessions |-> q[s]], Routed(q, B)
    PROVE  /\ RelayOK([r EXCEPT !.toClient = q], A, B)
           /\ [r EXCEPT !.toClient = q].a = r.a /\ [r EXCEPT !.toClient = q].b = r.b
           /\ [r EXCEPT !.toClient = q].ok = r.ok
           /\ [r EXCEPT !.toClient = q].toAgent = r.toAgent /\ [r EXCEPT !.toClient = q].toClient = q
<1>1. q \in [Sessions -> Seq(Message)]
  <2>1. ASSUME NEW s \in Sessions PROVE q[s] \in Seq(Message)
    <3>1. Of(B, s) \subseteq Message
      BY DEF Of
    <3> QED BY <3>1, SeqMonotonic DEF Routed
  <2> HIDE DEF Message
  <2> QED BY <2>1
<1> QED BY <1>1 DEF RelayOK, Relays

LEMMA SetOk ==
    ASSUME NEW A, NEW B, NEW r, RelayOK(r, A, B), NEW k \in SUBSET (Sessions \cup {Host})
    PROVE  /\ RelayOK([r EXCEPT !.ok = k], A, B)
           /\ [r EXCEPT !.ok = k].a = r.a /\ [r EXCEPT !.ok = k].b = r.b /\ [r EXCEPT !.ok = k].ok = k
           /\ [r EXCEPT !.ok = k].toAgent = r.toAgent /\ [r EXCEPT !.ok = k].toClient = r.toClient
BY DEF RelayOK, Relays

LEMMA RelayType ==
    ASSUME NEW A, NEW B, NEW r, RelayOK(r, A, B)
    PROVE  /\ r.a \in AgentSock /\ r.b \in [Sessions -> Sock]
           /\ r.toAgent \in Seq(A) /\ r.ok \subseteq Sessions \cup {Host}
           /\ r.toClient \in [Sessions -> Seq(Message)]
           /\ Verifiable(r.b, A) /\ Routed(r.toClient, B)
BY DEF RelayOK, Relays

\* A queue with one more message.
Then(q, m) == Append(q, m)

\* What a queue holds for the agent of session s beside `close', and that q2
\* holds no more than q does.
Forw(q, s) == {i \in 1..Len(q) : q[i].session = s /\ q[i].type # "close"}
Silent(q, q2, s) == Forw(q2, s) \subseteq Forw(q, s)
Quiet(q, q2) == \A s \in Sessions : Silent(q, q2, s)

LEMMA SilentConcat ==
    ASSUME NEW A, NEW q \in Seq(A), NEW e \in Seq(A), NEW s,
           \A i \in 1..Len(e) : e[i].session # s \/ e[i].type = "close"
    PROVE  Silent(q, q \o e, s)
<1>1. /\ Len(q \o e) = Len(q) + Len(e) /\ Len(q) \in Nat /\ Len(e) \in Nat
      /\ \A i \in 1..Len(q) + Len(e) : (q \o e)[i] = IF i <= Len(q) THEN q[i] ELSE e[i - Len(q)]
  BY ConcatProperties, LenProperties
<1> SUFFICES ASSUME NEW i \in Forw(q \o e, s)
             PROVE  i \in Forw(q, s)
  BY DEF Silent
<1>2. i \in 1..Len(q) + Len(e) /\ (q \o e)[i].session = s /\ (q \o e)[i].type # "close"
  BY <1>1 DEF Forw
<1>3. CASE i <= Len(q)
  <2>1. i \in 1..Len(q) /\ (q \o e)[i] = q[i]
    BY <1>1, <1>2, <1>3
  <2> QED BY <1>2, <2>1 DEF Forw
<1>4. CASE ~(i <= Len(q))
  <2>1. i - Len(q) \in 1..Len(e) /\ (q \o e)[i] = e[i - Len(q)]
    BY <1>1, <1>2, <1>4
  <2> QED BY <1>2, <2>1
<1> QED BY <1>3, <1>4

LEMMA SilentThen ==
    ASSUME NEW A, NEW q \in Seq(A), NEW m \in A, NEW s, m.session # s \/ m.type = "close"
    PROVE  Silent(q, Then(q, m), s)
<1>1. Then(q, m) = q \o <<m>>
  BY AppendIsConcat DEF Then
<1>2. <<m>> \in Seq(A) /\ Len(<<m>>) = 1 /\ <<m>>[1] = m
  OBVIOUS
<1>3. \A i \in 1..Len(<<m>>) : <<m>>[i].session # s \/ <<m>>[i].type = "close"
  <2> SUFFICES ASSUME NEW i \in 1..Len(<<m>>)
               PROVE  <<m>>[i].session # s \/ <<m>>[i].type = "close"
    OBVIOUS
  <2>1. i = 1
    BY <1>2
  <2> QED BY <1>2, <2>1
<1> QED BY <1>1, <1>2, <1>3, SilentConcat

LEMMA SilentEmpty ==
    ASSUME NEW q, NEW s
    PROVE  Silent(q, q, s) /\ Silent(q, << >>, s)
BY DEF Silent, Forw

LEMMA SilentTwice ==
    ASSUME NEW q, NEW q1, NEW q2, Quiet(q, q1), Quiet(q1, q2)
    PROVE  Quiet(q, q2)
BY DEF Silent, Quiet

LEMMA QuietControls ==
    ASSUME NEW A, NEW q \in Seq(A), NEW s \in Sessions
    PROVE  /\ Control("close", s) \in A => Quiet(q, Then(q, Control("close", s)))
           /\ Control("eof", Host) \in A => Quiet(q, Then(q, Control("eof", Host)))
           /\ Quiet(q, q) /\ Quiet(q, << >>)
<1>1. Control("close", s).type = "close" /\ Control("eof", Host).session = Host
  BY DEF Control
<1> QED BY <1>1, SilentThen, SilentEmpty, TerminalAssumption DEF Quiet

LEMMA ToAgentOK ==
    ASSUME NEW A, NEW B, NEW r, RelayOK(r, A, B), NEW m \in A
    PROVE  /\ RelayOK(ToAgent(r, m), A, B)
           /\ ToAgent(r, m).a = r.a /\ ToAgent(r, m).b = r.b /\ ToAgent(r, m).ok = r.ok
           /\ ToAgent(r, m).toClient = r.toClient
           /\ ToAgent(r, m).toAgent = IF AgentValid(r) THEN Then(r.toAgent, m) ELSE r.toAgent
<1>1. Append(r.toAgent, m) \in Seq(A)
  BY RelayType, AppendProperties
<1> DEFINE q == Append(r.toAgent, m)
<1>2. [r EXCEPT !.toAgent = Append(@, m)] = [r EXCEPT !.toAgent = q]
  OBVIOUS
<1> HIDE DEF q
<1>3. CASE AgentValid(r)
  <2>1. ToAgent(r, m) = [r EXCEPT !.toAgent = q]
    BY <1>2, <1>3 DEF ToAgent
  <2>2. q \in Seq(A) /\ q = Then(r.toAgent, m)
    BY <1>1 DEF q, Then
  <2> QED BY <1>3, <2>1, <2>2, SetToAgent
<1>4. CASE ~AgentValid(r)
  <2>1. ToAgent(r, m) = r
    BY <1>4 DEF ToAgent
  <2> QED BY <1>4, <2>1
<1> QED BY <1>3, <1>4

LEMMA HangUpOK ==
    ASSUME NEW A, NEW B, Wires(A, B), NEW r, RelayOK(r, A, B), NEW S
    PROVE  /\ RelayOK(HangUp(r, S), A, B)
           /\ HangUp(r, S).a = r.a /\ HangUp(r, S).ok = r.ok /\ HangUp(r, S).toAgent = r.toAgent
           /\ \A s \in Sessions : /\ HangUp(r, S).b[s].epoch = r.b[s].epoch
                                  /\ HangUp(r, S).b[s].verify = r.b[s].verify
<1> DEFINE live == {s \in S : r.b[s].sock = "open"}
           b == [s \in Sessions |->
                    IF s \in live THEN [r.b[s] EXCEPT !.sock = "closed"] ELSE r.b[s]]
           q == [s \in Sessions |->
                    IF s \in live THEN Append(r.toClient[s], Control("eof", s)) ELSE r.toClient[s]]
           r1 == [r EXCEPT !.b = b]
<1>1. /\ b \in [Sessions -> Sock] /\ Verifiable(b, A)
      /\ \A s \in Sessions : b[s].epoch = r.b[s].epoch /\ b[s].verify = r.b[s].verify
  <2>1. ASSUME NEW s \in Sessions
        PROVE  /\ b[s] \in Sock /\ b[s].verify = r.b[s].verify /\ b[s].mode = r.b[s].mode
               /\ b[s].epoch = r.b[s].epoch
    <3>1. r.b[s] \in Sock
      BY RelayType
    <3> QED BY <3>1 DEF Sock
  <2> QED BY <2>1, RelayType DEF Verifiable
<1>2. Routed(q, B) /\ q = [s \in Sessions |-> q[s]]
  <2>1. ASSUME NEW s \in Sessions PROVE q[s] \in Seq(Of(B, s))
    <3>1. Control("eof", s) \in Of(B, s)
      BY DEF Of, Wires, Control
    <3>2. r.toClient[s] \in Seq(Of(B, s))
      BY RelayType DEF Routed
    <3>3. Append(r.toClient[s], Control("eof", s)) \in Seq(Of(B, s))
      BY <3>1, <3>2, AppendProperties
    <3> QED BY <3>2, <3>3
  <2> QED BY <2>1 DEF Routed
<1>3. HangUp(r, S) = [r1 EXCEPT !.toClient = q]
  BY DEF HangUp
<1> HIDE DEF q, b
<1>4. RelayOK(r1, A, B) /\ r1.a = r.a /\ r1.ok = r.ok /\ r1.toAgent = r.toAgent /\ r1.b = b
  BY <1>1, SetB
<1> HIDE DEF r1
<1> QED BY <1>1, <1>2, <1>3, <1>4, SetToClient DEF Wires

LEMMA BrowserClosedOK ==
    ASSUME NEW A, NEW B, Wires(A, B), NEW r, RelayOK(r, A, B), NEW s \in Sessions
    PROVE  /\ RelayOK(BrowserClosed(r, s), A, B)
           /\ BrowserClosed(r, s).a = r.a /\ BrowserClosed(r, s).ok = r.ok /\ BrowserClosed(r, s).b = r.b
           /\ BrowserClosed(r, s).toAgent \in {r.toAgent, Then(r.toAgent, Control("close", s))}
<1>1. Control("close", s) \in A
  BY DEF Wires
<1> QED BY <1>1, ToAgentOK DEF BrowserClosed

LEMMA DropBrowserOK ==
    ASSUME NEW A, NEW B, Wires(A, B), NEW r, RelayOK(r, A, B), NEW s \in Sessions
    PROVE  /\ RelayOK(DropBrowser(r, s), A, B)
           /\ DropBrowser(r, s).toAgent \in {r.toAgent, Then(r.toAgent, Control("close", s))}
<1> DEFINE r1 == BrowserClosed(r, s)
<1>1. RelayOK(r1, A, B) /\ r1.toAgent \in {r.toAgent, Then(r.toAgent, Control("close", s))}
  BY BrowserClosedOK
<1>2. DropBrowser(r, s) = HangUp(r1, {s})
  BY DEF DropBrowser
<1> HIDE DEF r1
<1> QED BY <1>1, <1>2, HangUpOK

LEMMA AgentClosedOK ==
    ASSUME NEW A, NEW B, Wires(A, B), NEW r, RelayOK(r, A, B)
    PROVE  /\ RelayOK(AgentClosed(r), A, B)
           /\ AgentClosed(r).toAgent = r.toAgent /\ AgentClosed(r).ok = r.ok
<1> DEFINE a == [r.a EXCEPT !.sock = "closed"]
           r1 == [r EXCEPT !.a = a]
           S == {s \in Sessions : r.b[s].epoch = r.a.epoch}
<1>1. a \in AgentSock
  BY RelayType DEF AgentSock
<1>2. [r EXCEPT !.a.sock = "closed"] = r1
  OBVIOUS
<1>3. AgentClosed(r) = HangUp(r1, S)
  BY <1>2 DEF AgentClosed
<1> HIDE DEF a
<1>4. RelayOK(r1, A, B) /\ r1.toAgent = r.toAgent /\ r1.ok = r.ok
  BY <1>1, SetA
<1> HIDE DEF r1, S
<1> QED BY <1>3, <1>4, HangUpOK

LEMMA DropAgentOK ==
    ASSUME NEW A, NEW B, Wires(A, B), NEW r, RelayOK(r, A, B)
    PROVE  /\ RelayOK(DropAgent(r), A, B) /\ DropAgent(r).ok = r.ok
           /\ DropAgent(r).toAgent = Then(r.toAgent, Control("eof", Host))
<1> DEFINE r1 == AgentClosed(r)
           q == Append(r1.toAgent, Control("eof", Host))
<1>1. RelayOK(r1, A, B) /\ r1.toAgent = r.toAgent /\ r1.ok = r.ok
  BY AgentClosedOK
<1>2. DropAgent(r) = [r1 EXCEPT !.toAgent = q]
  BY DEF DropAgent
<1> HIDE DEF r1
<1>3. q \in Seq(A)
  BY <1>1, RelayType, AppendProperties DEF Wires
<1>4. q = Then(r.toAgent, Control("eof", Host))
  BY <1>1 DEF Then
<1> HIDE DEF q
<1> QED BY <1>1, <1>2, <1>3, <1>4, SetToAgent

LEMMA SetToSeqType ==
    ASSUME NEW S, IsFiniteSet(S)
    PROVE  SetToSeq(S) \in Seq(S)
<1>1. PICK f \in Bijection(1..Cardinality(S), S) : TRUE
  BY FS_CardinalityType DEF ExistsBijection
<1>2. f \in [1..Cardinality(S) -> S] /\ IsInjective(f)
  BY <1>1 DEF Bijection, Injection, IsInjective
<1>3. SetToSeq(S) \in [1..Cardinality(S) -> S]
  BY <1>2 DEF SetToSeq
<1> QED BY <1>3, FS_CardinalityType, SeqDef

LEMMA BrowserClosedQuiet ==
    ASSUME NEW A, NEW B, Wires(A, B), NEW r, RelayOK(r, A, B), NEW s \in Sessions
    PROVE  /\ Quiet(r.toAgent, BrowserClosed(r, s).toAgent)
           /\ Quiet(r.toAgent, DropBrowser(r, s).toAgent)
<1>1. Quiet(r.toAgent, Then(r.toAgent, Control("close", s))) /\ Quiet(r.toAgent, r.toAgent)
  BY RelayType, QuietControls DEF Wires
<1> QED BY <1>1, BrowserClosedOK, DropBrowserOK

LEMMA DropAgentQuiet ==
    ASSUME NEW A, NEW B, Wires(A, B), NEW r, RelayOK(r, A, B)
    PROVE  Quiet(r.toAgent, DropAgent(r).toAgent)
<1>1. ASSUME NEW s \in Sessions PROVE Silent(r.toAgent, Then(r.toAgent, Control("eof", Host)), s)
  BY RelayType, QuietControls DEF Wires, Quiet
<1> QED BY <1>1, DropAgentOK DEF Quiet

LEMMA PruneOK ==
    ASSUME NEW A, NEW B, Wires(A, B), NEW r, RelayOK(r, A, B)
    PROVE  /\ RelayOK(Prune(r), A, B) /\ Prune(r).ok = r.ok
           /\ Quiet(r.toAgent, Prune(r).toAgent)
<1> DEFINE r1 == IF r.a.sock = "open" /\ ~AgentValid(r) THEN DropAgent(r) ELSE r
           bad == {s \in Sessions : r1.b[s].sock = "open" /\ ~BrowserValid(r1, s)}
           told == IF AgentValid(r1) THEN {s \in bad : r1.b[s].epoch # 0} ELSE {}
           C == {Control("close", s) : s \in told}
           e == SetToSeq(C)
           q == r1.toAgent \o e
           r2 == [r1 EXCEPT !.toAgent = q]
<1>1. RelayOK(r1, A, B) /\ r1.ok = r.ok /\ Quiet(r.toAgent, r1.toAgent)
  <2>1. CASE r.a.sock = "open" /\ ~AgentValid(r)
    <3>1. r1 = DropAgent(r)
      BY <2>1
    <3> QED BY <3>1, DropAgentOK, DropAgentQuiet
  <2>2. CASE ~(r.a.sock = "open" /\ ~AgentValid(r))
    <3>1. r1 = r
      BY <2>2
    <3> QED BY <3>1, SilentEmpty DEF Quiet
  <2> QED BY <2>1, <2>2
<1>2. told \in SUBSET Sessions
  OBVIOUS
<1>3. Prune(r) = HangUp(r2, bad)
  BY DEF Prune
<1> HIDE DEF r1, told
<1>4. IsFiniteSet(C) /\ C \subseteq A /\ \A m \in C : m.type = "close"
  <2>1. IsFiniteSet(told)
    BY <1>2, FS_Subset, TerminalAssumption
  <2>2. IsFiniteSet(C)
    <3> DEFINE f == [s \in told |-> Control("close", s)]
    <3>1. f \in Surjection(told, C)
      BY DEF Surjection
    <3> QED BY <2>1, <3>1, FS_Surjection
  <2>3. C \subseteq A
    BY <1>2 DEF Wires
  <2>4. ASSUME NEW m \in C PROVE m.type = "close"
    BY DEF Control
  <2> QED BY <2>2, <2>3, <2>4
<1> HIDE DEF C
<1>5. e \in Seq(C)
  BY <1>4, SetToSeqType
<1>6. e \in Seq(A) /\ \A i \in 1..Len(e) : e[i].type = "close"
  BY <1>4, <1>5, SeqMonotonic, ElementOfSeq
<1> HIDE DEF e
<1>7. r1.toAgent \in Seq(A)
  BY <1>1, RelayType
<1>8. q \in Seq(A)
  BY <1>6, <1>7, ConcatProperties
<1>9. Quiet(r1.toAgent, q)
  BY <1>6, <1>7, SilentConcat DEF Quiet
<1> HIDE DEF q, bad
<1>10. RelayOK(r2, A, B) /\ r2.ok = r.ok /\ r2.toAgent = q
  BY <1>1, <1>8, SetToAgent
<1> HIDE DEF r2
<1>11. RelayOK(Prune(r), A, B) /\ Prune(r).ok = r.ok /\ Prune(r).toAgent = q
  BY <1>3, <1>10, HangUpOK
<1> QED BY <1>1, <1>9, <1>11, SilentTwice

LEMMA UpgradeAgentOK ==
    ASSUME NEW A, NEW B, Wires(A, B), NEW r, RelayOK(r, A, B), NEW e \in 0..MaxEpoch
    PROVE  /\ RelayOK(UpgradeAgent(r, e), A, B)
           /\ Quiet(r.toAgent, UpgradeAgent(r, e).toAgent)
<1> DEFINE p == Prune(r)
           a == [epoch |-> e, sock |-> "open", fresh |-> TRUE]
           p1 == [p EXCEPT !.a = a]
           p2 == [p1 EXCEPT !.toAgent = << >>]
<1>1. RelayOK(p, A, B) /\ Quiet(r.toAgent, p.toAgent)
  BY PruneOK
<1>2. UpgradeAgent(r, e) = IF AgentValid(p) THEN p ELSE p2
  BY DEF UpgradeAgent
<1>3. a \in AgentSock
  BY DEF AgentSock
<1> HIDE DEF p, a
<1>4. RelayOK(p1, A, B)
  BY <1>1, <1>3, SetA
<1> HIDE DEF p1
<1>5. RelayOK(p2, A, B) /\ p2.toAgent = << >>
  <2> DEFINE q == << >>
  <2>1. q \in Seq(A) /\ p2 = [p1 EXCEPT !.toAgent = q]
    BY EmptySeq
  <2> HIDE DEF q, p2
  <2>2. RelayOK(p2, A, B) /\ p2.toAgent = q
    BY <1>4, <2>1, SetToAgent
  <2> QED BY <2>2 DEF q
<1> HIDE DEF p2
<1>6. Quiet(r.toAgent, p2.toAgent)
  BY <1>5, SilentEmpty DEF Quiet
<1> QED BY <1>1, <1>2, <1>5, <1>6

\* Changing one client's socket.
LEMMA SetSocket ==
    ASSUME NEW A, NEW B, NEW r, RelayOK(r, A, B), NEW s \in Sessions, NEW x \in Sock,
           x.verify # 0 => Request(s, x.verify, x.mode) \in A
    PROVE  /\ RelayOK([r EXCEPT !.b[s] = x], A, B)
           /\ [r EXCEPT !.b[s] = x].a = r.a /\ [r EXCEPT !.b[s] = x].ok = r.ok
           /\ [r EXCEPT !.b[s] = x].b = [r.b EXCEPT ![s] = x]
           /\ [r EXCEPT !.b[s] = x].toAgent = r.toAgent
           /\ [r EXCEPT !.b[s] = x].toClient = r.toClient
<1> DEFINE b == [r.b EXCEPT ![s] = x]
<1>1. b \in [Sessions -> Sock]
  BY RelayType
<1>2. Verifiable(b, A)
  BY RelayType DEF Verifiable
<1>3. [r EXCEPT !.b[s] = x] = [r EXCEPT !.b = b]
  OBVIOUS
<1> HIDE DEF b
<1>4. /\ RelayOK([r EXCEPT !.b = b], A, B)
      /\ [r EXCEPT !.b = b].a = r.a /\ [r EXCEPT !.b = b].b = b /\ [r EXCEPT !.b = b].ok = r.ok
      /\ [r EXCEPT !.b = b].toAgent = r.toAgent /\ [r EXCEPT !.b = b].toClient = r.toClient
  BY <1>1, <1>2, SetB
<1> QED BY <1>3, <1>4 DEF b

LEMMA UpgradeBrowserOK ==
    ASSUME NEW A, NEW B, Wires(A, B), NEW r, RelayOK(r, A, B), NEW s \in Sessions, NEW full \in BOOLEAN
    PROVE  /\ RelayOK(UpgradeBrowser(r, s, full), A, B)
           /\ Quiet(r.toAgent, UpgradeBrowser(r, s, full).toAgent)
<1> DEFINE p == Prune(r)
           x == [epoch |-> 0, sock |-> "open", fresh |-> TRUE, verify |-> 0, mode |-> "none"]
           p1 == [p EXCEPT !.b[s] = x]
<1>1. RelayOK(p, A, B) /\ Quiet(r.toAgent, p.toAgent)
  BY PruneOK
<1>2. UpgradeBrowser(r, s, full) = IF full \/ p.b[s].sock # "none" THEN p ELSE p1
  BY DEF UpgradeBrowser
<1>3. x \in Sock /\ x.verify = 0
  BY TerminalAssumption DEF Sock
<1> HIDE DEF p, x
<1>4. RelayOK(p1, A, B) /\ p1.toAgent = p.toAgent
  BY <1>1, <1>3, SetSocket
<1> HIDE DEF p1
<1> QED BY <1>1, <1>2, <1>4

LEMMA OpenAskedOK ==
    ASSUME NEW A, NEW B, Wires(A, B), NEW r, RelayOK(r, A, B), NEW m \in A, m.session \in Sessions,
           m.body \in Kinds, Request(m.session, m.seq, m.body) \in A
    PROVE  /\ RelayOK(OpenAsked(r, m), A, B)
           /\ Quiet(r.toAgent, OpenAsked(r, m).toAgent)
<1> DEFINE s == m.session
           ok == AgentValid(r) /\ r.a.epoch = m.seq /\ r.b[s].epoch = 0
           x == [r.b[s] EXCEPT !.verify = m.seq, !.mode = m.body]
           r1 == [r EXCEPT !.b[s] = x]
<1>1. CASE ok
  <2>1. r1 = [r EXCEPT !.b[s].verify = m.seq, !.b[s].mode = m.body]
    <3>1. r.b \in [Sessions -> Sock] /\ s \in Sessions
      BY RelayType
    <3> QED BY <3>1
  <2>2. OpenAsked(r, m) = r1
    BY <1>1, <2>1 DEF OpenAsked
  <2>3. x \in Sock /\ x.verify = m.seq /\ x.mode = m.body
    <3>1. r.a \in AgentSock /\ r.b[s] \in Sock
      BY RelayType
    <3>2. m.seq \in 0..MaxEpoch
      BY <1>1, <3>1 DEF AgentSock
    <3> QED BY <3>1, <3>2 DEF Sock, Kinds
  <2> HIDE DEF x
  <2>4. RelayOK(r1, A, B) /\ r1.toAgent = r.toAgent
    BY <2>3, SetSocket
  <2> HIDE DEF r1
  <2> QED BY <2>2, <2>4, SilentEmpty DEF Quiet
<1>2. CASE ~ok
  <2>1. OpenAsked(r, m) = DropBrowser(r, s)
    BY <1>2 DEF OpenAsked
  <2> QED BY <2>1, DropBrowserOK, BrowserClosedQuiet
<1> QED BY <1>1, <1>2

LEMMA OpenVerifiedOK ==
    ASSUME NEW A, NEW B, Wires(A, B), NEW r, RelayOK(r, A, B), NEW s \in Sessions, r.b[s].verify # 0
    PROVE  /\ RelayOK(OpenVerified(r, s), A, B)
           /\ \A t \in Sessions : t # s \/ s \notin r.ok \/ Host \notin r.ok
                                     => Silent(r.toAgent, OpenVerified(r, s).toAgent, t)
<1> DEFINE e == r.b[s].verify
           ok == s \in r.ok /\ AgentValid(r) /\ r.a.epoch = e
           x1 == [r.b[s] EXCEPT !.verify = 0]
           r1 == [r EXCEPT !.b[s] = x1]
           x2 == [x1 EXCEPT !.epoch = e]
           r2 == [r1 EXCEPT !.b[s] = x2]
           m == Request(s, e, r.b[s].mode)
<1>1. r.b[s] \in Sock /\ m \in A
  <2>1. r.b \in [Sessions -> Sock] /\ Verifiable(r.b, A)
    BY RelayType
  <2> QED BY <2>1 DEF Verifiable
<1>2. x1 \in Sock /\ x1.verify = 0 /\ x2 \in Sock /\ x2.verify = 0
  <2>1. e \in 0..MaxEpoch
    BY <1>1 DEF Sock
  <2>2. x1 \in Sock /\ x1.verify = 0
    BY <1>1, TerminalAssumption DEF Sock
  <2> HIDE DEF x1, e
  <2>3. x2 \in Sock /\ x2.verify = 0
    BY <2>1, <2>2 DEF Sock
  <2> QED BY <2>2, <2>3
<1>3. r1 = [r EXCEPT !.b[s].verify = 0]
  OBVIOUS
<1>4. RelayOK(r1, A, B) /\ r1.toAgent = r.toAgent /\ r1.b = [r.b EXCEPT ![s] = x1]
  <2> HIDE DEF x1, x2, m
  <2> QED BY <1>2, SetSocket
<1>5. r1.b[s] = x1
  BY <1>4, RelayType
<1>6. CASE ok
  <2>1. r2 = [r1 EXCEPT !.b[s].epoch = e]
    <3> HIDE DEF x1, r1
    <3> QED BY <1>5
  <2>2. OpenVerified(r, s) = ToAgent(r2, m)
    BY <1>3, <1>6, <2>1 DEF OpenVerified, Request
  <2>3. s \in r.ok /\ Host \in r.ok
    BY <1>6 DEF AgentValid
  <2>4. m.session = s
    BY DEF Request, Control
  <2> HIDE DEF x2, r1, m
  <2>5. RelayOK(r2, A, B) /\ r2.toAgent = r.toAgent
    BY <1>2, <1>4, SetSocket
  <2> HIDE DEF r2
  <2>6. /\ RelayOK(ToAgent(r2, m), A, B)
        /\ ToAgent(r2, m).toAgent = r.toAgent \/ ToAgent(r2, m).toAgent = Then(r.toAgent, m)
    BY <1>1, <2>5, ToAgentOK
  <2>7. ASSUME NEW t \in Sessions, t # s PROVE Silent(r.toAgent, ToAgent(r2, m).toAgent, t)
    <3>1. r.toAgent \in Seq(A)
      BY RelayType
    <3> QED BY <1>1, <2>4, <2>6, <2>7, <3>1, SilentThen, SilentEmpty
  <2> QED BY <2>2, <2>3, <2>6, <2>7
<1>7. CASE ~ok
  <2>1. OpenVerified(r, s) = DropBrowser(r1, s)
    BY <1>3, <1>7 DEF OpenVerified
  <2> HIDE DEF r1
  <2> QED BY <2>1, <1>4, DropBrowserOK, BrowserClosedQuiet DEF Quiet
<1> QED BY <1>6, <1>7

LEMMA BrowserSaysOK ==
    ASSUME NEW A, NEW B, Wires(A, B), NEW r, RelayOK(r, A, B), NEW m \in A, m.session \in Sessions
    PROVE  /\ RelayOK(BrowserSays(r, m), A, B)
           /\ \A t \in Sessions : t # m.session \/ Host \notin r.ok
                                     => Silent(r.toAgent, BrowserSays(r, m).toAgent, t)
<1> DEFINE s == m.session
           r1 == ToAgent(r, m)
<1>1. CASE BrowserSays(r, m) = DropBrowser(r, s)
  BY <1>1, DropBrowserOK, BrowserClosedQuiet DEF Quiet
<1>2. CASE AgentValid(r) /\ BrowserSays(r, m) \in {r1, HangUp(r1, {s})}
  <2>1. /\ RelayOK(r1, A, B)
        /\ r1.toAgent = r.toAgent \/ r1.toAgent = Then(r.toAgent, m)
    BY ToAgentOK
  <2> HIDE DEF r1
  <2>2. RelayOK(HangUp(r1, {s}), A, B) /\ HangUp(r1, {s}).toAgent = r1.toAgent
    BY <2>1, HangUpOK
  <2>3. ASSUME NEW t \in Sessions, t # s PROVE Silent(r.toAgent, r1.toAgent, t)
    <3>1. r.toAgent \in Seq(A)
      BY RelayType
    <3> QED BY <2>1, <2>3, <3>1, SilentThen, SilentEmpty
  <2>4. Host \in r.ok
    BY <1>2 DEF AgentValid
  <2> QED BY <1>2, <2>1, <2>2, <2>3, <2>4
<1> QED BY <1>1, <1>2 DEF BrowserSays

LEMMA AgentSaysOK ==
    ASSUME NEW A, NEW B, Wires(A, B), NEW r, RelayOK(r, A, B), NEW m \in B, m.session \in Sessions
    PROVE  /\ RelayOK(AgentSays(r, m), A, B)
           /\ Quiet(r.toAgent, AgentSays(r, m).toAgent)
<1> DEFINE s == m.session
           q == [r.toClient EXCEPT ![s] = Append(r.toClient[s], m)]
           r1 == [r EXCEPT !.toClient = q]
<1>1. r1 = [r EXCEPT !.toClient[s] = Append(@, m)]
  OBVIOUS
<1>2. AgentSays(r, m) \in {r, r1, HangUp(r1, {s})}
  BY <1>1 DEF AgentSays
<1>3. q = [t \in Sessions |-> q[t]] /\ Routed(q, B)
  <2>1. m \in Of(B, s)
    BY DEF Of
  <2>2. r.toClient \in [Sessions -> Seq(Message)] /\ Routed(r.toClient, B)
    BY RelayType
  <2>3. Append(r.toClient[s], m) \in Seq(Of(B, s))
    <3>1. r.toClient[s] \in Seq(Of(B, s))
      BY <2>2 DEF Routed
    <3> HIDE DEF s
    <3> QED BY <2>1, <3>1, AppendProperties
  <2> DEFINE v == Append(r.toClient[s], m)
  <2> HIDE DEF v
  <2>4. q = [r.toClient EXCEPT ![s] = v] /\ v \in Seq(Of(B, s))
    BY <2>3 DEF v
  <2> HIDE DEF q
  <2> QED BY <2>2, <2>4 DEF Routed
<1> HIDE DEF q
<1>4. RelayOK(r1, A, B) /\ r1.toAgent = r.toAgent
  BY <1>3, SetToClient DEF Wires
<1> HIDE DEF r1
<1>5. RelayOK(HangUp(r1, {s}), A, B) /\ HangUp(r1, {s}).toAgent = r.toAgent
  BY <1>4, HangUpOK
<1> QED BY <1>2, <1>4, <1>5, SilentEmpty DEF Quiet

LEMMA BrowserGoneOK ==
    ASSUME NEW A, NEW B, Wires(A, B), NEW r, RelayOK(r, A, B), NEW s \in Sessions
    PROVE  /\ RelayOK(BrowserGone(r, s), A, B)
           /\ Quiet(r.toAgent, BrowserGone(r, s).toAgent)
<1> DEFINE r1 == BrowserClosed(r, s)
           x == [r1.b[s] EXCEPT !.sock = "gone"]
           r2 == [r1 EXCEPT !.b[s] = x]
<1>1. RelayOK(r1, A, B) /\ Quiet(r.toAgent, r1.toAgent)
  BY BrowserClosedOK, BrowserClosedQuiet
<1>2. BrowserGone(r, s) = r2
  BY DEF BrowserGone
<1> HIDE DEF r1
<1>3. x \in Sock /\ x.verify = r1.b[s].verify /\ x.mode = r1.b[s].mode
  <2>1. r1.b[s] \in Sock
    BY <1>1, RelayType
  <2> QED BY <2>1 DEF Sock
<1>4. x.verify # 0 => Request(s, x.verify, x.mode) \in A
  BY <1>1, <1>3, RelayType DEF Verifiable
<1> HIDE DEF x
<1>5. RelayOK(r2, A, B) /\ r2.toAgent = r1.toAgent
  BY <1>1, <1>3, <1>4, SetSocket
<1> QED BY <1>1, <1>2, <1>5

-----------------------------------------------------------------------------
(* A session of the agent beside its client.                               *)

\* How far the agent has counted what it sent.
SendOK(x, c) ==
    /\ x.state # "none" => Begun(c)
    /\ x.state # "none" /\ x.g \in {"none", "starting", "dialing", "attach", "hello"}
         => x.send = Lead(c) - 1 /\ x.made = 0
    /\ x.g \in {"run", "ending"} \/ (x.g = "done" /\ x.pty) => x.send = Lead(c) + x.made
    /\ x.g = "done" /\ ~x.pty => x.made = 0
\* What the process read and what waits for it are the inputs among the frames
\* received, in order.
InputOK(x, c) ==
    /\ x.recv <= c.send
    /\ Len(x.wrote) + Len(x.input) = Count(c, x.recv)
    /\ \A i \in 1..Len(x.wrote) : x.wrote[i] = i
    /\ \A i \in 1..Len(x.input) : x.input[i] = Len(x.wrote) + i
\* What the client typed are the inputs among the frames it sent, and what it
\* shows are the outputs among the frames it received.
ClientOK(x, c) ==
    /\ c.typed = Count(c, c.send)
    /\ \A i \in 1..Len(c.shown) : c.shown[i] = i
    /\ Len(c.shown) <= x.made
    /\ c.pc \in {"idle", "found", "opening"} => c.send = 0 /\ c.recv = 0 /\ c.shown = << >>
    /\ c.pc = "selected" => c.kind = "ssh" /\ c.send = 1 /\ c.recv = 1 /\ c.shown = << >>
    /\ c.pc = "ready" => c.recv = Lead(c) + Len(c.shown) /\ (c.kind = "ssh" => c.send >= 1)
Pair(x, c) ==
    /\ x \in SessionT /\ c \in ClientT
    /\ SessOK(x) /\ SendOK(x, c) /\ InputOK(x, c) /\ ClientOK(x, c)

\* What a session and a client never take back.
Grown(x, y) == (x.state # "none" => y.state # "none") /\ x.made <= y.made
Ahead(c, d) == (Begun(c) => Begun(d) /\ d.kind = c.kind) /\ c.send <= d.send

\* What the parts of Pair say about a session depends on these fields.
LEMMA SamePair ==
    ASSUME NEW x, NEW c, Pair(x, c), NEW y \in SessionT, SessOK(y), SendOK(y, c),
           y.recv = x.recv, y.input = x.input, y.wrote = x.wrote, x.made <= y.made,
           x.state # "none" => y.state # "none"
    PROVE  Pair(y, c) /\ Grown(x, y)
<1>1. Len(c.shown) \in Nat /\ x.made \in Nat /\ y.made \in Nat
  BY LenProperties DEF Pair, ClientT, SessionT
<1>2. InputOK(y, c)
  BY DEF Pair, InputOK
<1>3. ClientOK(y, c)
  BY <1>1 DEF Pair, ClientOK
<1> QED BY <1>2, <1>3 DEF Pair, Grown

LEMMA CloseOK ==
    ASSUME NEW x, NEW c, Pair(x, c)
    PROVE  /\ Pair(Close(x), c) /\ Grown(x, Close(x))
           /\ Close(x).g = x.g /\ Close(x).pty = x.pty /\ Close(x).send = x.send /\ Close(x).made = x.made
           /\ x.state # "none" => Close(x).state = "closed"
           /\ x.pty => Close(x).tty # "live"
           /\ Close(x).tty \in {x.tty, "dead"} /\ Close(x).started = x.started
<1> DEFINE y == Close(x)
<1>1. x \in SessionT /\ SessOK(x) /\ SendOK(x, c)
  BY DEF Pair
<1>2. /\ y \in SessionT
      /\ y.state = (IF x.state = "live" THEN "closed" ELSE x.state)
      /\ y.tty = (IF x.state = "live" /\ x.pty THEN "dead" ELSE x.tty)
      /\ y.g = x.g /\ y.pty = x.pty /\ y.send = x.send /\ y.made = x.made /\ y.started = x.started
      /\ y.recv = x.recv /\ y.input = x.input /\ y.wrote = x.wrote
      /\ x.state # "live" => y = x
  BY <1>1 DEF Close, SessionT
<1> HIDE DEF y
<1>3. SessOK(y)
  BY <1>1, <1>2 DEF SessOK, SessionT
<1>4. SendOK(y, c)
  BY <1>1, <1>2 DEF SendOK
<1>5. x.made <= y.made
  BY <1>1, <1>2 DEF SessionT
<1>6. Pair(y, c) /\ Grown(x, y)
  BY <1>2, <1>3, <1>4, <1>5, SamePair
<1>7. x.state # "none" => y.state = "closed"
  BY <1>1, <1>2 DEF SessionT
<1>8. x.pty => y.tty # "live"
  BY <1>1, <1>2 DEF SessOK
<1> QED BY <1>2, <1>6, <1>7, <1>8 DEF y

\* The goroutine of a session ends, after which the session is closed.
LEMMA DoneOK ==
    ASSUME NEW x, NEW c, Pair(x, c), x.g \in {"starting", "ending", "run"}
    PROVE  Pair([Close(x) EXCEPT !.g = "done"], c) /\ Grown(x, [Close(x) EXCEPT !.g = "done"])
<1> DEFINE z == Close(x)
           y == [z EXCEPT !.g = "done"]
<1>1. x \in SessionT /\ SessOK(x) /\ SendOK(x, c) /\ x.state # "none"
  BY DEF Pair, SessOK, NoSession
<1>2. /\ Pair(z, c) /\ z.g = x.g /\ z.pty = x.pty /\ z.send = x.send /\ z.made = x.made
      /\ z.state = "closed" /\ Grown(x, z) /\ (x.pty => z.tty # "live")
      /\ z.tty \in {x.tty, "dead"} /\ z.started = x.started
  BY <1>1, CloseOK
<1> HIDE DEF z
<1>3. z \in SessionT /\ SessOK(z) /\ SendOK(z, c)
  BY <1>2 DEF Pair
<1>4. /\ y \in SessionT /\ y.g = "done" /\ y.state = "closed" /\ y.tty = z.tty /\ y.pty = z.pty
      /\ y.send = z.send /\ y.made = z.made /\ y.started = z.started
      /\ y.recv = z.recv /\ y.input = z.input /\ y.wrote = z.wrote
  BY <1>2, <1>3 DEF SessionT
<1> HIDE DEF y
<1>5. SessOK(y)
  BY <1>1, <1>2, <1>3, <1>4 DEF SessOK
<1>6. SendOK(y, c)
  BY <1>1, <1>2, <1>3, <1>4 DEF SendOK, SessOK
<1>7. Pair(y, c) /\ Grown(z, y)
  <2>1. z.made <= y.made
    BY <1>3, <1>4 DEF SessionT
  <2> QED BY <1>2, <1>4, <1>5, <1>6, <2>1, SamePair
<1>8. Grown(x, y)
  BY <1>1, <1>2, <1>4 DEF Grown, SessionT
<1> QED BY <1>7, <1>8 DEF y, z

LEMMA FailsOK ==
    ASSUME NEW x, NEW c, Pair(x, c), x.g = "dialing",
           NEW y, y = [Close(x) EXCEPT !.g = "done", !.send = @ + 1]
    PROVE  Pair(y, c) /\ Grown(x, y)
<1> DEFINE z == Close(x)
<1>1. x \in SessionT /\ SessOK(x) /\ SendOK(x, c) /\ x.state # "none"
  BY DEF Pair, SessOK, NoSession
<1>2. /\ Pair(z, c) /\ z.g = x.g /\ z.pty = x.pty /\ z.send = x.send /\ z.made = x.made
      /\ z.state = "closed" /\ Grown(x, z) /\ (x.pty => z.tty # "live")
      /\ z.tty \in {x.tty, "dead"} /\ z.started = x.started
  BY <1>1, CloseOK
<1> HIDE DEF z
<1> DEFINE n == z.send + 1
<1>3. z \in SessionT /\ SessOK(z) /\ SendOK(z, c) /\ n \in Nat /\ y = [z EXCEPT !.g = "done", !.send = n]
  BY <1>2 DEF Pair, z, SessionT
<1> HIDE DEF n
<1>4. /\ y \in SessionT /\ y.g = "done" /\ y.state = "closed" /\ y.tty = z.tty /\ y.pty = z.pty
      /\ y.made = z.made /\ y.started = z.started
      /\ y.recv = z.recv /\ y.input = z.input /\ y.wrote = z.wrote
  BY <1>2, <1>3 DEF SessionT
<1>5. SessOK(y)
  BY <1>1, <1>2, <1>3, <1>4 DEF SessOK
<1>6. SendOK(y, c)
  BY <1>1, <1>2, <1>3, <1>4 DEF SendOK, SessOK
<1>7. Pair(y, c) /\ Grown(z, y)
  <2>1. z.made <= y.made
    BY <1>3, <1>4 DEF SessionT
  <2> QED BY <1>2, <1>4, <1>5, <1>6, <2>1, SamePair
<1>8. Grown(x, y)
  BY <1>1, <1>2, <1>4 DEF Grown, SessionT
<1> QED BY <1>7, <1>8

LEMMA StartedOK ==
    ASSUME NEW x, NEW c, Pair(x, c), x.g \in {"starting", "dialing"},
           NEW y, y = [x EXCEPT !.g = "attach", !.tty = "live"]
    PROVE  Pair(y, c) /\ Grown(x, y)
<1>1. x \in SessionT /\ SessOK(x) /\ SendOK(x, c) /\ x.state # "none"
  BY DEF Pair, SessOK, NoSession
<1>2. /\ y \in SessionT /\ y.g = "attach" /\ y.tty = "live" /\ y.state = x.state /\ y.pty = x.pty
      /\ y.send = x.send /\ y.made = x.made /\ y.started = x.started
      /\ y.recv = x.recv /\ y.input = x.input /\ y.wrote = x.wrote
  BY <1>1 DEF SessionT
<1>a. x.made <= y.made
  BY <1>1, <1>2 DEF SessionT
<1>3. SessOK(y)
  BY <1>1, <1>2 DEF SessOK
<1>4. SendOK(y, c)
  BY <1>1, <1>2 DEF SendOK
<1> QED BY <1>1, <1>2, <1>a, <1>3, <1>4, SamePair

LEMMA AttachToOK ==
    ASSUME NEW x, NEW c, Pair(x, c), x.g = "attach"
    PROVE  Pair(AttachTo(x), c) /\ Grown(x, AttachTo(x))
<1> DEFINE y == AttachTo(x)
<1>1. x \in SessionT /\ SessOK(x) /\ SendOK(x, c) /\ x.state # "none" /\ ~x.pty
  BY DEF Pair, SessOK, NoSession
<1>2. /\ y \in SessionT /\ y.state = x.state
      /\ y.g = (IF x.state = "closed" THEN "done" ELSE "hello")
      /\ y.tty = (IF x.state = "closed" THEN "dead" ELSE x.tty)
      /\ y.pty = (IF x.state = "closed" THEN x.pty ELSE TRUE)
      /\ y.send = x.send /\ y.made = x.made /\ y.started = x.started
      /\ y.recv = x.recv /\ y.input = x.input /\ y.wrote = x.wrote
  BY <1>1 DEF AttachTo, SessionT
<1> HIDE DEF y
<1>a. x.made <= y.made
  BY <1>1, <1>2 DEF SessionT
<1>3. SessOK(y)
  BY <1>1, <1>2 DEF SessOK, SessionT
<1>4. SendOK(y, c)
  BY <1>1, <1>2 DEF SendOK
<1>5. Pair(y, c) /\ Grown(x, y)
  BY <1>1, <1>2, <1>a, <1>3, <1>4, SamePair
<1> QED BY <1>5 DEF y

LEMMA ReadyOK ==
    ASSUME NEW x, NEW c, Pair(x, c), x.g = "hello", NEW g \in {"run", "ending"},
           NEW y, y = [x EXCEPT !.g = g, !.send = @ + 1]
    PROVE  Pair(y, c) /\ Grown(x, y)
<1>1. x \in SessionT /\ SessOK(x) /\ SendOK(x, c) /\ x.state # "none" /\ c \in ClientT
  BY DEF Pair, SessOK, NoSession
<1> DEFINE n == x.send + 1
<1>b. n \in Nat /\ y = [x EXCEPT !.g = g, !.send = n]
  BY <1>1 DEF SessionT
<1> HIDE DEF n
<1>2. /\ y \in SessionT /\ y.g = g /\ y.tty = x.tty /\ y.state = x.state /\ y.pty = x.pty
      /\ y.send = n /\ y.made = x.made /\ y.started = x.started
      /\ y.recv = x.recv /\ y.input = x.input /\ y.wrote = x.wrote
  BY <1>1, <1>b DEF SessionT
<1>a. x.made <= y.made
  BY <1>1, <1>2 DEF SessionT
<1>3. SessOK(y)
  BY <1>1, <1>2 DEF SessOK
<1>4. SendOK(y, c)
  <2>1. x.send = Lead(c) - 1 /\ x.made = 0 /\ x.pty
    BY <1>1 DEF SendOK, SessOK
  <2>2. y.send = Lead(c) + y.made
    BY <1>2, <2>1 DEF Lead, n
  <2> QED BY <1>1, <1>2, <2>2 DEF SendOK
<1> QED BY <1>1, <1>2, <1>a, <1>3, <1>4, SamePair

LEMMA OutputOK ==
    ASSUME NEW x, NEW c, Pair(x, c), x.g = "run", NEW g \in {"run", "ending"},
           NEW y, y = [x EXCEPT !.made = @ + 1, !.send = @ + 1, !.g = g]
    PROVE  Pair(y, c) /\ Grown(x, y)
<1>1. x \in SessionT /\ SessOK(x) /\ SendOK(x, c) /\ x.state # "none" /\ c \in ClientT
  BY DEF Pair, SessOK, NoSession
<1> DEFINE n == x.send + 1
           k == x.made + 1
<1>b. n \in Nat /\ k \in Nat /\ x.made <= k /\ y = [x EXCEPT !.made = k, !.send = n, !.g = g]
  BY <1>1 DEF SessionT
<1> HIDE DEF n, k
<1>2. /\ y \in SessionT /\ y.g = g /\ y.tty = x.tty /\ y.state = x.state /\ y.pty = x.pty
      /\ y.send = n /\ y.made = k /\ y.started = x.started
      /\ y.recv = x.recv /\ y.input = x.input /\ y.wrote = x.wrote
  BY <1>1, <1>b DEF SessionT
<1>a. x.made <= y.made
  BY <1>b, <1>2
<1>3. SessOK(y)
  BY <1>1, <1>2 DEF SessOK
<1>4. SendOK(y, c)
  <2>1. x.send = Lead(c) + x.made /\ x.pty
    BY <1>1 DEF SendOK, SessOK
  <2>2. y.send = Lead(c) + y.made
    <3>1. x.made \in Nat /\ Lead(c) \in Nat
      BY <1>1 DEF SessionT, Lead
    <3>2. y.send = x.send + 1 /\ y.made = x.made + 1
      BY <1>2 DEF n, k
    <3> QED
      BY <2>1, <3>1, <3>2
  <2> QED BY <1>1, <1>2, <2>1, <2>2 DEF SendOK
<1> QED BY <1>1, <1>2, <1>a, <1>3, <1>4, SamePair

LEMMA ExitOK ==
    ASSUME NEW x, NEW c, Pair(x, c), x.g = "run", NEW y, y = [x EXCEPT !.tty = "dead"]
    PROVE  Pair(y, c) /\ Grown(x, y)
<1>1. x \in SessionT /\ SessOK(x) /\ SendOK(x, c) /\ x.state # "none"
  BY DEF Pair, SessOK, NoSession
<1>2. /\ y \in SessionT /\ y.g = x.g /\ y.tty = "dead" /\ y.state = x.state /\ y.pty = x.pty
      /\ y.send = x.send /\ y.made = x.made /\ y.started = x.started
      /\ y.recv = x.recv /\ y.input = x.input /\ y.wrote = x.wrote
  BY <1>1 DEF SessionT
<1>a. x.made <= y.made
  BY <1>1, <1>2 DEF SessionT
<1>3. SessOK(y)
  BY <1>1, <1>2 DEF SessOK
<1>4. SendOK(y, c)
  BY <1>1, <1>2 DEF SendOK
<1> QED BY <1>1, <1>2, <1>a, <1>3, <1>4, SamePair

\* A sequence that counts up from k.
Counts(q, k) == \A i \in 1..Len(q) : q[i] = k + i

LEMMA CountsAppend ==
    ASSUME NEW q \in Seq(Nat), NEW k \in Nat, Counts(q, k), NEW n, n = k + Len(q) + 1
    PROVE  /\ Append(q, n) \in Seq(Nat) /\ Len(Append(q, n)) = Len(q) + 1
           /\ Counts(Append(q, n), k)
<1>1. Len(q) \in Nat /\ n \in Nat
  BY LenProperties
<1>2. /\ Append(q, n) \in Seq(Nat) /\ Len(Append(q, n)) = Len(q) + 1
      /\ \A i \in 1..Len(q) : Append(q, n)[i] = q[i]
      /\ Append(q, n)[Len(q) + 1] = n
  BY <1>1, AppendProperties
<1>3. ASSUME NEW i \in 1..Len(q) + 1 PROVE Append(q, n)[i] = k + i
  <2>1. CASE i \in 1..Len(q)
    BY <1>2, <2>1 DEF Counts
  <2>2. CASE i = Len(q) + 1
    BY <1>1, <1>2, <2>2
  <2> QED BY <1>1, <2>1, <2>2
<1> QED BY <1>2, <1>3 DEF Counts

LEMMA CountsTail ==
    ASSUME NEW q \in Seq(Nat), NEW k \in Nat, Counts(q, k), q # << >>
    PROVE  /\ Head(q) = k + 1 /\ Tail(q) \in Seq(Nat) /\ Len(Tail(q)) = Len(q) - 1
           /\ Counts(Tail(q), k + 1) /\ Len(q) \in Nat \ {0}
<1>1. Len(q) \in Nat \ {0}
  BY EmptySeq
<1>2. /\ Tail(q) \in Seq(Nat) /\ Len(Tail(q)) = Len(q) - 1
      /\ \A i \in 1..Len(Tail(q)) : Tail(q)[i] = q[i + 1]
  BY HeadTailProperties
<1>3. Head(q) = q[1]
  OBVIOUS
<1>4. ASSUME NEW i \in 1..Len(Tail(q)) PROVE Tail(q)[i] = (k + 1) + i
  <2>1. i + 1 \in 1..Len(q)
    BY <1>1, <1>2
  <2> QED BY <1>2, <2>1 DEF Counts
<1>5. q[1] = k + 1
  BY <1>1 DEF Counts
<1> QED BY <1>1, <1>2, <1>3, <1>4, <1>5 DEF Counts

LEMMA InputOKIs ==
    ASSUME NEW x \in SessionT, NEW c
    PROVE  InputOK(x, c) <=> /\ x.recv <= c.send
                             /\ Len(x.wrote) + Len(x.input) = Count(c, x.recv)
                             /\ Counts(x.wrote, 0) /\ Counts(x.input, Len(x.wrote))
<1>1. Counts(x.wrote, 0) <=> \A i \in 1..Len(x.wrote) : x.wrote[i] = i
  BY DEF Counts
<1> QED BY <1>1 DEF InputOK, Counts

LEMMA WriteOK ==
    ASSUME NEW x, NEW c, Pair(x, c), x.input # << >>
    PROVE  /\ Pair([x EXCEPT !.input = Tail(@), !.wrote = Append(@, Head(x.input))], c)
           /\ Grown(x, [x EXCEPT !.input = Tail(@), !.wrote = Append(@, Head(x.input))])
<1> DEFINE q == Tail(x.input)
           w == Append(x.wrote, Head(x.input))
           y == [x EXCEPT !.input = q, !.wrote = w]
<1>1. x \in SessionT /\ SessOK(x) /\ SendOK(x, c) /\ InputOK(x, c) /\ ClientOK(x, c) /\ c \in ClientT
  BY DEF Pair
<1>2. /\ x.input \in Seq(Nat) /\ x.wrote \in Seq(Nat) /\ Len(x.wrote) \in Nat
      /\ Counts(x.wrote, 0) /\ Counts(x.input, Len(x.wrote))
  BY <1>1, InputOKIs, LenProperties DEF SessionT
<1>3. /\ Head(x.input) = Len(x.wrote) + 1 /\ q \in Seq(Nat) /\ Len(q) = Len(x.input) - 1
      /\ Counts(q, Len(x.wrote) + 1) /\ Len(x.input) \in Nat \ {0}
  BY <1>2, CountsTail
<1>4. w \in Seq(Nat) /\ Len(w) = Len(x.wrote) + 1 /\ Counts(w, 0)
  <2>1. Head(x.input) = 0 + Len(x.wrote) + 1
    BY <1>2, <1>3
  <2> QED BY <1>2, <2>1, CountsAppend
<1> HIDE DEF q, w
<1>6. /\ y \in SessionT /\ y.input = q /\ y.wrote = w /\ y.recv = x.recv /\ y.state = x.state
      /\ y.g = x.g /\ y.tty = x.tty /\ y.pty = x.pty /\ y.started = x.started
      /\ y.send = x.send /\ y.made = x.made
  BY <1>1, <1>3, <1>4 DEF SessionT
<1> HIDE DEF y
<1>7. SessOK(y)
  <2>1. x.state # "none"
    BY <1>1, <1>3 DEF SessOK, NoSession
  <2> QED BY <1>1, <1>6, <2>1 DEF SessOK
<1>8. SendOK(y, c)
  BY <1>1, <1>6 DEF SendOK
<1>9. InputOK(y, c)
  <2>1. Len(w) + Len(q) = Len(x.wrote) + Len(x.input)
    <3> DEFINE a == Len(x.wrote)
               b == Len(x.input)
               k == Len(w)
               n == Len(q)
    <3>1. a \in Nat /\ b \in Nat /\ k = a + 1 /\ n = b - 1
      BY <1>2, <1>3, <1>4
    <3> HIDE DEF a, b, k, n
    <3>2. k + n = a + b
      BY <3>1
    <3> QED BY <3>2 DEF a, b, k, n
  <2>2. Counts(y.input, Len(y.wrote)) /\ Counts(y.wrote, 0)
    BY <1>3, <1>4, <1>6
  <2>3. y.recv <= c.send /\ Len(y.wrote) + Len(y.input) = Count(c, y.recv)
    BY <1>1, <1>6, <2>1 DEF InputOK
  <2> QED BY <1>6, <2>2, <2>3, InputOKIs
<1>10. ClientOK(y, c)
  BY <1>1, <1>6 DEF ClientOK
<1>11. Grown(x, y)
  BY <1>1, <1>6 DEF Grown, SessionT
<1>12. Pair(y, c) /\ Grown(x, y)
  BY <1>1, <1>6, <1>7, <1>8, <1>9, <1>10, <1>11 DEF Pair
<1> QED BY <1>12 DEF y, q, w

LEMMA EnqueueOK ==
    ASSUME NEW x, NEW c, Pair(x, c), x.pty, NEW m \in Message, m.type = "frame", FromClient(m, c),
           m.body # "connect", m.seq = x.recv
    PROVE  Pair(Enqueue(x, m), c) /\ Grown(x, Enqueue(x, m))
<1> DEFINE q == Append(x.input, m.n)
           k == x.recv + 1
           y == [x EXCEPT !.recv = k, !.input = q]
<1>1. x \in SessionT /\ SessOK(x) /\ SendOK(x, c) /\ InputOK(x, c) /\ ClientOK(x, c) /\ c \in ClientT
  BY DEF Pair
<1>2. /\ x.input \in Seq(Nat) /\ x.wrote \in Seq(Nat) /\ Len(x.wrote) \in Nat /\ Len(x.input) \in Nat
      /\ Counts(x.wrote, 0) /\ Counts(x.input, Len(x.wrote))
      /\ Len(x.wrote) + Len(x.input) = Count(c, x.recv) /\ x.recv \in Nat /\ c.send \in Nat
  BY <1>1, InputOKIs, LenProperties DEF SessionT, ClientT
<1>3. k \in Nat /\ k <= c.send /\ m.n = Count(c, k) /\ Count(c, k) = Count(c, x.recv) + 1
  BY <1>2 DEF FromClient, Count
<1>4. q \in Seq(Nat) /\ Len(q) = Len(x.input) + 1 /\ Counts(q, Len(x.wrote))
  <2>1. m.n = Len(x.wrote) + Len(x.input) + 1
    BY <1>2, <1>3
  <2> QED BY <1>2, <2>1, CountsAppend
<1>5. Enqueue(x, m) = y \/ Enqueue(x, m) = Close(x)
  BY DEF Enqueue
<1> HIDE DEF q, k
<1>6. /\ y \in SessionT /\ y.input = q /\ y.wrote = x.wrote /\ y.recv = k /\ y.state = x.state
      /\ y.g = x.g /\ y.tty = x.tty /\ y.pty = x.pty /\ y.started = x.started
      /\ y.send = x.send /\ y.made = x.made
  BY <1>1, <1>3, <1>4 DEF SessionT
<1> HIDE DEF y
<1>7. SessOK(y)
  <2>1. x.state # "none"
    BY <1>1 DEF SessOK, NoSession
  <2> QED BY <1>1, <1>6, <2>1 DEF SessOK
<1>8. SendOK(y, c)
  BY <1>1, <1>6 DEF SendOK
<1>9. InputOK(y, c)
  <2>1. Len(x.wrote) + Len(q) = Count(c, k)
    <3> DEFINE a == Len(x.wrote)
               b == Len(x.input)
               n == Len(q)
    <3>1. a \in Nat /\ b \in Nat /\ n = b + 1 /\ a + b = Count(c, x.recv)
      BY <1>2, <1>4
    <3> HIDE DEF a, b, n
    <3>2. a + n = Count(c, k)
      BY <1>3, <3>1
    <3> QED BY <3>2 DEF a, n
  <2>2. Counts(y.input, Len(y.wrote)) /\ Counts(y.wrote, 0)
    BY <1>2, <1>4, <1>6
  <2>3. y.recv <= c.send /\ Len(y.wrote) + Len(y.input) = Count(c, y.recv)
    BY <1>3, <1>6, <2>1
  <2> QED BY <1>6, <2>2, <2>3, InputOKIs
<1>10. ClientOK(y, c)
  BY <1>1, <1>6 DEF ClientOK
<1>11. Grown(x, y)
  BY <1>1, <1>6 DEF Grown, SessionT
<1>12. Pair(y, c) /\ Grown(x, y)
  BY <1>1, <1>6, <1>7, <1>8, <1>9, <1>10, <1>11 DEF Pair
<1> QED BY <1>5, <1>12, CloseOK

LEMMA ConnectOK ==
    ASSUME NEW x, NEW c, Pair(x, c), x.state = "live", ~x.started, NEW m \in Message, m.type = "frame",
           FromClient(m, c), m.body = "connect", m.seq = x.recv,
           NEW y, y = [x EXCEPT !.recv = @ + 1, !.started = TRUE, !.g = "dialing"]
    PROVE  Pair(y, c) /\ Grown(x, y)
<1> DEFINE k == x.recv + 1
<1>1. x \in SessionT /\ SessOK(x) /\ SendOK(x, c) /\ InputOK(x, c) /\ ClientOK(x, c) /\ c \in ClientT
  BY DEF Pair
<1>2. k \in Nat /\ k <= c.send /\ Count(c, k) = Count(c, x.recv)
  BY <1>1 DEF FromClient, Count, SessionT, ClientT
<1>3. y = [x EXCEPT !.recv = k, !.started = TRUE, !.g = "dialing"]
  OBVIOUS
<1> HIDE DEF k
<1>4. /\ y \in SessionT /\ y.input = x.input /\ y.wrote = x.wrote /\ y.recv = k /\ y.state = x.state
      /\ y.g = "dialing" /\ y.tty = x.tty /\ y.pty = x.pty /\ y.started = TRUE
      /\ y.send = x.send /\ y.made = x.made
  BY <1>1, <1>2, <1>3 DEF SessionT
<1>5. SessOK(y)
  BY <1>1, <1>4 DEF SessOK
<1>6. SendOK(y, c)
  BY <1>1, <1>4 DEF SendOK, SessOK
<1>7. InputOK(y, c)
  BY <1>1, <1>2, <1>4 DEF InputOK
<1>8. ClientOK(y, c)
  BY <1>1, <1>4 DEF ClientOK
<1>9. Grown(x, y)
  BY <1>1, <1>4 DEF Grown, SessionT
<1> QED BY <1>1, <1>4, <1>5, <1>6, <1>7, <1>8, <1>9 DEF Pair

LEMMA OpenedOK ==
    ASSUME NEW c, Pair(NoSession, c), Begun(c), NEW e \in 0..MaxEpoch, NEW legacy \in BOOLEAN,
           NEW z, z = [NoSession EXCEPT !.state = "live", !.epoch = e, !.legacy = legacy,
                                        !.started = ~(c.kind = "ssh")],
           NEW y, y = IF c.kind = "ssh" THEN [z EXCEPT !.send = 1] ELSE [z EXCEPT !.g = "starting"]
    PROVE  Pair(y, c) /\ Grown(NoSession, y)
<1>1. /\ NoSession \in SessionT /\ SendOK(NoSession, c) /\ InputOK(NoSession, c) /\ ClientOK(NoSession, c)
      /\ c \in ClientT
  BY DEF Pair
<1>2. /\ y \in SessionT /\ y.state = "live" /\ y.tty = "none" /\ y.pty = FALSE
      /\ c.kind # "ssh" => y.started
      /\ y.g = (IF c.kind = "ssh" THEN "none" ELSE "starting")
      /\ y.send = (IF c.kind = "ssh" THEN 1 ELSE 0)
      /\ y.made = NoSession.made /\ NoSession.made = 0
      /\ y.input = NoSession.input /\ y.wrote = NoSession.wrote /\ y.recv = NoSession.recv
  BY <1>1 DEF NoSession, SessionT
<1>3. SessOK(y)
  <2>1. CASE c.kind = "ssh"
    BY <1>2, <2>1 DEF SessOK
  <2>2. CASE c.kind # "ssh"
    BY <1>2, <2>2 DEF SessOK
  <2> QED BY <2>1, <2>2
<1>4. SendOK(y, c)
  BY <1>2 DEF SendOK, Lead
<1>5. InputOK(y, c)
  BY <1>1, <1>2 DEF InputOK
<1>6. ClientOK(y, c)
  BY <1>1, <1>2 DEF ClientOK
<1>7. Grown(NoSession, y)
  BY <1>2 DEF Grown
<1> QED BY <1>1, <1>2, <1>3, <1>4, <1>5, <1>6, <1>7 DEF Pair

-----------------------------------------------------------------------------
(* A client beside its session.                                            *)

LEMMA AskingOK ==
    ASSUME NEW x, NEW c, Pair(x, c), c.pc = "idle", NEW kind \in Kinds, NEW e \in 0..MaxEpoch,
           NEW pc \in {"found", "closed"}, NEW d, d = [c EXCEPT !.kind = kind, !.pc = pc, !.epoch = e]
    PROVE  Pair(x, d) /\ Ahead(c, d)
<1>1. x \in SessionT /\ SessOK(x) /\ SendOK(x, c) /\ InputOK(x, c) /\ ClientOK(x, c) /\ c \in ClientT
  BY DEF Pair
<1>2. /\ d \in ClientT /\ d.pc = pc /\ d.kind = kind /\ d.send = c.send /\ d.recv = c.recv
      /\ d.typed = c.typed /\ d.shown = c.shown
  BY <1>1 DEF ClientT
<1>3. x = NoSession /\ ~Begun(c) /\ c.send = 0 /\ c.recv = 0 /\ c.shown = << >> /\ c.typed = 0
  BY <1>1 DEF SendOK, Begun, SessOK, ClientOK, Count
<1>4. SendOK(x, d)
  BY <1>3 DEF SendOK, NoSession
<1>5. InputOK(x, d)
  BY <1>1, <1>2, <1>3 DEF InputOK, NoSession, Count
<1>6. ClientOK(x, d)
  BY <1>1, <1>2, <1>3 DEF ClientOK, Count
<1>7. Ahead(c, d)
  BY <1>2, <1>3 DEF Ahead
<1> QED BY <1>1, <1>2, <1>4, <1>5, <1>6, <1>7 DEF Pair

LEMMA PcOK ==
    ASSUME NEW x, NEW c, Pair(x, c), NEW pc, pc = "closed" \/ (pc = "opening" /\ c.pc = "found"),
           NEW d, d = [c EXCEPT !.pc = pc]
    PROVE  Pair(x, d) /\ Ahead(c, d) /\ Begun(d) /\ d.kind = c.kind
<1>1. x \in SessionT /\ SessOK(x) /\ SendOK(x, c) /\ InputOK(x, c) /\ ClientOK(x, c) /\ c \in ClientT
  BY DEF Pair
<1>2. /\ d \in ClientT /\ d.pc = pc /\ d.kind = c.kind /\ d.send = c.send /\ d.recv = c.recv
      /\ d.typed = c.typed /\ d.shown = c.shown /\ Begun(d)
  BY <1>1 DEF ClientT, Begun
<1>3. SendOK(x, d)
  BY <1>1, <1>2 DEF SendOK, Lead
<1>4. InputOK(x, d)
  BY <1>1, <1>2 DEF InputOK, Count
<1>5. ClientOK(x, d)
  BY <1>1, <1>2 DEF ClientOK, Count, Lead
<1>6. Ahead(c, d)
  BY <1>1, <1>2 DEF Ahead, ClientT
<1> QED BY <1>1, <1>2, <1>3, <1>4, <1>5, <1>6 DEF Pair

LEMMA SelectedOK ==
    ASSUME NEW x, NEW c, Pair(x, c), c.pc = "opening", c.kind = "ssh",
           NEW d, d = [c EXCEPT !.recv = 1, !.pc = "selected", !.send = 1]
    PROVE  Pair(x, d) /\ Ahead(c, d) /\ Begun(d) /\ d.kind = "ssh" /\ c.send = 0 /\ d.send = 1
<1>1. x \in SessionT /\ SessOK(x) /\ SendOK(x, c) /\ InputOK(x, c) /\ ClientOK(x, c) /\ c \in ClientT
  BY DEF Pair
<1>2. c.send = 0 /\ c.recv = 0 /\ c.shown = << >> /\ c.typed = 0
  BY <1>1 DEF ClientOK, Count
<1>4. /\ d \in ClientT /\ d.pc = "selected" /\ d.kind = c.kind /\ d.send = 1 /\ d.recv = 1
      /\ d.typed = c.typed /\ d.shown = c.shown /\ Begun(d)
  <2>1. d \in ClientT
    BY <1>1 DEF ClientT
  <2>2. /\ d.pc = "selected" /\ d.kind = c.kind /\ d.send = 1 /\ d.recv = 1
        /\ d.typed = c.typed /\ d.shown = c.shown
    BY <1>1 DEF ClientT
  <2> QED BY <2>1, <2>2 DEF Begun
<1>5. SendOK(x, d)
  BY <1>1, <1>4 DEF SendOK, Lead
<1>6. InputOK(x, d)
  BY <1>1, <1>2, <1>4 DEF InputOK, Count, SessionT
<1>7. ClientOK(x, d)
  BY <1>1, <1>2, <1>4 DEF ClientOK, Count
<1>8. Ahead(c, d)
  BY <1>2, <1>4 DEF Ahead
<1> QED BY <1>1, <1>2, <1>4, <1>5, <1>6, <1>7, <1>8 DEF Pair

LEMMA ReadiedOK ==
    ASSUME NEW x, NEW c, Pair(x, c), c.pc = (IF c.kind = "ssh" THEN "selected" ELSE "opening"),
           NEW k, k = c.recv + 1, NEW d, d = [c EXCEPT !.recv = k, !.pc = "ready"]
    PROVE  Pair(x, d) /\ Ahead(c, d)
<1>1. x \in SessionT /\ SessOK(x) /\ SendOK(x, c) /\ InputOK(x, c) /\ ClientOK(x, c) /\ c \in ClientT
  BY DEF Pair
<1>2. c.shown = << >> /\ k = Lead(c) /\ k \in Nat /\ (c.kind = "ssh" => c.send >= 1)
  BY <1>1 DEF ClientOK, Count, Lead
<1>4. /\ d \in ClientT /\ d.pc = "ready" /\ d.kind = c.kind /\ d.send = c.send /\ d.recv = k
      /\ d.typed = c.typed /\ d.shown = c.shown /\ Begun(d)
  BY <1>1, <1>2 DEF ClientT, Begun
<1>5. SendOK(x, d)
  BY <1>1, <1>4 DEF SendOK, Lead
<1>6. InputOK(x, d)
  BY <1>1, <1>4 DEF InputOK, Count
<1>7. ClientOK(x, d)
  <2>1. Len(d.shown) = 0
    BY <1>2, <1>4, EmptySeq
  <2>2. d.recv = Lead(d) + Len(d.shown)
    <3>1. Lead(d) = Lead(c) /\ Lead(c) \in Nat /\ d.recv = Lead(c)
      BY <1>2, <1>4 DEF Lead
    <3> QED BY <2>1, <3>1
  <2> QED BY <1>1, <1>2, <1>4, <2>2 DEF ClientOK, Count
<1>8. Ahead(c, d)
  BY <1>1, <1>4 DEF Ahead, ClientT
<1> QED BY <1>1, <1>4, <1>5, <1>6, <1>7, <1>8 DEF Pair

LEMMA ClientOKIs ==
    ASSUME NEW x, NEW c \in ClientT, Counts(c.shown, 0)
    PROVE  \A i \in 1..Len(c.shown) : c.shown[i] = i
BY DEF Counts

LEMMA ShownOK ==
    ASSUME NEW x, NEW c, Pair(x, c), c.pc = "ready", NEW m \in Message, m.type = "frame", m.body = "output",
           FromSession(m, x, c), m.seq = c.recv
    PROVE  /\ Pair(x, [c EXCEPT !.recv = c.recv + 1, !.shown = Append(c.shown, m.n)])
           /\ Ahead(c, [c EXCEPT !.recv = c.recv + 1, !.shown = Append(c.shown, m.n)])
<1> DEFINE k == c.recv + 1
           q == Append(c.shown, m.n)
           d == [c EXCEPT !.recv = k, !.shown = q]
<1>1. x \in SessionT /\ SessOK(x) /\ SendOK(x, c) /\ InputOK(x, c) /\ ClientOK(x, c) /\ c \in ClientT
  BY DEF Pair
<1>2. c.shown \in Seq(Nat) /\ Len(c.shown) \in Nat /\ c.recv = Lead(c) + Len(c.shown) /\ x.made \in Nat
  BY <1>1, LenProperties DEF ClientOK, ClientT, SessionT
<1>3. m.n \in Nat /\ m.n <= x.made /\ c.recv = Lead(c) + m.n - 1
  BY <1>2 DEF FromSession, Message
<1>4. /\ m.n = Len(c.shown) + 1
      /\ k \in Nat /\ k = Lead(c) + (Len(c.shown) + 1)
  <2> DEFINE l == Len(c.shown)
  <2>1. l \in Nat /\ c.recv = Lead(c) + l
    BY <1>2
  <2> HIDE DEF l
  <2>2. m.n = l + 1 /\ k \in Nat /\ k = Lead(c) + (l + 1)
    BY <1>3, <2>1 DEF Lead
  <2> QED BY <2>2 DEF l
<1>5. Counts(c.shown, 0)
  BY <1>1, <1>2 DEF ClientOK, Counts
<1>6. q \in Seq(Nat) /\ Len(q) = Len(c.shown) + 1 /\ Counts(q, 0)
  <2>1. m.n = 0 + Len(c.shown) + 1
    BY <1>2, <1>4
  <2> QED BY <1>2, <1>5, <2>1, CountsAppend
<1> HIDE DEF k, q
<1>8. /\ d \in ClientT /\ d.pc = "ready" /\ d.kind = c.kind /\ d.send = c.send /\ d.recv = k
      /\ d.typed = c.typed /\ d.shown = q /\ Begun(d)
  BY <1>1, <1>4, <1>6 DEF ClientT, Begun
<1> HIDE DEF d
<1>9. SendOK(x, d)
  BY <1>1, <1>8 DEF SendOK, Lead
<1>10. InputOK(x, d)
  BY <1>1, <1>8 DEF InputOK, Count
<1>11. ClientOK(x, d)
  <2>1. d.recv = Lead(d) + Len(d.shown)
    BY <1>4, <1>6, <1>8 DEF Lead
  <2>2. Len(d.shown) <= x.made
    BY <1>3, <1>4, <1>6, <1>8
  <2>3. \A i \in 1..Len(d.shown) : d.shown[i] = i
    BY <1>6, <1>8, ClientOKIs
  <2> QED BY <1>1, <1>8, <2>1, <2>2, <2>3 DEF ClientOK, Count
<1>12. Ahead(c, d)
  BY <1>1, <1>8 DEF Ahead, ClientT
<1>13. Pair(x, d)
  BY <1>1, <1>8, <1>9, <1>10, <1>11 DEF Pair
<1> QED BY <1>12, <1>13 DEF d, k, q

LEMMA TypedOK ==
    ASSUME NEW x, NEW c, Pair(x, c), c.pc = "ready",
           NEW d, d = [c EXCEPT !.typed = @ + 1, !.send = @ + 1]
    PROVE  /\ Pair(x, d) /\ Ahead(c, d) /\ Begun(d) /\ d.kind = c.kind /\ d.send = c.send + 1
           /\ c.typed + 1 = Count(c, c.send + 1) /\ (c.kind = "ssh" => c.send # 0)
<1> DEFINE k == c.send + 1
           n == c.typed + 1
<1>1. x \in SessionT /\ SessOK(x) /\ SendOK(x, c) /\ InputOK(x, c) /\ ClientOK(x, c) /\ c \in ClientT
  BY DEF Pair
<1>2. /\ k \in Nat /\ n \in Nat /\ n = Count(c, k) /\ c.send <= k /\ (c.kind = "ssh" => c.send # 0 /\ k >= 1)
      /\ d = [c EXCEPT !.typed = n, !.send = k]
  BY <1>1 DEF ClientOK, Count, ClientT
<1> HIDE DEF k, n
<1>4. /\ d \in ClientT /\ d.pc = "ready" /\ d.kind = c.kind /\ d.send = k /\ d.recv = c.recv
      /\ d.typed = n /\ d.shown = c.shown /\ Begun(d)
  BY <1>1, <1>2 DEF ClientT, Begun
<1>5. SendOK(x, d)
  BY <1>1, <1>4 DEF SendOK, Lead
<1>6. InputOK(x, d)
  <2>1. x.recv \in Nat /\ c.send \in Nat /\ x.recv <= c.send
    BY <1>1 DEF InputOK, SessionT, ClientT
  <2>2. x.recv <= d.send
    BY <1>2, <1>4, <2>1
  <2>3. Count(d, x.recv) = Count(c, x.recv)
    BY <1>4 DEF Count
  <2> QED
    BY <1>1, <2>2, <2>3 DEF InputOK
<1>7. ClientOK(x, d)
  <2>1. d.typed = Count(d, d.send)
    BY <1>2, <1>4 DEF Count
  <2>2. d.recv = Lead(d) + Len(d.shown)
    BY <1>1, <1>4 DEF ClientOK, Lead
  <2>3. Len(d.shown) <= x.made /\ \A i \in 1..Len(d.shown) : d.shown[i] = i
    BY <1>1, <1>4 DEF ClientOK
  <2>4. d.kind = "ssh" => d.send >= 1
    BY <1>2, <1>4
  <2> QED
    BY <1>4, <2>1, <2>2, <2>3, <2>4 DEF ClientOK
<1>8. Ahead(c, d)
  BY <1>2, <1>4 DEF Ahead
<1> QED BY <1>1, <1>2, <1>4, <1>5, <1>6, <1>7, <1>8 DEF Pair, k, n

-----------------------------------------------------------------------------
(* The inductive invariant.                                                *)

AgentT == [epoch : 0..MaxEpoch, conn : BOOLEAN, stopped : BOOLEAN]
\* What the agent puts on its socket.
Spoken(B) == {m \in B : m.type \in {"frame", "close", "gone"}}

Inv ==
    /\ RelayOK(relay, In(client), Out(client, sess))
    /\ fromAgent \in Seq(Spoken(Out(client, sess)))
    /\ toRelay = [s \in Sessions |-> toRelay[s]] /\ Routed(toRelay, In(client))
    /\ sess = [s \in Sessions |-> sess[s]] /\ client = [s \in Sessions |-> client[s]]
    /\ \A s \in Sessions : Pair(sess[s], client[s])
    /\ agent \in AgentT /\ faults \in 0..MaxFaults

LEMMA WiresOK ==
    ASSUME NEW c, NEW x
    PROVE  /\ Wires(In(c), Out(c, x))
           /\ \A s \in Sessions : /\ Control("close", s) \in Of(In(c), s) /\ Control("gone", s) \in Of(In(c), s)
                                  /\ Control("close", s) \in Spoken(Out(c, x))
           /\ Control("gone", Host) \in Spoken(Out(c, x))
<1>1. ASSUME NEW s \in Sessions \cup {Host}, NEW t \in {"close", "gone", "eof"}
      PROVE  /\ Control(t, s) \in Message /\ Control(t, s).type = t /\ Control(t, s).session = s
    BY DEF Control, Message
<1>2. ASSUME NEW s \in Sessions \cup {Host}, NEW t \in {"close", "gone", "eof"}, s = Host => t # "close"
      PROVE  Control(t, s) \in In(c) /\ Control(t, s) \in Out(c, x)
  <2> DEFINE m == Control(t, s)
  <2>1. m \in Message /\ m.type = t /\ m.session = s
    BY <1>1
  <2> HIDE DEF m
  <2>2. m \in In(c) /\ m \in Out(c, x)
    BY <1>2, <2>1 DEF In, Out, FromClient, FromSession
  <2> QED BY <2>2 DEF m
<1>3. In(c) \subseteq Message /\ Out(c, x) \subseteq Message
  BY DEF In, Out
<1>4. ASSUME NEW s \in Sessions PROVE s # Host
  BY TerminalAssumption
<1>5. Wires(In(c), Out(c, x))
  BY <1>2, <1>3, <1>4 DEF Wires
<1>6. ASSUME NEW s \in Sessions
      PROVE  /\ Control("close", s) \in Of(In(c), s) /\ Control("gone", s) \in Of(In(c), s)
             /\ Control("close", s) \in Spoken(Out(c, x))
  BY <1>1, <1>2, <1>4 DEF Of, Spoken
<1>7. Control("gone", Host) \in Spoken(Out(c, x))
  BY <1>1, <1>2 DEF Spoken
<1> QED BY <1>5, <1>6, <1>7

LEMMA GrowIn ==
    ASSUME NEW c, NEW d, \A s \in Sessions : c[s] \in ClientT /\ d[s] \in ClientT /\ Ahead(c[s], d[s])
    PROVE  In(c) \subseteq In(d)
<1> SUFFICES ASSUME NEW m \in In(c) PROVE m \in In(d)
  OBVIOUS
<1>1. /\ m \in Message /\ (m.type \in {"open", "frame", "close"} => m.session \in Sessions)
      /\ m.session \in Sessions => FromClient(m, c[m.session])
  BY DEF In
<1>2. ASSUME m.session \in Sessions PROVE FromClient(m, d[m.session])
  <2> DEFINE a == c[m.session]
             b == d[m.session]
  <2>1. a \in ClientT /\ b \in ClientT /\ Ahead(a, b) /\ FromClient(m, a)
    BY <1>1, <1>2
  <2>2. m.seq \in Nat
    BY DEF In, Message
  <2> HIDE DEF a, b
  <2>3. FromClient(m, b)
    BY <2>1, <2>2 DEF FromClient, Ahead, ClientT, Count
  <2> QED BY <2>3 DEF b
<1> QED BY <1>2, <1>1 DEF In

LEMMA GrowOut ==
    ASSUME NEW c, NEW d, NEW x, NEW y,
           \A s \in Sessions : Ahead(c[s], d[s]),
           \A s \in Sessions : x[s] \in SessionT /\ y[s] \in SessionT /\ Grown(x[s], y[s])
    PROVE  Out(c, x) \subseteq Out(d, y)
<1> SUFFICES ASSUME NEW m \in Out(c, x) PROVE m \in Out(d, y)
  OBVIOUS
<1>1. /\ m \in Message /\ (m.type \in {"frame", "close"} => m.session \in Sessions)
      /\ m.session \in Sessions => FromSession(m, x[m.session], c[m.session])
  BY DEF Out
<1>2. ASSUME m.session \in Sessions PROVE FromSession(m, y[m.session], d[m.session])
  <2> DEFINE a == c[m.session]
             b == d[m.session]
             u == x[m.session]
             v == y[m.session]
  <2>1. Ahead(a, b) /\ u \in SessionT /\ v \in SessionT /\ Grown(u, v) /\ FromSession(m, u, a)
    BY <1>1, <1>2
  <2> HIDE DEF a, b, u, v
  <2>2. ASSUME m.type = "frame" PROVE Begun(b) /\ v.state # "none" /\ Lead(b) = Lead(a)
    BY <2>1, <2>2 DEF FromSession, Ahead, Grown, Lead
  <2>3. ASSUME m.type = "frame", m.body = "output" PROVE m.n \in 1..v.made /\ m.seq = Lead(b) + m.n - 1
    <3>1. m.n \in 1..u.made /\ m.seq = Lead(b) + m.n - 1
      BY <2>1, <2>2, <2>3 DEF FromSession
    <3>2. u.made \in Nat /\ v.made \in Nat /\ u.made <= v.made
      BY <2>1 DEF Grown, SessionT
    <3> QED BY <3>1, <3>2
  <2>4. FromSession(m, v, b)
    BY <2>2, <2>3 DEF FromSession
  <2> QED BY <2>4 DEF b, v
<1> QED BY <1>1, <1>2 DEF Out

LEMMA GrowRelay ==
    ASSUME NEW A, NEW B, NEW A2, NEW B2, A \subseteq A2, B \subseteq B2, NEW r, RelayOK(r, A, B)
    PROVE  RelayOK(r, A2, B2)
<1>1. r.toAgent \in Seq(A2)
  BY RelayType, SeqMonotonic
<1>2. Routed(r.toClient, B2)
  <2>1. ASSUME NEW s \in Sessions PROVE r.toClient[s] \in Seq(Of(B2, s))
    <3>1. Of(B, s) \subseteq Of(B2, s) /\ r.toClient[s] \in Seq(Of(B, s))
      BY RelayType DEF Of, Routed
    <3> QED BY <3>1, SeqMonotonic
  <2> QED BY <2>1 DEF Routed
<1>3. Verifiable(r.b, A2)
  BY RelayType DEF Verifiable
<1> QED BY <1>1, <1>2, <1>3 DEF RelayOK, Relays

LEMMA RoutedGrows ==
    ASSUME NEW A, NEW A2, A \subseteq A2, NEW q, Routed(q, A)
    PROVE  Routed(q, A2)
<1>1. ASSUME NEW s \in Sessions PROVE q[s] \in Seq(Of(A2, s))
  <2>1. Of(A, s) \subseteq Of(A2, s) /\ q[s] \in Seq(Of(A, s))
    BY DEF Of, Routed
  <2> QED BY <2>1, SeqMonotonic
<1> QED BY <1>1 DEF Routed

LEMMA SpokenGrows ==
    ASSUME NEW B, NEW B2, B \subseteq B2, NEW q \in Seq(Spoken(B))
    PROVE  q \in Seq(Spoken(B2))
<1>1. Spoken(B) \subseteq Spoken(B2)
  BY DEF Spoken
<1> QED BY <1>1, SeqMonotonic

LEMMA Still ==
    ASSUME NEW x, NEW c, Pair(x, c)
    PROVE  Grown(x, x) /\ Ahead(c, c)
<1>1. x.made \in Nat /\ c.send \in Nat
  BY DEF Pair, SessionT, ClientT
<1> QED BY <1>1 DEF Grown, Ahead

LEMMA Frames ==
    ASSUME Inv,
           sess' = [s \in Sessions |-> (sess')[s]], client' = [s \in Sessions |-> (client')[s]],
           \A s \in Sessions : /\ Pair((sess')[s], (client')[s])
                               /\ Grown(sess[s], (sess')[s]) /\ Ahead(client[s], (client')[s]),
           RelayOK(relay', In(client), Out(client, sess)),
           fromAgent' \in Seq(Spoken(Out(client', sess'))),
           toRelay' = [s \in Sessions |-> (toRelay')[s]], Routed(toRelay', In(client')),
           agent' \in AgentT, faults' \in 0..MaxFaults
    PROVE  Inv'
<1>1. \A s \in Sessions : client[s] \in ClientT /\ (client')[s] \in ClientT /\ Ahead(client[s], (client')[s])
  BY DEF Inv, Pair
<1>2. \A s \in Sessions : sess[s] \in SessionT /\ (sess')[s] \in SessionT /\ Grown(sess[s], (sess')[s])
  BY DEF Inv, Pair
<1>3. In(client) \subseteq In(client')
  BY <1>1, GrowIn
<1>4. Out(client, sess) \subseteq Out(client', sess')
  BY <1>1, <1>2, GrowOut
<1>5. RelayOK(relay', In(client'), Out(client', sess'))
  BY <1>3, <1>4, GrowRelay
<1> QED BY <1>5 DEF Inv

LEMMA Stills ==
    ASSUME Inv
    PROVE  /\ sess = [s \in Sessions |-> sess[s]] /\ client = [s \in Sessions |-> client[s]]
           /\ toRelay = [s \in Sessions |-> toRelay[s]] /\ Routed(toRelay, In(client))
           /\ \A s \in Sessions : /\ Pair(sess[s], client[s])
                                  /\ Grown(sess[s], sess[s]) /\ Ahead(client[s], client[s])
                                  /\ sess[s] \in SessionT /\ client[s] \in ClientT
           /\ RelayOK(relay, In(client), Out(client, sess)) /\ Wires(In(client), Out(client, sess))
           /\ fromAgent \in Seq(Spoken(Out(client, sess)))
           /\ agent \in AgentT /\ faults \in 0..MaxFaults
<1>1. \A s \in Sessions : Grown(sess[s], sess[s]) /\ Ahead(client[s], client[s])
  BY Still DEF Inv
<1>2. \A s \in Sessions : sess[s] \in SessionT /\ client[s] \in ClientT
  BY DEF Inv, Pair
<1> QED BY <1>1, <1>2, WiresOK DEF Inv

\* A step of the relay or of the sockets.
LEMMA RelayMoves ==
    ASSUME Inv, UNCHANGED <<sess, client>>,
           RelayOK(relay', In(client), Out(client, sess)),
           fromAgent' \in Seq(Spoken(Out(client, sess))),
           toRelay' = [s \in Sessions |-> (toRelay')[s]], Routed(toRelay', In(client)),
           agent' \in AgentT, faults' \in 0..MaxFaults
    PROVE  Inv'
BY Stills, Frames

\* A step of one session of the agent.
LEMMA SessionMoves ==
    ASSUME Inv, NEW s \in Sessions, NEW y, sess' = [sess EXCEPT ![s] = y],
           Pair(y, client[s]), Grown(sess[s], y), UNCHANGED <<client, toRelay>>,
           RelayOK(relay', In(client), Out(client, sess)),
           fromAgent' \in Seq(Spoken(Out(client, sess'))),
           agent' \in AgentT, faults' \in 0..MaxFaults
    PROVE  Inv'
<1>1. /\ sess' = [t \in Sessions |-> (sess')[t]]
      /\ \A t \in Sessions : (sess')[t] = IF t = s THEN y ELSE sess[t]
  BY Stills
<1>2. \A t \in Sessions : /\ Pair((sess')[t], (client')[t])
                          /\ Grown(sess[t], (sess')[t]) /\ Ahead(client[t], (client')[t])
  BY <1>1, Stills
<1>3. toRelay' = [t \in Sessions |-> (toRelay')[t]] /\ Routed(toRelay', In(client'))
  BY Stills
<1>4. client' = [t \in Sessions |-> (client')[t]] /\ fromAgent' \in Seq(Spoken(Out(client', sess')))
  BY Stills
<1> QED BY <1>1, <1>2, <1>3, <1>4, Frames

\* What the agent may add to its socket in such a step.
LEMMA SessionSays ==
    ASSUME Inv, NEW s \in Sessions, NEW y, sess' = [sess EXCEPT ![s] = y],
           Pair(y, client[s]), Grown(sess[s], y),
           NEW ms \in Seq(Spoken(Out(client, sess'))), fromAgent' \in {fromAgent, fromAgent \o ms}
    PROVE  fromAgent' \in Seq(Spoken(Out(client, sess')))
<1>1. \A t \in Sessions : (sess')[t] = IF t = s THEN y ELSE sess[t]
  BY Stills
<1>2. \A t \in Sessions : sess[t] \in SessionT /\ (sess')[t] \in SessionT /\ Grown(sess[t], (sess')[t])
  BY <1>1, Stills DEF Pair
<1>3. Out(client, sess) \subseteq Out(client, sess')
  BY <1>2, Stills, GrowOut
<1>4. fromAgent \in Seq(Spoken(Out(client, sess')))
  BY <1>3, Stills, SpokenGrows
<1> QED BY <1>4, ConcatProperties

\* A step of one client.
LEMMA ClientMoves ==
    ASSUME Inv, NEW s \in Sessions, NEW d, client' = [client EXCEPT ![s] = d],
           Pair(sess[s], d), Ahead(client[s], d), UNCHANGED <<sess, fromAgent, agent>>,
           RelayOK(relay', In(client), Out(client, sess)),
           NEW q \in Seq(Of(In(client'), s)), toRelay' \in {toRelay, [toRelay EXCEPT ![s] = q]},
           faults' \in 0..MaxFaults
    PROVE  Inv'
<1>1. /\ client' = [t \in Sessions |-> (client')[t]]
      /\ \A t \in Sessions : (client')[t] = IF t = s THEN d ELSE client[t]
  BY Stills
<1>2. \A t \in Sessions : /\ Pair((sess')[t], (client')[t])
                          /\ Grown(sess[t], (sess')[t]) /\ Ahead(client[t], (client')[t])
  BY <1>1, Stills
<1>3. \A t \in Sessions : client[t] \in ClientT /\ (client')[t] \in ClientT /\ Ahead(client[t], (client')[t])
  BY <1>2, Stills DEF Pair
<1>4. In(client) \subseteq In(client') /\ Out(client, sess) \subseteq Out(client', sess')
  <2>1. \A t \in Sessions : sess[t] \in SessionT /\ (sess')[t] \in SessionT /\ Grown(sess[t], (sess')[t])
    BY Stills
  <2> QED BY <1>3, <2>1, GrowIn, GrowOut
<1>5. Routed(toRelay, In(client'))
  BY <1>4, Stills, RoutedGrows
<1>6. toRelay' = [t \in Sessions |-> (toRelay')[t]] /\ Routed(toRelay', In(client'))
  <2>1. CASE toRelay' = toRelay
    BY <1>5, <2>1, Stills
  <2>2. CASE toRelay' = [toRelay EXCEPT ![s] = q]
    BY <1>5, <2>2, Stills DEF Routed
  <2> QED BY <2>1, <2>2
<1>7. fromAgent' \in Seq(Spoken(Out(client', sess'))) /\ agent' \in AgentT
  BY <1>4, Stills, SpokenGrows
<1>8. sess' = [t \in Sessions |-> (sess')[t]]
  BY Stills
<1> QED BY <1>1, <1>2, <1>6, <1>7, <1>8, Frames

-----------------------------------------------------------------------------
(* The relay's steps keep the invariant, and forward nothing of a client   *)
(* that is no longer authorised.                                           *)

Mutes == \A t \in Sessions : t \notin relay.ok \/ Host \notin relay.ok => Silent(relay.toAgent, relay'.toAgent, t)

LEMMA QuietMutes ==
    ASSUME Quiet(relay.toAgent, relay'.toAgent)
    PROVE  Mutes
BY DEF Quiet, Mutes

LEMMA RequestOK ==
    ASSUME NEW c, NEW x, NEW m \in In(c), m.type = "open", c[m.session].kind \in Kinds
    PROVE  m.session \in Sessions /\ m.body \in Kinds /\ Request(m.session, m.seq, m.body) \in In(c)
<1>1. m \in Message /\ m.session \in Sessions /\ FromClient(m, c[m.session])
  BY DEF In
<1>2. m.body = c[m.session].kind /\ Begun(c[m.session])
  BY <1>1 DEF FromClient
<1> DEFINE q == Request(m.session, m.seq, m.body)
<1>3. q \in Message /\ q.type = "open" /\ q.session = m.session /\ q.body = m.body
  BY <1>1 DEF Request, Control, Message
<1> HIDE DEF q
<1>4. FromClient(q, c[q.session])
  BY <1>2, <1>3 DEF FromClient
<1>5. q \in In(c)
  BY <1>1, <1>3, <1>4 DEF In
<1> QED BY <1>1, <1>2, <1>5 DEF q

LEMMA ReadsClientOK ==
    ASSUME Inv, NEW s \in Sessions, RelayReadsClient(s)
    PROVE  Inv' /\ Mutes
<1> DEFINE A == In(client)
           B == Out(client, sess)
           m == Head(toRelay[s])
<1>1. RelayOK(relay, A, B) /\ Wires(A, B) /\ toRelay[s] \in Seq(Of(A, s)) /\ client[s].kind \in Kinds
  BY Stills DEF Routed, ClientT
<1>2. m \in Of(A, s) /\ Tail(toRelay[s]) \in Seq(Of(A, s))
  BY <1>1, HeadTailProperties DEF RelayReadsClient
<1>3. m \in A /\ m.session = s
  BY <1>2 DEF Of
<1>4. m.type = "open" => Request(s, m.seq, m.body) \in A /\ m.body \in Kinds
  <2> HIDE DEF m
  <2> QED BY <1>1, <1>3, RequestOK
<1>5. \/ relay' = BrowserGone(relay, s)
      \/ relay' = relay
      \/ relay' = DropBrowser(relay, s)
      \/ m.type = "open" /\ relay' = OpenAsked(relay, m)
      \/ s \in relay.ok /\ relay' = BrowserSays(relay, m)
  BY DEF RelayReadsClient, BrowserValid
<1> DEFINE q == Tail(toRelay[s])
<1>6. toRelay' = [toRelay EXCEPT ![s] = q] /\ UNCHANGED <<agent, sess, client, fromAgent, faults>>
  BY DEF RelayReadsClient
<1> HIDE DEF m, A, B, q
<1>7. RelayOK(relay', A, B) /\ Mutes
  <2>1. CASE relay' = BrowserGone(relay, s)
    BY <1>1, <2>1, BrowserGoneOK, QuietMutes
  <2>2. CASE relay' = relay
    BY <1>1, <2>2, SilentEmpty DEF Mutes
  <2>3. CASE relay' = DropBrowser(relay, s)
    BY <1>1, <2>3, DropBrowserOK, BrowserClosedQuiet, QuietMutes
  <2>4. CASE m.type = "open" /\ relay' = OpenAsked(relay, m)
    BY <1>1, <1>3, <1>4, <2>4, OpenAskedOK, QuietMutes
  <2>5. CASE s \in relay.ok /\ relay' = BrowserSays(relay, m)
    BY <1>1, <1>3, <2>5, BrowserSaysOK DEF Mutes
  <2> QED BY <1>5, <2>1, <2>2, <2>3, <2>4, <2>5
<1>8. toRelay' = [t \in Sessions |-> (toRelay')[t]] /\ Routed(toRelay', A)
  <2>1. q \in Seq(Of(A, s)) /\ Routed(toRelay, A)
    BY <1>2, Stills DEF q, A
  <2> QED BY <1>6, <2>1, Stills DEF Routed
<1> QED BY <1>6, <1>7, <1>8, Stills, RelayMoves DEF A, B

LEMMA VerifiesOK ==
    ASSUME Inv, NEW s \in Sessions, RelayVerifies(s)
    PROVE  Inv' /\ Mutes
<1> DEFINE A == In(client)
           B == Out(client, sess)
<1>1. RelayOK(relay, A, B) /\ Wires(A, B)
  BY Stills
<1>2. relay' = OpenVerified(relay, s) /\ relay.b[s].verify # 0
      /\ UNCHANGED <<agent, sess, client, toRelay, fromAgent, faults>>
  BY DEF RelayVerifies
<1> HIDE DEF A, B
<1>3. RelayOK(relay', A, B) /\ Mutes
  BY <1>1, <1>2, OpenVerifiedOK DEF Mutes
<1> QED BY <1>2, <1>3, Stills, RelayMoves DEF A, B

LEMMA ReadsAgentOK ==
    ASSUME Inv, RelayReadsAgent
    PROVE  Inv' /\ Mutes
<1> DEFINE A == In(client)
           B == Out(client, sess)
           m == Head(fromAgent)
<1>1. RelayOK(relay, A, B) /\ Wires(A, B)
  BY Stills
<1>2. m \in Spoken(B) /\ Tail(fromAgent) \in Seq(Spoken(B))
  BY Stills, HeadTailProperties DEF RelayReadsAgent
<1>3. m \in B /\ (m.type = "gone" \/ m.session \in Sessions)
  BY <1>2 DEF Spoken, Out
<1>4. \/ relay' = relay
      \/ relay' = AgentClosed(relay)
      \/ m.type # "gone" /\ relay' = AgentSays(relay, m)
      \/ relay' = DropAgent(relay)
  BY DEF RelayReadsAgent
<1>5. fromAgent' = Tail(fromAgent) /\ UNCHANGED <<agent, sess, client, toRelay, faults>>
  BY DEF RelayReadsAgent
<1> HIDE DEF A, B, m
<1>6. RelayOK(relay', A, B) /\ Mutes
  <2>1. CASE relay' = relay
    BY <1>1, <2>1, SilentEmpty DEF Mutes
  <2>2. CASE relay' = AgentClosed(relay)
    BY <1>1, <2>2, AgentClosedOK, SilentEmpty DEF Mutes
  <2>3. CASE m.type # "gone" /\ relay' = AgentSays(relay, m)
    BY <1>1, <1>3, <2>3, AgentSaysOK, QuietMutes
  <2>4. CASE relay' = DropAgent(relay)
    BY <1>1, <2>4, DropAgentOK, DropAgentQuiet, QuietMutes
  <2> QED BY <1>4, <2>1, <2>2, <2>3, <2>4
<1>7. fromAgent' \in Seq(Spoken(B))
  BY <1>2, <1>5
<1> QED BY <1>5, <1>6, <1>7, Stills, RelayMoves DEF A, B

LEMMA PingedOK ==
    ASSUME Inv, RelayPinged
    PROVE  Inv' /\ Mutes
<1> DEFINE A == In(client)
           B == Out(client, sess)
<1>1. RelayOK(relay, A, B) /\ Wires(A, B)
  BY Stills
<1>2. /\ relay' = DropAgent(relay) \/ \E s \in Sessions : relay' = DropBrowser(relay, s)
      /\ UNCHANGED <<agent, sess, client, toRelay, fromAgent, faults>>
  BY DEF RelayPinged
<1> HIDE DEF A, B
<1>3. RelayOK(relay', A, B) /\ Mutes
  <2>1. CASE relay' = DropAgent(relay)
    BY <1>1, <2>1, DropAgentOK, DropAgentQuiet, QuietMutes
  <2>2. ASSUME NEW s \in Sessions, relay' = DropBrowser(relay, s) PROVE RelayOK(relay', A, B) /\ Mutes
    BY <1>1, <2>2, DropBrowserOK, BrowserClosedQuiet, QuietMutes
  <2> QED BY <1>2, <2>1, <2>2
<1> QED BY <1>2, <1>3, Stills, RelayMoves DEF A, B

LEMMA StaleOK ==
    ASSUME Inv, SocketStale
    PROVE  Inv' /\ Mutes
<1> DEFINE A == In(client)
           B == Out(client, sess)
           a == [relay.a EXCEPT !.fresh = FALSE]
<1>1. RelayOK(relay, A, B) /\ relay.a \in AgentSock /\ relay.b \in [Sessions -> Sock] /\ Verifiable(relay.b, A)
  BY Stills, RelayType
<1>2. UNCHANGED <<agent, sess, client, toRelay, fromAgent, faults>>
  BY DEF SocketStale
<1>3. RelayOK(relay', A, B) /\ relay'.toAgent = relay.toAgent
  <2>1. CASE relay' = [relay EXCEPT !.a.fresh = FALSE]
    <3>1. a \in AgentSock /\ relay' = [relay EXCEPT !.a = a]
      BY <1>1, <2>1 DEF AgentSock
    <3> HIDE DEF a, A, B
    <3> QED BY <1>1, <3>1, SetA
  <2>2. ASSUME NEW s \in Sessions, relay' = [relay EXCEPT !.b[s].fresh = FALSE]
        PROVE  RelayOK(relay', A, B) /\ relay'.toAgent = relay.toAgent
    <3> DEFINE x == [relay.b[s] EXCEPT !.fresh = FALSE]
    <3>1. relay' = [relay EXCEPT !.b[s] = x]
      BY <2>2
    <3>2. x \in Sock /\ x.verify = relay.b[s].verify /\ x.mode = relay.b[s].mode
      BY <1>1 DEF Sock
    <3>3. x.verify # 0 => Request(s, x.verify, x.mode) \in A
      BY <1>1, <3>2 DEF Verifiable
    <3> HIDE DEF x, A, B
    <3> QED BY <1>1, <3>1, <3>2, <3>3, SetSocket
  <2> QED BY <2>1, <2>2 DEF SocketStale
<1>4. Mutes
  BY <1>3, SilentEmpty DEF Mutes
<1> QED BY <1>2, <1>3, <1>4, Stills, RelayMoves

LEMMA RevokeOK ==
    ASSUME Inv, NEW x, Revoke(x) \/ Expire(x)
    PROVE  Inv' /\ Mutes
<1> DEFINE A == In(client)
           B == Out(client, sess)
           k == relay.ok \ {x}
           r1 == [relay EXCEPT !.ok = k]
<1>1. RelayOK(relay, A, B) /\ Wires(A, B) /\ k \in SUBSET (Sessions \cup {Host})
  BY Stills, RelayType
<1>2. /\ relay' = r1 \/ relay' = Prune(r1)
      /\ faults' \in 0..MaxFaults
      /\ UNCHANGED <<agent, sess, client, toRelay, fromAgent>>
  BY Stills, TerminalAssumption DEF Revoke, Expire
<1> HIDE DEF A, B, k
<1>3. RelayOK(r1, A, B) /\ r1.toAgent = relay.toAgent
  BY <1>1, SetOk
<1> HIDE DEF r1
<1>4. RelayOK(relay', A, B) /\ Mutes
  <2>1. CASE relay' = r1
    BY <1>3, <2>1, SilentEmpty DEF Mutes
  <2>2. CASE relay' = Prune(r1)
    BY <1>1, <1>3, <2>2, PruneOK, QuietMutes
  <2> QED BY <1>2, <2>1, <2>2
<1> QED BY <1>2, <1>4, Stills, RelayMoves DEF A, B

-----------------------------------------------------------------------------
(* The agent's steps.                                                      *)

LEMMA RefusedOK ==
    ASSUME Inv, AgentRefused
    PROVE  Inv'
<1>1. agent' \in AgentT /\ UNCHANGED <<relay, sess, client, toRelay, fromAgent, faults>>
  <2>1. agent \in AgentT
    BY Stills
  <2> QED BY <2>1 DEF AgentRefused, AgentT
<1> QED BY <1>1, Stills, RelayMoves

LEMMA ConnectsOK ==
    ASSUME Inv, AgentConnects \/ AgentConnectLost
    PROVE  Inv' /\ Mutes
<1> DEFINE A == In(client)
           B == Out(client, sess)
           e == agent.epoch + 1
<1>1. RelayOK(relay, A, B) /\ Wires(A, B) /\ agent \in AgentT
  BY Stills
<1>2. /\ relay' = UpgradeAgent(relay, e) /\ e \in 0..MaxEpoch /\ fromAgent' = << >>
      /\ UNCHANGED <<sess, client, toRelay>>
  <2>1. agent.epoch \in 0..MaxEpoch /\ agent.epoch < MaxEpoch
    BY <1>1 DEF AgentConnects, AgentConnectLost, AgentT
  <2>2. e \in 0..MaxEpoch
    BY <2>1, TerminalAssumption
  <2> HIDE DEF e
  <2>3. relay' = UpgradeAgent(relay, e)
    BY DEF AgentConnects, AgentConnectLost, e
  <2> QED BY <2>2, <2>3 DEF AgentConnects, AgentConnectLost
<1>3. faults' \in 0..MaxFaults
  BY Stills, TerminalAssumption DEF AgentConnects, AgentConnectLost
<1>4. agent' \in AgentT
  <2>1. agent' = [agent EXCEPT !.epoch = e, !.conn = TRUE] \/ agent' = [agent EXCEPT !.epoch = e]
    BY DEF AgentConnects, AgentConnectLost
  <2> HIDE DEF e
  <2> QED BY <1>1, <1>2, <2>1 DEF AgentT
<1> HIDE DEF A, B, e
<1>5. RelayOK(relay', A, B) /\ Mutes
  BY <1>1, <1>2, UpgradeAgentOK, QuietMutes
<1>6. fromAgent' \in Seq(Spoken(B))
  BY <1>2, EmptySeq
<1> QED BY <1>2, <1>3, <1>4, <1>5, <1>6, Stills, RelayMoves DEF A, B

\* The sessions of a connection end with it.
LEMMA EndsOK ==
    ASSUME Inv, sess' = [s \in Sessions |-> IF OnLine(s) THEN Close(sess[s]) ELSE sess[s]],
           UNCHANGED <<client, toRelay>>,
           NEW g, g = Control("gone", Host),
           fromAgent' \in {<< >>, <<g>>, fromAgent, Append(fromAgent, g)},
           agent' \in AgentT, faults' \in 0..MaxFaults,
           RelayOK(relay', In(client), Out(client, sess))
    PROVE  Inv'
<1>1. ASSUME NEW s \in Sessions
      PROVE  Pair((sess')[s], client[s]) /\ Grown(sess[s], (sess')[s])
  <2>1. (sess')[s] = Close(sess[s]) \/ (sess')[s] = sess[s]
    OBVIOUS
  <2> QED BY <2>1, Stills, CloseOK
<1>2. Out(client, sess) \subseteq Out(client, sess')
  <2>1. \A s \in Sessions : sess[s] \in SessionT /\ (sess')[s] \in SessionT /\ Grown(sess[s], (sess')[s])
    BY <1>1, Stills DEF Pair
  <2> QED BY <2>1, Stills, GrowOut
<1> DEFINE B == Spoken(Out(client, sess'))
<1>3. fromAgent \in Seq(B) /\ g \in B
  BY <1>2, Stills, SpokenGrows, WiresOK
<1> HIDE DEF B
<1>4. fromAgent' \in Seq(B)
  <2>1. Append(fromAgent, g) \in Seq(B) /\ << >> \in Seq(B) /\ <<g>> \in Seq(B)
    BY <1>3, AppendProperties, EmptySeq
  <2> QED BY <1>3, <2>1
<1>5. fromAgent' \in Seq(Spoken(Out(client', sess')))
  BY <1>4 DEF B
<1>6. \A s \in Sessions : /\ Pair((sess')[s], (client')[s])
                          /\ Grown(sess[s], (sess')[s]) /\ Ahead(client[s], (client')[s])
  BY <1>1, Stills
<1>7. /\ sess' = [s \in Sessions |-> (sess')[s]] /\ client' = [s \in Sessions |-> (client')[s]]
      /\ toRelay' = [s \in Sessions |-> (toRelay')[s]] /\ Routed(toRelay', In(client'))
  BY Stills
<1> QED BY <1>5, <1>6, <1>7, Frames

LEMMA LosesOK ==
    ASSUME Inv, AgentLosesConnection \/ AgentStops
    PROVE  Inv'
<1> DEFINE g == Control("gone", Host)
<1>1. agent' \in AgentT
  <2>1. agent \in AgentT
    BY Stills
  <2> QED BY <2>1 DEF AgentLosesConnection, AgentStops, EndConnection, AgentT
<1>2. faults' \in 0..MaxFaults
  BY Stills, TerminalAssumption DEF AgentLosesConnection, AgentStops
<1>3. /\ sess' = [s \in Sessions |-> IF OnLine(s) THEN Close(sess[s]) ELSE sess[s]]
      /\ fromAgent' \in {<< >>, <<g>>, fromAgent, Append(fromAgent, g)}
      /\ UNCHANGED <<relay, client, toRelay>>
  BY DEF AgentLosesConnection, AgentStops, EndConnection
<1> QED BY <1>1, <1>2, <1>3, Stills, EndsOK

LEMMA HungUpOK ==
    ASSUME Inv, AgentHungUp
    PROVE  Inv' /\ Mutes
<1> DEFINE g == Control("gone", Host)
           q == << >>
<1>1. agent' \in AgentT
  <2>1. agent \in AgentT
    BY Stills
  <2> QED BY <2>1 DEF AgentHungUp, EndConnection, AgentT
<1>2. /\ sess' = [s \in Sessions |-> IF OnLine(s) THEN Close(sess[s]) ELSE sess[s]]
      /\ fromAgent' \in {<< >>, <<g>>, fromAgent, Append(fromAgent, g)}
      /\ UNCHANGED <<client, toRelay, faults>> /\ relay' = [relay EXCEPT !.toAgent = q]
  BY DEF AgentHungUp, EndConnection
<1>3. q \in Seq(In(client))
  BY EmptySeq
<1>4. ASSUME NEW t \in Sessions PROVE Silent(relay.toAgent, q, t)
  BY SilentEmpty
<1> HIDE DEF q
<1>5. RelayOK(relay', In(client), Out(client, sess)) /\ relay'.toAgent = q
  BY <1>2, <1>3, Stills, SetToAgent
<1>6. Mutes
  BY <1>4, <1>5 DEF Mutes
<1> QED BY <1>1, <1>2, <1>5, <1>6, Stills, EndsOK

LEMMA FrameSaid ==
    ASSUME NEW c, NEW x, NEW s \in Sessions, Begun(c[s]), x[s].state # "none",
           NEW k \in Nat, NEW n \in Nat, NEW body \in {"select", "ready", "output", "error"},
           body = "output" => n \in 1..x[s].made /\ k = Lead(c[s]) + n - 1
    PROVE  Frame(s, k, body, n) \in Spoken(Out(c, x))
<1> DEFINE m == Frame(s, k, body, n)
<1>1. /\ m \in Message /\ m.type = "frame" /\ m.session = s /\ m.seq = k /\ m.body = body /\ m.n = n
  BY DEF Frame, Message
<1> HIDE DEF m
<1>2. FromSession(m, x[s], c[s])
  BY <1>1 DEF FromSession
<1>3. m \in Spoken(Out(c, x))
  BY <1>1, <1>2 DEF Spoken, Out
<1> QED BY <1>3 DEF m

\* The messages that wait for the agent, one less.
Takes == relay.toAgent # << >> /\ relay' = [relay EXCEPT !.toAgent = Tail(@)]

LEMMA TakenOK ==
    ASSUME Inv, Takes
    PROVE  /\ RelayOK(relay', In(client), Out(client, sess)) /\ Head(relay.toAgent) \in In(client)
           /\ relay'.toAgent = Tail(relay.toAgent)
<1> DEFINE q == Tail(relay.toAgent)
<1>1. relay.toAgent \in Seq(In(client))
  BY Stills, RelayType
<1>2. Head(relay.toAgent) \in In(client) /\ q \in Seq(In(client)) /\ relay' = [relay EXCEPT !.toAgent = q]
  BY <1>1, HeadTailProperties DEF Takes
<1> HIDE DEF q
<1>3. RelayOK(relay', In(client), Out(client, sess)) /\ relay'.toAgent = q
  BY <1>2, Stills, SetToAgent
<1> QED BY <1>2, <1>3 DEF q

LEMMA AgentOpenOK ==
    ASSUME Inv, Takes,
           UNCHANGED <<agent, client, toRelay, faults>>,
           NEW m, m = Head(relay.toAgent), m.type = "open", NEW full \in BOOLEAN, AgentOpen(m, full)
    PROVE  Inv'
<1> DEFINE s == m.session
           ssh == m.body = "ssh"
           x == [NoSession EXCEPT !.state = "live", !.epoch = agent.epoch, !.legacy = m.body = "legacy",
                                  !.started = ~ssh]
           y == IF ssh THEN [x EXCEPT !.send = 1] ELSE [x EXCEPT !.g = "starting"]
           f == Frame(s, 0, "select", 0)
<1>1. RelayOK(relay', In(client), Out(client, sess)) /\ m \in In(client)
  BY TakenOK
<1>2. /\ s \in Sessions /\ Begun(client[s]) /\ m.body = client[s].kind
  BY <1>1 DEF In, FromClient
<1>3. \/ UNCHANGED <<sess, fromAgent>>
      \/ fromAgent' = Append(fromAgent, Control("close", s)) /\ UNCHANGED sess
      \/ /\ sess[s].state = "none" /\ sess' = [sess EXCEPT ![s] = y]
         /\ fromAgent' \in {fromAgent, fromAgent \o <<f>>}
  BY DEF AgentOpen, Sealed, NoSession
<1>4. CASE UNCHANGED <<sess, fromAgent>>
  BY <1>1, <1>4, Stills, RelayMoves
<1>5. CASE fromAgent' = Append(fromAgent, Control("close", s)) /\ UNCHANGED sess
  <2> DEFINE B == Spoken(Out(client, sess))
             d == Control("close", s)
  <2>1. fromAgent \in Seq(B) /\ d \in B /\ fromAgent' = Append(fromAgent, d)
    BY <1>2, <1>5, Stills, WiresOK
  <2> HIDE DEF B, d
  <2>2. fromAgent' \in Seq(B)
    BY <2>1, AppendProperties
  <2>3. fromAgent' \in Seq(Spoken(Out(client, sess)))
    BY <2>2 DEF B
  <2> HIDE DEF s
  <2> QED BY <1>1, <1>5, <2>3, Stills, RelayMoves
<1>6. CASE /\ sess[s].state = "none" /\ sess' = [sess EXCEPT ![s] = y]
           /\ fromAgent' \in {fromAgent, fromAgent \o <<f>>}
  <2> DEFINE c == client[s]
             e == agent.epoch
             legacy == (m.body = "legacy")
  <2>1. sess[s] = NoSession /\ Pair(NoSession, c) /\ Begun(c) /\ e \in 0..MaxEpoch
    BY <1>2, <1>6, Stills DEF Pair, SessOK, AgentT
  <2>2. /\ x = [NoSession EXCEPT !.state = "live", !.epoch = e, !.legacy = legacy, !.started = ~(c.kind = "ssh")]
        /\ y = IF c.kind = "ssh" THEN [x EXCEPT !.send = 1] ELSE [x EXCEPT !.g = "starting"]
        /\ legacy \in BOOLEAN
    BY <1>2
  <2> HIDE DEF x, y, c, e, legacy, f
  <2>3. Pair(y, c) /\ Grown(NoSession, y)
    BY <2>1, <2>2, OpenedOK
  <2>4. y.state # "none"
    BY <2>2 DEF NoSession
  <2>5. (sess')[s] = y
    BY <1>2, <1>6, Stills
  <2>6. f \in Spoken(Out(client, sess'))
    BY <1>2, <2>4, <2>5, FrameSaid DEF f
  <2>7. <<f>> \in Seq(Spoken(Out(client, sess')))
    BY <2>6
  <2>8. Pair(y, client[s]) /\ Grown(sess[s], y)
    BY <2>1, <2>3 DEF c
  <2> HIDE DEF s
  <2>9. fromAgent' \in Seq(Spoken(Out(client, sess')))
    BY <1>2, <1>6, <2>7, <2>8, SessionSays
  <2> QED BY <1>1, <1>2, <1>6, <2>8, <2>9, Stills, SessionMoves
<1> QED BY <1>3, <1>4, <1>5, <1>6

LEMMA AgentFrameOK ==
    ASSUME Inv, Takes,
           UNCHANGED <<agent, client, toRelay, faults>>,
           NEW m, m = Head(relay.toAgent), m.type = "frame", AgentFrame(m)
    PROVE  Inv'
<1> DEFINE s == m.session
           x == sess[s]
           c == client[s]
           k == [x EXCEPT !.recv = @ + 1, !.started = TRUE, !.g = "dialing"]
<1>1. RelayOK(relay', In(client), Out(client, sess)) /\ m \in In(client)
  BY TakenOK
<1>2. m \in Message /\ s \in Sessions /\ FromClient(m, c)
  BY <1>1 DEF In
<1>3. Pair(x, c)
  BY <1>2, Stills
<1>4. PICK y : /\ sess' = [sess EXCEPT ![s] = y]
               /\ \/ y = x
                  \/ y = Close(x)
                  \/ x.state = "live" /\ m.seq = x.recv /\ m.body = "connect" /\ ~x.started /\ y = k
                  \/ x.state = "live" /\ m.seq = x.recv /\ m.body # "connect" /\ x.pty /\ y = Enqueue(x, m)
  BY DEF AgentFrame, Opens
<1> HIDE DEF x, c
<1>5. Pair(y, c) /\ Grown(x, y)
  <2>1. CASE y = x
    BY <1>3, <2>1, Still
  <2>2. CASE y = Close(x)
    BY <1>3, <2>2, CloseOK
  <2>3. CASE x.state = "live" /\ m.seq = x.recv /\ m.body = "connect" /\ ~x.started /\ y = k
    BY <1>2, <1>3, <2>3, ConnectOK
  <2>4. CASE x.state = "live" /\ m.seq = x.recv /\ m.body # "connect" /\ x.pty /\ y = Enqueue(x, m)
    BY <1>2, <1>3, <2>4, EnqueueOK
  <2> QED BY <1>4, <2>1, <2>2, <2>3, <2>4
<1> DEFINE e == << >>
<1>6. fromAgent' = fromAgent /\ e \in Seq(Spoken(Out(client, sess')))
  BY EmptySeq DEF AgentFrame
<1>7. Pair(y, client[s]) /\ Grown(sess[s], y)
  BY <1>5 DEF x, c
<1> HIDE DEF s, e
<1>8. fromAgent' \in Seq(Spoken(Out(client, sess')))
  BY <1>2, <1>4, <1>6, <1>7, SessionSays
<1> QED BY <1>1, <1>2, <1>4, <1>7, <1>8, Stills, SessionMoves

LEMMA AgentReadsOK ==
    ASSUME Inv, AgentReads
    PROVE  Inv' /\ relay.toAgent # << >> /\ relay'.toAgent = Tail(relay.toAgent)
<1> DEFINE m == Head(relay.toAgent)
<1>1. /\ relay.toAgent # << >> /\ Takes
      /\ UNCHANGED <<agent, client, toRelay, faults>>
      /\ \/ m.type = "open" /\ \E full \in BOOLEAN : AgentOpen(m, full)
         \/ m.type = "frame" /\ AgentFrame(m)
         \/ m.type = "close" /\ CloseSession(m.session) /\ UNCHANGED fromAgent
  BY DEF AgentReads, Takes
<1>2. RelayOK(relay', In(client), Out(client, sess)) /\ m \in In(client) /\ relay'.toAgent = Tail(relay.toAgent)
  BY <1>1, TakenOK
<1> HIDE DEF m
<1>3. ASSUME m.type = "open", NEW full \in BOOLEAN, AgentOpen(m, full) PROVE Inv'
  <2>1. m = Head(relay.toAgent)
    BY DEF m
  <2> QED BY <1>1, <1>3, <2>1, AgentOpenOK
<1>4. ASSUME m.type = "frame", AgentFrame(m) PROVE Inv'
  <2>1. m = Head(relay.toAgent)
    BY DEF m
  <2> QED BY <1>1, <1>4, <2>1, AgentFrameOK
<1>5. ASSUME m.type = "close", CloseSession(m.session), UNCHANGED fromAgent PROVE Inv'
  <2> DEFINE s == m.session
             y == Close(sess[s])
             e == << >>
  <2>1. s \in Sessions /\ sess' = [sess EXCEPT ![s] = y] /\ fromAgent' = fromAgent
    BY <1>2, <1>5 DEF In, CloseSession
  <2>2. Pair(y, client[s]) /\ Grown(sess[s], y)
    BY <2>1, Stills, CloseOK
  <2>3. e \in Seq(Spoken(Out(client, sess')))
    BY EmptySeq
  <2> HIDE DEF s, y, e
  <2>4. fromAgent' \in Seq(Spoken(Out(client, sess')))
    BY <2>1, <2>2, <2>3, SessionSays
  <2> QED BY <1>1, <1>2, <2>1, <2>2, <2>4, Stills, SessionMoves
<1> QED BY <1>1, <1>2, <1>3, <1>4, <1>5

\* The steps of a session's goroutine that say nothing.
LEMMA SilentSteps ==
    ASSUME Inv, NEW s \in Sessions,
           StartTerminal(s) \/ OpenTarget(s) \/ Attach(s) \/ WriteInput(s) \/ ProcessExits(s) \/ SessionTimer(s)
    PROVE  Inv' /\ relay' = relay
<1> DEFINE x == sess[s]
           c == client[s]
           y1 == [x EXCEPT !.g = "attach", !.tty = "live"]
           y2 == [x EXCEPT !.input = Tail(@), !.wrote = Append(@, Head(x.input))]
           y3 == [x EXCEPT !.tty = "dead"]
<1>1. Pair(x, c) /\ sess = [t \in Sessions |-> sess[t]]
  BY Stills
<1>2. UNCHANGED <<relay, agent, client, toRelay, fromAgent, faults>>
  BY DEF StartTerminal, OpenTarget, Attach, WriteInput, ProcessExits, SessionTimer
<1>3. PICK y : /\ sess' = [sess EXCEPT ![s] = y]
               /\ \/ x.g \in {"starting", "dialing"} /\ y = y1
                  \/ x.g = "attach" /\ y = AttachTo(x)
                  \/ x.input # << >> /\ y = y2
                  \/ x.g = "run" /\ y = y3
                  \/ y = Close(x)
  <2>1. CASE StartTerminal(s)
    <3>1. sess' = [sess EXCEPT ![s] = y1] /\ x.g = "starting"
      BY <1>1, <2>1 DEF StartTerminal
    <3> HIDE DEF x, y1
    <3> QED BY <3>1
  <2>2. CASE OpenTarget(s)
    <3>1. sess' = [sess EXCEPT ![s] = y1] /\ x.g = "dialing"
      BY <1>1, <2>2 DEF OpenTarget
    <3> HIDE DEF x, y1
    <3> QED BY <3>1
  <2>3. CASE Attach(s)
    BY <2>3 DEF Attach
  <2>4. CASE WriteInput(s)
    <3>1. sess' = [sess EXCEPT ![s] = y2] /\ x.input # << >>
      BY <1>1, <2>4 DEF WriteInput
    <3> HIDE DEF x, y2
    <3> QED BY <3>1
  <2>5. CASE ProcessExits(s)
    <3>1. sess' = [sess EXCEPT ![s] = y3] /\ x.g = "run"
      BY <1>1, <2>5 DEF ProcessExits
    <3> HIDE DEF x, y3
    <3> QED BY <3>1
  <2>6. CASE SessionTimer(s)
    BY <2>6 DEF SessionTimer, CloseSession
  <2> QED BY <2>1, <2>2, <2>3, <2>4, <2>5, <2>6
<1> HIDE DEF x, c
<1>4. Pair(y, c) /\ Grown(x, y)
  <2>1. CASE x.g \in {"starting", "dialing"} /\ y = y1
    BY <1>1, <2>1, StartedOK
  <2>2. CASE x.g = "attach" /\ y = AttachTo(x)
    BY <1>1, <2>2, AttachToOK
  <2>3. CASE x.input # << >> /\ y = y2
    BY <1>1, <2>3, WriteOK
  <2>4. CASE x.g = "run" /\ y = y3
    BY <1>1, <2>4, ExitOK
  <2>5. CASE y = Close(x)
    BY <1>1, <2>5, CloseOK
  <2> QED BY <1>3, <2>1, <2>2, <2>3, <2>4, <2>5
<1> DEFINE e == << >>
<1>5. Pair(y, client[s]) /\ Grown(sess[s], y) /\ sess' = [sess EXCEPT ![s] = y]
  BY <1>3, <1>4 DEF x, c
<1>6. e \in Seq(Spoken(Out(client, sess'))) /\ fromAgent' = fromAgent
  BY <1>2, EmptySeq
<1> HIDE DEF e, y1, y2, y3
<1>7. fromAgent' \in Seq(Spoken(Out(client, sess')))
  BY <1>5, <1>6, SessionSays
<1> QED BY <1>2, <1>5, <1>7, Stills, SessionMoves

\* A step of a session that sends ms.
LEMMA SayingSteps ==
    ASSUME Inv, NEW s \in Sessions, NEW y, sess' = [sess EXCEPT ![s] = y],
           Pair(y, client[s]), Grown(sess[s], y),
           NEW ms, ms \in Seq(Spoken(Out(client, sess'))), fromAgent' = Say(s, ms),
           UNCHANGED <<relay, agent, client, toRelay, faults>>
    PROVE  Inv' /\ relay' = relay
<1>1. fromAgent' \in {fromAgent, fromAgent \o ms}
  BY DEF Say
<1>2. fromAgent' \in Seq(Spoken(Out(client, sess')))
  BY <1>1, SessionSays
<1> QED BY <1>2, Stills, SessionMoves

LEMMA EndsSaying ==
    ASSUME Inv, NEW s \in Sessions, StartFails(s) \/ TerminalEnds(s)
    PROVE  Inv' /\ relay' = relay
<1> DEFINE x == sess[s]
           c == client[s]
           y == [Close(x) EXCEPT !.g = "done"]
           m == Control("close", s)
<1>1. Pair(x, c) /\ x.g \in {"starting", "ending", "run"}
  BY Stills DEF StartFails, TerminalEnds
<1>2. /\ sess' = [sess EXCEPT ![s] = y] /\ fromAgent' = Say(s, <<m>>)
      /\ UNCHANGED <<relay, agent, client, toRelay, faults>>
  BY DEF StartFails, TerminalEnds
<1>3. m \in Spoken(Out(client, sess'))
  BY WiresOK
<1> HIDE DEF x, c, m
<1>4. Pair(y, c) /\ Grown(x, y)
  BY <1>1, DoneOK
<1> HIDE DEF y
<1> DEFINE ms == <<m>>
<1>5. ms \in Seq(Spoken(Out(client, sess'))) /\ fromAgent' = Say(s, ms)
  BY <1>2, <1>3
<1> HIDE DEF ms
<1> QED BY <1>2, <1>4, <1>5, SayingSteps DEF x, c

LEMMA TargetFailsOK ==
    ASSUME Inv, NEW s \in Sessions, TargetFails(s)
    PROVE  Inv' /\ relay' = relay
<1> DEFINE x == sess[s]
           c == client[s]
           y == [Close(x) EXCEPT !.g = "done", !.send = @ + 1]
           m == Control("close", s)
           f == Frame(s, x.send, "error", 0)
           ms == <<f>> \o <<m>>
<1>1. Pair(x, c) /\ x.g = "dialing"
  BY Stills DEF TargetFails
<1>2. /\ sess' = [sess EXCEPT ![s] = y] /\ fromAgent' = Say(s, ms)
      /\ UNCHANGED <<relay, agent, client, toRelay, faults>>
  <2>1. Sealed(s, sess[s], "error") = <<f>>
    BY DEF Sealed
  <2>2. /\ fromAgent' = Say(s, Sealed(s, sess[s], "error") \o <<m>>)
        /\ UNCHANGED <<relay, agent, client, toRelay, faults>>
    BY DEF TargetFails
  <2>3. sess' = [sess EXCEPT ![s] = y]
    BY DEF TargetFails
  <2> HIDE DEF f, m, y
  <2> QED BY <2>1, <2>2, <2>3
<1>3. m \in Spoken(Out(client, sess'))
  BY WiresOK
<1> HIDE DEF x, c, m, f, y
<1>4. Pair(y, c) /\ Grown(x, y)
  BY <1>1, FailsOK DEF y
<1>5. (sess')[s] = y /\ y.state # "none" /\ Begun(client[s]) /\ x.send \in Nat
  <2>1. x.state # "none" /\ Begun(c) /\ x.send \in Nat
    BY <1>1 DEF Pair, SessOK, NoSession, SendOK, SessionT
  <2> QED BY <1>2, <1>4, <2>1, Stills DEF Grown, c
<1>6. f \in Spoken(Out(client, sess'))
  BY <1>5, FrameSaid DEF f
<1>7. ms \in Seq(Spoken(Out(client, sess')))
  BY <1>3, <1>6
<1> HIDE DEF ms
<1> QED BY <1>2, <1>4, <1>7, SayingSteps DEF x, c

LEMMA SayReadyOK ==
    ASSUME Inv, NEW s \in Sessions, SayReady(s)
    PROVE  Inv' /\ relay' = relay
<1> DEFINE x == sess[s]
           c == client[s]
           g == IF OnLine(s) THEN "run" ELSE "ending"
           y == [x EXCEPT !.g = g, !.send = @ + 1]
           f == Frame(s, x.send, "ready", 0)
           ms == <<f>>
<1>1. Pair(x, c) /\ x.g = "hello" /\ g \in {"run", "ending"} /\ sess = [t \in Sessions |-> sess[t]]
  BY Stills DEF SayReady
<1>2. /\ sess' = [sess EXCEPT ![s] = y]
      /\ fromAgent' = Say(s, ms)
      /\ UNCHANGED <<relay, agent, client, toRelay, faults>>
  BY <1>1 DEF SayReady, Sealed
<1> HIDE DEF x, c, f, y, g
<1>4. Pair(y, c) /\ Grown(x, y)
  BY <1>1, ReadyOK DEF y
<1>5. (sess')[s] = y /\ y.state # "none" /\ Begun(client[s]) /\ x.send \in Nat
  <2>1. x.state # "none" /\ Begun(c) /\ x.send \in Nat
    BY <1>1 DEF Pair, SessOK, NoSession, SendOK, SessionT
  <2> QED BY <1>2, <1>4, <2>1, Stills DEF Grown, c
<1>6. f \in Spoken(Out(client, sess'))
  BY <1>5, FrameSaid DEF f
<1>7. ms \in Seq(Spoken(Out(client, sess')))
  BY <1>6
<1> HIDE DEF ms
<1> QED BY <1>2, <1>4, <1>7, SayingSteps DEF x, c

LEMMA ReadOutputOK ==
    ASSUME Inv, NEW s \in Sessions, ReadOutput(s)
    PROVE  Inv' /\ relay' = relay
<1> DEFINE x == sess[s]
           c == client[s]
           g == IF OnLine(s) THEN "run" ELSE "ending"
           y == [x EXCEPT !.made = @ + 1, !.send = @ + 1, !.g = g]
           f == Frame(s, x.send, "output", x.made + 1)
           ms == <<f>>
<1>1. Pair(x, c) /\ x.g = "run" /\ g \in {"run", "ending"} /\ sess = [t \in Sessions |-> sess[t]]
  BY Stills DEF ReadOutput
<1>2. /\ sess' = [sess EXCEPT ![s] = y]
      /\ fromAgent' = Say(s, ms)
      /\ UNCHANGED <<relay, agent, client, toRelay, faults>>
  BY <1>1 DEF ReadOutput, Sealed
<1> HIDE DEF x, c, f, g
<1>3. y.made = x.made + 1 /\ x.made \in Nat /\ x.send \in Nat /\ x.send = Lead(c) + x.made
  BY <1>1 DEF Pair, SessionT, SendOK
<1> HIDE DEF y
<1>4. Pair(y, c) /\ Grown(x, y)
  BY <1>1, OutputOK DEF y
<1>5. (sess')[s] = y /\ y.state # "none" /\ Begun(client[s])
  <2>1. x.state # "none" /\ Begun(c)
    BY <1>1 DEF Pair, SessOK, NoSession, SendOK
  <2> QED BY <1>2, <1>4, <2>1, Stills DEF Grown, c
<1>6. f \in Spoken(Out(client, sess'))
  <2> DEFINE n == x.made + 1
             k == x.send
  <2>1. n \in Nat /\ k \in Nat /\ n \in 1..((sess')[s]).made /\ k = Lead(client[s]) + n - 1
    BY <1>3, <1>5 DEF c, Lead
  <2>2. f = Frame(s, k, "output", n)
    BY DEF f
  <2> HIDE DEF n, k
  <2> QED BY <1>5, <2>1, <2>2, FrameSaid
<1>7. ms \in Seq(Spoken(Out(client, sess')))
  BY <1>6
<1> HIDE DEF ms
<1> QED BY <1>2, <1>4, <1>7, SayingSteps DEF x, c

-----------------------------------------------------------------------------
(* The clients' steps.                                                     *)

LEMMA FrameSent ==
    ASSUME NEW c, NEW s \in Sessions, Begun(c[s]), NEW k \in Nat, NEW n \in Nat, k < c[s].send,
           NEW body \in {"connect", "input"},
           IF c[s].kind = "ssh" /\ k = 0 THEN body = "connect" ELSE body # "connect" /\ n = Count(c[s], k + 1)
    PROVE  Frame(s, k, body, n) \in Of(In(c), s)
<1> DEFINE m == Frame(s, k, body, n)
<1>1. m \in Message /\ m.type = "frame" /\ m.session = s /\ m.seq = k /\ m.body = body /\ m.n = n
  BY DEF Frame, Message
<1> HIDE DEF m
<1>2. FromClient(m, c[s])
  BY <1>1 DEF FromClient
<1>3. m \in Of(In(c), s)
  BY <1>1, <1>2 DEF Of, In
<1> QED BY <1>3 DEF m

\* What a client may add to its socket.
LEMMA ClientSays ==
    ASSUME Inv, NEW s \in Sessions, NEW d, client' = [client EXCEPT ![s] = d],
           Pair(sess[s], d), Ahead(client[s], d), NEW ms \in Seq(Of(In(client'), s))
    PROVE  toRelay[s] \o ms \in Seq(Of(In(client'), s)) /\ toRelay[s] \in Seq(Of(In(client'), s))
<1>1. \A t \in Sessions : (client')[t] = IF t = s THEN d ELSE client[t]
  BY Stills
<1>2. \A t \in Sessions : client[t] \in ClientT /\ (client')[t] \in ClientT /\ Ahead(client[t], (client')[t])
  BY <1>1, Stills DEF Pair
<1>3. In(client) \subseteq In(client')
  BY <1>2, GrowIn
<1>4. toRelay[s] \in Seq(Of(In(client'), s))
  BY <1>3, Stills, RoutedGrows DEF Routed
<1> QED BY <1>4, ConcatProperties

\* The client hangs up, with or without a word.
LEMMA HangsUpOK ==
    ASSUME Inv, NEW s \in Sessions, UNCHANGED <<sess, fromAgent, agent>>, faults' \in 0..MaxFaults,
           client' = [client EXCEPT ![s].pc = "closed"],
           RelayOK(relay', In(client), Out(client, sess)),
           NEW g, g = Control("gone", s), NEW e, e = Control("close", s),
           toRelay' \in {toRelay, [toRelay EXCEPT ![s] = <<g>>],
                         [toRelay EXCEPT ![s] = toRelay[s] \o << >> \o <<g>>],
                         [toRelay EXCEPT ![s] = toRelay[s] \o <<e>> \o <<g>>]}
    PROVE  Inv'
<1> DEFINE c == client[s]
           d == [c EXCEPT !.pc = "closed"]
           S == Of(In(client'), s)
           q == toRelay[s]
<1>1. client' = [client EXCEPT ![s] = d]
  OBVIOUS
<1> HIDE DEF d
<1>2. Pair(sess[s], d) /\ Ahead(client[s], d)
  <2> HIDE DEF c
  <2>1. Pair(sess[s], c)
    BY Stills DEF c
  <2>2. Pair(sess[s], d) /\ Ahead(c, d)
    BY <2>1, PcOK DEF d
  <2> QED BY <2>2 DEF c
<1>3. g \in S /\ e \in S
  BY WiresOK
<1>4. q \in Seq(S)
  <2> DEFINE ms == << >>
  <2>1. ms \in Seq(S)
    BY EmptySeq
  <2> HIDE DEF ms
  <2> QED BY <1>1, <1>2, <2>1, ClientSays
<1> HIDE DEF S, q
<1>5. /\ <<g>> \in Seq(S) /\ <<e>> \in Seq(S) /\ << >> \in Seq(S)
  BY <1>3
<1>6. q \o << >> \o <<g>> \in Seq(S) /\ q \o <<e>> \o <<g>> \in Seq(S)
  BY <1>4, <1>5, ConcatProperties
<1>7. PICK w : w \in Seq(S) /\ toRelay' \in {toRelay, [toRelay EXCEPT ![s] = w]}
  BY <1>5, <1>6 DEF q
<1> QED BY <1>1, <1>2, <1>7, ClientMoves DEF S

LEMMA LeavesOK ==
    ASSUME Inv, NEW s \in Sessions, Leave(s) \/ ClientDrops(s)
    PROVE  Inv' /\ relay' = relay
<1> DEFINE g == Control("gone", s)
           e == Control("close", s)
<1>1. /\ UNCHANGED <<sess, fromAgent, agent, relay>> /\ client' = [client EXCEPT ![s].pc = "closed"]
  BY DEF Leave, ClientDrops, ClientEnds
<1>2. faults' \in 0..MaxFaults
  BY Stills, TerminalAssumption DEF Leave, ClientDrops
<1>3. toRelay' \in {toRelay, [toRelay EXCEPT ![s] = <<g>>],
                    [toRelay EXCEPT ![s] = toRelay[s] \o << >> \o <<g>>],
                    [toRelay EXCEPT ![s] = toRelay[s] \o <<e>> \o <<g>>]}
  BY DEF Leave, ClientDrops, ClientEnds
<1> HIDE DEF g, e
<1>4. g = Control("gone", s) /\ e = Control("close", s)
  BY DEF g, e
<1> QED BY <1>1, <1>2, <1>3, <1>4, Stills, HangsUpOK

LEMMA DiscoverOK ==
    ASSUME Inv, NEW s \in Sessions, Discover(s)
    PROVE  Inv' /\ relay' = relay
<1> DEFINE c == client[s]
           pc == IF AgentValid(relay) THEN "found" ELSE "closed"
           e == IF AgentValid(relay) THEN relay.a.epoch ELSE 0
<1>1. Pair(sess[s], c) /\ c.pc = "idle" /\ client = [t \in Sessions |-> client[t]]
  BY Stills DEF Discover
<1>2. PICK kind \in Kinds : client' = [client EXCEPT ![s].kind = kind, ![s].pc = pc, ![s].epoch = e]
  BY DEF Discover, Kinds
<1> DEFINE d == [c EXCEPT !.kind = kind, !.pc = pc, !.epoch = e]
           q == << >>
<1>3. client' = [client EXCEPT ![s] = d]
  BY <1>1, <1>2
<1>4. UNCHANGED <<relay, agent, sess, toRelay, fromAgent, faults>>
  BY DEF Discover
<1>5. pc \in {"found", "closed"} /\ e \in 0..MaxEpoch
  <2>1. relay.a \in AgentSock
    BY Stills, RelayType
  <2> QED BY <2>1, TerminalAssumption DEF AgentSock
<1> HIDE DEF c, pc, e
<1>6. Pair(sess[s], d) /\ Ahead(c, d)
  BY <1>1, <1>5, AskingOK
<1> HIDE DEF d
<1>7. q \in Seq(Of(In(client'), s))
  BY EmptySeq
<1> HIDE DEF q
<1> QED BY <1>3, <1>4, <1>6, <1>7, Stills, ClientMoves DEF c

LEMMA DialOK ==
    ASSUME Inv, NEW s \in Sessions, Dial(s)
    PROVE  Inv' /\ Mutes
<1> DEFINE A == In(client)
           B == Out(client, sess)
           c == client[s]
           m == Request(s, c.epoch, c.kind)
           d == [c EXCEPT !.pc = "opening"]
<1>1. RelayOK(relay, A, B) /\ Wires(A, B) /\ Pair(sess[s], c) /\ c \in ClientT /\ c.pc = "found"
      /\ client = [t \in Sessions |-> client[t]]
  BY Stills DEF Dial
<1>2. RelayOK(relay', A, B) /\ Mutes
  <2>1. PICK full \in BOOLEAN : relay' = IF s \in relay.ok THEN UpgradeBrowser(relay, s, full) ELSE relay
    BY DEF Dial
  <2> HIDE DEF A, B
  <2>2. CASE relay' = UpgradeBrowser(relay, s, full)
    BY <1>1, <2>2, UpgradeBrowserOK, QuietMutes
  <2>3. CASE relay' = relay
    BY <1>1, <2>3, SilentEmpty DEF Mutes
  <2> QED BY <2>1, <2>2, <2>3
<1>3. UNCHANGED <<agent, sess, fromAgent, faults>>
  BY DEF Dial
<1>4. CASE relay'.b[s].sock = "open"
  <2>1. client' = [client EXCEPT ![s] = d] /\ toRelay' = [toRelay EXCEPT ![s] = <<m>>]
    <3>1. client' = [client EXCEPT ![s].pc = "opening"] /\ toRelay' = [toRelay EXCEPT ![s] = <<m>>]
      BY <1>4 DEF Dial, Request
    <3> HIDE DEF m
    <3> QED BY <1>1, <3>1
  <2>2. Pair(sess[s], d) /\ Ahead(c, d) /\ Begun(d) /\ d.kind = c.kind
    <3> HIDE DEF c
    <3> QED BY <1>1, PcOK
  <2>3. m \in Message /\ m.type = "open" /\ m.session = s /\ m.body = c.kind
    <3> DEFINE e == c.epoch
               k == c.kind
    <3>1. e \in Nat /\ k \in Kinds
      BY <1>1, TerminalAssumption DEF ClientT
    <3> HIDE DEF e, k
    <3>2. /\ Request(s, e, k) \in Message /\ Request(s, e, k).type = "open"
          /\ Request(s, e, k).session = s /\ Request(s, e, k).body = k
      BY <3>1 DEF Request, Control, Message, Kinds
    <3> QED BY <3>2 DEF e, k
  <2>4. (client')[s] = d
    BY <1>1, <2>1
  <2> HIDE DEF m, d, c
  <2>5. m \in Of(In(client'), s)
    BY <2>2, <2>3, <2>4 DEF Of, In, FromClient
  <2> DEFINE q == <<m>>
  <2>6. q \in Seq(Of(In(client'), s)) /\ toRelay' = [toRelay EXCEPT ![s] = q]
    BY <2>1, <2>5
  <2> HIDE DEF q
  <2> QED BY <1>2, <1>3, <2>1, <2>2, <2>6, Stills, ClientMoves DEF c
<1>5. CASE relay'.b[s].sock # "open"
  <2>1. client' = [client EXCEPT ![s].pc = "closed"] /\ toRelay' = toRelay
    BY <1>5 DEF Dial
  <2> DEFINE g == Control("gone", s)
             e == Control("close", s)
  <2>2. toRelay' \in {toRelay, [toRelay EXCEPT ![s] = <<g>>],
                      [toRelay EXCEPT ![s] = toRelay[s] \o << >> \o <<g>>],
                      [toRelay EXCEPT ![s] = toRelay[s] \o <<e>> \o <<g>>]}
    BY <2>1
  <2> HIDE DEF g, e
  <2>3. g = Control("gone", s) /\ e = Control("close", s)
    BY DEF g, e
  <2> QED BY <1>2, <1>3, <2>1, <2>2, <2>3, Stills, HangsUpOK
<1> QED BY <1>4, <1>5

LEMMA TypeOKs ==
    ASSUME Inv, NEW s \in Sessions, Type(s)
    PROVE  Inv' /\ relay' = relay
<1> DEFINE c == client[s]
           d == [c EXCEPT !.typed = @ + 1, !.send = @ + 1]
           k == c.send
           n == c.typed + 1
           m == Frame(s, k, "input", n)
<1>1. Pair(sess[s], c) /\ c \in ClientT /\ c.pc = "ready" /\ client = [t \in Sessions |-> client[t]]
  BY Stills DEF Type
<1>2. /\ client' = [client EXCEPT ![s] = d] /\ toRelay' = [toRelay EXCEPT ![s] = Append(toRelay[s], m)]
      /\ UNCHANGED <<relay, agent, sess, fromAgent, faults>>
  BY <1>1 DEF Type
<1>3. (client')[s] = d
  BY <1>1, <1>2
<1> HIDE DEF c
<1>4. /\ Pair(sess[s], d) /\ Ahead(c, d) /\ Begun(d) /\ d.kind = c.kind /\ d.send = c.send + 1
      /\ c.typed + 1 = Count(c, c.send + 1) /\ (c.kind = "ssh" => c.send # 0)
  BY <1>1, TypedOK
<1> HIDE DEF d
<1>5. k \in Nat /\ n \in Nat /\ k < d.send /\ n = Count(d, k + 1) /\ ~(d.kind = "ssh" /\ k = 0)
  BY <1>1, <1>4 DEF ClientT, Count
<1> HIDE DEF k, n
<1>6. m \in Of(In(client'), s)
  BY <1>3, <1>4, <1>5, FrameSent
<1> HIDE DEF m
<1> DEFINE q == Append(toRelay[s], m)
<1>7. q \in Seq(Of(In(client'), s))
  <2> DEFINE e == << >>
  <2>1. e \in Seq(Of(In(client'), s))
    BY EmptySeq
  <2> HIDE DEF e
  <2>2. toRelay[s] \in Seq(Of(In(client'), s))
    BY <1>2, <1>4, <2>1, ClientSays DEF c
  <2> QED BY <1>6, <2>2, AppendProperties
<1>8. toRelay' = [toRelay EXCEPT ![s] = q]
  BY <1>2
<1> HIDE DEF q
<1> QED BY <1>2, <1>4, <1>7, <1>8, Stills, ClientMoves DEF c

\* The messages that wait for a client, one less.
ReadBy(s) == [relay EXCEPT !.toClient[s] = Tail(@)]

LEMMA ReadOK ==
    ASSUME Inv, NEW s \in Sessions, relay.toClient[s] # << >>, NEW r, r = ReadBy(s)
    PROVE  /\ RelayOK(r, In(client), Out(client, sess)) /\ r.toAgent = relay.toAgent
           /\ Head(relay.toClient[s]) \in Of(Out(client, sess), s)
<1> DEFINE B == Out(client, sess)
           v == Tail(relay.toClient[s])
           q == [relay.toClient EXCEPT ![s] = v]
<1>1. Routed(relay.toClient, B) /\ B \subseteq Message /\ relay.toClient \in [Sessions -> Seq(Message)]
  BY Stills, RelayType DEF Wires
<1>2. Head(relay.toClient[s]) \in Of(B, s) /\ v \in Seq(Of(B, s))
  BY <1>1, HeadTailProperties DEF Routed
<1>3. r = [relay EXCEPT !.toClient = q]
  BY DEF ReadBy
<1> HIDE DEF v, B
<1>4. q = [t \in Sessions |-> q[t]] /\ Routed(q, B)
  BY <1>1, <1>2 DEF Routed
<1> HIDE DEF q
<1>5. RelayOK([relay EXCEPT !.toClient = q], In(client), B) /\ [relay EXCEPT !.toClient = q].toAgent = relay.toAgent
  BY <1>1, <1>4, Stills, SetToClient DEF B
<1> QED BY <1>2, <1>3, <1>5 DEF B

\* What Receive does about the message m of client c.
Effect(s, c, m) ==
    \/ ClientEnds(s, << >>)
    \/ /\ c.pc = "opening" /\ c.kind = "ssh"
       /\ client' = [client EXCEPT ![s] = [c EXCEPT !.recv = c.recv + 1, !.pc = "selected",
                                                    !.send = c.send + 1]]
       /\ toRelay' = [toRelay EXCEPT ![s] = Append(@, Frame(s, c.send, "connect", 0))]
    \/ /\ c.pc = IF c.kind = "ssh" THEN "selected" ELSE "opening"
       /\ client' = [client EXCEPT ![s] = [c EXCEPT !.recv = c.recv + 1, !.pc = "ready"]]
       /\ toRelay' = toRelay
    \/ /\ m.type = "frame" /\ m.seq = c.recv /\ m.body = "output" /\ c.pc = "ready"
       /\ client' = [client EXCEPT ![s] = [c EXCEPT !.recv = c.recv + 1, !.shown = Append(c.shown, m.n)]]
       /\ toRelay' = toRelay

LEMMA Received ==
    ASSUME NEW s \in Sessions, Receive(s), client = [t \in Sessions |-> client[t]],
           NEW c, c = client[s], c \in ClientT, NEW m, m = Head(relay.toClient[s])
    PROVE  Effect(s, c, m)
<1> DEFINE next == [c EXCEPT !.recv = c.recv + 1]
<1>1. next.send = c.send /\ next.shown = c.shown
  BY DEF ClientT
<1>2. /\ [next EXCEPT !.pc = "selected", !.send = @ + 1]
            = [c EXCEPT !.recv = c.recv + 1, !.pc = "selected", !.send = c.send + 1]
      /\ [next EXCEPT !.pc = "ready"] = [c EXCEPT !.recv = c.recv + 1, !.pc = "ready"]
      /\ [next EXCEPT !.shown = Append(@, m.n)] = [c EXCEPT !.recv = c.recv + 1, !.shown = Append(c.shown, m.n)]
  BY <1>1
<1>3. \/ ClientEnds(s, << >>)
      \/ /\ c.pc = "opening" /\ c.kind = "ssh"
         /\ client' = [client EXCEPT ![s] = [next EXCEPT !.pc = "selected", !.send = @ + 1]]
         /\ toRelay' = [toRelay EXCEPT ![s] = Append(@, Frame(s, c.send, "connect", 0))]
      \/ /\ c.pc = IF c.kind = "ssh" THEN "selected" ELSE "opening"
         /\ client' = [client EXCEPT ![s] = [next EXCEPT !.pc = "ready"]]
         /\ toRelay' = toRelay
      \/ /\ m.type = "frame" /\ m.seq = c.recv /\ m.body = "output" /\ c.pc = "ready"
         /\ client' = [client EXCEPT ![s] = [next EXCEPT !.shown = Append(@, m.n)]]
         /\ toRelay' = toRelay
  BY DEF Receive
<1> QED BY <1>2, <1>3 DEF Effect

LEMMA ReceiveOK ==
    ASSUME Inv, NEW s \in Sessions, Receive(s)
    PROVE  Inv' /\ relay'.toAgent = relay.toAgent
<1> DEFINE c == client[s]
           m == Head(relay.toClient[s])
           g == Control("gone", s)
           e == Control("close", s)
<1>1. Pair(sess[s], c) /\ c \in ClientT /\ client = [t \in Sessions |-> client[t]]
  BY Stills
<1>2. relay.toClient[s] # << >> /\ relay' = ReadBy(s) /\ UNCHANGED <<agent, sess, fromAgent, faults>>
  BY DEF Receive, ReadBy
<1>3. /\ RelayOK(relay', In(client), Out(client, sess)) /\ relay'.toAgent = relay.toAgent
      /\ m \in Of(Out(client, sess), s)
  BY <1>2, ReadOK
<1>4. m \in Message /\ FromSession(m, sess[s], c)
  BY <1>3 DEF Of, Out
<1>5. Effect(s, c, m)
  <2> HIDE DEF c, m
  <2>1. c = client[s] /\ m = Head(relay.toClient[s])
    BY DEF c, m
  <2> QED BY <1>1, <2>1, Received
<1> HIDE DEF m
<1> DEFINE n0 == << >>
<1>6. n0 \in Seq(Of(In(client'), s))
  BY EmptySeq
<1>7. ASSUME ClientEnds(s, << >>) PROVE Inv'
  <2>1. client' = [client EXCEPT ![s].pc = "closed"]
    BY <1>7 DEF ClientEnds
  <2>2. toRelay' \in {toRelay, [toRelay EXCEPT ![s] = <<g>>],
                      [toRelay EXCEPT ![s] = toRelay[s] \o << >> \o <<g>>],
                      [toRelay EXCEPT ![s] = toRelay[s] \o <<e>> \o <<g>>]}
    BY <1>7 DEF ClientEnds
  <2> HIDE DEF g, e
  <2>3. g = Control("gone", s) /\ e = Control("close", s)
    BY DEF g, e
  <2> QED BY <1>2, <1>3, <2>1, <2>2, <2>3, Stills, HangsUpOK
<1>8. ASSUME c.pc = "opening", c.kind = "ssh",
             client' = [client EXCEPT ![s] = [c EXCEPT !.recv = c.recv + 1, !.pc = "selected",
                                                       !.send = c.send + 1]],
             toRelay' = [toRelay EXCEPT ![s] = Append(@, Frame(s, c.send, "connect", 0))]
      PROVE  Inv'
  <2> DEFINE k == c.recv + 1
             n == c.send + 1
             d == [c EXCEPT !.recv = k, !.pc = "selected", !.send = n]
             f == Frame(s, c.send, "connect", 0)
  <2>1. client' = [client EXCEPT ![s] = d] /\ (client')[s] = d
    BY <1>1, <1>8
  <2>2. Pair(sess[s], d) /\ Ahead(c, d) /\ Begun(d) /\ d.kind = "ssh" /\ c.send = 0 /\ d.send = 1
    <3> HIDE DEF c, d, k, n
    <3>1. Pair(sess[s], c) /\ c.pc = "opening" /\ c.kind = "ssh"
      BY <1>1, <1>8
    <3>2. c.recv = 0 /\ c.send = 0
      BY <3>1 DEF Pair, ClientOK
    <3>3. k = 1 /\ n = 1
      BY <3>2 DEF k, n
    <3>4. d = [c EXCEPT !.recv = 1, !.pc = "selected", !.send = 1]
      BY <3>3 DEF d
    <3> QED BY <3>1, <3>4, SelectedOK
  <2> DEFINE q == Append(toRelay[s], f)
  <2>3. toRelay' = [toRelay EXCEPT ![s] = q]
    BY <1>8
  <2> HIDE DEF d, f
  <2>4. f \in Of(In(client'), s)
    <3>1. f = Frame(s, 0, "connect", 0) /\ 0 < d.send /\ 0 \in Nat
      BY <2>2 DEF f
    <3> QED BY <2>1, <2>2, <3>1, FrameSent
  <2>5. q \in Seq(Of(In(client'), s))
    <3> HIDE DEF n0
    <3>1. toRelay[s] \in Seq(Of(In(client'), s))
      BY <1>6, <2>1, <2>2, ClientSays
    <3> QED BY <2>4, <3>1, AppendProperties
  <2> HIDE DEF q
  <2> QED BY <1>2, <1>3, <2>1, <2>2, <2>3, <2>5, Stills, ClientMoves
<1>9. ASSUME c.pc = IF c.kind = "ssh" THEN "selected" ELSE "opening",
             client' = [client EXCEPT ![s] = [c EXCEPT !.recv = c.recv + 1, !.pc = "ready"]],
             toRelay' = toRelay
      PROVE  Inv'
  <2> DEFINE k == c.recv + 1
             d == [c EXCEPT !.recv = k, !.pc = "ready"]
  <2>1. client' = [client EXCEPT ![s] = d]
    BY <1>9
  <2>2. Pair(sess[s], d) /\ Ahead(c, d)
    <3> HIDE DEF c
    <3>1. Pair(sess[s], c) /\ c.pc = IF c.kind = "ssh" THEN "selected" ELSE "opening"
      BY <1>1, <1>9
    <3> QED BY <3>1, ReadiedOK
  <2> HIDE DEF d, n0
  <2> QED BY <1>2, <1>3, <1>6, <1>9, <2>1, <2>2, Stills, ClientMoves
<1>10. ASSUME m.type = "frame", m.seq = c.recv, m.body = "output", c.pc = "ready",
              client' = [client EXCEPT ![s] = [c EXCEPT !.recv = c.recv + 1, !.shown = Append(c.shown, m.n)]],
              toRelay' = toRelay
      PROVE  Inv'
  <2> DEFINE d == [c EXCEPT !.recv = c.recv + 1, !.shown = Append(c.shown, m.n)]
  <2>1. client' = [client EXCEPT ![s] = d]
    BY <1>10
  <2>2. Pair(sess[s], d) /\ Ahead(c, d)
    <3> HIDE DEF c
    <3> QED BY <1>1, <1>4, <1>10, ShownOK
  <2> HIDE DEF d, n0
  <2> QED BY <1>2, <1>3, <1>6, <1>10, <2>1, <2>2, Stills, ClientMoves
<1> QED BY <1>3, <1>5, <1>7, <1>8, <1>9, <1>10 DEF Effect

-----------------------------------------------------------------------------
LEMMA InitInv ==
    ASSUME Init
    PROVE  Inv
<1>1. sess = [s \in Sessions |-> sess[s]] /\ client = [s \in Sessions |-> client[s]]
      /\ toRelay = [s \in Sessions |-> toRelay[s]]
  BY DEF Init
<1>2. agent \in AgentT /\ faults \in 0..MaxFaults
  BY TerminalAssumption DEF Init, AgentT
<1>3. fromAgent \in Seq(Spoken(Out(client, sess)))
  BY EmptySeq DEF Init
<1>4. Routed(toRelay, In(client))
  <2>1. ASSUME NEW s \in Sessions PROVE toRelay[s] = << >>
    BY DEF Init
  <2> QED BY <2>1, EmptySeq DEF Routed
<1>5. ASSUME NEW s \in Sessions PROVE Pair(sess[s], client[s])
  <2> DEFINE x == sess[s]
             c == client[s]
  <2>1. x = NoSession /\ c = [pc |-> "idle", kind |-> "shell", epoch |-> 0, send |-> 0, recv |-> 0,
                              typed |-> 0, shown |-> << >>]
    BY DEF Init
  <2> HIDE DEF x, c
  <2>2. x \in SessionT /\ c \in ClientT
    BY <2>1, TerminalAssumption DEF NoSession, SessionT, ClientT, Kinds
  <2>3. SessOK(x) /\ SendOK(x, c)
    BY <2>1 DEF NoSession, SessOK, SendOK
  <2>4. InputOK(x, c) /\ ClientOK(x, c)
    BY <2>1 DEF NoSession, InputOK, ClientOK, Count
  <2>5. Pair(x, c)
    BY <2>2, <2>3, <2>4 DEF Pair
  <2> QED BY <2>5 DEF x, c
<1>6. RelayOK(relay, In(client), Out(client, sess))
  <2>1. /\ relay.a = [epoch |-> 0, sock |-> "none", fresh |-> FALSE]
        /\ relay.b = [s \in Sessions |-> [epoch |-> 0, sock |-> "none", fresh |-> FALSE, verify |-> 0, mode |-> "none"]]
        /\ relay.toAgent = << >> /\ relay.toClient = [s \in Sessions |-> << >>]
        /\ relay.ok = Sessions \cup {Host}
        /\ relay = [a |-> relay.a, b |-> relay.b, toAgent |-> relay.toAgent, toClient |-> relay.toClient, ok |-> relay.ok]
    BY DEF Init
  <2>2. relay.a \in AgentSock /\ relay.b \in [Sessions -> Sock] /\ \A s \in Sessions : relay.b[s].verify = 0
    BY <2>1, TerminalAssumption DEF AgentSock, Sock
  <2>3. relay.toAgent \in Seq(In(client)) /\ relay.toClient \in [Sessions -> Seq(Message)]
    BY <2>1, EmptySeq
  <2>4. relay \in Relays(In(client))
    BY <2>1, <2>2, <2>3 DEF Relays
  <2>5. Verifiable(relay.b, In(client)) /\ Routed(relay.toClient, Out(client, sess))
    BY <2>1, <2>2, EmptySeq DEF Verifiable, Routed
  <2> QED BY <2>4, <2>5 DEF RelayOK
<1> QED BY <1>1, <1>2, <1>3, <1>4, <1>5, <1>6 DEF Inv

\* What a step does to the messages that wait for the agent.
Shortens == relay.toAgent # << >> /\ relay'.toAgent = Tail(relay.toAgent)

LEMMA KeptMutes ==
    ASSUME relay'.toAgent = relay.toAgent
    PROVE  Mutes
BY SilentEmpty DEF Mutes

LEMMA NextInv ==
    ASSUME Inv, [Next]_vars
    PROVE  Inv' /\ (Mutes \/ Shortens)
<1>1. CASE UNCHANGED vars
  <2>1. UNCHANGED <<relay, agent, sess, client, toRelay, fromAgent, faults>>
    BY <1>1 DEF vars
  <2> QED BY <2>1, Stills, RelayMoves, KeptMutes
<1>2. CASE RelayReadsAgent
  BY <1>2, ReadsAgentOK
<1>3. CASE RelayPinged
  BY <1>3, PingedOK
<1>4. CASE SocketStale
  BY <1>4, StaleOK
<1>5. CASE AgentRefused
  <2>1. relay' = relay
    BY <1>5 DEF AgentRefused
  <2> QED BY <1>5, <2>1, RefusedOK, KeptMutes
<1>6. CASE AgentConnects \/ AgentConnectLost
  BY <1>6, ConnectsOK
<1>7. CASE AgentLosesConnection \/ AgentStops
  <2>1. relay' = relay
    BY <1>7 DEF AgentLosesConnection, AgentStops
  <2> QED BY <1>7, <2>1, LosesOK, KeptMutes
<1>8. CASE AgentHungUp
  BY <1>8, HungUpOK
<1>9. CASE AgentReads
  BY <1>9, AgentReadsOK DEF Shortens
<1>10. ASSUME NEW s \in Sessions, RelayStep(s) PROVE Inv' /\ Mutes
  BY <1>10, ReadsClientOK, VerifiesOK DEF RelayStep
<1>11. ASSUME NEW s \in Sessions, TerminalStep(s) \/ ProcessExits(s) \/ SessionTimer(s) PROVE Inv' /\ Mutes
  <2>1. Inv' /\ relay' = relay
    BY <1>11, SilentSteps, EndsSaying, TargetFailsOK, SayReadyOK, ReadOutputOK DEF TerminalStep
  <2> QED BY <2>1, KeptMutes
<1>12. ASSUME NEW s \in Sessions,
              Discover(s) \/ Dial(s) \/ Receive(s) \/ Type(s) \/ Leave(s) \/ ClientDrops(s)
       PROVE  Inv' /\ Mutes
  BY <1>12, DiscoverOK, DialOK, ReceiveOK, TypeOKs, LeavesOK, KeptMutes
<1>13. ASSUME NEW x \in Sessions \cup {Host}, Revoke(x) \/ Expire(x) PROVE Inv' /\ Mutes
  BY <1>13, RevokeOK
<1> QED BY <1>1, <1>2, <1>3, <1>4, <1>5, <1>6, <1>7, <1>8, <1>9, <1>10, <1>11, <1>12, <1>13 DEF Next

-----------------------------------------------------------------------------
(* The theorems.                                                           *)

LEMMA InvHolds == Spec => []Inv
<1>1. Init => Inv
  BY InitInv
<1>2. Inv /\ [Next]_vars => Inv'
  BY NextInv
<1> QED BY <1>1, <1>2, PTL DEF Spec

LEMMA InvTypeOK ==
    ASSUME Inv
    PROVE  TypeOK
<1>1. /\ relay.a \in AgentSock /\ relay.b \in [Sessions -> Sock] /\ relay.toAgent \in Seq(In(client))
      /\ relay.ok \subseteq Sessions \cup {Host} /\ relay.toClient \in [Sessions -> Seq(Message)]
  BY Stills, RelayType
<1>2. In(client) \subseteq Message /\ Spoken(Out(client, sess)) \subseteq Message
  BY DEF In, Spoken, Out
<1>3. relay.toAgent \in Seq(Message) /\ fromAgent \in Seq(Message)
  BY <1>1, <1>2, Stills, SeqMonotonic
<1>4. ASSUME NEW s \in Sessions PROVE toRelay[s] \in Seq(Message)
  <2>1. Of(In(client), s) \subseteq Message /\ toRelay[s] \in Seq(Of(In(client), s))
    BY <1>2, Stills DEF Of, Routed
  <2> QED BY <2>1, SeqMonotonic
<1>5. toRelay \in [Sessions -> Seq(Message)]
  BY <1>4, Stills
<1>6. agent \in AgentT /\ faults \in 0..MaxFaults
  BY Stills
<1> QED BY <1>1, <1>3, <1>5, <1>6 DEF TypeOK, AgentSock, Sock, AgentT

\* The relay, the agent's connection and what is on the sockets keep their
\* types: a verification never waits for a connection number that was not
\* given out, and every message is one (relay.ts, agent.go).
THEOREM TypeCorrect == Spec => []TypeOK
<1>1. Inv => TypeOK
  BY InvTypeOK
<1> QED BY <1>1, InvHolds, PTL

\* No shell outlives its session, for any number of sessions: close() of a
\* session and attach() of its terminal may come in either order (agent.go).
THEOREM NoShellIsOrphaned == Spec => []NoOrphanShell
<1>1. Inv => NoOrphanShell
  <2> SUFFICES ASSUME Inv, NEW s \in Sessions, sess[s].tty = "live", sess[s].state # "live"
               PROVE  sess[s].g = "attach"
    BY DEF NoOrphanShell
  <2>1. SessOK(sess[s])
    BY Stills DEF Pair
  <2> QED BY <2>1 DEF SessOK
<1> QED BY <1>1, InvHolds, PTL

LEMMA CountsIs ==
    ASSUME NEW q \in Seq(Nat), \A i \in 1..Len(q) : q[i] = i
    PROVE  q = [n \in 1..Len(q) |-> n]
<1>1. q \in [1..Len(q) -> Nat]
  BY LenProperties
<1> QED BY <1>1

\* The process of a session reads what its user typed and the user sees what it
\* wrote, in order and without gaps, for every number of sessions, of inputs and
\* outputs and of reconnections (ShellCipher, the input queue, relay.ts).
THEOREM ArrivesInOrder == Spec => []InOrder
<1>1. Inv => InOrder
  <2> SUFFICES ASSUME Inv, NEW s \in Sessions
               PROVE  /\ sess[s].wrote = [n \in 1..Len(sess[s].wrote) |-> n]
                      /\ client[s].shown = [n \in 1..Len(client[s].shown) |-> n]
                      /\ Len(sess[s].wrote) <= client[s].typed /\ Len(client[s].shown) <= sess[s].made
    BY DEF InOrder
  <2> DEFINE x == sess[s]
             c == client[s]
  <2>1. x \in SessionT /\ c \in ClientT /\ InputOK(x, c) /\ ClientOK(x, c)
    BY Stills DEF Pair
  <2> HIDE DEF x, c
  <2>2. x.wrote \in Seq(Nat) /\ c.shown \in Seq(Nat) /\ x.input \in Seq(Nat)
    BY <2>1 DEF SessionT, ClientT
  <2>3. x.wrote = [n \in 1..Len(x.wrote) |-> n]
    BY <2>1, <2>2, CountsIs DEF InputOK
  <2>4. c.shown = [n \in 1..Len(c.shown) |-> n]
    BY <2>1, <2>2, CountsIs DEF ClientOK
  <2>5. Len(x.wrote) <= c.typed
    <3> DEFINE a == Len(x.wrote)
               b == Len(x.input)
    <3>1. a \in Nat /\ b \in Nat /\ x.recv \in Nat /\ c.send \in Nat /\ x.recv <= c.send
      BY <2>1, <2>2, LenProperties DEF InputOK, SessionT, ClientT
    <3>2. a + b = Count(c, x.recv) /\ c.typed = Count(c, c.send)
      BY <2>1 DEF InputOK, ClientOK
    <3> HIDE DEF a, b
    <3>3. a <= c.typed
      BY <3>1, <3>2 DEF Count
    <3> QED BY <3>3 DEF a
  <2>6. Len(c.shown) <= x.made
    BY <2>1 DEF ClientOK
  <2> QED BY <2>3, <2>4, <2>5, <2>6 DEF x, c
<1> QED BY <1>1, InvHolds, PTL

LEMMA ForwFinite ==
    ASSUME NEW A, NEW q \in Seq(A), NEW s
    PROVE  IsFiniteSet(Forw(q, s))
<1>1. Len(q) \in Nat
  BY LenProperties
<1>2. IsFiniteSet(1..Len(q)) /\ Forw(q, s) \in SUBSET (1..Len(q))
  BY <1>1, FS_Interval DEF Forw
<1> QED BY <1>2, FS_Subset

\* Taking a message leaves no more of them.
LEMMA ForwTail ==
    ASSUME NEW A, NEW q \in Seq(A), q # << >>, NEW s
    PROVE  Cardinality(Forw(Tail(q), s)) <= Cardinality(Forw(q, s))
<1> DEFINE T == Forw(Tail(q), s)
           f == [i \in T |-> i + 1]
<1>1. /\ Len(q) \in Nat \ {0} /\ Len(Tail(q)) = Len(q) - 1
      /\ \A i \in 1..Len(Tail(q)) : Tail(q)[i] = q[i + 1]
  BY EmptySeq, HeadTailProperties
<1>2. ASSUME NEW i \in T PROVE i \in Nat /\ i + 1 \in Forw(q, s)
  <2>1. i \in 1..Len(Tail(q)) /\ Tail(q)[i].session = s /\ Tail(q)[i].type # "close"
    BY DEF Forw
  <2>2. i \in Nat /\ i + 1 \in 1..Len(q) /\ q[i + 1] = Tail(q)[i]
    BY <1>1, <2>1
  <2> QED BY <2>1, <2>2 DEF Forw
<1> HIDE DEF T
<1>3. f \in Injection(T, Forw(q, s))
  <2>1. f \in [T -> Forw(q, s)]
    BY <1>2
  <2>2. \A i, j \in T : f[i] = f[j] => i = j
    BY <1>2
  <2> QED BY <2>1, <2>2 DEF Injection, IsInjective
<1> HIDE DEF f
<1> QED BY <1>3, ForwFinite, FS_Injection DEF T

\* A client whose device was revoked or expired, or whose target was, reaches
\* the agent no more (message() of relay.ts, for every interleaving of the
\* verification's yield).
THEOREM RevokedStaysSilent == Spec => RevokedIsSilent
<1> DEFINE P == \A s \in Sessions : s \notin relay.ok \/ Host \notin relay.ok =>
                   Cardinality(Forwarded(s)') <= Cardinality(Forwarded(s))
<1>1. ASSUME Inv, [Next]_vars PROVE [P]_vars
  <2>1. /\ relay.toAgent \in Seq(In(client)) /\ Inv' /\ (Mutes \/ Shortens)
    BY <1>1, NextInv, Stills, RelayType
  <2> SUFFICES ASSUME NEW s \in Sessions, s \notin relay.ok \/ Host \notin relay.ok
               PROVE  Cardinality(Forwarded(s)') <= Cardinality(Forwarded(s))
    OBVIOUS
  <2>2. Forwarded(s) = Forw(relay.toAgent, s) /\ Forwarded(s)' = Forw(relay'.toAgent, s)
    BY DEF Forwarded, Forw
  <2>3. CASE Mutes
    <3>1. Forw(relay'.toAgent, s) \in SUBSET Forw(relay.toAgent, s)
      BY <2>3 DEF Mutes, Silent
    <3>2. IsFiniteSet(Forw(relay.toAgent, s))
      BY <2>1, ForwFinite
    <3> QED BY <2>2, <3>1, <3>2, FS_Subset
  <2>4. CASE Shortens
    <3>1. relay.toAgent # << >> /\ relay'.toAgent = Tail(relay.toAgent)
      BY <2>4 DEF Shortens
    <3> QED BY <2>1, <2>2, <3>1, ForwTail
  <2> QED BY <2>1, <2>3, <2>4
<1>2. Inv /\ [Next]_vars => [P]_vars
  BY <1>1
<1> HIDE DEF P
<1>3. Spec => [][P]_vars
  BY <1>2, InvHolds, PTL DEF Spec
<1> QED BY <1>3 DEF P, RevokedIsSilent

=============================================================================
