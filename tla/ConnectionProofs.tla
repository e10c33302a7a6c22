-------------------------- MODULE ConnectionProofs --------------------------
(***************************************************************************)
(* Proofs about Connection. Every action replaces the record of one call,  *)
(* so each invariant is stated of a record (and of known_hosts) and proved *)
(* of what the helpers that end an attempt return.                         *)
(***************************************************************************)
EXTENDS Connection, WellFoundedInduction, TLAPS

Call == [plan : Plan, proc : Procs, pc : Steps, hop : Hop, forced : BOOLEAN,
         kind : [Hop -> Kind \cup {"none"}],
         prefer : [Hop -> SUBSET Range(Default)],
         key : Keys \cup {NoKey}, expired : BOOLEAN,
         open : SUBSET Resource, owned : SUBSET Resource,
         refused : SUBSET Hosts]

\* What no step of a call changes.
Same(x, y) == y.plan = x.plan /\ y.proc = x.proc

-----------------------------------------------------------------------------
(* The helpers on a call, field by field.                                  *)

\* Goto changes the step and nothing else.
LEMMA GotoFacts ==
    ASSUME NEW x \in Call, NEW s \in Steps
    PROVE  LET y == Goto(x, s)
           IN  /\ y \in Call /\ Same(x, y) /\ y.pc = s /\ y.hop = x.hop /\ y.forced = x.forced
               /\ y.kind = x.kind /\ y.prefer = x.prefer /\ y.key = x.key /\ y.expired = x.expired
               /\ y.open = x.open /\ y.owned = x.owned /\ y.refused = x.refused
BY DEF Goto, Call, Same

\* Opened adds to what is open and changes nothing else.
LEMMA OpenedFacts ==
    ASSUME NEW x \in Call, NEW R, R \subseteq Resource
    PROVE  LET y == Opened(x, R)
           IN  /\ y \in Call /\ Same(x, y) /\ y.pc = x.pc /\ y.hop = x.hop /\ y.forced = x.forced
               /\ y.kind = x.kind /\ y.prefer = x.prefer /\ y.key = x.key /\ y.expired = x.expired
               /\ y.open = x.open \cup R /\ y.owned = x.owned /\ y.refused = x.refused
<1> DEFINE o == x.open \cup R
<1>1. o \in SUBSET Resource
  BY DEF Call
<1>2. Opened(x, R) = [x EXCEPT !.open = o]
  BY DEF Opened
<1> HIDE DEF o
<1>3. LET y == [x EXCEPT !.open = o]
      IN  /\ y \in Call /\ Same(x, y) /\ y.pc = x.pc /\ y.hop = x.hop /\ y.forced = x.forced
          /\ y.kind = x.kind /\ y.prefer = x.prefer /\ y.key = x.key /\ y.expired = x.expired
          /\ y.open = o /\ y.owned = x.owned /\ y.refused = x.refused
  BY <1>1 DEF Call, Same
<1> QED
  BY <1>2, <1>3 DEF o

\* Dropped removes from what is open and changes nothing else.
LEMMA DroppedFacts ==
    ASSUME NEW x \in Call, NEW R
    PROVE  LET y == Dropped(x, R)
           IN  /\ y \in Call /\ Same(x, y) /\ y.pc = x.pc /\ y.hop = x.hop /\ y.forced = x.forced
               /\ y.kind = x.kind /\ y.prefer = x.prefer /\ y.key = x.key /\ y.expired = x.expired
               /\ y.open = x.open \ R /\ y.owned = x.owned /\ y.refused = x.refused
<1> DEFINE o == x.open \ R
<1>1. o \in SUBSET Resource
  BY DEF Call
<1>2. Dropped(x, R) = [x EXCEPT !.open = o]
  BY DEF Dropped
<1> HIDE DEF o
<1>3. LET y == [x EXCEPT !.open = o]
      IN  /\ y \in Call /\ Same(x, y) /\ y.pc = x.pc /\ y.hop = x.hop /\ y.forced = x.forced
          /\ y.kind = x.kind /\ y.prefer = x.prefer /\ y.key = x.key /\ y.expired = x.expired
          /\ y.open = o /\ y.owned = x.owned /\ y.refused = x.refused
  BY <1>1 DEF Call, Same
<1> QED
  BY <1>2, <1>3 DEF o

\* DialFails closes the closer of the target and its vault.
LEMMA DialFailsFacts ==
    ASSUME NEW x \in Call
    PROVE  LET y == DialFails(x)
           IN  /\ y \in Call /\ Same(x, y) /\ y.pc = "failed" /\ y.hop = x.hop /\ y.forced = x.forced
               /\ y.kind = x.kind /\ y.prefer = x.prefer /\ y.key = x.key
               /\ y.open = x.open \ (Closer(x, "target") \cup {T("vault")})
               /\ y.owned = x.owned /\ y.refused = x.refused
<1> DEFINE z == Dropped(x, Closer(x, "target") \cup {T("vault")})
<1>1. z \in Call
  BY DroppedFacts
<1>2. "failed" \in Steps
  BY DEF Steps
<1> QED
  BY <1>1, <1>2, GotoFacts, DroppedFacts DEF DialFails, Same

-----------------------------------------------------------------------------
(* The inductive invariant.                                                *)

Strict(plan) == plan.strict \/ plan.vault = "session"
Shaking == {"shake", "check", "lock", "recheck", "append", "login"}
Connected == {"discover", "observe"} \cup Using

\* A jump host is another host, and a call is at it only when its route is
\* through it; and where each step of Dial and ProbeRoute takes place.
HopOK(x) ==
    /\ x.plan.route = "jump" => x.plan.jump \in Hosts \ {x.plan.host}
    /\ x.hop = "jump" => x.plan.route = "jump"
    /\ x.pc \in {"resolvejump", "connect"} => x.hop = "jump"
    /\ x.pc \in {"idle", "resolve", "banner", "failed", "closed"} \cup Connected => x.hop = "target"
    /\ x.hop = "target" /\ x.pc \in {"resolve", "auth", "config"} \cup Shaking \cup Connected
         => ~x.plan.probe
    /\ x.pc = "banner" => x.plan.probe

\* When a call may hold a resource: what each error path has to close.
MayHold(x, r) ==
    \/ r \in {T("signers"), J("signers")}
    \/ /\ r = T("vault") /\ ~x.plan.probe
       /\ x.pc \notin {"idle", "resolve", "banner", "failed", "closed"} \cup Using
    \/ /\ r = T("agent") /\ r \in x.owned /\ ~x.plan.probe
       /\ x.pc \notin {"idle", "resolve", "banner", "failed", "closed"}
    \/ /\ r \in {T("conn"), T("process")}
       /\ x.hop = "target" /\ x.pc \in Shaking \cup Connected \cup {"banner"}
    \/ r = T("ssh") /\ x.pc \in Connected
    \/ r = T("observe") /\ x.pc \in {"observe"} \cup Using
    \/ r = T("session") /\ x.pc \in {"exec", "attached", "opening", "terminal"}
    \/ r = T("raw") /\ x.pc = "attached"
    \/ r = J("vault") /\ x.hop = "jump" /\ x.pc \in {"auth", "config", "transport", "connect"} \cup Shaking
    \/ /\ r = J("agent") /\ r \in x.owned
       /\ \/ x.pc \in {"banner", "connect"} \cup Shaking \cup Connected
          \/ x.hop = "jump" /\ x.pc \in {"config", "transport"}
    \/ r \in {J("conn"), J("process")} /\ x.pc \in {"banner", "connect"} \cup Shaking \cup Connected
    \/ /\ r = J("ssh")
       /\ \/ x.pc = "connect"
          \/ x.hop = "target" /\ x.pc \in Shaking \cup Connected \cup {"banner"}
OpenOK(x) == \A r \in x.open : MayHold(x, r)

\* A strict route: each transport that was tried is the configured one, and
\* whoever is past the transport to the target came through the jump host.
RouteOK(x) ==
    Strict(x.plan) =>
        /\ x.kind["target"] \in {"none", Configured(x.plan)}
        /\ x.kind["jump"] \in {"none", x.plan.jroute}
        /\ x.plan.route = "jump" /\ x.pc \in Shaking \cup Connected \cup {"connect"}
             => x.kind["jump"] = x.plan.jroute

\* Trust on first use: only a host without a line at the start is pinned, and
\* the key of a verified login is in the file.
TrustOK(x, k) ==
    /\ x.pc \in Shaking \ {"shake"} => x.key \in Keys
    /\ x.pc \in {"lock", "recheck", "append"} => ~x.plan.insecure /\ Pinned[HostOf(x)] = << >>
    /\ x.pc \in {"login", "connect", "discover"} /\ ~x.plan.insecure /\ x.key # NoKey
         => x.key \in Range(k[HostOf(x)])

CallInv(x, k) == x \in Call /\ HopOK(x) /\ OpenOK(x) /\ RouteOK(x) /\ TrustOK(x, k)

KnownInv ==
    /\ known \in [Hosts -> Seq(Keys)]
    /\ \A h \in Hosts : Pinned[h] # << >> => known[h] = Pinned[h]
MuInv == mu \in [Procs -> Dials \cup {"free"}]
Inv ==
    /\ KnownInv
    /\ MuInv
    /\ dial \in [Dials -> Call]
    /\ \A d \in Dials : CallInv(dial[d], known)

-----------------------------------------------------------------------------
(* The ends of an attempt.                                                 *)

\* AttemptFails retries directly, which a strict call never does, or fails.
LEMMA AttemptFacts ==
    ASSUME NEW x \in Call
    PROVE  LET y == AttemptFails(x)
           IN  /\ y \in Call /\ Same(x, y) /\ y.hop = "target" /\ y.kind = x.kind
               /\ y.prefer = x.prefer /\ y.key = NoKey /\ y.owned = x.owned /\ y.refused = x.refused
               /\ \/ /\ y.pc = "transport" /\ ~Strict(x.plan) /\ ~x.plan.probe /\ y.open = x.open
                  \/ /\ y.pc = "failed"
                     /\ y.open = x.open \ (Closer(x, "target") \cup {T("vault")})
<1> DEFINE z == [x EXCEPT !.hop = "target", !.key = NoKey, !.expired = FALSE]
           w == [z EXCEPT !.pc = "transport", !.forced = TRUE]
<1>1. /\ z \in Call /\ Same(x, z) /\ z.hop = "target" /\ z.kind = x.kind
      /\ z.prefer = x.prefer /\ z.key = NoKey /\ z.owned = x.owned /\ z.refused = x.refused
      /\ z.open = x.open
  BY DEF Call, Same, Hop
<1> HIDE DEF z
<1>2. /\ w \in Call /\ Same(z, w) /\ w.hop = z.hop /\ w.kind = z.kind
      /\ w.prefer = z.prefer /\ w.key = z.key /\ w.owned = z.owned /\ w.refused = z.refused
      /\ w.open = z.open /\ w.pc = "transport"
  BY <1>1 DEF Call, Same, Steps
<1> HIDE DEF w
<1>3. AttemptFails(x) = IF z.kind["target"] # "direct" /\ ~StrictRoute(z) /\ ~z.plan.probe
                        THEN w ELSE DialFails(z)
  BY DEF AttemptFails, z, w
<1>4. StrictRoute(z) <=> Strict(x.plan)
  BY <1>1 DEF StrictRoute, Strict, Same
<1>5. Closer(z, "target") = Closer(x, "target")
  BY <1>1 DEF Closer
<1>6. CASE z.kind["target"] # "direct" /\ ~StrictRoute(z) /\ ~z.plan.probe
  BY <1>1, <1>2, <1>3, <1>4, <1>6 DEF Same
<1>7. CASE ~(z.kind["target"] # "direct" /\ ~StrictRoute(z) /\ ~z.plan.probe)
  <2>1. AttemptFails(x) = DialFails(z)
    BY <1>3, <1>7
  <2> QED
    BY <2>1, <1>1, <1>5, DialFailsFacts DEF Same
<1> QED
  BY <1>6, <1>7

\* What is left to the target itself when an attempt has been cleaned up.
Bare(x) ==
    \A r \in x.open :
        \/ r \in {T("signers"), J("signers")}
        \/ ~x.plan.probe /\ (r = T("vault") \/ (r = T("agent") /\ r \in x.owned))

\* What an attempt on y starts from: the plan, the route so far.
RouteSoFar(x) ==
    /\ x.plan.route = "jump" => x.plan.jump \in Hosts \ {x.plan.host}
    /\ Strict(x.plan) => /\ x.kind["target"] \in {"none", Configured(x.plan)}
                         /\ x.kind["jump"] \in {"none", x.plan.jroute}

\* An attempt that left nothing but the target's credentials ends well.
LEMMA AttemptEnds ==
    ASSUME NEW x \in Call, NEW k, RouteSoFar(x), Bare(x)
    PROVE  CallInv(AttemptFails(x), k)
<1> DEFINE y == AttemptFails(x)
<1>1. /\ y \in Call /\ Same(x, y) /\ y.hop = "target" /\ y.kind = x.kind /\ y.owned = x.owned
      /\ \/ /\ y.pc = "transport" /\ ~Strict(x.plan) /\ ~x.plan.probe /\ y.open = x.open
         \/ /\ y.pc = "failed"
            /\ y.open = x.open \ (Closer(x, "target") \cup {T("vault")})
  BY AttemptFacts
<1> HIDE DEF y
<1>2. HopOK(y)
  BY <1>1 DEF HopOK, RouteSoFar, Same, Connected, Shaking, Using
<1>3. OpenOK(y)
  <2> SUFFICES ASSUME NEW r \in y.open PROVE MayHold(y, r)
    BY DEF OpenOK
  <2>1. CASE y.pc = "transport"
    BY <2>1, <1>1 DEF Bare, MayHold, Same, Using
  <2>2. CASE y.pc = "failed"
    BY <2>2, <1>1 DEF Bare, MayHold, Same, Closer, T
  <2> QED
    BY <2>1, <2>2, <1>1
<1>4. RouteOK(y)
  BY <1>1 DEF RouteOK, RouteSoFar, Same, Connected, Shaking, Using
<1>5. TrustOK(y, k)
  BY <1>1 DEF TrustOK, Shaking
<1> QED
  BY <1>1, <1>2, <1>3, <1>4, <1>5 DEF CallInv, y

\* Dial before its first attempt fails.
LEMMA DialEnds ==
    ASSUME NEW x \in Call, NEW k, RouteSoFar(x), Bare(x), x.hop = "target"
    PROVE  CallInv(DialFails(x), k)
<1> DEFINE y == DialFails(x)
<1>1. /\ y \in Call /\ Same(x, y) /\ y.hop = "target" /\ y.kind = x.kind /\ y.owned = x.owned
      /\ y.pc = "failed" /\ y.open = x.open \ (Closer(x, "target") \cup {T("vault")})
  BY DialFailsFacts
<1> HIDE DEF y
<1>2. HopOK(y)
  BY <1>1 DEF HopOK, RouteSoFar, Same, Connected, Shaking, Using
<1>3. OpenOK(y)
  BY <1>1 DEF OpenOK, Bare, MayHold, Same, Closer, T
<1>4. RouteOK(y)
  BY <1>1 DEF RouteOK, RouteSoFar, Same, Connected, Shaking, Using
<1>5. TrustOK(y, k)
  BY <1>1 DEF TrustOK, Shaking
<1> QED
  BY <1>1, <1>2, <1>3, <1>4, <1>5 DEF CallInv, y

\* The same for what is dropped first.
LEMMA DropEnds ==
    ASSUME NEW x \in Call, NEW k, NEW D, RouteSoFar(x),
           \A r \in x.open \ D :
              \/ r \in {T("signers"), J("signers")}
              \/ ~x.plan.probe /\ (r = T("vault") \/ (r = T("agent") /\ r \in x.owned))
    PROVE  CallInv(AttemptFails(Dropped(x, D)), k)
<1> DEFINE y == Dropped(x, D)
<1>1. /\ y \in Call /\ Same(x, y) /\ y.kind = x.kind /\ y.owned = x.owned /\ y.open = x.open \ D
  BY DroppedFacts
<1> HIDE DEF y
<1>2. RouteSoFar(y) /\ Bare(y)
  BY <1>1 DEF RouteSoFar, Bare, Same
<1> QED
  BY <1>1, <1>2, AttemptEnds DEF y

LEMMA RouteFromInv ==
    ASSUME NEW x, NEW k, CallInv(x, k)
    PROVE  x \in Call /\ RouteSoFar(x)
BY DEF CallInv, HopOK, RouteOK, RouteSoFar

\* HandshakeFails closes the transport, and what the jump host opened.
LEMMA HandshakeEnds ==
    ASSUME NEW x, NEW k, CallInv(x, k), x.pc \in Shaking
    PROVE  CallInv(HandshakeFails(x), k)
<1>1. x \in Call /\ RouteSoFar(x) /\ HopOK(x) /\ \A r \in x.open : MayHold(x, r)
  BY RouteFromInv DEF CallInv, OpenOK
<1>2. x.pc \notin {"banner", "connect", "auth", "config", "transport", "exec", "attached", "opening",
                  "terminal"} \cup Connected
  BY DEF Shaking, Connected, Using
<1>3. CASE x.hop = "jump"
  <2> DEFINE D == CloseConn("jump") \cup {J("vault")} \cup Closer(x, "jump")
  <2>1. \A r \in x.open \ D :
          \/ r \in {T("signers"), J("signers")}
          \/ ~x.plan.probe /\ (r = T("vault") \/ (r = T("agent") /\ r \in x.owned))
    BY <1>1, <1>2, <1>3 DEF MayHold, CloseConn, Closer, T, J, Connected
  <2>2. CallInv(AttemptFails(Dropped(x, D)), k)
    BY <1>1, <2>1, DropEnds
  <2> QED
    BY <2>2, <1>3 DEF HandshakeFails, JumpHandshakeFails
<1>4. CASE x.hop # "jump"
  <2> DEFINE D == CloseConn("target") \cup Aux(x)
  <2>1. \A r \in x.open \ D :
          \/ r \in {T("signers"), J("signers")}
          \/ ~x.plan.probe /\ (r = T("vault") \/ (r = T("agent") /\ r \in x.owned))
    BY <1>1, <1>2, <1>4 DEF MayHold, CloseConn, CloseSSH, Aux, Closer, T, J, Connected
  <2>2. CallInv(AttemptFails(Dropped(x, D)), k)
    BY <1>1, <2>1, DropEnds
  <2> QED
    BY <2>2, <1>4 DEF HandshakeFails, TargetHandshakeFails
<1> QED
  BY <1>3, <1>4

\* TransportFails has no transport to close.
LEMMA TransportEnds ==
    ASSUME NEW x, NEW k, CallInv(x, k), x.pc = "transport"
    PROVE  CallInv(TransportFails(x), k)
<1>1. x \in Call /\ RouteSoFar(x) /\ \A r \in x.open : MayHold(x, r)
  BY RouteFromInv DEF CallInv, OpenOK
<1>2. x.pc \notin {"banner", "connect"} \cup Shaking \cup Connected
  BY DEF Shaking, Connected, Using
<1>3. CASE x.hop = "jump"
  <2> DEFINE D == Closer(x, "jump") \cup {J("vault")}
  <2>1. \A r \in x.open \ D :
          \/ r \in {T("signers"), J("signers")}
          \/ ~x.plan.probe /\ (r = T("vault") \/ (r = T("agent") /\ r \in x.owned))
    BY <1>1, <1>2, <1>3 DEF MayHold, Closer, T, J, Connected
  <2>2. CallInv(AttemptFails(Dropped(x, D)), k)
    BY <1>1, <2>1, DropEnds
  <2> QED
    BY <2>2, <1>3 DEF TransportFails, JumpTransportFails
<1>4. CASE x.hop # "jump"
  <2>1. Bare(x)
    BY <1>1, <1>2, <1>4 DEF MayHold, Bare, T, J, Connected
  <2> QED
    BY <1>1, <2>1, <1>4, AttemptEnds DEF TransportFails
<1> QED
  BY <1>3, <1>4

\* AuthFails comes before the closer of the hop exists, or after it closed.
LEMMA AuthEnds ==
    ASSUME NEW x, NEW k, CallInv(x, k), x.pc \in {"auth", "config"},
           x.hop = "jump" => J("agent") \notin x.open
    PROVE  CallInv(AuthFails(x), k)
<1>1. x \in Call /\ RouteSoFar(x) /\ \A r \in x.open : MayHold(x, r)
  BY RouteFromInv DEF CallInv, OpenOK
<1>2. x.pc \notin {"banner", "connect"} \cup Shaking \cup Connected
  BY DEF Shaking, Connected, Using
<1>3. CASE x.hop = "jump"
  <2>1. \A r \in x.open \ {J("vault")} :
          \/ r \in {T("signers"), J("signers")}
          \/ ~x.plan.probe /\ (r = T("vault") \/ (r = T("agent") /\ r \in x.owned))
    BY <1>1, <1>2, <1>3 DEF MayHold, T, J, Connected
  <2>2. CallInv(AttemptFails(Dropped(x, {J("vault")})), k)
    BY <1>1, <2>1, DropEnds
  <2> QED
    BY <2>2, <1>3 DEF AuthFails, JumpFails
<1>4. CASE x.hop # "jump"
  <2>1. Bare(x) /\ x.hop = "target"
    BY <1>1, <1>2, <1>4 DEF MayHold, Bare, T, J, Connected, Call, Hop
  <2> QED
    BY <1>1, <2>1, <1>4, DialEnds DEF AuthFails
<1> QED
  BY <1>3, <1>4

-----------------------------------------------------------------------------
(* The steps. Each replaces the record of its call by one that satisfies   *)
(* the invariant.                                                          *)

Moved(d) == \E y : dial' = [dial EXCEPT ![d] = y] /\ CallInv(y, known')

LEMMA InvFacts ==
    ASSUME Inv, NEW d \in Dials
    PROVE  /\ CallInv(dial[d], known) /\ dial[d] \in Call
           /\ HopOK(dial[d]) /\ RouteOK(dial[d]) /\ TrustOK(dial[d], known)
           /\ RouteSoFar(dial[d]) /\ \A r \in dial[d].open : MayHold(dial[d], r)
BY RouteFromInv DEF Inv, CallInv, OpenOK

\* HostOf is a host.
LEMMA HostOfIsHost ==
    ASSUME NEW x \in Call, HopOK(x)
    PROVE  HostOf(x) \in Hosts
BY DEF HostOf, HopOK, Call, Plan

\* HostOf depends on the plan and the hop.
LEMMA HostOfSame ==
    ASSUME NEW x, NEW y, Same(x, y), y.hop = x.hop
    PROVE  HostOf(y) = HostOf(x)
BY DEF HostOf, Same

LEMMA DialStep ==
    ASSUME Inv, NEW d \in Dials, Dial(d)
    PROVE  Moved(d)
<1> DEFINE x == dial[d]
           s == IF x.plan.probe THEN "transport" ELSE IF x.plan.vault # "no" THEN "resolve" ELSE "auth"
           y == Goto(x, s)
<1>1. /\ x \in Call /\ HopOK(x) /\ RouteOK(x) /\ TrustOK(x, known) /\ \A r \in x.open : MayHold(x, r)
  BY InvFacts
<1>2. x.pc = "idle" /\ dial' = [dial EXCEPT ![d] = y] /\ known' = known
  BY DEF Dial, Set
<1>3. s \in Steps /\ s \in {"transport", "resolve", "auth"} /\ (s # "transport" => ~x.plan.probe)
  BY DEF Steps
<1> HIDE DEF x, s
<1>4. /\ y \in Call /\ Same(x, y) /\ y.pc = s /\ y.hop = x.hop /\ y.kind = x.kind
      /\ y.open = x.open /\ y.owned = x.owned
  BY <1>1, <1>3, GotoFacts
<1> HIDE DEF y
<1>5. HopOK(y)
  BY <1>1, <1>2, <1>3, <1>4 DEF HopOK, Same, Connected, Shaking, Using
<1>6. OpenOK(y)
  BY <1>1, <1>2, <1>3, <1>4 DEF OpenOK, MayHold, Connected, Shaking, Using
<1>7. RouteOK(y)
  BY <1>1, <1>2, <1>3, <1>4 DEF RouteOK, Same, Connected, Shaking, Using
<1>8. TrustOK(y, known')
  BY <1>3, <1>4 DEF TrustOK, Shaking
<1> QED
  BY <1>2, <1>4, <1>5, <1>6, <1>7, <1>8 DEF Moved, CallInv

\* What the vault's signers open.
LEMMA VaultSignersFacts ==
    ASSUME NEW x, NEW h \in Hop, NEW R \in VaultSigners(x, h)
    PROVE  R \subseteq {<<h, "signers">>} /\ R \subseteq Resource
BY DEF VaultSigners, Resource

LEMMA ResolveCloudStep ==
    ASSUME Inv, NEW d \in Dials, ResolveCloud(d)
    PROVE  Moved(d)
<1> DEFINE x == dial[d]
<1>1. /\ x \in Call /\ HopOK(x) /\ RouteOK(x) /\ RouteSoFar(x) /\ \A r \in x.open : MayHold(x, r)
  BY InvFacts
<1>2. /\ x.pc = "resolve" /\ known' = known
      /\ \E R \in VaultSigners(x, "target") :
           \/ Set(d, Goto(Opened(x, R \cup (IF x.plan.vault = "session" THEN {T("vault")} ELSE {})), "auth"))
           \/ Set(d, DialFails(Opened(x, R)))
  BY DEF ResolveCloud
<1> HIDE DEF x
<1>3. PICK R \in VaultSigners(x, "target") :
           \/ Set(d, Goto(Opened(x, R \cup (IF x.plan.vault = "session" THEN {T("vault")} ELSE {})), "auth"))
           \/ Set(d, DialFails(Opened(x, R)))
  BY <1>2
<1>4. R \subseteq {T("signers")} /\ R \subseteq Resource /\ T("vault") \in Resource
  BY VaultSignersFacts DEF Hop, T, Resource
<1>5. x.hop = "target" /\ ~x.plan.probe
  BY <1>1, <1>2 DEF HopOK
<1>6. CASE Set(d, Goto(Opened(x, R \cup (IF x.plan.vault = "session" THEN {T("vault")} ELSE {})), "auth"))
  <2> DEFINE Q == R \cup (IF x.plan.vault = "session" THEN {T("vault")} ELSE {})
             z == Opened(x, Q)
             y == Goto(z, "auth")
  <2>1. Q \subseteq {T("signers"), T("vault")} /\ Q \subseteq Resource /\ "auth" \in Steps
    BY <1>4 DEF Steps
  <2> HIDE DEF Q
  <2>2. /\ z \in Call /\ Same(x, z) /\ z.hop = x.hop /\ z.kind = x.kind
        /\ z.open = x.open \cup Q /\ z.owned = x.owned
    BY <1>1, <2>1, OpenedFacts
  <2> HIDE DEF z
  <2>3. /\ y \in Call /\ Same(x, y) /\ y.pc = "auth" /\ y.hop = x.hop /\ y.kind = x.kind
        /\ y.open = x.open \cup Q /\ y.owned = x.owned
    BY <2>2, <2>1, GotoFacts DEF Same
  <2> HIDE DEF y
  <2>4. HopOK(y)
    BY <1>1, <1>2, <1>5, <2>3 DEF HopOK, Same, Connected, Shaking, Using
  <2>5. OpenOK(y)
    <3> SUFFICES ASSUME NEW r \in y.open PROVE MayHold(y, r)
      BY DEF OpenOK
    <3>1. CASE r \in Q
      BY <3>1, <2>1, <2>3, <1>5 DEF MayHold, Same, Using
    <3>2. CASE r \in x.open
      BY <3>2, <1>1, <1>2, <2>3 DEF MayHold, Connected, Shaking, Using
    <3> QED
      BY <3>1, <3>2, <2>3
  <2>6. RouteOK(y)
    BY <1>1, <1>2, <2>3 DEF RouteOK, Same, Connected, Shaking, Using
  <2>7. TrustOK(y, known')
    BY <2>3 DEF TrustOK, Shaking
  <2>8. dial' = [dial EXCEPT ![d] = y]
    BY <1>6 DEF Set, y, z, Q
  <2> QED
    BY <2>8, <2>3, <2>4, <2>5, <2>6, <2>7 DEF Moved, CallInv
<1>7. CASE Set(d, DialFails(Opened(x, R)))
  <2> DEFINE z == Opened(x, R)
  <2>1. /\ z \in Call /\ Same(x, z) /\ z.hop = x.hop /\ z.kind = x.kind
        /\ z.open = x.open \cup R /\ z.owned = x.owned
    BY <1>1, <1>4, OpenedFacts
  <2> HIDE DEF z
  <2>2. Bare(z)
    BY <2>1, <1>1, <1>2, <1>4 DEF Bare, MayHold, Connected, Shaking, Using
  <2>3. RouteSoFar(z)
    BY <2>1, <1>1 DEF RouteSoFar, Same
  <2>4. CallInv(DialFails(z), known')
    BY <2>1, <2>2, <2>3, <1>5, DialEnds
  <2> QED
    BY <2>4, <1>7 DEF Moved, Set, z
<1> QED
  BY <1>3, <1>6, <1>7

LEMMA ResolveJumpStep ==
    ASSUME Inv, NEW d \in Dials, ResolveJump(d)
    PROVE  Moved(d)
<1> DEFINE x == dial[d]
<1>1. /\ x \in Call /\ HopOK(x) /\ RouteOK(x) /\ RouteSoFar(x) /\ \A r \in x.open : MayHold(x, r)
  BY InvFacts
<1>2. /\ x.pc = "resolvejump" /\ known' = known
      /\ \E R \in VaultSigners(x, "jump") :
           \/ Set(d, Goto(Opened(x, R \cup (IF x.plan.jvault THEN {J("vault")} ELSE {})), "auth"))
           \/ Set(d, JumpFails(Opened(x, R)))
  BY DEF ResolveJump
<1> HIDE DEF x
<1>3. PICK R \in VaultSigners(x, "jump") :
           \/ Set(d, Goto(Opened(x, R \cup (IF x.plan.jvault THEN {J("vault")} ELSE {})), "auth"))
           \/ Set(d, JumpFails(Opened(x, R)))
  BY <1>2
<1>4. R \subseteq {J("signers")} /\ R \subseteq Resource /\ J("vault") \in Resource
  BY VaultSignersFacts DEF Hop, J, Resource
<1>5. x.hop = "jump"
  BY <1>1, <1>2 DEF HopOK
<1>6. CASE Set(d, Goto(Opened(x, R \cup (IF x.plan.jvault THEN {J("vault")} ELSE {})), "auth"))
  <2> DEFINE Q == R \cup (IF x.plan.jvault THEN {J("vault")} ELSE {})
             z == Opened(x, Q)
             y == Goto(z, "auth")
  <2>1. Q \subseteq {J("signers"), J("vault")} /\ Q \subseteq Resource /\ "auth" \in Steps
    BY <1>4 DEF Steps
  <2> HIDE DEF Q
  <2>2. /\ z \in Call /\ Same(x, z) /\ z.hop = x.hop /\ z.kind = x.kind
        /\ z.open = x.open \cup Q /\ z.owned = x.owned
    BY <1>1, <2>1, OpenedFacts
  <2> HIDE DEF z
  <2>3. /\ y \in Call /\ Same(x, y) /\ y.pc = "auth" /\ y.hop = x.hop /\ y.kind = x.kind
        /\ y.open = x.open \cup Q /\ y.owned = x.owned
    BY <2>2, <2>1, GotoFacts DEF Same
  <2> HIDE DEF y
  <2>4. HopOK(y)
    BY <1>1, <1>2, <1>5, <2>3 DEF HopOK, Same, Connected, Shaking, Using
  <2>5. OpenOK(y)
    <3> SUFFICES ASSUME NEW r \in y.open PROVE MayHold(y, r)
      BY DEF OpenOK
    <3>1. CASE r \in Q
      BY <3>1, <2>1, <2>3, <1>5 DEF MayHold
    <3>2. CASE r \in x.open
      BY <3>2, <1>1, <1>2, <2>3 DEF MayHold, Same, Connected, Shaking, Using
    <3> QED
      BY <3>1, <3>2, <2>3
  <2>6. RouteOK(y)
    BY <1>1, <1>2, <2>3 DEF RouteOK, Same, Connected, Shaking, Using
  <2>7. TrustOK(y, known')
    BY <2>3 DEF TrustOK, Shaking
  <2>8. dial' = [dial EXCEPT ![d] = y]
    BY <1>6 DEF Set, y, z, Q
  <2> QED
    BY <2>8, <2>3, <2>4, <2>5, <2>6, <2>7 DEF Moved, CallInv
<1>7. CASE Set(d, JumpFails(Opened(x, R)))
  <2> DEFINE z == Opened(x, R)
  <2>1. /\ z \in Call /\ Same(x, z) /\ z.hop = x.hop /\ z.kind = x.kind
        /\ z.open = x.open \cup R /\ z.owned = x.owned
    BY <1>1, <1>4, OpenedFacts
  <2> HIDE DEF z
  <2>2. \A r \in z.open \ {J("vault")} :
          \/ r \in {T("signers"), J("signers")}
          \/ ~z.plan.probe /\ (r = T("vault") \/ (r = T("agent") /\ r \in z.owned))
    BY <2>1, <1>1, <1>2, <1>4 DEF MayHold, Same, Connected, Shaking, Using
  <2>3. RouteSoFar(z)
    BY <2>1, <1>1 DEF RouteSoFar, Same
  <2>4. CallInv(AttemptFails(Dropped(z, {J("vault")})), known')
    BY <2>1, <2>2, <2>3, DropEnds
  <2> QED
    BY <2>4, <1>7 DEF Moved, Set, z, JumpFails
<1> QED
  BY <1>3, <1>6, <1>7

\* The closer buildAuth returns owns sockets of its hop only.
LEMMA MethodsFacts ==
    ASSUME NEW x \in Call, NEW r \in Methods(x) \cup {Failed}
    PROVE  /\ r.owns \subseteq {<<x.hop, "agent">>, <<x.hop, "signers">>}
           /\ r.owns \subseteq Resource
<1>1. AuthOf(x) \in Auth /\ x.hop \in Hop
  BY DEF AuthOf, Call, Plan
<1>2. Failed.owns = {} /\ \A R : Got(R).owns = R
  BY DEF Failed, Got
<1>3. r \in {Failed, Got({}), Got({<<x.hop, "agent">>}), Got({<<x.hop, "signers">>})}
  BY <1>1 DEF Methods, Auth, KeySigner, AgentSignerFor, LocalAgentSigners, AgentAuth, Here
<1> HIDE DEF Failed, Got
<1>4. r.owns \in {{}, {<<x.hop, "agent">>}, {<<x.hop, "signers">>}}
  BY <1>2, <1>3
<1> QED
  BY <1>1, <1>4 DEF Resource

LEMMA BuildAuthStep ==
    ASSUME Inv, NEW d \in Dials, BuildAuth(d)
    PROVE  Moved(d)
<1> DEFINE x == dial[d]
<1>1. /\ CallInv(x, known) /\ x \in Call /\ HopOK(x) /\ RouteOK(x)
      /\ \A r \in x.open : MayHold(x, r)
  BY InvFacts
<1>2. /\ x.pc = "auth" /\ known' = known
      /\ \E r \in Methods(x) \cup {Failed} :
             Set(d, IF r.ok THEN Goto([Opened(x, r.owns \ {Here(x, "signers")}) EXCEPT !.owned = @ \cup r.owns], "config")
                    ELSE AuthFails(x))
  BY DEF BuildAuth
<1> HIDE DEF x
<1>3. PICK r \in Methods(x) \cup {Failed} :
             Set(d, IF r.ok THEN Goto([Opened(x, r.owns \ {Here(x, "signers")}) EXCEPT !.owned = @ \cup r.owns], "config")
                    ELSE AuthFails(x))
  BY <1>2
<1>4. r.owns \subseteq {<<x.hop, "agent">>, <<x.hop, "signers">>} /\ r.owns \subseteq Resource
  BY <1>1, MethodsFacts
<1>5. CASE r.ok
  <2> DEFINE Q == r.owns
             R == Q \ {Here(x, "signers")}
             z == Opened(x, R)
             w == [z EXCEPT !.owned = @ \cup Q]
             y == Goto(w, "config")
  <2>1. R \subseteq Q /\ R \subseteq {<<x.hop, "agent">>} /\ R \subseteq Resource /\ "config" \in Steps
    BY <1>4 DEF Here, Steps
  <2>2. Q \subseteq Resource
    BY <1>4
  <2>3. dial' = [dial EXCEPT ![d] = y]
    BY <1>3, <1>5 DEF Set
  <2> HIDE DEF R, Q
  <2>4. /\ z \in Call /\ Same(x, z) /\ z.hop = x.hop /\ z.kind = x.kind
        /\ z.open = x.open \cup R /\ z.owned = x.owned
    BY <1>1, <2>1, OpenedFacts
  <2> HIDE DEF z
  <2>5. /\ w \in Call /\ Same(z, w) /\ w.hop = z.hop /\ w.kind = z.kind
        /\ w.open = z.open /\ w.owned = z.owned \cup Q
    <3>1. z.owned \cup Q \in SUBSET Resource
      BY <2>4, <2>2 DEF Call
    <3>2. w = [z EXCEPT !.owned = z.owned \cup Q]
      OBVIOUS
    <3> DEFINE o == z.owned \cup Q
    <3> HIDE DEF o
    <3>3. LET v == [z EXCEPT !.owned = o]
          IN  /\ v \in Call /\ Same(z, v) /\ v.hop = z.hop /\ v.kind = z.kind
              /\ v.open = z.open /\ v.owned = o
      <4>1. o \in SUBSET Resource
        BY <3>1 DEF o
      <4> QED
        BY <2>4, <4>1 DEF Call, Same
    <3> QED
      BY <3>2, <3>3 DEF o
  <2> HIDE DEF w
  <2>6. /\ y \in Call /\ Same(x, y) /\ y.pc = "config" /\ y.hop = x.hop /\ y.kind = x.kind
        /\ y.open = x.open \cup R /\ y.owned = x.owned \cup Q
    BY <2>1, <2>4, <2>5, GotoFacts DEF Same
  <2> HIDE DEF y
  <2>7. HopOK(y)
    BY <1>1, <1>2, <2>6 DEF HopOK, Same, Connected, Shaking, Using
  <2>8. OpenOK(y)
    <3> SUFFICES ASSUME NEW q \in y.open PROVE MayHold(y, q)
      BY DEF OpenOK
    <3>1. CASE q \in R
      <4>1. q \in y.owned /\ q = <<x.hop, "agent">>
        BY <3>1, <2>1, <2>6
      <4>2. CASE x.hop = "jump"
        BY <4>1, <4>2, <2>6 DEF MayHold, J
      <4>3. CASE x.hop = "target"
        BY <4>1, <4>3, <2>6, <1>1, <1>2 DEF MayHold, T, HopOK, Same
      <4> QED
        BY <4>2, <4>3, <1>1 DEF Call, Hop
    <3>2. CASE q \in x.open
      BY <3>2, <1>1, <1>2, <2>6 DEF MayHold, Same, Connected, Shaking, Using
    <3> QED
      BY <3>1, <3>2, <2>6
  <2>9. RouteOK(y) /\ TrustOK(y, known')
    BY <1>1, <1>2, <2>6 DEF RouteOK, TrustOK, Same, Connected, Shaking, Using
  <2> QED
    BY <2>3, <2>6, <2>7, <2>8, <2>9 DEF Moved, CallInv
<1>6. CASE ~r.ok
  <2>1. x.hop = "jump" => J("agent") \notin x.open
    BY <1>1, <1>2 DEF MayHold, T, J, Connected, Shaking, Using
  <2>2. CallInv(AuthFails(x), known')
    BY <1>1, <1>2, <2>1, AuthEnds
  <2> QED
    BY <2>2, <1>3, <1>6 DEF Moved, Set
<1> QED
  BY <1>5, <1>6

\* Dropping what is open, without moving, disturbs nothing.
LEMMA DropKeeps ==
    ASSUME NEW x, NEW k, NEW D, CallInv(x, k)
    PROVE  CallInv(Dropped(x, D), k)
<1> DEFINE y == Dropped(x, D)
<1>1. /\ x \in Call /\ HopOK(x) /\ RouteOK(x) /\ TrustOK(x, k) /\ \A r \in x.open : MayHold(x, r)
  BY DEF CallInv, OpenOK
<1>2. /\ y \in Call /\ Same(x, y) /\ y.pc = x.pc /\ y.hop = x.hop /\ y.kind = x.kind /\ y.key = x.key
      /\ y.open \subseteq x.open /\ y.owned = x.owned
  BY <1>1, DroppedFacts
<1> HIDE DEF y
<1>3. HostOf(y) = HostOf(x)
  BY <1>2, HostOfSame
<1>4. HopOK(y) /\ RouteOK(y) /\ TrustOK(y, k)
  BY <1>1, <1>2, <1>3 DEF HopOK, RouteOK, TrustOK, Same
<1>5. OpenOK(y)
  BY <1>1, <1>2 DEF OpenOK, MayHold, Same
<1> QED
  BY <1>2, <1>4, <1>5 DEF CallInv, y

\* The algorithms of keys are algorithms of the library.
LEMMA AlgorithmsTyped ==
    ASSUME NEW s \in Seq(Keys)
    PROVE  {Algorithm[k] : k \in Range(s)} \subseteq Range(Default)
<1>1. Range(s) \subseteq Keys
  BY DEF Range
<1> QED
  BY <1>1, ConnectionAssumption

LEMMA BuildClientConfigStep ==
    ASSUME Inv, NEW d \in Dials, BuildClientConfig(d)
    PROVE  Moved(d)
<1> DEFINE x == dial[d]
           p == IF x.plan.insecure THEN {} ELSE {Algorithm[k] : k \in Range(known[HostOf(x)])}
<1>1. /\ CallInv(x, known) /\ x \in Call /\ HopOK(x) /\ RouteOK(x)
      /\ \A r \in x.open : MayHold(x, r)
  BY InvFacts
<1>2. p \in SUBSET Range(Default)
  <2>1. known[HostOf(x)] \in Seq(Keys)
    BY <1>1, HostOfIsHost DEF Inv, KnownInv
  <2> QED
    BY <2>1, AlgorithmsTyped
<1>3. /\ x.pc = "config" /\ known' = known
      /\ \/ Set(d, Goto([x EXCEPT !.prefer[x.hop] = p], "transport"))
         \/ Set(d, AuthFails(Dropped(x, Closer(x, x.hop))))
  BY DEF BuildClientConfig
<1> HIDE DEF x, p
<1>4. CASE Set(d, Goto([x EXCEPT !.prefer[x.hop] = p], "transport"))
  <2> DEFINE z == [x EXCEPT !.prefer[x.hop] = p]
             y == Goto(z, "transport")
  <2>1. /\ z \in Call /\ Same(x, z) /\ z.hop = x.hop /\ z.kind = x.kind
        /\ z.open = x.open /\ z.owned = x.owned
    <3> DEFINE q == [x.prefer EXCEPT ![x.hop] = p]
    <3>1. q \in [Hop -> SUBSET Range(Default)]
      BY <1>1, <1>2 DEF Call
    <3>2. z = [x EXCEPT !.prefer = q]
      OBVIOUS
    <3> HIDE DEF q
    <3>3. LET v == [x EXCEPT !.prefer = q]
          IN  /\ v \in Call /\ Same(x, v) /\ v.hop = x.hop /\ v.kind = x.kind
              /\ v.open = x.open /\ v.owned = x.owned
      BY <1>1, <3>1 DEF Call, Same
    <3> QED
      BY <3>2, <3>3
  <2>2. dial' = [dial EXCEPT ![d] = y]
    BY <1>4 DEF Set
  <2> HIDE DEF z
  <2>3. "transport" \in Steps
    BY DEF Steps
  <2>4. /\ y \in Call /\ Same(x, y) /\ y.pc = "transport" /\ y.hop = x.hop /\ y.kind = x.kind
        /\ y.open = x.open /\ y.owned = x.owned
    BY <2>1, <2>3, GotoFacts DEF Same
  <2> HIDE DEF y
  <2>5. HopOK(y)
    BY <1>1, <1>3, <2>4 DEF HopOK, Same, Connected, Shaking, Using
  <2>6. OpenOK(y)
    BY <1>1, <1>3, <2>4 DEF OpenOK, MayHold, Same, Connected, Shaking, Using
  <2>7. RouteOK(y) /\ TrustOK(y, known')
    BY <1>1, <1>3, <2>4 DEF RouteOK, TrustOK, Same, Connected, Shaking, Using
  <2> QED
    BY <2>2, <2>4, <2>5, <2>6, <2>7 DEF Moved, CallInv
<1>5. CASE Set(d, AuthFails(Dropped(x, Closer(x, x.hop))))
  <2> DEFINE z == Dropped(x, Closer(x, x.hop))
  <2>1. CallInv(z, known')
    BY <1>1, <1>3, DropKeeps
  <2>2. /\ z.pc = "config" /\ z.hop = x.hop /\ z.open = x.open \ Closer(x, x.hop)
    BY <1>1, <1>3, DroppedFacts
  <2> HIDE DEF z
  <2>3. z.hop = "jump" => J("agent") \notin z.open
    BY <1>1, <1>3, <2>2 DEF MayHold, Closer, T, J, Connected, Shaking, Using
  <2>4. CallInv(AuthFails(z), known')
    BY <2>1, <2>2, <2>3, AuthEnds
  <2> QED
    BY <2>4, <1>5 DEF Moved, Set, z
<1> QED
  BY <1>3, <1>4, <1>5

\* resolveRouteTransportKind: a strict call gets its configured route, and
\* the jump host is reached without another one.
LEMMA RouteKindFacts ==
    ASSUME NEW x \in Call
    PROVE  /\ RouteKind(x) \in Kind
           /\ Strict(x.plan) => RouteKind(x) = IF x.hop = "jump" THEN x.plan.jroute ELSE Configured(x.plan)
           /\ RouteKind(x) = "jump" => x.hop = "target" /\ x.plan.route = "jump"
<1>1. /\ x.plan.route \in Kind /\ x.plan.jroute \in Kind \ {"jump"} /\ x.hop \in {"jump", "target"}
  BY DEF Call, Plan, Hop
<1>2. Strict(x.plan) => StrictRoute(x)
  BY DEF Strict, StrictRoute
<1> QED
  BY <1>1, <1>2 DEF RouteKind, Configured, Kind

LEMMA DialTransportStep ==
    ASSUME Inv, NEW d \in Dials, DialTransport(d)
    PROVE  Moved(d)
<1> DEFINE x == dial[d]
           z == [x EXCEPT !.kind[x.hop] = RouteKind(x)]
           kind == z.kind[z.hop]
           up == IF z.plan.probe /\ z.hop = "target" THEN "banner" ELSE "shake"
<1>1. /\ CallInv(x, known) /\ x \in Call /\ HopOK(x) /\ RouteOK(x) /\ RouteSoFar(x)
      /\ \A r \in x.open : MayHold(x, r)
  BY InvFacts
<1>2. /\ z.pc = "transport" /\ known' = known
      /\ \/ kind = "jump" /\ Set(d, [z EXCEPT !.hop = "jump", !.pc = "resolvejump"])
         \/ \E R \in CASE kind = "direct" -> DialDirect(z.hop)
                       [] kind = "socks" -> DialSOCKS5(z.hop)
                       [] kind = "command" -> DialProxyCommand(z.hop)
                       [] kind = "jump" -> {} :
              Set(d, IF R = {} THEN TransportFails(z) ELSE Goto(Opened(z, R), up))
  BY DEF DialTransport
<1> HIDE DEF x
<1>3. /\ RouteKind(x) \in Kind
      /\ Strict(x.plan) => RouteKind(x) = IF x.hop = "jump" THEN x.plan.jroute ELSE Configured(x.plan)
      /\ RouteKind(x) = "jump" => x.hop = "target" /\ x.plan.route = "jump"
  BY <1>1, RouteKindFacts
<1>4. /\ z \in Call /\ Same(x, z) /\ z.pc = x.pc /\ z.hop = x.hop /\ z.open = x.open /\ z.owned = x.owned
      /\ z.kind = [x.kind EXCEPT ![x.hop] = RouteKind(x)]
  <2> DEFINE q == [x.kind EXCEPT ![x.hop] = RouteKind(x)]
  <2>1. q \in [Hop -> Kind \cup {"none"}]
    BY <1>1, <1>3 DEF Call
  <2>2. z = [x EXCEPT !.kind = q]
    OBVIOUS
  <2> HIDE DEF q
  <2>3. LET v == [x EXCEPT !.kind = q]
        IN  /\ v \in Call /\ Same(x, v) /\ v.pc = x.pc /\ v.hop = x.hop /\ v.open = x.open
            /\ v.owned = x.owned /\ v.kind = q
    BY <1>1, <2>1 DEF Call, Same
  <2> QED
    BY <2>2, <2>3 DEF q
<1>5. /\ kind = RouteKind(x)
      /\ x.hop = "jump" => z.kind["jump"] = RouteKind(x) /\ z.kind["target"] = x.kind["target"]
      /\ x.hop = "target" => z.kind["target"] = RouteKind(x) /\ z.kind["jump"] = x.kind["jump"]
      /\ x.hop \in {"target", "jump"}
  BY <1>1, <1>4 DEF Call, Hop
<1> HIDE DEF z
<1>6. RouteSoFar(z)
  BY <1>1, <1>3, <1>4, <1>5 DEF RouteSoFar, Same
<1>7. CallInv(z, known')
  <2>1. x.pc = "transport"
    BY <1>2, <1>4
  <2>2. HopOK(z)
    BY <1>1, <1>4 DEF HopOK, Same
  <2>3. OpenOK(z)
    BY <1>1, <1>4 DEF OpenOK, MayHold, Same
  <2>4. RouteOK(z) /\ TrustOK(z, known')
    BY <1>6, <1>2 DEF RouteOK, RouteSoFar, TrustOK, Connected, Shaking, Using
  <2> QED
    BY <1>4, <2>2, <2>3, <2>4 DEF CallInv
<1>8. CASE kind = "jump" /\ Set(d, [z EXCEPT !.hop = "jump", !.pc = "resolvejump"])
  <2> DEFINE y == [z EXCEPT !.hop = "jump", !.pc = "resolvejump"]
  <2>1. /\ y \in Call /\ Same(z, y) /\ y.pc = "resolvejump" /\ y.hop = "jump" /\ y.kind = z.kind
        /\ y.open = z.open /\ y.owned = z.owned
    BY <1>4 DEF Call, Same, Hop, Steps
  <2>2. dial' = [dial EXCEPT ![d] = y]
    BY <1>8 DEF Set
  <2> HIDE DEF y
  <2>3. z.hop = "target" /\ z.plan.route = "jump"
    BY <1>3, <1>4, <1>5, <1>8 DEF Same
  <2>4. HopOK(y)
    BY <1>6, <2>1, <2>3 DEF HopOK, RouteSoFar, Same, Connected, Shaking, Using
  <2>5. OpenOK(y)
    BY <1>1, <1>2, <1>4, <2>1, <2>3 DEF OpenOK, MayHold, Same, Connected, Shaking, Using
  <2>6. RouteOK(y) /\ TrustOK(y, known')
    BY <1>6, <2>1 DEF RouteOK, RouteSoFar, TrustOK, Same, Connected, Shaking, Using
  <2> QED
    BY <2>1, <2>2, <2>4, <2>5, <2>6 DEF Moved, CallInv
<1>9. ASSUME NEW R \in CASE kind = "direct" -> DialDirect(z.hop)
                         [] kind = "socks" -> DialSOCKS5(z.hop)
                         [] kind = "command" -> DialProxyCommand(z.hop)
                         [] kind = "jump" -> {},
             Set(d, IF R = {} THEN TransportFails(z) ELSE Goto(Opened(z, R), up))
      PROVE  Moved(d)
  <2>1. kind # "jump" /\ R \subseteq {<<z.hop, "conn">>, <<z.hop, "process">>}
    BY <1>3, <1>5, <1>9 DEF Kind, DialDirect, DialSOCKS5, DialProxyCommand
  <2>2. CASE R = {}
    <3>1. CallInv(TransportFails(z), known')
      BY <1>2, <1>7, TransportEnds
    <3> QED
      BY <3>1, <2>2, <1>9 DEF Moved, Set
  <2>3. CASE R # {}
    <3> DEFINE w == Opened(z, R)
               y == Goto(w, up)
    <3>1. R \subseteq Resource /\ up \in Steps
      BY <2>1, <1>4, <1>5 DEF Resource, Hop, Steps
    <3>2. dial' = [dial EXCEPT ![d] = y]
      BY <1>9, <2>3 DEF Set
    <3>3. up \in {"banner", "shake"} /\ (up = "banner" <=> z.plan.probe /\ z.hop = "target")
      OBVIOUS
    <3> HIDE DEF up
    <3>4. /\ w \in Call /\ Same(z, w) /\ w.hop = z.hop /\ w.kind = z.kind
          /\ w.open = z.open \cup R /\ w.owned = z.owned
      BY <1>4, <3>1, OpenedFacts
    <3> HIDE DEF w
    <3>5. /\ y \in Call /\ Same(z, y) /\ y.pc = up /\ y.hop = z.hop /\ y.kind = z.kind
          /\ y.open = z.open \cup R /\ y.owned = z.owned
      BY <3>1, <3>4, GotoFacts DEF Same
    <3> HIDE DEF y
    <3>6. z.hop \in {"target", "jump"} /\ HopOK(z) /\ \A r \in z.open : MayHold(z, r)
      BY <1>7, <1>4, <1>5 DEF CallInv, OpenOK
    <3>7. HopOK(y)
      BY <3>3, <3>5, <3>6 DEF HopOK, Same, Connected, Shaking, Using
    <3>8. OpenOK(y)
      <4> SUFFICES ASSUME NEW r \in y.open PROVE MayHold(y, r)
        BY DEF OpenOK
      <4>1. CASE r \in R
        BY <4>1, <2>1, <3>3, <3>5, <3>6 DEF MayHold, T, J, Shaking
      <4>2. CASE r \in z.open
        <5>1. MayHold(z, r) /\ z.pc = "transport"
          BY <4>2, <3>6, <1>2
        <5>2. CASE up = "banner"
          BY <5>1, <5>2, <3>3, <3>5 DEF MayHold, Same, Connected, Shaking, Using
        <5>3. CASE up = "shake"
          BY <5>1, <5>3, <3>3, <3>5 DEF MayHold, Same, Connected, Shaking, Using
        <5> QED
          BY <5>2, <5>3, <3>3
      <4> QED
        BY <4>1, <4>2, <3>5
    <3>9. RouteOK(y)
      <4>1. ASSUME Strict(z.plan), z.plan.route = "jump"
            PROVE  z.kind["jump"] = z.plan.jroute
        <5>1. z.hop = "jump"
          BY <4>1, <2>1, <1>3, <1>4, <1>5 DEF Same, Configured
        <5> QED
          BY <5>1, <4>1, <1>3, <1>4, <1>5 DEF Same
      <4> QED
        BY <4>1, <1>6, <3>5 DEF RouteOK, RouteSoFar, Same
    <3>10. TrustOK(y, known')
      BY <3>3, <3>5 DEF TrustOK, Shaking
    <3> QED
      BY <3>2, <3>5, <3>7, <3>8, <3>9, <3>10 DEF Moved, CallInv
  <2> QED
    BY <2>2, <2>3
<1> QED
  BY <1>2, <1>8, <1>9

-----------------------------------------------------------------------------
(* The key a server presents.                                              *)

\* A set of natural numbers that is not empty has a least element.
LEMMA LeastOf ==
    ASSUME NEW S, S \subseteq Nat, S # {}
    PROVE  \E m \in S : \A n \in S : m <= n
<1> DEFINE R == OpToRel(<, Nat)
<1>1. \E m \in S : \A n \in S : <<n, m>> \notin R
  BY WFMin, NatLessThanWellFounded
<1>2. \A m, n \in Nat : <<n, m>> \in R <=> n < m
  BY DEF OpToRel
<1> HIDE DEF R
<1>3. PICK m \in S : \A n \in S : <<n, m>> \notin R
  BY <1>1
<1>4. \A n \in S : ~(n < m)
  BY <1>2, <1>3
<1>5. \A n \in S : m <= n
  BY <1>4
<1> QED
  BY <1>5

\* The place of an algorithm of the library is a number.
LEMMA PlaceIsNat ==
    ASSUME NEW a \in Range(Default)
    PROVE  Place(a) \in Nat
<1>1. Default \in Seq(Range(Default))
  BY ConnectionAssumption
<1>2. \E i \in 1..Len(Default) : Default[i] = a
  BY <1>1 DEF Range
<1>3. Place(a) \in 1..Len(Default)
  BY <1>2 DEF Place
<1> QED
  BY <1>1, <1>3

\* A machine presents a key of its own, of an algorithm that none of its
\* others precedes in the client's order.
LEMMA NegotiatedFacts ==
    ASSUME NEW machine, machine \subseteq Keys, machine # {}, NEW prefer
    PROVE  /\ Negotiated(prefer, machine) \in machine
           /\ \A l \in machine : Order(prefer, Algorithm[Negotiated(prefer, machine)], Algorithm[l])
<1> DEFINE P == {k \in machine : Algorithm[k] \in prefer}
           C == IF P = {} THEN machine ELSE P
           S == {Place(Algorithm[k]) : k \in C}
<1>1. C \subseteq machine /\ C # {}
  OBVIOUS
<1>2. \A k \in machine : Place(Algorithm[k]) \in Nat
  BY ConnectionAssumption, PlaceIsNat
<1>3. S \subseteq Nat /\ S # {}
  BY <1>1, <1>2
<1>4. PICK m \in S : \A n \in S : m <= n
  BY <1>3, LeastOf
<1>5. PICK k \in C : m = Place(Algorithm[k])
  BY <1>4
<1>6. \A l \in C : Place(Algorithm[k]) <= Place(Algorithm[l])
  BY <1>4, <1>5
<1>7. \A l \in machine : Order(prefer, Algorithm[k], Algorithm[l])
  <2> TAKE l \in machine
  <2>1. CASE P = {}
    BY <2>1, <1>5, <1>6 DEF Order
  <2>2. CASE P # {}
    BY <2>2, <1>5, <1>6 DEF Order
  <2> QED
    BY <2>1, <2>2
<1>8. \E j \in machine : \A l \in machine : Order(prefer, Algorithm[j], Algorithm[l])
  BY <1>1, <1>5, <1>7
<1> QED
  BY <1>8, Zenon DEF Negotiated

-----------------------------------------------------------------------------
(* The handshake.                                                          *)

\* A call that goes on with its handshake only has its trust to show.
LEMMA ShakesOn ==
    ASSUME NEW x, NEW k, NEW y, CallInv(x, k), x.pc \in Shaking, y \in Call, Same(x, y), y.hop = x.hop,
           y.kind = x.kind, y.open \subseteq x.open, y.owned = x.owned, y.pc \in Shaking, NEW m, TrustOK(y, m)
    PROVE  CallInv(y, m)
<1>1. /\ HopOK(x) /\ RouteOK(x) /\ \A r \in x.open : MayHold(x, r)
  BY DEF CallInv, OpenOK
<1>2. y.pc \notin {"idle", "resolve", "banner", "failed", "closed", "resolvejump", "connect"} \cup Connected
  BY DEF Shaking, Connected, Using
<1>3. x.pc \notin {"idle", "resolve", "banner", "failed", "closed", "connect", "auth", "config", "transport",
                   "exec", "attached", "opening", "terminal"} \cup Connected
  BY DEF Shaking, Connected, Using
<1>4. HopOK(y)
  BY <1>1, <1>2, <1>3 DEF HopOK, Same
<1>5. OpenOK(y)
  BY <1>1, <1>2, <1>3 DEF OpenOK, MayHold, Same, Connected
<1>6. RouteOK(y)
  BY <1>1 DEF RouteOK, Same
<1> QED
  BY <1>4, <1>5, <1>6 DEF CallInv

LEMMA ServerAnswersStep ==
    ASSUME Inv, NEW d \in Dials, ServerAnswers(d)
    PROVE  Moved(d)
<1> DEFINE x == dial[d]
<1>1. /\ CallInv(x, known) /\ x \in Call /\ HopOK(x)
  BY InvFacts
<1>2. /\ x.pc = "shake" /\ known' = known
      /\ \E machine \in Backends[HostOf(x)] :
             Set(d, [x EXCEPT !.pc = "check", !.key = Negotiated(x.prefer[x.hop], machine)])
  BY DEF ServerAnswers
<1> HIDE DEF x
<1>3. PICK machine \in Backends[HostOf(x)] :
             Set(d, [x EXCEPT !.pc = "check", !.key = Negotiated(x.prefer[x.hop], machine)])
  BY <1>2
<1> DEFINE n == Negotiated(x.prefer[x.hop], machine)
           y == [x EXCEPT !.pc = "check", !.key = n]
<1>4. machine \subseteq Keys /\ machine # {}
  BY <1>1, HostOfIsHost, ConnectionAssumption
<1>5. n \in Keys
  BY <1>4, NegotiatedFacts
<1>6. dial' = [dial EXCEPT ![d] = y]
  BY <1>3 DEF Set
<1> HIDE DEF n
<1>7. /\ y \in Call /\ Same(x, y) /\ y.pc = "check" /\ y.hop = x.hop /\ y.kind = x.kind
      /\ y.open = x.open /\ y.owned = x.owned /\ y.key = n
  BY <1>1, <1>5 DEF Call, Same, Steps
<1> HIDE DEF y
<1>8. TrustOK(y, known') /\ y.pc \in Shaking /\ x.pc \in Shaking
  BY <1>2, <1>5, <1>7 DEF TrustOK, Shaking
<1>9. CallInv(y, known')
  BY <1>1, <1>7, <1>8, ShakesOn
<1> QED
  BY <1>6, <1>9 DEF Moved

LEMMA ExpireStep ==
    ASSUME Inv, NEW d \in Dials, Expire(d)
    PROVE  Moved(d)
<1> DEFINE x == dial[d]
           z == Dropped(x, CloseConn(x.hop))
           y == [z EXCEPT !.expired = TRUE]
<1>1. /\ CallInv(x, known) /\ x \in Call
  BY InvFacts
<1>2. /\ x.pc \in Shaking /\ known' = known /\ dial' = [dial EXCEPT ![d] = y]
  BY DEF Expire, Set, Shaking
<1> HIDE DEF x
<1>3. CallInv(z, known')
  BY <1>1, <1>2, DropKeeps
<1>4. z \in Call /\ z.pc = x.pc
  BY <1>1, DroppedFacts
<1> HIDE DEF z
<1>5. /\ y \in Call /\ Same(z, y) /\ y.pc = z.pc /\ y.hop = z.hop /\ y.kind = z.kind
      /\ y.open = z.open /\ y.owned = z.owned /\ y.key = z.key
  BY <1>4 DEF Call, Same
<1> HIDE DEF y
<1>6. TrustOK(y, known')
  <2>1. TrustOK(z, known') /\ HostOf(y) = HostOf(z)
    BY <1>3, <1>5, HostOfSame DEF CallInv
  <2> QED
    BY <2>1, <1>5 DEF TrustOK, Same
<1>7. CallInv(y, known')
  BY <1>2, <1>3, <1>4, <1>5, <1>6, ShakesOn
<1> QED
  BY <1>2, <1>7 DEF Moved

\* A key that matches is in the file.
LEMMA MatchInRange ==
    ASSUME NEW s \in Seq(Keys), NEW k, Match(s, k)
    PROVE  k \in Range(s)
<1>1. \E i \in 1..Len(s) : s[i] = k
  BY DEF Match
<1> QED
  BY <1>1 DEF Range

LEMMA CheckKeyStep ==
    ASSUME Inv, NEW d \in Dials, CheckKey(d)
    PROVE  Moved(d)
<1> DEFINE x == dial[d]
           h == HostOf(x)
           keys == known[h]
<1>1. /\ CallInv(x, known) /\ x \in Call /\ HopOK(x) /\ TrustOK(x, known)
  BY InvFacts
<1>2. h \in Hosts /\ keys \in Seq(Keys) /\ (Pinned[h] # << >> => keys = Pinned[h])
  BY <1>1, HostOfIsHost DEF Inv, KnownInv
<1>3. /\ x.pc = "check" /\ known' = known
      /\ \/ (x.plan.insecure \/ Match(keys, x.key)) /\ Set(d, Goto(x, "login"))
         \/ ~x.plan.insecure /\ keys = << >> /\ Set(d, Goto(x, "lock"))
         \/ /\ ~x.plan.insecure /\ keys # << >>
            /\ Set(d, HandshakeFails([x EXCEPT !.refused = @ \cup {h}]))
         \/ Set(d, HandshakeFails(x))
  BY DEF CheckKey
<1>4. x.pc \in Shaking /\ "login" \in Steps /\ "lock" \in Steps
  BY <1>3 DEF Shaking, Steps
<1> HIDE DEF x, h, keys
<1>5. CASE (x.plan.insecure \/ Match(keys, x.key)) /\ Set(d, Goto(x, "login"))
  <2> DEFINE y == Goto(x, "login")
  <2>1. /\ y \in Call /\ Same(x, y) /\ y.pc = "login" /\ y.hop = x.hop /\ y.kind = x.kind
        /\ y.open = x.open /\ y.owned = x.owned /\ y.key = x.key
    BY <1>1, <1>4, GotoFacts
  <2> HIDE DEF y
  <2>2. HostOf(y) = h
    BY <2>1, HostOfSame DEF h
  <2>3. x.plan.insecure \/ x.key \in Range(keys)
    BY <1>2, <1>5, MatchInRange
  <2>4. TrustOK(y, known') /\ y.pc \in Shaking
    BY <1>1, <1>3, <2>1, <2>2, <2>3 DEF TrustOK, Same, Shaking, keys
  <2>5. CallInv(y, known')
    BY <1>1, <1>4, <2>1, <2>4, ShakesOn
  <2> QED
    BY <1>5, <2>5 DEF Moved, Set, y
<1>6. CASE ~x.plan.insecure /\ keys = << >> /\ Set(d, Goto(x, "lock"))
  <2> DEFINE y == Goto(x, "lock")
  <2>1. /\ y \in Call /\ Same(x, y) /\ y.pc = "lock" /\ y.hop = x.hop /\ y.kind = x.kind
        /\ y.open = x.open /\ y.owned = x.owned /\ y.key = x.key
    BY <1>1, <1>4, GotoFacts
  <2> HIDE DEF y
  <2>2. HostOf(y) = h
    BY <2>1, HostOfSame DEF h
  <2>3. TrustOK(y, known') /\ y.pc \in Shaking
    BY <1>1, <1>2, <1>3, <1>6, <2>1, <2>2 DEF TrustOK, Same, Shaking
  <2>4. CallInv(y, known')
    BY <1>1, <1>4, <2>1, <2>3, ShakesOn
  <2> QED
    BY <1>6, <2>4 DEF Moved, Set, y
<1>7. CASE Set(d, HandshakeFails([x EXCEPT !.refused = @ \cup {h}]))
  <2> DEFINE y == [x EXCEPT !.refused = @ \cup {h}]
  <2>1. /\ y \in Call /\ Same(x, y) /\ y.pc = x.pc /\ y.hop = x.hop /\ y.kind = x.kind
        /\ y.open = x.open /\ y.owned = x.owned /\ y.key = x.key
    BY <1>1, <1>2 DEF Call, Same
  <2> HIDE DEF y
  <2>2. TrustOK(y, known')
    BY <1>1, <1>3, <2>1, HostOfSame DEF TrustOK, Same
  <2>3. CallInv(y, known')
    BY <1>1, <1>4, <2>1, <2>2, ShakesOn
  <2>4. CallInv(HandshakeFails(y), known')
    BY <1>4, <2>1, <2>3, HandshakeEnds
  <2> QED
    BY <1>7, <2>4 DEF Moved, Set, y
<1>8. CASE Set(d, HandshakeFails(x))
  BY <1>1, <1>3, <1>4, <1>8, HandshakeEnds DEF Moved, Set
<1> QED
  BY <1>3, <1>5, <1>6, <1>7, <1>8

LEMMA LockPinStep ==
    ASSUME Inv, NEW d \in Dials, LockPin(d)
    PROVE  Moved(d)
<1> DEFINE x == dial[d]
           y == Goto(x, "recheck")
<1>1. /\ CallInv(x, known) /\ x \in Call /\ TrustOK(x, known)
  BY InvFacts
<1>2. /\ x.pc = "lock" /\ known' = known /\ dial' = [dial EXCEPT ![d] = y]
  BY DEF LockPin, Set
<1> HIDE DEF x
<1>3. x.pc \in Shaking /\ "recheck" \in Steps /\ "recheck" \in Shaking
  BY <1>2 DEF Shaking, Steps
<1>4. /\ y \in Call /\ Same(x, y) /\ y.pc = "recheck" /\ y.hop = x.hop /\ y.kind = x.kind
      /\ y.open = x.open /\ y.owned = x.owned /\ y.key = x.key
  BY <1>1, <1>3, GotoFacts
<1> HIDE DEF y
<1>5. TrustOK(y, known')
  BY <1>1, <1>2, <1>4, HostOfSame DEF TrustOK, Same, Shaking
<1>6. CallInv(y, known')
  BY <1>1, <1>3, <1>4, <1>5, ShakesOn
<1> QED
  BY <1>2, <1>6 DEF Moved

LEMMA RecheckStep ==
    ASSUME Inv, NEW d \in Dials, Recheck(d)
    PROVE  Moved(d)
<1> DEFINE x == dial[d]
           h == HostOf(x)
           pinned == Match(known[h], x.key)
           s == IF pinned THEN "login" ELSE "append"
           y == Goto(x, s)
<1>1. /\ CallInv(x, known) /\ x \in Call /\ TrustOK(x, known) /\ HopOK(x)
  BY InvFacts
<1>2. /\ x.pc = "recheck" /\ known' = known /\ dial' = [dial EXCEPT ![d] = y]
  BY DEF Recheck, Set
<1>3. known[h] \in Seq(Keys)
  BY <1>1, HostOfIsHost DEF Inv, KnownInv
<1>4. s = "append" \/ (s = "login" /\ x.key \in Range(known[h]))
  BY <1>3, MatchInRange
<1> HIDE DEF x, s, h
<1>5. x.pc \in Shaking /\ s \in Steps /\ s \in Shaking
  BY <1>2, <1>4 DEF Shaking, Steps
<1>6. /\ y \in Call /\ Same(x, y) /\ y.pc = s /\ y.hop = x.hop /\ y.kind = x.kind
      /\ y.open = x.open /\ y.owned = x.owned /\ y.key = x.key
  BY <1>1, <1>5, GotoFacts
<1> HIDE DEF y
<1>7. HostOf(y) = h
  BY <1>6, HostOfSame DEF h
<1>8. TrustOK(y, known')
  BY <1>1, <1>2, <1>4, <1>6, <1>7 DEF TrustOK, Same, Shaking, h
<1>9. CallInv(y, known')
  BY <1>1, <1>5, <1>6, <1>8, ShakesOn
<1> QED
  BY <1>2, <1>9 DEF Moved

\* A line at the end of the file adds its key and removes none.
LEMMA AppendRange ==
    ASSUME NEW s \in Seq(Keys), NEW k \in Keys
    PROVE  /\ Append(s, k) \in Seq(Keys)
           /\ Range(s) \subseteq Range(Append(s, k)) /\ k \in Range(Append(s, k))
<1>1. /\ Append(s, k) \in Seq(Keys) /\ Len(Append(s, k)) = Len(s) + 1 /\ Append(s, k)[Len(s) + 1] = k
      /\ \A i \in 1..Len(s) : Append(s, k)[i] = s[i]
      /\ DOMAIN s = 1..Len(s) /\ DOMAIN Append(s, k) = 1..(Len(s) + 1) /\ Len(s) \in Nat
  OBVIOUS
<1> DEFINE t == Append(s, k)
<1> HIDE DEF t
<1>2. ASSUME NEW v \in Range(s) PROVE v \in Range(t)
  <2>1. PICK i \in DOMAIN s : s[i] = v
    BY <1>2 DEF Range
  <2>2. i \in DOMAIN t /\ t[i] = v
    BY <2>1, <1>1 DEF t
  <2> QED
    BY <2>2 DEF Range
<1>3. k \in Range(t)
  <2>1. Len(s) + 1 \in DOMAIN t /\ t[Len(s) + 1] = k
    BY <1>1 DEF t
  <2> QED
    BY <2>1 DEF Range
<1> QED
  BY <1>1, <1>2, <1>3 DEF t

\* appendKnownHost: the file keeps its type and its first lines, and grows.
Grows == \A h \in Hosts : Range(known[h]) \subseteq Range(known'[h])

LEMMA AppendKnownHostStep ==
    ASSUME Inv, NEW d \in Dials, AppendKnownHost(d)
    PROVE  Moved(d) /\ KnownInv' /\ Grows
<1> DEFINE x == dial[d]
           h == HostOf(x)
<1>1. /\ CallInv(x, known) /\ x \in Call /\ TrustOK(x, known) /\ HopOK(x)
  BY InvFacts
<1>2. /\ x.pc = "append"
      /\ \/ known' = [known EXCEPT ![h] = Append(@, x.key)] /\ Set(d, Goto(x, "login"))
         \/ known' = known /\ Set(d, HandshakeFails(x))
  BY DEF AppendKnownHost
<1>3. h \in Hosts /\ known[h] \in Seq(Keys) /\ known \in [Hosts -> Seq(Keys)]
      /\ \A g \in Hosts : Pinned[g] # << >> => known[g] = Pinned[g]
  BY <1>1, HostOfIsHost DEF Inv, KnownInv
<1> HIDE DEF x
<1>4. x.pc \in Shaking /\ "login" \in Steps /\ "login" \in Shaking
  BY <1>2 DEF Shaking, Steps
<1>5. x.key \in Keys /\ Pinned[h] = << >> /\ ~x.plan.insecure
  BY <1>1, <1>2 DEF TrustOK, Shaking
<1>6. CASE known' = [known EXCEPT ![h] = Append(@, x.key)] /\ Set(d, Goto(x, "login"))
  <2> DEFINE y == Goto(x, "login")
  <2>1. /\ y \in Call /\ Same(x, y) /\ y.pc = "login" /\ y.hop = x.hop /\ y.kind = x.kind
        /\ y.open = x.open /\ y.owned = x.owned /\ y.key = x.key
    BY <1>1, <1>4, GotoFacts
  <2> HIDE DEF y
  <2>2. HostOf(y) = h
    BY <2>1, HostOfSame
  <2> HIDE DEF h
  <2>3. /\ known'[h] = Append(known[h], x.key) /\ \A g \in Hosts : g # h => known'[g] = known[g]
        /\ known' = [known EXCEPT ![h] = Append(known[h], x.key)]
    BY <1>3, <1>6
  <2> DEFINE a == Append(known[h], x.key)
  <2>4. a \in Seq(Keys) /\ Range(known[h]) \subseteq Range(a) /\ x.key \in Range(a)
    BY <1>3, <1>5, AppendRange
  <2> HIDE DEF a
  <2>5. known'[h] = a /\ known' = [known EXCEPT ![h] = a]
    BY <2>3 DEF a
  <2>6. Grows
    BY <2>3, <2>4, <2>5 DEF Grows
  <2>7. KnownInv'
    BY <1>3, <1>5, <2>3, <2>4, <2>5 DEF KnownInv
  <2>8. TrustOK(y, known')
    BY <1>5, <2>1, <2>2, <2>4, <2>5 DEF TrustOK, Same, Shaking
  <2>9. CallInv(y, known')
    BY <1>1, <1>4, <2>1, <2>8, ShakesOn
  <2> QED
    BY <1>6, <2>6, <2>7, <2>9 DEF Moved, Set, y
<1>7. CASE known' = known /\ Set(d, HandshakeFails(x))
  <2>1. KnownInv' /\ Grows
    BY <1>7 DEF Inv, KnownInv, Grows
  <2>2. CallInv(HandshakeFails(x), known')
    BY <1>1, <1>4, <1>7, HandshakeEnds
  <2> QED
    BY <1>7, <2>1, <2>2 DEF Moved, Set
<1> QED
  BY <1>2, <1>6, <1>7

LEMMA LoggedInStep ==
    ASSUME Inv, NEW d \in Dials, LoggedIn(d)
    PROVE  Moved(d)
<1> DEFINE x == dial[d]
           s == IF x.hop = "jump" THEN "connect" ELSE "discover"
           R == {Here(x, "ssh")}
           z == Opened(x, R)
           y == Goto(z, s)
<1>1. /\ x \in Call /\ HopOK(x) /\ RouteOK(x) /\ TrustOK(x, known) /\ \A r \in x.open : MayHold(x, r)
  BY InvFacts
<1>2. /\ x.pc = "login" /\ known' = known /\ dial' = [dial EXCEPT ![d] = y]
  BY DEF LoggedIn, Set
<1> HIDE DEF x
<1>3. s \in Steps /\ x.hop \in {"target", "jump"} /\ R \subseteq Resource
  BY <1>1 DEF Steps, Call, Hop, Here, Resource
<1>4. /\ z \in Call /\ Same(x, z) /\ z.hop = x.hop /\ z.kind = x.kind /\ z.key = x.key
      /\ z.open = x.open \cup R /\ z.owned = x.owned
  BY <1>1, <1>3, OpenedFacts
<1> HIDE DEF z
<1>5. /\ y \in Call /\ Same(x, y) /\ y.pc = s /\ y.hop = x.hop /\ y.kind = x.kind /\ y.key = x.key
      /\ y.open = x.open \cup R /\ y.owned = x.owned
  BY <1>3, <1>4, GotoFacts DEF Same
<1> HIDE DEF y
<1>6. HostOf(y) = HostOf(x)
  BY <1>5, HostOfSame
<1>7. HopOK(y)
  BY <1>1, <1>2, <1>3, <1>5 DEF HopOK, Same, Connected, Shaking, Using
<1>8. OpenOK(y)
  <2> SUFFICES ASSUME NEW r \in y.open PROVE MayHold(y, r)
    BY DEF OpenOK
  <2>1. CASE r \in R
    BY <2>1, <1>3, <1>5 DEF MayHold, Here, T, J, Connected
  <2>2. CASE r \in x.open
    <3>1. MayHold(x, r) /\ x.pc = "login"
      BY <2>2, <1>1, <1>2
    <3>2. CASE x.hop = "jump"
      BY <3>1, <3>2, <1>5 DEF MayHold, Same, Connected, Shaking, Using
    <3>3. CASE x.hop = "target"
      BY <3>1, <3>3, <1>5 DEF MayHold, Same, Connected, Shaking, Using
    <3> QED
      BY <3>2, <3>3, <1>3
  <2> QED
    BY <2>1, <2>2, <1>5
<1>9. RouteOK(y)
  BY <1>1, <1>2, <1>5 DEF RouteOK, Same, Connected, Shaking
<1>10. TrustOK(y, known')
  BY <1>1, <1>2, <1>5, <1>6 DEF TrustOK, Same, Shaking
<1> QED
  BY <1>2, <1>5, <1>7, <1>8, <1>9, <1>10 DEF Moved, CallInv

LEMMA ServerRefusesStep ==
    ASSUME Inv, NEW d \in Dials, ServerRefuses(d) \/ HandshakeExpired(d)
    PROVE  Moved(d)
<1>1. CallInv(dial[d], known)
  BY InvFacts
<1>2. dial[d].pc \in Shaking /\ known' = known /\ Set(d, HandshakeFails(dial[d]))
  BY DEF ServerRefuses, HandshakeExpired, Shaking
<1>3. CallInv(HandshakeFails(dial[d]), known')
  BY <1>1, <1>2, HandshakeEnds
<1> QED
  BY <1>2, <1>3 DEF Moved, Set

LEMMA JumpConnectStep ==
    ASSUME Inv, NEW d \in Dials, JumpConnect(d)
    PROVE  Moved(d)
<1> DEFINE x == dial[d]
           v == Dropped(x, {J("vault")})
           z == Opened(v, {T("conn")})
           s == IF x.plan.probe THEN "banner" ELSE "shake"
           y == [z EXCEPT !.hop = "target", !.key = NoKey, !.pc = s]
<1>1. /\ x \in Call /\ HopOK(x) /\ RouteOK(x) /\ RouteSoFar(x) /\ \A r \in x.open : MayHold(x, r)
  BY InvFacts
<1>2. /\ x.pc = "connect" /\ known' = known
      /\ dial' = [dial EXCEPT ![d] = y] \/ Set(d, JumpConnectFails(x))
  BY DEF JumpConnect, Set
<1> HIDE DEF x
<1>3. CASE dial' = [dial EXCEPT ![d] = y]
  <2>1. s \in Steps /\ s \in {"banner", "shake"} /\ (s = "banner" <=> x.plan.probe) /\ {T("conn")} \subseteq Resource
    BY DEF Steps, T, Resource, Hop
  <2> HIDE DEF s
  <2>2. /\ v \in Call /\ Same(x, v) /\ v.kind = x.kind /\ v.open = x.open \ {J("vault")} /\ v.owned = x.owned
    BY <1>1, DroppedFacts
  <2> HIDE DEF v
  <2>3. /\ z \in Call /\ Same(x, z) /\ z.kind = x.kind /\ z.open = (x.open \ {J("vault")}) \cup {T("conn")}
        /\ z.owned = x.owned
    BY <2>1, <2>2, OpenedFacts DEF Same
  <2> HIDE DEF z
  <2>4. /\ y \in Call /\ Same(z, y) /\ y.pc = s /\ y.hop = "target" /\ y.kind = z.kind
        /\ y.open = z.open /\ y.owned = z.owned
    BY <2>1, <2>3 DEF Call, Same, Hop
  <2> HIDE DEF y
  <2>5. HopOK(y)
    BY <1>1, <1>2, <2>1, <2>3, <2>4 DEF HopOK, Same, Connected, Shaking, Using
  <2>6. OpenOK(y)
    <3> SUFFICES ASSUME NEW r \in y.open PROVE MayHold(y, r)
      BY DEF OpenOK
    <3>1. CASE r = T("conn")
      BY <3>1, <2>1, <2>4 DEF MayHold, Shaking
    <3>2. CASE r \in x.open /\ r # J("vault")
      <4>1. MayHold(x, r) /\ x.pc = "connect"
        BY <3>2, <1>1, <1>2
      <4>2. CASE s = "banner"
        BY <3>2, <4>1, <4>2, <2>1, <2>3, <2>4 DEF MayHold, Same, Connected, Shaking, Using
      <4>3. CASE s = "shake"
        BY <3>2, <4>1, <4>3, <2>1, <2>3, <2>4 DEF MayHold, Same, Connected, Shaking, Using
      <4> QED
        BY <4>2, <4>3, <2>1
    <3> QED
      BY <3>1, <3>2, <2>3, <2>4
  <2>7. RouteOK(y)
    BY <1>1, <1>2, <2>3, <2>4 DEF RouteOK, Same
  <2>8. TrustOK(y, known')
    BY <2>1, <2>4 DEF TrustOK, Shaking
  <2> QED
    BY <1>3, <2>4, <2>5, <2>6, <2>7, <2>8 DEF Moved, CallInv
<1>4. CASE Set(d, JumpConnectFails(x))
  <2> DEFINE D == CloseSSH("jump") \cup {J("vault")} \cup Closer(x, "jump")
  <2>1. x.hop = "jump"
    BY <1>1, <1>2 DEF HopOK
  <2>2. \A r \in x.open \ D :
          \/ r \in {T("signers"), J("signers")}
          \/ ~x.plan.probe /\ (r = T("vault") \/ (r = T("agent") /\ r \in x.owned))
    BY <1>1, <1>2, <2>1 DEF MayHold, CloseSSH, CloseConn, Closer, T, J, Connected, Shaking, Using
  <2>3. CallInv(AttemptFails(Dropped(x, D)), known')
    BY <1>1, <2>2, DropEnds
  <2> QED
    BY <1>4, <2>3 DEF Moved, Set, JumpConnectFails
<1> QED
  BY <1>2, <1>3, <1>4

\* A call that ends, with nothing left but the sockets behind signers.
LEMMA Closes ==
    ASSUME NEW x, NEW k, NEW D, CallInv(x, k), x.hop = "target", x.open \ D \subseteq {T("signers"), J("signers")}
    PROVE  CallInv(Goto(Dropped(x, D), "closed"), k)
<1> DEFINE z == Dropped(x, D)
           y == Goto(z, "closed")
<1>1. x \in Call /\ RouteSoFar(x)
  BY RouteFromInv
<1>2. z \in Call /\ Same(x, z) /\ z.hop = "target" /\ z.kind = x.kind /\ z.open = x.open \ D
  BY <1>1, DroppedFacts
<1> HIDE DEF z
<1>3. "closed" \in Steps
  BY DEF Steps
<1>4. y \in Call /\ Same(x, y) /\ y.pc = "closed" /\ y.hop = "target" /\ y.kind = x.kind /\ y.open = x.open \ D
  BY <1>2, <1>3, GotoFacts DEF Same
<1> HIDE DEF y
<1>5. HopOK(y)
  BY <1>1, <1>4 DEF HopOK, RouteSoFar, Same, Connected, Shaking, Using
<1>6. OpenOK(y)
  BY <1>4 DEF OpenOK, MayHold
<1>7. RouteOK(y)
  BY <1>1, <1>4 DEF RouteOK, RouteSoFar, Same, Connected, Shaking, Using
<1>8. TrustOK(y, k)
  BY <1>4 DEF TrustOK, Shaking
<1> QED
  BY <1>4, <1>5, <1>6, <1>7, <1>8 DEF CallInv, y, z

LEMMA ProbeEndsStep ==
    ASSUME Inv, NEW d \in Dials, ProbeEnds(d)
    PROVE  Moved(d)
<1> DEFINE x == dial[d]
           D == CloseConn("target") \cup Aux(x)
<1>1. CallInv(x, known) /\ HopOK(x) /\ \A r \in x.open : MayHold(x, r)
  BY InvFacts
<1>2. x.pc = "banner" /\ known' = known /\ Set(d, Goto(Dropped(x, D), "closed"))
  BY DEF ProbeEnds
<1> HIDE DEF x
<1>3. x.hop = "target"
  BY <1>1, <1>2 DEF HopOK
<1>4. x.open \ D \subseteq {T("signers"), J("signers")}
  BY <1>1, <1>2 DEF MayHold, CloseConn, CloseSSH, Aux, Closer, T, J, Connected, Shaking, Using
<1>5. CallInv(Goto(Dropped(x, D), "closed"), known')
  BY <1>1, <1>2, <1>3, <1>4, Closes
<1> QED
  BY <1>2, <1>5 DEF Moved, Set

-----------------------------------------------------------------------------
(* The connection in use.                                                  *)

\* A connected call that stays connected only has its resources to show.
LEMMA StaysConnected ==
    ASSUME NEW x, NEW k, NEW y, CallInv(x, k), x.pc \in Connected, y \in Call, Same(x, y), y.hop = x.hop,
           y.kind = x.kind, y.pc \in Using \cup {"observe"}, OpenOK(y)
    PROVE  CallInv(y, k)
<1>1. HopOK(x) /\ RouteOK(x)
  BY DEF CallInv
<1>2. y.pc \in Connected /\ y.pc \notin {"resolvejump", "connect", "banner", "login", "discover"} \cup Shaking
  BY DEF Connected, Shaking, Using
<1>3. HopOK(y)
  BY <1>1, <1>2 DEF HopOK, Same
<1>4. RouteOK(y)
  BY <1>1, <1>2 DEF RouteOK, Same
<1>5. TrustOK(y, k)
  BY <1>2 DEF TrustOK, Shaking
<1> QED
  BY <1>3, <1>4, <1>5 DEF CallInv

\* Going on with more or less open.
LEMMA OpensMore ==
    ASSUME NEW x, NEW k, NEW R, NEW s, CallInv(x, k), x.pc \in Connected, s \in Using \cup {"observe"},
           R \subseteq Resource,
           \A r \in x.open \cup R : \A y : y.plan = x.plan /\ y.owned = x.owned /\ y.hop = x.hop /\ y.pc = s
                                              => MayHold(y, r)
    PROVE  CallInv(Goto(Opened(x, R), s), k)
<1> DEFINE z == Opened(x, R)
           y == Goto(z, s)
<1>1. x \in Call /\ s \in Steps
  BY DEF CallInv, Using, Steps
<1>2. /\ z \in Call /\ Same(x, z) /\ z.hop = x.hop /\ z.kind = x.kind /\ z.open = x.open \cup R /\ z.owned = x.owned
  BY <1>1, OpenedFacts
<1> HIDE DEF z
<1>3. /\ y \in Call /\ Same(x, y) /\ y.pc = s /\ y.hop = x.hop /\ y.kind = x.kind /\ y.open = x.open \cup R
      /\ y.owned = x.owned
  BY <1>1, <1>2, GotoFacts DEF Same
<1> HIDE DEF y
<1>4. OpenOK(y)
  BY <1>3 DEF OpenOK, Same
<1>5. CallInv(y, k)
  BY <1>3, <1>4, StaysConnected
<1> QED
  BY <1>5 DEF y, z

LEMMA ClosesSome ==
    ASSUME NEW x, NEW k, NEW D, NEW s, CallInv(x, k), x.pc \in Connected, s \in Using,
           \A r \in x.open \ D : \A y : y.plan = x.plan /\ y.owned = x.owned /\ y.hop = x.hop /\ y.pc = s
                                              => MayHold(y, r)
    PROVE  CallInv(Goto(Dropped(x, D), s), k)
<1> DEFINE z == Dropped(x, D)
           y == Goto(z, s)
<1>1. x \in Call /\ s \in Steps
  BY DEF CallInv, Using, Steps
<1>2. /\ z \in Call /\ Same(x, z) /\ z.hop = x.hop /\ z.kind = x.kind /\ z.open = x.open \ D /\ z.owned = x.owned
  BY <1>1, DroppedFacts
<1> HIDE DEF z
<1>3. /\ y \in Call /\ Same(x, y) /\ y.pc = s /\ y.hop = x.hop /\ y.kind = x.kind /\ y.open = x.open \ D
      /\ y.owned = x.owned
  BY <1>1, <1>2, GotoFacts DEF Same
<1> HIDE DEF y
<1>4. OpenOK(y)
  BY <1>3 DEF OpenOK, Same
<1>5. CallInv(y, k)
  BY <1>3, <1>4, StaysConnected
<1> QED
  BY <1>5 DEF y, z

\* Dial returns: the vault of the target is closed.
LEMMA Returns ==
    ASSUME NEW x, NEW k, CallInv(x, k), x.pc \in {"discover", "observe"}
    PROVE  CallInv(Returned(x), k)
<1>1. HopOK(x) /\ x.pc \in Connected /\ \A r \in x.open : MayHold(x, r)
  BY DEF CallInv, OpenOK, Connected
<1>2. x.hop = "target"
  BY <1>1 DEF HopOK, Connected
<1>3. \A r \in x.open \ {T("vault")} :
        \A y : y.plan = x.plan /\ y.owned = x.owned /\ y.hop = x.hop /\ y.pc = "open" => MayHold(y, r)
  BY <1>1, <1>2 DEF MayHold, Connected, Shaking, Using
<1> QED
  BY <1>1, <1>3, ClosesSome DEF Returned, Using

LEMMA DiscoverStep ==
    ASSUME Inv, NEW d \in Dials, Discover(d) \/ Observed(d)
    PROVE  Moved(d)
<1> DEFINE x == dial[d]
           z == Dropped(x, {T("observe")})
<1>1. CallInv(x, known) /\ x \in Call /\ HopOK(x) /\ \A r \in x.open : MayHold(x, r)
  BY InvFacts
<1>2. /\ x.pc \in {"discover", "observe"} /\ known' = known
      /\ \/ Set(d, Returned(x))
         \/ x.pc = "discover" /\ Set(d, Goto(Opened(x, {T("observe")}), "observe"))
         \/ Set(d, Returned(z))
  BY DEF Discover, Observed
<1> HIDE DEF x
<1>3. x.hop = "target" /\ x.pc \in Connected
  BY <1>1, <1>2 DEF HopOK, Connected
<1>4. CASE Set(d, Returned(x))
  BY <1>1, <1>2, <1>4, Returns DEF Moved, Set
<1>5. CASE x.pc = "discover" /\ Set(d, Goto(Opened(x, {T("observe")}), "observe"))
  <2>1. {T("observe")} \subseteq Resource
    BY DEF T, Resource, Hop
  <2>2. \A r \in x.open \cup {T("observe")} :
          \A y : y.plan = x.plan /\ y.owned = x.owned /\ y.hop = x.hop /\ y.pc = "observe" => MayHold(y, r)
    BY <1>1, <1>3, <1>5 DEF MayHold, Connected, Shaking, Using
  <2>3. CallInv(Goto(Opened(x, {T("observe")}), "observe"), known')
    BY <1>1, <1>2, <1>3, <2>1, <2>2, OpensMore
  <2> QED
    BY <1>5, <2>3 DEF Moved, Set
<1>6. CASE Set(d, Returned(z))
  <2>1. CallInv(z, known')
    BY <1>1, <1>2, DropKeeps
  <2>2. z.pc = x.pc
    BY <1>1, DroppedFacts
  <2> HIDE DEF z
  <2>3. CallInv(Returned(z), known')
    BY <1>2, <2>1, <2>2, Returns
  <2> QED
    BY <1>6, <2>3 DEF Moved, Set, z
<1> QED
  BY <1>2, <1>4, <1>5, <1>6

LEMMA ObservedLateStep ==
    ASSUME Inv, NEW d \in Dials, ObservedLate(d)
    PROVE  Moved(d)
<1>1. CallInv(dial[d], known)
  BY InvFacts
<1>2. known' = known /\ Set(d, Dropped(dial[d], {T("observe")}))
  BY DEF ObservedLate
<1> QED
  BY <1>1, <1>2, DropKeeps DEF Moved, Set

\* Exec, Attach and OpenTerminal open a session on an idle connection.
LEMMA SessionStep ==
    ASSUME Inv, NEW d \in Dials, Exec(d) \/ Attach(d) \/ OpenTerminal(d)
    PROVE  Moved(d)
<1> DEFINE x == dial[d]
<1>1. CallInv(x, known) /\ HopOK(x) /\ \A r \in x.open : MayHold(x, r)
  BY InvFacts
<1>2. /\ x.pc = "open" /\ known' = known
      /\ \/ Set(d, Goto(Opened(x, {T("session")}), "exec"))
         \/ Set(d, Goto(Opened(x, {T("session"), T("raw")}), "attached"))
         \/ Set(d, Goto(Opened(x, {T("session")}), "opening"))
  BY DEF Exec, Attach, OpenTerminal
<1> HIDE DEF x
<1>3. x.hop = "target" /\ x.pc \in Connected
  BY <1>1, <1>2 DEF HopOK, Connected, Using
<1>4. {T("session"), T("raw")} \subseteq Resource /\ {T("session")} \subseteq Resource
  BY DEF T, Resource, Hop
<1>5. ASSUME NEW s \in {"exec", "opening"}, Set(d, Goto(Opened(x, {T("session")}), s))
      PROVE  Moved(d)
  <2>1. \A r \in x.open \cup {T("session")} :
          \A y : y.plan = x.plan /\ y.owned = x.owned /\ y.hop = x.hop /\ y.pc = s => MayHold(y, r)
    BY <1>1, <1>2, <1>3 DEF MayHold, Connected, Shaking, Using
  <2>2. CallInv(Goto(Opened(x, {T("session")}), s), known')
    BY <1>1, <1>2, <1>3, <1>4, <2>1, OpensMore DEF Using
  <2> QED
    BY <1>5, <2>2 DEF Moved, Set
<1>6. CASE Set(d, Goto(Opened(x, {T("session"), T("raw")}), "attached"))
  <2>1. \A r \in x.open \cup {T("session"), T("raw")} :
          \A y : y.plan = x.plan /\ y.owned = x.owned /\ y.hop = x.hop /\ y.pc = "attached" => MayHold(y, r)
    BY <1>1, <1>2, <1>3 DEF MayHold, Connected, Shaking, Using
  <2>2. CallInv(Goto(Opened(x, {T("session"), T("raw")}), "attached"), known')
    BY <1>1, <1>2, <1>3, <1>4, <2>1, OpensMore DEF Using
  <2> QED
    BY <1>6, <2>2 DEF Moved, Set
<1> QED
  BY <1>2, <1>5, <1>6

LEMMA SessionEndStep ==
    ASSUME Inv, NEW d \in Dials, ExecEnds(d) \/ AttachEnds(d)
    PROVE  Moved(d)
<1> DEFINE x == dial[d]
<1>1. CallInv(x, known) /\ HopOK(x) /\ \A r \in x.open : MayHold(x, r)
  BY InvFacts
<1>2. /\ known' = known
      /\ \/ x.pc = "exec" /\ Set(d, Goto(Dropped(x, {T("session")}), "open"))
         \/ x.pc = "attached" /\ Set(d, Goto(Dropped(x, {T("session"), T("raw")}), "open"))
  BY DEF ExecEnds, AttachEnds
<1> HIDE DEF x
<1>3. x.hop = "target" /\ x.pc \in Connected
  BY <1>1, <1>2 DEF HopOK, Connected, Using
<1>4. CASE x.pc = "exec" /\ Set(d, Goto(Dropped(x, {T("session")}), "open"))
  <2>1. \A r \in x.open \ {T("session")} :
          \A y : y.plan = x.plan /\ y.owned = x.owned /\ y.hop = x.hop /\ y.pc = "open" => MayHold(y, r)
    BY <1>1, <1>3, <1>4 DEF MayHold, Connected, Shaking, Using
  <2>2. CallInv(Goto(Dropped(x, {T("session")}), "open"), known')
    BY <1>1, <1>2, <1>3, <2>1, ClosesSome DEF Using
  <2> QED
    BY <1>4, <2>2 DEF Moved, Set
<1>5. CASE x.pc = "attached" /\ Set(d, Goto(Dropped(x, {T("session"), T("raw")}), "open"))
  <2>1. \A r \in x.open \ {T("session"), T("raw")} :
          \A y : y.plan = x.plan /\ y.owned = x.owned /\ y.hop = x.hop /\ y.pc = "open" => MayHold(y, r)
    BY <1>1, <1>3, <1>5 DEF MayHold, Connected, Shaking, Using
  <2>2. CallInv(Goto(Dropped(x, {T("session"), T("raw")}), "open"), known')
    BY <1>1, <1>2, <1>3, <2>1, ClosesSome DEF Using
  <2> QED
    BY <1>5, <2>2 DEF Moved, Set
<1> QED
  BY <1>2, <1>4, <1>5

LEMMA TerminalStartsStep ==
    ASSUME Inv, NEW d \in Dials, TerminalStarts(d)
    PROVE  Moved(d)
<1> DEFINE x == dial[d]
<1>1. CallInv(x, known) /\ x \in Call /\ HopOK(x) /\ \A r \in x.open : MayHold(x, r)
  BY InvFacts
<1>2. /\ known' = known /\ x.pc = "opening"
      /\ \/ Set(d, Goto(x, "terminal"))
         \/ Set(d, Goto(Dropped(x, {T("session")}), "open"))
         \/ Set(d, Goto(Dropped(x, CloseSSH("target")), "broken"))
  BY DEF TerminalStarts
<1> HIDE DEF x
<1>3. x.hop = "target" /\ x.pc \in Connected
  BY <1>1, <1>2 DEF HopOK, Connected, Using
<1>4. CASE Set(d, Goto(x, "terminal"))
  <2> DEFINE y == Goto(x, "terminal")
  <2>1. "terminal" \in Steps /\ "terminal" \in Using
    BY DEF Steps, Using
  <2>2. /\ y \in Call /\ Same(x, y) /\ y.pc = "terminal" /\ y.hop = x.hop /\ y.kind = x.kind
        /\ y.open = x.open /\ y.owned = x.owned
    BY <1>1, <2>1, GotoFacts
  <2> HIDE DEF y
  <2>3. OpenOK(y)
    BY <1>1, <1>2, <1>3, <2>2 DEF OpenOK, MayHold, Same, Connected, Shaking, Using
  <2>4. CallInv(y, known')
    BY <1>1, <1>2, <1>3, <2>1, <2>2, <2>3, StaysConnected
  <2> QED
    BY <1>4, <2>4 DEF Moved, Set, y
<1>5. CASE Set(d, Goto(Dropped(x, {T("session")}), "open"))
  <2>1. \A r \in x.open \ {T("session")} :
          \A y : y.plan = x.plan /\ y.owned = x.owned /\ y.hop = x.hop /\ y.pc = "open" => MayHold(y, r)
    BY <1>1, <1>2, <1>3 DEF MayHold, Connected, Shaking, Using
  <2>2. CallInv(Goto(Dropped(x, {T("session")}), "open"), known')
    BY <1>1, <1>2, <1>3, <2>1, ClosesSome DEF Using
  <2> QED
    BY <1>5, <2>2 DEF Moved, Set
<1>6. CASE Set(d, Goto(Dropped(x, CloseSSH("target")), "broken"))
  <2>1. \A r \in x.open \ CloseSSH("target") :
          \A y : y.plan = x.plan /\ y.owned = x.owned /\ y.hop = x.hop /\ y.pc = "broken" => MayHold(y, r)
    BY <1>1, <1>2, <1>3 DEF MayHold, CloseSSH, T, Connected, Shaking, Using
  <2>2. CallInv(Goto(Dropped(x, CloseSSH("target")), "broken"), known')
    BY <1>1, <1>2, <1>3, <2>1, ClosesSome DEF Using
  <2> QED
    BY <1>6, <2>2 DEF Moved, Set
<1> QED
  BY <1>2, <1>4, <1>5, <1>6

LEMMA CloseStep ==
    ASSUME Inv, NEW d \in Dials, Close(d)
    PROVE  Moved(d)
<1> DEFINE x == dial[d]
           D == CloseSSH("target") \cup Closer(x, "target") \cup Aux(x)
<1>1. CallInv(x, known) /\ HopOK(x) /\ \A r \in x.open : MayHold(x, r)
  BY InvFacts
<1>2. x.pc \in {"open", "terminal", "broken"} /\ known' = known /\ Set(d, Goto(Dropped(x, D), "closed"))
  BY DEF Close
<1> HIDE DEF x
<1>3. x.hop = "target"
  BY <1>1, <1>2 DEF HopOK, Connected, Using
<1>4. x.open \ D \subseteq {T("signers"), J("signers")}
  BY <1>1, <1>2, <1>3 DEF MayHold, CloseConn, CloseSSH, Aux, Closer, T, J, Connected, Shaking, Using
<1>5. CallInv(Goto(Dropped(x, D), "closed"), known')
  BY <1>1, <1>2, <1>3, <1>4, Closes
<1> QED
  BY <1>2, <1>5 DEF Moved, Set

-----------------------------------------------------------------------------
(* The theorems.                                                           *)

LEMMA InvInit == Init => Inv
<1> SUFFICES ASSUME Init PROVE Inv
  OBVIOUS
<1>1. PICK plan \in Asked, procOf \in Placements :
         dial = [d \in Dials |->
           [plan |-> plan[d], proc |-> procOf[d], pc |-> "idle", hop |-> "target", forced |-> FALSE,
            kind |-> [h \in Hop |-> "none"], prefer |-> [h \in Hop |-> {}], key |-> NoKey,
            expired |-> FALSE, open |-> {}, owned |-> {}, refused |-> {}]]
  BY DEF Init
<1>2. KnownInv /\ MuInv
  BY ConnectionAssumption DEF Init, KnownInv, MuInv
<1>3. ASSUME NEW d \in Dials PROVE CallInv(dial[d], known)
  <2>1. /\ plan[d] \in Plan /\ procOf[d] \in Procs
        /\ plan[d].route = "jump" => plan[d].jump \in Hosts \ {plan[d].host}
    BY ConnectionAssumption
  <2> DEFINE x == [plan |-> plan[d], proc |-> procOf[d], pc |-> "idle", hop |-> "target", forced |-> FALSE,
            kind |-> [h \in Hop |-> "none"], prefer |-> [h \in Hop |-> {}], key |-> NoKey,
            expired |-> FALSE, open |-> {}, owned |-> {}, refused |-> {}]
  <2>2. dial[d] = x
    BY <1>1
  <2>3. /\ x \in Call /\ x.plan = plan[d] /\ x.pc = "idle" /\ x.hop = "target" /\ x.open = {}
        /\ x.kind["target"] = "none" /\ x.kind["jump"] = "none"
    BY <2>1 DEF Call, Hop, Steps
  <2> HIDE DEF x
  <2>4. HopOK(x)
    BY <2>1, <2>3 DEF HopOK, Connected, Shaking, Using
  <2>5. OpenOK(x)
    BY <2>3 DEF OpenOK
  <2>6. RouteOK(x) /\ TrustOK(x, known)
    BY <2>3 DEF RouteOK, TrustOK, Connected, Shaking, Using
  <2> QED
    BY <2>2, <2>3, <2>4, <2>5, <2>6 DEF CallInv
<1>4. dial \in [Dials -> Call]
  BY <1>1, <1>3 DEF CallInv
<1> QED
  BY <1>2, <1>3, <1>4 DEF Inv

\* The other calls stay as they are, and find no key removed.
LEMMA OthersKeep ==
    ASSUME NEW x, NEW k, NEW m, CallInv(x, k), \A h \in Hosts : Range(k[h]) \subseteq Range(m[h])
    PROVE  CallInv(x, m)
<1>1. x \in Call /\ HopOK(x) /\ TrustOK(x, k)
  BY DEF CallInv
<1>2. HostOf(x) \in Hosts
  BY <1>1, HostOfIsHost
<1>3. TrustOK(x, m)
  BY <1>1, <1>2 DEF TrustOK
<1> QED
  BY <1>3 DEF CallInv

LEMMA MoveKeeps ==
    ASSUME Inv, NEW d \in Dials, Moved(d), KnownInv', MuInv', Grows
    PROVE  Inv'
<1>1. PICK y : dial' = [dial EXCEPT ![d] = y] /\ CallInv(y, known')
  BY DEF Moved
<1>2. dial \in [Dials -> Call] /\ y \in Call
  BY <1>1 DEF Inv, CallInv
<1>3. dial' \in [Dials -> Call] /\ dial'[d] = y /\ \A e \in Dials : e # d => dial'[e] = dial[e]
  BY <1>1, <1>2
<1>4. ASSUME NEW e \in Dials PROVE CallInv(dial'[e], known')
  <2>1. CASE e = d
    BY <2>1, <1>1, <1>3
  <2>2. CASE e # d
    <3>1. CallInv(dial[e], known)
      BY DEF Inv
    <3>2. CallInv(dial[e], known')
      BY <3>1, OthersKeep DEF Grows
    <3> QED
      BY <3>2, <2>2, <1>3
  <2> QED
    BY <2>1, <2>2
<1> QED
  BY <1>3, <1>4 DEF Inv

LEMMA InvNext == Inv /\ [Next]_vars => Inv'
<1> SUFFICES ASSUME Inv, [Next]_vars PROVE Inv'
  OBVIOUS
<1>1. CASE UNCHANGED vars
  BY <1>1 DEF vars, Inv, KnownInv, MuInv
<1>2. CASE Next
  <2>1. PICK d \in Dials :
          \/ Dial(d) \/ Computes(d) \/ Expire(d)
          \/ ServerAnswers(d) \/ ServerRefuses(d) \/ LoggedIn(d)
          \/ ObservedLate(d) \/ Exec(d) \/ ExecEnds(d) \/ Attach(d) \/ AttachEnds(d)
          \/ OpenTerminal(d) \/ TerminalStarts(d) \/ Close(d)
    BY <1>2 DEF Next
  <2>2. dial[d].proc \in Procs /\ mu \in [Procs -> Dials \cup {"free"}]
    BY InvFacts DEF Call, Inv, MuInv
  <2>3. known' = known => KnownInv' /\ Grows
    BY DEF Inv, KnownInv, Grows
  <2>4. mu' = mu => MuInv'
    BY DEF Inv, MuInv
  <2>5. CASE LockPin(d) \/ Recheck(d)
    <3>1. known' = known /\ Moved(d)
      BY <2>5, LockPinStep, RecheckStep DEF LockPin, Recheck
    <3>2. MuInv'
      BY <2>2, <2>5 DEF LockPin, Recheck, MuInv
    <3> QED
      BY <2>3, <3>1, <3>2, MoveKeeps
  <2>6. CASE AppendKnownHost(d)
    <3>1. Moved(d) /\ KnownInv' /\ Grows
      BY <2>6, AppendKnownHostStep
    <3>2. MuInv'
      BY <2>2, <2>6 DEF AppendKnownHost, MuInv
    <3> QED
      BY <3>1, <3>2, MoveKeeps
  <2>7. CASE Dial(d) \/ ResolveCloud(d) \/ BuildAuth(d) \/ BuildClientConfig(d) \/ DialTransport(d) \/ ResolveJump(d)
    <3>1. Moved(d)
      BY <2>7, DialStep, ResolveCloudStep, BuildAuthStep, BuildClientConfigStep, DialTransportStep, ResolveJumpStep
    <3>2. UNCHANGED <<known, mu>>
      BY <2>7 DEF Dial, ResolveCloud, BuildAuth, BuildClientConfig, DialTransport, ResolveJump
    <3> QED
      BY <2>3, <2>4, <3>1, <3>2, MoveKeeps
  <2>8. CASE \/ CheckKey(d) \/ HandshakeExpired(d) \/ JumpConnect(d) \/ ProbeEnds(d) \/ Expire(d)
             \/ ServerAnswers(d) \/ ServerRefuses(d) \/ LoggedIn(d)
    <3>1. Moved(d)
      BY <2>8, CheckKeyStep, ServerRefusesStep, JumpConnectStep, ProbeEndsStep, ExpireStep, ServerAnswersStep,
         LoggedInStep
    <3>2. UNCHANGED <<known, mu>>
      BY <2>8 DEF CheckKey, HandshakeExpired, JumpConnect, ProbeEnds, Expire, ServerAnswers, ServerRefuses, LoggedIn
    <3> QED
      BY <2>3, <2>4, <3>1, <3>2, MoveKeeps
  <2>9. CASE \/ Discover(d) \/ Observed(d) \/ ObservedLate(d) \/ Exec(d) \/ ExecEnds(d) \/ Attach(d)
             \/ AttachEnds(d) \/ OpenTerminal(d) \/ TerminalStarts(d) \/ Close(d)
    <3>1. Moved(d)
      BY <2>9, DiscoverStep, ObservedLateStep, SessionStep, SessionEndStep, TerminalStartsStep, CloseStep
    <3>2. UNCHANGED <<known, mu>>
      BY <2>9 DEF Discover, Observed, ObservedLate, Exec, ExecEnds, Attach, AttachEnds, OpenTerminal,
         TerminalStarts, Close
    <3> QED
      BY <2>3, <2>4, <3>1, <3>2, MoveKeeps
  <2> QED
    BY <2>1, <2>5, <2>6, <2>7, <2>8, <2>9 DEF Computes
<1> QED
  BY <1>1, <1>2

LEMMA InvAlways == Spec => []Inv
BY InvInit, InvNext, PTL DEF Spec

\* The state of every call and of known_hosts keeps its type; that the key a
\* machine presents is a key needs that the client's order has a first one.
THEOREM TypeCorrect == Spec => []TypeOK
<1>1. Inv => TypeOK
  BY DEF Inv, KnownInv, MuInv, TypeOK, Call
<1> QED
  BY <1>1, InvAlways, PTL

\* Whatever fails, and wherever, Dial and dialViaJump leave nothing open, and
\* neither do Client.Close and ProbeRoute.
THEOREM FailuresRelease == Spec => []Released
<1>1. Inv => Released
  <2> SUFFICES ASSUME Inv, NEW d \in Dials, Ended(dial[d]), NEW r \in dial[d].open
               PROVE  r \in {T("signers"), J("signers")}
    BY DEF Released
  <2>1. MayHold(dial[d], r) /\ dial[d].pc \in {"failed", "closed"}
    BY InvFacts DEF Ended
  <2> QED
    BY <2>1 DEF MayHold, Connected, Shaking, Using
<1> QED
  BY <1>1, InvAlways, PTL

\* A strict call reaches its target over the configured route or not at all.
THEOREM StrictMeansConfigured == Spec => []StrictRouteKept
<1>1. Inv => StrictRouteKept
  <2> SUFFICES ASSUME Inv, NEW d \in Dials, dial[d].plan.strict \/ dial[d].plan.vault = "session"
               PROVE  /\ dial[d].kind["target"] \in {"none", Configured(dial[d].plan)}
                      /\ dial[d].kind["jump"] \in {"none", dial[d].plan.jroute}
                      /\ dial[d].pc = "open" /\ dial[d].plan.route = "jump"
                           => dial[d].kind["jump"] = dial[d].plan.jroute
    BY DEF StrictRouteKept
  <2>1. RouteOK(dial[d])
    BY InvFacts
  <2> QED
    BY <2>1 DEF RouteOK, Strict, Connected, Using
<1> QED
  BY <1>1, InvAlways, PTL

\* However dials race to pin, a host known at the start gains no key, and no
\* verified login goes to a key outside the file.
THEOREM PinnedHostsStand == Spec => []PinsStand
<1>1. Inv => PinsStand
  <2> SUFFICES ASSUME Inv PROVE PinsStand
    OBVIOUS
  <2>1. \A h \in Hosts : Pinned[h] # << >> => known[h] = Pinned[h]
    BY DEF Inv, KnownInv
  <2>2. ASSUME NEW d \in Dials, dial[d].pc \in {"login", "connect", "discover"}, ~dial[d].plan.insecure,
               dial[d].key # NoKey
        PROVE  dial[d].key \in Range(known[HostOf(dial[d])])
    BY <2>2, InvFacts DEF TrustOK
  <2> QED
    BY <2>1, <2>2 DEF PinsStand
<1> QED
  BY <1>1, InvAlways, PTL

-----------------------------------------------------------------------------
(* A known server is accepted.                                             *)

\* A host with one machine has one key of each algorithm, and what is pinned
\* for it at the start is all current or all stale. (With a pin of each sort
\* the preferred algorithm may be the one whose key was replaced, and the
\* server is refused although another of its keys is known.)
Tidy ==
    \A h \in Hosts : \A machine \in Backends[h] :
        Backends[h] = {machine} =>
            /\ \A k, l \in machine : Algorithm[k] = Algorithm[l] => k = l
            /\ Range(Pinned[h]) \subseteq machine \/ machine \cap Range(Pinned[h]) = {}

\* The algorithms preferred for a host: those of its first lines, or of the
\* key its machine presents to a client that prefers none.
FreshPrefer(h, p) ==
    \A m \in Backends[h] : Backends[h] = {m} =>
        IF Pinned[h] # << >> THEN p = {Algorithm[k] : k \in Range(Pinned[h])}
        ELSE p \subseteq {Algorithm[Negotiated({}, m)]}

PreferOK(x) ==
    ~x.plan.insecure =>
        /\ ~x.plan.probe /\ (x.hop = "jump" \/ x.pc \in {"transport"} \cup Shaking)
             => FreshPrefer(x.plan.host, x.prefer["target"])
        /\ x.hop = "jump" /\ x.pc \in {"transport"} \cup Shaking
             => FreshPrefer(x.plan.jump, x.prefer["jump"])
KeyOK(x) ==
    x.pc \in Shaking \ {"shake"} /\ ~x.plan.insecure =>
        \A m \in Backends[HostOf(x)] : Backends[HostOf(x)] = {m} => x.key = Negotiated(x.prefer[x.hop], m)
RefusedOK(x) ==
    \A h \in x.refused : \A m \in Backends[h] :
        Backends[h] = {m} => Pinned[h] # << >> /\ m \cap Range(Pinned[h]) = {}
KeyInv(x) == PreferOK(x) /\ KeyOK(x) /\ RefusedOK(x)

\* A host without a line at the start is pinned under one key only.
FirstKey ==
    \A h \in Hosts : \A m \in Backends[h] :
        Backends[h] = {m} /\ Pinned[h] = << >> => Range(known[h]) \subseteq {Negotiated({}, m)}

AcceptInv == Inv /\ FirstKey /\ \A d \in Dials : KeyInv(dial[d])

\* The same order, so the same key: without a first line, a client that
\* prefers what was pinned meanwhile is shown that very key again.
LEMMA SameKeyAgain ==
    ASSUME Tidy, NEW h \in Hosts, NEW m \in Backends[h], Backends[h] = {m}, NEW p, FreshPrefer(h, p),
           Pinned[h] = << >>
    PROVE  Negotiated(p, m) = Negotiated({}, m)
<1> DEFINE n == Negotiated(p, m)
           o == Negotiated({}, m)
<1>1. m \subseteq Keys /\ m # {}
  BY ConnectionAssumption
<1>2. n \in m /\ o \in m /\ Order(p, Algorithm[n], Algorithm[o])
  BY <1>1, NegotiatedFacts
<1>3. p \subseteq {Algorithm[o]}
  BY DEF FreshPrefer
<1>4. CASE p = {}
  BY <1>4
<1>5. CASE p # {}
  <2>1. Algorithm[o] \in p
    BY <1>3, <1>5
  <2> HIDE DEF n, o
  <2>2. Algorithm[n] \in p
    BY <1>2, <2>1 DEF Order
  <2>3. Algorithm[n] = Algorithm[o]
    BY <1>3, <2>2
  <2>4. n = o
    BY <1>2, <2>3 DEF Tidy
  <2> QED
    BY <2>4 DEF n, o
<1> QED
  BY <1>4, <1>5

\* Of the lines for a host that are all of one machine, the first of an
\* algorithm holds that machine's key of it.
LEMMA FirstOfItsKind ==
    ASSUME NEW s \in Seq(Keys), NEW m, Range(s) \subseteq m, NEW k \in Range(s),
           \A a, b \in m : Algorithm[a] = Algorithm[b] => a = b
    PROVE  Match(s, k)
<1> DEFINE S == {i \in 1..Len(s) : s[i] = k}
<1>1. Len(s) \in Nat /\ DOMAIN s = 1..Len(s)
  OBVIOUS
<1>2. S \subseteq Nat /\ S # {}
  BY <1>1 DEF Range
<1>3. PICK i \in S : \A j \in S : i <= j
  BY <1>2, LeastOf
<1>4. i \in 1..Len(s) /\ s[i] = k
  BY <1>3
<1>5. ASSUME NEW j \in 1..(i - 1) PROVE Algorithm[s[j]] # Algorithm[k]
  <2>1. j \in 1..Len(s) /\ ~(i <= j)
    BY <1>1, <1>4, <1>5
  <2>2. s[j] # k
    BY <2>1, <1>3
  <2>3. s[j] \in m /\ k \in m
    BY <2>1, <1>1 DEF Range
  <2> QED
    BY <2>2, <2>3
<1> QED
  BY <1>4, <1>5 DEF Match

\* Of a machine with a key among the first lines, the key it presents matches.
LEMMA PinnedMatches ==
    ASSUME Tidy, NEW h \in Hosts, NEW m \in Backends[h], Backends[h] = {m}, NEW p, FreshPrefer(h, p),
           Pinned[h] # << >>, m \cap Range(Pinned[h]) # {}
    PROVE  Match(Pinned[h], Negotiated(p, m))
<1> DEFINE n == Negotiated(p, m)
           s == Pinned[h]
<1>1. m \subseteq Keys /\ m # {} /\ s \in Seq(Keys)
  BY ConnectionAssumption
<1>2. n \in m /\ \A l \in m : Order(p, Algorithm[n], Algorithm[l])
  BY <1>1, NegotiatedFacts
<1>3. /\ p = {Algorithm[k] : k \in Range(s)} /\ Range(s) \subseteq m
      /\ \A a, b \in m : Algorithm[a] = Algorithm[b] => a = b
  BY DEF FreshPrefer, Tidy
<1> HIDE DEF n, s
<1>4. PICK l \in m : l \in Range(s)
  BY DEF s
<1>5. Algorithm[n] \in p
  BY <1>2, <1>3, <1>4 DEF Order
<1>6. n \in Range(s)
  BY <1>2, <1>3, <1>5
<1>7. Match(s, n)
  BY <1>1, <1>3, <1>6, FirstOfItsKind
<1> QED
  BY <1>7 DEF n, s

\* Of a host pinned meanwhile, the machine's key matches.
LEMMA OneKeyMatches ==
    ASSUME NEW s \in Seq(Keys), s # << >>, NEW k, Range(s) \subseteq {k}
    PROVE  Match(s, k)
<1>1. Len(s) \in Nat /\ Len(s) # 0 /\ DOMAIN s = 1..Len(s)
  OBVIOUS
<1>2. 1 \in 1..Len(s)
  BY <1>1
<1>3. s[1] = k
  BY <1>1, <1>2 DEF Range
<1> QED
  BY <1>1, <1>2, <1>3 DEF Match

LEMMA PreferHere ==
    ASSUME NEW x \in Call, HopOK(x), PreferOK(x), x.pc \in Shaking, ~x.plan.insecure
    PROVE  FreshPrefer(HostOf(x), x.prefer[x.hop])
<1>1. CASE x.hop = "jump"
  BY <1>1 DEF PreferOK, HostOf
<1>2. CASE x.hop = "target"
  BY <1>2 DEF PreferOK, HopOK, HostOf
<1> QED
  BY <1>1, <1>2 DEF Call, Hop

-----------------------------------------------------------------------------
(* The steps, for what is preferred, presented and refused.                *)

Kept(x, y) == Same(x, y) /\ y.prefer = x.prefer /\ y.refused = x.refused
KeyMoved(d) == \E y : dial' = [dial EXCEPT ![d] = y] /\ KeyInv(y)

\* A step that does not enter the check of a key.
LEMMA KeyKept ==
    ASSUME NEW x, NEW y, KeyInv(x), Kept(x, y), y.pc \notin Shaking \ {"shake"},
           ~x.plan.probe /\ (y.hop = "jump" \/ y.pc \in {"transport", "shake"})
               => x.hop = "jump" \/ x.pc \in {"transport"} \cup Shaking,
           y.hop = "jump" /\ y.pc \in {"transport", "shake"}
               => x.hop = "jump" /\ x.pc \in {"transport"} \cup Shaking
    PROVE  KeyInv(y)
<1>1. PreferOK(y)
  BY DEF KeyInv, PreferOK, Kept, Same
<1>2. KeyOK(y)
  BY DEF KeyOK
<1>3. RefusedOK(y)
  BY DEF KeyInv, RefusedOK, Kept
<1> QED
  BY <1>1, <1>2, <1>3 DEF KeyInv

\* A step within it.
LEMMA KeyStays ==
    ASSUME NEW x, NEW y, KeyInv(x), Kept(x, y), x.pc \in Shaking, y.pc \in Shaking, y.hop = x.hop,
           y.key = x.key, x.pc = "shake" => y.pc = "shake"
    PROVE  KeyInv(y)
<1>1. PreferOK(y)
  BY DEF KeyInv, PreferOK, Kept, Same
<1>2. KeyOK(y)
  BY HostOfSame DEF KeyInv, KeyOK, Kept, Same
<1>3. RefusedOK(y)
  BY DEF KeyInv, RefusedOK, Kept
<1> QED
  BY <1>1, <1>2, <1>3 DEF KeyInv

\* The ends of an attempt.
Ends(x, y) == Kept(x, y) /\ y.hop = "target" /\ y.pc \in {"transport", "failed"}

LEMMA EndsFacts ==
    ASSUME NEW x \in Call
    PROVE  /\ Ends(x, AttemptFails(x)) /\ Ends(x, HandshakeFails(x)) /\ Ends(x, TransportFails(x))
           /\ Ends(x, JumpFails(x)) /\ Ends(x, JumpConnectFails(x))
           /\ x.hop = "jump" => Ends(x, AuthFails(x))
           /\ x.hop = "target" => Ends(x, AuthFails(x)) /\ AuthFails(x).pc = "failed"
           /\ x.hop = "target" => Ends(x, DialFails(x)) /\ DialFails(x).pc = "failed"
<1>1. ASSUME NEW z \in Call PROVE Ends(z, AttemptFails(z))
  BY AttemptFacts DEF Ends, Kept
<1>2. ASSUME NEW D PROVE Ends(x, AttemptFails(Dropped(x, D)))
  <2> DEFINE z == Dropped(x, D)
  <2>1. z \in Call /\ Kept(x, z)
    BY DroppedFacts DEF Kept
  <2> HIDE DEF z
  <2>2. Ends(z, AttemptFails(z))
    BY <2>1, <1>1
  <2>3. Ends(x, AttemptFails(z))
    BY <2>1, <2>2 DEF Ends, Kept, Same
  <2> QED
    BY <2>3 DEF z
<1>3. Ends(x, HandshakeFails(x)) /\ Ends(x, JumpFails(x)) /\ Ends(x, JumpConnectFails(x))
  BY <1>2 DEF HandshakeFails, JumpHandshakeFails, TargetHandshakeFails, JumpFails, JumpConnectFails
<1>4. Ends(x, TransportFails(x))
  BY <1>1, <1>2 DEF TransportFails, JumpTransportFails
<1>5. x.hop = "target" => Ends(x, DialFails(x)) /\ DialFails(x).pc = "failed"
  BY DialFailsFacts DEF Ends, Kept
<1> QED
  BY <1>1, <1>3, <1>4, <1>5 DEF AuthFails

\* After an end the target's preferences, if it is tried again, are as before.
LEMMA EndKeeps ==
    ASSUME NEW x, NEW y, KeyInv(x), Ends(x, y),
           y.pc = "transport" => x.hop = "jump" \/ x.pc \in {"transport"} \cup Shaking
    PROVE  KeyInv(y)
BY KeyKept DEF Ends, Shaking

LEMMA AcceptFacts ==
    ASSUME AcceptInv, NEW d \in Dials
    PROVE  /\ Inv /\ dial[d] \in Call /\ HopOK(dial[d]) /\ TrustOK(dial[d], known)
           /\ KeyInv(dial[d]) /\ dial[d].hop \in {"target", "jump"}
<1>1. Inv /\ KeyInv(dial[d])
  BY DEF AcceptInv
<1>2. dial[d] \in Call /\ HopOK(dial[d]) /\ TrustOK(dial[d], known)
  BY <1>1, InvFacts
<1> QED
  BY <1>1, <1>2 DEF Call, Hop

\* Opening or dropping something and going on keeps the rest.
LEMMA GoesOn ==
    ASSUME NEW x \in Call, NEW s \in Steps
    PROVE  /\ Kept(x, Goto(x, s)) /\ Goto(x, s).hop = x.hop /\ Goto(x, s).pc = s /\ Goto(x, s).key = x.key
           /\ \A R : R \subseteq Resource =>
                LET y == Goto(Opened(x, R), s)
                IN  Kept(x, y) /\ y.hop = x.hop /\ y.pc = s /\ y.key = x.key
           /\ \A D : LET y == Goto(Dropped(x, D), s)
                     IN  Kept(x, y) /\ y.hop = x.hop /\ y.pc = s /\ y.key = x.key
<1>1. \A z \in Call : Kept(z, Goto(z, s)) /\ Goto(z, s).hop = z.hop /\ Goto(z, s).pc = s /\ Goto(z, s).key = z.key
  BY GotoFacts DEF Kept
<1>2. ASSUME NEW R, R \subseteq Resource
      PROVE  LET y == Goto(Opened(x, R), s)
             IN  Kept(x, y) /\ y.hop = x.hop /\ y.pc = s /\ y.key = x.key
  <2> DEFINE z == Opened(x, R)
  <2>1. z \in Call /\ Kept(x, z) /\ z.hop = x.hop /\ z.key = x.key
    BY <1>2, OpenedFacts DEF Kept
  <2> HIDE DEF z
  <2>2. Kept(x, Goto(z, s)) /\ Goto(z, s).hop = x.hop /\ Goto(z, s).pc = s /\ Goto(z, s).key = x.key
    BY <1>1, <2>1 DEF Kept, Same
  <2> QED
    BY <2>2 DEF z
<1>3. ASSUME NEW D
      PROVE  LET y == Goto(Dropped(x, D), s)
             IN  Kept(x, y) /\ y.hop = x.hop /\ y.pc = s /\ y.key = x.key
  <2> DEFINE z == Dropped(x, D)
  <2>1. z \in Call /\ Kept(x, z) /\ z.hop = x.hop /\ z.key = x.key
    BY DroppedFacts DEF Kept
  <2> HIDE DEF z
  <2>2. Kept(x, Goto(z, s)) /\ Goto(z, s).hop = x.hop /\ Goto(z, s).pc = s /\ Goto(z, s).key = x.key
    BY <1>1, <2>1 DEF Kept, Same
  <2> QED
    BY <2>2 DEF z
<1> QED
  BY <1>1, <1>2, <1>3

LEMMA CredentialsKey ==
    ASSUME AcceptInv, NEW d \in Dials, Dial(d) \/ ResolveCloud(d) \/ ResolveJump(d)
    PROVE  KeyMoved(d)
<1> DEFINE x == dial[d]
<1>1. x \in Call /\ HopOK(x) /\ KeyInv(x)
  BY AcceptFacts
<1> HIDE DEF x
<1>2. ASSUME NEW s \in Steps, s \in {"transport", "resolve", "auth"}, s = "transport" => x.plan.probe,
             x.pc \in {"idle", "resolve"}, NEW R, R \subseteq Resource,
             Set(d, Goto(Opened(x, R), s)) \/ Set(d, Goto(x, s))
      PROVE  KeyMoved(d)
  <2>1. PICK y : dial' = [dial EXCEPT ![d] = y] /\ Kept(x, y) /\ y.hop = x.hop /\ y.pc = s
    BY <1>1, <1>2, GoesOn DEF Set
  <2>2. KeyInv(y)
    BY <1>1, <1>2, <2>1, KeyKept DEF HopOK, Kept, Same, Shaking
  <2> QED
    BY <2>1, <2>2 DEF KeyMoved
<1>3. CASE Dial(d)
  <2> DEFINE s == IF x.plan.probe THEN "transport" ELSE IF x.plan.vault # "no" THEN "resolve" ELSE "auth"
  <2>1. x.pc = "idle" /\ Set(d, Goto(x, s))
    BY <1>3 DEF Dial, x
  <2>2. s \in Steps /\ s \in {"transport", "resolve", "auth"} /\ (s = "transport" => x.plan.probe)
    BY DEF Steps
  <2> HIDE DEF s
  <2>3. {} \subseteq Resource
    OBVIOUS
  <2> QED
    BY <1>2, <2>1, <2>2, <2>3
<1>4. CASE ResolveCloud(d)
  <2>1. /\ x.pc = "resolve"
        /\ \E R \in VaultSigners(x, "target") :
             \/ Set(d, Goto(Opened(x, R \cup (IF x.plan.vault = "session" THEN {T("vault")} ELSE {})), "auth"))
             \/ Set(d, DialFails(Opened(x, R)))
    BY <1>4 DEF ResolveCloud, x
  <2>2. PICK R \in VaultSigners(x, "target") :
             \/ Set(d, Goto(Opened(x, R \cup (IF x.plan.vault = "session" THEN {T("vault")} ELSE {})), "auth"))
             \/ Set(d, DialFails(Opened(x, R)))
    BY <2>1
  <2>3. R \subseteq Resource /\ T("vault") \in Resource /\ "auth" \in Steps
    BY VaultSignersFacts DEF Hop, T, Resource, Steps
  <2>4. CASE Set(d, Goto(Opened(x, R \cup (IF x.plan.vault = "session" THEN {T("vault")} ELSE {})), "auth"))
    <3> DEFINE Q == R \cup (IF x.plan.vault = "session" THEN {T("vault")} ELSE {})
    <3>1. Q \subseteq Resource /\ Set(d, Goto(Opened(x, Q), "auth"))
      BY <2>3, <2>4
    <3> HIDE DEF Q
    <3> QED
      BY <1>2, <2>1, <2>3, <3>1
  <2>5. CASE Set(d, DialFails(Opened(x, R)))
    <3> DEFINE z == Opened(x, R)
    <3>1. z \in Call /\ Kept(x, z) /\ z.hop = x.hop /\ x.hop = "target"
      BY <1>1, <2>1, <2>3, OpenedFacts DEF Kept, HopOK
    <3> HIDE DEF z
    <3>2. Ends(x, DialFails(z)) /\ DialFails(z).pc = "failed"
      BY <3>1, EndsFacts DEF Ends, Kept, Same
    <3>3. KeyInv(DialFails(z))
      BY <1>1, <3>2, EndKeeps
    <3> QED
      BY <2>5, <3>3 DEF KeyMoved, Set, z
  <2> QED
    BY <2>2, <2>4, <2>5
<1>5. CASE ResolveJump(d)
  <2>1. /\ x.pc = "resolvejump"
        /\ \E R \in VaultSigners(x, "jump") :
             \/ Set(d, Goto(Opened(x, R \cup (IF x.plan.jvault THEN {J("vault")} ELSE {})), "auth"))
             \/ Set(d, JumpFails(Opened(x, R)))
    BY <1>5 DEF ResolveJump, x
  <2>2. PICK R \in VaultSigners(x, "jump") :
             \/ Set(d, Goto(Opened(x, R \cup (IF x.plan.jvault THEN {J("vault")} ELSE {})), "auth"))
             \/ Set(d, JumpFails(Opened(x, R)))
    BY <2>1
  <2>3. R \subseteq Resource /\ J("vault") \in Resource /\ "auth" \in Steps /\ x.hop = "jump"
    BY <1>1, <2>1, VaultSignersFacts DEF Hop, J, Resource, Steps, HopOK
  <2>4. CASE Set(d, Goto(Opened(x, R \cup (IF x.plan.jvault THEN {J("vault")} ELSE {})), "auth"))
    <3> DEFINE Q == R \cup (IF x.plan.jvault THEN {J("vault")} ELSE {})
               y == Goto(Opened(x, Q), "auth")
    <3>1. Q \subseteq Resource /\ Set(d, y)
      BY <2>3, <2>4
    <3> HIDE DEF Q
    <3>2. Kept(x, y) /\ y.hop = x.hop /\ y.pc = "auth"
      BY <1>1, <2>3, <3>1, GoesOn
    <3> HIDE DEF y
    <3>3. KeyInv(y)
      BY <1>1, <2>3, <3>2, KeyKept DEF Shaking
    <3> QED
      BY <3>1, <3>3 DEF KeyMoved, Set
  <2>5. CASE Set(d, JumpFails(Opened(x, R)))
    <3> DEFINE z == Opened(x, R)
    <3>1. z \in Call /\ Kept(x, z) /\ z.hop = x.hop
      BY <1>1, <2>3, OpenedFacts DEF Kept
    <3> HIDE DEF z
    <3>2. Ends(x, JumpFails(z))
      BY <3>1, EndsFacts DEF Ends, Kept, Same
    <3>3. KeyInv(JumpFails(z))
      BY <1>1, <2>3, <3>2, EndKeeps
    <3> QED
      BY <2>5, <3>3 DEF KeyMoved, Set, z
  <2> QED
    BY <2>2, <2>4, <2>5
<1> QED
  BY <1>3, <1>4, <1>5

LEMMA BuildAuthKey ==
    ASSUME AcceptInv, NEW d \in Dials, BuildAuth(d)
    PROVE  KeyMoved(d)
<1> DEFINE x == dial[d]
<1>1. x \in Call /\ HopOK(x) /\ KeyInv(x) /\ x.hop \in {"target", "jump"}
  BY AcceptFacts
<1>2. /\ x.pc = "auth"
      /\ \E r \in Methods(x) \cup {Failed} :
             Set(d, IF r.ok THEN Goto([Opened(x, r.owns \ {Here(x, "signers")}) EXCEPT !.owned = @ \cup r.owns], "config")
                    ELSE AuthFails(x))
  BY DEF BuildAuth
<1> HIDE DEF x
<1>3. PICK r \in Methods(x) \cup {Failed} :
             Set(d, IF r.ok THEN Goto([Opened(x, r.owns \ {Here(x, "signers")}) EXCEPT !.owned = @ \cup r.owns], "config")
                    ELSE AuthFails(x))
  BY <1>2
<1>4. r.owns \subseteq Resource /\ "config" \in Steps
  BY <1>1, MethodsFacts DEF Steps
<1>5. CASE r.ok
  <2> DEFINE Q == r.owns
             R == Q \ {Here(x, "signers")}
             z == Opened(x, R)
             w == [z EXCEPT !.owned = @ \cup Q]
             y == Goto(w, "config")
  <2>1. R \subseteq Resource /\ Q \subseteq Resource /\ dial' = [dial EXCEPT ![d] = y]
    BY <1>3, <1>4, <1>5 DEF Set
  <2> HIDE DEF R, Q
  <2>2. z \in Call /\ Kept(x, z) /\ z.hop = x.hop
    BY <1>1, <2>1, OpenedFacts DEF Kept
  <2> HIDE DEF z
  <2>3. w \in Call /\ Kept(z, w) /\ w.hop = z.hop
    <3> DEFINE o == z.owned \cup Q
    <3>1. o \in SUBSET Resource
      BY <2>1, <2>2 DEF Call
    <3>2. w = [z EXCEPT !.owned = o]
      OBVIOUS
    <3> HIDE DEF o
    <3>3. LET v == [z EXCEPT !.owned = o] IN v \in Call /\ Kept(z, v) /\ v.hop = z.hop
      BY <2>2, <3>1 DEF Call, Kept, Same
    <3> QED
      BY <3>2, <3>3
  <2> HIDE DEF w
  <2>4. Kept(x, y) /\ y.hop = x.hop /\ y.pc = "config"
    BY <1>4, <2>2, <2>3, GoesOn DEF Kept, Same
  <2> HIDE DEF y
  <2>5. KeyInv(y)
    BY <1>1, <2>4, KeyKept DEF Shaking
  <2> QED
    BY <2>1, <2>5 DEF KeyMoved
<1>6. CASE ~r.ok
  <2>1. Ends(x, AuthFails(x)) /\ (x.hop = "target" => AuthFails(x).pc = "failed")
    BY <1>1, EndsFacts
  <2>2. KeyInv(AuthFails(x))
    BY <1>1, <2>1, EndKeeps
  <2> QED
    BY <1>3, <1>6, <2>2 DEF KeyMoved, Set
<1> QED
  BY <1>5, <1>6

\* BuildClientConfig reads the file: what it prefers for the host is fresh.
LEMMA BuildClientConfigKey ==
    ASSUME AcceptInv, NEW d \in Dials, BuildClientConfig(d)
    PROVE  KeyMoved(d)
<1> DEFINE x == dial[d]
           h == HostOf(x)
           p == IF x.plan.insecure THEN {} ELSE {Algorithm[k] : k \in Range(known[h])}
<1>1. /\ Inv /\ x \in Call /\ HopOK(x) /\ KeyInv(x) /\ x.hop \in {"target", "jump"}
  BY AcceptFacts
<1>2. /\ h \in Hosts /\ known[h] \in Seq(Keys) /\ (Pinned[h] # << >> => known[h] = Pinned[h])
      /\ \A m \in Backends[h] :
            Backends[h] = {m} /\ Pinned[h] = << >> => Range(known[h]) \subseteq {Negotiated({}, m)}
  BY <1>1, HostOfIsHost DEF Inv, KnownInv, AcceptInv, FirstKey
<1>3. p \in SUBSET Range(Default)
  BY <1>2, AlgorithmsTyped
<1>4. /\ x.pc = "config"
      /\ \/ Set(d, Goto([x EXCEPT !.prefer[x.hop] = p], "transport"))
         \/ Set(d, AuthFails(Dropped(x, Closer(x, x.hop))))
  BY DEF BuildClientConfig
<1>5. ~x.plan.insecure => FreshPrefer(h, p)
  BY <1>2 DEF FreshPrefer
<1> HIDE DEF x, p
<1>6. CASE Set(d, Goto([x EXCEPT !.prefer[x.hop] = p], "transport"))
  <2> DEFINE z == [x EXCEPT !.prefer[x.hop] = p]
             y == Goto(z, "transport")
             q == [x.prefer EXCEPT ![x.hop] = p]
  <2>1. /\ z \in Call /\ Same(x, z) /\ z.hop = x.hop /\ z.prefer = q /\ z.refused = x.refused
    <3>1. q \in [Hop -> SUBSET Range(Default)]
      BY <1>1, <1>3 DEF Call
    <3>2. z = [x EXCEPT !.prefer = q]
      OBVIOUS
    <3> HIDE DEF q
    <3>3. LET v == [x EXCEPT !.prefer = q]
          IN  /\ v \in Call /\ Same(x, v) /\ v.hop = x.hop /\ v.prefer = q /\ v.refused = x.refused
      BY <1>1, <3>1 DEF Call, Same
    <3> QED
      BY <3>2, <3>3
  <2>2. q[x.hop] = p /\ \A g \in Hop : g # x.hop => q[g] = x.prefer[g]
    BY <1>1 DEF Call, Hop
  <2>3. dial' = [dial EXCEPT ![d] = y]
    BY <1>6 DEF Set
  <2> HIDE DEF z, q
  <2>4. "transport" \in Steps /\ "transport" \notin Shaking
    BY DEF Steps, Shaking
  <2>5. /\ Same(x, y) /\ y.pc = "transport" /\ y.hop = x.hop /\ y.prefer = q /\ y.refused = x.refused
    BY <2>1, <2>4, GotoFacts DEF Same
  <2> HIDE DEF y
  <2>6. PreferOK(y)
    <3>1. CASE x.hop = "jump"
      <4>1. ~x.plan.insecure => FreshPrefer(x.plan.jump, y.prefer["jump"])
        BY <3>1, <1>5, <2>2, <2>5 DEF HostOf
      <4>2. ~x.plan.insecure /\ ~x.plan.probe => FreshPrefer(x.plan.host, y.prefer["target"])
        BY <3>1, <1>1, <2>2, <2>5 DEF KeyInv, PreferOK, Hop
      <4> QED
        BY <4>1, <4>2, <2>5 DEF PreferOK, Same
    <3>2. CASE x.hop = "target"
      BY <3>2, <1>5, <2>2, <2>5 DEF PreferOK, HostOf, Same
    <3> QED
      BY <3>1, <3>2, <1>1
  <2>7. KeyOK(y) /\ RefusedOK(y)
    BY <1>1, <2>4, <2>5 DEF KeyInv, KeyOK, RefusedOK
  <2> QED
    BY <2>3, <2>6, <2>7 DEF KeyMoved, KeyInv
<1>7. CASE Set(d, AuthFails(Dropped(x, Closer(x, x.hop))))
  <2> DEFINE z == Dropped(x, Closer(x, x.hop))
  <2>1. z \in Call /\ Kept(x, z) /\ z.hop = x.hop
    BY <1>1, DroppedFacts DEF Kept
  <2> HIDE DEF z
  <2>2. Ends(x, AuthFails(z)) /\ (x.hop = "target" => AuthFails(z).pc = "failed")
    BY <1>1, <2>1, EndsFacts DEF Ends, Kept, Same
  <2>3. KeyInv(AuthFails(z))
    BY <1>1, <2>2, EndKeeps
  <2> QED
    BY <1>7, <2>3 DEF KeyMoved, Set, z
<1> QED
  BY <1>4, <1>6, <1>7

LEMMA DialTransportKey ==
    ASSUME AcceptInv, NEW d \in Dials, DialTransport(d)
    PROVE  KeyMoved(d)
<1> DEFINE x == dial[d]
           z == [x EXCEPT !.kind[x.hop] = RouteKind(x)]
           kind == z.kind[z.hop]
           up == IF z.plan.probe /\ z.hop = "target" THEN "banner" ELSE "shake"
<1>1. /\ x \in Call /\ KeyInv(x) /\ x.hop \in {"target", "jump"}
  BY AcceptFacts
<1>2. /\ z.pc = "transport"
      /\ \/ Set(d, [z EXCEPT !.hop = "jump", !.pc = "resolvejump"])
         \/ \E R \in CASE kind = "direct" -> DialDirect(z.hop)
                       [] kind = "socks" -> DialSOCKS5(z.hop)
                       [] kind = "command" -> DialProxyCommand(z.hop)
                       [] kind = "jump" -> {} :
              Set(d, IF R = {} THEN TransportFails(z) ELSE Goto(Opened(z, R), up))
  BY DEF DialTransport
<1> HIDE DEF x
<1>3. /\ RouteKind(x) \in Kind
  BY <1>1, RouteKindFacts
<1>4. /\ z \in Call /\ Kept(x, z) /\ z.pc = x.pc /\ z.hop = x.hop
      /\ z.kind = [x.kind EXCEPT ![x.hop] = RouteKind(x)]
  <2> DEFINE q == [x.kind EXCEPT ![x.hop] = RouteKind(x)]
  <2>1. q \in [Hop -> Kind \cup {"none"}]
    BY <1>1, <1>3 DEF Call
  <2>2. z = [x EXCEPT !.kind = q]
    OBVIOUS
  <2> HIDE DEF q
  <2>3. LET v == [x EXCEPT !.kind = q]
        IN  /\ v \in Call /\ Kept(x, v) /\ v.pc = x.pc /\ v.hop = x.hop /\ v.kind = q
    BY <1>1, <2>1 DEF Call, Same, Kept
  <2> QED
    BY <2>2, <2>3 DEF q
<1>5. kind \in Kind /\ x.pc = "transport"
  BY <1>1, <1>2, <1>3, <1>4 DEF Call, Hop
<1> HIDE DEF z, kind
<1>6. CASE Set(d, [z EXCEPT !.hop = "jump", !.pc = "resolvejump"])
  <2> DEFINE y == [z EXCEPT !.hop = "jump", !.pc = "resolvejump"]
  <2>1. Kept(x, y) /\ y.pc = "resolvejump" /\ y.hop = "jump"
    BY <1>4 DEF Call, Same, Kept, Hop, Steps
  <2> HIDE DEF y
  <2>2. KeyInv(y)
    BY <1>1, <1>5, <2>1, KeyKept DEF Shaking
  <2> QED
    BY <1>6, <2>2 DEF KeyMoved, Set, y
<1>7. ASSUME NEW R \in CASE kind = "direct" -> DialDirect(z.hop)
                         [] kind = "socks" -> DialSOCKS5(z.hop)
                         [] kind = "command" -> DialProxyCommand(z.hop)
                         [] kind = "jump" -> {},
             Set(d, IF R = {} THEN TransportFails(z) ELSE Goto(Opened(z, R), up))
      PROVE  KeyMoved(d)
  <2>1. R \subseteq {<<z.hop, "conn">>, <<z.hop, "process">>}
    BY <1>5, <1>7 DEF Kind, DialDirect, DialSOCKS5, DialProxyCommand
  <2>2. CASE R = {}
    <3>1. Ends(x, TransportFails(z))
      BY <1>4, EndsFacts DEF Ends, Kept, Same
    <3>2. KeyInv(TransportFails(z))
      BY <1>1, <1>5, <3>1, EndKeeps
    <3> QED
      BY <1>7, <2>2, <3>2 DEF KeyMoved, Set
  <2>3. CASE R # {}
    <3> DEFINE y == Goto(Opened(z, R), up)
    <3>1. R \subseteq Resource /\ up \in Steps /\ up \in {"banner", "shake"}
      BY <2>1, <1>1, <1>4 DEF Resource, Hop, Steps
    <3>2. dial' = [dial EXCEPT ![d] = y]
      BY <1>7, <2>3 DEF Set
    <3> HIDE DEF up
    <3>3. Kept(x, y) /\ y.pc = up /\ y.hop = x.hop
      BY <1>4, <3>1, GoesOn DEF Kept, Same
    <3> HIDE DEF y
    <3>4. KeyInv(y)
      BY <1>1, <1>5, <3>1, <3>3, KeyKept DEF Shaking
    <3> QED
      BY <3>2, <3>4 DEF KeyMoved
  <2> QED
    BY <2>2, <2>3
<1> QED
  BY <1>2, <1>6, <1>7

\* The machine's answer is what the order of this client makes it.
LEMMA ServerAnswersKey ==
    ASSUME AcceptInv, NEW d \in Dials, ServerAnswers(d)
    PROVE  KeyMoved(d)
<1> DEFINE x == dial[d]
<1>1. /\ x \in Call /\ HopOK(x) /\ KeyInv(x)
  BY AcceptFacts
<1>2. /\ x.pc = "shake"
      /\ \E machine \in Backends[HostOf(x)] :
             Set(d, [x EXCEPT !.pc = "check", !.key = Negotiated(x.prefer[x.hop], machine)])
  BY DEF ServerAnswers
<1> HIDE DEF x
<1>3. PICK machine \in Backends[HostOf(x)] :
             Set(d, [x EXCEPT !.pc = "check", !.key = Negotiated(x.prefer[x.hop], machine)])
  BY <1>2
<1> DEFINE n == Negotiated(x.prefer[x.hop], machine)
           y == [x EXCEPT !.pc = "check", !.key = n]
<1>4. dial' = [dial EXCEPT ![d] = y]
  BY <1>3 DEF Set
<1>5. \A m \in Backends[HostOf(x)] : Backends[HostOf(x)] = {m} => n = Negotiated(x.prefer[x.hop], m)
  BY <1>3
<1> HIDE DEF n
<1>6. Kept(x, y) /\ y.pc = "check" /\ y.hop = x.hop /\ y.key = n
  BY <1>1 DEF Call, Same, Kept
<1> HIDE DEF y
<1>7. HostOf(y) = HostOf(x)
  BY <1>6, HostOfSame DEF Kept
<1>8. PreferOK(y)
  BY <1>1, <1>2, <1>6 DEF KeyInv, PreferOK, Kept, Same, Shaking
<1>9. KeyOK(y)
  BY <1>5, <1>6, <1>7 DEF KeyOK, Kept
<1>10. RefusedOK(y)
  BY <1>1, <1>6 DEF KeyInv, RefusedOK, Kept
<1> QED
  BY <1>4, <1>8, <1>9, <1>10 DEF KeyMoved, KeyInv

\* CheckKey refuses no machine that has a key in the file.
LEMMA CheckKeyKey ==
    ASSUME Tidy, AcceptInv, NEW d \in Dials, CheckKey(d)
    PROVE  KeyMoved(d)
<1> DEFINE x == dial[d]
           h == HostOf(x)
           keys == known[h]
<1>1. /\ Inv /\ x \in Call /\ HopOK(x) /\ KeyInv(x)
  BY AcceptFacts
<1>2. /\ h \in Hosts /\ keys \in Seq(Keys) /\ (Pinned[h] # << >> => keys = Pinned[h])
      /\ \A m \in Backends[h] :
            Backends[h] = {m} /\ Pinned[h] = << >> => Range(keys) \subseteq {Negotiated({}, m)}
  BY <1>1, HostOfIsHost DEF Inv, KnownInv, AcceptInv, FirstKey
<1>3. /\ x.pc = "check"
      /\ \/ Set(d, Goto(x, "login"))
         \/ Set(d, Goto(x, "lock"))
         \/ /\ ~x.plan.insecure /\ keys # << >> /\ ~Match(keys, x.key)
            /\ Set(d, HandshakeFails([x EXCEPT !.refused = @ \cup {h}]))
         \/ Set(d, HandshakeFails(x))
  BY DEF CheckKey
<1> HIDE DEF x, keys
<1>4. x.pc \in Shaking
  BY <1>3 DEF Shaking
<1>5. ASSUME NEW s \in {"login", "lock"}, Set(d, Goto(x, s))
      PROVE  KeyMoved(d)
  <2>1. s \in Steps /\ s \in Shaking
    BY DEF Steps, Shaking
  <2>2. Kept(x, Goto(x, s)) /\ Goto(x, s).hop = x.hop /\ Goto(x, s).pc = s /\ Goto(x, s).key = x.key
    BY <1>1, <2>1, GoesOn
  <2>3. KeyInv(Goto(x, s))
    BY <1>1, <1>3, <1>4, <2>1, <2>2, KeyStays
  <2> QED
    BY <1>5, <2>3 DEF KeyMoved, Set
<1>6. CASE /\ ~x.plan.insecure /\ keys # << >> /\ ~Match(keys, x.key)
           /\ Set(d, HandshakeFails([x EXCEPT !.refused = @ \cup {h}]))
  <2> DEFINE y == [x EXCEPT !.refused = @ \cup {h}]
  <2>1. /\ y \in Call /\ Same(x, y) /\ y.pc = x.pc /\ y.hop = x.hop /\ y.key = x.key /\ y.prefer = x.prefer
        /\ y.refused = x.refused \cup {h}
    BY <1>1, <1>2 DEF Call, Same
  <2> HIDE DEF y
  <2>2. FreshPrefer(h, x.prefer[x.hop])
    BY <1>1, <1>4, <1>6, PreferHere DEF KeyInv
  <2>3. ASSUME NEW m \in Backends[h], Backends[h] = {m}
        PROVE  Pinned[h] # << >> /\ m \cap Range(Pinned[h]) = {}
    <3>1. x.key = Negotiated(x.prefer[x.hop], m)
      BY <1>1, <1>3, <1>4, <1>6, <2>3 DEF KeyInv, KeyOK
    <3>2. CASE Pinned[h] = << >>
      <4>1. x.key = Negotiated({}, m)
        BY <1>2, <2>2, <2>3, <3>1, <3>2, SameKeyAgain
      <4>2. Match(keys, x.key)
        BY <1>2, <1>6, <2>3, <3>2, <4>1, OneKeyMatches
      <4> QED
        BY <1>6, <4>2
    <3>3. CASE Pinned[h] # << >> /\ m \cap Range(Pinned[h]) # {}
      <4>1. Match(Pinned[h], x.key)
        BY <1>2, <2>2, <2>3, <3>1, <3>3, PinnedMatches
      <4> QED
        BY <1>2, <1>6, <3>3, <4>1
    <3> QED
      BY <3>2, <3>3
  <2>4. PreferOK(y) /\ KeyOK(y)
    BY <1>1, <2>1, HostOfSame DEF KeyInv, PreferOK, KeyOK, Same
  <2>5. RefusedOK(y)
    BY <1>1, <2>1, <2>3 DEF KeyInv, RefusedOK
  <2>6. Ends(y, HandshakeFails(y))
    BY <2>1, EndsFacts
  <2>7. KeyInv(HandshakeFails(y))
    BY <1>4, <2>1, <2>4, <2>5, <2>6, EndKeeps DEF KeyInv
  <2> QED
    BY <1>6, <2>7 DEF KeyMoved, Set, y
<1>7. CASE Set(d, HandshakeFails(x))
  <2>1. KeyInv(HandshakeFails(x))
    BY <1>1, <1>4, EndsFacts, EndKeeps
  <2> QED
    BY <1>7, <2>1 DEF KeyMoved, Set
<1> QED
  BY <1>3, <1>5, <1>6, <1>7

LEMMA HandshakeKey ==
    ASSUME AcceptInv, NEW d \in Dials,
           Expire(d) \/ LockPin(d) \/ Recheck(d) \/ LoggedIn(d) \/ ServerRefuses(d) \/ HandshakeExpired(d)
    PROVE  KeyMoved(d)
<1> DEFINE x == dial[d]
<1>1. /\ x \in Call /\ HopOK(x) /\ KeyInv(x) /\ x.hop \in {"target", "jump"}
  BY AcceptFacts
<1> HIDE DEF x
<1>2. CASE Expire(d)
  <2> DEFINE z == Dropped(x, CloseConn(x.hop))
             y == [z EXCEPT !.expired = TRUE]
  <2>1. x.pc \in Shaking /\ dial' = [dial EXCEPT ![d] = y]
    BY <1>2 DEF Expire, Set, Shaking, x
  <2>2. z \in Call /\ Kept(x, z) /\ z.pc = x.pc /\ z.hop = x.hop /\ z.key = x.key
    BY <1>1, DroppedFacts DEF Kept
  <2> HIDE DEF z
  <2>3. Kept(x, y) /\ y.pc = x.pc /\ y.hop = x.hop /\ y.key = x.key
    BY <2>2 DEF Call, Kept, Same
  <2> HIDE DEF y
  <2>4. KeyInv(y)
    BY <1>1, <2>1, <2>3, KeyStays
  <2> QED
    BY <2>1, <2>4 DEF KeyMoved
<1>3. ASSUME NEW s \in {"recheck", "login", "append"}, x.pc \in {"lock", "recheck"}, Set(d, Goto(x, s))
      PROVE  KeyMoved(d)
  <2>1. s \in Steps /\ s \in Shaking /\ x.pc \in Shaking
    BY <1>3 DEF Steps, Shaking
  <2>2. Kept(x, Goto(x, s)) /\ Goto(x, s).hop = x.hop /\ Goto(x, s).pc = s /\ Goto(x, s).key = x.key
    BY <1>1, <2>1, GoesOn
  <2>3. KeyInv(Goto(x, s))
    BY <1>1, <1>3, <2>1, <2>2, KeyStays
  <2> QED
    BY <1>3, <2>3 DEF KeyMoved, Set
<1>4. CASE LockPin(d)
  BY <1>3, <1>4 DEF LockPin, x
<1>5. CASE Recheck(d)
  <2> DEFINE s == IF Match(known[HostOf(x)], x.key) THEN "login" ELSE "append"
  <2>1. x.pc = "recheck" /\ Set(d, Goto(x, s))
    BY <1>5 DEF Recheck, x
  <2>2. s \in {"recheck", "login", "append"}
    OBVIOUS
  <2> HIDE DEF s
  <2> QED
    BY <1>3, <2>1, <2>2
<1>6. CASE LoggedIn(d)
  <2> DEFINE s == IF x.hop = "jump" THEN "connect" ELSE "discover"
             R == {Here(x, "ssh")}
             y == Goto(Opened(x, R), s)
  <2>1. x.pc = "login" /\ dial' = [dial EXCEPT ![d] = y]
    BY <1>6 DEF LoggedIn, Set, x
  <2>2. s \in Steps /\ R \subseteq Resource /\ s \in {"connect", "discover"}
    BY <1>1 DEF Steps, Here, Resource, Hop
  <2> HIDE DEF s, R
  <2>3. Kept(x, y) /\ y.hop = x.hop /\ y.pc = s
    BY <1>1, <2>2, GoesOn
  <2> HIDE DEF y
  <2>4. KeyInv(y)
    BY <1>1, <2>2, <2>3, KeyKept DEF Shaking
  <2> QED
    BY <2>1, <2>4 DEF KeyMoved
<1>7. CASE ServerRefuses(d) \/ HandshakeExpired(d)
  <2>1. x.pc \in Shaking /\ Set(d, HandshakeFails(x))
    BY <1>7 DEF ServerRefuses, HandshakeExpired, Shaking, x
  <2>2. KeyInv(HandshakeFails(x))
    BY <1>1, <2>1, EndsFacts, EndKeeps
  <2> QED
    BY <2>1, <2>2 DEF KeyMoved, Set
<1> QED
  BY <1>2, <1>4, <1>5, <1>6, <1>7

\* A line at the end adds nothing but its key.
LEMMA AppendAddsOne ==
    ASSUME NEW s \in Seq(Keys), NEW k \in Keys, NEW S, Range(s) \subseteq S, k \in S
    PROVE  Range(Append(s, k)) \subseteq S
<1> DEFINE t == Append(s, k)
<1>1. /\ t \in Seq(Keys) /\ DOMAIN t = 1..(Len(s) + 1) /\ t[Len(s) + 1] = k /\ Len(s) \in Nat
      /\ DOMAIN s = 1..Len(s) /\ \A i \in 1..Len(s) : t[i] = s[i]
  OBVIOUS
<1> HIDE DEF t
<1>2. ASSUME NEW i \in DOMAIN t PROVE t[i] \in S
  <2>1. CASE i = Len(s) + 1
    BY <2>1, <1>1
  <2>2. CASE i # Len(s) + 1
    <3>1. i \in 1..Len(s)
      BY <1>1, <1>2, <2>2
    <3> QED
      BY <3>1, <1>1 DEF Range
  <2> QED
    BY <2>1, <2>2
<1>3. Range(t) \subseteq S
  BY <1>2 DEF Range
<1> QED
  BY <1>3 DEF t

\* The second dial to pin a host pins the key the first one did.
LEMMA AppendKnownHostKey ==
    ASSUME Tidy, AcceptInv, NEW d \in Dials, AppendKnownHost(d)
    PROVE  KeyMoved(d) /\ FirstKey'
<1> DEFINE x == dial[d]
           h == HostOf(x)
<1>1. /\ Inv /\ x \in Call /\ HopOK(x) /\ TrustOK(x, known) /\ KeyInv(x)
  BY AcceptFacts
<1>2. /\ h \in Hosts /\ known[h] \in Seq(Keys) /\ known \in [Hosts -> Seq(Keys)]
  BY <1>1, HostOfIsHost DEF Inv, KnownInv
<1>3. /\ x.pc = "append"
      /\ \/ known' = [known EXCEPT ![h] = Append(@, x.key)] /\ Set(d, Goto(x, "login"))
         \/ known' = known /\ Set(d, HandshakeFails(x))
  BY DEF AppendKnownHost
<1> HIDE DEF x
<1>4. x.pc \in Shaking /\ "login" \in Steps /\ "login" \in Shaking
  BY <1>3 DEF Shaking, Steps
<1>5. CASE known' = [known EXCEPT ![h] = Append(@, x.key)] /\ Set(d, Goto(x, "login"))
  <2> DEFINE y == Goto(x, "login")
  <2>1. Kept(x, y) /\ y.pc = "login" /\ y.hop = x.hop /\ y.key = x.key
    BY <1>1, <1>4, GoesOn
  <2> HIDE DEF y
  <2>2. KeyInv(y)
    BY <1>1, <1>3, <1>4, <2>1, KeyStays
  <2>3. FirstKey'
    <3> SUFFICES ASSUME NEW g \in Hosts, NEW m \in Backends[g], Backends[g] = {m}, Pinned[g] = << >>
                 PROVE  Range(known'[g]) \subseteq {Negotiated({}, m)}
      BY DEF FirstKey
    <3>1. Range(known[g]) \subseteq {Negotiated({}, m)}
      BY DEF AcceptInv, FirstKey
    <3>2. CASE g # h
      <4>1. known'[g] = known[g]
        BY <1>2, <1>5, <3>2
      <4> QED
        BY <3>1, <4>1
    <3>3. CASE g = h
      <4>1. ~x.plan.insecure /\ x.key \in Keys
        BY <1>1, <1>3 DEF TrustOK, Shaking
      <4>2. FreshPrefer(g, x.prefer[x.hop])
        BY <1>1, <1>4, <3>3, <4>1, PreferHere DEF KeyInv
      <4>3. x.key = Negotiated(x.prefer[x.hop], m)
        BY <1>1, <1>3, <1>4, <3>3, <4>1 DEF KeyInv, KeyOK
      <4>4. x.key = Negotiated({}, m)
        BY <4>2, <4>3, SameKeyAgain
      <4>5. Range(Append(known[g], x.key)) \subseteq {Negotiated({}, m)}
        <5> DEFINE S == {Negotiated({}, m)}
        <5>1. known[g] \in Seq(Keys) /\ Range(known[g]) \subseteq S /\ x.key \in S
          BY <1>2, <3>1, <3>3, <4>4
        <5> HIDE DEF S
        <5>2. Range(Append(known[g], x.key)) \subseteq S
          BY <4>1, <5>1, AppendAddsOne
        <5> QED
          BY <5>2 DEF S
      <4>6. known'[g] = Append(known[g], x.key)
        BY <1>2, <1>5, <3>3
      <4> QED
        BY <4>5, <4>6
    <3> QED
      BY <3>2, <3>3
  <2> QED
    BY <1>5, <2>2, <2>3 DEF KeyMoved, Set, y
<1>6. CASE known' = known /\ Set(d, HandshakeFails(x))
  <2>1. KeyInv(HandshakeFails(x))
    BY <1>1, <1>4, EndsFacts, EndKeeps
  <2>2. FirstKey'
    BY <1>6 DEF AcceptInv, FirstKey
  <2> QED
    BY <1>6, <2>1, <2>2 DEF KeyMoved, Set
<1> QED
  BY <1>3, <1>5, <1>6

LEMMA JumpConnectKey ==
    ASSUME AcceptInv, NEW d \in Dials, JumpConnect(d)
    PROVE  KeyMoved(d)
<1> DEFINE x == dial[d]
           v == Dropped(x, {J("vault")})
           z == Opened(v, {T("conn")})
           s == IF x.plan.probe THEN "banner" ELSE "shake"
           y == [z EXCEPT !.hop = "target", !.key = NoKey, !.pc = s]
<1>1. /\ x \in Call /\ HopOK(x) /\ KeyInv(x)
  BY AcceptFacts
<1>2. /\ x.pc = "connect" /\ (dial' = [dial EXCEPT ![d] = y] \/ Set(d, JumpConnectFails(x)))
  BY DEF JumpConnect, Set
<1> HIDE DEF x
<1>3. x.hop = "jump"
  BY <1>1, <1>2 DEF HopOK
<1>4. CASE dial' = [dial EXCEPT ![d] = y]
  <2>1. s \in Steps /\ s \in {"banner", "shake"} /\ {T("conn")} \subseteq Resource
    BY DEF Steps, T, Resource, Hop
  <2> HIDE DEF s
  <2>2. v \in Call /\ Kept(x, v)
    BY <1>1, DroppedFacts DEF Kept
  <2> HIDE DEF v
  <2>3. z \in Call /\ Kept(x, z)
    BY <2>1, <2>2, OpenedFacts DEF Kept, Same
  <2> HIDE DEF z
  <2>4. Kept(x, y) /\ y.pc = s /\ y.hop = "target"
    BY <2>1, <2>3 DEF Call, Kept, Same, Hop
  <2> HIDE DEF y
  <2>5. KeyInv(y)
    BY <1>1, <1>3, <2>1, <2>4, KeyKept DEF Shaking
  <2> QED
    BY <1>4, <2>5 DEF KeyMoved
<1>5. CASE Set(d, JumpConnectFails(x))
  <2>1. KeyInv(JumpConnectFails(x))
    BY <1>1, <1>3, EndsFacts, EndKeeps
  <2> QED
    BY <1>5, <2>1 DEF KeyMoved, Set
<1> QED
  BY <1>2, <1>4, <1>5

\* Using and closing a connection touches no key.
LEMMA UseKey ==
    ASSUME AcceptInv, NEW d \in Dials,
           \/ ProbeEnds(d) \/ Discover(d) \/ Observed(d) \/ ObservedLate(d) \/ Exec(d) \/ ExecEnds(d)
           \/ Attach(d) \/ AttachEnds(d) \/ OpenTerminal(d) \/ TerminalStarts(d) \/ Close(d)
    PROVE  KeyMoved(d)
<1> DEFINE x == dial[d]
           z == Dropped(x, {T("observe")})
<1>1. /\ x \in Call /\ HopOK(x) /\ KeyInv(x)
  BY AcceptFacts
<1>2. x.pc \in {"banner"} \cup Connected
  BY DEF ProbeEnds, Discover, Observed, ObservedLate, Exec, ExecEnds, Attach, AttachEnds, OpenTerminal,
         TerminalStarts, Close, Connected, Using
<1>3. x.hop = "target"
  BY <1>1, <1>2 DEF HopOK
<1>4. z \in Call /\ Kept(x, z) /\ z.hop = x.hop /\ z.pc = x.pc
  BY <1>1, DroppedFacts DEF Kept
<1>5. \/ \E D, s : s \in Using \cup {"closed"} /\ Set(d, Goto(Dropped(x, D), s))
      \/ \E R, s : R \subseteq Resource /\ s \in Using \cup {"observe"} /\ Set(d, Goto(Opened(x, R), s))
      \/ Set(d, Goto(x, "terminal"))
      \/ Set(d, z)
      \/ Set(d, Goto(Dropped(z, {T("vault")}), "open"))
  <2>1. CASE ProbeEnds(d) \/ ExecEnds(d) \/ AttachEnds(d) \/ Close(d)
    BY <2>1, Zenon DEF ProbeEnds, ExecEnds, AttachEnds, Close, Using
  <2>2. CASE Discover(d) \/ Observed(d) \/ ObservedLate(d)
    <3>1. {T("observe")} \subseteq Resource
      BY DEF T, Resource, Hop
    <3> QED
      BY <2>2, <3>1, Zenon DEF Discover, Observed, ObservedLate, Returned, Using
  <2>3. CASE Exec(d) \/ Attach(d) \/ OpenTerminal(d)
    <3>1. {T("session"), T("raw")} \subseteq Resource /\ {T("session")} \subseteq Resource
      BY DEF T, Resource, Hop
    <3> QED
      BY <2>3, <3>1, Zenon DEF Exec, Attach, OpenTerminal, Using
  <2>4. CASE TerminalStarts(d)
    BY <2>4, Zenon DEF TerminalStarts, Using
  <2> QED
    BY <2>1, <2>2, <2>3, <2>4
<1> HIDE DEF x, z
<1>6. ASSUME NEW y, dial' = [dial EXCEPT ![d] = y], Kept(x, y), y.hop = x.hop,
             y.pc \in Using \cup {"observe", "closed", "banner", "discover"}
      PROVE  KeyMoved(d)
  <2>1. y.pc \notin Shaking \cup {"transport", "shake"}
    BY <1>6 DEF Using, Shaking
  <2>2. KeyInv(y)
    BY <1>1, <1>3, <1>6, <2>1, KeyKept
  <2> QED
    BY <1>6, <2>2 DEF KeyMoved
<1>7. ASSUME NEW D, NEW s \in Using \cup {"closed"}, Set(d, Goto(Dropped(x, D), s))
      PROVE  KeyMoved(d)
  <2> DEFINE y == Goto(Dropped(x, D), s)
  <2>1. s \in Steps
    BY DEF Using, Steps
  <2>2. Kept(x, y) /\ y.hop = x.hop /\ y.pc = s
    BY <1>1, <1>7, <2>1, GoesOn
  <2> HIDE DEF y
  <2> QED
    BY <1>6, <1>7, <2>2 DEF Set, y
<1>8. ASSUME NEW R, R \subseteq Resource, NEW s \in Using \cup {"observe"}, Set(d, Goto(Opened(x, R), s))
      PROVE  KeyMoved(d)
  <2> DEFINE y == Goto(Opened(x, R), s)
  <2>1. s \in Steps
    BY DEF Using, Steps
  <2>2. Kept(x, y) /\ y.hop = x.hop /\ y.pc = s
    BY <1>1, <1>8, <2>1, GoesOn
  <2> HIDE DEF y
  <2> QED
    BY <1>6, <1>8, <2>2 DEF Set, y
<1>9. CASE Set(d, Goto(x, "terminal"))
  <2>1. "terminal" \in Steps /\ "terminal" \in Using
    BY DEF Using, Steps
  <2> QED
    BY <1>1, <1>6, <1>9, <2>1, GoesOn DEF Set
<1>10. CASE Set(d, z)
  <2>1. z.pc \in Using \cup {"observe", "closed", "banner", "discover"}
    BY <1>2, <1>4 DEF Connected
  <2> QED
    BY <1>4, <1>6, <1>10, <2>1 DEF Set
<1>11. CASE Set(d, Goto(Dropped(z, {T("vault")}), "open"))
  <2> DEFINE y == Goto(Dropped(z, {T("vault")}), "open")
  <2>1. "open" \in Steps /\ "open" \in Using
    BY DEF Using, Steps
  <2>2. Kept(x, y) /\ y.hop = x.hop /\ y.pc = "open"
    BY <1>4, <2>1, GoesOn DEF Kept, Same
  <2> HIDE DEF y
  <2> QED
    BY <1>6, <1>11, <2>1, <2>2 DEF Set, y
<1> QED
  BY <1>5, <1>7, <1>8, <1>9, <1>10, <1>11

LEMMA AcceptInit == Init => AcceptInv
<1> SUFFICES ASSUME Init PROVE AcceptInv
  OBVIOUS
<1>1. Inv
  BY InvInit
<1>2. FirstKey
  <2> SUFFICES ASSUME NEW h \in Hosts, Pinned[h] = << >> PROVE Range(known[h]) = {}
    BY DEF FirstKey
  <2>1. known[h] = << >>
    BY DEF Init
  <2> QED
    BY <2>1 DEF Range
<1>3. ASSUME NEW d \in Dials PROVE KeyInv(dial[d])
  <2>1. dial[d].pc = "idle" /\ dial[d].hop = "target" /\ dial[d].refused = {}
    BY DEF Init
  <2> QED
    BY <2>1 DEF KeyInv, PreferOK, KeyOK, RefusedOK, Shaking
<1> QED
  BY <1>1, <1>2, <1>3 DEF AcceptInv

LEMMA KeyMoveKeeps ==
    ASSUME AcceptInv, NEW d \in Dials, KeyMoved(d), Inv', FirstKey'
    PROVE  AcceptInv'
<1>1. PICK y : dial' = [dial EXCEPT ![d] = y] /\ KeyInv(y)
  BY DEF KeyMoved
<1>2. dial \in [Dials -> Call]
  BY DEF AcceptInv, Inv
<1>3. dial'[d] = y /\ \A e \in Dials : e # d => dial'[e] = dial[e]
  BY <1>1, <1>2
<1>4. ASSUME NEW e \in Dials PROVE KeyInv(dial'[e])
  BY <1>1, <1>3 DEF AcceptInv
<1>5. (\A e \in Dials : KeyInv(dial[e]))'
  BY <1>4
<1> QED
  BY <1>5 DEF AcceptInv

LEMMA AcceptNext ==
    ASSUME Tidy
    PROVE  AcceptInv /\ [Next]_vars => AcceptInv'
<1> SUFFICES ASSUME AcceptInv, [Next]_vars PROVE AcceptInv'
  OBVIOUS
<1>1. Inv'
  BY InvNext DEF AcceptInv
<1>2. known' = known => FirstKey'
  BY DEF AcceptInv, FirstKey
<1>3. CASE UNCHANGED vars
  <2>1. dial' = dial /\ known' = known
    BY <1>3 DEF vars
  <2>2. (\A d \in Dials : KeyInv(dial[d]))'
    BY <2>1 DEF AcceptInv
  <2> QED
    BY <1>1, <1>2, <2>1, <2>2 DEF AcceptInv
<1>4. CASE Next
  <2>1. PICK d \in Dials :
          \/ Dial(d) \/ Computes(d) \/ Expire(d)
          \/ ServerAnswers(d) \/ ServerRefuses(d) \/ LoggedIn(d)
          \/ ObservedLate(d) \/ Exec(d) \/ ExecEnds(d) \/ Attach(d) \/ AttachEnds(d)
          \/ OpenTerminal(d) \/ TerminalStarts(d) \/ Close(d)
    BY <1>4 DEF Next
  <2>2. CASE AppendKnownHost(d)
    BY <1>1, <2>2, AppendKnownHostKey, KeyMoveKeeps
  <2>3. CASE Dial(d) \/ ResolveCloud(d) \/ BuildAuth(d) \/ BuildClientConfig(d) \/ DialTransport(d) \/ ResolveJump(d)
    <3>1. KeyMoved(d)
      BY <2>3, CredentialsKey, BuildAuthKey, BuildClientConfigKey, DialTransportKey
    <3>2. known' = known
      BY <2>3 DEF Dial, ResolveCloud, BuildAuth, BuildClientConfig, DialTransport, ResolveJump
    <3> QED
      BY <1>1, <1>2, <3>1, <3>2, KeyMoveKeeps
  <2>4. CASE \/ CheckKey(d) \/ HandshakeExpired(d) \/ JumpConnect(d) \/ Expire(d)
             \/ ServerAnswers(d) \/ ServerRefuses(d) \/ LoggedIn(d) \/ LockPin(d) \/ Recheck(d)
    <3>1. KeyMoved(d)
      BY <2>4, CheckKeyKey, HandshakeKey, JumpConnectKey, ServerAnswersKey
    <3>2. known' = known
      BY <2>4 DEF CheckKey, HandshakeExpired, JumpConnect, Expire, ServerAnswers, ServerRefuses, LoggedIn,
         LockPin, Recheck
    <3> QED
      BY <1>1, <1>2, <3>1, <3>2, KeyMoveKeeps
  <2>5. CASE \/ ProbeEnds(d) \/ Discover(d) \/ Observed(d) \/ ObservedLate(d) \/ Exec(d) \/ ExecEnds(d)
             \/ Attach(d) \/ AttachEnds(d) \/ OpenTerminal(d) \/ TerminalStarts(d) \/ Close(d)
    <3>1. KeyMoved(d)
      BY <2>5, UseKey
    <3>2. known' = known
      BY <2>5 DEF ProbeEnds, Discover, Observed, ObservedLate, Exec, ExecEnds, Attach, AttachEnds, OpenTerminal,
         TerminalStarts, Close
    <3> QED
      BY <1>1, <1>2, <3>1, <3>2, KeyMoveKeeps
  <2> QED
    BY <2>1, <2>2, <2>3, <2>4, <2>5 DEF Computes
<1> QED
  BY <1>3, <1>4

\* Concurrent first contacts, retries and the client's order of algorithms
\* never make a client refuse a server it knows: a host with one machine is
\* refused only when no key of that machine is in known_hosts.
THEOREM KnownServersAccepted ==
    ASSUME Tidy
    PROVE  Spec => []KnownServerAccepted
<1>1. AcceptInv => KnownServerAccepted
  <2> SUFFICES ASSUME AcceptInv, NEW d \in Dials, NEW h \in dial[d].refused, NEW m \in Backends[h],
                      Backends[h] = {m}
               PROVE  m \cap Range(known[h]) = {}
    BY DEF KnownServerAccepted
  <2>1. dial[d] \in Call /\ KeyInv(dial[d]) /\ Inv
    BY AcceptFacts
  <2>2. h \in Hosts
    BY <2>1 DEF Call
  <2>3. Pinned[h] # << >> /\ m \cap Range(Pinned[h]) = {}
    BY <2>1 DEF KeyInv, RefusedOK
  <2>4. known[h] = Pinned[h]
    BY <2>1, <2>2, <2>3 DEF Inv, KnownInv
  <2> QED
    BY <2>3, <2>4
<1>2. AcceptInv /\ [Next]_vars => AcceptInv'
  BY AcceptNext
<1> QED
  BY <1>1, <1>2, AcceptInit, PTL DEF Spec
=============================================================================
