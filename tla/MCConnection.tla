---------------------------- MODULE MCConnection ----------------------------
EXTENDS Connection, TLC
CONSTANTS d1, d2, p1, p2, web, bastion, farm, ed, rsa, other

\* Two calls, in one process or in two.
OneOrTwo == {d1 :> p1 @@ d2 :> p1, d1 :> p1 @@ d2 :> p2}

\* web is one machine with two keys, pinned under the one the library would
\* not ask for first; bastion is unknown; farm is two machines.
KeyAlgorithm == ed :> "ed25519" @@ rsa :> "rsa" @@ other :> "ed25519"
LibraryOrder == <<"ed25519", "rsa">>
Machines == web :> {{ed, rsa}} @@ bastion :> {{ed, rsa}} @@ farm :> {{ed}, {other}}
FirstLines == web :> <<rsa>> @@ bastion :> << >> @@ farm :> <<ed>>

Basic == [host |-> web, route |-> "direct", parses |-> TRUE, jump |-> NoHost, jroute |-> "direct",
          env |-> FALSE, strict |-> FALSE, vault |-> "no", jvault |-> FALSE,
          auth |-> "agent", jauth |-> "agent", insecure |-> FALSE, probe |-> FALSE]

\* One call for each way through Dial and ProbeRoute.
Calls ==
    << [Basic EXCEPT !.env = TRUE],
       [Basic EXCEPT !.host = farm, !.route = "command", !.auth = "agentkey"],
       [Basic EXCEPT !.route = "jump", !.jump = bastion, !.env = TRUE, !.auth = "key"],
       [Basic EXCEPT !.host = bastion, !.route = "socks", !.auth = "managed", !.strict = TRUE],
       [Basic EXCEPT !.route = "jump", !.jump = farm, !.vault = "session", !.env = TRUE,
                     !.auth = "signers", !.jauth = "signers"],
       [Basic EXCEPT !.host = bastion, !.vault = "cli", !.auth = "password", !.insecure = TRUE,
                     !.route = "socks", !.parses = FALSE],
       [Basic EXCEPT !.route = "jump", !.jump = bastion, !.jroute = "command", !.strict = TRUE,
                     !.jvault = TRUE, !.jauth = "signers"],
       [Basic EXCEPT !.route = "jump", !.jump = farm, !.probe = TRUE],
       [Basic EXCEPT !.route = "command", !.probe = TRUE] >>

\* The call that pins its jump host, and retries directly, beside any of
\* them, and the call with a proxy command beside some.
Pairs == {d1 :> Calls[3] @@ d2 :> Calls[j] : j \in 1..9}
         \cup {d1 :> Calls[2] @@ d2 :> Calls[j] : j \in {1, 2, 4, 5}}
=============================================================================
