----------------------------- MODULE McpServer ------------------------------
(***************************************************************************)
(* One MCP process: its cloud session and its file transfers.  A transfer  *)
(* to a connection of the vault takes its credentials from the session     *)
(* when it dials (mcp/server.go, sshOptions), and from then on goes its    *)
(* own way: locking the session does not end it.  A transfer to another    *)
(* connection has nothing to do with the session.                          *)
(***************************************************************************)
EXTENDS CloudSession, Transfers

\* What the instance explores: the links and the transfers that are not over,
\* what the transfers may be asked, and the changes and edits left.
CONSTANT Scenes

\* The transfers are the callers of the session.
ASSUME CallersAssumption == Transfers \subseteq Callers
ASSUME SceneAssumption ==
    \A s \in Scenes : /\ s.links \subseteq Links /\ s.transfers \subseteq Transfers
                      /\ s.plans \subseteq Plan
                      /\ s.changes \in 0..MaxChanges /\ s.edits \in 0..MaxEdits

mcpVars == <<sessionVars, transferVars>>

Init ==
    \E s \in Scenes : /\ SessionInit(Links \ s.links, MaxChanges - s.changes)
                      /\ TransferInit(Transfers \ s.transfers, s.plans, MaxEdits - s.edits)

Dialing(t) == trans[t].step = "dial" /\ trans[t].plan.cloud

\* The credentials are there and the connection opens, or it does not.
OpensWithCredentials(t) == Resolved(t) /\ (Connected(t) \/ Fails(t))

\* They are refused: the transfer ends with the reason.
Refused(t) ==
    /\ \/ Dialing(t) /\ mu # t /\ ResolveRefused(t)
       \/ NoEntry(t) \/ ResolveLocks(t) \/ ResolveFails(t)
    /\ Fails(t)

Answer(t) == OpensWithCredentials(t) \/ Refused(t)

\* Ask is the request of the vault for a transfer.
Ask(t) == Dialing(t) /\ Resolve(t) /\ UNCHANGED transferVars

\* A transfer goes on by itself, once it needs no credentials or has them.
GoesOn(t) ==
    /\ ~Dialing(t)
    /\ Start(t) \/ Connected(t) \/ Copying(t) \/ Fails(t)
    /\ UNCHANGED sessionVars

Next ==
    \/ SessionNext /\ UNCHANGED transferVars
    \/ EditSource /\ UNCHANGED sessionVars
    \/ \E t \in Transfers : Ask(t) \/ Answer(t) \/ GoesOn(t)

\* Every request under the mutex has a deadline: fifteen seconds for the server,
\* thirty for the agent that Resolve asks. The mutex goes to whoever has waited
\* for it longest; the timer is the runtime's.
Spec ==
    /\ Init /\ [][Next]_mcpVars
    /\ WF_mcpVars(BeginAnswered /\ UNCHANGED transferVars)
    /\ \A t \in Transfers : WF_mcpVars(Answer(t))
    /\ SF_mcpVars(TimerFires /\ UNCHANGED transferVars)

TypeOK == SessionTypeOK /\ TransferTypeOK

-----------------------------------------------------------------------------
\* A session that has reached its maximum age is locked, whoever uses it and
\* however often (armLocked, expireLocked).
AgeEndsSession == session.status = "ready" /\ session.old ~> session.status # "ready"

=============================================================================
