------------------------------ MODULE CloudJobs ------------------------------
(***************************************************************************)
(* Jobs that the browser console dispatches to one device: the queue of    *)
(* cloud/src/jobs.ts on the server, and State.ProcessJobs of               *)
(* internal/cloudsync/jobs.go with its receipt journal on the device.      *)
(*                                                                         *)
(* An agent is an installation that holds the device's credential and a    *)
(* journal of its own; it works under a file lock, so it is one process at *)
(* a time.  Two agents stand for a configuration that was copied.  A       *)
(* process can be killed at any step; a request or its answer can be lost, *)
(* and a request can reach the server after its sender gave up.            *)
(***************************************************************************)
EXTENDS Naturals, FiniteSets

CONSTANTS Jobs,        \* job ids; the signed content of a job is fixed by it
          Agents,
          NoAgent,
          Outcomes,    \* results of executeCloudJob
          ListedCodes, \* the results that the server accepts
          QueueLimit,  \* outstanding jobs per device, 4 in the code
          TotalLimit,  \* jobs in the table, 200 in the code
          MaxCreates,  \* bound: rows inserted
          MaxAborts,   \* bound: processes cut off before they finish
          MaxAccess    \* bound: changes of the device's credential

ASSUME JobsAssumption ==
    /\ IsFiniteSet(Jobs) /\ Jobs # {}
    /\ NoAgent \notin Agents
    /\ {"interrupted"} \subseteq ListedCodes
    /\ Outcomes \cap {"none", "interrupted", "receipt_missing", "access_changed",
                     "not_received", "cancelled_by_user"} = {}
    /\ QueueLimit \in Nat \ {0} /\ TotalLimit \in Nat \ {0}
    /\ MaxCreates \in Nat /\ MaxAborts \in Nat /\ MaxAccess \in Nat

VARIABLES
    jobs,      \* the table; status "none" is a missing row
    creating,  \* POST /v1/jobs requests that wait for the signature check
    creates,   \* rows inserted so far, the order of creation
    access,    \* the credential (token digest, vault root) the server accepts
    age,       \* age[j]: "fresh" until its expiry, "old" seven days on
    stale,     \* running jobs claimed more than ten minutes ago
    cred,      \* cred[a]: the credential that agent a holds
    journal,   \* journal[a][j]: a's receipt for j, "none" without a record
    run,       \* run[a]: the process of agent a
    wire,      \* claims and results on their way to, or inside, the server
    answer,    \* answer[a]: the server's answer to a's outstanding request
    aborts,
    executed   \* history: executed[a][j] counts the starts of j by a

server == <<jobs, creating, creates, access, age, stale>>
agents == <<cred, journal, run, aborts, executed>>
vars == <<server, agents, wire, answer>>

-----------------------------------------------------------------------------
Outstanding == {"queued", "running"}
Statuses == Outstanding \cup {"none", "finished", "cancelled", "expired"}
Receipts == Outcomes \cup {"interrupted"}
Codes == Receipts \cup {"none", "receipt_missing", "access_changed",
                        "not_received", "cancelled_by_user"}

\* status "finished" is succeeded, failed or restart_required, as code says.
Job == [status : Statuses, claim : Agents \cup {NoAgent}, code : Codes,
        access : Nat, created : Nat]

Steps == {"idle", "next", "claim", "awaitClaim", "execute", "executing",
          "report", "awaitResult"}

Listed == [job : Jobs, status : Outstanding, created : Nat]

\* todo is what is left of the polled list, job the one at hand, new whether
\* its journal record was made by this process.
Process == [step : Steps, todo : SUBSET Listed, job : Jobs, new : BOOLEAN]

Request == [a : Agents, kind : {"claim", "result"}, job : Jobs,
            receipt : Receipts \cup {"none"}, cred : Nat,
            phase : {"sent", "verified"}, live : BOOLEAN]

TypeOK ==
    /\ jobs \in [Jobs -> Job]
    /\ creating \in SUBSET [job : Jobs, access : Nat]
    /\ creates \in Nat /\ access \in Nat /\ aborts \in Nat
    /\ age \in [Jobs -> {"fresh", "expired", "old"}]
    /\ stale \in SUBSET Jobs
    /\ cred \in [Agents -> Nat]
    /\ journal \in [Agents -> [Jobs -> Receipts \cup {"none"}]]
    /\ run \in [Agents -> Process]
    /\ wire \in SUBSET Request
    /\ answer \in [Agents -> {"none", "ok", "error"}]
    /\ executed \in [Agents -> [Jobs -> Nat]]

NoJob == [status |-> "none", claim |-> NoAgent, code |-> "none",
          access |-> 0, created |-> 0]

Idle == [step |-> "idle", todo |-> {}, job |-> CHOOSE j \in Jobs : TRUE,
         new |-> FALSE]

Init ==
    /\ jobs = [j \in Jobs |-> NoJob]
    /\ creating = {} /\ creates = 0 /\ access = 0
    /\ age = [j \in Jobs |-> "fresh"] /\ stale = {}
    /\ cred = [a \in Agents |-> 0]
    /\ journal = [a \in Agents |-> [j \in Jobs |-> "none"]]
    /\ run = [a \in Agents |-> Idle]
    /\ wire = {} /\ answer = [a \in Agents |-> "none"] /\ aborts = 0
    /\ executed = [a \in Agents |-> [j \in Jobs |-> 0]]

-----------------------------------------------------------------------------
(* The server: every request first prunes the table. *)

\* A row reaches a verdict.
Conclude(r, status, code) == [r EXCEPT !.status = status, !.code = code]

PruneJob(j) ==
    LET r == jobs[j] IN
    IF age[j] = "old" THEN NoJob
    ELSE IF r.status \notin Outstanding THEN r
    ELSE IF r.access # access
      THEN Conclude(r, "cancelled", "access_changed")
    ELSE IF r.status = "queued" /\ age[j] = "expired"
      THEN Conclude(r, "expired", "not_received")
    ELSE IF r.status = "running" /\ j \in stale
      THEN Conclude(r, "finished", "receipt_missing")
    ELSE r

Pruned == [j \in Jobs |-> PruneJob(j)]

Waiting(js) == {j \in Jobs : js[j].status \in Outstanding}
Rows(js) == {j \in Jobs : js[j].status # "none"}

\* POST /v1/jobs up to the await of the signature check.
CreateReceived(j) ==
    /\ age[j] = "fresh"
    /\ jobs' = Pruned
    /\ creating' = creating \cup {[job |-> j, access |-> access]}
    /\ UNCHANGED <<creates, access, age, stale, agents, wire, answer>>

\* The oldest finished row, which makes room for a new one.
Evictable(js) ==
    {j \in Rows(js) \ Waiting(js) :
        \A k \in Rows(js) \ Waiting(js) : js[j].created <= js[k].created}

Insert(j) ==
    [NoJob EXCEPT !.status = "queued", !.access = access,
                  !.created = creates + 1]

\* Mutation of CreateCommit: the queue limit is not checked in the transaction.
CreateCommitUnlimited(c) ==
    /\ creating' = creating \ {c}
    /\ \/ /\ \/ c.access # access
             \/ jobs[c.job].status # "none"
             \/ Cardinality(Waiting(jobs)) >= QueueLimit
             \/ Cardinality(Rows(jobs)) >= TotalLimit /\ Evictable(jobs) = {}
          /\ UNCHANGED <<jobs, creates>>
       \/ /\ c.access = access
          /\ jobs[c.job].status = "none"
          /\ creates < MaxCreates
          /\ creates' = creates + 1
          /\ \/ /\ Cardinality(Rows(jobs)) < TotalLimit
                /\ jobs' = [jobs EXCEPT ![c.job] = Insert(c.job)]
             \/ /\ Cardinality(Rows(jobs)) >= TotalLimit
                /\ \E old \in Evictable(jobs) :
                     jobs' = [jobs EXCEPT ![old] = NoJob,
                                          ![c.job] = Insert(c.job)]
    /\ UNCHANGED <<access, age, stale, agents, wire, answer>>

\* The transaction after the await: a changed credential, a known id (the
\* retried dispatch) and a full queue insert nothing.
CreateCommit(c) ==
    /\ creating' = creating \ {c}
    /\ \/ /\ \/ c.access # access
             \/ jobs[c.job].status # "none"
             \/ Cardinality(Waiting(jobs)) >= QueueLimit
             \/ Cardinality(Rows(jobs)) >= TotalLimit /\ Evictable(jobs) = {}
          /\ UNCHANGED <<jobs, creates>>
       \/ /\ c.access = access
          /\ jobs[c.job].status = "none"
          /\ Cardinality(Waiting(jobs)) < QueueLimit
          /\ creates < MaxCreates
          /\ creates' = creates + 1
          /\ \/ /\ Cardinality(Rows(jobs)) < TotalLimit
                /\ jobs' = [jobs EXCEPT ![c.job] = Insert(c.job)]
             \/ /\ Cardinality(Rows(jobs)) >= TotalLimit
                /\ \E old \in Evictable(jobs) :
                     jobs' = [jobs EXCEPT ![old] = NoJob,
                                          ![c.job] = Insert(c.job)]
    /\ UNCHANGED <<access, age, stale, agents, wire, answer>>

\* Mutation of Cancel: a job that was claimed is cancelled too.
CancelAnyTime(j) ==
    /\ jobs[j].status # "none"
    /\ jobs' = IF Pruned[j].status \in Outstanding
                 THEN [Pruned EXCEPT ![j] =
                        Conclude(Pruned[j], "cancelled", "cancelled_by_user")]
                 ELSE Pruned
    /\ UNCHANGED <<creating, creates, access, age, stale, agents, wire, answer>>

\* POST /v1/jobs/<id>/cancel from the browser.
Cancel(j) ==
    /\ jobs[j].status # "none"
    /\ jobs' = IF Pruned[j].status = "queued"
                 THEN [Pruned EXCEPT ![j] =
                        Conclude(Pruned[j], "cancelled", "cancelled_by_user")]
                 ELSE Pruned
    /\ UNCHANGED <<creating, creates, access, age, stale, agents, wire, answer>>

\* GET /v1/jobs, the console's list.
ListJobs ==
    /\ jobs' = Pruned
    /\ UNCHANGED <<creating, creates, access, age, stale, agents, wire, answer>>

\* Time passes.
Expire(j) ==
    /\ age[j] # "old"
    /\ age' = [age EXCEPT ![j] = IF @ = "fresh" THEN "expired" ELSE "old"]
    /\ UNCHANGED <<jobs, creating, creates, access, stale, agents, wire, answer>>

GoStale(j) ==
    /\ jobs[j].status = "running" /\ j \notin stale
    /\ stale' = stale \cup {j}
    /\ UNCHANGED <<jobs, creating, creates, access, age, agents, wire, answer>>

\* The device logs in again (agent a then holds the new token), is revoked, or
\* the vault is rekeyed.
AccessChange(a) ==
    /\ access < MaxAccess
    /\ access' = access + 1
    /\ a \in Agents => run[a].step = "idle"
    /\ cred' = [b \in Agents |-> IF b = a THEN access + 1 ELSE cred[b]]
    /\ UNCHANGED <<jobs, creating, creates, age, stale, journal, run, aborts,
                   executed, wire, answer>>

Reply(q, result) ==
    /\ wire' = wire \ {q}
    /\ answer' = IF q.live THEN [answer EXCEPT ![q.a] = result] ELSE answer

\* A retried claim of the same agent is confirmed, another one is refused.
ClaimReceived(q) ==
    /\ q.kind = "claim"
    /\ \/ /\ q.cred # access
          /\ Reply(q, "error")
          /\ UNCHANGED <<jobs, stale>>
       \/ /\ q.cred = access
          /\ LET r == Pruned[q.job] IN
             \/ /\ r.status = "running" /\ r.claim = q.a /\ r.access = access
                /\ jobs' = Pruned
                /\ Reply(q, "ok")
                /\ UNCHANGED stale
             \/ /\ r.status = "queued" /\ r.access = access
                /\ jobs' = [Pruned EXCEPT ![q.job] =
                             [r EXCEPT !.status = "running", !.claim = q.a]]
                /\ stale' = stale \ {q.job}
                /\ Reply(q, "ok")
             \/ /\ \/ r.access # access
                   \/ /\ r.status # "queued"
                      /\ ~(r.status = "running" /\ r.claim = q.a)
                /\ jobs' = Pruned
                /\ Reply(q, "error")
                /\ UNCHANGED stale
    /\ UNCHANGED <<creating, creates, access, age, agents>>

\* POST .../result up to the await of the receipt check.
ResultReceived(q) ==
    /\ q.kind = "result" /\ q.phase = "sent"
    /\ LET r == Pruned[q.job]
           accepted == /\ q.cred = access
                       /\ r.status # "none" /\ r.access = access
                       /\ r.claim = q.a
                       /\ q.receipt \in ListedCodes
       IN /\ jobs' = IF q.cred = access THEN Pruned ELSE jobs
          /\ \/ /\ accepted
                /\ wire' = (wire \ {q}) \cup {[q EXCEPT !.phase = "verified"]}
                /\ UNCHANGED answer
             \/ ~accepted /\ Reply(q, "error")
    /\ UNCHANGED <<creating, creates, access, age, stale, agents>>

\* Mutation of ResultCommit: a job that is over takes a late receipt.
ResultCommitLate(q) ==
    /\ q.kind = "result" /\ q.phase = "verified"
    /\ LET r == jobs[q.job]
           known == q.cred = access /\ r.status # "none"
           same == r.code = q.receipt
       IN \/ /\ known /\ ~same
             /\ jobs' = [jobs EXCEPT ![q.job] =
                                       Conclude(r, "finished", q.receipt)]
             /\ Reply(q, "ok")
          \/ known /\ same /\ Reply(q, "ok") /\ UNCHANGED jobs
          \/ /\ ~known \/ (~same /\ r.status # "running")
             /\ Reply(q, "error") /\ UNCHANGED jobs
    /\ UNCHANGED <<creating, creates, access, age, stale, agents>>

\* After the await: the row is read again.  The same receipt is confirmed, a
\* job that is over is not changed.
ResultCommit(q) ==
    /\ q.kind = "result" /\ q.phase = "verified"
    /\ LET r == jobs[q.job]
           known == q.cred = access /\ r.status # "none"
           same == r.code = q.receipt
       IN \/ /\ known /\ ~same /\ r.status = "running"
             /\ jobs' = [jobs EXCEPT ![q.job] =
                                       Conclude(r, "finished", q.receipt)]
             /\ Reply(q, "ok")
          \/ known /\ same /\ Reply(q, "ok") /\ UNCHANGED jobs
          \/ /\ ~known \/ (~same /\ r.status # "running")
             /\ Reply(q, "error") /\ UNCHANGED jobs
    /\ UNCHANGED <<creating, creates, access, age, stale, agents>>

-----------------------------------------------------------------------------
(* ProcessJobs on an agent *)

\* POST /v1/jobs/poll, then read the journal and drop the records of old jobs.
Poll(a) ==
    /\ run[a].step = "idle"
    /\ cred[a] = access
    /\ jobs' = Pruned
    /\ LET mine == {j \in Waiting(Pruned) : Pruned[j].access = cred[a]}
           todo == {[job |-> j, status |-> Pruned[j].status,
                     created |-> Pruned[j].created] : j \in mine}
       IN IF todo = {} THEN UNCHANGED <<run, journal>>
          ELSE /\ run' = [run EXCEPT ![a].step = "next", ![a].todo = todo]
               /\ journal' = [journal EXCEPT ![a] =
                    [j \in Jobs |-> IF age[j] = "old" THEN "none" ELSE @[j]]]
    /\ UNCHANGED <<creating, creates, access, age, stale, cred, aborts,
                   executed, wire, answer>>

Done(a) ==
    /\ run[a].step = "next" /\ run[a].todo = {}
    /\ run' = [run EXCEPT ![a] = Idle]
    /\ UNCHANGED <<server, cred, journal, aborts, executed, wire, answer>>

\* Mutation of Take: the first record claims that the work is done.
TakeOptimistic(a) ==
    /\ run[a].step = "next"
    /\ \E t \in run[a].todo :
         /\ \A u \in run[a].todo : t.created <= u.created
         /\ LET new == journal[a][t.job] = "none"
                rest == run[a].todo \ {t}
            IN IF age[t.job] # "fresh"
               THEN /\ run' = [run EXCEPT ![a].todo = rest]
                    /\ UNCHANGED journal
               ELSE /\ journal' = [journal EXCEPT ![a][t.job] =
                                     IF new
                                       THEN CHOOSE r \in Outcomes \cap ListedCodes : TRUE
                                       ELSE @]
                    /\ run' = [run EXCEPT ![a] =
                         [step |-> IF new /\ t.status = "running"
                                     THEN "next" ELSE "claim",
                          todo |-> rest, job |-> t.job, new |-> new]]
    /\ UNCHANGED <<server, cred, aborts, executed, wire, answer>>

\* Mutation of Take: a running job is left alone although its record is ours.
TakeSkipsRunning(a) ==
    /\ run[a].step = "next"
    /\ \E t \in run[a].todo :
         /\ \A u \in run[a].todo : t.created <= u.created
         /\ LET new == journal[a][t.job] = "none"
                rest == run[a].todo \ {t}
            IN IF age[t.job] # "fresh"
               THEN /\ run' = [run EXCEPT ![a].todo = rest]
                    /\ UNCHANGED journal
               ELSE /\ journal' = [journal EXCEPT ![a][t.job] =
                                     IF new THEN "interrupted" ELSE @]
                    /\ run' = [run EXCEPT ![a] =
                         [step |-> IF t.status = "running"
                                     THEN "next" ELSE "claim",
                          todo |-> rest, job |-> t.job, new |-> new]]
    /\ UNCHANGED <<server, cred, aborts, executed, wire, answer>>

\* The next job of the list.  VerifyJob skips an expired one.  A record that
\* says "interrupted" is on disk before the claim; a job that runs without our
\* record belongs to another process.
Take(a) ==
    /\ run[a].step = "next"
    /\ \E t \in run[a].todo :
         /\ \A u \in run[a].todo : t.created <= u.created
         /\ LET new == journal[a][t.job] = "none"
                rest == run[a].todo \ {t}
            IN IF age[t.job] # "fresh"
               THEN /\ run' = [run EXCEPT ![a].todo = rest]
                    /\ UNCHANGED journal
               ELSE /\ journal' = [journal EXCEPT ![a][t.job] =
                                     IF new THEN "interrupted" ELSE @]
                    /\ run' = [run EXCEPT ![a] =
                         [step |-> IF new /\ t.status = "running"
                                     THEN "next" ELSE "claim",
                          todo |-> rest, job |-> t.job, new |-> new]]
    /\ UNCHANGED <<server, cred, aborts, executed, wire, answer>>

Goto(a, step) == run' = [run EXCEPT ![a].step = step]

SendClaim(a) ==
    /\ run[a].step = "claim"
    /\ wire' = wire \cup {[a |-> a, kind |-> "claim", job |-> run[a].job,
                           receipt |-> "none", cred |-> cred[a],
                           phase |-> "sent", live |-> TRUE]}
    /\ Goto(a, "awaitClaim")
    /\ UNCHANGED <<server, cred, journal, aborts, executed, answer>>

\* Mutation of Answered: a job with an older record is executed again.
AnsweredExecutes(a) ==
    /\ answer[a] # "none"
    /\ answer' = [answer EXCEPT ![a] = "none"]
    /\ run' = [run EXCEPT ![a] =
         IF answer[a] = "error" THEN Idle
         ELSE [run[a] EXCEPT !.step =
                 IF run[a].step = "awaitResult" THEN "next" ELSE "execute"]]
    /\ UNCHANGED <<server, cred, journal, aborts, executed, wire>>

\* An error ends ProcessJobs.  A job whose record is older than this process
\* is not executed: its recorded receipt is reported.
Answered(a) ==
    /\ answer[a] # "none"
    /\ answer' = [answer EXCEPT ![a] = "none"]
    /\ run' = [run EXCEPT ![a] =
         IF answer[a] = "error" THEN Idle
         ELSE [run[a] EXCEPT !.step =
                 IF run[a].step = "awaitResult" THEN "next"
                 ELSE IF run[a].new THEN "execute" ELSE "report"]]
    /\ UNCHANGED <<server, cred, journal, aborts, executed, wire>>

StartExecution(a) ==
    /\ run[a].step = "execute"
    /\ executed' = [executed EXCEPT ![a][run[a].job] = @ + 1]
    /\ Goto(a, "executing")
    /\ UNCHANGED <<server, cred, journal, aborts, wire, answer>>

\* The result is signed and saved in the journal before it is reported.
FinishExecution(a) ==
    /\ run[a].step = "executing"
    /\ \E r \in Outcomes :
         journal' = [journal EXCEPT ![a][run[a].job] = r]
    /\ Goto(a, "report")
    /\ UNCHANGED <<server, cred, aborts, executed, wire, answer>>

SendResult(a) ==
    /\ run[a].step = "report"
    /\ wire' = wire \cup {[a |-> a, kind |-> "result", job |-> run[a].job,
                           receipt |-> journal[a][run[a].job],
                           cred |-> cred[a], phase |-> "sent",
                           live |-> TRUE]}
    /\ Goto(a, "awaitResult")
    /\ UNCHANGED <<server, cred, journal, aborts, executed, answer>>

\* The process is killed, or a request times out.
Abort(a) ==
    /\ run[a].step # "idle"
    /\ aborts < MaxAborts
    /\ aborts' = aborts + 1
    /\ run' = [run EXCEPT ![a] = Idle]
    /\ wire' = {[q EXCEPT !.live = @ /\ q.a # a] : q \in wire}
    /\ answer' = [answer EXCEPT ![a] = "none"]
    /\ UNCHANGED <<server, cred, journal, executed>>

-----------------------------------------------------------------------------
Browser == \/ ListJobs
           \/ \E j \in Jobs : CreateReceived(j) \/ Cancel(j)
           \/ \E c \in creating : CreateCommit(c)

Time == \E j \in Jobs : Expire(j) \/ GoStale(j)

Serve(a) == \E q \in wire : /\ q.a = a
                            /\ \/ ClaimReceived(q) \/ ResultReceived(q)
                               \/ ResultCommit(q)

Work(a) == \/ Done(a) \/ Take(a) \/ SendClaim(a) \/ Answered(a)
           \/ StartExecution(a) \/ FinishExecution(a) \/ SendResult(a)

Next == \/ Browser \/ Time
        \/ \E a \in Agents \cup {NoAgent} : AccessChange(a)
        \/ \E a \in Agents : Serve(a) \/ Poll(a) \/ Work(a) \/ Abort(a)

Spec == Init /\ [][Next]_vars

\* The agent polls again and again, a process that is not cut off goes on, and
\* the server answers.  Nothing is assumed of the console, of the passing of
\* time and of aborts.
Fairness == \A a \in Agents : WF_vars(Poll(a)) /\ WF_vars(Work(a))
                               /\ WF_vars(Serve(a))

FairSpec == Spec /\ Fairness

-----------------------------------------------------------------------------
(* Properties *)

\* "A crash never silently reruns an installation": a job is started at most
\* once, by at most one agent, through crashes, lost answers, late requests,
\* retried dispatches and a second installation with the same credential.
ExecutedOnce ==
    \A j \in Jobs : \A a, b \in Agents :
        /\ executed[a][j] <= 1
        /\ executed[a][j] = 1 /\ executed[b][j] = 1 => a = b

\* The console tells the user that a cancelled job will not be executed: no
\* agent has started it, and none is about to.
CancelledNeverRuns ==
    \A j \in Jobs : jobs[j].code = "cancelled_by_user" =>
        \A a \in Agents : /\ executed[a][j] = 0
                          /\ ~(run[a].step = "execute" /\ run[a].job = j)

\* A result shown in the console is the one that the claiming agent obtained
\* by executing the job, never one made up from a stale or foreign record.
ReceiptTruthful ==
    \A j \in Jobs : jobs[j].code \in Outcomes =>
        /\ jobs[j].status = "finished"
        /\ jobs[j].claim \in Agents
        /\ executed[jobs[j].claim][j] = 1
        /\ journal[jobs[j].claim][j] \in {jobs[j].code, "none"}

\* Two dispatches that pass the check of the queue before either commits do
\* not overfill it, so an agent never refuses a poll as "invalid job queue".
QueueBounded ==
    /\ Cardinality(Waiting(jobs)) <= QueueLimit
    /\ Cardinality(Rows(jobs)) <= TotalLimit
    /\ \A a \in Agents : Cardinality(run[a].todo) <= QueueLimit

\* A verdict is final: a receipt that arrives after the ten minutes, a late
\* claim or a change of credential does not rewrite a job that is over.
VerdictFinal ==
    [][\A j \in Jobs : jobs[j].status \in {"finished", "cancelled", "expired"}
         => jobs'[j] \in {jobs[j], NoJob}]_jobs

\* A result outside the server's list is refused at every report, and the
\* agent's ProcessJobs ends there: until the server gives job k up, the jobs
\* behind it in the polled list wait.
Blocking(k) ==
    /\ jobs[k].status = "running"
    /\ \E b \in Agents : /\ jobs[k].claim = b
                        /\ journal[b][k] \in Outcomes \ ListedCodes

\* docs/cloud-sync.md: "lost responses retry the same receipt".  The result of
\* an executed job, if it is one that the server lists, reaches the server
\* while the job has not expired, has not been given up after ten minutes, its
\* credential is still accepted and no job with an unlisted result blocks the
\* list.
ReceiptArrives ==
    \A a \in Agents, j \in Jobs :
        journal[a][j] \in Outcomes \cap ListedCodes
          ~> \/ jobs[j].code = journal[a][j]
             \/ age[j] # "fresh" \/ j \in stale \/ jobs[j].access # access
             \/ \E k \in Jobs \ {j} : Blocking(k)
=============================================================================
