--------------------------- MODULE CloudJobsProofs ---------------------------
(***************************************************************************)
(* Theorems about CloudJobs: what the queue and its verdicts never do, and *)
(* why a job is executed once and its receipt is true.                     *)
(*                                                                         *)
(* The argument for the latter rests on the agent that owns a job: the one *)
(* that has started it, or whose process has been told to.  As long as the *)
(* row is kept, the row names that agent.                                  *)
(***************************************************************************)
EXTENDS CloudJobs, FiniteSetTheorems, TLAPS

\* What an agent's journal says about what it has started.
JournalOf(a) ==
    /\ \A j \in Jobs :
         /\ executed[a][j] <= 1
         /\ executed[a][j] = 1 => journal[a][j] # "none" \/ age[j] = "old"
         /\ journal[a][j] \in Outcomes => executed[a][j] = 1
    /\ run[a].step \in {"claim", "awaitClaim", "execute"} /\ run[a].new
         => /\ executed[a][run[a].job] = 0
            /\ journal[a][run[a].job] = "interrupted"
    /\ run[a].step = "execute" => run[a].new
    /\ run[a].step = "executing"
         => /\ executed[a][run[a].job] = 1
            /\ journal[a][run[a].job] = "interrupted"

JournalInv == \A a \in Agents : JournalOf(a)

\* A request that its sender still waits for is the only one, and it is about
\* the job at hand; an answer is to that request.
LiveInv ==
    /\ \A q \in wire : q.live =>
         /\ run[q.a].step = IF q.kind = "claim" THEN "awaitClaim" ELSE "awaitResult"
         /\ run[q.a].job = q.job
         /\ answer[q.a] = "none"
         /\ \A r \in wire : r.live /\ r.a = q.a => r = q
    /\ \A a \in Agents : answer[a] # "none" =>
         /\ run[a].step \in {"awaitClaim", "awaitResult"}
         /\ \A q \in wire : q.live => q.a # a

\* A receipt on the wire is the journal's, of a job that was executed.
ReceiptInv ==
    \A q \in wire : q.receipt \in Outcomes =>
        /\ executed[q.a][q.job] = 1
        /\ journal[q.a][q.job] \in {q.receipt, "none"}

\* Agent a has started j, or its process has the server's leave to.
Owner(a, j) ==
    \/ executed[a][j] = 1
    \/ /\ run[a].job = j /\ run[a].new
       /\ \/ run[a].step = "execute"
          \/ run[a].step = "awaitClaim" /\ answer[a] = "ok"

RowInv ==
    \A j \in Jobs :
        /\ jobs[j].status \in Outstanding \cup {"none"} => jobs[j].code = "none"
        /\ jobs[j].status \in {"none", "queued"} => jobs[j].claim = NoAgent

\* Until seven days have passed, the row of an owned job names its owner; and
\* no job has two.
OwnerInv ==
    \A j \in Jobs : \A a \in Agents : Owner(a, j) =>
        /\ age[j] # "old" => /\ jobs[j].claim = a
                             /\ jobs[j].status \notin {"none", "queued"}
        /\ \A b \in Agents : Owner(b, j) => a = b
        /\ jobs[j].code # "cancelled_by_user"

\* A result whose signature was checked is its claimant's, unless the row was
\* deleted meanwhile, after which it is never claimed again.
VerifiedInv ==
    \A q \in wire : q.phase = "verified" =>
        \/ jobs[q.job].claim = q.a
        \/ age[q.job] = "old" /\ jobs[q.job].status \in {"none", "queued"}

OnceInv == /\ TypeOK /\ JournalInv /\ LiveInv /\ ReceiptInv
           /\ RowInv /\ OwnerInv /\ VerifiedInv /\ ReceiptTruthful

-----------------------------------------------------------------------------
(* The server's table *)

Over == {"finished", "cancelled", "expired"}

LEMMA ConcludeFacts ==
    ASSUME NEW r \in Job, NEW s \in Statuses, NEW c \in Codes
    PROVE /\ Conclude(r, s, c) \in Job
          /\ Conclude(r, s, c).status = s /\ Conclude(r, s, c).code = c
          /\ Conclude(r, s, c).claim = r.claim
          /\ Conclude(r, s, c).access = r.access
          /\ Conclude(r, s, c).created = r.created
BY DEF Conclude, Job

LEMMA NoJobFacts ==
    /\ NoJob \in Job
    /\ NoJob.status = "none" /\ NoJob.code = "none" /\ NoJob.claim = NoAgent
BY DEF NoJob, Job, Statuses, Outstanding, Codes

\* What pruning does to one row.
LEMMA PruneCases ==
    ASSUME TypeOK, NEW j \in Jobs
    PROVE \/ age[j] = "old" /\ PruneJob(j) = NoJob
          \/ age[j] # "old" /\ PruneJob(j) = jobs[j]
          \/ /\ age[j] # "old" /\ jobs[j].status \in Outstanding
             /\ \E s \in Over, c \in {"access_changed", "not_received", "receipt_missing"} :
                   PruneJob(j) = Conclude(jobs[j], s, c)
BY DEF PruneJob, Over

LEMMA PruneType ==
    ASSUME TypeOK
    PROVE /\ Pruned \in [Jobs -> Job]
          /\ \A j \in Jobs : PruneJob(j) \in Job /\ Pruned[j] = PruneJob(j)
<1>1. ASSUME NEW j \in Jobs
      PROVE PruneJob(j) \in Job
  <2>1. jobs[j] \in Job
    BY DEF TypeOK
  <2> QED
    <3>1. CASE PruneJob(j) \in {NoJob, jobs[j]}
      BY <2>1, <3>1, NoJobFacts
    <3>2. CASE \E s \in Over, c \in {"access_changed", "not_received", "receipt_missing"} :
                  PruneJob(j) = Conclude(jobs[j], s, c)
      BY <2>1, <3>2, ConcludeFacts DEF Over, Statuses, Codes
    <3> QED
      BY <3>1, <3>2, PruneCases
<1> QED
  BY <1>1 DEF Pruned

LEMMA InsertFacts ==
    ASSUME TypeOK, NEW j \in Jobs
    PROVE /\ Insert(j) \in Job
          /\ Insert(j).status = "queued" /\ Insert(j).code = "none"
          /\ Insert(j).claim = NoAgent
<1> DEFINE n == creates + 1
           r == NoJob
<1>1. access \in Nat /\ n \in Nat
  BY DEF TypeOK
<1>2. r \in Job /\ r.code = "none" /\ r.claim = NoAgent
  BY NoJobFacts
<1>3. Insert(j) = [r EXCEPT !.status = "queued", !.access = access, !.created = n]
  BY DEF Insert
<1> HIDE DEF n, r
<1> QED
  BY <1>1, <1>2, <1>3 DEF Job, Statuses, Outstanding

\* The row of a queued job after agent a claimed it.
Claimed(r, a) == [r EXCEPT !.status = "running", !.claim = a]

LEMMA ClaimedFacts ==
    ASSUME NEW r \in Job, NEW a \in Agents
    PROVE /\ Claimed(r, a) \in Job
          /\ Claimed(r, a).status = "running" /\ Claimed(r, a).claim = a
          /\ Claimed(r, a).code = r.code
BY DEF Claimed, Job, Statuses, Outstanding

\* What one step does to one row.
Inserted(j) == jobs[j].status = "none" /\ jobs'[j] = Insert(j)

Evicted(j) == jobs[j].status \in Over /\ jobs'[j] = NoJob
                /\ Cardinality(Rows(jobs)) >= TotalLimit

CancelledByUser(j) ==
    /\ PruneJob(j).status = "queued"
    /\ jobs'[j] = Conclude(PruneJob(j), "cancelled", "cancelled_by_user")

ClaimedBy(j, q) ==
    /\ q.kind = "claim" /\ q.job = j
    /\ PruneJob(j).status = "queued"
    /\ jobs'[j] = Claimed(PruneJob(j), q.a)

FinishedBy(j, q) ==
    /\ q.kind = "result" /\ q.phase = "verified" /\ q.job = j
    /\ jobs[j].status = "running"
    /\ jobs'[j] = Conclude(jobs[j], "finished", q.receipt)

RowStep(j) ==
    \/ jobs'[j] = jobs[j]
    \/ jobs'[j] = PruneJob(j)
    \/ Inserted(j)
    \/ Evicted(j)
    \/ CancelledByUser(j)
    \/ \E q \in wire : ClaimedBy(j, q) \/ FinishedBy(j, q)

LEMMA CommitRows ==
    ASSUME TypeOK, NEW c \in creating, CreateCommit(c)
    PROVE /\ \A j \in Jobs : \/ jobs'[j] = jobs[j] \/ Inserted(j) \/ Evicted(j)
          /\ jobs' \in [Jobs -> Job]
<1> c.job \in Jobs
  BY DEF TypeOK
<1> Insert(c.job) \in Job /\ jobs \in [Jobs -> Job] /\ NoJob \in Job
  BY InsertFacts, NoJobFacts DEF TypeOK
<1>1. CASE jobs' = jobs
  BY <1>1
<1>2. CASE jobs[c.job].status = "none" /\ jobs' = [jobs EXCEPT ![c.job] = Insert(c.job)]
  BY <1>2 DEF Inserted, Insert
<1>3. ASSUME jobs[c.job].status = "none", NEW old \in Evictable(jobs),
             jobs' = [jobs EXCEPT ![old] = NoJob, ![c.job] = Insert(c.job)],
             Cardinality(Rows(jobs)) >= TotalLimit
      PROVE /\ \A j \in Jobs : \/ jobs'[j] = jobs[j] \/ Inserted(j) \/ Evicted(j)
            /\ jobs' \in [Jobs -> Job]
  <2>1. old \in Jobs /\ jobs[old] \in Job /\ jobs[old].status \notin Outstanding \cup {"none"}
    BY <1>3 DEF Evictable, Rows, Waiting
  <2>2. jobs[old].status \in Over
    BY <2>1 DEF Job, Statuses, Over
  <2>3. /\ jobs' \in [Jobs -> Job]
        /\ jobs'[c.job] = Insert(c.job)
        /\ \A j \in Jobs \ {c.job} : jobs'[j] = IF j = old THEN NoJob ELSE jobs[j]
    BY <1>3, <2>1
  <2> QED
    BY <1>3, <2>2, <2>3 DEF Inserted, Evicted, Insert
<1> QED
  BY <1>1, <1>2, <1>3 DEF CreateCommit

LEMMA CancelRows ==
    ASSUME TypeOK, NEW k \in Jobs, Cancel(k)
    PROVE /\ \A j \in Jobs : jobs'[j] = PruneJob(j) \/ CancelledByUser(j)
          /\ jobs' \in [Jobs -> Job]
<1>1. CASE jobs' = Pruned
  BY <1>1, PruneType
<1>2. CASE /\ Pruned[k].status = "queued"
           /\ jobs' = [Pruned EXCEPT ![k] = Conclude(Pruned[k], "cancelled", "cancelled_by_user")]
  <2>1. Conclude(Pruned[k], "cancelled", "cancelled_by_user") \in Job
    BY PruneType, ConcludeFacts DEF Statuses, Codes
  <2> QED
    BY <1>2, <2>1, PruneType DEF CancelledByUser
<1> QED
  BY <1>1, <1>2 DEF Cancel

LEMMA ClaimRows ==
    ASSUME TypeOK, NEW q \in wire, ClaimReceived(q)
    PROVE /\ \A j \in Jobs : \/ jobs'[j] = jobs[j] \/ jobs'[j] = PruneJob(j)
                              \/ ClaimedBy(j, q)
          /\ jobs' \in [Jobs -> Job]
<1> q.job \in Jobs /\ q.a \in Agents
  BY DEF TypeOK, Request
<1>1. CASE jobs' = jobs
  BY <1>1 DEF TypeOK
<1>2. CASE jobs' = Pruned
  BY <1>2, PruneType
<1>3. CASE /\ q.kind = "claim" /\ Pruned[q.job].status = "queued"
           /\ jobs' = [Pruned EXCEPT ![q.job] = Claimed(Pruned[q.job], q.a)]
  <2>1. Claimed(Pruned[q.job], q.a) \in Job
    BY PruneType, ClaimedFacts
  <2> QED
    BY <1>3, <2>1, PruneType DEF ClaimedBy
<1> QED
  BY <1>1, <1>2, <1>3 DEF ClaimReceived, Claimed

LEMMA ResultRows ==
    ASSUME TypeOK, NEW q \in wire, ResultCommit(q)
    PROVE /\ \A j \in Jobs : jobs'[j] = jobs[j] \/ FinishedBy(j, q)
          /\ jobs' \in [Jobs -> Job]
<1> q.job \in Jobs /\ q.a \in Agents /\ q.receipt \in Receipts \cup {"none"}
  BY DEF TypeOK, Request
<1>1. CASE jobs' = jobs
  BY <1>1 DEF TypeOK
<1>2. CASE /\ q.kind = "result" /\ q.phase = "verified" /\ jobs[q.job].status = "running"
           /\ jobs' = [jobs EXCEPT ![q.job] = Conclude(jobs[q.job], "finished", q.receipt)]
  <2>1. Conclude(jobs[q.job], "finished", q.receipt) \in Job
    BY ConcludeFacts DEF TypeOK, Statuses, Codes
  <2> QED
    BY <1>2, <2>1 DEF FinishedBy, TypeOK
<1> QED
  BY <1>1, <1>2 DEF ResultCommit

-----------------------------------------------------------------------------
(* The agents: what each action does to run, journal and executed, read at *)
(* one agent and one job.                                                  *)

Others(a, f, g) == \A b \in Agents \ {a} : g[b] = f[b]

\* Process p with another step.
At(p, s) == [p EXCEPT !.step = s]

LEMMA AtFacts ==
    ASSUME NEW p \in Process, NEW s \in Steps
    PROVE /\ At(p, s) \in Process
          /\ At(p, s).step = s /\ At(p, s).todo = p.todo
          /\ At(p, s).job = p.job /\ At(p, s).new = p.new
BY DEF At, Process

LEMMA IdleFacts ==
    /\ Idle \in Process /\ Idle.step = "idle" /\ Idle.todo = {} /\ ~Idle.new
<1>1. (CHOOSE j \in Jobs : TRUE) \in Jobs
  BY JobsAssumption
<1> QED
  BY <1>1 DEF Idle, Process, Steps

LEMMA GotoFacts ==
    ASSUME TypeOK, NEW a \in Agents, NEW s \in Steps, Goto(a, s)
    PROVE /\ run' \in [Agents -> Process]
          /\ run'[a] = At(run[a], s)
          /\ Others(a, run, run')
<1>1. run \in [Agents -> Process] /\ At(run[a], s) \in Process
  BY AtFacts DEF TypeOK
<1>2. run' = [run EXCEPT ![a] = At(run[a], s)]
  BY DEF Goto, At
<1> QED
  BY <1>1, <1>2 DEF Others

\* A change of one receipt.
LEMMA JournalExcept ==
    ASSUME TypeOK, NEW a \in Agents, NEW j \in Jobs, NEW r \in Receipts \cup {"none"},
           journal' = [journal EXCEPT ![a][j] = r]
    PROVE /\ journal' \in [Agents -> [Jobs -> Receipts \cup {"none"}]]
          /\ journal'[a][j] = r
          /\ \A k \in Jobs \ {j} : journal'[a][k] = journal[a][k]
          /\ Others(a, journal, journal')
BY DEF TypeOK, Others

LEMMA PollFacts ==
    ASSUME TypeOK, NEW a \in Agents, Poll(a)
    PROVE /\ jobs' = Pruned
          /\ run' \in [Agents -> Process]
          /\ journal' \in [Agents -> [Jobs -> Receipts \cup {"none"}]]
          /\ Others(a, run, run') /\ Others(a, journal, journal')
          /\ \/ run' = run /\ journal' = journal
             \/ /\ run'[a].step = "next"
                /\ run'[a].todo = {[job |-> j, status |-> Pruned[j].status,
                                     created |-> Pruned[j].created] :
                                   j \in {k \in Waiting(Pruned) : Pruned[k].access = cred[a]}}
                /\ \A j \in Jobs : journal'[a][j]
                                      = IF age[j] = "old" THEN "none" ELSE journal[a][j]
<1> DEFINE mine == {k \in Waiting(Pruned) : Pruned[k].access = cred[a]}
           todo == {[job |-> j, status |-> Pruned[j].status,
                     created |-> Pruned[j].created] : j \in mine}
           p == [run[a] EXCEPT !.step = "next", !.todo = todo]
           w == [j \in Jobs |-> IF age[j] = "old" THEN "none" ELSE journal[a][j]]
<1>1. CASE run' = run /\ journal' = journal
  BY <1>1 DEF Poll, TypeOK, Others
<1>2. CASE /\ run' = [run EXCEPT ![a].step = "next", ![a].todo = todo]
           /\ journal' = [journal EXCEPT ![a] = w]
  <2>1. todo \subseteq Listed
    BY PruneType DEF Listed, Waiting, Job
  <2>2. p \in Process /\ p.step = "next" /\ p.todo = todo
    <3> HIDE DEF todo
    <3>1. run[a] \in Process
      BY DEF TypeOK
    <3> QED
      BY <2>1, <3>1 DEF Process, Steps
  <2>3. run' = [run EXCEPT ![a] = p]
    BY <1>2
  <2>4. w \in [Jobs -> Receipts \cup {"none"}]
    BY DEF TypeOK
  <2> HIDE DEF p, todo
  <2>5. /\ run' \in [Agents -> Process] /\ run'[a] = p
        /\ Others(a, run, run')
    BY <2>2, <2>3 DEF TypeOK, Others
  <2>6. /\ journal' \in [Agents -> [Jobs -> Receipts \cup {"none"}]]
        /\ journal'[a] = w /\ Others(a, journal, journal')
    BY <1>2, <2>4 DEF TypeOK, Others
  <2> QED
    BY <2>2, <2>5, <2>6 DEF Poll, todo
<1> QED
  BY <1>1, <1>2 DEF Poll

\* The process that Take leaves, for entry t of the list.
Taken(a, t) ==
    [step |-> IF journal[a][t.job] = "none" /\ t.status = "running" THEN "next" ELSE "claim",
     todo |-> run[a].todo \ {t}, job |-> t.job, new |-> journal[a][t.job] = "none"]

LEMMA TakeFacts ==
    ASSUME TypeOK, NEW a \in Agents, Take(a)
    PROVE /\ run' \in [Agents -> Process]
          /\ journal' \in [Agents -> [Jobs -> Receipts \cup {"none"}]]
          /\ Others(a, run, run') /\ Others(a, journal, journal')
          /\ \/ /\ run'[a].step = "next" /\ run'[a].todo \subseteq run[a].todo
                /\ journal' = journal
             \/ \E t \in run[a].todo :
                  /\ t \in Listed /\ age[t.job] = "fresh"
                  /\ Taken(a, t) \in Process /\ run'[a] = Taken(a, t)
                  /\ journal'[a][t.job] = IF journal[a][t.job] = "none" THEN "interrupted"
                                           ELSE journal[a][t.job]
                  /\ \A k \in Jobs \ {t.job} : journal'[a][k] = journal[a][k]
<1>1. PICK t \in run[a].todo :
        IF age[t.job] # "fresh"
        THEN run' = [run EXCEPT ![a].todo = run[a].todo \ {t}] /\ journal' = journal
        ELSE /\ journal' = [journal EXCEPT ![a][t.job] =
                              IF journal[a][t.job] = "none" THEN "interrupted" ELSE @]
             /\ run' = [run EXCEPT ![a] = Taken(a, t)]
  BY DEF Take, Taken
<1>2. run[a] \in Process /\ run[a].todo \subseteq Listed /\ t \in Listed /\ t.job \in Jobs
  BY DEF TypeOK, Process, Listed
<1>3. CASE age[t.job] # "fresh"
  <2> DEFINE p == [run[a] EXCEPT !.todo = run[a].todo \ {t}]
  <2>1. p \in Process /\ p.step = "next" /\ p.todo \subseteq run[a].todo
    BY <1>2 DEF Process, Take
  <2>2. run' = [run EXCEPT ![a] = p] /\ journal' = journal
    BY <1>1, <1>3
  <2> HIDE DEF p
  <2> QED
    BY <2>1, <2>2 DEF TypeOK, Others
<1>4. CASE age[t.job] = "fresh"
  <2> DEFINE r == IF journal[a][t.job] = "none" THEN "interrupted" ELSE journal[a][t.job]
  <2>1. Taken(a, t) \in Process
    BY <1>2 DEF Taken, Process, Steps
  <2>2. r \in Receipts \cup {"none"}
    BY <1>2 DEF Receipts, TypeOK
  <2>3. journal' = [journal EXCEPT ![a][t.job] = r] /\ run' = [run EXCEPT ![a] = Taken(a, t)]
    BY <1>1, <1>4
  <2>4. /\ journal' \in [Agents -> [Jobs -> Receipts \cup {"none"}]]
        /\ journal'[a][t.job] = r
        /\ \A k \in Jobs \ {t.job} : journal'[a][k] = journal[a][k]
        /\ Others(a, journal, journal')
    BY <1>2, <2>2, <2>3, JournalExcept
  <2>5. /\ run' \in [Agents -> Process] /\ run'[a] = Taken(a, t) /\ Others(a, run, run')
    BY <2>1, <2>3 DEF TypeOK, Others
  <2> QED
    BY <1>2, <1>4, <2>1, <2>4, <2>5
<1> QED
  BY <1>3, <1>4, <1>2 DEF TypeOK

\* The request that a sends in its step.
ClaimOf(a) == [a |-> a, kind |-> "claim", job |-> run[a].job, receipt |-> "none",
               cred |-> cred[a], phase |-> "sent", live |-> TRUE]

ResultOf(a) == [a |-> a, kind |-> "result", job |-> run[a].job,
                receipt |-> journal[a][run[a].job], cred |-> cred[a],
                phase |-> "sent", live |-> TRUE]

LEMMA SendFacts ==
    ASSUME TypeOK, NEW a \in Agents
    PROVE /\ SendClaim(a) => /\ wire' = wire \cup {ClaimOf(a)} /\ ClaimOf(a) \in Request
                            /\ run' \in [Agents -> Process]
                            /\ run'[a] = At(run[a], "awaitClaim") /\ Others(a, run, run')
          /\ SendResult(a) => /\ wire' = wire \cup {ResultOf(a)} /\ ResultOf(a) \in Request
                             /\ run' \in [Agents -> Process]
                             /\ run'[a] = At(run[a], "awaitResult") /\ Others(a, run, run')
<1>1. run[a].job \in Jobs
  BY DEF TypeOK, Process
<1>2. ClaimOf(a) \in Request
  BY <1>1 DEF TypeOK, ClaimOf, Request
<1>3. ResultOf(a) \in Request
  BY <1>1 DEF TypeOK, ResultOf, Request
<1>4. SendClaim(a) => /\ run' \in [Agents -> Process]
                      /\ run'[a] = At(run[a], "awaitClaim") /\ Others(a, run, run')
  BY GotoFacts DEF SendClaim, Steps
<1>5. SendResult(a) => /\ run' \in [Agents -> Process]
                       /\ run'[a] = At(run[a], "awaitResult") /\ Others(a, run, run')
  BY GotoFacts DEF SendResult, Steps
<1> QED
  BY <1>2, <1>3, <1>4, <1>5 DEF SendClaim, SendResult, ClaimOf, ResultOf

LEMMA AnsweredFacts ==
    ASSUME TypeOK, NEW a \in Agents, Answered(a)
    PROVE /\ run' \in [Agents -> Process] /\ Others(a, run, run')
          /\ answer' \in [Agents -> {"none", "ok", "error"}]
          /\ answer'[a] = "none" /\ Others(a, answer, answer')
          /\ answer[a] = "error" => run'[a] = Idle
          /\ answer[a] = "ok" =>
               /\ run[a].step = "awaitResult" => run'[a] = At(run[a], "next")
               /\ run[a].step # "awaitResult" =>
                    run'[a] = At(run[a], IF run[a].new THEN "execute" ELSE "report")
<1> DEFINE s == IF run[a].step = "awaitResult" THEN "next"
                ELSE IF run[a].new THEN "execute" ELSE "report"
           p == IF answer[a] = "error" THEN Idle ELSE At(run[a], s)
<1>1. p \in Process
  BY IdleFacts, AtFacts DEF TypeOK, Steps
<1>2. run' = [run EXCEPT ![a] = p]
  BY DEF Answered, At
<1>3. run' \in [Agents -> Process] /\ Others(a, run, run') /\ run'[a] = p
  <2> HIDE DEF p
  <2> QED
    BY <1>1, <1>2 DEF TypeOK, Others
<1>4. /\ answer' \in [Agents -> {"none", "ok", "error"}]
      /\ answer'[a] = "none" /\ Others(a, answer, answer')
  BY DEF Answered, TypeOK, Others
<1> QED
  BY <1>3, <1>4

LEMMA StartFacts ==
    ASSUME TypeOK, NEW a \in Agents, StartExecution(a)
    PROVE /\ run' \in [Agents -> Process] /\ Others(a, run, run')
          /\ run'[a] = At(run[a], "executing")
          /\ executed' \in [Agents -> [Jobs -> Nat]] /\ Others(a, executed, executed')
          /\ executed'[a][run[a].job] = executed[a][run[a].job] + 1
          /\ \A k \in Jobs \ {run[a].job} : executed'[a][k] = executed[a][k]
<1> DEFINE j == run[a].job
           n == executed[a][j] + 1
<1>1. j \in Jobs /\ executed \in [Agents -> [Jobs -> Nat]]
  BY DEF TypeOK, Process
<1>2. n \in Nat
  BY <1>1
<1>3. executed' = [executed EXCEPT ![a][j] = n]
  BY DEF StartExecution
<1>4. /\ run' \in [Agents -> Process] /\ Others(a, run, run')
      /\ run'[a] = At(run[a], "executing")
  BY GotoFacts DEF StartExecution, Steps
<1> HIDE DEF j, n
<1>5. /\ executed' \in [Agents -> [Jobs -> Nat]] /\ Others(a, executed, executed')
      /\ executed'[a][j] = n
      /\ \A k \in Jobs \ {j} : executed'[a][k] = executed[a][k]
  BY <1>1, <1>2, <1>3 DEF Others
<1> QED
  BY <1>4, <1>5 DEF j, n

LEMMA FinishFacts ==
    ASSUME TypeOK, NEW a \in Agents, FinishExecution(a)
    PROVE /\ run' \in [Agents -> Process] /\ Others(a, run, run')
          /\ run'[a] = At(run[a], "report")
          /\ journal' \in [Agents -> [Jobs -> Receipts \cup {"none"}]]
          /\ Others(a, journal, journal')
          /\ journal'[a][run[a].job] \in Outcomes
          /\ \A k \in Jobs \ {run[a].job} : journal'[a][k] = journal[a][k]
<1>1. run[a].job \in Jobs
  BY DEF TypeOK, Process
<1>2. PICK r \in Outcomes : journal' = [journal EXCEPT ![a][run[a].job] = r]
  BY DEF FinishExecution
<1>3. r \in Receipts \cup {"none"}
  BY DEF Receipts
<1>4. /\ run' \in [Agents -> Process] /\ Others(a, run, run')
      /\ run'[a] = At(run[a], "report")
  BY GotoFacts DEF FinishExecution, Steps
<1> QED
  BY <1>1, <1>2, <1>3, <1>4, JournalExcept

\* Request q after agent a gave up.
Cut(q, a) == [q EXCEPT !.live = q.live /\ q.a # a]

LEMMA CutFacts ==
    ASSUME NEW q \in Request, NEW a
    PROVE /\ Cut(q, a) \in Request
          /\ Cut(q, a).live = (q.live /\ q.a # a) /\ Cut(q, a).a = q.a
          /\ Cut(q, a).kind = q.kind /\ Cut(q, a).job = q.job
          /\ Cut(q, a).receipt = q.receipt /\ Cut(q, a).cred = q.cred
          /\ Cut(q, a).phase = q.phase
          /\ q.a # a => Cut(q, a) = q
<1> DEFINE l == (q.live /\ q.a # a)
<1>1. l \in BOOLEAN
  OBVIOUS
<1>2. Cut(q, a) = [q EXCEPT !.live = l]
  BY DEF Cut
<1>3. q.a # a => l = q.live
  BY DEF Request
<1> HIDE DEF l
<1>4. [q EXCEPT !.live = q.live] = q
  BY DEF Request
<1>5. /\ Cut(q, a) \in Request /\ Cut(q, a).live = l /\ Cut(q, a).a = q.a
      /\ Cut(q, a).kind = q.kind /\ Cut(q, a).job = q.job
      /\ Cut(q, a).receipt = q.receipt /\ Cut(q, a).cred = q.cred
      /\ Cut(q, a).phase = q.phase
  BY <1>1, <1>2 DEF Request
<1> QED
  BY <1>2, <1>3, <1>4, <1>5 DEF l

LEMMA AbortFacts ==
    ASSUME TypeOK, NEW a \in Agents, Abort(a)
    PROVE /\ run' \in [Agents -> Process] /\ Others(a, run, run') /\ run'[a] = Idle
          /\ answer' \in [Agents -> {"none", "ok", "error"}]
          /\ answer'[a] = "none" /\ Others(a, answer, answer')
          /\ wire' = {Cut(q, a) : q \in wire}
          /\ wire' \in SUBSET Request
<1>1. wire' = {Cut(q, a) : q \in wire}
  BY DEF Abort, Cut
<1>2. wire' \in SUBSET Request
  BY <1>1, CutFacts DEF TypeOK
<1> QED
  BY <1>1, <1>2, IdleFacts DEF Abort, TypeOK, Others

LEMMA ReplyFacts ==
    ASSUME TypeOK, NEW q \in wire, NEW r \in {"ok", "error"}, Reply(q, r)
    PROVE /\ wire' = wire \ {q}
          /\ answer' \in [Agents -> {"none", "ok", "error"}]
          /\ Others(q.a, answer, answer')
          /\ answer'[q.a] = IF q.live THEN r ELSE answer[q.a]
BY DEF Reply, TypeOK, Others, Request

-----------------------------------------------------------------------------
(* Type correctness *)

LEMMA TypeStep ==
    ASSUME TypeOK, [Next]_vars
    PROVE TypeOK'
<1> USE DEF server, agents
<1>1. ASSUME NEW j \in Jobs, CreateReceived(j)
      PROVE TypeOK'
  BY <1>1, PruneType DEF CreateReceived, TypeOK
<1>2. ASSUME NEW j \in Jobs, Cancel(j)
      PROVE TypeOK'
  BY <1>2, CancelRows DEF Cancel, TypeOK
<1>3. ASSUME NEW c \in creating, CreateCommit(c)
      PROVE TypeOK'
  <2>1. creates' \in Nat /\ creating' \in SUBSET [job : Jobs, access : Nat]
    BY <1>3 DEF CreateCommit, TypeOK
  <2> QED
    BY <1>3, <2>1, CommitRows DEF CreateCommit, TypeOK
<1>4. CASE ListJobs
  BY <1>4, PruneType DEF ListJobs, TypeOK
<1>5. ASSUME NEW j \in Jobs, Expire(j) \/ GoStale(j)
      PROVE TypeOK'
  BY <1>5 DEF Expire, GoStale, TypeOK
<1>6. ASSUME NEW a \in Agents \cup {NoAgent}, AccessChange(a)
      PROVE TypeOK'
  <2>1. access' \in Nat /\ cred' \in [Agents -> Nat]
    BY <1>6 DEF AccessChange, TypeOK
  <2> QED
    BY <1>6, <2>1 DEF AccessChange, TypeOK
<1>7. ASSUME NEW q \in wire, ClaimReceived(q)
      PROVE TypeOK'
  <2>1. Reply(q, "ok") \/ Reply(q, "error")
    BY <1>7 DEF ClaimReceived
  <2>2. wire' \in SUBSET Request /\ answer' \in [Agents -> {"none", "ok", "error"}]
    BY <2>1, ReplyFacts DEF TypeOK
  <2>3. stale' \in SUBSET Jobs
    BY <1>7 DEF ClaimReceived, TypeOK
  <2> QED
    BY <1>7, <2>2, <2>3, ClaimRows DEF ClaimReceived, TypeOK
<1>8. ASSUME NEW q \in wire, ResultReceived(q)
      PROVE TypeOK'
  <2>1. jobs' \in [Jobs -> Job]
    BY <1>8, PruneType DEF ResultReceived, TypeOK
  <2>2. q \in Request
    BY DEF TypeOK
  <2>3. [q EXCEPT !.phase = "verified"] \in Request
    BY <2>2 DEF Request
  <2>4. \/ /\ wire' = (wire \ {q}) \cup {[q EXCEPT !.phase = "verified"]}
           /\ answer' = answer
        \/ Reply(q, "error")
    BY <1>8 DEF ResultReceived
  <2>5. wire' \in SUBSET Request /\ answer' \in [Agents -> {"none", "ok", "error"}]
    BY <2>3, <2>4, ReplyFacts DEF TypeOK
  <2> QED
    BY <1>8, <2>1, <2>5 DEF ResultReceived, TypeOK
<1>9. ASSUME NEW q \in wire, ResultCommit(q)
      PROVE TypeOK'
  <2>1. Reply(q, "ok") \/ Reply(q, "error")
    BY <1>9 DEF ResultCommit
  <2>2. wire' \in SUBSET Request /\ answer' \in [Agents -> {"none", "ok", "error"}]
    BY <2>1, ReplyFacts DEF TypeOK
  <2> QED
    BY <1>9, <2>2, ResultRows DEF ResultCommit, TypeOK
<1>10. ASSUME NEW a \in Agents, Poll(a)
       PROVE TypeOK'
  <2>1. /\ jobs' = Pruned /\ run' \in [Agents -> Process]
        /\ journal' \in [Agents -> [Jobs -> Receipts \cup {"none"}]]
    BY <1>10, PollFacts
  <2> QED
    BY <1>10, <2>1, PruneType DEF Poll, TypeOK
<1>11. ASSUME NEW a \in Agents, Done(a)
       PROVE TypeOK'
  BY <1>11, IdleFacts DEF Done, TypeOK
<1>12. ASSUME NEW a \in Agents, Take(a)
       PROVE TypeOK'
  <2>1. /\ run' \in [Agents -> Process]
        /\ journal' \in [Agents -> [Jobs -> Receipts \cup {"none"}]]
    BY <1>12, TakeFacts
  <2> QED
    BY <1>12, <2>1 DEF Take, TypeOK
<1>13. ASSUME NEW a \in Agents, SendClaim(a) \/ SendResult(a)
       PROVE TypeOK'
  BY <1>13, SendFacts DEF SendClaim, SendResult, TypeOK
<1>14. ASSUME NEW a \in Agents, Answered(a)
       PROVE TypeOK'
  BY <1>14, AnsweredFacts DEF Answered, TypeOK
<1>15. ASSUME NEW a \in Agents, StartExecution(a)
       PROVE TypeOK'
  BY <1>15, StartFacts DEF StartExecution, TypeOK
<1>16. ASSUME NEW a \in Agents, FinishExecution(a)
       PROVE TypeOK'
  BY <1>16, FinishFacts DEF FinishExecution, TypeOK
<1>17. ASSUME NEW a \in Agents, Abort(a)
       PROVE TypeOK'
  <2>1. aborts' \in Nat
    BY <1>17 DEF Abort, TypeOK
  <2> QED
    BY <1>17, <2>1, AbortFacts DEF Abort, TypeOK
<1>18. CASE UNCHANGED vars
  BY <1>18 DEF vars, TypeOK
<1> QED
  BY <1>1, <1>2, <1>3, <1>4, <1>5, <1>6, <1>7, <1>8, <1>9, <1>10, <1>11, <1>12,
     <1>13, <1>14, <1>15, <1>16, <1>17, <1>18
     DEF Next, Browser, Time, Serve, Work

LEMMA TypeCorrectInit == Init => TypeOK
BY NoJobFacts, IdleFacts DEF Init, TypeOK, Receipts

\* The rows, the journals, the processes and the requests on the wire keep
\* their types, through every prune, claim, receipt and abort.
THEOREM TypeCorrect == Spec => []TypeOK
<1>1. TypeOK /\ [Next]_vars => TypeOK'
  BY TypeStep
<1> QED
  BY <1>1, TypeCorrectInit, PTL DEF Spec

-----------------------------------------------------------------------------
(* Verdicts and the bounds of the queue *)

LEMMA PruneOutstanding ==
    ASSUME TypeOK, NEW j \in Jobs, PruneJob(j).status \in Outstanding
    PROVE age[j] # "old" /\ PruneJob(j) = jobs[j]
<1>1. jobs[j] \in Job
  BY DEF TypeOK
<1>2. CASE \E s \in Over, c \in {"access_changed", "not_received", "receipt_missing"} :
              PruneJob(j) = Conclude(jobs[j], s, c)
  <2>1. PICK s \in Over, c \in {"access_changed", "not_received", "receipt_missing"} :
          PruneJob(j) = Conclude(jobs[j], s, c)
    BY <1>2
  <2>2. s \in Statuses /\ c \in Codes /\ s \notin Outstanding
    BY DEF Over, Statuses, Codes, Outstanding
  <2> QED
    BY <1>1, <2>1, <2>2, ConcludeFacts
<1> QED
  BY <1>2, PruneCases, NoJobFacts DEF Outstanding

\* A step other than the commit of a dispatch neither inserts nor evicts.
RowMove(j) ==
    \/ jobs'[j] = jobs[j]
    \/ jobs'[j] = PruneJob(j)
    \/ CancelledByUser(j)
    \/ \E q \in wire : ClaimedBy(j, q) \/ FinishedBy(j, q)

LEMMA RowMoves ==
    ASSUME TypeOK, [Next]_vars
    PROVE (\E c \in creating : CreateCommit(c)) \/ \A j \in Jobs : RowMove(j)
<1> USE DEF server
<1>1. ASSUME NEW c \in creating, CreateCommit(c)
      PROVE \E d \in creating : CreateCommit(d)
  BY <1>1
<1>2. ASSUME NEW k \in Jobs, Cancel(k), NEW j \in Jobs
      PROVE RowMove(j)
  BY <1>2, CancelRows DEF RowMove
<1>3. ASSUME NEW q \in wire, ClaimReceived(q), NEW j \in Jobs
      PROVE RowMove(j)
  BY <1>3, ClaimRows DEF RowMove
<1>4. ASSUME NEW q \in wire, ResultReceived(q), NEW j \in Jobs
      PROVE RowMove(j)
  BY <1>4, PruneType DEF RowMove, ResultReceived
<1>5. ASSUME NEW q \in wire, ResultCommit(q), NEW j \in Jobs
      PROVE RowMove(j)
  BY <1>5, ResultRows DEF RowMove
<1>6. ASSUME \/ ListJobs
             \/ \E k \in Jobs : CreateReceived(k)
             \/ \E a \in Agents : Poll(a),
             NEW j \in Jobs
      PROVE RowMove(j)
  <2>1. jobs' = Pruned
    BY <1>6 DEF ListJobs, CreateReceived, Poll
  <2> QED
    BY <2>1, PruneType DEF RowMove
<1>7. ASSUME \/ \E k \in Jobs : Expire(k) \/ GoStale(k)
             \/ \E a \in Agents \cup {NoAgent} : AccessChange(a)
             \/ \E a \in Agents : Work(a) \/ Abort(a)
             \/ UNCHANGED vars,
             NEW j \in Jobs
      PROVE RowMove(j)
  <2>1. jobs' = jobs
    BY <1>7 DEF Expire, GoStale, AccessChange, Work, Abort, Done, Take, SendClaim, Answered,
                StartExecution, FinishExecution, SendResult, vars
  <2> QED
    BY <2>1 DEF RowMove
<1> QED
  BY <1>1, <1>2, <1>3, <1>4, <1>5, <1>6, <1>7 DEF Next, Browser, Time, Serve

\* A move never brings a row back to the queue, and never makes one.
LEMMA MoveStatus ==
    ASSUME TypeOK, NEW j \in Jobs, RowMove(j)
    PROVE /\ jobs'[j].status \in Outstanding => jobs[j].status \in Outstanding
          /\ jobs'[j].status # "none" => jobs[j].status # "none"
          /\ jobs[j].status \in Over => jobs'[j] \in {jobs[j], NoJob}
<1>1. jobs[j] \in Job /\ PruneJob(j) \in Job
  BY PruneType DEF TypeOK
<1>2. CASE jobs'[j] = jobs[j]
  BY <1>2
<1>3. CASE jobs'[j] = PruneJob(j)
  <2>1. Over \cap Outstanding = {} /\ "none" \notin Outstanding
    BY DEF Over, Outstanding
  <2> QED
    BY <1>3, <2>1, PruneCases, PruneOutstanding, NoJobFacts
<1>4. CASE CancelledByUser(j)
  <2>1. jobs[j].status = "queued"
    BY <1>4, PruneOutstanding DEF CancelledByUser, Outstanding
  <2> QED
    BY <1>1, <1>4, <2>1, ConcludeFacts DEF CancelledByUser, Statuses, Codes, Over, Outstanding
<1>5. ASSUME NEW q \in wire, ClaimedBy(j, q)
      PROVE jobs[j].status = "queued"
  BY <1>5, PruneOutstanding DEF ClaimedBy, Outstanding
<1>6. ASSUME NEW q \in wire, FinishedBy(j, q)
      PROVE jobs[j].status = "running"
  BY <1>6 DEF FinishedBy
<1> QED
  BY <1>2, <1>3, <1>4, <1>5, <1>6 DEF RowMove, Over, Outstanding

\* A verdict is final for any number of jobs and agents: whatever arrives
\* late, a job that is over keeps its row until the row is deleted.
THEOREM VerdictsAreFinal == Spec => VerdictFinal
<1>1. TypeOK /\ [Next]_vars
        => \A j \in Jobs : jobs[j].status \in Over => jobs'[j] \in {jobs[j], NoJob}
  <2> SUFFICES ASSUME TypeOK, [Next]_vars, NEW j \in Jobs, jobs[j].status \in Over
               PROVE jobs'[j] \in {jobs[j], NoJob}
    OBVIOUS
  <2>1. CASE RowMove(j)
    BY <2>1, MoveStatus
  <2>2. ASSUME NEW c \in creating, CreateCommit(c)
        PROVE jobs'[j] \in {jobs[j], NoJob}
    BY <2>2, CommitRows DEF Inserted, Evicted, Over
  <2> QED
    BY <2>1, <2>2, RowMoves
<1> QED
  BY <1>1, TypeCorrect, PTL DEF Spec, VerdictFinal, Over

LEMMA TableFinite ==
    ASSUME NEW js
    PROVE /\ IsFiniteSet(Waiting(js)) /\ Cardinality(Waiting(js)) \in Nat
          /\ IsFiniteSet(Rows(js)) /\ Cardinality(Rows(js)) \in Nat
<1>1. Waiting(js) \in SUBSET Jobs /\ Rows(js) \in SUBSET Jobs
  BY DEF Waiting, Rows
<1> QED
  BY <1>1, JobsAssumption, FS_Subset, FS_CardinalityType

\* The insertion and the eviction are one transaction, so the limits that the
\* transaction checks hold after it.
LEMMA CommitBounds ==
    ASSUME TypeOK, NEW c \in creating, CreateCommit(c),
           Cardinality(Waiting(jobs)) <= QueueLimit,
           Cardinality(Rows(jobs)) <= TotalLimit
    PROVE /\ Cardinality(Waiting(jobs')) <= QueueLimit
          /\ Cardinality(Rows(jobs')) <= TotalLimit
<1> DEFINE W == Waiting(jobs)
           R == Rows(jobs)
<1>1. c.job \in Jobs /\ jobs \in [Jobs -> Job] /\ Insert(c.job).status = "queued"
  BY InsertFacts DEF TypeOK
<1>2. QueueLimit \in Nat /\ TotalLimit \in Nat
  BY JobsAssumption
<1>3. CASE jobs' = jobs
  BY <1>3
<1>4. ASSUME jobs[c.job].status = "none", Cardinality(W) < QueueLimit,
             \A j \in Jobs \ {c.job} : jobs'[j] = jobs[j] \/ jobs'[j] = NoJob
      PROVE Cardinality(Waiting(jobs')) <= QueueLimit
  <2>1. Waiting(jobs') \in SUBSET (W \cup {c.job})
    BY <1>4, NoJobFacts DEF Waiting, Outstanding
  <2>2. IsFiniteSet(W \cup {c.job}) /\ Cardinality(W \cup {c.job}) <= Cardinality(W) + 1
    <3>1. IsFiniteSet(W) /\ Cardinality(W) \in Nat
      BY TableFinite
    <3> HIDE DEF W
    <3>2. /\ IsFiniteSet(W \cup {c.job})
          /\ Cardinality(W \cup {c.job}) = IF c.job \in W THEN Cardinality(W)
                                           ELSE Cardinality(W) + 1
      BY <3>1, FS_AddElement
    <3> QED
      BY <3>1, <3>2
  <2>3. Cardinality(Waiting(jobs')) <= Cardinality(W \cup {c.job})
    BY <2>1, <2>2, FS_Subset
  <2>4. Cardinality(W \cup {c.job}) \in Nat
    BY <2>2, FS_CardinalityType
  <2> QED
    BY <1>2, <1>4, <2>2, <2>3, <2>4, TableFinite
<1>5. CASE /\ jobs[c.job].status = "none"
           /\ Cardinality(W) < QueueLimit /\ Cardinality(R) < TotalLimit
           /\ jobs' = [jobs EXCEPT ![c.job] = Insert(c.job)]
  <2>1. \A j \in Jobs \ {c.job} : jobs'[j] = jobs[j]
    BY <1>1, <1>5
  <2>2. Rows(jobs') \in SUBSET (R \cup {c.job})
    BY <2>1 DEF Rows
  <2>3. IsFiniteSet(R \cup {c.job}) /\ Cardinality(R \cup {c.job}) <= Cardinality(R) + 1
    BY TableFinite, FS_AddElement
  <2>4. Cardinality(Rows(jobs')) <= Cardinality(R \cup {c.job})
    BY <2>2, <2>3, FS_Subset
  <2>5. Cardinality(R \cup {c.job}) \in Nat
    BY <2>3, FS_CardinalityType
  <2> QED
    BY <1>2, <1>4, <1>5, <2>1, <2>3, <2>4, <2>5, TableFinite
<1>6. ASSUME jobs[c.job].status = "none", Cardinality(W) < QueueLimit,
             NEW old \in Evictable(jobs),
             jobs' = [jobs EXCEPT ![old] = NoJob, ![c.job] = Insert(c.job)]
      PROVE /\ Cardinality(Waiting(jobs')) <= QueueLimit
            /\ Cardinality(Rows(jobs')) <= TotalLimit
  <2>1. old \in R /\ old # c.job
    BY <1>6 DEF Evictable, Rows
  <2>2. /\ \A j \in Jobs \ {c.job} : jobs'[j] = IF j = old THEN NoJob ELSE jobs[j]
    BY <1>1, <1>6
  <2>3. Rows(jobs') \in SUBSET ((R \ {old}) \cup {c.job})
    BY <2>2, NoJobFacts DEF Rows
  <2>4. IsFiniteSet(R \ {old}) /\ Cardinality(R \ {old}) = Cardinality(R) - 1
    BY <2>1, TableFinite, FS_RemoveElement
  <2>5. c.job \notin R \ {old}
    BY <1>6 DEF Rows
  <2>6. /\ IsFiniteSet((R \ {old}) \cup {c.job})
        /\ Cardinality((R \ {old}) \cup {c.job}) = Cardinality(R \ {old}) + 1
    BY <2>4, <2>5, FS_AddElement
  <2>7. Cardinality(Rows(jobs')) <= Cardinality((R \ {old}) \cup {c.job})
    BY <2>3, <2>6, FS_Subset
  <2>8. Cardinality((R \ {old}) \cup {c.job}) = Cardinality(R)
    BY <2>4, <2>6, TableFinite
  <2>9. Cardinality(Waiting(jobs')) <= QueueLimit
    BY <1>4, <1>6, <2>2
  <2> QED
    BY <1>2, <2>7, <2>8, <2>9, TableFinite
<1> QED
  BY <1>3, <1>5, <1>6 DEF CreateCommit

\* The list that an agent works through.
TodoBounded == \A a \in Agents : /\ IsFiniteSet(run[a].todo)
                                 /\ Cardinality(run[a].todo) <= QueueLimit

LEMMA PollBounds ==
    ASSUME TypeOK, NEW a \in Agents, Poll(a), Cardinality(Waiting(Pruned)) <= QueueLimit,
           TodoBounded
    PROVE IsFiniteSet(run'[a].todo) /\ Cardinality(run'[a].todo) <= QueueLimit
<1> DEFINE mine == {k \in Waiting(Pruned) : Pruned[k].access = cred[a]}
           entry(j) == [job |-> j, status |-> Pruned[j].status, created |-> Pruned[j].created]
           todo == {entry(j) : j \in mine}
           f == [j \in mine |-> entry(j)]
<1>1. CASE run' = run
  BY <1>1 DEF TodoBounded
<1>2. CASE run'[a].todo = todo
  <2>1. mine \in SUBSET Waiting(Pruned)
    OBVIOUS
  <2>2. IsFiniteSet(mine) /\ Cardinality(mine) <= Cardinality(Waiting(Pruned))
    BY <2>1, TableFinite, FS_Subset
  <2>3. f \in Surjection(mine, todo)
    BY DEF Surjection
  <2>4. IsFiniteSet(todo) /\ Cardinality(todo) <= Cardinality(mine)
    <3> HIDE DEF f, todo, mine
    <3> QED
      BY <2>2, <2>3, FS_Surjection
  <2>5. Cardinality(todo) \in Nat /\ Cardinality(mine) \in Nat
    BY <2>2, <2>4, FS_CardinalityType
  <2> HIDE DEF todo, mine
  <2> QED
    BY <1>2, <2>2, <2>4, <2>5, TableFinite, JobsAssumption
<1> QED
  BY <1>1, <1>2, PollFacts

\* No other step of any actor makes a list longer.
LEMMA TodoShrinks ==
    ASSUME TypeOK, [Next]_vars, NEW a \in Agents, ~Poll(a)
    PROVE run'[a].todo \subseteq run[a].todo
<1> USE DEF server, agents
<1>0. run[a] \in Process /\ \A b \in Agents : run[b] \in Process
  BY DEF TypeOK
<1>1. CASE run'[a] = run[a]
  BY <1>1
<1>2. ASSUME NEW s \in Steps, run'[a] = At(run[a], s)
      PROVE run'[a].todo \subseteq run[a].todo
  BY <1>0, <1>2, AtFacts
<1>3. CASE run'[a] = Idle
  BY <1>3, IdleFacts
<1>4. ASSUME NEW b \in Agents, Work(b) \/ Abort(b)
      PROVE run'[a].todo \subseteq run[a].todo
  <2>1. CASE a # b
    BY <1>1, <1>4, <2>1, TakeFacts, SendFacts, AnsweredFacts, StartFacts, FinishFacts, AbortFacts
       DEF Work, Done, Others, TypeOK
  <2>2. CASE a = b /\ Take(b)
    <3>1. CASE run'[a].todo \subseteq run[a].todo
      BY <3>1
    <3>2. ASSUME NEW t, run'[a] = Taken(a, t)
          PROVE run'[a].todo \subseteq run[a].todo
      BY <3>2 DEF Taken
    <3> QED
      BY <2>2, <3>1, <3>2, TakeFacts
  <2>3. CASE a = b /\ (Done(b) \/ Abort(b))
    BY <1>3, <2>3, AbortFacts DEF Done, TypeOK
  <2>4. CASE a = b /\ (SendClaim(b) \/ SendResult(b) \/ StartExecution(b) \/ FinishExecution(b))
    BY <1>2, <2>4, SendFacts, StartFacts, FinishFacts DEF Steps
  <2>5. CASE a = b /\ Answered(b)
    <3>1. answer[a] = "ok" \/ answer[a] = "error"
      BY <2>5 DEF Answered, TypeOK
    <3> QED
      BY <1>2, <1>3, <2>5, <3>1, AnsweredFacts DEF Steps
  <2> QED
    BY <1>4, <2>1, <2>2, <2>3, <2>4, <2>5 DEF Work
<1>5. ASSUME NEW b \in Agents, Poll(b)
      PROVE run'[a].todo \subseteq run[a].todo
  BY <1>5, PollFacts DEF Others
<1>6. ASSUME \/ Browser \/ Time \/ UNCHANGED vars
             \/ \E b \in Agents \cup {NoAgent} : AccessChange(b)
             \/ \E b \in Agents : Serve(b)
      PROVE run' = run
  BY <1>6 DEF Browser, Time, Serve, ListJobs, CreateReceived, Cancel, CreateCommit, Expire,
              GoStale, AccessChange, ClaimReceived, ResultReceived, ResultCommit, vars
<1> QED
  BY <1>4, <1>5, <1>6 DEF Next

\* Dispatches that are in flight together never overfill the queue or the
\* table, so a poll never hands out more than the queue holds: for any number
\* of jobs, agents and requests.
THEOREM QueueStaysBounded == Spec => []QueueBounded
<1> DEFINE Inv == QueueBounded /\ TodoBounded
<1>1. Init => Inv
  <2> SUFFICES ASSUME Init PROVE Inv
    OBVIOUS
  <2>1. Waiting(jobs) = {} /\ Rows(jobs) = {}
    BY NoJobFacts DEF Init, Waiting, Rows, Outstanding
  <2>2. \A a \in Agents : run[a].todo = {}
    BY IdleFacts DEF Init
  <2> QED
    BY <2>1, <2>2, FS_EmptySet, JobsAssumption DEF QueueBounded, TodoBounded
<1>2. TypeOK /\ Inv /\ [Next]_vars => Inv'
  <2> SUFFICES ASSUME TypeOK, Inv, [Next]_vars
               PROVE Inv'
    OBVIOUS
  <2>1. Cardinality(Waiting(jobs')) <= QueueLimit /\ Cardinality(Rows(jobs')) <= TotalLimit
    <3>1. CASE \E c \in creating : CreateCommit(c)
      BY <3>1, CommitBounds DEF QueueBounded
    <3>2. CASE \A j \in Jobs : RowMove(j)
      <4>1. Waiting(jobs') \in SUBSET Waiting(jobs) /\ Rows(jobs') \in SUBSET Rows(jobs)
        BY <3>2, MoveStatus DEF Waiting, Rows
      <4>2. /\ Cardinality(Waiting(jobs')) <= Cardinality(Waiting(jobs))
            /\ Cardinality(Rows(jobs')) <= Cardinality(Rows(jobs))
        BY <4>1, TableFinite, FS_Subset
      <4> QED
        BY <4>2, TableFinite, JobsAssumption DEF QueueBounded
    <3> QED
      BY <3>1, <3>2, RowMoves
  <2>2. ASSUME NEW a \in Agents
        PROVE IsFiniteSet(run'[a].todo) /\ Cardinality(run'[a].todo) <= QueueLimit
    <3>1. CASE Poll(a)
      BY <2>1, <3>1, PollBounds, PollFacts
    <3>2. CASE ~Poll(a)
      <4>1. run'[a].todo \in SUBSET run[a].todo
        BY <3>2, TodoShrinks
      <4>2. IsFiniteSet(run'[a].todo) /\ Cardinality(run'[a].todo) <= Cardinality(run[a].todo)
        BY <4>1, FS_Subset DEF TodoBounded
      <4>3. Cardinality(run'[a].todo) \in Nat /\ Cardinality(run[a].todo) \in Nat
        BY <4>2, FS_CardinalityType DEF TodoBounded
      <4> QED
        BY <4>2, <4>3, JobsAssumption DEF TodoBounded
    <3> QED
      BY <3>1, <3>2
  <2> QED
    BY <2>1, <2>2 DEF QueueBounded, TodoBounded
<1>3. Inv => QueueBounded
  OBVIOUS
<1> QED
  BY <1>1, <1>2, <1>3, TypeCorrect, PTL DEF Spec

-----------------------------------------------------------------------------
(* One agent starts a job once *)

\* A job is old for good, and what an agent has on record does not depend on
\* the others.
LEMMA JournalFrame ==
    ASSUME TypeOK, NEW a \in Agents, JournalOf(a),
           run'[a] = run[a], journal'[a] = journal[a], executed'[a] = executed[a],
           \A j \in Jobs : age[j] = "old" => age'[j] = "old"
    PROVE JournalOf(a)'
BY DEF JournalOf

LEMMA JournalTake ==
    ASSUME TypeOK, NEW a \in Agents, JournalOf(a), Take(a)
    PROVE JournalOf(a)'
<1>0. executed' = executed /\ age' = age
  BY DEF Take, server
<1>0a. executed[a] \in [Jobs -> Nat]
  BY DEF TypeOK
<1>1. CASE run'[a].step = "next" /\ journal' = journal
  BY <1>0, <1>1 DEF JournalOf
<1>2. ASSUME NEW t \in run[a].todo, t \in Listed, age[t.job] = "fresh",
             Taken(a, t) \in Process, run'[a] = Taken(a, t),
             journal'[a][t.job] = IF journal[a][t.job] = "none" THEN "interrupted"
                                  ELSE journal[a][t.job],
             \A k \in Jobs \ {t.job} : journal'[a][k] = journal[a][k]
      PROVE JournalOf(a)'
  <2>1. t.job \in Jobs
    BY <1>2 DEF Listed
  <2>2. /\ run'[a].job = t.job /\ run'[a].new = (journal[a][t.job] = "none")
        /\ run'[a].step \in {"next", "claim"}
    BY <1>2 DEF Taken
  <2>3. journal[a][t.job] = "none" => executed[a][t.job] = 0
    BY <1>0a, <1>2, <2>1 DEF JournalOf
  <2>4. "interrupted" \notin Outcomes /\ "none" \notin Outcomes
    BY JobsAssumption
  <2>5. \A j \in Jobs :
          /\ executed'[a][j] <= 1
          /\ executed'[a][j] = 1 => journal'[a][j] # "none" \/ age'[j] = "old"
          /\ journal'[a][j] \in Outcomes => executed'[a][j] = 1
    BY <1>0, <1>2, <2>1, <2>3, <2>4 DEF JournalOf
  <2> QED
    BY <1>0, <1>2, <2>2, <2>3, <2>5 DEF JournalOf
<1> QED
  BY <1>1, <1>2, TakeFacts

LEMMA JournalPoll ==
    ASSUME TypeOK, NEW a \in Agents, JournalOf(a), Poll(a)
    PROVE JournalOf(a)'
<1>0. executed' = executed /\ age' = age
  BY DEF Poll
<1>1. CASE run' = run /\ journal' = journal
  BY <1>0, <1>1 DEF JournalOf
<1>2. CASE /\ run'[a].step = "next"
           /\ \A j \in Jobs : journal'[a][j] = IF age[j] = "old" THEN "none" ELSE journal[a][j]
  BY <1>0, <1>2, JobsAssumption DEF JournalOf
<1> QED
  BY <1>1, <1>2, PollFacts

LEMMA JournalStart ==
    ASSUME TypeOK, NEW a \in Agents, JournalOf(a), StartExecution(a)
    PROVE JournalOf(a)'
<1>1. journal' = journal /\ age' = age /\ run[a].step = "execute"
  BY DEF StartExecution, server
<1>2. run[a].job \in Jobs /\ run[a] \in Process
  BY DEF TypeOK, Process
<1>3. run'[a].step = "executing" /\ run'[a].job = run[a].job
  BY <1>2, StartFacts, AtFacts DEF Steps
<1>4. executed[a][run[a].job] = 0 /\ journal[a][run[a].job] = "interrupted"
  BY <1>1 DEF JournalOf
<1>5. /\ executed'[a][run[a].job] = 1
      /\ \A k \in Jobs \ {run[a].job} : executed'[a][k] = executed[a][k]
  BY <1>4, StartFacts
<1> QED
  BY <1>1, <1>2, <1>3, <1>4, <1>5 DEF JournalOf

LEMMA JournalFinish ==
    ASSUME TypeOK, NEW a \in Agents, JournalOf(a), FinishExecution(a)
    PROVE JournalOf(a)'
<1>1. executed' = executed /\ age' = age /\ run[a].step = "executing"
  BY DEF FinishExecution, server
<1>2. run[a].job \in Jobs /\ run[a] \in Process
  BY DEF TypeOK, Process
<1>3. run'[a].step = "report" /\ run'[a].job = run[a].job
  BY <1>2, FinishFacts, AtFacts DEF Steps
<1>4. executed[a][run[a].job] = 1
  BY <1>1 DEF JournalOf
<1> QED
  BY <1>1, <1>2, <1>3, <1>4, FinishFacts, JobsAssumption DEF JournalOf

\* The answer to a claim sends a new record to execution, an older one to the
\* report of what is recorded.
LEMMA JournalMoves ==
    ASSUME TypeOK, NEW a \in Agents, JournalOf(a), LiveInv,
           Done(a) \/ SendClaim(a) \/ Answered(a) \/ SendResult(a) \/ Abort(a)
    PROVE JournalOf(a)'
<1>1. executed' = executed /\ age' = age /\ journal' = journal
  BY DEF Done, SendClaim, Answered, SendResult, Abort, server
<1>2. run[a] \in Process
  BY DEF TypeOK
<1>3. CASE run'[a].step \in {"idle", "next", "report", "awaitResult"}
  BY <1>1, <1>3 DEF JournalOf
<1>4. CASE Done(a) \/ Abort(a)
  <2>1. run'[a] = Idle
    BY <1>4, AbortFacts DEF Done, TypeOK
  <2> QED
    BY <1>3, <2>1, IdleFacts
<1>5. CASE SendResult(a)
  <2>1. run'[a].step = "awaitResult"
    BY <1>2, <1>5, SendFacts, AtFacts DEF Steps
  <2> QED
    BY <1>3, <2>1
<1>6. CASE SendClaim(a)
  <2>1. /\ run[a].step = "claim" /\ run'[a].step = "awaitClaim"
        /\ run'[a].job = run[a].job /\ run'[a].new = run[a].new
    BY <1>2, <1>6, SendFacts, AtFacts DEF Steps, SendClaim
  <2> QED
    BY <1>1, <2>1 DEF JournalOf
<1>7. CASE Answered(a)
  <2>1. answer[a] \in {"ok", "error"} /\ run[a].step \in {"awaitClaim", "awaitResult"}
    BY <1>7 DEF Answered, TypeOK, LiveInv
  <2>2. CASE answer[a] = "error"
    BY <1>3, <1>7, <2>2, AnsweredFacts, IdleFacts
  <2>3. CASE answer[a] = "ok" /\ run[a].step = "awaitResult"
    <3>1. run'[a].step = "next"
      BY <1>2, <1>7, <2>3, AnsweredFacts, AtFacts DEF Steps
    <3> QED
      BY <1>3, <3>1
  <2>4. CASE answer[a] = "ok" /\ run[a].step = "awaitClaim"
    <3>1. /\ run'[a].step = IF run[a].new THEN "execute" ELSE "report"
          /\ run'[a].job = run[a].job /\ run'[a].new = run[a].new
      BY <1>2, <1>7, <2>4, AnsweredFacts, AtFacts DEF Steps
    <3> QED
      BY <1>1, <2>4, <3>1 DEF JournalOf
  <2> QED
    BY <2>1, <2>2, <2>3, <2>4
<1> QED
  BY <1>4, <1>5, <1>6, <1>7

\* The steps of everyone else leave the process, the journal and the history
\* of an agent alone.
LEMMA AgentFrame ==
    ASSUME TypeOK, [Next]_vars, NEW a \in Agents, ~Poll(a), ~Work(a), ~Abort(a)
    PROVE run'[a] = run[a] /\ journal'[a] = journal[a] /\ executed'[a] = executed[a]
<1> USE DEF server, agents
<1>1. CASE \/ Browser \/ Time \/ UNCHANGED vars
           \/ \E b \in Agents \cup {NoAgent} : AccessChange(b)
           \/ \E b \in Agents : Serve(b)
  BY <1>1 DEF Browser, Time, Serve, ListJobs, CreateReceived, Cancel, CreateCommit, Expire,
              GoStale, AccessChange, ClaimReceived, ResultReceived, ResultCommit, vars
<1>2. ASSUME NEW b \in Agents, b # a, Poll(b)
      PROVE run'[a] = run[a] /\ journal'[a] = journal[a] /\ executed'[a] = executed[a]
  BY <1>2, PollFacts DEF Others, Poll
<1>3. ASSUME NEW b \in Agents, b # a, Take(b)
      PROVE run'[a] = run[a] /\ journal'[a] = journal[a] /\ executed'[a] = executed[a]
  BY <1>3, TakeFacts DEF Others, Take
<1>4. ASSUME NEW b \in Agents, b # a,
             Done(b) \/ SendClaim(b) \/ SendResult(b) \/ Answered(b) \/ Abort(b)
      PROVE run'[a] = run[a] /\ journal'[a] = journal[a] /\ executed'[a] = executed[a]
  BY <1>4, SendFacts, AnsweredFacts, AbortFacts
     DEF Others, Done, SendClaim, SendResult, Answered, Abort, TypeOK
<1>5. ASSUME NEW b \in Agents, b # a, StartExecution(b) \/ FinishExecution(b)
      PROVE run'[a] = run[a] /\ journal'[a] = journal[a] /\ executed'[a] = executed[a]
  BY <1>5, StartFacts, FinishFacts DEF Others, StartExecution, FinishExecution
<1> QED
  BY <1>1, <1>2, <1>3, <1>4, <1>5 DEF Next, Work

LEMMA AgeStep ==
    ASSUME TypeOK, [Next]_vars, NEW j \in Jobs
    PROVE /\ age[j] = "old" => age'[j] = "old"
          /\ age'[j] # age[j] => jobs' = jobs /\ UNCHANGED <<agents, wire, answer>>
<1> USE DEF server, agents
<1>1. ASSUME NEW k \in Jobs, Expire(k)
      PROVE age[j] = "old" => age'[j] = "old"
  BY <1>1 DEF Expire, TypeOK
<1>2. CASE \E k \in Jobs : Expire(k)
  BY <1>1, <1>2 DEF Expire
<1>3. CASE age' = age
  BY <1>3
<1> QED
  BY <1>2, <1>3
     DEF Next, Browser, Time, Serve, ListJobs, CreateReceived, Cancel, CreateCommit, GoStale,
         AccessChange, ClaimReceived, ResultReceived, ResultCommit, Poll, Work, Done, Take,
         SendClaim, Answered, StartExecution, FinishExecution, SendResult, Abort, vars

LEMMA JournalStep ==
    ASSUME TypeOK, JournalInv, LiveInv, [Next]_vars
    PROVE JournalInv'
<1> SUFFICES ASSUME NEW a \in Agents
             PROVE JournalOf(a)'
  BY DEF JournalInv
<1>1. JournalOf(a)
  BY DEF JournalInv
<1>2. CASE Poll(a)
  BY <1>1, <1>2, JournalPoll
<1>3. CASE Work(a) \/ Abort(a)
  BY <1>1, <1>3, JournalTake, JournalStart, JournalFinish, JournalMoves DEF Work
<1>4. CASE ~Poll(a) /\ ~Work(a) /\ ~Abort(a)
  BY <1>1, <1>4, AgentFrame, AgeStep, JournalFrame
<1> QED
  BY <1>2, <1>3, <1>4

-----------------------------------------------------------------------------
(* Requests and answers *)

\* An agent that waits for nothing has no live request and no answer.
LEMMA NotWaiting ==
    ASSUME LiveInv, NEW a \in Agents, run[a].step \notin {"awaitClaim", "awaitResult"}
    PROVE answer[a] = "none" /\ \A q \in wire : q.live => q.a # a
BY DEF LiveInv

\* a takes a step in which it neither sends nor receives.
LEMMA LiveQuiet ==
    ASSUME TypeOK, LiveInv, NEW a \in Agents,
           answer[a] = "none", \A q \in wire : q.live => q.a # a,
           Others(a, run, run'), wire' = wire, answer' = answer
    PROVE LiveInv'
<1>1. \A q \in wire : q.live => q.a \in Agents \ {a}
  BY DEF TypeOK, Request
<1>2. \A q \in wire : q.live => run'[q.a] = run[q.a]
  BY <1>1 DEF Others
<1>3. \A b \in Agents : answer[b] # "none" => run'[b] = run[b]
  BY DEF Others
<1> QED
  BY <1>2, <1>3 DEF LiveInv

LEMMA LiveSend ==
    ASSUME TypeOK, LiveInv, NEW a \in Agents, SendClaim(a) \/ SendResult(a)
    PROVE LiveInv'
<1>1. answer[a] = "none" /\ \A q \in wire : q.live => q.a # a
  BY NotWaiting DEF SendClaim, SendResult
<1>2. run[a] \in Process
  BY DEF TypeOK
<1>3. PICK n : /\ wire' = wire \cup {n} /\ n.a = a /\ n.job = run[a].job
               /\ run'[a].step = IF n.kind = "claim" THEN "awaitClaim" ELSE "awaitResult"
               /\ run'[a].job = run[a].job
  <2>1. CASE SendClaim(a)
    <3>1. ClaimOf(a).a = a /\ ClaimOf(a).job = run[a].job /\ ClaimOf(a).kind = "claim"
      BY DEF ClaimOf
    <3>2. wire' = wire \cup {ClaimOf(a)} /\ run'[a] = At(run[a], "awaitClaim")
      BY <2>1, SendFacts
    <3>3. run'[a].step = "awaitClaim" /\ run'[a].job = run[a].job
      BY <1>2, <3>2, AtFacts DEF Steps
    <3> QED
      BY <3>1, <3>2, <3>3
  <2>2. CASE SendResult(a)
    <3>1. ResultOf(a).a = a /\ ResultOf(a).job = run[a].job /\ ResultOf(a).kind = "result"
      BY DEF ResultOf
    <3>2. wire' = wire \cup {ResultOf(a)} /\ run'[a] = At(run[a], "awaitResult")
      BY <2>2, SendFacts
    <3>3. run'[a].step = "awaitResult" /\ run'[a].job = run[a].job
      BY <1>2, <3>2, AtFacts DEF Steps
    <3> QED
      BY <3>1, <3>2, <3>3
  <2> QED
    BY <2>1, <2>2
<1>4. answer' = answer /\ Others(a, run, run')
  BY SendFacts DEF SendClaim, SendResult
<1>5. \A q \in wire : q.live => q.a \in Agents \ {a} /\ run'[q.a] = run[q.a]
  BY <1>1, <1>4 DEF TypeOK, Request, Others
<1>6. \A b \in Agents : answer[b] # "none" => b # a /\ run'[b] = run[b]
  BY <1>1, <1>4 DEF Others
<1>7. ASSUME NEW q \in wire', q.live
      PROVE /\ run'[q.a].step = IF q.kind = "claim" THEN "awaitClaim" ELSE "awaitResult"
            /\ run'[q.a].job = q.job
            /\ answer'[q.a] = "none"
            /\ \A r \in wire' : r.live /\ r.a = q.a => r = q
  <2>1. CASE q = n
    BY <1>1, <1>3, <1>4, <2>1
  <2>2. CASE q \in wire
    BY <1>1, <1>3, <1>4, <1>5, <1>7, <2>2 DEF LiveInv
  <2> QED
    BY <1>3, <2>1, <2>2
<1>8. ASSUME NEW b \in Agents, answer'[b] # "none"
      PROVE /\ run'[b].step \in {"awaitClaim", "awaitResult"}
            /\ \A q \in wire' : q.live => q.a # b
  BY <1>3, <1>4, <1>6, <1>8 DEF LiveInv
<1> QED
  BY <1>7, <1>8 DEF LiveInv

LEMMA LiveAnswered ==
    ASSUME TypeOK, LiveInv, NEW a \in Agents, Answered(a)
    PROVE LiveInv'
<1>1. \A q \in wire : q.live => q.a \in Agents \ {a}
  BY DEF Answered, LiveInv, TypeOK, Request
<1>2. /\ wire' = wire /\ answer'[a] = "none"
      /\ Others(a, answer, answer') /\ Others(a, run, run')
  BY AnsweredFacts DEF Answered
<1>3. \A q \in wire : q.live => run'[q.a] = run[q.a] /\ answer'[q.a] = answer[q.a]
  BY <1>1, <1>2 DEF Others
<1>4. \A b \in Agents : answer'[b] # "none" => run'[b] = run[b] /\ answer'[b] = answer[b]
  BY <1>2 DEF Others
<1> QED
  BY <1>2, <1>3, <1>4 DEF LiveInv

LEMMA LiveAbort ==
    ASSUME TypeOK, LiveInv, NEW a \in Agents, Abort(a)
    PROVE LiveInv'
<1>1. \A q \in wire' : q.live => q \in wire /\ q.a \in Agents \ {a}
  <2> SUFFICES ASSUME NEW q \in wire', q.live
               PROVE q \in wire /\ q.a \in Agents \ {a}
    OBVIOUS
  <2>1. PICK p \in wire : q = Cut(p, a)
    BY AbortFacts
  <2>2. p \in Request /\ p.a # a /\ q = p
    BY <2>1, CutFacts DEF TypeOK
  <2> QED
    BY <2>2 DEF Request
<1>2. /\ answer'[a] = "none" /\ Others(a, answer, answer') /\ Others(a, run, run')
  BY AbortFacts
<1>3. \A q \in wire' : q.live => run'[q.a] = run[q.a] /\ answer'[q.a] = answer[q.a]
  BY <1>1, <1>2 DEF Others
<1>4. \A b \in Agents : answer'[b] # "none" => run'[b] = run[b] /\ answer'[b] = answer[b]
  BY <1>2 DEF Others
<1>5. ASSUME NEW q \in wire', q.live
      PROVE /\ run'[q.a].step = IF q.kind = "claim" THEN "awaitClaim" ELSE "awaitResult"
            /\ run'[q.a].job = q.job
            /\ answer'[q.a] = "none"
            /\ \A r \in wire' : r.live /\ r.a = q.a => r = q
  BY <1>1, <1>3, <1>5 DEF LiveInv
<1>6. ASSUME NEW b \in Agents, answer'[b] # "none"
      PROVE /\ run'[b].step \in {"awaitClaim", "awaitResult"}
            /\ \A q \in wire' : q.live => q.a # b
  BY <1>1, <1>4, <1>6 DEF LiveInv
<1> QED
  BY <1>5, <1>6 DEF LiveInv

LEMMA LiveReply ==
    ASSUME TypeOK, LiveInv, NEW q \in wire, NEW r \in {"ok", "error"}, Reply(q, r), run' = run
    PROVE LiveInv'
<1>1. q.a \in Agents
  BY DEF TypeOK, Request
<1>2. /\ wire' = wire \ {q} /\ Others(q.a, answer, answer')
      /\ answer'[q.a] = IF q.live THEN r ELSE answer[q.a]
  BY ReplyFacts
<1>3. ASSUME NEW p \in wire', p.live
      PROVE answer'[p.a] = answer[p.a]
  BY <1>2, <1>3 DEF LiveInv, Others, TypeOK, Request
<1>4. ASSUME NEW b \in Agents, answer'[b] # "none"
      PROVE /\ run'[b].step \in {"awaitClaim", "awaitResult"}
            /\ \A p \in wire' : p.live => p.a # b
  <2>1. CASE b # q.a \/ ~q.live
    BY <1>2, <1>4, <2>1 DEF Others, LiveInv
  <2>2. CASE b = q.a /\ q.live
    BY <1>2, <2>2 DEF LiveInv
  <2> QED
    BY <2>1, <2>2
<1> QED
  BY <1>2, <1>3, <1>4 DEF LiveInv

LEMMA LiveVerified ==
    ASSUME TypeOK, LiveInv, NEW q \in wire, run' = run, answer' = answer,
           wire' = (wire \ {q}) \cup {[q EXCEPT !.phase = "verified"]}
    PROVE LiveInv'
<1> DEFINE n == [q EXCEPT !.phase = "verified"]
<1>1. q \in Request
  BY DEF TypeOK
<1>2. n.a = q.a /\ n.kind = q.kind /\ n.job = q.job /\ n.live = q.live
  BY <1>1 DEF Request
<1> HIDE DEF n
<1>3. wire' = (wire \ {q}) \cup {n}
  BY DEF n
<1>4. ASSUME NEW p \in wire', p.live
      PROVE /\ run[p.a].step = IF p.kind = "claim" THEN "awaitClaim" ELSE "awaitResult"
            /\ run[p.a].job = p.job
            /\ answer[p.a] = "none"
            /\ \A r \in wire' : r.live /\ r.a = p.a => r = p
  <2>0. \A s, r \in wire : s.live /\ r.live /\ r.a = s.a => r = s
    BY DEF LiveInv
  <2>1. CASE p = n
    <3>1. ASSUME NEW r \in wire', r.live, r.a = p.a
          PROVE r = p
      BY <1>2, <1>3, <1>4, <2>0, <2>1, <3>1
    <3> QED
      BY <1>2, <1>4, <2>1, <3>1 DEF LiveInv
  <2>2. CASE p \in wire \ {q}
    <3>1. ASSUME NEW r \in wire', r.live, r.a = p.a
          PROVE r = p
      BY <1>2, <1>3, <1>4, <2>0, <2>2, <3>1
    <3> QED
      BY <1>4, <2>2, <3>1 DEF LiveInv
  <2> QED
    BY <1>3, <2>1, <2>2
<1>5. ASSUME NEW b \in Agents, answer[b] # "none"
      PROVE /\ run[b].step \in {"awaitClaim", "awaitResult"}
            /\ \A p \in wire' : p.live => p.a # b
  BY <1>2, <1>3, <1>5 DEF LiveInv
<1> QED
  BY <1>4, <1>5 DEF LiveInv

LEMMA LiveStep ==
    ASSUME TypeOK, LiveInv, JournalInv, [Next]_vars
    PROVE LiveInv'
<1> USE DEF server, agents
<1>1. CASE \/ Browser \/ Time \/ UNCHANGED vars
           \/ \E b \in Agents \cup {NoAgent} : AccessChange(b)
  <2>1. run' = run /\ wire' = wire /\ answer' = answer
    BY <1>1 DEF Browser, Time, ListJobs, CreateReceived, Cancel, CreateCommit, Expire, GoStale,
                AccessChange, vars
  <2> QED
    BY <2>1 DEF LiveInv
<1>2. ASSUME NEW a \in Agents, Serve(a)
      PROVE LiveInv'
  <2>1. PICK q \in wire : ClaimReceived(q) \/ ResultReceived(q) \/ ResultCommit(q)
    BY <1>2 DEF Serve
  <2>2. run' = run
    BY <2>1 DEF ClaimReceived, ResultReceived, ResultCommit
  <2>3. \/ \E r \in {"ok", "error"} : Reply(q, r)
        \/ wire' = (wire \ {q}) \cup {[q EXCEPT !.phase = "verified"]} /\ answer' = answer
    BY <2>1 DEF ClaimReceived, ResultReceived, ResultCommit
  <2> QED
    BY <2>2, <2>3, LiveReply, LiveVerified
<1>3. ASSUME NEW a \in Agents,
             Poll(a) \/ Done(a) \/ Take(a) \/ StartExecution(a) \/ FinishExecution(a)
      PROVE LiveInv'
  <2>1. run[a].step \notin {"awaitClaim", "awaitResult"} /\ wire' = wire /\ answer' = answer
    BY <1>3 DEF Poll, Done, Take, StartExecution, FinishExecution
  <2>2. Others(a, run, run')
    BY <1>3, PollFacts, TakeFacts, StartFacts, FinishFacts DEF Done, Others, TypeOK
  <2> QED
    BY <2>1, <2>2, NotWaiting, LiveQuiet
<1> QED
  BY <1>1, <1>2, <1>3, LiveSend, LiveAnswered, LiveAbort DEF Next, Work

\* An agent starts a job once, however often it crashes, polls again or is
\* handed the job again: the record is on disk before the claim, and a job
\* with an older record is reported, not executed.
THEOREM AgentStartsOnce ==
    Spec => [](\A a \in Agents, j \in Jobs : executed[a][j] <= 1)
<1>1. Init => JournalInv /\ LiveInv
  BY IdleFacts, JobsAssumption DEF Init, JournalInv, JournalOf, LiveInv
<1>2. TypeOK /\ JournalInv /\ LiveInv /\ [Next]_vars => (JournalInv /\ LiveInv)'
  BY JournalStep, LiveStep
<1>3. JournalInv => \A a \in Agents, j \in Jobs : executed[a][j] <= 1
  BY DEF JournalInv, JournalOf
<1> QED
  BY <1>1, <1>2, <1>3, TypeCorrect, PTL DEF Spec

-----------------------------------------------------------------------------
(* Receipts *)

\* Where a request on the wire comes from.
LEMMA WireStep ==
    ASSUME TypeOK, [Next]_vars, NEW q \in wire'
    PROVE \/ \E p \in wire :
               /\ q.a = p.a /\ q.job = p.job /\ q.receipt = p.receipt
               /\ \/ q.phase = p.phase
                  \/ jobs' = Pruned /\ jobs'[p.job].claim = p.a
          \/ /\ q.phase = "sent"
             /\ \E a \in Agents : \/ (SendClaim(a) /\ q = ClaimOf(a))
                                  \/ (SendResult(a) /\ q = ResultOf(a))
<1> USE DEF server, agents
<1>1. CASE q \in wire
  BY <1>1
<1>2. CASE \/ Browser \/ Time \/ UNCHANGED vars
           \/ \E b \in Agents \cup {NoAgent} : AccessChange(b)
  <2>1. wire' = wire
    BY <1>2 DEF Browser, Time, ListJobs, CreateReceived, Cancel, CreateCommit, Expire, GoStale,
                AccessChange, vars
  <2> QED
    BY <1>1, <2>1
<1>3. ASSUME NEW p \in wire, ClaimReceived(p) \/ ResultCommit(p)
      PROVE q \in wire
  BY <1>3 DEF ClaimReceived, ResultCommit, Reply
<1>4. ASSUME NEW p \in wire, ResultReceived(p), q \notin wire
      PROVE /\ q.a = p.a /\ q.job = p.job /\ q.receipt = p.receipt
            /\ jobs' = Pruned /\ jobs'[p.job].claim = p.a
  <2>1. p \in Request
    BY DEF TypeOK
  <2>2. /\ q = [p EXCEPT !.phase = "verified"]
        /\ p.cred = access /\ Pruned[p.job].claim = p.a
    BY <1>4 DEF ResultReceived, Reply
  <2>3. jobs' = Pruned
    BY <1>4, <2>2 DEF ResultReceived
  <2> QED
    BY <2>1, <2>2, <2>3 DEF Request
<1>5. ASSUME NEW a \in Agents,
             Poll(a) \/ Done(a) \/ Take(a) \/ Answered(a) \/ StartExecution(a) \/ FinishExecution(a)
      PROVE q \in wire
  BY <1>5 DEF Poll, Done, Take, Answered, StartExecution, FinishExecution
<1>6. ASSUME NEW a \in Agents, SendClaim(a)
      PROVE q \in wire \/ (q.phase = "sent" /\ q = ClaimOf(a))
  <2>1. ClaimOf(a).phase = "sent"
    BY DEF ClaimOf
  <2>2. wire' = wire \cup {ClaimOf(a)}
    BY <1>6, SendFacts
  <2> QED
    BY <2>1, <2>2
<1>7. ASSUME NEW a \in Agents, SendResult(a)
      PROVE q \in wire \/ (q.phase = "sent" /\ q = ResultOf(a))
  <2>1. ResultOf(a).phase = "sent"
    BY DEF ResultOf
  <2>2. wire' = wire \cup {ResultOf(a)}
    BY <1>7, SendFacts
  <2> QED
    BY <2>1, <2>2
<1>8. ASSUME NEW a \in Agents, Abort(a)
      PROVE \E p \in wire : /\ q.a = p.a /\ q.job = p.job /\ q.receipt = p.receipt
                            /\ q.phase = p.phase
  <2>1. PICK p \in wire : q = Cut(p, a)
    BY <1>8, AbortFacts
  <2>2. p \in Request
    BY DEF TypeOK
  <2> QED
    BY <2>1, <2>2, CutFacts
<1>9. CASE \E a \in Agents : Serve(a)
  BY <1>1, <1>3, <1>4, <1>9 DEF Serve
<1>10. CASE \E a \in Agents : Poll(a) \/ Work(a)
  BY <1>1, <1>5, <1>6, <1>7, <1>10 DEF Work
<1>11. CASE \E a \in Agents : Abort(a)
  BY <1>8, <1>11
<1> QED
  BY <1>2, <1>9, <1>10, <1>11 DEF Next

\* The journal keeps a result, or forgets it after seven days; it never
\* replaces one.
LEMMA ReceiptKept ==
    ASSUME TypeOK, JournalInv, LiveInv, [Next]_vars, NEW a \in Agents, NEW j \in Jobs,
           NEW r \in Outcomes, executed[a][j] = 1, journal[a][j] \in {r, "none"}
    PROVE executed'[a][j] = 1 /\ journal'[a][j] \in {r, "none"}
<1> USE DEF server
<1>0. JournalOf(a) /\ r # "interrupted" /\ r # "none" /\ run[a].job \in Jobs /\ run[a] \in Process
  BY JobsAssumption DEF JournalInv, TypeOK, Process
<1>1. CASE ~Poll(a) /\ ~Work(a) /\ ~Abort(a)
  BY <1>1, AgentFrame
<1>2. CASE Poll(a)
  BY <1>2, PollFacts DEF Poll
<1>3. CASE Take(a)
  <2>1. executed' = executed
    BY <1>3 DEF Take
  <2>2. CASE journal' = journal
    BY <2>1, <2>2
  <2>3. ASSUME NEW t \in run[a].todo, t \in Listed, age[t.job] = "fresh",
               journal'[a][t.job] = IF journal[a][t.job] = "none" THEN "interrupted"
                                    ELSE journal[a][t.job],
               \A k \in Jobs \ {t.job} : journal'[a][k] = journal[a][k]
        PROVE journal'[a][j] \in {r, "none"}
    <3>1. j = t.job => journal[a][j] # "none"
      BY <1>0, <2>3 DEF JournalOf
    <3> QED
      BY <2>3, <3>1
  <2> QED
    BY <1>3, <2>1, <2>2, <2>3, TakeFacts
<1>4. CASE Done(a) \/ SendClaim(a) \/ SendResult(a) \/ Answered(a) \/ Abort(a)
  BY <1>4 DEF Done, SendClaim, SendResult, Answered, Abort
<1>5. CASE StartExecution(a)
  <2>1. executed[a][run[a].job] = 0 /\ journal' = journal
    BY <1>0, <1>5 DEF JournalOf, StartExecution
  <2> QED
    BY <1>5, <2>1, StartFacts
<1>6. CASE FinishExecution(a)
  <2>1. journal[a][run[a].job] = "interrupted" /\ executed' = executed
    BY <1>0, <1>6 DEF JournalOf, FinishExecution
  <2> QED
    BY <1>0, <1>6, <2>1, FinishFacts
<1> QED
  BY <1>1, <1>2, <1>3, <1>4, <1>5, <1>6 DEF Work

LEMMA ReceiptStep ==
    ASSUME TypeOK, JournalInv, LiveInv, ReceiptInv, [Next]_vars
    PROVE ReceiptInv'
<1> SUFFICES ASSUME NEW q \in wire', q.receipt \in Outcomes
             PROVE /\ executed'[q.a][q.job] = 1
                   /\ journal'[q.a][q.job] \in {q.receipt, "none"}
  BY DEF ReceiptInv
<1>1. ASSUME NEW p \in wire, q.a = p.a, q.job = p.job, q.receipt = p.receipt
      PROVE /\ executed'[q.a][q.job] = 1
            /\ journal'[q.a][q.job] \in {q.receipt, "none"}
  <2>1. p.a \in Agents /\ p.job \in Jobs
    BY DEF TypeOK, Request
  <2>2. executed[p.a][p.job] = 1 /\ journal[p.a][p.job] \in {p.receipt, "none"}
    BY <1>1 DEF ReceiptInv
  <2> QED
    BY <1>1, <2>1, <2>2, ReceiptKept
<1>2. ASSUME NEW a \in Agents, SendClaim(a), q = ClaimOf(a)
      PROVE FALSE
  BY <1>2, JobsAssumption DEF ClaimOf
<1>3. ASSUME NEW a \in Agents, SendResult(a), q = ResultOf(a)
      PROVE /\ executed'[q.a][q.job] = 1
            /\ journal'[q.a][q.job] \in {q.receipt, "none"}
  <2>1. q.a = a /\ q.job = run[a].job /\ q.receipt = journal[a][run[a].job]
    BY <1>3 DEF ResultOf
  <2>2. run[a].job \in Jobs /\ JournalOf(a)
    BY DEF TypeOK, Process, JournalInv
  <2>3. executed' = executed /\ journal' = journal
    BY <1>3 DEF SendResult
  <2> QED
    BY <2>1, <2>2, <2>3 DEF JournalOf
<1> QED
  BY <1>1, <1>2, <1>3, WireStep

-----------------------------------------------------------------------------
(* One owner.  From here on the table has room for every job, so that no   *)
(* row is evicted: an id that is dispatched again after its row is gone    *)
(* would be a new job to another agent.                                    *)

Roomy == Cardinality(Jobs) <= TotalLimit

RowChange(j) == RowMove(j) \/ Inserted(j)

LEMMA RowChanges ==
    ASSUME Roomy, TypeOK, [Next]_vars, NEW j \in Jobs
    PROVE RowChange(j)
<1>1. ASSUME NEW c \in creating, CreateCommit(c)
      PROVE RowChange(j)
  <2>1. c.job \in Jobs
    BY DEF TypeOK
  <2>2. CASE jobs[c.job].status = "none"
    <3>1. Rows(jobs) \in SUBSET (Jobs \ {c.job})
      BY <2>2 DEF Rows
    <3>2. /\ IsFiniteSet(Jobs \ {c.job})
          /\ Cardinality(Jobs \ {c.job}) = Cardinality(Jobs) - 1
      BY <2>1, JobsAssumption, FS_RemoveElement
    <3>3. Cardinality(Rows(jobs)) <= Cardinality(Jobs \ {c.job})
      BY <3>1, <3>2, FS_Subset
    <3>4. Cardinality(Jobs) \in Nat
      BY JobsAssumption, FS_CardinalityType
    <3>5. ~(Cardinality(Rows(jobs)) >= TotalLimit)
      BY <3>2, <3>3, <3>4, TableFinite, JobsAssumption DEF Roomy
    <3> QED
      BY <1>1, <3>5, CommitRows DEF Evicted, RowChange, RowMove
  <2>3. CASE jobs' = jobs
    BY <2>3 DEF RowChange, RowMove
  <2> QED
    BY <1>1, <2>2, <2>3 DEF CreateCommit
<1> QED
  BY <1>1, RowMoves DEF RowChange

\* The facts about one row that the invariants below rest on.
LEMMA RowFacts ==
    ASSUME TypeOK, RowInv, NEW j \in Jobs, RowChange(j)
    PROVE /\ jobs'[j].status \in Outstanding \cup {"none"} => jobs'[j].code = "none"
          /\ jobs'[j].status \in {"none", "queued"} => jobs'[j].claim = NoAgent
          /\ jobs[j].status \notin {"none", "queued"} =>
               \/ jobs'[j].claim = jobs[j].claim /\ jobs'[j].status \notin {"none", "queued"}
               \/ age[j] = "old" /\ jobs'[j] = NoJob
          /\ age[j] = "old" /\ jobs[j].status \in {"none", "queued"}
               => jobs'[j].status \in {"none", "queued"}
          /\ jobs'[j].code = "cancelled_by_user" =>
               jobs[j].code = "cancelled_by_user" \/ (age[j] # "old" /\ jobs[j].status = "queued")
          /\ jobs'[j].code \in Outcomes =>
               \/ jobs'[j] = jobs[j]
               \/ \E q \in wire : FinishedBy(j, q)
<1>1. jobs[j] \in Job /\ PruneJob(j) \in Job
  BY PruneType DEF TypeOK
<1>2. /\ jobs[j].status \in Outstanding \cup {"none"} => jobs[j].code = "none"
      /\ jobs[j].status \in {"none", "queued"} => jobs[j].claim = NoAgent
  BY DEF RowInv
<1>3. CASE jobs'[j] = jobs[j]
  BY <1>2, <1>3
<1>4. CASE age[j] = "old" /\ jobs'[j] = NoJob
  BY <1>4, NoJobFacts, JobsAssumption
<1>5. ASSUME jobs[j].status \in Outstanding, NEW s \in Over,
             NEW c \in {"access_changed", "not_received", "receipt_missing"},
             jobs'[j] = Conclude(jobs[j], s, c), age[j] # "old"
      PROVE /\ jobs'[j].claim = jobs[j].claim /\ jobs'[j].status \in Over
            /\ jobs'[j].code \notin Outcomes \cup {"cancelled_by_user"}
  <2>1. s \in Statuses /\ c \in Codes
    BY DEF Over, Statuses, Codes
  <2> QED
    BY <1>1, <1>5, <2>1, ConcludeFacts, JobsAssumption
<1>6. CASE jobs'[j] = PruneJob(j)
  BY <1>3, <1>4, <1>5, <1>6, PruneCases DEF Over, Outstanding
<1>7. CASE CancelledByUser(j)
  <2>1. age[j] # "old" /\ jobs[j].status = "queued" /\ PruneJob(j) = jobs[j]
    BY <1>7, PruneOutstanding DEF CancelledByUser, Outstanding
  <2>2. jobs'[j].status = "cancelled" /\ jobs'[j].code = "cancelled_by_user"
    BY <1>1, <1>7, ConcludeFacts DEF CancelledByUser, Statuses, Codes
  <2> QED
    BY <2>1, <2>2, JobsAssumption DEF Outstanding
<1>8. ASSUME NEW q \in wire, ClaimedBy(j, q)
      PROVE /\ age[j] # "old" /\ jobs[j].status = "queued"
            /\ jobs'[j].status = "running" /\ jobs'[j].code = "none"
  <2>1. age[j] # "old" /\ jobs[j].status = "queued" /\ PruneJob(j) = jobs[j]
    BY <1>8, PruneOutstanding DEF ClaimedBy, Outstanding
  <2>2. q.a \in Agents
    BY DEF TypeOK, Request
  <2> QED
    BY <1>1, <1>2, <1>8, <2>1, <2>2, ClaimedFacts DEF ClaimedBy, Outstanding
<1>9. ASSUME NEW q \in wire, FinishedBy(j, q)
      PROVE /\ jobs[j].status = "running" /\ jobs'[j].status = "finished"
            /\ jobs'[j].claim = jobs[j].claim /\ jobs'[j].code # "cancelled_by_user"
  <2>1. q.receipt \in Receipts \cup {"none"}
    BY DEF TypeOK, Request
  <2>2. q.receipt # "cancelled_by_user" /\ q.receipt \in Codes /\ "finished" \in Statuses
    BY <2>1, JobsAssumption DEF Receipts, Codes, Statuses
  <2> QED
    BY <1>1, <1>9, <2>2, ConcludeFacts DEF FinishedBy
<1>10. CASE \E q \in wire : ClaimedBy(j, q)
  BY <1>8, <1>10, JobsAssumption
<1>11. CASE \E q \in wire : FinishedBy(j, q)
  BY <1>9, <1>11 DEF Outstanding
<1>12. CASE Inserted(j)
  BY <1>12, InsertFacts, JobsAssumption DEF Inserted
<1> QED
  BY <1>3, <1>6, <1>7, <1>10, <1>11, <1>12 DEF RowChange, RowMove

\* The server gives agent a leave to start j.
Granted(a, j) ==
    /\ \E q \in wire : ClaimReceived(q)
    /\ jobs'[j].claim = a /\ jobs'[j].status = "running"
    /\ jobs[j].status \in Outstanding /\ jobs'[j].code = jobs[j].code
    /\ age[j] # "old" /\ age'[j] = age[j]

LEMMA GrantedClaim ==
    ASSUME TypeOK, NEW q \in wire, ClaimReceived(q), Reply(q, "ok"), ~Reply(q, "error")
    PROVE Granted(q.a, q.job)
<1> DEFINE j == q.job
           r == Pruned[j]
<1>1. q.a \in Agents /\ j \in Jobs
  BY DEF TypeOK, Request
<1>2. r \in Job /\ r = PruneJob(j)
  BY <1>1, PruneType
<1>3. /\ age' = age
      /\ \/ r.status = "running" /\ r.claim = q.a /\ jobs' = Pruned
         \/ r.status = "queued" /\ jobs' = [Pruned EXCEPT ![j] = Claimed(r, q.a)]
  BY DEF ClaimReceived, Claimed
<1>4. r = jobs[j] /\ age[j] # "old" /\ jobs[j].status \in Outstanding
  BY <1>1, <1>2, <1>3, PruneOutstanding DEF Outstanding
<1>5. CASE r.status = "running" /\ r.claim = q.a /\ jobs' = Pruned
  BY <1>3, <1>4, <1>5 DEF Granted
<1>6. CASE r.status = "queued" /\ jobs' = [Pruned EXCEPT ![j] = Claimed(r, q.a)]
  <2>1. jobs'[j] = Claimed(r, q.a)
    BY <1>1, <1>6, PruneType
  <2> HIDE DEF r
  <2> QED
    BY <1>1, <1>2, <1>3, <1>4, <2>1, ClaimedFacts DEF Granted
<1> QED
  BY <1>3, <1>5, <1>6

\* Only the answer to a claim makes an owner.
LEMMA OwnerOrigin ==
    ASSUME TypeOK, JournalInv, LiveInv, [Next]_vars, NEW a \in Agents, NEW j \in Jobs, Owner(a, j)'
    PROVE Owner(a, j) \/ Granted(a, j)
<1> USE DEF server, agents
<1>0. run[a] \in Process /\ run[a].job \in Jobs /\ JournalOf(a) /\ answer[a] \in {"none", "ok", "error"}
  BY DEF TypeOK, Process, JournalInv
<1>1. CASE Poll(a)
  <2>1. executed' = executed /\ answer' = answer
    BY <1>1 DEF Poll
  <2>2. run' = run \/ run'[a].step = "next"
    BY <1>1, PollFacts
  <2> QED
    BY <2>1, <2>2 DEF Owner
<1>2. CASE Take(a)
  <2>1. executed' = executed
    BY <1>2 DEF Take
  <2>2. run'[a].step \in {"next", "claim"}
    <3>1. run'[a].step = "next" \/ \E t \in run[a].todo : run'[a] = Taken(a, t)
      BY <1>2, TakeFacts
    <3>2. \A t : Taken(a, t).step \in {"next", "claim"}
      BY DEF Taken
    <3> QED
      BY <3>1, <3>2
  <2> QED
    BY <2>1, <2>2 DEF Owner
<1>3. CASE Done(a) \/ Abort(a)
  <2>1. executed' = executed /\ run'[a] = Idle
    BY <1>3, AbortFacts DEF Done, Abort, TypeOK
  <2> QED
    BY <2>1, IdleFacts DEF Owner
<1>4. CASE SendClaim(a)
  <2>1. executed' = executed /\ answer'[a] = "none"
    BY <1>4, NotWaiting DEF SendClaim
  <2>2. run'[a].step = "awaitClaim"
    BY <1>0, <1>4, SendFacts, AtFacts DEF Steps
  <2> QED
    BY <2>1, <2>2 DEF Owner
<1>5. CASE SendResult(a)
  <2>1. executed' = executed /\ run'[a].step = "awaitResult"
    BY <1>0, <1>5, SendFacts, AtFacts DEF Steps, SendResult
  <2> QED
    BY <2>1 DEF Owner
<1>6. CASE FinishExecution(a)
  <2>1. executed' = executed /\ run'[a].step = "report"
    <3>1. executed' = executed
      BY <1>6 DEF FinishExecution
    <3>2. run'[a].step = "report"
      BY <1>0, <1>6, FinishFacts, AtFacts DEF Steps
    <3> QED
      BY <3>1, <3>2
  <2> QED
    BY <2>1 DEF Owner
<1>7. CASE StartExecution(a)
  <2>1. run[a].step = "execute" /\ run[a].new
    BY <1>0, <1>7 DEF StartExecution, JournalOf
  <2>2. run'[a].step = "executing"
    BY <1>0, <1>7, StartFacts, AtFacts DEF Steps
  <2>3. j # run[a].job => executed'[a][j] = executed[a][j]
    BY <1>7, StartFacts
  <2> QED
    BY <2>1, <2>2, <2>3 DEF Owner
<1>8. CASE Answered(a)
  <2>1. executed' = executed /\ answer'[a] = "none" /\ answer[a] # "none"
    BY <1>8, AnsweredFacts DEF Answered
  <2>2. CASE answer[a] = "error"
    BY <1>8, <2>1, <2>2, AnsweredFacts, IdleFacts DEF Owner
  <2>3. CASE answer[a] = "ok" /\ run[a].step = "awaitResult"
    <3>1. run'[a].step = "next"
      BY <1>0, <1>8, <2>3, AnsweredFacts, AtFacts DEF Steps
    <3> QED
      BY <2>1, <3>1 DEF Owner
  <2>4. CASE answer[a] = "ok" /\ run[a].step = "awaitClaim"
    <3>1. /\ run'[a].job = run[a].job /\ run'[a].new = run[a].new
      BY <1>0, <1>8, <2>4, AnsweredFacts, AtFacts DEF Steps
    <3> QED
      BY <2>1, <2>4, <3>1 DEF Owner
  <2> QED
    BY <1>0, <2>1, <2>2, <2>3, <2>4 DEF LiveInv
<1>9. CASE ~Poll(a) /\ ~Work(a) /\ ~Abort(a)
  <2>1. run'[a] = run[a] /\ executed'[a] = executed[a]
    BY <1>9, AgentFrame
  <2>2. ASSUME answer'[a] = answer[a]
        PROVE Owner(a, j)
    BY <2>1, <2>2 DEF Owner
  <2>3. ASSUME NEW q \in wire, ClaimReceived(q), answer'[a] # answer[a]
        PROVE Owner(a, j) \/ Granted(a, j)
    <3>1. PICK r \in {"ok", "error"} : Reply(q, r)
      BY <2>3 DEF ClaimReceived
    <3>2. a = q.a /\ q.live /\ answer'[a] = r
      BY <2>3, <3>1, ReplyFacts DEF Others
    <3>3. run[a].job = q.job
      BY <3>2 DEF LiveInv
    <3>4. CASE r = "error"
      BY <2>1, <3>2, <3>4 DEF Owner, LiveInv
    <3>5. CASE r = "ok"
      <4>1. ~Reply(q, "error")
        BY <3>2, <3>5, ReplyFacts
      <4>2. Granted(a, q.job)
        BY <2>3, <3>1, <3>2, <3>5, <4>1, GrantedClaim
      <4> QED
        BY <2>1, <3>3, <4>2 DEF Owner
    <3> QED
      BY <3>1, <3>4, <3>5
  <2>4. ASSUME NEW q \in wire, q.kind = "result", NEW r \in {"ok", "error"}, Reply(q, r)
        PROVE Owner(a, j)
    <3>1. CASE a = q.a /\ q.live
      <4>1. run[a].step = "awaitResult"
        BY <2>4, <3>1 DEF LiveInv
      <4> QED
        BY <2>1, <4>1 DEF Owner
    <3>2. CASE a # q.a \/ ~q.live
      BY <2>2, <2>4, <3>2, ReplyFacts DEF Others
    <3> QED
      BY <3>1, <3>2
  <2>5. ASSUME NEW q \in wire, ResultReceived(q) \/ ResultCommit(q)
        PROVE Owner(a, j)
    <3>1. q.kind = "result" /\ (answer' = answer \/ \E r \in {"ok", "error"} : Reply(q, r))
      BY <2>5 DEF ResultReceived, ResultCommit
    <3> QED
      BY <2>2, <2>4, <3>1
  <2>6. ASSUME NEW b \in Agents, Poll(b) \/ Work(b) \/ Abort(b)
        PROVE answer'[a] = answer[a]
    <3>1. b # a
      BY <1>9, <2>6
    <3> QED
      BY <2>6, <3>1, AnsweredFacts, AbortFacts
         DEF Others, Poll, Work, Done, Take, SendClaim, StartExecution, FinishExecution, SendResult
  <2>7. CASE \/ Browser \/ Time \/ UNCHANGED vars
             \/ \E b \in Agents \cup {NoAgent} : AccessChange(b)
    <3>1. answer' = answer
      BY <2>7 DEF Browser, Time, ListJobs, CreateReceived, Cancel, CreateCommit, Expire, GoStale,
                  AccessChange, vars
    <3> QED
      BY <2>2, <3>1
  <2> QED
    BY <2>2, <2>3, <2>5, <2>6, <2>7 DEF Next, Serve
<1> QED
  BY <1>1, <1>2, <1>3, <1>4, <1>5, <1>6, <1>7, <1>8, <1>9 DEF Work

LEMMA OwnerStep ==
    ASSUME Roomy, TypeOK, JournalInv, LiveInv, RowInv, OwnerInv, [Next]_vars
    PROVE OwnerInv'
<1>1. ASSUME NEW a \in Agents, NEW j \in Jobs, Owner(a, j)'
      PROVE /\ age'[j] # "old" => /\ jobs'[j].claim = a
                                  /\ jobs'[j].status \notin {"none", "queued"}
            /\ jobs'[j].code # "cancelled_by_user"
            /\ age'[j] = "old" => Owner(a, j)
  <2>0. RowChange(j)
    BY RowChanges
  <2>1. CASE Owner(a, j)
    <3>1. /\ age[j] # "old" => jobs[j].claim = a /\ jobs[j].status \notin {"none", "queued"}
          /\ jobs[j].code # "cancelled_by_user"
      BY <2>1 DEF OwnerInv
    <3>2. age'[j] # "old" => age[j] # "old"
      BY AgeStep
    <3>3. jobs[j].status \notin {"none", "queued"} =>
               \/ jobs'[j].claim = jobs[j].claim /\ jobs'[j].status \notin {"none", "queued"}
               \/ age[j] = "old" /\ jobs'[j] = NoJob
      BY <2>0, RowFacts
    <3>4. jobs'[j].code = "cancelled_by_user" =>
               jobs[j].code = "cancelled_by_user" \/ (age[j] # "old" /\ jobs[j].status = "queued")
      BY <2>0, RowFacts
    <3> QED
      BY <2>1, <3>1, <3>2, <3>3, <3>4
  <2>2. CASE Granted(a, j)
    BY <2>2 DEF Granted, RowInv
  <2> QED
    BY <1>1, <2>1, <2>2, OwnerOrigin
<1>2. ASSUME NEW a \in Agents, NEW b \in Agents, NEW j \in Jobs, Owner(a, j)', Owner(b, j)'
      PROVE a = b
  BY <1>1, <1>2 DEF OwnerInv
<1> QED
  BY <1>1, <1>2 DEF OwnerInv

LEMMA VerifiedStep ==
    ASSUME Roomy, TypeOK, RowInv, VerifiedInv, [Next]_vars
    PROVE VerifiedInv'
<1> SUFFICES ASSUME NEW q \in wire', q.phase = "verified"
             PROVE \/ jobs'[q.job].claim = q.a
                   \/ age'[q.job] = "old" /\ jobs'[q.job].status \in {"none", "queued"}
  BY DEF VerifiedInv
<1>1. PICK p \in wire : /\ q.a = p.a /\ q.job = p.job
                        /\ p.phase = "verified" \/ jobs'[p.job].claim = p.a
  BY WireStep
<1>2. p.a \in Agents /\ p.job \in Jobs /\ NoAgent \notin Agents
  BY JobsAssumption DEF TypeOK, Request
<1>3. CASE p.phase = "verified"
  <2>1. \/ jobs[p.job].claim = p.a
        \/ age[p.job] = "old" /\ jobs[p.job].status \in {"none", "queued"}
    BY <1>3 DEF VerifiedInv
  <2>2. RowChange(p.job)
    BY <1>2, RowChanges
  <2>3. age[p.job] = "old" => age'[p.job] = "old"
    BY <1>2, AgeStep
  <2>4. CASE jobs[p.job].claim = p.a
    <3>1. jobs[p.job].status \notin {"none", "queued"}
      BY <1>2, <2>4 DEF RowInv
    <3>2. \/ jobs'[p.job].claim = jobs[p.job].claim
          \/ age[p.job] = "old" /\ jobs'[p.job] = NoJob
      BY <1>2, <2>2, <3>1, RowFacts
    <3> QED
      BY <1>1, <2>3, <2>4, <3>2, NoJobFacts
  <2>5. CASE age[p.job] = "old" /\ jobs[p.job].status \in {"none", "queued"}
    <3>1. jobs'[p.job].status \in {"none", "queued"}
      BY <1>2, <2>2, <2>5, RowFacts
    <3> QED
      BY <1>1, <2>3, <2>5, <3>1
  <2> QED
    BY <2>1, <2>4, <2>5
<1> QED
  BY <1>1, <1>3

LEMMA TruthfulStep ==
    ASSUME Roomy, TypeOK, JournalInv, LiveInv, ReceiptInv, RowInv, VerifiedInv, ReceiptTruthful,
           [Next]_vars
    PROVE ReceiptTruthful'
<1> SUFFICES ASSUME NEW j \in Jobs, jobs'[j].code \in Outcomes
             PROVE /\ jobs'[j].status = "finished"
                   /\ jobs'[j].claim \in Agents
                   /\ executed'[jobs'[j].claim][j] = 1
                   /\ journal'[jobs'[j].claim][j] \in {jobs'[j].code, "none"}
  BY DEF ReceiptTruthful
<1>1. jobs'[j] = jobs[j] \/ \E q \in wire : FinishedBy(j, q)
  BY RowChanges, RowFacts
<1>2. CASE jobs'[j] = jobs[j]
  <2>1. /\ jobs[j].status = "finished" /\ jobs[j].claim \in Agents
        /\ executed[jobs[j].claim][j] = 1
        /\ journal[jobs[j].claim][j] \in {jobs[j].code, "none"}
    BY <1>2 DEF ReceiptTruthful
  <2> QED
    BY <1>2, <2>1, ReceiptKept
<1>3. ASSUME NEW q \in wire, FinishedBy(j, q)
      PROVE /\ jobs'[j].status = "finished"
            /\ jobs'[j].claim \in Agents
            /\ executed'[jobs'[j].claim][j] = 1
            /\ journal'[jobs'[j].claim][j] \in {jobs'[j].code, "none"}
  <2>1. /\ q.job = j /\ q.phase = "verified" /\ jobs[j].status = "running"
        /\ jobs'[j] = Conclude(jobs[j], "finished", q.receipt)
    BY <1>3 DEF FinishedBy
  <2>2. q.a \in Agents /\ q.receipt \in Codes /\ "finished" \in Statuses /\ jobs[j] \in Job
    BY DEF TypeOK, Request, Codes, Statuses
  <2>3. /\ jobs'[j].status = "finished" /\ jobs'[j].code = q.receipt
        /\ jobs'[j].claim = jobs[j].claim
    BY <2>1, <2>2, ConcludeFacts
  <2>4. jobs[j].claim = q.a
    BY <2>1 DEF VerifiedInv
  <2>5. executed[q.a][j] = 1 /\ journal[q.a][j] \in {q.receipt, "none"}
    BY <2>1, <2>3 DEF ReceiptInv
  <2>6. executed'[q.a][j] = 1 /\ journal'[q.a][j] \in {q.receipt, "none"}
    BY <2>2, <2>3, <2>5, ReceiptKept
  <2> QED
    BY <2>2, <2>3, <2>4, <2>6
<1> QED
  BY <1>1, <1>2, <1>3

LEMMA OnceInit == Init => OnceInv
BY NoJobFacts, IdleFacts, JobsAssumption, TypeCorrectInit
   DEF Init, OnceInv, JournalInv, JournalOf, LiveInv, ReceiptInv, RowInv, OwnerInv, Owner,
       VerifiedInv, ReceiptTruthful

LEMMA OnceStep ==
    ASSUME Roomy, OnceInv, [Next]_vars
    PROVE OnceInv'
<1>1. RowInv'
  BY RowChanges, RowFacts DEF OnceInv, RowInv
<1> QED
  BY <1>1, TypeStep, JournalStep, LiveStep, ReceiptStep, OwnerStep, VerifiedStep, TruthfulStep
     DEF OnceInv

LEMMA OnceInvariant ==
    ASSUME Roomy
    PROVE Spec => []OnceInv
<1>1. OnceInv /\ [Next]_vars => OnceInv'
  BY OnceStep
<1> QED
  BY <1>1, OnceInit, PTL DEF Spec

\* "A crash never silently reruns an installation": while the table has room
\* for every job, a job is started at most once and by at most one agent, with
\* any number of copied installations, crashes, lost answers and late claims.
THEOREM JobStartsOnce ==
    ASSUME Roomy
    PROVE Spec => []ExecutedOnce
<1>1. OnceInv => ExecutedOnce
  BY DEF OnceInv, JournalInv, JournalOf, OwnerInv, Owner, ExecutedOnce
<1> QED
  BY <1>1, OnceInvariant, PTL

\* A job that the user cancelled has not been started and is not about to be:
\* cancelling and claiming race for the same row.
THEOREM CancelledStaysUnstarted ==
    ASSUME Roomy
    PROVE Spec => []CancelledNeverRuns
<1>1. OnceInv => CancelledNeverRuns
  <2> SUFFICES ASSUME OnceInv, NEW j \in Jobs, jobs[j].code = "cancelled_by_user",
                      NEW a \in Agents
               PROVE executed[a][j] = 0 /\ ~(run[a].step = "execute" /\ run[a].job = j)
    BY DEF CancelledNeverRuns
  <2>1. ~Owner(a, j) /\ JournalOf(a) /\ executed[a][j] \in Nat
    BY DEF OnceInv, OwnerInv, JournalInv, TypeOK
  <2> QED
    BY <2>1 DEF Owner, JournalOf
<1> QED
  BY <1>1, OnceInvariant, PTL

\* A result in the console is the one that the claiming agent got by executing
\* the job and has in its journal, even when the row is read again after the
\* check of the receipt.
THEOREM ReceiptsAreTruthful ==
    ASSUME Roomy
    PROVE Spec => []ReceiptTruthful
<1>1. OnceInv => ReceiptTruthful
  BY DEF OnceInv
<1> QED
  BY <1>1, OnceInvariant, PTL
=============================================================================
