----------------------------- MODULE ExecEngine -----------------------------
(***************************************************************************)
(* The execution plane: routers/executions.py and exec_service.py create a *)
(* TestRun row and publish one job message per flow to the durable queue   *)
(* exec.jobs; the worker process (worker/consumer.py, worker/job.py) takes *)
(* the messages one at a time, runs the flow's spec up to MAX_ATTEMPTS     *)
(* times, commits one TestResult, publishes a progress frame and acks.     *)
(* A kill sets a Redis flag the worker polls and then purges the queue.    *)
(*                                                                         *)
(* The broker is modelled by the place of each message: "ready" in the     *)
(* queue, "unacked" when delivered to the worker, "acked", or "purged".    *)
(* Ready and buffered messages are taken in any order: a requeue puts a    *)
(* message back out of order, and nothing here depends on the order.       *)
(***************************************************************************)
EXTENDS Naturals, Sequences, FiniteSets

CONSTANTS
    Runs,         \* run ids
    Jobs,         \* job messages {run_id, flow_id}; one per (run, flow)
    RunOf,        \* the run_id of each job
    MAX_ATTEMPTS, \* original attempt + retries
    Prefetch,     \* exec_prefetch_count: most unacked messages at the worker
    MaxFailures,  \* bound: worker crashes plus raising jobs
    Journals,     \* sets of outcomes a heal journal may hold after a job
    NoJob

ASSUME ExecAssumption ==
    /\ RunOf \in [Jobs -> Runs]
    /\ MAX_ATTEMPTS \in Nat \ {0}
    /\ Prefetch \in Nat \ {0}
    /\ MaxFailures \in Nat
    /\ NoJob \notin Jobs

HealOutcomes == {"auto_heal", "quarantine", "fail_as_defect"}

ASSUME JournalsAssumption == Journals \subseteq SUBSET HealOutcomes

VARIABLES
    testRun,    \* TestRun.status by run ("absent": no row)
    unsent,     \* jobs enqueue_jobs has still to publish
    msg,        \* where each job message is
    killFlag,   \* runs whose Redis key run:{id}:kill is set (never deleted)
    purging,    \* kill requests between the flag and the purge
    up,         \* the worker process is running
    cur, pc,    \* the worker's current job and its place in run_flow_job
    exitCodes,  \* exit codes of the current job's attempts (0 = passed)
    results,    \* TestResult rows of each job, in commit order
    deliveries, \* history: deliveries of each message to the worker
    late,       \* history: attempts of a run that ended after its kill flag
    failures    \* bound counter

apiVars == <<testRun, unsent, killFlag, purging>>
workerVars == <<up, cur, pc, exitCodes>>
historyVars == <<deliveries, late, failures>>
vars == <<testRun, unsent, msg, killFlag, purging, up, cur, pc, exitCodes,
          results, deliveries, late, failures>>

Statuses == {"absent", "queued", "running", "passed", "failed", "killed"}
Places == {"none", "ready", "unacked", "acked", "purged"}
Phases == {"idle", "taken", "attempt", "between", "record", "abort",
           "publish", "ack"}
Verdicts == {"passed", "flaky", "product_failure", "auto_healed",
             "quarantined", "aborted"}
Codes == {0, 1}

\* A TestResult together with the outcomes of the HealAudit rows that ride
\* the same commit. attempts is Len(exit_codes).
Rows == [verdict: Verdicts, exit_codes: Seq(Codes), heals: SUBSET HealOutcomes]

JobsOf(r) == {j \in Jobs : RunOf[j] = r}
Unacked == {j \in Jobs : msg[j] = "unacked"}

-----------------------------------------------------------------------------
(* The pure classifier (worker/classifier.py). *)

\* Mutant: the verdict word of an older schema.
classify_retry_word(codes) ==
    IF \E i \in 1..Len(codes) : codes[i] = 0 THEN "passed" ELSE "failed"

\* Mutant: a retried pass is not told from a clean one.
classify_retry_no_flaky(codes) ==
    IF \E i \in 1..Len(codes) : codes[i] = 0 THEN "passed" ELSE "product_failure"

classify_retry(codes) ==
    IF \E i \in 1..Len(codes) : codes[i] = 0
    THEN IF Len(codes) > 1 THEN "flaky" ELSE "passed"
    ELSE "product_failure"

reconcile_verdict(exitVerdict, outcomes) ==
    CASE "auto_heal" \in outcomes -> "auto_healed"
      [] "auto_heal" \notin outcomes /\ "quarantine" \in outcomes -> "quarantined"
      [] outcomes = {"fail_as_defect"} -> "product_failure"
      [] OTHER -> exitVerdict

-----------------------------------------------------------------------------
Init ==
    /\ testRun = [r \in Runs |-> "absent"]
    /\ unsent = {}
    /\ msg = [j \in Jobs |-> "none"]
    /\ killFlag = {}
    /\ purging = {}
    /\ up = TRUE
    /\ cur = NoJob
    /\ pc = "idle"
    /\ exitCodes = <<>>
    /\ results = [j \in Jobs |-> <<>>]
    /\ deliveries = [j \in Jobs |-> 0]
    /\ late = [r \in Runs |-> 0]
    /\ failures = 0

-----------------------------------------------------------------------------
(* API side *)

\* POST /api/executions for a valid tier: the flows S are resolved, the row is
\* committed, and the publishing loop begins. S may be empty. The run id is a
\* fresh uuid: nobody has used it in a kill request.
start_execution(r, S) ==
    /\ testRun[r] = "absent"
    /\ r \notin killFlag
    /\ testRun' = [testRun EXCEPT ![r] = "queued"]
    /\ unsent' = unsent \cup S
    /\ UNCHANGED <<msg, killFlag, purging, results>>
    /\ UNCHANGED <<workerVars, historyVars>>

\* One iteration of the publishing loop, with the broker's confirm.
enqueue_job(j) ==
    /\ j \in unsent
    /\ unsent' = unsent \ {j}
    /\ msg' = [msg EXCEPT ![j] = "ready"]
    /\ UNCHANGED <<testRun, killFlag, purging, results>>
    /\ UNCHANGED <<workerVars, historyVars>>

\* The broker is unset or unreachable, or the api dies, part way through the
\* loop: the row and the messages already published stay.
enqueue_fails(r) ==
    /\ unsent \cap JobsOf(r) # {}
    /\ unsent' = unsent \ JobsOf(r)
    /\ UNCHANGED <<testRun, msg, killFlag, purging, results>>
    /\ UNCHANGED <<workerVars, historyVars>>

\* kill_run, step 1: set the flag. The route does not ask whether the run
\* exists.
kill_set_flag(r) ==
    /\ killFlag' = killFlag \cup {r}
    /\ purging' = purging \cup {r}
    /\ UNCHANGED <<testRun, unsent, msg, results>>
    /\ UNCHANGED <<workerVars, historyVars>>

\* kill_run, step 2: purge the whole queue, whoever's jobs it holds. Unacked
\* messages are not in the queue and survive.
kill_purge(r) ==
    /\ r \in purging
    /\ purging' = purging \ {r}
    /\ msg' = [j \in Jobs |-> IF msg[j] = "ready" THEN "purged" ELSE msg[j]]
    /\ UNCHANGED <<testRun, unsent, killFlag, results>>
    /\ UNCHANGED <<workerVars, historyVars>>

\* No broker configured, or the purge raises: the flag alone is set.
kill_no_purge(r) ==
    /\ r \in purging
    /\ purging' = purging \ {r}
    /\ UNCHANGED <<testRun, unsent, msg, killFlag, results>>
    /\ UNCHANGED <<workerVars, historyVars>>

-----------------------------------------------------------------------------
(* Worker side: the consumer loop and run_flow_job *)

\* The broker delivers a message while fewer than Prefetch are unacked.
deliver(j) ==
    /\ up
    /\ msg[j] = "ready"
    /\ Cardinality(Unacked) < Prefetch
    /\ msg' = [msg EXCEPT ![j] = "unacked"]
    /\ deliveries' = [deliveries EXCEPT ![j] = @ + 1]
    /\ UNCHANGED <<apiVars, workerVars, results, late, failures>>

\* The loop takes the next buffered message; jobs run one at a time.
take_job(j) ==
    /\ up
    /\ pc = "idle"
    /\ msg[j] = "unacked"
    /\ cur' = j
    /\ pc' = "taken"
    /\ exitCodes' = <<>>
    /\ UNCHANGED <<apiVars, msg, up, results, historyVars>>

\* _is_killed before the first attempt.
check_kill ==
    /\ up
    /\ pc = "taken"
    /\ pc' = IF RunOf[cur] \in killFlag THEN "abort" ELSE "attempt"
    /\ UNCHANGED <<apiVars, msg, up, cur, exitCodes, results, historyVars>>

\* One subprocess run of the spec, which ends with code c (None counts as 1).
run_attempt(c) ==
    /\ up
    /\ pc = "attempt"
    /\ exitCodes' = Append(exitCodes, c)
    /\ pc' = IF c = 0 \/ Len(exitCodes) + 1 = MAX_ATTEMPTS
             THEN "record" ELSE "between"
    /\ late' = IF RunOf[cur] \in killFlag
               THEN [late EXCEPT ![RunOf[cur]] = @ + 1] ELSE late
    /\ UNCHANGED <<apiVars, msg, up, cur, results, deliveries,
                   failures>>

\* Mutant: the flag is not polled between attempts.
check_kill_between_blind ==
    /\ up
    /\ pc = "between"
    /\ pc' = "attempt"
    /\ UNCHANGED <<apiVars, msg, up, cur, exitCodes, results, historyVars>>

\* _is_killed before a retry: a kill ends the loop and what ran is classified.
check_kill_between ==
    /\ up
    /\ pc = "between"
    /\ pc' = IF RunOf[cur] \in killFlag THEN "record" ELSE "attempt"
    /\ UNCHANGED <<apiVars, msg, up, cur, exitCodes, results, historyVars>>

\* Mutant: the session is closed without a commit.
record_result_uncommitted(heals) ==
    /\ up
    /\ pc = "record"
    /\ pc' = "publish"
    /\ UNCHANGED <<apiVars, msg, up, cur, exitCodes, results, historyVars>>

\* Mutant: the row is added before the retry loop's end and again after it.
record_result_twice(heals) ==
    /\ up
    /\ pc = "record"
    /\ LET verdict == reconcile_verdict(classify_retry(exitCodes), heals)
           row == [verdict |-> verdict, exit_codes |-> exitCodes, heals |-> heals]
       IN  results' = [results EXCEPT ![cur] = @ \o <<row, row>>]
    /\ pc' = "publish"
    /\ UNCHANGED <<apiVars, msg, up, cur, exitCodes, historyVars>>

\* Ingest the heal journal, reconcile the verdict, commit the TestResult and
\* the HealAudit rows in one transaction. What the journal file holds is the
\* spec's doing: any member of Journals.
record_result(heals) ==
    /\ up
    /\ pc = "record"
    /\ LET verdict == reconcile_verdict(classify_retry(exitCodes), heals)
           row == [verdict |-> verdict, exit_codes |-> exitCodes, heals |-> heals]
       IN  results' = [results EXCEPT ![cur] = Append(@, row)]
    /\ pc' = "publish"
    /\ UNCHANGED <<apiVars, msg, up, cur, exitCodes, historyVars>>

\* _abort_flow: the row of a flow drained by the kill flag.
abort_flow ==
    /\ up
    /\ pc = "abort"
    /\ results' = [results EXCEPT ![cur] =
         Append(@, [verdict |-> "aborted", exit_codes |-> <<>>, heals |-> {}])]
    /\ pc' = "publish"
    /\ UNCHANGED <<apiVars, msg, up, cur, exitCodes, historyVars>>

\* publish_test_event after the commit; the frame itself is ExecLiveView's.
publish_event ==
    /\ up
    /\ pc = "publish"
    /\ pc' = "ack"
    /\ UNCHANGED <<apiVars, msg, up, cur, exitCodes, results, historyVars>>

\* Mutant: the handler leaves the consumer loop after the ack, so the process
\* lives on with its consumer gone.
ack_job_leaves_loop ==
    /\ up
    /\ pc = "ack"
    /\ msg' = [msg EXCEPT ![cur] = "acked"]
    /\ pc' = "left"
    /\ cur' = NoJob
    /\ exitCodes' = <<>>
    /\ UNCHANGED <<apiVars, up, results, historyVars>>

\* message.process leaves without an exception: ack.
ack_job ==
    /\ up
    /\ pc = "ack"
    /\ msg' = [msg EXCEPT ![cur] = "acked"]
    /\ pc' = "idle"
    /\ cur' = NoJob
    /\ exitCodes' = <<>>
    /\ UNCHANGED <<apiVars, up, results, historyVars>>

\* The worker process ends and everything unacked returns to the queue: it is
\* killed from outside, or Redis, the database or the broker fails inside a job
\* and process(requeue=True) requeues the message and re-raises, which ends
\* run_consumer.
worker_stops ==
    /\ up
    /\ failures < MaxFailures
    /\ failures' = failures + 1
    /\ up' = FALSE
    /\ msg' = [j \in Jobs |-> IF msg[j] = "unacked" THEN "ready" ELSE msg[j]]
    /\ pc' = "idle"
    /\ cur' = NoJob
    /\ exitCodes' = <<>>
    /\ UNCHANGED <<apiVars, results, deliveries, late>>

\* An operator starts the worker again: compose sets no restart policy.
worker_start ==
    /\ ~up
    /\ up' = TRUE
    /\ UNCHANGED <<apiVars, msg, cur, pc, exitCodes, results, historyVars>>

-----------------------------------------------------------------------------
\* The steps of a job other than waiting for the spec's subprocess.
job_goes_on ==
    \/ check_kill
    \/ check_kill_between
    \/ \E heals \in Journals : record_result(heals)
    \/ abort_flow
    \/ publish_event
    \/ ack_job

run_flow_job == job_goes_on \/ \E c \in Codes : run_attempt(c)

Next ==
    \/ \E r \in Runs : \/ \E S \in SUBSET JobsOf(r) : start_execution(r, S)
                       \/ enqueue_fails(r)
                       \/ kill_set_flag(r)
                       \/ kill_purge(r)
                       \/ kill_no_purge(r)
    \/ \E j \in Jobs : enqueue_job(j) \/ deliver(j) \/ take_job(j)
    \/ run_flow_job
    \/ worker_stops
    \/ worker_start

Spec == Init /\ [][Next]_vars

\* What the running processes do by themselves: the broker delivers, the loop
\* consumes, the job runner goes on. An attempt need not end: proc.communicate()
\* has no timeout, and a pytest that hangs holds the worker for ever. No
\* fairness for users (start, kill), for failures, or for restarting a worker.
Fairness ==
    /\ \A j \in Jobs : WF_vars(enqueue_job(j)) /\ WF_vars(deliver(j))
    /\ WF_vars(\E j \in Jobs : take_job(j))
    /\ WF_vars(job_goes_on)

FairSpec == Spec /\ Fairness

-----------------------------------------------------------------------------
(* Properties *)

TypeOK ==
    /\ testRun \in [Runs -> Statuses]
    /\ unsent \in SUBSET Jobs
    /\ msg \in [Jobs -> Places]
    /\ killFlag \in SUBSET Runs
    /\ purging \in SUBSET Runs
    /\ up \in BOOLEAN
    /\ cur \in Jobs \cup {NoJob}
    /\ pc \in Phases
    /\ exitCodes \in Seq(Codes)
    /\ results \in [Jobs -> Seq(Rows)]
    /\ deliveries \in [Jobs -> Nat]
    /\ late \in [Runs -> Nat]
    /\ failures \in Nat

\* A message leaves the broker by an ack only when its TestResult is durable:
\* no crash or raising job between the commit and the ack loses a verdict.
AckedIsRecorded ==
    \A j \in Jobs : msg[j] = "acked" => results[j] # <<>>

\* Redelivery may repeat a flow, but a delivery writes at most one TestResult,
\* so a job that was delivered once has at most one row.
OneRowPerDelivery ==
    \A j \in Jobs : Len(results[j]) <= deliveries[j]

\* After the kill flag of a run is set at most one more attempt of that run
\* ends, the one in flight, whatever is retried, redelivered or restarted.
KillStopsAttempts ==
    \A r \in Runs : late[r] <= 1

\* The attempts ended with the first pass; or all failed, and either every
\* attempt was used up or the run was killed.
PassedLast(codes) ==
    LET n == Len(codes) IN n > 0 /\ codes[n] = 0 /\ \A i \in 1..(n - 1) : codes[i] # 0
GaveUp(codes, r, killedRuns) ==
    LET n == Len(codes)
    IN  n > 0 /\ (\A i \in 1..n : codes[i] # 0) /\ (n = MAX_ATTEMPTS \/ r \in killedRuns)

\* What D-05 and the healing rules say a row's verdict means.
VerdictMeaning(row, r, killedRuns) ==
    LET n == Len(row.exit_codes)
        ran == \/ PassedLast(row.exit_codes)
               \/ GaveUp(row.exit_codes, r, killedRuns)
    IN  /\ row.verdict = "aborted" => n = 0 /\ r \in killedRuns /\ row.heals = {}
        /\ row.verdict # "aborted" => ran
        /\ row.verdict = "auto_healed" <=> "auto_heal" \in row.heals
        /\ row.verdict = "quarantined" => "quarantine" \in row.heals
        /\ row.verdict = "passed" => row.heals = {} /\ PassedLast(row.exit_codes) /\ n = 1
        /\ row.verdict = "flaky" => row.heals = {} /\ PassedLast(row.exit_codes) /\ n > 1
        /\ row.verdict = "product_failure" =>
              row.heals = {"fail_as_defect"} \/ GaveUp(row.exit_codes, r, killedRuns)

\* Every committed TestResult carries the verdict its attempts justify: flaky is
\* a pass after failures only, a product failure without a journal used up every
\* attempt unless the run was killed, aborted ran nothing, in a killed run only.
VerdictsAreJustified ==
    \A j \in Jobs : \A i \in 1..Len(results[j]) :
        VerdictMeaning(results[j][i], RunOf[j], killFlag)

\* The worker waits for a subprocess that does not end.
AttemptHangs == [](pc = "attempt")

\* A published job is consumed or purged, unless the worker is down or an
\* attempt hangs (stability.run_once waits without a timeout, and so does every
\* job behind it): nothing else, a full prefetch window or a killed run, leaves
\* a job behind.
JobsSettle ==
    \A j \in Jobs :
        (msg[j] = "ready") ~>
            (msg[j] \in {"acked", "purged"} \/ ~up \/ AttemptHangs)

-----------------------------------------------------------------------------
(* What the repository says and the code does not do *)

\* kill_run: "remaining flows resolve to `aborted`": every job still in the
\* queue at a kill gets a TestResult, however the worker and its attempts go on.
KilledFlowsResolve ==
    \A j \in Jobs :
        (msg[j] = "ready" /\ RunOf[j] \in killFlag) ~>
            (results[j] # <<>> \/ ~up \/ AttemptHangs)

-----------------------------------------------------------------------------
(* The inductive invariant behind the safety properties *)

\* A run that has no row has published nothing; a job still to be published is
\* nowhere in the broker.
PublishedOnce ==
    \A j \in Jobs :
        /\ testRun[RunOf[j]] = "absent" => j \notin unsent /\ msg[j] = "none"
        /\ j \in unsent => msg[j] = "none"

\* The running job is the worker's own unacked message.
CurrentIsUnacked ==
    /\ pc = "idle" => cur = NoJob
    /\ pc # "idle" => up /\ cur \in Jobs /\ msg[cur] = "unacked"

\* Past the commit the current job has a row.
CommittedBeforeAck ==
    pc \in {"publish", "ack"} => results[cur] # <<>>

\* An unacked delivery that has not committed has not used up its row.
DeliveryOwnsRow ==
    \A j \in Jobs :
        msg[j] = "unacked" /\ ~(cur = j /\ pc \in {"publish", "ack"})
            => Len(results[j]) + 1 <= deliveries[j]

\* Late attempts need the flag, and an attempt under way is the first one.
LateNeedsKill ==
    /\ \A r \in Runs : r \notin killFlag => late[r] = 0
    /\ pc = "attempt" => late[RunOf[cur]] = 0

\* What the retry loop has seen at each of its places.
AttemptsSoFar ==
    LET n == Len(exitCodes)
    IN  /\ pc = "taken" => n = 0
        /\ pc \in {"attempt", "between"} =>
              n < MAX_ATTEMPTS /\ \A i \in 1..n : exitCodes[i] # 0
        /\ pc = "between" => n > 0
        /\ pc = "abort" => RunOf[cur] \in killFlag
        /\ pc = "record" =>
              /\ n > 0
              /\ \A i \in 1..(n - 1) : exitCodes[i] # 0
              /\ exitCodes[n] # 0 => n = MAX_ATTEMPTS \/ RunOf[cur] \in killFlag

ExecInv ==
    /\ TypeOK
    /\ PublishedOnce
    /\ CurrentIsUnacked
    /\ CommittedBeforeAck
    /\ DeliveryOwnsRow
    /\ LateNeedsKill
    /\ AttemptsSoFar
    /\ AckedIsRecorded
    /\ OneRowPerDelivery
    /\ KillStopsAttempts
    /\ VerdictsAreJustified

-----------------------------------------------------------------------------
(* Refinement of the ledger *)

PlaceOf == [j \in Jobs |-> CASE msg[j] = "none" -> "absent"
                             [] msg[j] = "acked" -> "finished"
                             [] msg[j] = "purged" -> "dropped"
                             [] OTHER -> "pending"]

Ledger == INSTANCE JobLedger WITH place <- PlaceOf, rows <- results

\* The engine implements the ledger: publish once, commit before ack, and no
\* way but a purge to leave the queue without a row, across redelivery,
\* crashes and kills.
ImplementsLedger == Ledger!LedgerSpec
=============================================================================
