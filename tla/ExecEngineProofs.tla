-------------------------- MODULE ExecEngineProofs --------------------------
(***************************************************************************)
(* Proofs about ExecEngine for every set of runs, jobs and journals and    *)
(* every value of MAX_ATTEMPTS, Prefetch and MaxFailures.                  *)
(***************************************************************************)
EXTENDS ExecEngine, TLAPS

\* The classifier yields one of the three exit-code verdicts.
LEMMA ClassifyType ==
    ASSUME NEW codes \in Seq(Codes)
    PROVE  classify_retry(codes) \in {"passed", "flaky", "product_failure"}
BY DEF classify_retry

\* Reconciling a verdict with the journal yields a verdict.
LEMMA ReconcileType ==
    ASSUME NEW v \in Verdicts, NEW outcomes \in SUBSET HealOutcomes
    PROVE  reconcile_verdict(v, outcomes) \in Verdicts
BY DEF reconcile_verdict, Verdicts, HealOutcomes

\* Appending a row to one job's rows keeps the type of the table.
LEMMA AppendRow ==
    ASSUME NEW S, NEW R, NEW f \in [S -> Seq(R)], NEW j, NEW row \in R
    PROVE  [f EXCEPT ![j] = Append(@, row)] \in [S -> Seq(R)]
<1>1. CASE j \in S
    <2>1. Append(f[j], row) \in Seq(R)
        BY <1>1
    <2>2. QED
        BY <2>1, <1>1
<1>2. CASE j \notin S
    BY <1>2
<1>3. QED
    BY <1>1, <1>2

\* Counting one up keeps the type of a table of counters.
LEMMA CountUp ==
    ASSUME NEW S, NEW f \in [S -> Nat], NEW j
    PROVE  [f EXCEPT ![j] = @ + 1] \in [S -> Nat]
<1>1. CASE j \in S
    BY <1>1
<1>2. CASE j \notin S
    BY <1>2
<1>3. QED
    BY <1>1, <1>2

\* Every step of the engine keeps the types.
LEMMA TypeStep == TypeOK /\ [Next]_vars => TypeOK'
<1> SUFFICES ASSUME TypeOK, [Next]_vars PROVE TypeOK'
    OBVIOUS
<1> USE ExecAssumption DEF TypeOK, apiVars, workerVars, historyVars, Statuses,
        Places, Phases
<1>1. ASSUME NEW r \in Runs, NEW S \in SUBSET JobsOf(r), start_execution(r, S)
      PROVE  TypeOK'
    BY <1>1 DEF start_execution, JobsOf
<1>2. ASSUME NEW r \in Runs, enqueue_fails(r) PROVE TypeOK'
    BY <1>2 DEF enqueue_fails
<1>3. ASSUME NEW r \in Runs, kill_set_flag(r) PROVE TypeOK'
    BY <1>3 DEF kill_set_flag
<1>4. ASSUME NEW r \in Runs, kill_purge(r) PROVE TypeOK'
    BY <1>4 DEF kill_purge
<1>5. ASSUME NEW r \in Runs, kill_no_purge(r) PROVE TypeOK'
    BY <1>5 DEF kill_no_purge
<1>6. ASSUME NEW j \in Jobs, enqueue_job(j) PROVE TypeOK'
    BY <1>6 DEF enqueue_job
<1>7. ASSUME NEW j \in Jobs, deliver(j) PROVE TypeOK'
    BY <1>7 DEF deliver
<1>8. ASSUME NEW j \in Jobs, take_job(j) PROVE TypeOK'
    BY <1>8 DEF take_job
<1>9. CASE check_kill
    BY <1>9 DEF check_kill
<1>10. ASSUME NEW c \in Codes, run_attempt(c) PROVE TypeOK'
    BY <1>10 DEF run_attempt
<1>11. CASE check_kill_between
    BY <1>11 DEF check_kill_between
<1>12. ASSUME NEW heals \in Journals, record_result(heals) PROVE TypeOK'
    <2> DEFINE v == reconcile_verdict(classify_retry(exitCodes), heals)
               row == [verdict |-> v, exit_codes |-> exitCodes, heals |-> heals]
    <2>1. v \in Verdicts
        BY ClassifyType, ReconcileType, JournalsAssumption DEF Verdicts
    <2>2. row \in Rows
        BY <2>1, JournalsAssumption DEF Rows
    <2>3. results' = [results EXCEPT ![cur] = Append(@, row)]
        BY <1>12 DEF record_result
    <2> HIDE DEF row
    <2>4. results' \in [Jobs -> Seq(Rows)]
        BY <2>2, <2>3, AppendRow
    <2>5. QED
        BY <2>4, <1>12 DEF record_result
<1>13. CASE abort_flow
    <2> DEFINE row == [verdict |-> "aborted", exit_codes |-> <<>>, heals |-> {}]
    <2>1. row \in Rows
        BY DEF Rows, Verdicts
    <2>2. results' = [results EXCEPT ![cur] = Append(@, row)]
        BY <1>13 DEF abort_flow
    <2> HIDE DEF row
    <2>3. results' \in [Jobs -> Seq(Rows)]
        BY <2>1, <2>2, AppendRow
    <2>4. QED
        BY <2>3, <1>13 DEF abort_flow
<1>14. CASE publish_event
    BY <1>14 DEF publish_event
<1>15. CASE ack_job
    <2>1. cur' \in Jobs \cup {NoJob} /\ exitCodes' \in Seq(Codes)
        BY <1>15 DEF ack_job
    <2>2. msg' \in [Jobs -> Places]
        BY <1>15 DEF ack_job
    <2>3. QED
        BY <2>1, <2>2, <1>15 DEF ack_job
<1>16. CASE worker_stops
    <2>1. cur' \in Jobs \cup {NoJob} /\ exitCodes' \in Seq(Codes)
        BY <1>16 DEF worker_stops
    <2>2. msg' \in [Jobs -> Places] /\ up' \in BOOLEAN
        BY <1>16 DEF worker_stops
    <2>3. QED
        BY <2>1, <2>2, <1>16 DEF worker_stops
<1>18. CASE worker_start
    BY <1>18 DEF worker_start
<1>19. CASE UNCHANGED vars
    BY <1>19 DEF vars
<1>20. QED
    BY <1>1, <1>2, <1>3, <1>4, <1>5, <1>6, <1>7, <1>8, <1>9, <1>10, <1>11,
       <1>12, <1>13, <1>14, <1>15, <1>16, <1>18, <1>19
    DEF Next, run_flow_job, job_goes_on

\* The variables of the execution plane always have their types: statuses,
\* message places and verdicts stay in the vocabularies of the models.
THEOREM TypeCorrect == Spec => []TypeOK
<1>1. Init => TypeOK
    BY ExecAssumption DEF Init, TypeOK, Statuses, Places, Phases
<1>2. QED
    BY <1>1, TypeStep, PTL DEF Spec

\* A verdict that is justified stays so when the run is killed.
LEMMA MeaningMono ==
    ASSUME NEW row \in Rows, NEW r, NEW K, NEW L, K \subseteq L,
           VerdictMeaning(row, r, K)
    PROVE  VerdictMeaning(row, r, L)
BY DEF VerdictMeaning, GaveUp

\* The row record_result writes is a TestResult.
LEMMA RowType ==
    ASSUME NEW codes \in Seq(Codes), NEW heals \in SUBSET HealOutcomes
    PROVE  [verdict |-> reconcile_verdict(classify_retry(codes), heals),
            exit_codes |-> codes, heals |-> heals] \in Rows
<1>1. reconcile_verdict(classify_retry(codes), heals) \in Verdicts
    BY ClassifyType, ReconcileType DEF Verdicts
<1>2. QED
    BY <1>1 DEF Rows

\* The verdict of the retry loop's codes, reconciled with the journal, means
\* what the attempts justify.
LEMMA RecordedMeaning ==
    ASSUME NEW codes \in Seq(Codes), NEW heals \in SUBSET HealOutcomes,
           NEW r, NEW K, PassedLast(codes) \/ GaveUp(codes, r, K)
    PROVE  VerdictMeaning([verdict |-> reconcile_verdict(classify_retry(codes), heals),
                           exit_codes |-> codes, heals |-> heals], r, K)
<1> DEFINE v == classify_retry(codes)
<1>1. v = "passed" => PassedLast(codes) /\ Len(codes) = 1
    <2> SUFFICES ASSUME v = "passed" PROVE PassedLast(codes) /\ Len(codes) = 1
        OBVIOUS
    <2>1. (\E i \in 1..Len(codes) : codes[i] = 0) /\ ~(Len(codes) > 1)
        BY DEF classify_retry
    <2>2. PassedLast(codes)
        BY <2>1 DEF GaveUp
    <2>3. Len(codes) \in Nat /\ Len(codes) > 0
        BY <2>2 DEF PassedLast
    <2>4. \A n \in Nat : n > 0 /\ ~(n > 1) => n = 1
        OBVIOUS
    <2>5. Len(codes) = 1
        BY <2>1, <2>3, <2>4, Zenon
    <2>6. QED
        BY <2>2, <2>5, Zenon
<1>2. v = "flaky" => PassedLast(codes) /\ Len(codes) > 1
    BY DEF classify_retry, PassedLast, GaveUp, Codes
<1>3. v = "product_failure" => GaveUp(codes, r, K)
    BY DEF classify_retry, PassedLast, GaveUp, Codes
<1>4. v \in {"passed", "flaky", "product_failure"}
    BY DEF classify_retry
<1> DEFINE w == reconcile_verdict(v, heals)
<1> HIDE DEF v
<1>5. heals = {} => w = v
    BY DEF reconcile_verdict
<1>6. heals # {} => w \in {"auto_healed", "quarantined", "product_failure"}
    BY DEF reconcile_verdict, HealOutcomes
<1>7. w = "auto_healed" <=> "auto_heal" \in heals
    BY <1>4 DEF reconcile_verdict, HealOutcomes
<1>8. w = "quarantined" => "quarantine" \in heals
    BY <1>4 DEF reconcile_verdict, HealOutcomes
<1>9. w = "product_failure" /\ heals # {} => heals = {"fail_as_defect"}
    BY <1>4 DEF reconcile_verdict, HealOutcomes
<1>10. QED
    BY <1>1, <1>2, <1>3, <1>4, <1>5, <1>6, <1>7, <1>8, <1>9 DEF VerdictMeaning, v

\* Setting a kill flag leaves every committed verdict justified.
LEMMA JustifiedUnderKill ==
    ASSUME TypeOK, VerdictsAreJustified, results' = results,
           NEW r, killFlag' = killFlag \cup {r}
    PROVE  VerdictsAreJustified'
<1> SUFFICES ASSUME NEW j \in Jobs, NEW i \in 1..Len(results[j])
             PROVE  VerdictMeaning(results[j][i], RunOf[j], killFlag')
    BY DEF VerdictsAreJustified
<1>1. VerdictMeaning(results[j][i], RunOf[j], killFlag)
    BY DEF VerdictsAreJustified
<1>2. results[j][i] \in Rows
    BY DEF TypeOK
<1>3. QED
    BY <1>1, <1>2, MeaningMono

\* A commit leaves the job with a row and the other jobs as they were.
LEMMA CommitGrows ==
    ASSUME TypeOK, cur \in Jobs, NEW row \in Rows,
           results' = [results EXCEPT ![cur] = Append(@, row)]
    PROVE  /\ results'[cur] # <<>>
           /\ Len(results'[cur]) = Len(results[cur]) + 1
           /\ \A j \in Jobs : j # cur => results'[j] = results[j]
<1>1. results[cur] \in Seq(Rows) /\ results'[cur] = Append(results[cur], row)
    BY DEF TypeOK
<1>2. Len(results'[cur]) = Len(results[cur]) + 1 /\ Len(results[cur]) \in Nat
    BY <1>1
<1>3. results'[cur] # <<>>
    <2>1. SUFFICES ASSUME Append(results[cur], row) = <<>> PROVE FALSE
        BY <1>1
    <2>2. Len(Append(results[cur], row)) = Len(results[cur]) + 1 /\ Len(results[cur]) \in Nat
        BY <1>1
    <2>3. QED
        BY <2>1, <2>2
<1>4. \A j \in Jobs : j # cur => results'[j] = results[j]
    BY DEF TypeOK
<1>5. QED
    BY <1>2, <1>3, <1>4

\* Committing a justified row leaves every verdict justified.
LEMMA JustifiedAppend ==
    ASSUME TypeOK, VerdictsAreJustified, cur \in Jobs, NEW row \in Rows,
           VerdictMeaning(row, RunOf[cur], killFlag), killFlag' = killFlag,
           results' = [results EXCEPT ![cur] = Append(@, row)]
    PROVE  VerdictsAreJustified'
<1> SUFFICES ASSUME NEW j \in Jobs, NEW i \in 1..Len(results'[j])
             PROVE  VerdictMeaning(results'[j][i], RunOf[j], killFlag)
    BY DEF VerdictsAreJustified
<1>1. results[j] \in Seq(Rows)
    BY DEF TypeOK
<1>2. CASE j = cur
    <2>1. results'[j] = Append(results[j], row)
        BY <1>2 DEF TypeOK
    <2>2. CASE i \in 1..Len(results[j])
        BY <2>1, <2>2, <1>1 DEF VerdictsAreJustified
    <2>3. CASE i = Len(results[j]) + 1
        BY <2>1, <2>3, <1>1, <1>2
    <2>4. QED
        BY <2>1, <2>2, <2>3, <1>1
<1>3. CASE j # cur
    BY <1>3 DEF TypeOK, VerdictsAreJustified
<1>4. QED
    BY <1>2, <1>3

\* Every step of the engine keeps the inductive invariant.
LEMMA InvStep == ExecInv /\ [Next]_vars => ExecInv'
<1> SUFFICES ASSUME ExecInv, [Next]_vars PROVE ExecInv'
    OBVIOUS
<1> USE ExecAssumption DEF ExecInv, TypeOK, apiVars, workerVars, historyVars
<1>t. TypeOK'
    BY TypeStep
<1>1. ASSUME NEW r \in Runs, NEW S \in SUBSET JobsOf(r), start_execution(r, S)
      PROVE  ExecInv'
    <2>1. PublishedOnce' /\ CurrentIsUnacked' /\ CommittedBeforeAck' /\ AckedIsRecorded'
        BY <1>1 DEF PublishedOnce, CurrentIsUnacked, CommittedBeforeAck,
           AckedIsRecorded, start_execution, JobsOf
    <2>2. DeliveryOwnsRow' /\ OneRowPerDelivery'
        BY <1>1 DEF CurrentIsUnacked, DeliveryOwnsRow, OneRowPerDelivery,
           start_execution, JobsOf
    <2>3. LateNeedsKill' /\ KillStopsAttempts' /\ AttemptsSoFar'
        BY <1>1 DEF CurrentIsUnacked, LateNeedsKill, KillStopsAttempts,
           AttemptsSoFar, start_execution, JobsOf
    <2>4. VerdictsAreJustified'
        BY <1>1 DEF VerdictsAreJustified, start_execution, JobsOf
    <2>5. QED
        BY <1>t, <2>1, <2>2, <2>3, <2>4
<1>2. ASSUME NEW r \in Runs, enqueue_fails(r) PROVE ExecInv'
    <2>1. PublishedOnce' /\ CurrentIsUnacked' /\ CommittedBeforeAck' /\ AckedIsRecorded'
        BY <1>2 DEF PublishedOnce, CurrentIsUnacked, CommittedBeforeAck,
           AckedIsRecorded, enqueue_fails
    <2>2. DeliveryOwnsRow' /\ OneRowPerDelivery'
        BY <1>2 DEF CurrentIsUnacked, DeliveryOwnsRow, OneRowPerDelivery,
           enqueue_fails
    <2>3. LateNeedsKill' /\ KillStopsAttempts' /\ AttemptsSoFar'
        BY <1>2 DEF CurrentIsUnacked, LateNeedsKill, KillStopsAttempts,
           AttemptsSoFar, enqueue_fails
    <2>4. VerdictsAreJustified'
        BY <1>2 DEF VerdictsAreJustified, enqueue_fails
    <2>5. QED
        BY <1>t, <2>1, <2>2, <2>3, <2>4
<1>3. ASSUME NEW r \in Runs, kill_set_flag(r) PROVE ExecInv'
    <2>1. PublishedOnce' /\ CurrentIsUnacked' /\ CommittedBeforeAck' /\ AckedIsRecorded'
        BY <1>3 DEF PublishedOnce, CurrentIsUnacked, CommittedBeforeAck,
           AckedIsRecorded, kill_set_flag
    <2>2. DeliveryOwnsRow' /\ OneRowPerDelivery'
        BY <1>3 DEF CurrentIsUnacked, DeliveryOwnsRow, OneRowPerDelivery,
           kill_set_flag
    <2>3. LateNeedsKill' /\ KillStopsAttempts' /\ AttemptsSoFar'
        BY <1>3 DEF CurrentIsUnacked, LateNeedsKill, KillStopsAttempts,
           AttemptsSoFar, kill_set_flag
    <2>4. VerdictsAreJustified'
        BY JustifiedUnderKill, <1>3 DEF kill_set_flag
    <2>5. QED
        BY <1>t, <2>1, <2>2, <2>3, <2>4
<1>4. ASSUME NEW r \in Runs, kill_purge(r) PROVE ExecInv'
    <2>1. PublishedOnce' /\ CurrentIsUnacked' /\ CommittedBeforeAck' /\ AckedIsRecorded'
        BY <1>4 DEF PublishedOnce, CurrentIsUnacked, CommittedBeforeAck,
           AckedIsRecorded, kill_purge
    <2>2. DeliveryOwnsRow' /\ OneRowPerDelivery'
        BY <1>4 DEF CurrentIsUnacked, DeliveryOwnsRow, OneRowPerDelivery,
           kill_purge
    <2>3. LateNeedsKill' /\ KillStopsAttempts' /\ AttemptsSoFar'
        BY <1>4 DEF CurrentIsUnacked, LateNeedsKill, KillStopsAttempts,
           AttemptsSoFar, kill_purge
    <2>4. VerdictsAreJustified'
        BY <1>4 DEF VerdictsAreJustified, kill_purge
    <2>5. QED
        BY <1>t, <2>1, <2>2, <2>3, <2>4
<1>5. ASSUME NEW r \in Runs, kill_no_purge(r) PROVE ExecInv'
    <2>1. PublishedOnce' /\ CurrentIsUnacked' /\ CommittedBeforeAck' /\ AckedIsRecorded'
        BY <1>5 DEF PublishedOnce, CurrentIsUnacked, CommittedBeforeAck,
           AckedIsRecorded, kill_no_purge
    <2>2. DeliveryOwnsRow' /\ OneRowPerDelivery'
        BY <1>5 DEF CurrentIsUnacked, DeliveryOwnsRow, OneRowPerDelivery,
           kill_no_purge
    <2>3. LateNeedsKill' /\ KillStopsAttempts' /\ AttemptsSoFar'
        BY <1>5 DEF CurrentIsUnacked, LateNeedsKill, KillStopsAttempts,
           AttemptsSoFar, kill_no_purge
    <2>4. VerdictsAreJustified'
        BY <1>5 DEF VerdictsAreJustified, kill_no_purge
    <2>5. QED
        BY <1>t, <2>1, <2>2, <2>3, <2>4
<1>6. ASSUME NEW j \in Jobs, enqueue_job(j) PROVE ExecInv'
    <2>1. PublishedOnce' /\ CurrentIsUnacked' /\ CommittedBeforeAck' /\ AckedIsRecorded'
        BY <1>6 DEF PublishedOnce, CurrentIsUnacked, CommittedBeforeAck,
           AckedIsRecorded, enqueue_job
    <2>2. DeliveryOwnsRow' /\ OneRowPerDelivery'
        BY <1>6 DEF CurrentIsUnacked, DeliveryOwnsRow, OneRowPerDelivery,
           enqueue_job
    <2>3. LateNeedsKill' /\ KillStopsAttempts' /\ AttemptsSoFar'
        BY <1>6 DEF CurrentIsUnacked, LateNeedsKill, KillStopsAttempts,
           AttemptsSoFar, enqueue_job
    <2>4. VerdictsAreJustified'
        BY <1>6 DEF VerdictsAreJustified, enqueue_job
    <2>5. QED
        BY <1>t, <2>1, <2>2, <2>3, <2>4
<1>7. ASSUME NEW j \in Jobs, deliver(j) PROVE ExecInv'
    <2>1. PublishedOnce' /\ CurrentIsUnacked' /\ CommittedBeforeAck' /\ AckedIsRecorded'
        BY <1>7 DEF PublishedOnce, CurrentIsUnacked, CommittedBeforeAck,
           AckedIsRecorded, deliver
    <2>2. DeliveryOwnsRow' /\ OneRowPerDelivery'
        BY <1>7 DEF CurrentIsUnacked, DeliveryOwnsRow, OneRowPerDelivery,
           deliver
    <2>3. LateNeedsKill' /\ KillStopsAttempts' /\ AttemptsSoFar'
        BY <1>7 DEF CurrentIsUnacked, LateNeedsKill, KillStopsAttempts,
           AttemptsSoFar, deliver
    <2>4. VerdictsAreJustified'
        BY <1>7 DEF VerdictsAreJustified, deliver
    <2>5. QED
        BY <1>t, <2>1, <2>2, <2>3, <2>4
<1>8. ASSUME NEW j \in Jobs, take_job(j) PROVE ExecInv'
    <2>1. PublishedOnce' /\ CurrentIsUnacked' /\ CommittedBeforeAck' /\ AckedIsRecorded'
        BY <1>8 DEF PublishedOnce, CurrentIsUnacked, CommittedBeforeAck,
           AckedIsRecorded, take_job
    <2>2. DeliveryOwnsRow' /\ OneRowPerDelivery'
        BY <1>8 DEF CurrentIsUnacked, DeliveryOwnsRow, OneRowPerDelivery,
           take_job
    <2>3. LateNeedsKill' /\ KillStopsAttempts' /\ AttemptsSoFar'
        BY <1>8 DEF CurrentIsUnacked, LateNeedsKill, KillStopsAttempts,
           AttemptsSoFar, take_job
    <2>4. VerdictsAreJustified'
        BY <1>8 DEF VerdictsAreJustified, take_job
    <2>5. QED
        BY <1>t, <2>1, <2>2, <2>3, <2>4
<1>9. CASE check_kill
    <2>1. PublishedOnce' /\ CurrentIsUnacked' /\ CommittedBeforeAck' /\ AckedIsRecorded'
        BY <1>9 DEF PublishedOnce, CurrentIsUnacked, CommittedBeforeAck,
           AckedIsRecorded, check_kill
    <2>2. DeliveryOwnsRow' /\ OneRowPerDelivery'
        BY <1>9 DEF CurrentIsUnacked, DeliveryOwnsRow, OneRowPerDelivery,
           check_kill
    <2>3. LateNeedsKill' /\ KillStopsAttempts' /\ AttemptsSoFar'
        BY <1>9 DEF CurrentIsUnacked, LateNeedsKill, KillStopsAttempts,
           AttemptsSoFar, check_kill
    <2>4. VerdictsAreJustified'
        BY <1>9 DEF VerdictsAreJustified, check_kill
    <2>5. QED
        BY <1>t, <2>1, <2>2, <2>3, <2>4
<1>10. ASSUME NEW c \in Codes, run_attempt(c) PROVE ExecInv'
    <2>1. PublishedOnce' /\ CurrentIsUnacked' /\ CommittedBeforeAck' /\ AckedIsRecorded'
        BY <1>10 DEF PublishedOnce, CurrentIsUnacked, CommittedBeforeAck,
           AckedIsRecorded, run_attempt
    <2>2. DeliveryOwnsRow' /\ OneRowPerDelivery'
        BY <1>10 DEF CurrentIsUnacked, DeliveryOwnsRow, OneRowPerDelivery,
           run_attempt
    <2>3. LateNeedsKill' /\ KillStopsAttempts' /\ AttemptsSoFar'
        BY <1>10 DEF CurrentIsUnacked, LateNeedsKill, KillStopsAttempts,
           AttemptsSoFar, run_attempt
    <2>4. VerdictsAreJustified'
        BY <1>10 DEF VerdictsAreJustified, run_attempt
    <2>5. QED
        BY <1>t, <2>1, <2>2, <2>3, <2>4
<1>11. CASE check_kill_between
    <2>1. PublishedOnce' /\ CurrentIsUnacked' /\ CommittedBeforeAck' /\ AckedIsRecorded'
        BY <1>11 DEF PublishedOnce, CurrentIsUnacked, CommittedBeforeAck,
           AckedIsRecorded, check_kill_between
    <2>2. DeliveryOwnsRow' /\ OneRowPerDelivery'
        BY <1>11 DEF CurrentIsUnacked, DeliveryOwnsRow, OneRowPerDelivery,
           check_kill_between
    <2>3. LateNeedsKill' /\ KillStopsAttempts' /\ AttemptsSoFar'
        BY <1>11 DEF CurrentIsUnacked, LateNeedsKill, KillStopsAttempts,
           AttemptsSoFar, check_kill_between
    <2>4. VerdictsAreJustified'
        BY <1>11 DEF VerdictsAreJustified, check_kill_between
    <2>5. QED
        BY <1>t, <2>1, <2>2, <2>3, <2>4
<1>12. ASSUME NEW heals \in Journals, record_result(heals) PROVE ExecInv'
    <2>3. LateNeedsKill' /\ KillStopsAttempts' /\ AttemptsSoFar'
        BY <1>12 DEF CurrentIsUnacked, LateNeedsKill, KillStopsAttempts,
           AttemptsSoFar, record_result
    <2>a. PassedLast(exitCodes) \/ GaveUp(exitCodes, RunOf[cur], killFlag)
        BY <1>12 DEF record_result, AttemptsSoFar, PassedLast, GaveUp
    <2> DEFINE row == [verdict |-> reconcile_verdict(classify_retry(exitCodes), heals),
                       exit_codes |-> exitCodes, heals |-> heals]
    <2>b. VerdictMeaning(row, RunOf[cur], killFlag)
        BY <2>a, RecordedMeaning, JournalsAssumption
    <2>c. row \in Rows
        BY RowType, JournalsAssumption
    <2>d. cur \in Jobs /\ killFlag' = killFlag /\ results' = [results EXCEPT ![cur] = Append(@, row)]
        BY <1>12 DEF record_result, CurrentIsUnacked
    <2> HIDE DEF row
    <2>4. VerdictsAreJustified'
        BY <2>b, <2>c, <2>d, JustifiedAppend
    <2>e. /\ results'[cur] # <<>>
          /\ Len(results'[cur]) = Len(results[cur]) + 1
          /\ \A j \in Jobs : j # cur => results'[j] = results[j]
        BY <2>c, <2>d, CommitGrows
    <2>1. PublishedOnce' /\ CurrentIsUnacked' /\ CommittedBeforeAck' /\ AckedIsRecorded'
        BY <1>12, <2>d, <2>e DEF PublishedOnce, CurrentIsUnacked, CommittedBeforeAck,
           AckedIsRecorded, record_result
    <2>2. DeliveryOwnsRow' /\ OneRowPerDelivery'
        BY <1>12, <2>d, <2>e DEF CurrentIsUnacked, DeliveryOwnsRow, OneRowPerDelivery,
           TypeOK, record_result
    <2>5. QED
        BY <1>t, <2>1, <2>2, <2>3, <2>4
<1>13. CASE abort_flow
    <2>3. LateNeedsKill' /\ KillStopsAttempts' /\ AttemptsSoFar'
        BY <1>13 DEF CurrentIsUnacked, LateNeedsKill, KillStopsAttempts,
           AttemptsSoFar, abort_flow
    <2> DEFINE row == [verdict |-> "aborted", exit_codes |-> <<>>, heals |-> {}]
    <2>b. VerdictMeaning(row, RunOf[cur], killFlag)
        BY <1>13 DEF abort_flow, AttemptsSoFar, VerdictMeaning
    <2>c. row \in Rows
        BY DEF Rows, Verdicts
    <2>d. cur \in Jobs /\ killFlag' = killFlag /\ results' = [results EXCEPT ![cur] = Append(@, row)]
        BY <1>13 DEF abort_flow, CurrentIsUnacked
    <2> HIDE DEF row
    <2>4. VerdictsAreJustified'
        BY <2>b, <2>c, <2>d, JustifiedAppend
    <2>e. /\ results'[cur] # <<>>
          /\ Len(results'[cur]) = Len(results[cur]) + 1
          /\ \A j \in Jobs : j # cur => results'[j] = results[j]
        BY <2>c, <2>d, CommitGrows
    <2>1. PublishedOnce' /\ CurrentIsUnacked' /\ CommittedBeforeAck' /\ AckedIsRecorded'
        BY <1>13, <2>d, <2>e DEF PublishedOnce, CurrentIsUnacked, CommittedBeforeAck,
           AckedIsRecorded, abort_flow
    <2>2. DeliveryOwnsRow' /\ OneRowPerDelivery'
        BY <1>13, <2>d, <2>e DEF CurrentIsUnacked, DeliveryOwnsRow, OneRowPerDelivery,
           TypeOK, abort_flow
    <2>5. QED
        BY <1>t, <2>1, <2>2, <2>3, <2>4
<1>14. CASE publish_event
    <2>1. PublishedOnce' /\ CurrentIsUnacked' /\ CommittedBeforeAck' /\ AckedIsRecorded'
        BY <1>14 DEF PublishedOnce, CurrentIsUnacked, CommittedBeforeAck,
           AckedIsRecorded, publish_event
    <2>2. DeliveryOwnsRow' /\ OneRowPerDelivery'
        BY <1>14 DEF CurrentIsUnacked, DeliveryOwnsRow, OneRowPerDelivery,
           publish_event
    <2>3. LateNeedsKill' /\ KillStopsAttempts' /\ AttemptsSoFar'
        BY <1>14 DEF CurrentIsUnacked, LateNeedsKill, KillStopsAttempts,
           AttemptsSoFar, publish_event
    <2>4. VerdictsAreJustified'
        BY <1>14 DEF VerdictsAreJustified, publish_event
    <2>5. QED
        BY <1>t, <2>1, <2>2, <2>3, <2>4
<1>15. CASE ack_job
    <2>1. PublishedOnce' /\ CurrentIsUnacked' /\ CommittedBeforeAck' /\ AckedIsRecorded'
        BY <1>15 DEF PublishedOnce, CurrentIsUnacked, CommittedBeforeAck,
           AckedIsRecorded, ack_job
    <2>2. DeliveryOwnsRow' /\ OneRowPerDelivery'
        BY <1>15 DEF CurrentIsUnacked, DeliveryOwnsRow, OneRowPerDelivery,
           ack_job
    <2>3. LateNeedsKill' /\ KillStopsAttempts' /\ AttemptsSoFar'
        BY <1>15 DEF CurrentIsUnacked, LateNeedsKill, KillStopsAttempts,
           AttemptsSoFar, ack_job
    <2>4. VerdictsAreJustified'
        BY <1>15 DEF VerdictsAreJustified, ack_job
    <2>5. QED
        BY <1>t, <2>1, <2>2, <2>3, <2>4
<1>16. CASE worker_stops
    <2>1. PublishedOnce' /\ CurrentIsUnacked' /\ CommittedBeforeAck' /\ AckedIsRecorded'
        BY <1>16 DEF PublishedOnce, CurrentIsUnacked, CommittedBeforeAck,
           AckedIsRecorded, worker_stops
    <2>2. DeliveryOwnsRow' /\ OneRowPerDelivery'
        BY <1>16 DEF CurrentIsUnacked, DeliveryOwnsRow, OneRowPerDelivery,
           worker_stops
    <2>3. LateNeedsKill' /\ KillStopsAttempts' /\ AttemptsSoFar'
        BY <1>16 DEF CurrentIsUnacked, LateNeedsKill, KillStopsAttempts,
           AttemptsSoFar, worker_stops
    <2>4. VerdictsAreJustified'
        BY <1>16 DEF VerdictsAreJustified, worker_stops
    <2>5. QED
        BY <1>t, <2>1, <2>2, <2>3, <2>4
<1>18. CASE worker_start
    <2>1. PublishedOnce' /\ CurrentIsUnacked' /\ CommittedBeforeAck' /\ AckedIsRecorded'
        BY <1>18 DEF PublishedOnce, CurrentIsUnacked, CommittedBeforeAck,
           AckedIsRecorded, worker_start
    <2>2. DeliveryOwnsRow' /\ OneRowPerDelivery'
        BY <1>18 DEF CurrentIsUnacked, DeliveryOwnsRow, OneRowPerDelivery,
           worker_start
    <2>3. LateNeedsKill' /\ KillStopsAttempts' /\ AttemptsSoFar'
        BY <1>18 DEF CurrentIsUnacked, LateNeedsKill, KillStopsAttempts,
           AttemptsSoFar, worker_start
    <2>4. VerdictsAreJustified'
        BY <1>18 DEF VerdictsAreJustified, worker_start
    <2>5. QED
        BY <1>t, <2>1, <2>2, <2>3, <2>4
<1>19. CASE UNCHANGED vars
    <2>1. PublishedOnce' /\ CurrentIsUnacked' /\ CommittedBeforeAck' /\ AckedIsRecorded'
        BY <1>19 DEF PublishedOnce, CurrentIsUnacked, CommittedBeforeAck,
           AckedIsRecorded, vars
    <2>2. DeliveryOwnsRow' /\ OneRowPerDelivery'
        BY <1>19 DEF CurrentIsUnacked, DeliveryOwnsRow, OneRowPerDelivery,
           vars
    <2>3. LateNeedsKill' /\ KillStopsAttempts' /\ AttemptsSoFar'
        BY <1>19 DEF CurrentIsUnacked, LateNeedsKill, KillStopsAttempts,
           AttemptsSoFar, vars
    <2>4. VerdictsAreJustified'
        BY <1>19 DEF VerdictsAreJustified, vars
    <2>5. QED
        BY <1>t, <2>1, <2>2, <2>3, <2>4
<1>20. QED
    BY <1>1, <1>2, <1>3, <1>4, <1>5, <1>6, <1>7, <1>8, <1>9, <1>10, <1>11,
       <1>12, <1>13, <1>14, <1>15, <1>16, <1>18, <1>19 DEF Next,
       run_flow_job, job_goes_on

\* The inductive invariant holds in every reachable state.
THEOREM Inductive == Spec => []ExecInv
<1>1. Init => ExecInv
    <2> USE ExecAssumption
    <2>1. Init => TypeOK
        BY DEF Init, TypeOK, Statuses, Places, Phases
    <2>2. Init => PublishedOnce /\ CurrentIsUnacked /\ CommittedBeforeAck
        BY DEF Init, PublishedOnce, CurrentIsUnacked, CommittedBeforeAck
    <2>3. Init => DeliveryOwnsRow /\ LateNeedsKill /\ AttemptsSoFar
        BY DEF Init, DeliveryOwnsRow, LateNeedsKill, AttemptsSoFar
    <2>4. Init => AckedIsRecorded /\ OneRowPerDelivery /\ KillStopsAttempts
        BY DEF Init, AckedIsRecorded, OneRowPerDelivery, KillStopsAttempts
    <2>5. Init => VerdictsAreJustified
        BY DEF Init, VerdictsAreJustified
    <2>6. QED
        BY <2>1, <2>2, <2>3, <2>4, <2>5 DEF ExecInv
<1>2. QED
    BY <1>1, InvStep, PTL DEF Spec

\* No verdict is lost: a message is acked only after its TestResult is durable.
THEOREM AckAfterCommit == Spec => []AckedIsRecorded
BY Inductive, PTL DEF ExecInv

\* A delivery writes at most one TestResult, so duplicates need redelivery.
THEOREM RowsPerDelivery == Spec => []OneRowPerDelivery
BY Inductive, PTL DEF ExecInv

\* At most one attempt of a run ends after its kill flag is set.
THEOREM KillIsPrompt == Spec => []KillStopsAttempts
BY Inductive, PTL DEF ExecInv

\* Every TestResult's verdict is the one its attempts and journal justify.
THEOREM VerdictsSound == Spec => []VerdictsAreJustified
BY Inductive, PTL DEF ExecInv

-----------------------------------------------------------------------------
(* Refinement of the ledger *)

\* The ledger's view of one message.
LEMMA PlaceAt ==
    ASSUME NEW j \in Jobs
    PROVE  /\ PlaceOf[j] = "absent" <=> msg[j] = "none"
           /\ PlaceOf[j] = "finished" <=> msg[j] = "acked"
           /\ PlaceOf[j] = "dropped" <=> msg[j] = "purged"
           /\ PlaceOf[j] = "pending" <=> msg[j] \notin {"none", "acked", "purged"}
BY DEF PlaceOf

\* Committing a row is a Record step of the ledger.
LEMMA RecordStep ==
    ASSUME ExecInv, pc # "idle", NEW row \in Rows, msg' = msg,
           results' = [results EXCEPT ![cur] = Append(@, row)]
    PROVE  Ledger!LedgerNext
<1>1. cur \in Jobs /\ msg[cur] = "unacked"
    BY DEF ExecInv, CurrentIsUnacked
<1>2. results[cur] \in Seq(Rows) /\ results \in [Jobs -> Seq(Rows)]
    BY <1>1 DEF ExecInv, TypeOK
<1>3. results'[cur] = Append(results[cur], row)
    BY <1>1, <1>2
<1>4. /\ Len(results'[cur]) = Len(results[cur]) + 1
      /\ results'[cur][Len(results'[cur])] = row
    BY <1>2, <1>3
<1>5. PlaceOf[cur] = "pending"
    BY <1>1, PlaceAt
<1>6. PlaceOf' = PlaceOf
    BY DEF PlaceOf
<1>7. Ledger!Record(cur)
    BY <1>4, <1>5, <1>6 DEF Ledger!Record
<1>8. QED
    BY <1>1, <1>7 DEF Ledger!LedgerNext

\* A step that neither moves a message across the ledger's places nor touches
\* a row is invisible to the ledger.
LEMMA LedgerStutter ==
    ASSUME results' = results,
           \A j \in Jobs : \/ msg'[j] = msg[j]
                          \/ {msg[j], msg'[j]} \subseteq {"ready", "unacked"}
    PROVE  UNCHANGED Ledger!ledgerVars
<1>1. \A j \in Jobs : PlaceOf'[j] = PlaceOf[j]
    BY DEF PlaceOf
<1>2. PlaceOf' = PlaceOf
    BY <1>1 DEF PlaceOf
<1>3. QED
    BY <1>2 DEF Ledger!ledgerVars

LEMMA LedgerStep ==
    ASSUME ExecInv, [Next]_vars
    PROVE  [Ledger!LedgerNext]_(Ledger!ledgerVars)
<1>t. TypeOK
    BY DEF ExecInv
<1>1. CASE UNCHANGED vars
    BY <1>1, LedgerStutter DEF vars
<1>2. ASSUME NEW r \in Runs, NEW S \in SUBSET JobsOf(r), start_execution(r, S)
      PROVE  UNCHANGED Ledger!ledgerVars
    BY <1>2, LedgerStutter DEF start_execution
<1>3. ASSUME NEW r \in Runs, enqueue_fails(r) \/ kill_set_flag(r) \/ kill_no_purge(r)
      PROVE  UNCHANGED Ledger!ledgerVars
    BY <1>3, LedgerStutter DEF enqueue_fails, kill_set_flag, kill_no_purge
<1>4. ASSUME NEW r \in Runs, kill_purge(r)
      PROVE  Ledger!LedgerNext
    <2> DEFINE S == {j \in Jobs : msg[j] = "ready"}
    <2>1. \A j \in S : PlaceOf[j] = "pending"
        BY PlaceAt
    <2>2. \A j \in Jobs : PlaceOf'[j] = IF j \in S THEN "dropped" ELSE PlaceOf[j]
        BY <1>4, <1>t DEF kill_purge, PlaceOf
    <2>3. PlaceOf' = [j \in Jobs |-> IF j \in S THEN "dropped" ELSE PlaceOf[j]]
        BY <2>2 DEF PlaceOf
    <2>4. Ledger!Drop(S)
        BY <1>4, <2>1, <2>3 DEF kill_purge, Ledger!Drop
    <2>5. S \in SUBSET Jobs
        OBVIOUS
    <2> HIDE DEF S
    <2>6. QED
        BY <2>4, <2>5 DEF Ledger!LedgerNext
<1>5. ASSUME NEW j \in Jobs, enqueue_job(j)
      PROVE  Ledger!LedgerNext
    <2>1. msg[j] = "none"
        BY <1>5 DEF enqueue_job, ExecInv, PublishedOnce
    <2>2. PlaceOf[j] = "absent"
        BY <2>1, PlaceAt
    <2>3. \A k \in Jobs : PlaceOf'[k] = IF k = j THEN "pending" ELSE PlaceOf[k]
        BY <1>5, <1>t DEF enqueue_job, PlaceOf, TypeOK
    <2>4. PlaceOf' = [PlaceOf EXCEPT ![j] = "pending"]
        BY <2>3 DEF PlaceOf
    <2>5. Ledger!Publish(j)
        BY <1>5, <2>2, <2>4 DEF enqueue_job, Ledger!Publish
    <2>6. QED
        BY <2>5 DEF Ledger!LedgerNext
<1>6. ASSUME NEW j \in Jobs, deliver(j)
      PROVE  UNCHANGED Ledger!ledgerVars
    <2>1. \A k \in Jobs : msg'[k] = msg[k] \/ {msg[k], msg'[k]} \subseteq {"ready", "unacked"}
        BY <1>6, <1>t DEF deliver, TypeOK
    <2>2. QED
        BY <1>6, <2>1, LedgerStutter DEF deliver
<1>7. ASSUME NEW j \in Jobs, take_job(j)
      PROVE  UNCHANGED Ledger!ledgerVars
    BY <1>7, LedgerStutter DEF take_job
<1>8. ASSUME NEW c \in Codes, run_attempt(c)
      PROVE  UNCHANGED Ledger!ledgerVars
    BY <1>8, LedgerStutter DEF run_attempt
<1>9. ASSUME check_kill \/ check_kill_between \/ publish_event \/ worker_start
      PROVE  UNCHANGED Ledger!ledgerVars
    BY <1>9, LedgerStutter DEF check_kill, check_kill_between, publish_event, worker_start
<1>10. ASSUME NEW heals \in Journals, record_result(heals)
       PROVE  Ledger!LedgerNext
    <2> DEFINE row == [verdict |-> reconcile_verdict(classify_retry(exitCodes), heals),
                       exit_codes |-> exitCodes, heals |-> heals]
    <2>1. row \in Rows
        BY <1>t, RowType, JournalsAssumption DEF TypeOK
    <2>2. /\ pc # "idle" /\ msg' = msg
          /\ results' = [results EXCEPT ![cur] = Append(@, row)]
        BY <1>10 DEF record_result
    <2> HIDE DEF row
    <2>3. QED
        BY <2>1, <2>2, RecordStep
<1>11. ASSUME abort_flow
       PROVE  Ledger!LedgerNext
    <2> DEFINE row == [verdict |-> "aborted", exit_codes |-> <<>>, heals |-> {}]
    <2>1. row \in Rows
        BY DEF Rows, Verdicts
    <2>2. /\ pc # "idle" /\ msg' = msg
          /\ results' = [results EXCEPT ![cur] = Append(@, row)]
        BY <1>11 DEF abort_flow
    <2> HIDE DEF row
    <2>3. QED
        BY <2>1, <2>2, RecordStep
<1>12. ASSUME ack_job
       PROVE  Ledger!LedgerNext
    <2>1. cur \in Jobs /\ msg[cur] = "unacked" /\ results[cur] # <<>>
        BY <1>12 DEF ack_job, ExecInv, CurrentIsUnacked, CommittedBeforeAck
    <2>2. PlaceOf[cur] = "pending"
        BY <2>1, PlaceAt
    <2>3. \A k \in Jobs : PlaceOf'[k] = IF k = cur THEN "finished" ELSE PlaceOf[k]
        BY <1>12, <1>t DEF ack_job, PlaceOf, TypeOK
    <2>4. PlaceOf' = [PlaceOf EXCEPT ![cur] = "finished"]
        BY <2>3 DEF PlaceOf
    <2>5. Ledger!Finish(cur)
        BY <1>12, <2>1, <2>2, <2>4 DEF ack_job, Ledger!Finish
    <2>6. QED
        BY <2>1, <2>5 DEF Ledger!LedgerNext
<1>13. ASSUME worker_stops
       PROVE  UNCHANGED Ledger!ledgerVars
    <2>1. \A k \in Jobs : msg'[k] = msg[k] \/ {msg[k], msg'[k]} \subseteq {"ready", "unacked"}
        BY <1>13, <1>t DEF worker_stops, TypeOK
    <2>2. QED
        BY <1>13, <2>1, LedgerStutter DEF worker_stops
<1>15. QED
    BY <1>1, <1>2, <1>3, <1>4, <1>5, <1>6, <1>7, <1>8, <1>9, <1>10, <1>11, <1>12, <1>13
       DEF Next, run_flow_job, job_goes_on

\* The engine implements the ledger for any number of runs, jobs, attempts and
\* failures: published once, no ack without a row, no loss but by a purge.
THEOREM RefinesLedger == Spec => ImplementsLedger
<1>1. Init => Ledger!LedgerInit
    BY DEF Init, Ledger!LedgerInit, PlaceOf
<1>2. ExecInv /\ [Next]_vars => [Ledger!LedgerNext]_(Ledger!ledgerVars)
    BY LedgerStep
<1>3. QED
    BY <1>1, <1>2, Inductive, PTL DEF Spec, ImplementsLedger, Ledger!LedgerSpec
=============================================================================
