--------------------------- MODULE DefectFiling ---------------------------
(***************************************************************************)
(* Defect drafts and their Jira issues.  The post-run pipeline classifies  *)
(* the failed flows of a run, commits a draft for each and, when autonomy  *)
(* allows, files it; reviewers apply and reject drafts at the same time.   *)
(* Filing searches Jira for an open issue with the fingerprint's label,    *)
(* then comments on it or creates one: every call is an await, and every   *)
(* call may raise, whether or not Jira has done what it asked for.         *)
(*                                                                         *)
(* Nothing in the repository calls run_defect_pipeline; as its tests do,   *)
(* one caller per run threads the counter through the run's flows.         *)
(***************************************************************************)
EXTENDS DefectClassifier, Sequences

CONSTANTS
    Requests,      \* review requests being served
    Runs, Flows,   \* failed flows of finished runs
    Evidences,     \* [text, heal, element, artifacts] a failure may leave
    Cap,           \* settings.jira_max_tickets_per_run
    Autonomous,    \* settings.jira_autonomous_enabled
    Threshold,     \* settings.jira_confidence_threshold
    MaxDefects,    \* bound: rows of the table
    MaxIssues      \* bound: issues ever created

ASSUME FilingAssumption ==
    /\ Requests \cap Runs = {}
    /\ Cap \in Nat /\ Threshold \in Nat
    /\ MaxDefects \in Nat /\ MaxIssues \in Nat
    /\ Autonomous \in BOOLEAN

VARIABLES
    defects,       \* the defects table, by id
    issues,        \* Jira's issues, by key
    job,           \* what each request and each run's pipeline is doing
    counter        \* the run_counter each pipeline caller threads

vars == <<defects, issues, job, counter>>

NoKey == 0
Idle == [pc |-> "idle"]
Actors == Requests \cup Runs
Statuses == {"draft", "applied", "rejected"}

\* A filing in progress: the row's columns as its session loaded them, the
\* issue it works on, whether Jira's reply named it, and (history) how many
\* issues Jira had at its search.
Filing(d) ==
    [pc |-> "search", id |-> d, status |-> defects[d].status,
     jira_key |-> defects[d].jira_key, key |-> NoKey, named |-> TRUE,
     created |-> FALSE, seen |-> 0]

Init ==
    /\ defects = <<>>
    /\ issues = <<>>
    /\ job = [p \in Actors |-> Idle]
    /\ counter = [r \in Runs |-> 0]

---------------------------------------------------------------------------
\* classify_failure, then one commit of the Classification and the draft;
\* only an allowed product defect goes on to be described and filed.
run_defect_pipeline(r) ==
    \E flow \in Flows, ev \in Evidences :
      LET d == classify_failure(ev, flow)
          row == [run |-> r, flow |-> flow, artifacts |-> ev.artifacts,
                  classification |-> d.classification,
                  confidence |-> d.confidence,
                  fingerprint |-> d.fingerprint,
                  jira_key |-> NoKey, status |-> "draft"]
          files == /\ d.classification = "product_defect"
                   /\ may_autofile(Autonomous, Threshold, d.confidence)
      IN  /\ job[r] = Idle
          /\ Len(defects) < MaxDefects
          /\ defects' = Append(defects, row)
          /\ job' = [job EXCEPT ![r] =
                       IF files
                       THEN [pc |-> "search", id |-> Len(defects) + 1,
                             status |-> "draft", jira_key |-> NoKey,
                             key |-> NoKey, named |-> TRUE,
                             created |-> FALSE, seen |-> 0]
                       ELSE Idle]
          /\ UNCHANGED <<issues, counter>>

\* The reviewer's apply loads the row, whatever its status, and has it
\* described: by the model or, on any refusal or error, by a template, so that
\* filing goes on either way.
apply_defect(q) ==
    \E d \in DOMAIN defects :
      /\ job[q] = Idle
      /\ job' = [job EXCEPT ![q] = Filing(d)]
      /\ UNCHANGED <<defects, issues, counter>>

open_issues(fp) ==
    {k \in DOMAIN issues : issues[k].open /\ issues[k].fingerprint = fp}

\* A reviewer's filing always starts from zero.
run_counter(p) == IF p \in Runs THEN counter[p] ELSE 0

\* Mutant: a row without a key is not searched for.
search_jql_unfiled(p) ==
    /\ job[p].pc = "search"
    /\ job' = [job EXCEPT ![p].pc = "create", ![p].seen = Len(issues)]
    /\ UNCHANGED <<defects, issues, counter>>

\* The search by label: update an open issue, or create one under the cap.
search_jql(p) ==
    LET hits == open_issues(defects[job[p].id].fingerprint)
    IN  /\ job[p].pc = "search"
        /\ \/ \E k \in hits :
                job' = [job EXCEPT ![p].pc = "attach", ![p].key = k]
           \/ /\ hits = {} /\ run_counter(p) >= Cap
              /\ job' = [job EXCEPT ![p] = Idle]
           \/ /\ hits = {} /\ run_counter(p) < Cap
              /\ job' = [job EXCEPT ![p].pc = "create",
                                    ![p].seen = Len(issues)]
        /\ UNCHANGED <<defects, issues, counter>>

\* The issue's key is read from the reply, which may lack it: filing goes on.
create_issue(p, named) ==
    /\ job[p].pc = "create"
    /\ Len(issues) < MaxIssues
    /\ issues' = Append(issues,
         [fingerprint |-> defects[job[p].id].fingerprint, open |-> TRUE,
          by |-> p, seen |-> job[p].seen, raised |-> FALSE, named |-> named])
    /\ job' = [job EXCEPT ![p].pc = "attach", ![p].created = TRUE,
                          ![p].key = Len(issues) + 1, ![p].named = named]
    /\ UNCHANGED <<defects, counter>>

\* The artifacts cited by the last classification of the row's run and flow.
load_evidence(d) ==
    LET same == {e \in DOMAIN defects : /\ defects[e].run = defects[d].run
                                        /\ defects[e].flow = defects[d].flow}
    IN  defects[CHOOSE e \in same : \A f \in same : f <= e].artifacts

\* An open issue gets a comment; each artifact is attached; a new issue is
\* linked as well as may be.
add_evidence(p) ==
    /\ job[p].pc = "attach"
    /\ job' = [job EXCEPT ![p].pc = "commit"]
    /\ UNCHANGED <<defects, issues, counter>>

\* The jira_key of the FileResult; NoKey for None.
result_key(j) == IF j.named THEN j.key ELSE NoKey

\* Mutant: the key is written only when the status changes as well.
flushed_with_status(row, j) ==
    IF j.status # "applied" /\ row.status # "rejected"
    THEN [row EXCEPT !.jira_key = result_key(j), !.status = "applied"]
    ELSE [row EXCEPT !.status = "applied"]

\* The UPDATE sets the columns that differ from those loaded.
flushed(row, j) ==
    [row EXCEPT !.jira_key = IF result_key(j) # j.jira_key THEN result_key(j) ELSE @,
                !.status = IF j.status # "applied" THEN "applied" ELSE @]

\* Mutant: the caller of the pipeline is handed the counter it passed in.
persist_filed_uncounted(p) ==
    /\ job[p].pc = "commit"
    /\ defects' = [defects EXCEPT ![job[p].id] = flushed(@, job[p])]
    /\ job' = [job EXCEPT ![p] = Idle]
    /\ UNCHANGED <<issues, counter>>

\* The key and the status are committed, and the pipeline returns its counter.
persist_filed(p) ==
    /\ job[p].pc = "commit"
    /\ defects' = [defects EXCEPT ![job[p].id] = flushed(@, job[p])]
    /\ counter' = IF p \in Runs /\ job[p].created
                  THEN [counter EXCEPT ![p] = @ + 1] ELSE counter
    /\ job' = [job EXCEPT ![p] = Idle]
    /\ UNCHANGED issues

\* Any call of the gateway, or the commit, raises: the handler answers 500 or
\* the pipeline's caller goes on with the counter it had.  An issue that was
\* being filed by p stays in Jira.  Without artifacts a new issue has no
\* attachment that could fail.
filing_raises(p) ==
    /\ job[p].pc \in {"search", "create", "attach", "commit"}
    /\ job[p].pc = "attach" /\ job[p].created => load_evidence(job[p].id) > 0
    /\ issues' = IF job[p].created
                 THEN [issues EXCEPT ![job[p].key].raised = TRUE] ELSE issues
    /\ job' = [job EXCEPT ![p] = Idle]
    /\ UNCHANGED <<defects, counter>>

\* reject loads the row and sets its status, whatever it was.
reject_defect(d) ==
    /\ defects[d].status # "rejected"
    /\ defects' = [defects EXCEPT ![d].status = "rejected"]
    /\ UNCHANGED <<issues, job, counter>>

\* External: somebody resolves an issue in Jira.
issue_resolved(k) ==
    /\ issues[k].open
    /\ issues' = [issues EXCEPT ![k].open = FALSE]
    /\ UNCHANGED <<defects, job, counter>>

file_or_update(p) ==
    \/ search_jql(p)
    \/ \E named \in BOOLEAN : create_issue(p, named)
    \/ add_evidence(p)

Next ==
    \/ \E r \in Runs : run_defect_pipeline(r)
    \/ \E q \in Requests : apply_defect(q)
    \/ \E p \in Actors : \/ file_or_update(p) \/ persist_filed(p)
                         \/ filing_raises(p)
    \/ \E d \in DOMAIN defects : reject_defect(d)
    \/ \E k \in DOMAIN issues : issue_resolved(k)

Spec == Init /\ [][Next]_vars

---------------------------------------------------------------------------
Keys == 0..MaxIssues
Fingerprints == {classify_failure(ev, f).fingerprint : ev \in Evidences, f \in Flows}
Rows == [run: Runs, flow: Flows, artifacts: {ev.artifacts : ev \in Evidences},
         classification: Classes, confidence: 0..100, fingerprint: Fingerprints,
         jira_key: Keys, status: Statuses]
Tickets == [fingerprint: Fingerprints, open: BOOLEAN, by: Actors, seen: Keys,
            raised: BOOLEAN, named: BOOLEAN]
Filings == [pc: {"search", "create", "attach", "commit"}, id: 1..MaxDefects,
            status: Statuses, jira_key: Keys, key: Keys, named: BOOLEAN,
            created: BOOLEAN, seen: Keys]

\* The tables, Jira and the handlers hold what their columns and calls allow.
TypeOK ==
    /\ defects \in Seq(Rows) /\ Len(defects) <= MaxDefects
    /\ issues \in Seq(Tickets) /\ Len(issues) <= MaxIssues
    /\ job \in [Actors -> Filings \cup {Idle}]
    /\ counter \in [Runs -> 0..Cap]

\* The issues Jira has created for a row's failure.
IssuesOf(d) == {k \in DOMAIN issues : issues[k].fingerprint = defects[d].fingerprint}

\* A defect shown as applied names an issue of its own failure, however
\* applies, rejects, partial UPDATEs, lost answers and resolved issues
\* interleave; it names none only when Jira created one and did not say which,
\* which JiraGateway promises never to happen and pipeline.py lets pass
\* (routers/defects.py, apply_defect).
AppliedNamesItsIssue ==
    \A d \in DOMAIN defects : defects[d].status = "applied" =>
      \/ defects[d].jira_key \in IssuesOf(d)
      \/ defects[d].jira_key = NoKey /\ \E k \in IssuesOf(d) : ~issues[k].named

\* Of two open issues for one failure, the later one was searched for before
\* the earlier one existed: a retry after a failed attachment or a lost
\* answer, a second apply or another run never files a duplicate, only two
\* filings at the same time do (pipeline.py, file_or_update).
DuplicatesOnlyByRace ==
    \A k, l \in DOMAIN issues :
      /\ k < l /\ issues[k].open /\ issues[l].open
      /\ issues[k].fingerprint = issues[l].fingerprint
      => issues[l].seen < k

\* The autonomous issues of a run stay under the cap, except for one more per
\* filing that raised after Jira had created its issue: the counter of such a
\* filing is lost (pipeline.py, run_counter).
CapHolds ==
    \A r \in Runs :
      Cardinality({k \in DOMAIN issues : issues[k].by = r /\ ~issues[k].raised})
        <= Cap

\* No ticket without a row: every issue carries the fingerprint of a committed
\* defect, and one filed without a reviewer is of a product defect that was
\* sure enough, in that very run (pipeline.py, run_defect_pipeline).
TicketsAreDrafted ==
    \A k \in DOMAIN issues : \E d \in DOMAIN defects :
      /\ defects[d].fingerprint = issues[k].fingerprint
      /\ issues[k].by \in Runs =>
           /\ defects[d].run = issues[k].by
           /\ defects[d].classification = "product_defect"
           /\ defects[d].confidence >= Threshold

\* Nothing is filed past the gates: every issue has its committed defect, and
\* the unreviewed ones are sure enough and within the run's cap.
FilingIsGated == TypeOK /\ CapHolds /\ TicketsAreDrafted
===========================================================================
