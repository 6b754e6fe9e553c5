----------------------------- MODULE RunLedger -----------------------------
(***************************************************************************)
(* The first-generation run ledger: POST /explore, /generate-bdd, the spec *)
(* renderer and POST /execute, whose work is done by BackgroundTasks of    *)
(* the api process and reported through one run_id-keyed poll.             *)
(*                                                                         *)
(* The tasks are not durable: an api crash drops them and nothing restarts *)
(* them.  Execution rows are looked up by run_id without an order, so any  *)
(* row of the run may be the one that is read or finished.                 *)
(***************************************************************************)
EXTENDS Naturals, Sequences, FiniteSets

CONSTANTS
    Runs,          \* run ids
    Replies,       \* what the gateway answers: "valid", "malformed", "empty"
    MaxExecs,      \* bound: Execution rows
    MaxFailures    \* bound: api crashes plus writes of a task's end that raise

ASSUME RunLedgerAssumption ==
    /\ Replies \subseteq {"valid", "malformed", "empty"}
    /\ MaxExecs \in Nat /\ MaxFailures \in Nat

VARIABLES
    run,           \* the runs table
    explore,       \* the explore task of each run
    files,         \* <<run, file>> in the workspaces tree
    execs,         \* the executions table, by id
    tasks,         \* the execute task that was created with each row
    failures       \* crashes and raising writes so far

rvars == <<run, explore>>
evars == <<execs, tasks>>
runsVars == <<run, explore, files, execs, tasks, failures>>

VALID == {"queued", "running", "passed", "failed"}
Terminal == {"passed", "failed"}
Absent == [row |-> "absent"]

RunsInit ==
    /\ run = [r \in Runs |-> Absent]
    /\ explore = [r \in Runs |-> "none"]
    /\ files = {}
    /\ execs = <<>>
    /\ tasks = <<>>
    /\ failures = 0

---------------------------------------------------------------------------
(* Exploration, as far as the ledger sees it.                              *)

set_status(r, status) ==
    /\ status \in VALID
    /\ run[r] # Absent
    /\ run' = [run EXCEPT ![r].status = status]

\* POST /explore.
create_run(r) ==
    /\ run[r] = Absent
    /\ run' = [run EXCEPT ![r] = [status |-> "queued"]]
    /\ explore' = [explore EXCEPT ![r] = "queued"]
    /\ UNCHANGED <<files, evars, failures>>

explore_starts(r) ==
    /\ explore[r] = "queued"
    /\ set_status(r, "running")
    /\ explore' = [explore EXCEPT ![r] = "running"]
    /\ UNCHANGED <<files, evars, failures>>

\* Mutant: only some of the exceptions are caught.
explore_ends_uncaught(r) ==
    \E status \in Terminal :
      /\ explore[r] = "running"
      /\ set_status(r, status) \/ (status = "failed" /\ UNCHANGED run)
      /\ explore' = [explore EXCEPT ![r] = "ended"]
      /\ UNCHANGED <<files, evars, failures>>

\* A crawl that stops by itself passed, whatever stopped it; any exception (the
\* first set_status, an unknown target, a failed sign-in, the browser) is caught
\* and recorded.
explore_ends(r) ==
    \E status \in Terminal :
      /\ explore[r] = "running" \/ (explore[r] = "queued" /\ status = "failed")
      /\ set_status(r, status)
      /\ explore' = [explore EXCEPT ![r] = "ended"]
      /\ UNCHANGED <<files, evars, failures>>

---------------------------------------------------------------------------
(* Generation writes run_id-keyed files, each only when it is valid.       *)

\* POST /generate-bdd: 404 without a run, 422 on an empty or malformed reply.
generate_bdd(r) ==
    \E reply \in Replies :
      /\ run[r] # Absent
      /\ files' = IF reply = "valid" THEN files \cup {<<r, "login.feature">>}
                  ELSE files
      /\ UNCHANGED <<rvars, evars, failures>>

\* The reply fills one label, which has a default: the spec is always
\* rendered.
generate_scripts(r) ==
    /\ files' = files \cup {<<r, "test_login.py">>}
    /\ UNCHANGED <<rvars, evars, failures>>

---------------------------------------------------------------------------
(* Execution: a row and a task per POST, tied by nothing but the run_id.   *)

RowsOf(r) == {i \in DOMAIN execs : execs[i].run = r}
TasksOf(r) == {i \in DOMAIN tasks : tasks[i].run = r}

\* POST /execute: 404 without a spec.  A run may be executed again.
create_execution(r) ==
    /\ <<r, "test_login.py">> \in files
    /\ Len(execs) < MaxExecs
    /\ execs' = Append(execs, [run |-> r, status |-> "queued", result |-> 0])
    /\ tasks' = Append(tasks, [run |-> r, pc |-> "queued", status |-> "failed"])
    /\ UNCHANGED <<rvars, files, failures>>

\* The subprocess ends, or cannot be started: the status starts as failed
\* and is passed on exit code 0 only.
run_execution(i) ==
    \E status \in Terminal :
      /\ tasks[i].pc = "queued"
      /\ tasks' = [tasks EXCEPT ![i].pc = "finish", ![i].status = status]
      /\ UNCHANGED <<rvars, files, execs, failures>>

\* Mutant: the newest row is finished, whatever run it belongs to.
finish_execution_newest(i) ==
    /\ tasks[i].pc = "finish"
    /\ execs' = [execs EXCEPT ![Len(execs)] =
         [@ EXCEPT !.status = tasks[i].status, !.result = i]]
    /\ tasks' = [tasks EXCEPT ![i].pc = "ended"]
    /\ UNCHANGED <<rvars, files, failures>>

\* The row to finish is any row of the run.
finish_execution(i) ==
    \E k \in RowsOf(tasks[i].run) :
      /\ tasks[i].pc = "finish"
      /\ tasks[i].status \in VALID
      /\ execs' = [execs EXCEPT ![k] =
           [@ EXCEPT !.status = tasks[i].status, !.result = i]]
      /\ tasks' = [tasks EXCEPT ![i].pc = "ended"]
      /\ UNCHANGED <<rvars, files, failures>>

\* What the poll may answer: a row of the executions table when the run has
\* one, else the runs row.
get_status_by_run_id(r) ==
    IF RowsOf(r) # {} THEN {execs[i].status : i \in RowsOf(r)}
    ELSE IF run[r] # Absent THEN {run[r].status}
    ELSE {}

---------------------------------------------------------------------------
\* The api process dies: its tasks are gone, the rows stay.
api_crashes ==
    /\ failures < MaxFailures
    /\ failures' = failures + 1
    /\ explore' = [r \in Runs |->
         IF explore[r] \in {"none", "ended"} THEN explore[r] ELSE "lost"]
    /\ tasks' = [i \in DOMAIN tasks |->
         IF tasks[i].pc = "ended" THEN tasks[i]
         ELSE [tasks[i] EXCEPT !.pc = "lost"]]
    /\ UNCHANGED <<run, files, execs>>

\* The handler's own write of "failed" raises: nothing is left to catch it.
explore_write_fails(r) ==
    /\ explore[r] \in {"queued", "running"}
    /\ failures < MaxFailures
    /\ failures' = failures + 1
    /\ explore' = [explore EXCEPT ![r] = "lost"]
    /\ UNCHANGED <<run, files, evars>>

\* finish_execution or its commit raises, outside the try of run_execution: the
\* task is gone and the row stays as it was.
finish_write_fails(i) ==
    /\ tasks[i].pc = "finish"
    /\ failures < MaxFailures
    /\ failures' = failures + 1
    /\ tasks' = [tasks EXCEPT ![i].pc = "lost"]
    /\ UNCHANGED <<rvars, files, execs>>

RunTask(r) == explore_starts(r) \/ explore_ends(r) \/ explore_write_fails(r)
ExecTask(i) == run_execution(i) \/ finish_execution(i) \/ finish_write_fails(i)

RunsNext ==
    \/ \E r \in Runs : create_run(r) \/ RunTask(r) \/ generate_bdd(r)
                       \/ generate_scripts(r) \/ create_execution(r)
    \/ \E i \in DOMAIN tasks : ExecTask(i)
    \/ api_crashes

\* The event loop starts every scheduled task, and a write to the database
\* returns or raises.  A child process need not end (proc.communicate() has no
\* timeout), and a crawl need not either: it waits on the browser.
Fairness ==
    /\ \A r \in Runs : WF_runsVars(explore_starts(r))
    /\ \A i \in 1..MaxExecs :
         WF_runsVars(i \in DOMAIN tasks /\ finish_execution(i))

RunsSpec == RunsInit /\ [][RunsNext]_runsVars /\ Fairness

---------------------------------------------------------------------------
RunsTypeOK ==
    /\ run \in [Runs -> {Absent} \cup [status : VALID]]
    /\ explore \in [Runs -> {"none", "queued", "running", "ended", "lost"}]
    /\ files \subseteq Runs \X {"login.feature", "test_login.py"}
    /\ Len(execs) <= MaxExecs /\ Len(tasks) = Len(execs)
    /\ \A i \in DOMAIN execs :
         execs[i] \in [run : Runs, status : VALID, result : 0..Len(tasks)]
    /\ \A i \in DOMAIN tasks :
         tasks[i] \in [run : Runs, status : Terminal,
                       pc : {"queued", "finish", "ended", "lost"}]
    /\ failures \in 0..MaxFailures

\* A finished row reports an execution of its own run: a task that ended,
\* with that task's verdict.  A row nobody finished is still queued
\* (finish_execution, run_execution).
RowsReportTheirRun ==
    \A i \in DOMAIN execs :
      LET row == execs[i] IN
      IF row.result = 0 THEN row.status = "queued"
      ELSE /\ tasks[row.result].run = row.run
           /\ tasks[row.result].pc = "ended"
           /\ tasks[row.result].status = row.status

\* The poll of a run that was executed once tells how that execution ended;
\* the poll of one executed several times can tell the end of an execution
\* as soon as one has ended (get_status_by_run_id, finish_execution).
EndedExecutionsAreReported ==
    \A r \in Runs :
      LET ended == {i \in TasksOf(r) : tasks[i].pc = "ended"} IN
      /\ ended # {} => get_status_by_run_id(r) \cap Terminal # {}
      /\ \A i \in ended : TasksOf(r) = {i} =>
           get_status_by_run_id(r) = {tasks[i].status}

\* Rows and executions agree both ways: a row tells of an execution of its run,
\* and an execution that ended is told by a row.
RowsMatchExecutions ==
    RunsTypeOK /\ RowsReportTheirRun /\ EndedExecutionsAreReported

\* A task of the run was dropped: by a crash, or by the write of its own end.
TaskLost(r) == explore[r] = "lost" \/ \E i \in TasksOf(r) : tasks[i].pc = "lost"

\* What the run waits for and nothing bounds: its crawl, or its child process.
Waits(r) == explore[r] = "running" \/ \E i \in TasksOf(r) : tasks[i].pc = "queued"

\* Every poll of a run that was executed at most once becomes terminal, whatever
\* the exploration, the target or the subprocess did, unless a task of the run
\* was dropped or the crawl or the child never ends (run_explore, run_execution).
PollBecomesTerminal ==
    \A r \in Runs :
      get_status_by_run_id(r) # {} ~>
        \/ get_status_by_run_id(r) \subseteq Terminal
        \/ TaskLost(r)
        \/ []Waits(r)
        \/ Cardinality(RowsOf(r)) > 1
============================================================================
