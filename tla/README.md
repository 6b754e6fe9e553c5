# FEBAL automation platform: TLA+ models and proofs

FEBAL explores a web application with an LLM-driven browser, learns its flows,
generates BDD tests from them, runs the tests, heals broken locators and files
defects. This directory models the parts of it whose correctness depends on
order, concurrency, failure or limits, checks them with TLC and proves the most
important properties with TLAPS. Paths are relative to `src/apps/api/app` unless
they begin with `apps/` or `src/`.

## 1. The system and its parts

| Part | State it keeps | Operations | What makes it correct |
|---|---|---|---|
| Execution plane: `services/exec_service.py`, `services/worker/`, `worker_main.py`, `routers/executions.py` | TestRun and TestResult rows (Postgres), the job queue (RabbitMQ), the kill flag (Redis), the worker's current job | start, enqueue, deliver, run an attempt, record, abort, publish, ack, kill, crash and restart | a job is acked only after its verdict is durable; a delivery records at most once; a kill stops attempts; verdicts follow from what ran |
| Live execution view: `services/worker/progress.py`, `routers/executions.py`, `apps/web/app/(dashboard)/executions/[runId]/page.tsx` | a Redis channel, one SSE response, the page's React state | publish, snapshot, subscribe, forward, reconnect, kill button | what the page shows was true, never goes back, and catches up |
| LLM gateway: `services/llm_gateway.py`, `routers/admin_llm.py` | Redis counters per day and run, kill-switch, cache; llm_usage rows | `complete()`, set and clear the switch | the counters stay near the caps under concurrency; the switch halts everything; the accounts stay ordered |
| Explorer: `services/explorer/`, `routers/explore.py` | the LangGraph state, the browser page, the Run row, a cancel flag, the knowledge graph | the eight nodes, sign-in, stop, snapshot | caps hold, every request has its reason, no link is lost, a stop is prompt, the run ends |
| Scenario generation and review: `services/generation.py`, `services/scenario_service.py`, `routers/scenarios.py`, `services/gates/` | Scenario rows, the project tree | generate, edit, approve, reject, generate the project | only what a human approved is generated; gates see what is stored |
| Self-healing: `templates/healing/`, `services/healing/`, `routers/heals.py` | the heal journal, HealAudit rows, page-object files | heal, ingest, apply, reject | every rewrite is on record, an unreviewed one was sure |
| Defects and Jira: `services/defects/`, `services/jira/`, `routers/defects.py` | Classification and Defect rows, Jira issues | classify, file or update, apply, reject | one open issue per fingerprint, a cap per run, row and issue agree |
| Knowledge graph: `services/kg/`, `routers/kg.py` | Neo4j nodes and edges | upserts, flow mining, risk, coverage | algorithms meet their definitions |
| Users and roles: `routers/users.py`, `routers/auth.py`, `core/security.py`, `services/rbac.py` | User rows, tokens in cookies | sign in, refresh, sign out, assign role | a session ends, a demotion takes effect, somebody can still administer |
| First-generation runs: `services/run_service.py`, `services/execution.py`, `routers/execute.py` | Run and Execution rows, the spec file | create, explore, generate, execute, finish, poll | a row reports its run, and the poll ends |
| Targets, search, dashboards, traceability, stability, web forms, infrastructure | rows and indices | create/read/update, aggregation | see section 7 |

How they interact. The api process serves routers and runs explorations as
in-process background tasks; the worker is a second process that consumes jobs
from RabbitMQ. They share Postgres, Redis (kill flags, cancel flags, budgets,
cache, progress channels) and Neo4j. The explorer, generation and defect analysis
spend through the gateway. The worker reads the heal journal that the generated
specs write, and publishes frames that the live page receives over SSE.

What is hard. Every `await` is a point where another request, the worker or an
admin may act. Writes that belong together are separate commits (row then frame
then ack; status then stop reason; counter then cache then switch then ledger).
Messages are delivered again after a crash. A purge hits every run's jobs. The
stop and kill flags are polled at fixed places. Snapshots are read before the
subscription that completes them. `PROJECT.json` lists each hazard at its line
with the properties that would catch it.

## 2. Modules

| Module | Models | State and actions |
|---|---|---|
| `ExecEngine` | the execution plane | `testRun`, `unsent`, `msg`, `deliveries`, `killFlag`, `results` are the tables, the queue and Redis; `cur`, `pc`, `exitCodes` the worker's frame in `run_flow_job`. One action per step between two awaits: `start_execution`, `enqueue_job`, `enqueue_fails`, `kill_set_flag`, `kill_purge`, `kill_no_purge`, `deliver`, `take_job`, `check_kill`, `run_attempt`, `check_kill_between`, `record_result`, `abort_flow`, `publish_event`, `ack_job`, `worker_stops`, `worker_start` |
| `JobLedger` | what the plane promises of a message | abstract: published, rows grow while pending, finished only with a row, or dropped |
| `ExecLiveView` | frames, SSE endpoint, live page | the engine's commit and publish steps with the frame's content, the subscription, the pipe, the page |
| `LLMGateway` | `complete()` and the switch | one action per await for any number of callers; midnight, the expiry of run and day counters (`expire_run`, `expire_day`), dropped calls |
| `Explorer` | one exploration run | one action per node of the graph, the driver's commits, the stop route; the web application is a constant |
| `ScenarioReview` | the review queue and the project tree of one run | `rows` is the table, `kg` the graph the no-vacuous gate asks, `req` what each request's handler holds (the row its session loaded, the row it wants), `tree` the feature files. One action per stretch between two awaits of `generate_scenarios`, `edit_scenario`, `approve_scenario`, `reject_scenario` and `generate_project`; `Flushed` is the UPDATE of the changed columns, `save` the end of its transaction |
| `DefectClassifier` | evidence, classification, confidence, fingerprint, gate | operators; an error text is the set of patterns it matches, its words and its noise |
| `DefectFiling` | the defect table and Jira | `defects`, `issues`, `counter` (the pipeline's per-run count) and `job`, what each filing holds between awaits. `run_defect_pipeline`, `apply_defect`, the three calls of `file_or_update` (`search_jql`, `create_issue`, whose reply may lack the key, `add_evidence`), `persist_filed`, `filing_raises`, `reject_defect`; `issue_resolved` is external |
| `HealReview` | heals from the spec to the script repository | `pages` is the lines of the page objects on disk, of which a rewrite takes the first with the attribute's name, `journal` the spec's file, `audit` the table, `graph` the element repository, `job` the worker's frame. `heal`, `parse_heal_journal` (nothing of a file over `MAX_SIZE`, the first `MAX_ENTRIES` of another), `skip_entry` (an entry that fails `_validate_entry`), `ingest_heal_journal`, `commit_result`, `ack_job`, `worker_dies`, `abort_flow`, `apply_heal` with its commit or failure, `reject_heal`, `generate_project` |
| `RunLedger` | first-generation runs | `run` and `execs` are the tables, `explore` and `tasks` the background tasks, `files` the workspace; `explore_write_fails` and `finish_write_fails` are the writes of a task's end that raise |
| `Accounts` | users, tokens and roles | `role` is the table, `held` each client's cookies, `req` a role change between its awaits; `tick` ages the tokens |
| `FlowRisk` | signals, score and tier of a journey | operators over sequences of pages and edge types |
| `FlowMining` | reading, flow mining, ranking and tiers | operators on top of `FlowRisk`; `flows_source` reads at most `LIMIT` nodes and edges; `walk` is recursive, so the module has no theorem |
| `HealScoring` | similarity, confidence, heal statistics | operators over fractions |
| `Reports` | traceability, search documents and query, coverage, acceptance | operators over a record of row sets |
| `ExecEngineProofs`, `ExecLiveViewProofs`, `LLMGatewayProofs`, `ExplorerProofs`, `ScenarioReviewProofs`, `DefectFilingProofs`, `HealReviewProofs` | | the inductive invariants of these modules and the theorems about them |
| `Algorithms` | | the operator modules applied to inputs: the sets of inputs are constants, one action per kind of input picks one, and invariants say what is computed for it |
| `ApiProofs` | | the same for `Accounts` and `RunLedger`, and what the operators of `Reports`, `FlowRisk` and `HealScoring` compute for every input |
| `MCExecEngine`, `MCExecLiveView`, `MCLLMGateway`, `MCExplorer`, `MCScenarioReview`, `MCDefectFiling`, `MCHealReview`, `MCRunLedger`, `MCAccounts` | | instances for TLC |
| `MCAlgorithms` | | the instance of `Algorithms` for TLC: the sets of inputs, and what is said of the recursive operators of `FlowMining` |

`ExecEngine` and `ExecLiveView` meet at `record_result`/`abort_flow` and
`publish_event`: the first leaves out what a frame holds, the second leaves out
where rows come from. `Explorer` meets `LLMGateway` at `decide`, where a call
either answers with an index or is refused. `HealReview` takes the outcome of a
heal from the thresholds, `HealScoring` how the score comes about; its journal is
the `Journals` input of `ExecEngine`. `DefectFiling` is built on
`DefectClassifier`.

Data is abstract: a flow, a prompt, a page or a payload is a model value; an
amount is a natural number per axis; a reply of the model is the index read from
it. Definitions named `..._unnamed`, `..._once` and so on, marked "Mutant", are faulty
variants of the definition that follows; no specification uses them. They show
that each property of a run can fail.

## 3. Runs

Runs that must pass:

| Run | Question | Bounds and why they are enough |
|---|---|---|
| `exec_safety` | Do verdicts survive every interleaving of two runs, kills, purges and one crash or raising job, is every published job consumed or purged unless an attempt hangs, and does the engine implement `JobLedger`? | 2 runs of one job, the code's 3 attempts, prefetch 2, 1 failure, with and without a heal journal, with fairness. A job of each run can be ready, prefetched and running at the time of a kill, and wait behind the other's. The theorems of section 5 cover any number of jobs and every journal. |
| `live_view` | Is what the page shows true, monotone and up to date? | 2 flows, 3 rows, 2 dropped connections or lost frames; a flow can be recorded twice and a reconnect can fall anywhere around a frame. |
| `gateway_safety` | How far can concurrent calls exceed a cap, does the switch halt, do the accounts agree? | 2 callers (the race needs two), 2 runs, 3 days (a day's counter may expire on the third), 3 answered calls, 1 disturbance (an admin's action, a dropped call or an expiry; the theorems cover any number); four requests that differ in cacheability, price, reservation and overrides. |
| `explore_safety` | Do caps, origin, stop, announcement, graph and termination hold? | 6 pages, 3 fingerprints, redirect, refused, off-origin and skipped elements, 4 steps, depth 3, 2 revisits: every stop reason is reached. |
| `review_safety` | What do edits, approvals, rejections and code generation leave behind when they race? | 2 requests (a race needs two), 1 row, 2 texts that lint and 1 that does not, every set of 2 refs of which the graph holds 1 at first. Rows do not interact; the proofs cover any number. Requests and the two good texts are symmetric. |
| `defect_filing` | Do row and issue agree, are duplicates filed, do caps hold, when filings race, fail half way and are repeated? | 1 reviewer and 1 pipeline (a race needs two), 2 rows, 2 issues, cap 1, the code's threshold; the same failure with other numbers, and one that is not sure enough. |
| `heal_review` | Is every rewritten locator on record and justified across crash, redelivery, kill and review? | 1 job with up to 3 journal entries, with a parser that reads 1 entry of at most 2 and nothing of a larger file (longer ones by the theorem), a name it takes and one too long for it, one name on two pages, 1 crash, 4 audit rows, 1 reviewer, 2 chains and an unset one, the code's thresholds with a score at each edge, the graph up or down. |
| `first_gen_runs` | What do Run and Execution rows say after repeated and crossed executions and a crash or a failing write? | 2 runs, 2 executions that may be of one run, 1 failure, every kind of reply of the model. |
| `accounts` | Do sessions end, do role changes hold, does an admin remain? | 3 users (symmetric but for the admin), 2 clients (two role changes may cross), access life 2, refresh life 3: a token can outlive another. |
| `algorithms` | Do the pure algorithms compute what they are for? | All graphs of 3 pages and an endpoint in two orders with caps 3 and 5, and one with more pages than the reader's limit of 7; 3 flows with up to 2 results in 3 runs; all pairs of 216 elements; up to 3 heal rows; 2 flows in 2 executions; 4 soak runs. Each cap is met and exceeded. |

What the properties say is stated above each in the modules. In short:

* `ExecEngine`: `AckedIsRecorded`, `OneRowPerDelivery`, `KillStopsAttempts`,
  `VerdictsAreJustified`, `JobsSettle`, `ImplementsLedger`.
* `ExecLiveView`: `PageWasTrue` (`CountersWereTrue`, `ShownRowsWereTrue`),
  `CountersNeverRegress`, `FrameReachesPage`.
* `LLMGateway`: `OvershootBounded`, `LedgerWithinBudgetWithinSpend`,
  `HaltIsComplete`, `ExhaustionTrips`.
* `Explorer`: `CapsHold`, `RequestsAreJustified`, `LinksAreNotLost`, `StopIsPrompt`,
  `RecordsAgree` (`AnnouncedAsRecorded`, `GraphIsClosed`), `RunEnds`.
* `ScenarioReview`: `StoredPassesGates`, `TreeWasApproved`, `UnracedCommitIsExact`.
* `DefectFiling`: `AppliedNamesItsIssue`, `DuplicatesOnlyByRace`, `FilingIsGated`
  (`CapHolds`, `TicketsAreDrafted`).
* `HealReview`: `AuditIsComplete` (`RewritesAreAudited`,
  `AckedJournalsAreAudited`), `UnreviewedRewritesWereSure`.
* `RunLedger`: `RowsMatchExecutions` (`RowsReportTheirRun`,
  `EndedExecutionsAreReported`), `PollBecomesTerminal`.
* `Accounts`: `SessionsAreSound` (`SessionsEnd`, `NoStaleRole`), `AdminRemains`.
* `MCAlgorithms`: `MiningIsExact`, `RiskOrdersFlows` (`RiskGrowsAlongAFlow`,
  `TopRiskIsChosen`).
* `Algorithms`: `HealScoresAreSound` (`SimilarityIsSound`,
  `SizeAloneNeverHeals`, `RejectedIsNoSuccess`), `ChainsNest`,
  `BackfillLosesOnlyFailureText`, `ReportsAreExact` (`CoverageIsExact`,
  `AcceptedIsStable`), `ClassificationIsCautious`.

The names in brackets are the parts of the conjunction a run checks. The type
invariant is a run's own property where a theorem states it, and otherwise one of
those parts; that of `ScenarioReview` is proved.

Where the code does less than its comments say and no run is about it, the property
says what the code does and the exception is part of its formula: `RecordsAgree`,
`AuditIsComplete`, `AppliedNamesItsIssue`, `AdminRemains`, `PollBecomesTerminal`,
`BackfillLosesOnlyFailureText`, `ReportsAreExact`, `ClassificationIsCautious`,
`MiningIsExact`. Section 7 quotes the comments.

Runs that must find a violation. Each checks one sentence of a comment or
docstring that the code does not keep; `PROJECT.json` quotes it.

| Run | The sentence | What the code does |
|---|---|---|
| `exec_kill` | a killed run's remaining flows resolve to aborted | purged flows get no result |
| `review_edit` | an edit replaces text and refs and stays draft | columns it does not change keep what another request committed meanwhile |

Bounds on failures, disturbances, rows and answers appear as constants
(`MaxFailures`, `MaxDrops`, `MaxRows`, `MaxAnswers`, `MaxEvents`, `Days`,
`MaxSkips`, `MaxScenarios`, `MaxFlows`, `MaxDefects`, `MaxIssues`, `MaxJournal`,
`MaxAudit`, `MaxCrashes`, `MaxExecs`) and are tested in the guards of the actions they bound.
`MAX_ENTRIES`, `MAX_SIZE`, `LIMIT`, `MAX_PATH_LENGTH` and `MAX_FLOWS` are the code's own
limits, with small values.
`CHECK_DEADLOCK FALSE` stands where the system may really stop: a run that has
ended, a page whose bounds are used up, an input that was checked.

## 4. Fairness

Most awaits of this code have no timeout, so the fairness assumed is of two kinds:
what the event loop, the broker and the browser's EventSource do by themselves, and
assumptions about the environment, which are named as such.

* `ExecEngine`: weak fairness of publishing, delivery, taking and the steps of
  `run_flow_job` other than the attempt (`job_goes_on`). `proc.communicate()`
  (`stability.py:98`, awaited at `job.py:167`) has no timeout: a pytest that hangs
  holds the worker for ever. So nothing makes `run_attempt` end, and `JobsSettle`
  holds "or the worker is down or an attempt never ends" (`AttemptHangs`). Crashes,
  raising jobs, kills and the worker's restart are not fair.
* `ExecLiveView`: weak fairness of the worker's publish, of the endpoint and of
  the page's message handler. EventSource reopens a dropped connection by itself.
* `RunLedger`: weak fairness of the start of a scheduled exploration and of
  `finish_execution`. The child process (`execution.py:72`) and the crawl need not
  end, a crash or a failing write may drop a task, and `PollBecomesTerminal`
  excepts exactly these (`Waits`, `TaskLost`).
* `Explorer`: weak fairness of the background task's next step. This is an
  assumption about the environment: the clicks (`actions.py:49`), the page's content
  (`fingerprint.py:236`), the sign-in (`auth.py:250`) and the graph's writes
  (`nodes.py:356`, `:399`, `:594`) are awaited without a timeout of their own, and
  `RunEnds` says that the loop ends if each of them returns or raises. The stop,
  failures and restarts are not fair.

## 5. Proofs

`ExecEngineProofs` proves for all sets of runs and jobs, any number of attempts,
prefetch and failures: `TypeCorrect`, `AckAfterCommit`, `RowsPerDelivery`,
`KillIsPrompt`, `VerdictsSound` and `RefinesLedger`. None of the properties is
inductive. `ExecInv` adds why they hold: a job is published once
(`PublishedOnce`), the job the worker runs is its own unacked message
(`CurrentIsUnacked`), past the commit there is a row (`CommittedBeforeAck`), an
unacked delivery has not used its row (`DeliveryOwnsRow`), an attempt under way is
the first since the kill (`LateNeedsKill`), and the exit codes fit the place in
the retry loop (`AttemptsSoFar`). The refinement maps a message's place and its
rows to the ledger, under which most steps stutter.

`LLMGatewayProofs` proves for all finite sets of callers, and any requests, caps,
overrides and days: `GatewayTypeCorrect`, `OvershootIsBounded`, `HaltHolds`,
`ExhaustionIsNoticed` and `LedgersAreOrdered`. A bound on a counter is not one on the
spend: after its expiry a counter begins again. The inductive part of the second is `BudgetInv`: a counter plus one
maximal usage for every call in flight on it stays under the ceiling. The
pre-check that lets a call in keeps it because the counter was under the cap and
fewer than all callers were in flight; the reconcile turns a reserved usage into
a real one. This rests on the assumption that one call uses at most `MaxUsage`
(a provider limit; the code only bounds output tokens). `LedgersAreOrdered` needs
sums over the callers under way: a row that is still to be written must already
be in the counter as long as that is kept (`Kept`), a usage still to be counted already in the bill. `LedgerInv`
states the sums without recursion, as the number of elements of a set that has one
element per unit used (`Units`), so that the library's facts about cardinality
apply.

`ScenarioReviewProofs` proves for any requests, texts, refs and number of rows:
`TypeCorrect`, `StoredIsGated`, `TreeIsApproved` and `UnracedIsExact`. The
inductive invariant adds what a request carries: a linted text and, past its gate,
refs the graph has (`Gated`), so that a row mixed from the columns of two requests
still passes; a logged text for every row a project is rendered from (`Logged`);
and a loaded row equal to the stored one unless another commit changed it
(`Fresh`). It rests on the graph never losing a node: no code of the
repository deletes one.

`ApiProofs` proves for any accounts, roles, clients and lifetimes:
`SessionsHold` and `AdminIsKept`. The inductive invariant `AccountsInv` adds that a
refresh token never outlives its own life (`RefreshLife`), which bounds the access
tokens it is exchanged for, and that nobody's change under way is of their own role
(`NotOneself`), so that an author who is still an admin at the commit remains one.

For any runs, executions and crashes of the api it proves `RowsMatchTheorem` about
`RunLedger`. `LedgerInv` adds that a row and the task created with it
are of one run (`RowsHaveTheirTask`), since `finish_execution` looks for a row by
the run and not by the task, and that a task which ended has finished some row of
its run (`EndedAreTold`).

The rest of `ApiProofs` is about what operators compute. Each fact is a lemma for
arbitrary arguments, since the operators are set expressions and need no induction;
the theorems `PickSpec => [](...)` say it of every input that a behaviour of
`Algorithms` can pick (`PickInv`: the input is one of its kind), for any sets of
inputs that satisfy `AlgorithmsAssumption`. These are the invariants the
`algorithms` run checks, and TLC evaluates the assumption on its inputs.

* `ChainsNestTheorem`, for every database in which ids are keys, a defect has a
  run and is of a result (`SoundDatabase`), and anything mined.
* `BackfillTheorem`, for every set of rows, whichever of their documents the index
  held before: `search` finds every execution and no failure.
* `ReportsTheorem`, for every finite ground truth, every set of pages discovered,
  and every soak of at least `n` outcomes, with the bug's url or without. A percentage
  is an integer quotient: `PercentGrows` and `PercentBounds` are facts about `\div`. The soak ends at
  the first red run, found as the least member of a set of numbers
  (`LeastNumber`, from the well-foundedness of `<`).
* `RiskTheorem`, for every graph and every two journeys of any length. It has no
  `PickSpec`: the run's `RiskOrdersFlows` speaks of mined journeys, and mining is
  recursive.
* `HealScoresTheorem`, for every two elements (finite attribute sets, paths of any
  length, boxes with any position and sides that are not negative), every ratio of names
  that lies in 0..1, is 1 for no two different names and is 0 when one is missing
  (`RatioIsSound`, what difflib guarantees; it does not guarantee symmetry, so only the
  similarities of structure and look are shown to be symmetric), all thresholds and all
  ledger rows. Each similarity is characterised by a lemma (`JaccardIs`, `OverlapIs`,
  `IouIs`, `SizeIs`), and `BlendOfThree` says of a
  weighted mean that what it is short of 1 is the weighted sum of what its parts are.

`ExplorerProofs` proves for every web application (any pages, elements, redirects
and fingerprints), every budget and every sequence of answers: `CapsHoldTheorem`,
`RequestsAreJustifiedTheorem`, `LinksAreNotLostTheorem`, `StopIsPromptTheorem` and
`RecordsAgreeTheorem`. `ExplorerInv` adds that the choice is an element of the
page the browser is on (`ChoiceIsHere`), that what waits for `navigate` passed the
gates (`LinkIsAllowed`) and the frontier holds only links of the target's origin
(`FrontierIsOwn`); that while the loop goes on the budget has room for one more
iteration (`BudgetLeft`); that an iteration which ended after a stop is followed
by the read of the flag (`StopIsDue`); that a reason exists exactly from the place
where the loop ends and the terminal event has it (`ReasonIsTold`); and that a
state is written before it is counted (`CountedIsWritten`). The links that
`enumerate_node` queues are a set laid out in order; that no position of the menu
is missed is shown by taking the least one, in place of an induction.

`ExecLiveViewProofs` proves for any flows, verdicts and rows and any dropped
connections and lost frames: `PageWasTrueTheorem` and, for every step,
`CountersNeverRegressTheorem`. `LiveInv` follows a frame from the worker to the
page: wherever it is, it tells the first results and the flow of the last of them
(`FramesAreTrue`), and the page, the snapshot and the frames buffered behind it
are in the order of the results (`FramesAreInOrder`). That order is why a
snapshot may be sent after frames it already includes.

`DefectFilingProofs` proves for any requests, runs, flows, evidence, cap and
threshold: `FilingIsGatedTheorem`, `AppliedNamesItsIssueTheorem` and
`DuplicatesOnlyByRaceTheorem`. `FilingInv` says what a filing holds between its
awaits (`JobsAreSound`: its row exists, the issue in hand is of the row's
fingerprint, and none of the issues there were at its search matched), that an applied
row without a key has an issue Jira created without naming it (`Nameless`), that a key
in a row is sound even before the row is applied (`KeysAreSound`; a row flushed
half way may keep one), and that a pipeline's counter is the number of its issues
less the one in hand (`CountersAreSound`), which the cap needs.
`ClassificationTheorem` says of the classifier as `Algorithms` applies it, for any
patterns in the error text, any heal and any thresholds, that infrastructure, any
timeout included, takes precedence, and that one
signal alone is not filed under a threshold above its weight.

`HealReviewProofs` proves for any flows, attributes, chains, scores, thresholds,
journals, limits of the parser, requests and crashes: `AuditIsCompleteTheorem` and
`UnreviewedRewritesWereSureTheorem`. `HealInv` adds that an `auto_heal` entry was
decided by its score and its count (`HealsWereDecided`); that an ingest has every
entry the parser keeps still before it or in its session, and the table has them all
once it is committed (`JobsAreSound`), which holds across redelivery because the
journal outlives the delivery; that a request's row exists (`RequestsAreSound`);
and that each rewrite is on record in the table or in the journal of a job that
will be delivered again, and was sure or approved (`RewritesAreSound`).

Every inductive invariant was checked with TLC on the instance of its run before
it was proved.

Assumptions: `ExecAssumption`, `GatewayAssumption`, `LiveViewAssumption`,
`ExplorerAssumption`, `ReviewAssumption`, `FilingAssumption`, `HealAssumption`,
`RunLedgerAssumption`, `AccountsAssumption`, `FlowMiningAssumption`, all about the
shape of the constants; and `AlgorithmsAssumption` about the inputs: databases whose
keys and references hold, elements a browser can report, ratios in 0..1, finite ground
truths, soaks as long as the number of runs asked for, and integer thresholds.

Model-checked only:

* The liveness properties `JobsSettle`, `FrameReachesPage`, `RunEnds` and
  `PollBecomesTerminal`, which need fairness and ENABLED.
* `MiningIsExact`, which is about the recursive `walk`, and the part of
  `RiskOrdersFlows` that is about the ranking, which sorts (`TopRiskIsChosen`): both
  need induction over the data, which the provers here do not have. The other part,
  the rating of a journey, is `RiskTheorem`.

## 6. Plan

Done: all modules of section 2, and a theorem for every safety property but the two
named in section 5. Next, in this order:

1. The graph writer's upserts and links as a module under `Explorer`.
2. The explorer's stream and page, in the shape of `ExecLiveView`.

## 7. Not modelled, and why

* Page content, fingerprint computation, locators and the sign-in heuristics:
  browser data. The explorer's constants stand for them.
* The dashboards' aggregates: sums over one query each. The scoring of search hits and
  the index settings. The permission map of the web menu and the role each router asks
  for: constant tables; that a signed-in user of any role reaches scenarios, executions
  and `/api/coverage` is plain in the routers.
* Targets: single-row edits.
* The wording of issues, comments, scenarios and prompts; password hashing.
* Web forms other than the live page, infrastructure, migrations.
* In the execution plane: the message whose body is no JSON (logged and acked),
  the broker library's reconnect, which may redeliver while a job still runs, and
  artifacts. In the explorer: workflow chains, element nodes, business entities,
  the sign-in in mid-run and LangGraph's recursion limit.

Remarks met while modelling, without a run of their own. A name in brackets is the
property whose formula states what the code does there; the others are read directly
off the code:

* A raising job is requeued on every delivery, not "once" (`consumer.py:10`),
  and also ends the consumer.
* `_invoke` retries `TransientProviderError` only, which nothing raises.
* The explorer's stop path skips converge, so no terminal event says "stopped"
  (`explore.py:151-152` says that the stop publishes "a terminal progress event").
  An event may also be followed by a failing commit, and then the row says "failed"
  (`RecordsAgree`).
* Between the driver's commits of status and stop reason a client that connects
  is told "stopped" (`explore.py:71`), for ever if the process ends there
  (`RecordsAgree`, `HalfRecorded`).
* `validation_submit_result` is reset by clicks only; after a link the rules of
  one page are stored on the next (`nodes.py:313`).
* The node of a link's target under its URL stays beside the one under its
  fingerprint (`nodes.py:404`).
* The menu shows element indices and `decide` reads positions; they differ after
  a skipped element.
* Saturation does not wait for its window: `nodes.py:563` subsumes line 561.
* The worker never sets `HEAL_OUT_DIR`, so the heal journal is written only where
  the environment provides it; an `auto_heal` in the journal overrides any exit code.
* `generate_scenarios` leaves the drafts of earlier flows when a later flow fails a
  gate (`generation.py:363` says it writes nothing).
* `generate_project` removes no file: the specs of a scenario that was rejected
  after an earlier generation stay in the tree, and the worker runs them.
* `run_defect_pipeline` and `accept_spec` have no caller.
* `prefetch_count` does not make the consumer concurrent, its loop is sequential.
* The live page stays in "stopping" after a kill: no terminal status ever arrives.
* `TestRun.status` is assigned once, as "queued": the CI job that polls for a
  terminal status (`.github/workflows/run-suite.yml:57`) never sees one
  (`models/execution_history.py:9` lists the lifecycle).
* A frame published between the snapshot and the subscription is in neither, so a
  reconnect may miss the last result (`executions.py:196` says it reconciles); the
  explore stream has the same shape (`explore.py:103`).
* A link the gate refused is in the frontier already and may be visited next
  (`nodes.py:270-271` says "navigate() does NOT follow the refused url on the next
  loop"): the gates keep the browser off other origins, they do not keep a refused
  link of the own origin from being visited (`RequestsAreJustified`).
* No await on a child process has a timeout, and few on the browser have: a hung pytest
  holds the worker, a hung child keeps the poll from ending (section 4).
* When `finish_execution` or its commit raises, nothing finishes the row
  (`execution.py:86-89` is outside the try; `:81` says "any failure must finish the row,
  not vanish") (`PollBecomesTerminal`).
* A run's counters expire `llm_run_ttl_s` after the last call and a day's after two
  days (`llm_gateway.py:426-429`): the counter begins again, so the bound of
  `OvershootBounded` is on a counter and not on what a run spends.
* A defect that was filed can still be rejected (`routers/defects.py:246`); the
  counter of an autonomous filing that raises is lost; a reviewer's filing starts
  from zero.
* The graph keys elements by page, role and label (`nodes.py:415`) and the journal
  by attribute name: the write-back of a heal matches nothing, and the next
  generation restores the old locator (`ingest.py:14`). No generated step calls
  `_resolve`. `false_heal_rate` counts rejected quarantines and may exceed 1
  (`stats.py:95`; `HealScoresAreSound` bounds it when only auto-heals were rejected).
* `ingest.py:197-198` says the template guarantees one line per attribute across the
  project; two pages may each have an element of one name, and then the first module's
  line is rewritten whichever page missed (`AuditIsComplete`).
* A redelivered job appends to the journal of its first delivery, and a journal over
  the parser's limit is dropped whole: rewrites of the first delivery then have no row
  (`ingest.py:73-75`; `AuditIsComplete`).
* `difflib`'s ratio (`candidates.py:114`) depends on the order of its arguments, so
  `a11y_sim` of two elements is not symmetric.
* A reply of Jira without a key leaves a defect applied with no key: `client.py:65` says
  a key is always there, `pipeline.py:198` accepts its absence (`AppliedNamesItsIssue`).
* Two executions of one run may finish the same row and leave the other queued
  (`run_service.py:12`). No router writes the spec file that POST /execute needs.
* Two admins that demote each other at the same moment leave none (`users.py:13-14`
  says that "the only admin can never lock themselves (or every admin) out");
  `AdminRemains` says that this is the only way. The seed does not restore a role.
* The reader cuts nodes and edges at 1000 without a word (`reader.py:27`, `:176`,
  `:184`), so a list of flows that is not flagged as bounded may still leave journeys
  out (`MiningIsExact`).
* A flow's id is its position in a list read without an order, and joins
  scenarios, results and tiers across graphs that grow. A cycle no entry reaches is
  never mined.
* The traceability chain never holds a flow, because mined records carry no id
  (`traceability.py:88`), and scenarios carry the exploration's run id, results and
  defects the execution's: their chains do not meet outside the tests.
* The backfill writes a defect's document over its classification's, which has the
  same id, and neither has a field that `search` asks for (`query.py:36`): no failure
  can be found afterwards, although `indexer.py:3` calls the index rebuildable
  (`BackfillLosesOnlyFailureText`).
* A discovery none of whose pages is in the ground truth is reported as a measured
  zero (`kg.py:151` asks only whether pages were discovered), while `coverage.py:20-21`
  and `:98-99` take zero covered screens for "not measured" (`ReportsAreExact`).
* A ground-truth flow without pages counts as covered; a soak of 0 runs accepts.
* When the seeded bug's url is not set, `accept_spec` raises after the whole soak
  instead of refusing the spec (`stability.py:161-164`; `ReportsAreExact`).
* Any timeout in the error text makes a failure an infrastructure one: `_page_loaded`
  (`evidence.py:35-43`) takes every timeout for a page that never loaded, so that the
  case of `infra_health.py:30-32` and `classifier.py:13`, a timeout on a page that
  loaded, never arises (`ClassificationIsCautious`).
