---------------------------- MODULE ExecLiveView ----------------------------
(***************************************************************************)
(* The live execution view of one run: the worker's progress frames        *)
(* (worker/progress.py), the SSE endpoint (routers/executions.py) and the  *)
(* dashboard page that consumes it (executions/[runId]/page.tsx).          *)
(*                                                                         *)
(* ExecEngine's commit (record_result, abort_flow) and publish_event steps *)
(* appear here as commit_row and publish_test_event, with the data that    *)
(* ExecEngine leaves out: the frame. A Redis publish reaches the           *)
(* subscriptions that exist at that moment and nobody else, and the SSE    *)
(* response is an ordered pipe from the endpoint to the page.              *)
(***************************************************************************)
EXTENDS Naturals, Sequences, FiniteSets

CONSTANTS
    Flows,      \* flow ids of the run
    Verdicts,   \* verdicts the worker writes
    MaxRows,    \* bound: TestResult rows committed
    MaxDrops,   \* bound: lost connections, reloads and unpublished frames
    NoFlow, NoFrame, NoRow

\* The verdict of a snapshot, and of a flow the page has no row of.
NoVerdict == ""

ASSUME LiveViewAssumption ==
    /\ MaxRows \in Nat
    /\ MaxDrops \in Nat
    /\ NoFlow \notin Flows
    /\ NoRow \notin [flow: Flows, verdict: Verdicts]
    /\ NoFrame \notin [counters: [completed: Nat, passed: Nat, failed: Nat, flaky: Nat],
                       flow: Flows \cup {NoFlow}, verdict: Verdicts \cup {NoVerdict}]

VARIABLES
    rows,      \* TestResult rows of the run, in commit order
    unpub,     \* the row the worker has committed and not yet published
    server,    \* the SSE request of the page's EventSource (see SSEPhases)
    snapshot,  \* the snapshot frame read before the generator started
    pipe,      \* frames sent by the endpoint or buffered in its subscription
    conn,      \* the page's ConnState
    latest,    \* the page's latest frame
    shown,     \* the page's row of each flow: verdict, or NoVerdict when it has none
    killing,   \* the page's kill request is unanswered
    drops      \* bound counter

vars == <<rows, unpub, server, snapshot, pipe, conn, latest, shown, killing, drops>>

\* "none": the EventSource is connecting; "closed": the browser gave up.
SSEPhases == {"none", "snapshotted", "subscribed", "streaming", "closed"}
Row == [flow: Flows, verdict: Verdicts]
ConnStates == {"connecting", "running", "stopping", "reconnecting", "stream-lost"}

\* create_test_run writes "queued" and nothing assigns the column again.
run_status == "queued"
Terminal == {"passed", "failed", "killed"}

-----------------------------------------------------------------------------
(* Frames *)

Count(rs, verdict) == Cardinality({i \in 1..Len(rs) : rs[i].verdict = verdict})

build_counters(rs) ==
    [completed |-> Len(rs),
     passed    |-> Count(rs, "passed"),
     failed    |-> Count(rs, "product_failure"),
     flaky     |-> Count(rs, "flaky")]

\* A frame is the counters and the one flow it is about (none on a snapshot).
Frame(rs, flow, verdict) ==
    [counters |-> build_counters(rs), flow |-> flow, verdict |-> verdict]

-----------------------------------------------------------------------------
Init ==
    /\ rows = <<>>
    /\ unpub = NoRow
    /\ server = "none"
    /\ snapshot = NoFrame
    /\ pipe = <<>>
    /\ conn = "connecting"
    /\ latest = NoFrame
    /\ shown = [f \in Flows |-> NoVerdict]
    /\ killing = FALSE
    /\ drops = 0

pageVars == <<conn, latest, shown, killing>>
sseVars == <<server, snapshot, pipe>>

-----------------------------------------------------------------------------
(* Worker. A flow may be committed again: its message was redelivered. *)

commit_row(f, v) ==
    /\ unpub = NoRow
    /\ Len(rows) < MaxRows
    /\ rows' = Append(rows, [flow |-> f, verdict |-> v])
    /\ unpub' = [flow |-> f, verdict |-> v]
    /\ UNCHANGED <<sseVars, pageVars, drops>>

Subscribed == server \in {"subscribed", "streaming"}

\* Mutant: the counters are guessed ahead instead of read back.
publish_test_event_ahead ==
    /\ unpub # NoRow
    /\ unpub' = NoRow
    /\ pipe' = IF Subscribed
               THEN Append(pipe, Frame(Append(rows, unpub), unpub.flow, unpub.verdict))
               ELSE pipe
    /\ UNCHANGED <<rows, server, snapshot, pageVars, drops>>

\* build_counters in the committing session, then the Redis publish.
publish_test_event ==
    /\ unpub # NoRow
    /\ unpub' = NoRow
    /\ pipe' = IF Subscribed
               THEN Append(pipe, Frame(rows, unpub.flow, unpub.verdict))
               ELSE pipe
    /\ UNCHANGED <<rows, server, snapshot, pageVars, drops>>

\* The worker dies, or Redis raises, between the commit and the publish.
publish_fails ==
    /\ unpub # NoRow
    /\ drops < MaxDrops
    /\ drops' = drops + 1
    /\ unpub' = NoRow
    /\ UNCHANGED <<rows, sseVars, pageVars>>

-----------------------------------------------------------------------------
(* SSE endpoint *)

\* GET /events: the handler reads the snapshot before the generator runs.
execution_events ==
    /\ server = "none"
    /\ server' = "snapshotted"
    /\ snapshot' = Frame(rows, NoFlow, NoVerdict)
    /\ pipe' = <<>>
    /\ UNCHANGED <<rows, unpub, pageVars, drops>>

\* event_generator: subscribe to exec:{run_id}.
subscribe ==
    /\ server = "snapshotted"
    /\ server' = "subscribed"
    /\ UNCHANGED <<rows, unpub, snapshot, pipe, pageVars, drops>>

\* Mutant: what the subscription buffered goes out before the snapshot.
yield_snapshot_late ==
    /\ server = "subscribed"
    /\ server' = "streaming"
    /\ pipe' = Append(pipe, snapshot)
    /\ snapshot' = NoFrame
    /\ UNCHANGED <<rows, unpub, pageVars, drops>>

\* The snapshot is yielded first; frames buffered since the subscribe follow.
yield_snapshot ==
    /\ server = "subscribed"
    /\ server' = "streaming"
    /\ pipe' = <<snapshot>> \o pipe
    /\ snapshot' = NoFrame
    /\ UNCHANGED <<rows, unpub, pageVars, drops>>

-----------------------------------------------------------------------------
(* Page *)

NextConn == IF conn = "stopping" THEN "stopping" ELSE "running"

\* Mutant: only the snapshot listener is registered.
applyEvent_snapshot_only ==
    /\ server = "streaming"
    /\ pipe # <<>>
    /\ LET ev == Head(pipe)
       IN  latest' = IF ev.flow = NoFlow THEN ev ELSE latest
    /\ conn' = NextConn
    /\ pipe' = Tail(pipe)
    /\ UNCHANGED <<rows, unpub, server, snapshot, shown, killing, drops>>

\* onMessage and applyEvent: take the frame's counters as they are, upsert the
\* flow's row. A terminal run status would close the stream; run_status never
\* is one.
applyEvent ==
    /\ server = "streaming"
    /\ pipe # <<>>
    /\ run_status \notin Terminal
    /\ LET ev == Head(pipe)
       IN  /\ latest' = ev
           /\ shown' = IF ev.flow = NoFlow THEN shown
                       ELSE [shown EXCEPT ![ev.flow] = ev.verdict]
    /\ conn' = NextConn
    /\ pipe' = Tail(pipe)
    /\ UNCHANGED <<rows, unpub, server, snapshot, killing, drops>>

\* The kill button, offered while the page is live.
kill_clicked ==
    /\ conn \in {"running", "reconnecting"}
    /\ ~killing
    /\ killing' = TRUE
    /\ UNCHANGED <<rows, unpub, sseVars, conn, latest, shown, drops>>

\* killMutation.onSuccess, whatever happened to the stream meanwhile.
kill_confirmed ==
    /\ killing
    /\ killing' = FALSE
    /\ conn' = "stopping"
    /\ UNCHANGED <<rows, unpub, sseVars, latest, shown, drops>>

\* The SSE response ends; its generator unsubscribes.
disconnect(phase) ==
    /\ server # "closed"
    /\ drops < MaxDrops
    /\ drops' = drops + 1
    /\ server' = phase
    /\ snapshot' = NoFrame
    /\ pipe' = <<>>
    /\ UNCHANGED <<rows, unpub>>

\* es.onerror with readyState CONNECTING: the browser will connect again.
connection_lost ==
    /\ disconnect("none")
    /\ conn' = "reconnecting"
    /\ UNCHANGED <<latest, shown, killing>>

\* es.onerror with readyState CLOSED: the browser gives up (e.g. on a 401).
stream_lost ==
    /\ disconnect("closed")
    /\ conn' = "stream-lost"
    /\ UNCHANGED <<latest, shown, killing>>

\* The user reloads the page: a new component and a new EventSource.
reload ==
    /\ drops < MaxDrops
    /\ drops' = drops + 1
    /\ server' = "none"
    /\ snapshot' = NoFrame
    /\ pipe' = <<>>
    /\ conn' = "connecting"
    /\ latest' = NoFrame
    /\ shown' = [f \in Flows |-> NoVerdict]
    /\ killing' = FALSE
    /\ UNCHANGED <<rows, unpub>>

-----------------------------------------------------------------------------
endpoint_step == execution_events \/ subscribe \/ yield_snapshot

Next ==
    \/ \E f \in Flows, v \in Verdicts : commit_row(f, v)
    \/ publish_test_event
    \/ publish_fails
    \/ endpoint_step
    \/ applyEvent
    \/ kill_clicked
    \/ kill_confirmed
    \/ connection_lost
    \/ stream_lost
    \/ reload

Spec == Init /\ [][Next]_vars

\* The worker goes on to its publish, the endpoint serves an open request (and
\* the browser reopens a dropped one), the page handles what arrives.
Fairness ==
    /\ WF_vars(publish_test_event)
    /\ WF_vars(endpoint_step)
    /\ WF_vars(applyEvent)

FairSpec == Spec /\ Fairness

-----------------------------------------------------------------------------
(* Properties *)

Frames == [counters: [completed: Nat, passed: Nat, failed: Nat, flaky: Nat],
           flow: Flows \cup {NoFlow}, verdict: Verdicts \cup {NoVerdict}]

TypeOK ==
    /\ rows \in Seq(Row)
    /\ unpub \in Row \cup {NoRow}
    /\ server \in SSEPhases
    /\ snapshot \in Frames \cup {NoFrame}
    /\ pipe \in Seq(Frames)
    /\ conn \in ConnStates
    /\ latest \in Frames \cup {NoFrame}
    /\ shown \in [Flows -> Verdicts \cup {NoVerdict}]
    /\ killing \in BOOLEAN
    /\ drops \in Nat

Completed(frame) == IF frame = NoFrame THEN 0 ELSE frame.counters.completed

\* The counters on the page are those of the run at some earlier moment: never
\* ahead of the database, and never a mixture of two moments.
CountersWereTrue ==
    latest # NoFrame =>
        /\ Completed(latest) <= Len(rows)
        /\ latest.counters = build_counters(SubSeq(rows, 1, Completed(latest)))

\* A row on the page shows a verdict that flow was really given, among the
\* results its counters include.
ShownRowsWereTrue ==
    \A f \in Flows : shown[f] # NoVerdict =>
        \E i \in 1..Completed(latest) : rows[i] = [flow |-> f, verdict |-> shown[f]]

\* What the page shows was true at one moment of the run: its counters are those
\* of the first results, and each of its rows is one of those results.
PageWasTrue == TypeOK /\ CountersWereTrue /\ ShownRowsWereTrue

\* The counters on the page never go back while the page stays open: not when
\* a snapshot meets buffered frames, nor across a reconnect or a kill.
CountersNeverRegress ==
    [][latest' # NoFrame => Completed(latest') >= Completed(latest)]_vars

\* A frame that reached the endpoint reaches the page's counters, unless the
\* connection ends first.
FrameReachesPage ==
    \A n \in 1..MaxRows :
        (Subscribed /\ \E i \in 1..Len(pipe) : Completed(pipe[i]) = n)
            ~> (Completed(latest) >= n \/ ~Subscribed)
=============================================================================
