------------------------------ MODULE Explorer ------------------------------
(***************************************************************************)
(* One exploration run: the background task run_explore                    *)
(* (services/explorer/driver.py) signs in, drives the LangGraph loop       *)
(* (graph.py, nodes.py) over a web application and commits the outcome on  *)
(* the Run row. An iteration goes through check_cancel, navigate,          *)
(* perceive, enumerate, decide, act, persist and converge; each node is an *)
(* action, because each awaits the browser, Redis, the LLM gateway or      *)
(* Neo4j, and the stop route may set the cancel flag in between.           *)
(*                                                                         *)
(* The application is a constant: its pages by URL key, the structural     *)
(* fingerprint of each, the page a request for each lands on, and each     *)
(* page's interactable elements in document order. An element has the url  *)
(* of its href, or NoPage; the page a click on it leads to, or NoPage;     *)
(* whether its label is on the deny-list; and whether it submits a form.   *)
(* Indices count from 1.                                                   *)
(***************************************************************************)
EXTENDS Naturals, Sequences, FiniteSets

CONSTANTS
    Pages,      \* URL keys (page_key)
    Fps,        \* structural fingerprints
    FpOf,       \* fingerprint of each page
    Lands,      \* where a request for each page ends up (redirects)
    Elements,   \* interactable elements of each page
    Invalid,    \* pages whose first form fails validation when empty
    InBase,     \* pages on the origin of the target's base_url
    Allowed,    \* pages on an origin of the target's allowlist
    Landing,    \* the page the sign-in ends on
    Sandbox,    \* Target.sandbox
    max_steps, max_depth, max_revisits,  \* ExploreBudget
    MaxSkips,   \* bound: elements that cannot be described, per page
    NoPage

Element == [url: Pages \cup {NoPage}, to: Pages \cup {NoPage},
            risky: BOOLEAN, submits: BOOLEAN]

ASSUME ExplorerAssumption ==
    /\ FpOf \in [Pages -> Fps]
    /\ Lands \in [Pages -> Pages]
    /\ Elements \in [Pages -> Seq(Element)]
    /\ Invalid \subseteq Pages
    /\ InBase \subseteq Pages
    /\ Allowed \subseteq Pages
    /\ Landing \in Pages
    /\ Sandbox \in BOOLEAN
    /\ max_steps \in Nat
    /\ max_depth \in Nat
    /\ max_revisits \in Nat
    /\ MaxSkips \in Nat
    /\ NoPage \notin Pages

VARIABLES
    status,       \* Run.status
    recorded,     \* Run.stop_reason
    cancel,       \* Redis explore:cancel:{run_id}
    pc,           \* the node the task is about to run
    page,         \* the live browser page
    frontier,     \* ExplorerState, from here on
    visited,
    fp,
    menu,         \* element indices that could be described
    chosen,       \* position in the menu, 0 for None
    pending,      \* element index on the current page, 0 for None
    probe,        \* validation_submit_result: the page it was taken on, or NoPage
    seen,
    pairs,
    step,
    depth,
    reason,       \* stop_reason
    kgPages,      \* Neo4j Page nodes by key
    kgEdges,      \* NavigatesTo
    kgForms,      \* <<page key, page the rules come from>>
    frame,        \* reason in the terminal progress event, "none" before it
    frameLost,    \* history: a publish failed
    asked,        \* history: pages requested by goto
    offered,      \* history: candidates of every enumeration
    clicked,      \* history: elements that passed the gates
    afterStop     \* history: iterations finished after the stop request

runVars == <<status, recorded>>
browserVars == <<page, asked>>
menuVars == <<menu, chosen, pending, probe>>
ledgerVars == <<seen, pairs, step, depth, reason>>
kgVars == <<kgPages, kgEdges, kgForms>>
frameVars == <<frame, frameLost>>
vars == <<status, recorded, cancel, pc, page, frontier, visited, fp, menu, chosen, pending,
          probe, seen, pairs, step, depth, reason, kgPages, kgEdges, kgForms,
          frame, frameLost, asked, offered, clicked,
          afterStop>>

Nodes == {"check_cancel", "navigate", "perceive", "enumerate", "decide", "act",
          "persist", "converge"}
Places == Nodes \cup {"queued", "login", "ended", "raised", "passing", "failing",
                      "reason", "done", "gone"}
STOP_REASONS == {"max_steps", "max_depth", "wall_clock", "budget", "saturation",
                 "converged", "failed", "stopped"}
NoneOr(S) == S \cup {"none"}

FpKey(f) == <<"fp", f>>
UrlKey(p) == <<"url", p>>
PageKeys == {FpKey(f) : f \in Fps} \cup {UrlKey(p) : p \in Pages}

At(i) == Elements[page][i]
Entries == {frontier[i] : i \in 1..Len(frontier)}

-----------------------------------------------------------------------------
Init ==
    /\ status = "queued" /\ recorded = "none"
    /\ cancel = FALSE
    /\ pc = "queued"
    /\ page = Landing
    /\ frontier = <<>> /\ visited = {Landing}
    /\ fp = FpOf[Landing]
    /\ menu = <<>> /\ chosen = 0 /\ pending = 0 /\ probe = NoPage
    /\ seen = [f \in Fps |-> 0] /\ pairs = {}
    /\ step = 0 /\ depth = 0
    /\ reason = "none"
    /\ kgPages = {} /\ kgEdges = {} /\ kgForms = {}
    /\ frame = "none" /\ frameLost = FALSE
    /\ asked = {} /\ offered = {} /\ clicked = {}
    /\ afterStop = 0

-----------------------------------------------------------------------------
(* The route, and the driver up to the graph *)

\* POST /api/explore/{run_id}/stop.
explore_stop ==
    /\ ~cancel
    /\ cancel' = TRUE
    /\ UNCHANGED <<runVars, pc, browserVars, frontier, visited, fp, menuVars, ledgerVars,
                   kgVars, frameVars, offered, clicked, afterStop>>

run_explore ==
    /\ pc = "queued"
    /\ status' = "running"
    /\ pc' = "login"
    /\ UNCHANGED <<recorded, cancel, browserVars, frontier, visited, fp, menuVars,
                   ledgerVars, kgVars, frameVars, offered, clicked, afterStop>>

login ==
    /\ pc = "login"
    /\ pc' = "check_cancel"
    /\ UNCHANGED <<runVars, cancel, browserVars, frontier, visited, fp, menuVars,
                   ledgerVars, kgVars, frameVars, offered, clicked, afterStop>>

-----------------------------------------------------------------------------
(* The nodes *)

\* Mutant: the flag is read once, before the first iteration.
check_cancel_once ==
    /\ pc = "check_cancel"
    /\ reason' = IF cancel /\ step = 0 THEN "stopped" ELSE reason
    /\ pc' = IF cancel /\ step = 0 THEN "ended" ELSE "navigate"
    /\ UNCHANGED <<runVars, cancel, browserVars, frontier, visited, fp, menuVars, seen, pairs,
                   step, depth, kgVars, frameVars, offered, clicked, afterStop>>

\* The flag ends the graph here, before converge.
check_cancel ==
    /\ pc = "check_cancel"
    /\ reason' = IF cancel THEN "stopped" ELSE reason
    /\ pc' = IF cancel THEN "ended" ELSE "navigate"
    /\ UNCHANGED <<runVars, cancel, browserVars, frontier, visited, fp, menuVars, seen, pairs,
                   step, depth, kgVars, frameVars, offered, clicked, afterStop>>

\* goto, unless there is no target or the browser is already there.
Goto(target) ==
    LET goes == target # NoPage /\ target # page
    IN  /\ page' = IF goes THEN Lands[target] ELSE page
        /\ asked' = IF goes THEN asked \cup {target} ELSE asked
        /\ visited' = visited \cup {page'}

\* Mutant: the frontier advances although a link is pending.
navigate_pops ==
    /\ pc = "navigate"
    /\ Goto(IF pending # 0 /\ At(pending).url # NoPage THEN At(pending).url
            ELSE IF frontier # <<>> THEN Head(frontier) ELSE NoPage)
    /\ frontier' = IF frontier # <<>> THEN Tail(frontier) ELSE frontier
    /\ pending' = 0
    /\ pc' = "perceive"
    /\ UNCHANGED <<runVars, cancel, fp, menu, chosen, probe, ledgerVars, kgVars, frameVars,
                   offered, clicked, afterStop>>

\* The pending link, else the first frontier entry, which no gate has seen.
navigate ==
    /\ pc = "navigate"
    /\ LET link == IF pending # 0 THEN At(pending).url ELSE NoPage
       IN  \/ link # NoPage /\ Goto(link) /\ UNCHANGED frontier
           \/ /\ link = NoPage /\ frontier # <<>>
              /\ Goto(Head(frontier)) /\ frontier' = Tail(frontier)
           \/ link = NoPage /\ frontier = <<>> /\ Goto(NoPage) /\ UNCHANGED frontier
    /\ pending' = 0
    /\ pc' = "perceive"
    /\ UNCHANGED <<runVars, cancel, fp, menu, chosen, probe, ledgerVars, kgVars, frameVars,
                   offered, clicked, afterStop>>

perceive ==
    /\ pc = "perceive"
    /\ fp' = FpOf[page]
    /\ pc' = "enumerate"
    /\ UNCHANGED <<runVars, cancel, browserVars, frontier, visited, menuVars, ledgerVars,
                   kgVars, frameVars, offered, clicked, afterStop>>

\* The members of a set of indices, in order.
InOrder(S) ==
    {s \in [1..Cardinality(S) -> S] :
        /\ \A i, j \in DOMAIN s : i < j => s[i] < s[j]
        /\ \A x \in S : \E i \in DOMAIN s : s[i] = x}

\* Mutant: links off the target's origin are queued too.
NewCandidates_any_origin(m) ==
    {k \in 1..Len(m) :
        /\ At(m[k]).url # NoPage
        /\ At(m[k]).url \notin visited \cup Entries
        /\ \A j \in 1..(k - 1) : At(m[j]).url # At(m[k]).url}

\* The positions of a menu with a candidate that is neither visited nor queued,
\* each url once.
NewCandidates(m) ==
    {k \in 1..Len(m) :
        /\ At(m[k]).url \in InBase
        /\ At(m[k]).url \notin visited \cup Entries
        /\ \A j \in 1..(k - 1) : At(m[j]).url # At(m[k]).url}

\* enumerate_actions leaves out the elements in skip, whose description timed
\* out or failed, and keeps the others' indices.
enumerate(skip) ==
    /\ pc = "enumerate"
    /\ \E m \in InOrder((1..Len(Elements[page])) \ skip) :
       \E ks \in InOrder(NewCandidates(m)) :
           /\ menu' = m
           /\ frontier' = frontier \o [k \in DOMAIN ks |-> At(m[ks[k]]).url]
           /\ offered' = offered \cup ({At(m[k]).url : k \in 1..Len(m)} \cap InBase)
    /\ pc' = "decide"
    /\ UNCHANGED <<runVars, cancel, browserVars, visited, fp, chosen, pending, probe,
                   ledgerVars, kgVars, frameVars, clicked, afterStop>>

\* parse_index clamps the reply to a position of the menu; the menu shows each
\* entry's own index.
parse_index(reply) == IF reply > Len(menu) THEN Len(menu) ELSE reply

\* The gateway answers with an index; an answer without one counts as the first.
decide_replies(reply) ==
    /\ pc = "decide"
    /\ menu # <<>>
    /\ chosen' = parse_index(reply)
    /\ pending' = menu[parse_index(reply)]
    /\ pc' = "act"
    /\ UNCHANGED <<runVars, cancel, browserVars, frontier, visited, fp, menu, probe,
                   ledgerVars, kgVars, frameVars, offered, clicked, afterStop>>

\* BudgetExceeded or KillSwitchActive.
decide_refused ==
    /\ pc = "decide"
    /\ menu # <<>>
    /\ chosen' = 0 /\ pending' = 0
    /\ reason' = "budget"
    /\ pc' = "act"
    /\ UNCHANGED <<runVars, cancel, browserVars, frontier, visited, fp, menu, probe, seen, pairs,
                   step, depth, kgVars, frameVars, offered, clicked, afterStop>>

decide_nothing ==
    /\ pc = "decide"
    /\ menu = <<>>
    /\ chosen' = 0 /\ pending' = 0
    /\ pc' = "act"
    /\ UNCHANGED <<runVars, cancel, browserVars, frontier, visited, fp, menu, probe,
                   ledgerVars, kgVars, frameVars, offered, clicked, afterStop>>

\* Nothing is pending: the scratch of an earlier step stays.
act_nothing ==
    /\ pc = "act"
    /\ pending = 0
    /\ pc' = "persist"
    /\ UNCHANGED <<runVars, cancel, browserVars, frontier, visited, fp, menuVars, ledgerVars,
                   kgVars, frameVars, offered, clicked, afterStop>>

is_destructive(e) == e.risky /\ ~Sandbox
is_off_origin(e) == e.url # NoPage /\ e.url \notin Allowed

Denied(e) == is_destructive(e) \/ is_off_origin(e)

act_refuses ==
    /\ pc = "act"
    /\ pending # 0
    /\ Denied(At(pending))
    /\ pending' = 0
    /\ pc' = "persist"
    /\ UNCHANGED <<runVars, cancel, browserVars, frontier, visited, fp, menu, chosen, probe,
                   ledgerVars, kgVars, frameVars, offered, clicked, afterStop>>

\* A link stays pending for navigate; the scratch of an earlier step stays.
act_link ==
    /\ pc = "act"
    /\ pending # 0
    /\ ~Denied(At(pending)) /\ At(pending).url # NoPage
    /\ clicked' = clicked \cup {At(pending)}
    /\ pc' = "persist"
    /\ UNCHANGED <<runVars, cancel, browserVars, frontier, visited, fp, menuVars, ledgerVars,
                   kgVars, frameVars, offered, afterStop>>

\* Any other control: probe the form if it submits one, then click. A click
\* that fails is skipped.
act_click(works) ==
    /\ pc = "act"
    /\ pending # 0
    /\ ~Denied(At(pending)) /\ At(pending).url = NoPage
    /\ clicked' = clicked \cup {At(pending)}
    /\ probe' = IF At(pending).submits /\ page \in Invalid THEN page ELSE NoPage
    /\ page' = IF works /\ At(pending).to # NoPage THEN At(pending).to ELSE page
    /\ pending' = 0
    /\ pc' = "persist"
    /\ UNCHANGED <<runVars, cancel, asked, frontier, visited, fp, menu, chosen, ledgerVars,
                   kgVars, frameVars, offered, afterStop>>

\* Mutant: the page a link leads to is not written.
KgWrites_from_only(n) ==
    LET a == FpKey(fp)
        b == IF pending # 0 THEN UrlKey(At(pending).url) ELSE a
    IN  /\ kgPages' = kgPages \cup (IF n >= 1 THEN {a} ELSE {})
        /\ kgEdges' = kgEdges \cup (IF n >= 3 THEN {<<a, b>>} ELSE {})
        /\ kgForms' = kgForms \cup (IF n >= 4 /\ probe # NoPage THEN {<<a, probe>>} ELSE {})

\* The first n writes of persist_to_neo4j, each a transaction: the page under
\* its fingerprint, the page of a pending link under its url, the edge, and the
\* form with the rules of the last probe.
KgWrites(n) ==
    LET a == FpKey(fp)
        b == IF pending # 0 THEN UrlKey(At(pending).url) ELSE a
    IN  /\ kgPages' = kgPages \cup (IF n >= 1 THEN {a} ELSE {}) \cup (IF n >= 2 THEN {b} ELSE {})
        /\ kgEdges' = kgEdges \cup (IF n >= 3 THEN {<<a, b>>} ELSE {})
        /\ kgForms' = kgForms \cup (IF n >= 4 /\ probe # NoPage THEN {<<a, probe>>} ELSE {})

persist_to_neo4j ==
    /\ pc = "persist"
    /\ KgWrites(4)
    /\ pc' = "converge"
    /\ UNCHANGED <<runVars, cancel, browserVars, frontier, visited, fp, menuVars, ledgerVars,
                   frameVars, offered, clicked, afterStop>>

\* Neo4j fails after n of the writes.
persist_raises(n) ==
    /\ pc = "persist"
    /\ KgWrites(n)
    /\ pc' = "raised"
    /\ UNCHANGED <<runVars, cancel, browserVars, frontier, visited, fp, menuVars, ledgerVars,
                   frameVars, offered, clicked, afterStop>>

\* Mutant: the caps are compared strictly.
cap_reason_late(steps, deep, expired) ==
    CASE steps > max_steps -> "max_steps"
      [] steps <= max_steps /\ deep > max_depth -> "max_depth"
      [] steps <= max_steps /\ deep <= max_depth /\ expired -> "wall_clock"
      [] OTHER -> "none"

\* The first hard cap that is reached.
cap_reason(steps, deep, expired) ==
    CASE steps >= max_steps -> "max_steps"
      [] steps < max_steps /\ deep >= max_depth -> "max_depth"
      [] steps < max_steps /\ deep < max_depth /\ expired -> "wall_clock"
      [] OTHER -> "none"

\* Too many visits of a fingerprint, or the same choice on it as before.
is_loop(visits, choice) ==
    visits > max_revisits \/ (choice # 0 /\ <<fp, choice>> \in pairs)

\* The reason converge ends the run with. An empty frontier is
\* enough for saturation: the test with the window comes first, to the same end.
StopReason(expired) ==
    LET cap == cap_reason(step', depth', expired)
    IN  IF reason # "none" THEN reason
        ELSE IF cap # "none" THEN cap
        ELSE IF is_loop(seen'[fp], chosen) THEN "converged"
        ELSE IF frontier = <<>> THEN "saturation"
        ELSE "none"

\* Mutant: the ledgers are computed and not returned.
converge_forgets(expired, published) ==
    /\ pc = "converge"
    /\ UNCHANGED <<seen, pairs, step, depth>>
    /\ reason' = StopReason(expired)
    /\ pc' = IF reason' = "none" THEN "check_cancel" ELSE "ended"
    /\ frame' = IF published THEN reason' ELSE frame
    /\ frameLost' = (frameLost \/ ~published)
    /\ afterStop' = IF cancel THEN 1 ELSE 0
    /\ UNCHANGED <<runVars, cancel, browserVars, frontier, visited, fp, menuVars, kgVars,
                   offered, clicked>>

\* Counters and ledgers, the verdict, and the progress event, which is terminal
\* when the reason is set and whose publication may fail unnoticed.
converge(expired, published) ==
    /\ pc = "converge"
    /\ step' = step + 1
    /\ seen' = [seen EXCEPT ![fp] = @ + 1]
    /\ depth' = IF seen[fp] = 0 THEN depth + 1 ELSE depth
    /\ pairs' = IF chosen # 0 THEN pairs \cup {<<fp, chosen>>} ELSE pairs
    /\ reason' = StopReason(expired)
    /\ pc' = IF reason' = "none" THEN "check_cancel" ELSE "ended"
    /\ frame' = IF published THEN reason' ELSE frame
    /\ frameLost' = (frameLost \/ ~published)
    /\ afterStop' = IF cancel THEN afterStop + 1 ELSE afterStop
    /\ UNCHANGED <<runVars, cancel, browserVars, frontier, visited, fp, menuVars, kgVars,
                   offered, clicked>>

-----------------------------------------------------------------------------
(* The end of the task *)

\* The browser, the target row, Redis, the provider or the database fails: the
\* exception leaves the graph. act and converge catch theirs.
node_raises ==
    /\ pc \in (Nodes \ {"act", "persist", "converge"}) \cup {"login"}
    /\ pc' = "raised"
    /\ UNCHANGED <<runVars, cancel, browserVars, frontier, visited, fp, menuVars, ledgerVars,
                   kgVars, frameVars, offered, clicked, afterStop>>

\* The finally block: the browser is closed, then the flag deleted if Redis is
\* up. A close that raises skips the rest and fails the run.
teardown(closed, deleted) ==
    /\ pc \in {"ended", "raised"}
    /\ cancel' = (cancel /\ ~(closed /\ deleted))
    /\ pc' = IF pc = "ended" /\ closed THEN "passing" ELSE "failing"
    /\ UNCHANGED <<runVars, browserVars, frontier, visited, fp, menuVars, ledgerVars, kgVars,
                   frameVars, offered, clicked, afterStop>>

set_passed ==
    /\ pc = "passing"
    /\ status' = "passed"
    /\ pc' = "reason"
    /\ UNCHANGED <<recorded, cancel, browserVars, frontier, visited, fp, menuVars, ledgerVars,
                   kgVars, frameVars, offered, clicked, afterStop>>

set_failed ==
    /\ pc = "failing"
    /\ status' = "failed"
    /\ reason' = "failed"
    /\ pc' = "reason"
    /\ UNCHANGED <<recorded, cancel, browserVars, frontier, visited, fp, menuVars, seen, pairs,
                   step, depth, kgVars, frameVars, offered, clicked, afterStop>>

\* A commit of the outcome fails: the handler turns the run into a failed one.
commit_raises ==
    /\ pc = "passing" \/ (pc = "reason" /\ status = "passed")
    /\ pc' = "failing"
    /\ UNCHANGED <<runVars, cancel, browserVars, frontier, visited, fp, menuVars, ledgerVars,
                   kgVars, frameVars, offered, clicked, afterStop>>

record_stop_reason ==
    /\ pc = "reason"
    /\ recorded' = reason
    /\ pc' = "done"
    /\ UNCHANGED <<status, cancel, browserVars, frontier, visited, fp, menuVars, ledgerVars,
                   kgVars, frameVars, offered, clicked, afterStop>>

\* The api process ends, or a commit of the exception handler itself fails: a
\* background task is not resumed.
api_restart ==
    /\ pc \notin {"done", "gone"}
    /\ pc' = "gone"
    /\ UNCHANGED <<runVars, cancel, browserVars, frontier, visited, fp, menuVars, ledgerVars,
                   kgVars, frameVars, offered, clicked, afterStop>>

-----------------------------------------------------------------------------
Skips == {skip \in SUBSET (1..Len(Elements[page])) : Cardinality(skip) <= MaxSkips}

task_step ==
    \/ run_explore
    \/ login
    \/ check_cancel
    \/ navigate
    \/ perceive
    \/ \E skip \in Skips : enumerate(skip)
    \/ \E reply \in 1..Len(Elements[page]) : decide_replies(reply)
    \/ decide_refused
    \/ decide_nothing
    \/ act_nothing
    \/ act_refuses
    \/ act_link
    \/ \E works \in BOOLEAN : act_click(works)
    \/ persist_to_neo4j
    \/ \E expired, published \in BOOLEAN : converge(expired, published)
    \/ \E closed, deleted \in BOOLEAN : teardown(closed, deleted)
    \/ set_passed
    \/ set_failed
    \/ record_stop_reason

Next ==
    \/ task_step
    \/ explore_stop
    \/ node_raises
    \/ \E n \in 0..3 : persist_raises(n)
    \/ commit_raises
    \/ api_restart

Spec == Init /\ [][Next]_vars

\* The event loop runs the task, and every call it awaits returns or raises. The
\* second half is an assumption on the browser, the gateway and the database: the
\* code sets no timeout of its own on title, content, query_selector_all or on
\* the writes, and a call that never returns leaves the run running for ever.
FairSpec == Spec /\ WF_vars(task_step)

-----------------------------------------------------------------------------
(* Properties *)

TypeOK ==
    /\ status \in {"queued", "running", "passed", "failed"}
    /\ recorded \in NoneOr(STOP_REASONS)
    /\ cancel \in BOOLEAN
    /\ pc \in Places
    /\ page \in Pages
    /\ frontier \in Seq(Pages)
    /\ visited \in SUBSET Pages
    /\ fp \in Fps
    /\ menu \in Seq(Nat)
    /\ chosen \in Nat
    /\ pending \in Nat
    /\ probe \in Pages \cup {NoPage}
    /\ seen \in [Fps -> Nat]
    /\ pairs \in SUBSET (Fps \X Nat)
    /\ step \in Nat
    /\ depth \in Nat
    /\ reason \in NoneOr(STOP_REASONS)
    /\ kgPages \in SUBSET PageKeys
    /\ kgEdges \in SUBSET (PageKeys \X PageKeys)
    /\ kgForms \in SUBSET (PageKeys \X Pages)
    /\ frame \in NoneOr(STOP_REASONS)
    /\ frameLost \in BOOLEAN
    /\ asked \in SUBSET Pages
    /\ offered \in SUBSET Pages
    /\ clicked \in SUBSET Element
    /\ afterStop \in Nat

\* Whatever the model answers and however pages redirect, an exploration makes
\* no more steps, discovers no more states and visits a state no more often
\* than its budget says; a budget of zero still takes one step.
CapsHold ==
    /\ step <= max_steps \/ step <= 1
    /\ depth <= max_depth \/ depth <= 1
    /\ \A f \in Fps : seen[f] <= max_revisits + 1

\* Every page the browser was ever sent to is either a link of the target's own
\* origin that some enumeration offered, or the model's choice, not destructive
\* and on an allowed origin. The frontier has no gate: a link of the own origin
\* that act refuses is still visited from it later, although act says that the
\* refused url is not followed. The gates keep the browser off other origins.
RequestsAreJustified ==
    \A u \in asked :
        \/ u \in offered \cap InBase
        \/ \E e \in clicked : e.url = u /\ ~is_destructive(e) /\ u \in Allowed

\* Every in-origin link the explorer was ever offered was requested or visited,
\* or still waits in the frontier: a saturated run has missed none of them.
LinksAreNotLost == offered \subseteq visited \cup asked \cup Entries

\* After a stop request at most the iteration in progress is finished.
StopIsPrompt == afterStop <= 1

\* The terminal reason _snapshot_event tells a client that connects now.
snapshot_event ==
    IF recorded # "none" THEN recorded
    ELSE IF status = "failed" THEN "failed"
    ELSE IF status = "passed" THEN "stopped"
    ELSE "none"

\* The pass is committed and its reason is not: a client that connects now is
\* told "stopped" whatever ended the run, for ever if the process ends here.
HalfRecorded == status = "passed" /\ recorded = "none"

\* How the end of a run is told. The row is whole when the task is done. The
\* terminal event names the same reason, but for what driver.py leaves open: the
\* run turned failed after the event, or without one; the event was lost; or the
\* run was stopped, which publishes no event at all. Once an event has named a
\* reason, a client that connects is told that one, a failure or nothing yet,
\* but for the half recorded pass.
AnnouncedAsRecorded ==
    /\ pc = "done" =>
         /\ recorded = reason /\ (status = "failed" <=> recorded = "failed")
         /\ \/ frame = recorded
            \/ recorded = "failed"
            \/ frame = "none" /\ (frameLost \/ recorded = "stopped")
    /\ frame # "none" =>
         /\ frame \notin {"stopped", "failed"}
         /\ snapshot_event \in {"none", frame, "failed"} \/ HalfRecorded

\* Edges of the knowledge graph join pages it holds, forms are on pages it holds,
\* and every state the explorer has counted is in it, also when Neo4j fails half
\* way.
GraphIsClosed ==
    /\ \A e \in kgEdges : e[1] \in kgPages /\ e[2] \in kgPages
    /\ \A f \in kgForms : f[1] \in kgPages
    /\ \A f \in Fps : seen[f] > 0 => FpKey(f) \in kgPages

\* What an exploration leaves behind agrees with itself, whichever write failed:
\* the graph is closed, and the row and the terminal event differ in the cases of
\* AnnouncedAsRecorded only.
RecordsAgree == TypeOK /\ AnnouncedAsRecorded /\ GraphIsClosed

\* A run that has begun ends with its outcome committed, unless the task is lost
\* with the api process: given that every awaited call returns, no sequence of
\* replies, redirects and failures keeps the loop going.
RunEnds == (status = "running") ~> (pc \in {"done", "gone"})
=============================================================================
