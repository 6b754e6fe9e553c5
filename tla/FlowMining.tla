---------------------------- MODULE FlowMining ----------------------------
(***************************************************************************)
(* Flow learning and the choice of what a tier runs: the pages and edges   *)
(* read from the graph, the bounded enumeration of journeys, rated as in   *)
(* FlowRisk, and the ranking behind the risk-based tier.                   *)
(*                                                                         *)
(* A graph is a record of the pages and the edges in the order the store   *)
(* returns them (the reader asks for no order), the pages that carry a     *)
(* form, and the pages whose label holds a verb of the explorer's deny     *)
(* list.  An edge may lead to a node that is not a page (a form, an        *)
(* endpoint).                                                              *)
(***************************************************************************)
EXTENDS FlowRisk, SequencesExt

CONSTANTS
    LIMIT,             \* rows a query of the graph returns (_LIMIT)
    MAX_PATH_LENGTH,   \* pages in a journey
    MAX_FLOWS,         \* journeys mined
    LAST_K,            \* runs the failure rate looks back on
    TOP_N              \* flows the risk-based tier runs

ASSUME FlowMiningAssumption ==
    /\ MAX_PATH_LENGTH \in Nat \ {0} /\ MAX_FLOWS \in Nat \ {0}
    /\ LIMIT \in Nat /\ LAST_K \in Nat /\ TOP_N \in Nat

---------------------------------------------------------------------------
\* The rows a query returns: no more than its LIMIT, and it does not say so.
Read(rows) == SubSeq(rows, 1, IF Len(rows) < LIMIT THEN Len(rows) ELSE LIMIT)

\* A page is taken to be behind the sign-in when a navigation leads to it, which
\* the query decides on the whole graph.
flows_source(raw) ==
    [nodes |-> Read(raw.pages),
     edges |-> Read(raw.edges),
     form |-> raw.forms,
     destructive |-> raw.verbs,
     auth_gated |-> {p \in ToSet(raw.pages) :
        \E e \in ToSet(raw.edges) : e.to = p /\ e.type = "NavigatesTo"}]

_adjacency(g, n) == SelectSeq(g.edges, LAMBDA e : e.from = n)

\* Without an entry (every page has an inbound edge) all pages are entries.
_entry_pages(g) ==
    LET inbound == {e.to : e \in {d \in ToSet(g.edges) :
                            d.type \in {"NavigatesTo", "Submits"}}}
        entries == SelectSeq(g.nodes, LAMBDA n : n \notin inbound)
    IN IF entries = <<>> THEN g.nodes ELSE entries

\* Mutant: the cap drops journeys without saying so.
emit_silent(st, path, types) ==
    IF Len(st.flows) >= MAX_FLOWS THEN [st EXCEPT !.abort = TRUE]
    ELSE IF \E f \in ToSet(st.flows) : ToSet(f.node_fps) = ToSet(path) THEN st
    ELSE [st EXCEPT !.flows = Append(@, [node_fps |-> path,
                                         edge_types |-> types])]

\* One journey per set of pages.
emit(st, path, types) ==
    IF Len(st.flows) >= MAX_FLOWS
      THEN [st EXCEPT !.bounded = TRUE, !.abort = TRUE]
    ELSE IF \E f \in ToSet(st.flows) : ToSet(f.node_fps) = ToSet(path) THEN st
    ELSE [st EXCEPT !.flows = Append(@, [node_fps |-> path,
                                         edge_types |-> types])]

RECURSIVE walk(_, _, _, _)
\* Depth first, simple paths only; the path that hits the cap ends it all.
walk(g, st, path, types) ==
    LET here == emit(st, path, types)
        visit(s, e) ==
          IF s.abort \/ e.to \in ToSet(path) THEN s
          ELSE walk(g, s, Append(path, e.to), Append(types, e.type))
    IN IF here.abort THEN here
       ELSE IF Len(path) >= MAX_PATH_LENGTH
         THEN [here EXCEPT !.bounded = TRUE]
       ELSE FoldLeft(visit, here, _adjacency(g, Last(path)))

mine_flows(g) ==
    FoldLeft(LAMBDA s, n : IF s.abort THEN s ELSE walk(g, s, <<n>>, <<>>),
             [flows |-> <<>>, bounded |-> FALSE, abort |-> FALSE],
             _entry_pages(g))

---------------------------------------------------------------------------
\* The gateway names a flow; a refusal, an error or an empty reply falls back
\* to a name made from the first and the last page.
categorize_flow(reply) == [fallback |-> reply # "named"]

\* The id of a flow is its position.
build_flows(g, reply) ==
    LET mined == mine_flows(g) IN
    [i \in DOMAIN mined.flows |->
       LET f == mined.flows[i]
           score == risk_score(extract_signals(g, f), RiskWeights)
       IN [id |-> i - 1, risk_score |-> score, risk_tier |-> risk_tier(score),
           step_count |-> Len(f.node_fps), bounded |-> mined.bounded,
           node_fps |-> f.node_fps, fallback |-> categorize_flow(reply).fallback]]

---------------------------------------------------------------------------
\* <<product failures, results>> of a flow in the last K runs; runs holds the
\* run ids, newest first.
failure_rate(results, runs, id) ==
    LET recent == ToSet(SubSeq(runs, 1, IF Len(runs) < LAST_K THEN Len(runs)
                                        ELSE LAST_K))
        mine == SelectSeq(results, LAMBDA r : r.run \in recent /\ r.flow = id)
    IN <<Len(SelectSeq(mine, LAMBDA r : r.verdict = "product_failure")),
         Len(mine)>>

\* 0.6 * risk + 0.4 * 100 * rate, as a fraction over ten times the results.
combined(rec, rate) ==
    LET total == IF rate[2] = 0 THEN 1 ELSE rate[2] IN
    <<6 * rec.risk_score * total + 400 * rate[1], total>>

Above(x, y) == x[1] * y[2] > y[1] * x[2]

\* Mutant: the list is cut before it is sorted.
rank_risk_flows_cut(records, results, runs) ==
    LET n == IF Len(records) < TOP_N THEN Len(records) ELSE TOP_N
        key(i) == combined(records[i], failure_rate(results, runs,
                                                    records[i].id))
        order == SetToSortSeq(1..n,
                   LAMBDA i, j : Above(key(i), key(j))
                                 \/ (~Above(key(j), key(i)) /\ i < j))
    IN [k \in DOMAIN order |-> records[order[k]].id]

\* The sort is stable: equal flows stay in the order they were mined in.
rank_risk_flows(records, results, runs) ==
    LET key(i) == combined(records[i], failure_rate(results, runs,
                                                    records[i].id))
        order == SetToSortSeq(DOMAIN records,
                   LAMBDA i, j : Above(key(i), key(j))
                                 \/ (~Above(key(j), key(i)) /\ i < j))
        n == IF Len(order) < TOP_N THEN Len(order) ELSE TOP_N
    IN [k \in 1..n |-> records[order[k]].id]

Tags == {"smoke", "sanity", "regression"}

\* The marker a tier filters by, "none" for no filter, "422" for no tier.
resolve_tier(tier) ==
    CASE tier \in Tags -> tier
      [] tier \in {"full", "risk-based"} -> "none"
      [] OTHER -> "422"

\* One job per ranked flow, or per distinct flow with an approved scenario;
\* without the graph the ranking is empty.
resolve_flows_for_tier(tier, records, results, runs, approved) ==
    IF tier = "risk-based" THEN rank_risk_flows(records, results, runs)
    ELSE SetToSortSeq(approved, LAMBDA i, j : i < j)
===========================================================================
