---------------------------- MODULE MCAlgorithms ---------------------------
(***************************************************************************)
(* The inputs on which TLC evaluates the pure algorithms, and what those   *)
(* of FlowMining are for: mining and ranking are compared with their       *)
(* definitions on every input.                                             *)
(***************************************************************************)
EXTENDS FlowMining, Algorithms

\* difflib's ratio of the two names used here, which depends on their order.
MCNameRatio(a, b) ==
    IF Missing \in {a, b} THEN <<0, 1>>
    ELSE IF a = b THEN <<1, 1>>
    ELSE IF a = "tide" THEN <<1, 4>> ELSE <<1, 2>>

---------------------------------------------------------------------------
(* The inputs.                                                             *)

\* Node 4 is an endpoint a page submits to.
Pairs == <<<<1, 2>>, <<1, 3>>, <<1, 4>>, <<2, 1>>, <<2, 3>>, <<2, 4>>,
           <<3, 1>>, <<3, 2>>, <<3, 4>>>>

\* More pages than the reader returns: a cycle between two pages of their own.
Wide ==
    [pages |-> [i \in 1..(LIMIT + 1) |-> i], forms |-> {}, verbs |-> {},
     edges |-> [i \in 1..(LIMIT - 1) |->
                  [from |-> i + 1, to |-> IF i = LIMIT - 1 THEN 2 ELSE i + 2,
                   type |-> "NavigatesTo"]]]

\* Every graph of three pages and one endpoint, its edges stored in one of two
\* orders; the fullest have more edges than the reader returns.
MCGraphs ==
    {Wide} \cup
    {[pages |-> <<1, 2, 3>>, forms |-> f, verbs |-> v,
      edges |-> LET seq == SelectSeq(Pairs, LAMBDA e : e \in E)
                    ord == IF up THEN seq ELSE Reverse(seq)
                IN [i \in DOMAIN ord |->
                      [from |-> ord[i][1], to |-> ord[i][2],
                       type |-> IF ord[i][2] \in {2, 4} THEN "Submits"
                                ELSE "NavigatesTo"]]] :
       E \in SUBSET ToSet(Pairs), f \in {{}, {2}}, v \in {{}, {3}}, up \in BOOLEAN}

\* Three flows and the results of up to two executions of them, over three
\* runs; the oldest run is out of the window.
MCRankings ==
    LET Rows == [run : 1..3, flow : {0, 1},
                 verdict : {"passed", "product_failure"}]
    IN [risk : [0..2 -> {0, 40, 100}],
        results : {<<>>} \cup {<<r>> : r \in Rows} \cup Rows \X Rows]
RunOrder == <<3, 2, 1>>
Records(i) == [n \in 1..3 |-> [id |-> n - 1, risk_score |-> i.risk[n - 1]]]

MCNames == {Missing, "tide", "diet"}
Box(x, w) == [x |-> x, y |-> 0, width |-> w, height |-> 1]
MCElements ==
    {[attrs |-> a, tag |-> t, xpath |-> x, role |-> rn[1], name |-> rn[2],
      bbox |-> b, chain |-> <<>>] :
       a \in {{}, {"id"}, {"id", "class"}}, t \in {Missing, "button"},
       x \in {<<>>, <<1>>, <<1, 2>>},
       rn \in {<<Missing, Missing>>, <<"button", "tide">>, <<"button", "diet">>},
       b \in {Missing, Box(0, 2), Box(2, 2), Box(0, 0)}}

\* Up to three rows of one element: a reviewer may have rejected any of them.
MCHealLedgers == UNION {[1..n -> HealRows] : n \in 1..3}

\* Two flows, explored once (run x) and executed twice (runs e and f); the
\* defects are of failed results.
MCDatabases ==
    LET Executed == [run : {"e", "f"}, flow : {0, 1}]
        Key(r) == <<r.run, r.flow>>
        Row(r) == [id |-> Key(r), run |-> r.run, flow |-> r.flow]
    IN {[scenarios |-> {[id |-> n, run |-> "x", flow |-> n] : n \in sc},
         results |-> {Row(r) : r \in res},
         artifacts |-> {Row(r) : r \in res},
         defects |-> {Row(r) : r \in def}] :
          <<sc, res, def>> \in {t \in (SUBSET {0, 1}) \X (SUBSET Executed)
                                      \X (SUBSET Executed) : t[3] \subseteq t[2]}}

\* The journeys the miner returns have pages and edges and no id.
MCMined == {[node_fps |-> <<1, 2>>, edge_types |-> <<"NavigatesTo">>]}

MCTruths ==
    [pages : {{[name |-> "home", url |-> 1, fingerprint |-> f],
               [name |-> "cart", url |-> 2, fingerprint |-> None]} :
                f \in {None, "h"}},
     flows : {{{"home", "cart"}, {"cart"}}, {{"home", "lost"}}}]
MCDiscoveries == [url : 1..3, fingerprint : {None, "h"}]

MCSoaks == [outcomes : [1..4 -> BOOLEAN], n : 0..4, buggy : BOOLEAN,
            bug_url : BOOLEAN]

\* Around the weight of one signal, a tenth, and the settings.
MCThresholds == {10, 11, 60, 61, 85}

---------------------------------------------------------------------------
(* What mining and ranking compute.                                        *)

Edges(g) == {<<e.from, e.to>> : e \in ToSet(g.edges)}
Nodes(g) == ToSet(g.nodes) \cup {e.to : e \in ToSet(g.edges)}

\* The simple paths from an entry page, by definition; a longer one has a prefix
\* that is over MAX_PATH_LENGTH.
Journeys(g) ==
    {p \in UNION {[1..n -> Nodes(g)] : n \in 1..(MAX_PATH_LENGTH + 1)} :
       /\ p[1] \in ToSet(_entry_pages(g))
       /\ IsInjective(p)
       /\ \A i \in 1..(Len(p) - 1) : <<p[i], p[i + 1]>> \in Edges(g)}

\* mine_flows returns journeys that exist in the graph it was given, each set of
\* pages once and within the caps, and when it does not say that it was bounded
\* it has left none of them out.  The graph it is given may itself be cut short
\* without a word: an unflagged list is all there is to test only when neither
\* query of flows_source met its LIMIT.
MiningIsExact ==
    kind = "graph" =>
      LET g == flows_source(input)
          mined == mine_flows(g)
          paths == {f.node_fps : f \in ToSet(mined.flows)}
          sets == {ToSet(p) : p \in paths}
          real == Journeys(g)
          whole == [g EXCEPT !.nodes = input.pages, !.edges = input.edges]
          cut == Len(input.pages) > LIMIT \/ Len(input.edges) > LIMIT
      IN /\ paths \subseteq real
         /\ Cardinality(sets) = Len(mined.flows)
         /\ Len(mined.flows) <= MAX_FLOWS
         /\ \A p \in paths : Len(p) <= MAX_PATH_LENGTH
         /\ ~mined.bounded => sets = {ToSet(p) : p \in real}
         /\ ~mined.bounded /\ ~cut => sets = {ToSet(p) : p \in Journeys(whole)}

\* A mined flow is never rated below the part of it that is a flow of its own,
\* and one with a destructive page never ends up in the low tier: build_flows
\* must not push a longer, more dangerous journey down the list.
RiskGrowsAlongAFlow ==
    kind = "graph" =>
      LET g == flows_source(input)
          mined == mine_flows(g).flows
          built == build_flows(g, "named")
      IN \A i, j \in DOMAIN mined :
           /\ RiskGrows(g, mined[i], mined[j])
           /\ IsPrefix(built[i].node_fps, built[j].node_fps) =>
                built[i].risk_score <= built[j].risk_score
           /\ ToSet(built[i].node_fps) \cap g.destructive # {} =>
                built[i].risk_tier # "low"

\* The risk-based tier runs the flows with the highest blend of risk and recent
\* failures, highest first, equal ones in mined order; the verdicts of runs
\* before the window do not count.
TopRiskIsChosen ==
    kind = "ranking" =>
      LET chosen == rank_risk_flows(Records(input), input.results, RunOrder)
          recent(f) == {n \in DOMAIN input.results :
                          input.results[n].flow = f
                          /\ input.results[n].run \in {2, 3}}
          failed(f) == {n \in recent(f) :
                          input.results[n].verdict = "product_failure"}
          \* Over 2, so that rates of up to two results are whole.
          score(f) == 12 * input.risk[f]
                      + (IF recent(f) = {} THEN 0
                         ELSE (800 * Cardinality(failed(f)))
                              \div Cardinality(recent(f)))
          before(f, h) == score(f) > score(h) \/ (score(f) = score(h) /\ f < h)
      IN /\ Len(chosen) = TOP_N
         /\ \A i, j \in DOMAIN chosen : i < j => before(chosen[i], chosen[j])
         /\ \A f \in ToSet(chosen), h \in (0..2) \ ToSet(chosen) : before(f, h)

\* Risk decides what is tested first, from the score of a mined flow to the
\* choice of the risk-based tier.
RiskOrdersFlows == RiskGrowsAlongAFlow /\ TopRiskIsChosen
===========================================================================
