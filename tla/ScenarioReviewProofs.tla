------------------------ MODULE ScenarioReviewProofs ------------------------
(***************************************************************************)
(* Proofs for ScenarioReview, for any number of requests, rows, texts and  *)
(* refs.                                                                   *)
(*                                                                         *)
(* StoredPassesGates is inductive once it is known that every review       *)
(* request carries a linted text, and resolved refs when it is past its    *)
(* gate (Gated): each column of a committed row comes from the row or from *)
(* the request, and both have passed.  TreeWasApproved needs the log of    *)
(* the approved rows (ApprovedIsLogged) and of those a project is being    *)
(* rendered from (Logged).  UnracedCommitIsExact follows from Fresh: the   *)
(* row a request loaded is the stored one unless another commit has        *)
(* changed it.                                                             *)
(***************************************************************************)
EXTENDS ScenarioReview, TLAPS

USE ReviewAssumption

\* The pcs of a review request.
ReviewPcs == {"gate", "select", "commit"}

\* A review request names a stored row and carries a linted text; past its
\* gate it carries refs that are in the graph.
Gated(q) ==
    q.pc \in ReviewPcs =>
        /\ q.sid \in DOMAIN rows
        /\ q.new.gherkin_text \in LintOk
        /\ q.pc # "gate" => non_vacuous(q.new.then_refs)

\* The rows a project is being rendered from have been approved.
Logged(q) ==
    q.pc = "rendering" =>
        \A s \in Ids : q.approved[s] # NoText
            => <<s, q.approved[s]>> \in everApproved

\* The row a request loaded is the stored one, unless the request was raced.
Fresh(q) ==
    q.pc \in ReviewPcs /\ ~q.raced => q.loaded = rows[q.sid]

\* The strengthening: the three facts for every request, and approved rows
\* are in the log.
RequestsInv ==
    \A r \in Requests : Gated(req[r]) /\ Logged(req[r]) /\ Fresh(req[r])
ApprovedIsLogged ==
    \A s \in DOMAIN rows : rows[s].status = "approved"
        => <<s, rows[s].gherkin_text>> \in everApproved

IInv ==
    /\ TypeOK
    /\ RequestsInv
    /\ ApprovedIsLogged
    /\ StoredPassesGates
    /\ TreeWasApproved

ReqKinds == {Idle} \cup Review \cup Generation \cup Rendering

-----------------------------------------------------------------------------
(* Requests of each kind *)

\* A request of edit, approve or reject is told by its pc.
LEMMA ReviewType ==
    ASSUME TypeOK, NEW r \in Requests, req[r].pc \in ReviewPcs
    PROVE  req[r] \in Review
  BY DEF TypeOK, ReviewPcs, Idle, Review, Generation, Rendering

\* So is a generate_project that has read its rows.
LEMMA RenderingType ==
    ASSUME TypeOK, NEW r \in Requests, req[r].pc = "rendering"
    PROVE  req[r] \in Rendering
  BY DEF TypeOK, Idle, Review, Generation, Rendering

\* So is a generate_scenarios.
LEMMA GenerationType ==
    ASSUME TypeOK, NEW r \in Requests, req[r].pc = "generating"
    PROVE  req[r] \in Generation
  BY DEF TypeOK, Idle, Review, Generation, Rendering

\* Each column of the row after an UPDATE is the stored or the assigned one.
LEMMA FlushedColumns ==
    ASSUME NEW row \in Scenario, NEW loaded \in Scenario, NEW new \in Scenario
    PROVE  /\ Flushed(row, loaded, new) \in Scenario
           /\ Flushed(row, loaded, new).gherkin_text
                 \in {row.gherkin_text, new.gherkin_text}
           /\ Flushed(row, loaded, new).then_refs
                 \in {row.then_refs, new.then_refs}
           /\ row = loaded => Flushed(row, loaded, new) = new
  <1> DEFINE g == Flushed(row, loaded, new)
  <1>1. DOMAIN row = {"status", "gherkin_text", "then_refs", "edited"}
    BY DEF Scenario
  <1>2. g = [c \in {"status", "gherkin_text", "then_refs", "edited"} |->
                IF new[c] # loaded[c] THEN new[c] ELSE row[c]]
    BY <1>1 DEF Flushed
  <1>3. /\ g.status \in {row.status, new.status}
        /\ g.gherkin_text \in {row.gherkin_text, new.gherkin_text}
        /\ g.then_refs \in {row.then_refs, new.then_refs}
        /\ g.edited \in {row.edited, new.edited}
    BY <1>2
  <1>4. g = [status |-> g.status, gherkin_text |-> g.gherkin_text,
             then_refs |-> g.then_refs, edited |-> g.edited]
    BY <1>2
  <1>5. g \in Scenario
    BY <1>3, <1>4 DEF Scenario
  <1>6. ASSUME row = loaded PROVE g = new
    <2>1. \A c \in DOMAIN row : g[c] = new[c]
      BY <1>1, <1>2, <1>6
    <2>2. new = [status |-> new.status, gherkin_text |-> new.gherkin_text,
                 then_refs |-> new.then_refs, edited |-> new.edited]
      BY DEF Scenario
    <2> QED BY <1>1, <1>4, <2>1, <2>2
  <1> QED BY <1>3, <1>5, <1>6

-----------------------------------------------------------------------------
(* Steps *)

\* A step that only moves one request to a state with the three facts.
LEMMA RequestStep ==
    ASSUME IInv, NEW r \in Requests, NEW v \in ReqKinds,
           req' = [req EXCEPT ![r] = v],
           UNCHANGED <<rows, kg, tree, everApproved>>,
           Gated(v), Logged(v), Fresh(v)
    PROVE  IInv'
  <1>1. \A q \in Requests : req'[q] = IF q = r THEN v ELSE req[q]
    BY DEF IInv, TypeOK
  <1>2. TypeOK'
    BY DEF IInv, TypeOK, ReqKinds
  <1>3. RequestsInv'
    <2> SUFFICES ASSUME NEW q \in Requests
                 PROVE  (Gated(req[q]) /\ Logged(req[q]) /\ Fresh(req[q]))'
      BY DEF RequestsInv
    <2>1. CASE q = r
      BY <1>1, <2>1 DEF Gated, Logged, Fresh, non_vacuous
    <2>2. CASE q # r
      BY <1>1, <2>2 DEF IInv, RequestsInv, Gated, Logged, Fresh, non_vacuous
    <2> QED BY <2>1, <2>2
  <1>4. (ApprovedIsLogged /\ StoredPassesGates /\ TreeWasApproved)'
    BY DEF IInv, ApprovedIsLogged, StoredPassesGates, TreeWasApproved,
           lints, non_vacuous
  <1> QED BY <1>2, <1>3, <1>4 DEF IInv

\* A request that ends has the three facts.
LEMMA IdleFacts == Idle \in ReqKinds /\ Gated(Idle) /\ Logged(Idle) /\ Fresh(Idle)
  BY DEF Idle, ReqKinds, Gated, Logged, Fresh, ReviewPcs

\* A review request whose row was just loaded has them.
LEMMA LoadedFacts ==
    ASSUME IInv, NEW s \in Ids, s \in DOMAIN rows,
           NEW pc \in ReviewPcs, NEW op \in {"edit", "approve", "reject"},
           NEW new \in Scenario, new.gherkin_text \in LintOk,
           pc # "gate" => non_vacuous(new.then_refs),
           NEW v, v = [pc |-> pc, op |-> op, sid |-> s, loaded |-> rows[s],
                       new |-> new, raced |-> FALSE]
    PROVE  v \in ReqKinds /\ Gated(v) /\ Logged(v) /\ Fresh(v)
  <1>1. rows[s] \in Scenario
    BY DEF IInv, TypeOK
  <1>2. v \in ReqKinds
    BY <1>1 DEF ReqKinds, Review, ReviewPcs
  <1> QED BY <1>2 DEF Gated, Logged, Fresh, ReviewPcs

\* The graph grows: refs that were in it still are.
LEMMA CrawlStep ==
    ASSUME IInv, NEW n \in Refs, crawl(n)
    PROVE  IInv'
  <1>1. TypeOK'
    BY DEF IInv, TypeOK, crawl
  <1>2. \A refs : non_vacuous(refs) => refs # {} /\ refs \subseteq kg'
    BY DEF crawl, non_vacuous
  <1>3. RequestsInv'
    BY <1>2 DEF IInv, RequestsInv, Gated, Logged, Fresh, crawl, non_vacuous
  <1>4. (ApprovedIsLogged /\ StoredPassesGates /\ TreeWasApproved)'
    BY <1>2 DEF IInv, ApprovedIsLogged, StoredPassesGates, TreeWasApproved,
                crawl, lints, non_vacuous
  <1> QED BY <1>1, <1>3, <1>4 DEF IInv

\* A new draft is linted and resolved, and leaves the other rows alone.
LEMMA CreateStep ==
    ASSUME IInv, NEW r \in Requests, NEW text \in Texts, NEW refs \in SUBSET Refs,
           create_scenario(r, text, refs)
    PROVE  IInv'
  <1> DEFINE row == [status |-> "draft", gherkin_text |-> text,
                     then_refs |-> refs, edited |-> FALSE]
             v == [req[r] EXCEPT !.left = @ - 1]
  <1>1. row \in Scenario
    BY DEF Scenario, VALID
  <1>2. req[r] \in Generation
    BY GenerationType DEF IInv, create_scenario
  <1>3. v \in Generation
    BY <1>2 DEF Generation, create_scenario
  <1>4. req' = [req EXCEPT ![r] = v]
    BY DEF create_scenario
  <1>5. /\ DOMAIN rows' = DOMAIN rows \cup {Len(rows) + 1}
        /\ \A s \in DOMAIN rows : rows'[s] = rows[s]
        /\ rows'[Len(rows) + 1] = row
        /\ rows' \in Seq(Scenario)
        /\ Len(rows') = Len(rows) + 1
    BY <1>1 DEF IInv, TypeOK, create_scenario, draft
  <1>6. \A q \in Requests : req'[q] = IF q = r THEN v ELSE req[q]
    BY <1>4 DEF IInv, TypeOK
  <1> HIDE DEF row, v
  <1>7. TypeOK'
    <2>1. req' \in [Requests -> {Idle} \cup Review \cup Generation \cup Rendering]
      BY <1>3, <1>4 DEF IInv, TypeOK
    <2>2. rows' \in Seq(Scenario) /\ Len(rows') <= MaxScenarios
      BY <1>5 DEF IInv, TypeOK, create_scenario
    <2>3. UNCHANGED <<kg, tree, everApproved>>
      BY DEF create_scenario
    <2> QED BY <2>1, <2>2, <2>3 DEF IInv, TypeOK
  <1>8. RequestsInv'
    <2> SUFFICES ASSUME NEW q \in Requests
                 PROVE  (Gated(req[q]) /\ Logged(req[q]) /\ Fresh(req[q]))'
      BY DEF RequestsInv
    <2>1. CASE q = r
      <3>1. req'[q].pc = "generating"
        BY <1>3, <1>6, <2>1 DEF Generation
      <3> QED BY <3>1 DEF Gated, Logged, Fresh, ReviewPcs
    <2>2. CASE q # r
      BY <1>5, <1>6, <2>2
         DEF IInv, RequestsInv, Gated, Logged, Fresh, non_vacuous, create_scenario
    <2> QED BY <2>1, <2>2
  <1>9. (ApprovedIsLogged /\ StoredPassesGates /\ TreeWasApproved)'
    BY <1>5 DEF IInv, ApprovedIsLogged, StoredPassesGates, TreeWasApproved,
                create_scenario, lints, non_vacuous, row
  <1> QED BY <1>7, <1>8, <1>9 DEF IInv

\* A commit mixes columns that have all passed; the requests on the row it
\* changes are marked.
LEMMA CommitStep ==
    ASSUME IInv, NEW r \in Requests, commit(r)
    PROVE  IInv'
  <1> DEFINE s == req[r].sid
             row == Flushed(rows[s], req[r].loaded, req[r].new)
  <1>1. /\ req[r] \in Review
        /\ s \in DOMAIN rows
        /\ s \in Ids
        /\ rows[s] \in Scenario
        /\ req[r].new.gherkin_text \in LintOk
        /\ non_vacuous(req[r].new.then_refs)
    <2>1. req[r].pc = "commit" /\ req[r].pc \in ReviewPcs
      BY DEF commit, ReviewPcs
    <2>2. req[r] \in Review
      BY <2>1, ReviewType DEF IInv
    <2>3. Gated(req[r])
      BY DEF IInv, RequestsInv
    <2> QED BY <2>1, <2>2, <2>3 DEF Gated, Review, IInv, TypeOK
  <1>2. /\ row \in Scenario
        /\ row.gherkin_text \in LintOk
        /\ non_vacuous(row.then_refs)
    <2>1. req[r].loaded \in Scenario /\ req[r].new \in Scenario
      BY <1>1 DEF Review
    <2>2. rows[s].gherkin_text \in LintOk /\ non_vacuous(rows[s].then_refs)
      BY <1>1 DEF IInv, StoredPassesGates, lints
    <2> QED BY <1>1, <2>1, <2>2, FlushedColumns
  <1>3. rows' = [rows EXCEPT ![s] = row]
    BY DEF commit, save
  <1>4. \A q \in Requests : req'[q] =
            IF q = r THEN Idle
            ELSE IF OnRow(req[q], s) /\ row # rows[s]
                 THEN [req[q] EXCEPT !.raced = TRUE]
                 ELSE req[q]
    BY DEF commit, save
  <1>5. everApproved' = everApproved \cup
            {p \in {<<s, row.gherkin_text>>} : row.status = "approved"}
    BY DEF commit, save
  <1>6. kg' = kg /\ tree' = tree
    BY DEF commit, save
  <1>7. DOMAIN req' = Requests
    BY DEF commit, save
  <1>8. req' \in [Requests -> ReqKinds]
    <2> SUFFICES ASSUME NEW q \in Requests PROVE req'[q] \in ReqKinds
      BY DEF commit, save
    <2>1. CASE OnRow(req[q], s)
      <3>1. req[q] \in Review
        BY <2>1, ReviewType DEF OnRow, ReviewPcs, IInv
      <3>2. [req[q] EXCEPT !.raced = TRUE] \in Review
        BY <3>1 DEF Review
      <3> QED BY <1>4, <3>1, <3>2 DEF ReqKinds
    <2>2. CASE ~OnRow(req[q], s)
      BY <1>4, <2>2 DEF IInv, TypeOK, ReqKinds
    <2> QED BY <2>1, <2>2
  <1> HIDE DEF s, row
  <1>9. /\ DOMAIN rows' = DOMAIN rows
        /\ rows'[s] = row
        /\ \A t \in DOMAIN rows : t # s => rows'[t] = rows[t]
        /\ rows' \in Seq(Scenario)
        /\ Len(rows') = Len(rows)
    BY <1>1, <1>2, <1>3 DEF IInv, TypeOK
  <1>10. TypeOK'
    <2>1. (everApproved \subseteq Ids \X Texts)'
      BY <1>1, <1>2, <1>5 DEF IInv, TypeOK, Scenario
    <2> QED BY <1>6, <1>8, <1>9, <2>1 DEF IInv, TypeOK, ReqKinds
  <1>11. RequestsInv'
    <2> SUFFICES ASSUME NEW q \in Requests
                 PROVE  (Gated(req[q]) /\ Logged(req[q]) /\ Fresh(req[q]))'
      BY DEF RequestsInv
    <2>1. Gated(req[q]) /\ Logged(req[q]) /\ Fresh(req[q])
      BY DEF IInv, RequestsInv
    <2>2. CASE q = r
      <3>1. req'[q] = Idle
        BY <1>4, <2>2
      <3>2. req'[q].pc = "idle"
        BY <3>1 DEF Idle
      <3> QED BY <3>2 DEF Gated, Logged, Fresh, ReviewPcs
    <2>3. CASE q # r /\ OnRow(req[q], s)
      <3>1. req[q] \in Review
        BY <2>3, ReviewType DEF OnRow, ReviewPcs, IInv
      <3>2. CASE row # rows[s]
        <4>1. req'[q] = [req[q] EXCEPT !.raced = TRUE]
          BY <1>4, <2>3, <3>2
        <4>2. /\ req'[q].pc = req[q].pc
              /\ req'[q].sid = req[q].sid
              /\ req'[q].new = req[q].new
              /\ req'[q].raced = TRUE
          BY <3>1, <4>1 DEF Review
        <4> QED BY <1>6, <1>9, <2>1, <2>3, <4>2
                DEF Gated, Logged, Fresh, non_vacuous, ReviewPcs, OnRow
      <3>3. CASE row = rows[s]
        <4>1. req'[q] = req[q]
          BY <1>4, <2>3, <3>3
        <4>2. rows'[s] = rows[s]
          BY <1>9, <3>3
        <4> QED BY <1>6, <1>9, <2>1, <2>3, <4>1, <4>2
                DEF Gated, Logged, Fresh, non_vacuous, ReviewPcs, OnRow
      <3> QED BY <3>2, <3>3
    <2>4. CASE q # r /\ ~OnRow(req[q], s)
      <3>1. req'[q] = req[q]
        BY <1>4, <2>4
      <3>2. req[q].pc \in ReviewPcs => req[q].sid # s
        BY <2>4 DEF OnRow, ReviewPcs
      <3> QED BY <1>5, <1>6, <1>9, <2>1, <3>1, <3>2
              DEF Gated, Logged, Fresh, non_vacuous
    <2> QED BY <2>2, <2>3, <2>4
  <1>12. ApprovedIsLogged'
    BY <1>5, <1>9 DEF IInv, ApprovedIsLogged
  <1>13. StoredPassesGates'
    BY <1>2, <1>6, <1>9 DEF IInv, StoredPassesGates, lints, non_vacuous
  <1>14. TreeWasApproved'
    BY <1>5, <1>6 DEF IInv, TreeWasApproved
  <1> QED BY <1>10, <1>11, <1>12, <1>13, <1>14 DEF IInv

\* The files written are those of logged rows.
LEMMA WriteStep ==
    ASSUME IInv, NEW r \in Requests, write_tree(r)
    PROVE  IInv'
  <1>1. req[r] \in Rendering
    BY RenderingType DEF IInv, write_tree
  <1>2. Logged(req[r])
    BY DEF IInv, RequestsInv
  <1>3. req' = [req EXCEPT ![r] = Idle] /\ UNCHANGED <<rows, kg, everApproved>>
    BY DEF write_tree
  <1>4. \A q \in Requests : req'[q] = IF q = r THEN Idle ELSE req[q]
    BY <1>3 DEF IInv, TypeOK
  <1>5. tree' \in [Ids -> Texts \cup {NoText}]
    BY <1>1 DEF IInv, TypeOK, write_tree, Rendering
  <1>6. TypeOK'
    BY <1>3, <1>5 DEF IInv, TypeOK
  <1>7. RequestsInv'
    BY <1>3, <1>4, IdleFacts
       DEF IInv, RequestsInv, Gated, Logged, Fresh, non_vacuous
  <1>8. TreeWasApproved'
    BY <1>2, <1>3 DEF IInv, TreeWasApproved, Logged, write_tree
  <1>9. (ApprovedIsLogged /\ StoredPassesGates)'
    BY <1>3 DEF IInv, ApprovedIsLogged, StoredPassesGates, lints, non_vacuous
  <1> QED BY <1>6, <1>7, <1>8, <1>9 DEF IInv

\* Every handler's start, gate and end, and the second SELECT of an edit.
LEMMA ReviewStep ==
    ASSUME IInv, NEW r \in Requests, review(r)
    PROVE  IInv'
  <1>1. ASSUME NEW s \in Ids, approve_scenario(r, s) PROVE IInv'
    <2> DEFINE new == [rows[s] EXCEPT !.status = "approved"]
               v == [pc |-> "gate", op |-> "approve", sid |-> s,
                     loaded |-> rows[s], new |-> new, raced |-> FALSE]
    <2>1. s \in DOMAIN rows /\ rows[s] \in Scenario
      BY <1>1 DEF approve_scenario, IInv, TypeOK
    <2>2. new \in Scenario /\ new.gherkin_text \in LintOk
      BY <1>1, <2>1 DEF approve_scenario, lints, Scenario, VALID
    <2>3. /\ req' = [req EXCEPT ![r] = v]
          /\ UNCHANGED <<rows, kg, tree, everApproved>>
      BY <1>1 DEF approve_scenario
    <2> HIDE DEF new
    <2>4. v \in ReqKinds /\ Gated(v) /\ Logged(v) /\ Fresh(v)
      BY <2>1, <2>2, LoadedFacts DEF ReviewPcs
    <2> QED BY <2>3, <2>4, RequestStep
  <1>2. ASSUME NEW s \in Ids, reject_scenario(r, s) PROVE IInv'
    <2> DEFINE new == [rows[s] EXCEPT !.status = "rejected"]
               v == [pc |-> "commit", op |-> "reject", sid |-> s,
                     loaded |-> rows[s], new |-> new, raced |-> FALSE]
    <2>1. s \in DOMAIN rows /\ rows[s] \in Scenario
      BY <1>2 DEF reject_scenario, IInv, TypeOK
    <2>2. /\ new \in Scenario
          /\ new.gherkin_text \in LintOk
          /\ non_vacuous(new.then_refs)
      BY <2>1 DEF Scenario, VALID, IInv, StoredPassesGates, lints
    <2>3. /\ req' = [req EXCEPT ![r] = v]
          /\ UNCHANGED <<rows, kg, tree, everApproved>>
      BY <1>2 DEF reject_scenario
    <2> HIDE DEF new
    <2>4. v \in ReqKinds /\ Gated(v) /\ Logged(v) /\ Fresh(v)
      BY <2>1, <2>2, LoadedFacts DEF ReviewPcs
    <2> QED BY <2>3, <2>4, RequestStep
  <1>3. ASSUME NEW s \in Ids, NEW text \in Texts, NEW refs \in SUBSET Refs,
               edit_scenario(r, s, text, refs)
        PROVE  IInv'
    <2> DEFINE new == [status |-> "draft", gherkin_text |-> text,
                       then_refs |-> refs, edited |-> TRUE]
               v == [pc |-> "gate", op |-> "edit", sid |-> s,
                     loaded |-> rows[s], new |-> new, raced |-> FALSE]
    <2>1. s \in DOMAIN rows
      BY <1>3 DEF edit_scenario
    <2>2. new \in Scenario /\ new.gherkin_text \in LintOk
      BY <1>3 DEF edit_scenario, lints, Scenario, VALID
    <2>3. /\ req' = [req EXCEPT ![r] = v]
          /\ UNCHANGED <<rows, kg, tree, everApproved>>
      BY <1>3 DEF edit_scenario
    <2> HIDE DEF new
    <2>4. v \in ReqKinds /\ Gated(v) /\ Logged(v) /\ Fresh(v)
      BY <2>1, <2>2, LoadedFacts DEF ReviewPcs
    <2> QED BY <2>3, <2>4, RequestStep
  <1>4. ASSUME gate_passes(r) PROVE IInv'
    <2> DEFINE next == IF req[r].op = "edit" THEN "select" ELSE "commit"
               v == [req[r] EXCEPT !.pc = next]
    <2>1. req[r].pc \in ReviewPcs /\ req[r] \in Review
      BY <1>4, ReviewType DEF gate_passes, ReviewPcs, IInv
    <2>2. /\ req' = [req EXCEPT ![r] = v]
          /\ UNCHANGED <<rows, kg, tree, everApproved>>
          /\ non_vacuous(req[r].new.then_refs)
      BY <1>4 DEF gate_passes
    <2>3. /\ v \in Review
          /\ v.pc \in ReviewPcs
          /\ v.new = req[r].new
          /\ v.sid = req[r].sid
          /\ v.loaded = req[r].loaded
          /\ v.raced = req[r].raced
      BY <2>1 DEF Review, ReviewPcs
    <2>4. Gated(req[r]) /\ Fresh(req[r])
      BY DEF IInv, RequestsInv
    <2> HIDE DEF v
    <2>5. v \in ReqKinds /\ Gated(v) /\ Logged(v) /\ Fresh(v)
      BY <2>1, <2>2, <2>3, <2>4 DEF ReqKinds, Gated, Logged, Fresh, ReviewPcs
    <2> QED BY <2>2, <2>5, RequestStep
  <1>5. ASSUME gate_refuses(r) PROVE IInv'
    BY <1>5, IdleFacts, RequestStep DEF gate_refuses
  <1>6. ASSUME update_gherkin(r) PROVE IInv'
    <2> DEFINE v == [req[r] EXCEPT !.pc = "commit",
                                   !.loaded = rows[req[r].sid],
                                   !.raced = FALSE]
    <2>1. req[r].pc \in ReviewPcs /\ req[r].pc # "gate" /\ req[r] \in Review
      BY <1>6, ReviewType DEF update_gherkin, ReviewPcs, IInv
    <2>2. /\ req' = [req EXCEPT ![r] = v]
          /\ UNCHANGED <<rows, kg, tree, everApproved>>
      BY <1>6 DEF update_gherkin, IInv, TypeOK
    <2>3. Gated(req[r])
      BY DEF IInv, RequestsInv
    <2>4. rows[req[r].sid] \in Scenario
      BY <2>1, <2>3 DEF Gated, IInv, TypeOK
    <2>5. /\ v \in Review
          /\ v.pc = "commit"
          /\ v.new = req[r].new
          /\ v.sid = req[r].sid
          /\ v.loaded = rows[v.sid]
      BY <2>1, <2>4 DEF Review
    <2> HIDE DEF v
    <2>6. v \in ReqKinds /\ Gated(v) /\ Logged(v) /\ Fresh(v)
      BY <2>1, <2>3, <2>5 DEF ReqKinds, Gated, Logged, Fresh, ReviewPcs
    <2> QED BY <2>2, <2>6, RequestStep
  <1> QED BY <1>1, <1>2, <1>3, <1>4, <1>5, <1>6, CommitStep DEF review

\* Drafts and project generation.
LEMMA GenerateStep ==
    ASSUME IInv, NEW r \in Requests, generate(r)
    PROVE  IInv'
  <1>1. ASSUME generate_scenarios(r) PROVE IInv'
    <2>1. PICK n \in 0..MaxFlows :
              req' = [req EXCEPT ![r] = [pc |-> "generating", left |-> n]]
      BY <1>1 DEF generate_scenarios
    <2> DEFINE v == [pc |-> "generating", left |-> n]
    <2>2. v \in ReqKinds /\ Gated(v) /\ Logged(v) /\ Fresh(v)
      BY DEF ReqKinds, Generation, Gated, Logged, Fresh, ReviewPcs
    <2>3. UNCHANGED <<rows, kg, tree, everApproved>>
      BY <1>1 DEF generate_scenarios
    <2> HIDE DEF v
    <2>4. req' = [req EXCEPT ![r] = v]
      BY <2>1 DEF v
    <2> QED BY <2>2, <2>3, <2>4, RequestStep
  <1>2. ASSUME generation_ends(r) PROVE IInv'
    BY <1>2, IdleFacts, RequestStep DEF generation_ends
  <1>3. ASSUME generate_project(r) PROVE IInv'
    <2> DEFINE v == [pc |-> "rendering", approved |-> list_approved]
    <2>1. list_approved \in [Ids -> Texts \cup {NoText}]
      <3>1. \A s \in DOMAIN rows : rows[s] \in Scenario
        BY DEF IInv, TypeOK
      <3>2. \A s \in DOMAIN rows : rows[s].gherkin_text \in Texts
        BY <3>1 DEF Scenario
      <3> QED BY <3>2 DEF list_approved
    <2>2. \A s \in Ids : list_approved[s] # NoText
              => <<s, list_approved[s]>> \in everApproved
      BY DEF list_approved, IInv, ApprovedIsLogged
    <2>3. v \in ReqKinds /\ Gated(v) /\ Logged(v) /\ Fresh(v)
      BY <2>1, <2>2 DEF ReqKinds, Rendering, Gated, Logged, Fresh, ReviewPcs
    <2>4. /\ req' = [req EXCEPT ![r] = v]
          /\ UNCHANGED <<rows, kg, tree, everApproved>>
      BY <1>3 DEF generate_project
    <2> HIDE DEF v
    <2> QED BY <2>3, <2>4, RequestStep
  <1>4. ASSUME rendering_fails(r) PROVE IInv'
    BY <1>4, IdleFacts, RequestStep DEF rendering_fails
  <1> QED BY <1>1, <1>2, <1>3, <1>4, CreateStep, WriteStep DEF generate

\* A step that changes nothing.
LEMMA StutterStep == IInv /\ UNCHANGED vars => IInv'
  BY DEF IInv, vars, TypeOK, RequestsInv, Gated, Logged, Fresh,
         ApprovedIsLogged, StoredPassesGates, TreeWasApproved,
           lints, non_vacuous

-----------------------------------------------------------------------------
(* Theorems *)

\* The inductive invariant holds of every behaviour of the review queue.
THEOREM Inductive == Spec => []IInv
  <1>1. Init => IInv
    <2> SUFFICES ASSUME Init PROVE IInv
      OBVIOUS
    <2>1. TypeOK
      BY DEF Init, TypeOK
    <2>2. RequestsInv
      BY IdleFacts DEF Init, RequestsInv
    <2>3. ApprovedIsLogged /\ StoredPassesGates /\ TreeWasApproved
      BY DEF Init, ApprovedIsLogged, StoredPassesGates, TreeWasApproved
    <2> QED BY <2>1, <2>2, <2>3 DEF IInv
  <1>2. IInv /\ [Next]_vars => IInv'
    BY ReviewStep, GenerateStep, CrawlStep, StutterStep DEF Next
  <1> QED BY <1>1, <1>2, PTL DEF Spec

\* Rows, requests, tree and log always have their types.
THEOREM TypeCorrect == Spec => []TypeOK
  <1>1. IInv => TypeOK
    BY DEF IInv
  <1> QED BY <1>1, Inductive, PTL

\* Whatever edits, approvals and rejections race on a row, the columns their
\* UPDATEs leave in it have passed the lint and the no-vacuous gate.
THEOREM StoredIsGated == Spec => []StoredPassesGates
  <1>1. IInv => StoredPassesGates
    BY DEF IInv
  <1> QED BY <1>1, Inductive, PTL

\* Every feature file generate_project leaves in the project holds a text that
\* its row had when it was approved.
THEOREM TreeIsApproved == Spec => []TreeWasApproved
  <1>1. IInv => TreeWasApproved
    BY DEF IInv
  <1> QED BY <1>1, Inductive, PTL

\* A commit of an edit, approval or rejection that no other commit raced with
\* leaves the row its handler meant to leave.
THEOREM UnracedIsExact == Spec => UnracedCommitIsExact
  <1>1. IInv /\ [Next]_vars =>
            [\A r \in Requests :
                commit(r) /\ ~req[r].raced => rows'[req[r].sid] = req[r].new]_vars
    <2> SUFFICES ASSUME IInv, NEW r \in Requests, commit(r), ~req[r].raced
                 PROVE  rows'[req[r].sid] = req[r].new
      OBVIOUS
    <2>1. req[r].pc \in ReviewPcs /\ req[r] \in Review
      BY ReviewType DEF commit, ReviewPcs, IInv
    <2>2. Gated(req[r]) /\ Fresh(req[r])
      BY DEF IInv, RequestsInv
    <2>3. req[r].sid \in DOMAIN rows /\ req[r].loaded = rows[req[r].sid]
      BY <2>1, <2>2 DEF Gated, Fresh
    <2>4. req[r].loaded \in Scenario /\ req[r].new \in Scenario
      BY <2>1 DEF Review
    <2>5. Flushed(rows[req[r].sid], req[r].loaded, req[r].new) = req[r].new
      BY <2>3, <2>4, FlushedColumns
    <2> QED BY <2>3, <2>5 DEF commit, save, IInv, TypeOK
  <1> QED BY <1>1, Inductive, PTL DEF Spec, UnracedCommitIsExact
=============================================================================
