------------------------------ MODULE Reports -----------------------------
(***************************************************************************)
(* What the platform derives from its rows on demand: the traceability     *)
(* chain of an artifact, the search documents, the coverage of a hand-made *)
(* ground truth and the acceptance of a generated spec.                    *)
(*                                                                         *)
(* A database is a record of the sets "scenarios" (each with id, run, flow *)
(* and status), "results", "artifacts" (id, run, flow) and "defects"       *)
(* (id, run, flow).  The run of a scenario is the exploration it was       *)
(* generated from, the run of the other rows the execution they belong to. *)
(***************************************************************************)
EXTENDS Integers, Sequences, FiniteSets

CONSTANT None      \* an entry that pins no run

---------------------------------------------------------------------------
(* Traceability: an entry is a kind and an id.                             *)

Pins(run, flows) == [run |-> run, flows |-> flows]

_resolve_keys(db, kind, id) ==
    LET of(rows) == IF \E r \in rows : r.id = id
                    THEN LET r == CHOOSE r \in rows : r.id = id
                         IN Pins(r.run, {r.flow})
                    ELSE Pins(None, {})
    IN CASE kind = "scenario" -> of(db.scenarios)
         [] kind = "defect" -> of(db.defects)
         [] kind = "run" -> Pins(id, {r.flow : r \in {x \in db.results :
                                                        x.run = id}})
         [] kind = "flow" -> Pins(None, {id})

\* The mined journeys, as far as they carry one of the ids.
_flow_segment(mined, flows) ==
    {f \in mined : "id" \in DOMAIN f /\ f.id \in flows}

\* Mutant: the flow alone ties an execution to the chain.
segment_any_run(rows, runs, flows) ==
    {r \in rows : (runs = {} \/ r.run \notin {None})
                  /\ (flows = {} \/ r.flow \in flows)}

\* Rows of the runs, and of the flows when there are any.
segment(rows, runs, flows) ==
    {r \in rows : r.run \in runs /\ (flows = {} \/ r.flow \in flows)}

chain(db, mined, kind, id) ==
    LET keys == _resolve_keys(db, kind, id)
        found == keys # Pins(None, {})
        scenarios ==
          {s \in db.scenarios : /\ keys.flows = {} \/ s.flow \in keys.flows
                                /\ keys.run = None \/ s.run = keys.run}
        runs == {s.run : s \in scenarios} \cup ({keys.run} \ {None})
    IN IF ~found
       THEN [flow |-> {}, scenarios |-> {}, scripts |-> {}, executions |-> {},
             artifacts |-> {}, defects |-> {}]
       ELSE [flow |-> _flow_segment(mined, keys.flows),
             scenarios |-> scenarios,
             scripts |-> {s.run : s \in scenarios},
             executions |-> segment(db.results, runs, keys.flows),
             artifacts |-> segment(db.artifacts, runs, keys.flows),
             defects |-> segment(db.defects, runs, keys.flows)]

---------------------------------------------------------------------------
(* Search documents: an index maps <<index, run, flow>> to the fields its  *)
(* document is given.                                                      *)

\* The only fields a query is matched against.
_SEARCH_FIELDS == {"error_text", "evidence_text", "message"}

\* The documents that search() may find for some text.
search(index) == {k \in DOMAIN index : index[k] \cap _SEARCH_FIELDS # {}}

\* The documents of some rows, by their ids.
Documents(index, rows, fields) ==
    [k \in {<<index, r.run, r.flow>> : r \in rows} |-> fields]

\* A document replaces the one that has its id.
put(index, docs) ==
    [k \in DOMAIN index \cup DOMAIN docs |->
       IF k \in DOMAIN docs THEN docs[k] ELSE index[k]]

\* What the write paths index, when the search engine is up.
index_execution(index, r) ==
    put(index, Documents("executions", {r}, {"verdict", "error_text"}))
index_failure(index, d) ==
    put(index, Documents("failures", {d},
        {"classification", "fingerprint", "confidence", "error_text"}))

\* Mutant: defects are left out of the bulk stream.
backfill_unfiled(index, db) ==
    put(put(index, Documents("executions", db.results,
                             {"verdict", "error_text"})),
        Documents("failures", db.defects,
          {"classification", "confidence", "error_text", "evidence_text"}))

\* The bulk stream: results, then classifications, then defects.  There is a
\* defect for every classification, and its document, which has the same id,
\* replaces the one before.
backfill(index, db) ==
    put(put(put(index, Documents("executions", db.results,
                                 {"verdict", "error_text"})),
            Documents("failures", db.defects,
              {"classification", "confidence", "error_text", "evidence_text"})),
        Documents("failures", db.defects,
          {"classification", "fingerprint", "confidence", "jira_key"}))

---------------------------------------------------------------------------
(* Ground-truth coverage: pages have a name, a normalised url and perhaps  *)
(* a fingerprint; a flow is the set of names of its pages.                 *)

_page_matches(g, discovered) ==
    \/ g.fingerprint # None
       /\ \E p \in discovered : p.fingerprint = g.fingerprint
    \/ \E p \in discovered : p.url = g.url

\* Mutant: a journey counts as soon as one of its pages was found.
flow_covered_partly(f, names) == f \cap names # {} \/ f = {}

flow_covered(f, names) == f \subseteq names

\* Percentages are in tenths, rounded down here (the code rounds to one
\* decimal).
percent(n, total) == IF total = 0 THEN 0 ELSE (1000 * n) \div total

\* The coverage endpoint: only an empty discovery is not measured.
compute_coverage(truth, discovered) ==
    LET matched == {g \in truth.pages : _page_matches(g, discovered)}
        names == {g.name : g \in matched}
        flows == {f \in truth.flows : flow_covered(f, names)}
        measured == discovered # {}
    IN [measured |-> measured,
        screens_covered |-> IF measured THEN Cardinality(matched) ELSE 0,
        coverage_percent |-> IF measured THEN percent(Cardinality(matched),
                                           Cardinality(truth.pages)) ELSE 0,
        flows_covered |-> IF measured THEN Cardinality(flows) ELSE 0]

---------------------------------------------------------------------------
(* Acceptance of a spec: outcomes are those the consecutive runs would     *)
(* have, buggy the outcome against the seeded bug, whose build is at       *)
(* bug_url if that is set.                                                 *)

\* The soak stops at the first run that is not green.
run_stability(outcomes, n) ==
    LET red == {i \in 1..n : ~outcomes[i]}
        done == IF red = {} THEN n ELSE CHOOSE i \in red : \A j \in red : i <= j
        results == SubSeq(outcomes, 1, done)
        passed == Cardinality({i \in 1..done : results[i]})
    IN [runs |-> n, results |-> results, accepted |-> passed = n]

run_seeded_bug(buggy) == [detected_breakage |-> ~buggy]

\* The soak comes first; without a bug url the second half raises, and there is
\* no verdict.
accept_spec(outcomes, n, buggy, bug_url) ==
    LET stability == run_stability(outcomes, n) IN
    [raised |-> ~bug_url, stability |-> stability,
     accepted |-> /\ bug_url /\ stability.accepted
                  /\ run_seeded_bug(buggy).detected_breakage]

---------------------------------------------------------------------------
(* What these are for.                                                     *)

\* Ids are primary keys, every row has a run, and a defect is of a result.
SoundDatabase(db) ==
    /\ \A d, e \in db.defects : d.id = e.id => d = e
    /\ \A d \in db.defects : d.run # None
    /\ \A d \in db.defects : \E r \in db.results :
         r.run = d.run /\ r.flow = d.flow

\* The chain of a defect is about its own run and flow, holds the defect and
\* the result it came from, and is part of the chain of its run (chain,
\* _resolve_keys).
ChainsNestIn(db, mined) ==
    \A d \in db.defects :
      LET mine == chain(db, mined, "defect", d.id)
          runs == chain(db, mined, "run", d.run)
      IN /\ d \in mine.defects
         /\ mine.executions = {r \in db.results :
                                 r.run = d.run /\ r.flow = d.flow}
         /\ \A s \in {"executions", "artifacts", "defects"} :
              mine[s] \subseteq runs[s]

Ids(db) == {<<"executions", r.run, r.flow>> : r \in db.results}
           \cup {<<"failures", d.run, d.flow>> : d \in db.defects}

\* A backfill, of an empty index or of one that some of the writes reached, ends
\* in the same index.  Every execution is found in it as after its write, with
\* all that the write told.  Of a failure it tells all but the text: its write
\* made it findable, and after a backfill search() finds no failure at all.  So
\* the view is not what indexer.py calls rebuildable (backfill, search).
LosesOnlyFailureText(db, index) ==
    LET once == backfill(<<>>, db)
        Told(written, but) == \A k \in DOMAIN written :
                                written[k] \ but \subseteq once[k]
    IN /\ DOMAIN once = Ids(db)
       /\ \A r \in db.results : Told(index_execution(<<>>, r), {})
       /\ \A d \in db.defects : /\ Told(index_failure(<<>>, d), _SEARCH_FIELDS)
                                /\ search(index_failure(<<>>, d)) # {}
       /\ search(once) = {<<"executions", r.run, r.flow>> : r \in db.results}
       /\ DOMAIN index \subseteq Ids(db) => backfill(index, db) = once

\* Finding one more page p never lowers the coverage, and a flow is covered only
\* when every one of its pages was found, by its url or by a fingerprint it has.
\* An empty discovery is not measured; one that holds no page of the ground truth
\* is reported as a measured zero, as kg.py says and against coverage.py, whose
\* comments have covered == 0 mean not measured (compute_coverage, coverage).
ExactCoverage(truth, discovered, p) ==
    LET seen == compute_coverage(truth, discovered)
        more == compute_coverage(truth, discovered \cup {p})
        Found(t) == \E q \in discovered :
                      \/ q.url = t.url
                      \/ q.fingerprint # None /\ q.fingerprint = t.fingerprint
        names == {t.name : t \in {t \in truth.pages : Found(t)}}
    IN /\ seen.measured <=> discovered # {}
       /\ (\A t \in truth.pages : ~Found(t)) =>
            seen.coverage_percent = 0 /\ seen.screens_covered = 0
       /\ seen.flows_covered =
            IF discovered = {} THEN 0 ELSE
            Cardinality({f \in truth.flows : \A name \in f : name \in names})
       /\ seen.coverage_percent \in 0..1000
       /\ seen.coverage_percent <= more.coverage_percent
       /\ seen.flows_covered <= more.flows_covered

\* An accepted spec was green in every one of the runs asked for and fails
\* against the seeded bug; a soak that met a flake did not run past it.  Without
\* a bug url no spec is accepted, and the soak was run for nothing
\* (accept_spec, run_stability, run_seeded_bug).
StableIfAccepted(outcomes, n, buggy, bug_url) ==
    LET verdict == accept_spec(outcomes, n, buggy, bug_url)
        results == verdict.stability.results
    IN /\ verdict.accepted <=>
            /\ \A i \in 1..n : outcomes[i]
            /\ bug_url /\ ~buggy
       /\ verdict.raised => ~verdict.accepted
       /\ \A i \in 1..(Len(results) - 1) : results[i]
===========================================================================
