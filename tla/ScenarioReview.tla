--------------------------- MODULE ScenarioReview ---------------------------
(***************************************************************************)
(* The scenario review queue: generate_scenarios inserts gated drafts,     *)
(* reviewers edit, approve and reject them, and generate_project writes    *)
(* the approved ones to the project tree.  Each HTTP request runs its own  *)
(* handler with its own database session, and the requests interleave at   *)
(* every await.  The rows, the tree and the graph are those of one run_id. *)
(*                                                                         *)
(* A session loads a row at a SELECT and, when it commits, its UPDATE sets *)
(* only the columns whose new value differs from the loaded one.  A        *)
(* handler that answers 404 or 422 before it awaits changes nothing and    *)
(* has no action.                                                          *)
(***************************************************************************)
EXTENDS Naturals, Sequences

CONSTANTS
    Requests,      \* requests being served, each by a handler of its own
    Texts,         \* Gherkin texts a client or the model may submit
    LintOk,        \* those that validate_gherkin accepts
    Refs,          \* graph outcomes a Then may refer to
    Known,         \* those in the graph at the start
    MaxScenarios,  \* bound: rows of the run
    MaxFlows,      \* bound: flows mined by one generate_scenarios
    NoText         \* no feature file

ASSUME ReviewAssumption ==
    /\ LintOk \subseteq Texts
    /\ Known \subseteq Refs
    /\ MaxScenarios \in Nat
    /\ MaxFlows \in Nat
    /\ NoText \notin Texts

VARIABLES
    rows,          \* the scenarios table, by id
    kg,            \* graph outcomes that exist
    req,           \* what each request is doing
    tree,          \* the text of each scenario's feature file in the project
    everApproved   \* history: <<id, text>> committed with status approved

vars == <<rows, kg, req, tree, everApproved>>

VALID == {"draft", "approved", "rejected"}
Ids == 1..MaxScenarios

\* The columns of a Scenario that a handler reads or writes.
Scenario ==
    [status : VALID, gherkin_text : Texts, then_refs : SUBSET Refs,
     edited : BOOLEAN]

Idle == [pc |-> "idle"]

\* A review request: the row as its session loaded it, the row it wants, and
\* (history) whether another request has changed the row since it was loaded.
Review ==
    [pc : {"gate", "select", "commit"}, op : {"edit", "approve", "reject"},
     sid : Ids, loaded : Scenario, new : Scenario, raced : BOOLEAN]

\* A generate_scenarios with flows left, and a generate_project that has read
\* its approved rows.
Generation == [pc : {"generating"}, left : 0..MaxFlows]
Rendering == [pc : {"rendering"}, approved : [Ids -> Texts \cup {NoText}]]

OnRow(q, s) == q.pc \in {"gate", "select", "commit"} /\ q.sid = s

Init ==
    /\ rows = <<>>
    /\ kg = Known
    /\ req = [r \in Requests |-> Idle]
    /\ tree = [s \in Ids |-> NoText]
    /\ everApproved = {}

\* A crawl merges pages, elements and outcomes into the graph; none is deleted.
crawl(n) ==
    /\ kg' = kg \cup {n}
    /\ UNCHANGED <<rows, req, tree, everApproved>>

\* validate_gherkin: the parser accepts the text.
lints(text) == text \in LintOk

\* assert_non_vacuous: at least one Then, and every ref is in the graph.
non_vacuous(refs) == refs # {} /\ refs \subseteq kg

-----------------------------------------------------------------------------
(* POST /generate-scenarios *)

\* The flows are mined first; how many there are depends on the graph.
generate_scenarios(r) ==
    /\ req[r] = Idle
    /\ \E n \in 0..MaxFlows :
          req' = [req EXCEPT ![r] = [pc |-> "generating", left |-> n]]
    /\ UNCHANGED <<rows, kg, tree, everApproved>>

\* The row as it is inserted.
draft(text, refs) ==
    [status |-> "draft", gherkin_text |-> text, then_refs |-> refs,
     edited |-> FALSE]

\* One flow: the pair from the gateway, or the deterministic one, passes both
\* gates and is committed as a draft of its own.
create_scenario(r, text, refs) ==
    /\ req[r].pc = "generating"
    /\ req[r].left > 0
    /\ Len(rows) < MaxScenarios
    /\ lints(text)
    /\ non_vacuous(refs)
    /\ rows' = Append(rows, draft(text, refs))
    /\ req' = [req EXCEPT ![r].left = @ - 1]
    /\ UNCHANGED <<kg, tree, everApproved>>

\* The last flow is done; or the reply of a flow is unusable or fails a gate,
\* and the request ends with the drafts of the earlier flows committed.
generation_ends(r) ==
    /\ req[r].pc = "generating"
    /\ req' = [req EXCEPT ![r] = Idle]
    /\ UNCHANGED <<rows, kg, tree, everApproved>>

-----------------------------------------------------------------------------
(* POST /scenarios/{id}/edit, /approve and /reject *)

\* edit_scenario lints the body; it keeps no reference to the row it has
\* looked up, so the session forgets it.
edit_scenario(r, s, text, refs) ==
    /\ req[r] = Idle
    /\ s \in DOMAIN rows
    /\ lints(text)
    /\ req' = [req EXCEPT ![r] =
          [pc |-> "gate", op |-> "edit", sid |-> s, loaded |-> rows[s],
           new |-> [status |-> "draft", gherkin_text |-> text,
                    then_refs |-> refs, edited |-> TRUE],
           raced |-> FALSE]]
    /\ UNCHANGED <<rows, kg, tree, everApproved>>

\* approve_scenario lints the stored text and holds on to the row: set_status
\* gets the same object back from its own SELECT, with the values of this one.
approve_scenario(r, s) ==
    /\ req[r] = Idle
    /\ s \in DOMAIN rows
    /\ lints(rows[s].gherkin_text)
    /\ req' = [req EXCEPT ![r] =
          [pc |-> "gate", op |-> "approve", sid |-> s, loaded |-> rows[s],
           new |-> [rows[s] EXCEPT !.status = "approved"], raced |-> FALSE]]
    /\ UNCHANGED <<rows, kg, tree, everApproved>>

\* reject_scenario has no gate: set_status's SELECT comes next.
reject_scenario(r, s) ==
    /\ req[r] = Idle
    /\ s \in DOMAIN rows
    /\ req' = [req EXCEPT ![r] =
          [pc |-> "commit", op |-> "reject", sid |-> s, loaded |-> rows[s],
           new |-> [rows[s] EXCEPT !.status = "rejected"], raced |-> FALSE]]
    /\ UNCHANGED <<rows, kg, tree, everApproved>>

\* Mutant: the gate looks at the stored refs, not at the submitted ones.
gate_passes_stored(r) ==
    /\ req[r].pc = "gate"
    /\ non_vacuous(req[r].loaded.then_refs)
    /\ req' = [req EXCEPT ![r].pc =
          IF req[r].op = "edit" THEN "select" ELSE "commit"]
    /\ UNCHANGED <<rows, kg, tree, everApproved>>

\* The graph has answered for every ref: on, or a 422.
gate_passes(r) ==
    /\ req[r].pc = "gate"
    /\ non_vacuous(req[r].new.then_refs)
    /\ req' = [req EXCEPT ![r].pc =
          IF req[r].op = "edit" THEN "select" ELSE "commit"]
    /\ UNCHANGED <<rows, kg, tree, everApproved>>

gate_refuses(r) ==
    /\ req[r].pc = "gate"
    /\ ~non_vacuous(req[r].new.then_refs)
    /\ req' = [req EXCEPT ![r] = Idle]
    /\ UNCHANGED <<rows, kg, tree, everApproved>>

\* update_gherkin loads the row afresh and assigns the four columns.
update_gherkin(r) ==
    /\ req[r].pc = "select"
    /\ req' = [req EXCEPT ![r].pc = "commit",
                          ![r].loaded = rows[req[r].sid],
                          ![r].raced = FALSE]
    /\ UNCHANGED <<rows, kg, tree, everApproved>>

\* The row after the UPDATE of a session that loaded one value of it and
\* assigned another: only the columns that differ are set.
Flushed(row, loaded, new) ==
    [c \in DOMAIN row |-> IF new[c] # loaded[c] THEN new[c] ELSE row[c]]

\* The transaction of r ends with this row stored; requests that had loaded
\* another one are marked (history).
save(r, s, row) ==
    /\ rows' = [rows EXCEPT ![s] = row]
    /\ req' = [q \in Requests |->
          IF q = r THEN Idle
          ELSE IF OnRow(req[q], s) /\ row # rows[s]
               THEN [req[q] EXCEPT !.raced = TRUE]
               ELSE req[q]]
    /\ everApproved' = everApproved \cup
          {p \in {<<s, row.gherkin_text>>} : row.status = "approved"}
    /\ UNCHANGED <<kg, tree>>

\* Mutant: update_gherkin does not assign the status.
commit_keeps_status(r) ==
    LET s == req[r].sid
        row == Flushed(rows[s], req[r].loaded, req[r].new)
    IN
    /\ req[r].pc = "commit"
    /\ save(r, s, IF req[r].op = "edit"
                  THEN [row EXCEPT !.status = rows[s].status]
                  ELSE row)

\* db.commit of update_gherkin or set_status.
commit(r) ==
    /\ req[r].pc = "commit"
    /\ save(r, req[r].sid,
            Flushed(rows[req[r].sid], req[r].loaded, req[r].new))

-----------------------------------------------------------------------------
(* POST /generate-scripts *)

\* Mutant: every row is read, whatever its status.
list_all ==
    [s \in Ids |-> IF s \in DOMAIN rows THEN rows[s].gherkin_text ELSE NoText]

\* list_approved: one query, filtered by status.
list_approved ==
    [s \in Ids |->
        IF s \in DOMAIN rows /\ rows[s].status = "approved"
        THEN rows[s].gherkin_text
        ELSE NoText]

\* With no approved row there is nothing to generate (422).
generate_project(r) ==
    /\ req[r] = Idle
    /\ \E s \in Ids : list_approved[s] # NoText
    /\ req' = [req EXCEPT ![r] =
          [pc |-> "rendering", approved |-> list_approved]]
    /\ UNCHANGED <<rows, kg, tree, everApproved>>

\* Every file has passed its gates: all are written, without an await, over
\* the tree that is there.  Files of other scenarios stay.
write_tree(r) ==
    /\ req[r].pc = "rendering"
    /\ tree' = [s \in Ids |-> IF req[r].approved[s] # NoText
                              THEN req[r].approved[s]
                              ELSE tree[s]]
    /\ req' = [req EXCEPT ![r] = Idle]
    /\ UNCHANGED <<rows, kg, everApproved>>

\* A rendered file fails ast.parse or the selector gate: nothing is written.
rendering_fails(r) ==
    /\ req[r].pc = "rendering"
    /\ req' = [req EXCEPT ![r] = Idle]
    /\ UNCHANGED <<rows, kg, tree, everApproved>>

-----------------------------------------------------------------------------
review(r) ==
    \/ \E s \in Ids : \/ approve_scenario(r, s)
                      \/ reject_scenario(r, s)
                      \/ \E text \in Texts, refs \in SUBSET Refs :
                            edit_scenario(r, s, text, refs)
    \/ gate_passes(r)
    \/ gate_refuses(r)
    \/ update_gherkin(r)
    \/ commit(r)

generate(r) ==
    \/ generate_scenarios(r)
    \/ \E text \in Texts, refs \in SUBSET Refs : create_scenario(r, text, refs)
    \/ generation_ends(r)
    \/ generate_project(r)
    \/ write_tree(r)
    \/ rendering_fails(r)

Next ==
    \/ \E r \in Requests : review(r) \/ generate(r)
    \/ \E n \in Refs : crawl(n)

Spec == Init /\ [][Next]_vars

-----------------------------------------------------------------------------
(* Properties *)

\* Types of the rows, the requests, the tree and the history.
TypeOK ==
    /\ rows \in Seq(Scenario)
    /\ Len(rows) <= MaxScenarios
    /\ kg \subseteq Refs
    /\ req \in [Requests -> {Idle} \cup Review \cup Generation \cup Rendering]
    /\ tree \in [Ids -> Texts \cup {NoText}]
    /\ everApproved \subseteq Ids \X Texts

\* Whatever requests race on a row, and although the UPDATEs of two of them
\* may each set some of its columns, what is stored has passed both gates: the
\* text lints and the refs are non-empty and in the graph.
StoredPassesGates ==
    \A s \in DOMAIN rows :
        /\ lints(rows[s].gherkin_text)
        /\ non_vacuous(rows[s].then_refs)

\* A feature file holds a text its row had at some commit that left it
\* approved: no draft and no rejected text reaches the project (D-01), even
\* when rows change while a project is rendered.
TreeWasApproved ==
    \A s \in Ids : tree[s] # NoText => <<s, tree[s]>> \in everApproved

\* A commit no other request raced with does what its handler says: an edit
\* leaves exactly the body, in draft; an approval is of the text and refs the
\* gates have just read; a rejection leaves them alone.
UnracedCommitIsExact ==
    [][\A r \in Requests :
          commit(r) /\ ~req[r].raced => rows'[req[r].sid] = req[r].new]_vars

\* "Save an edit-in-place: replace gherkin_text + then_refs, flip edited, stay
\* draft": after update_gherkin's commit the row is the one submitted.
EditIsSavedWhole ==
    [][\A r \in Requests :
          commit(r) /\ req[r].op = "edit" => rows'[req[r].sid] = req[r].new]_vars
=============================================================================
