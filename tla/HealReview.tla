---------------------------- MODULE HealReview ----------------------------
(***************************************************************************)
(* Self-healing around a spec run.  Inside the spec, heal() journals what  *)
(* it did about every locator that missed.  When the spec has ended the    *)
(* worker ingests the journal: an audit row per entry in the transaction   *)
(* of the test result, a rewrite of the page object for an auto_heal, and  *)
(* a write-back to the graph.  Reviewers apply and reject the rows at the  *)
(* same time, and the project may be generated again from the graph.       *)
(*                                                                         *)
(* The journal file outlives the delivery that wrote it; nothing clears    *)
(* it.  A redelivered job appends to it and ingests all of it again.       *)
(***************************************************************************)
EXTENDS Naturals, Sequences

CONSTANTS
    Flows,         \* jobs of the run
    Attrs,         \* element keys of the page objects (attribute names)
    Lines,         \* the locator lines self.<attr> of all page modules
    AttrAt,        \* the attribute of each line: pages may share a name
    FirstLine,     \* the line _resolve_page_module finds for an attribute
    Keys,          \* keys of the graph's elements
    LineOf,        \* the line codegen renders from a graph key
    Chains,        \* locator chains, told apart by their top entry
    NoChain,       \* no candidate was found
    Scores,        \* <<confidence, live matches>> a best candidate may have
    GraphUp,       \* whether Neo4j may be up, down, or either
    High, Med,     \* settings.heal_high_threshold, heal_med_threshold
    MAX_ENTRIES,   \* _MAX_ENTRIES: entries that are read of a journal
    MAX_SIZE,      \* entries that fit into _MAX_JOURNAL_BYTES
    Unfit,         \* attribute names longer than _MAX_KEY_LEN
    MaxJournal,    \* bound: entries of one journal
    MaxAudit,      \* bound: rows of the audit table
    MaxCrashes,    \* bound: crashes of the worker
    Requests       \* apply requests being served

\* A graph key holds a '#' and an attribute name never does (nodes.py,
\* codegen/locators.py).
ASSUME HealAssumption ==
    /\ AttrAt \in [Lines -> Attrs] /\ LineOf \in [Keys -> Lines]
    /\ FirstLine \in [Attrs -> Lines]
    /\ \A a \in Attrs : AttrAt[FirstLine[a]] = a
    /\ Attrs \cap Keys = {}
    /\ \A l \in Lines : \E k \in Keys : LineOf[k] = l
    /\ MAX_ENTRIES \in Nat /\ MAX_SIZE \in Nat /\ Unfit \subseteq Attrs
    /\ NoChain \notin Chains
    /\ Scores \subseteq Nat \X Nat /\ GraphUp \subseteq BOOLEAN
    /\ High \in Nat /\ Med \in Nat
    /\ MaxJournal \in Nat /\ MaxAudit \in Nat /\ MaxCrashes \in Nat

VARIABLES
    pages,         \* the literal of each line in the project tree
    generated,     \* history: the literals generate_project wrote last
    graph,         \* the chain of each element in the graph
    journal,       \* the heal journal of each flow
    audit,         \* the heal_audit table, by id
    job,           \* the job of each flow
    req,           \* what each apply request is doing
    approved,      \* history: <<attribute, chain>> a reviewer applied
    lost,          \* history: flows whose journal was torn or not ingested
    crashes        \* crashes so far

vars == <<pages, generated, graph, journal, audit, job, req, approved, lost,
          crashes>>

Outcomes == {"auto_heal", "quarantine", "fail_as_defect"}
Idle == [pc |-> "idle"]
Job(pc) == [pc |-> pc, left |-> <<>>, pending |-> <<>>]

\* The literals page_object_locators renders: the chain of the first element,
\* in the repository's order, of the page and with the attribute's name.
page_object_locators(g) ==
    {p \in [Lines -> Chains] :
       \A l \in Lines : \E k \in Keys : LineOf[k] = l /\ p[l] = g[k]}

Init ==
    /\ graph \in [Keys -> Chains]
    /\ pages \in page_object_locators(graph)
    /\ generated = pages
    /\ journal = [f \in Flows |-> <<>>]
    /\ audit = <<>>
    /\ job = [f \in Flows |-> Job("queued")]
    /\ req = [q \in Requests |-> Idle]
    /\ approved = {}
    /\ lost = {}
    /\ crashes = 0

---------------------------------------------------------------------------
\* The hard uniqueness gate comes before the bands.
heal_outcome(conf, count) ==
    CASE count # 1 -> "fail_as_defect"
      [] count = 1 /\ conf >= High -> "auto_heal"
      [] count = 1 /\ conf < High /\ conf >= Med -> "quarantine"
      [] OTHER -> "fail_as_defect"

start_job(f) ==
    /\ job[f].pc = "queued"
    /\ job' = [job EXCEPT ![f] = Job("running")]
    /\ UNCHANGED <<pages, generated, graph, journal, audit, req, approved,
                   lost, crashes>>

\* A locator misses in an attempt: the best live candidate is scored and
\* counted, and the decision is appended to the journal whatever it is, under
\* the attribute's name.  Which page missed is not told.
heal(f, l) ==
    \E best \in (Chains \X Scores) \cup {<<NoChain, <<0, 0>>>>} :
      LET conf == best[2][1]
          count == best[2][2]
      IN
      /\ job[f].pc = "running"
      /\ Len(journal[f]) < MaxJournal
      /\ journal' = [journal EXCEPT ![f] = Append(@,
           [element_key |-> AttrAt[l], after_chain |-> best[1], confidence |-> conf,
            live_match_count |-> count, outcome |-> heal_outcome(conf, count),
            reviewed_outcome |-> "none"])]
      /\ UNCHANGED <<pages, generated, graph, audit, job, req, approved,
                     lost, crashes>>

\* What is read of a journal: nothing when the file is too large, else its
\* first entries.
journal_items(j) ==
    IF Len(j) > MAX_SIZE THEN <<>>
    ELSE SubSeq(j, 1, IF Len(j) > MAX_ENTRIES THEN MAX_ENTRIES ELSE Len(j))

\* Mutant: the journal file is removed once it has been read.
parse_heal_journal_once(f) ==
    /\ job[f].pc = "running"
    /\ job' = [job EXCEPT ![f] =
                 [Job("ingest") EXCEPT !.left = journal_items(journal[f])]]
    /\ journal' = [journal EXCEPT ![f] = <<>>]
    /\ UNCHANGED <<pages, generated, graph, audit, req, approved, lost,
                   crashes>>

\* The last attempt is over: the worker parses the journal.
parse_heal_journal(f) ==
    /\ job[f].pc = "running"
    /\ job' = [job EXCEPT ![f] =
                 [Job("ingest") EXCEPT !.left = journal_items(journal[f])]]
    /\ UNCHANGED <<pages, generated, graph, journal, audit, req, approved,
                   lost, crashes>>

\* An entry is kept when it passes _validate_entry.  What heal() writes is well
\* formed, so that only the length of the name can be wrong.
valid_entry(e) == e.element_key \notin Unfit

\* The parser drops an entry.
skip_entry(f) ==
    /\ job[f].pc = "ingest" /\ job[f].left # <<>>
    /\ ~valid_entry(Head(job[f].left))
    /\ job' = [job EXCEPT ![f].left = Tail(@)]
    /\ UNCHANGED <<pages, generated, graph, journal, audit, req, approved,
                   lost, crashes>>

\* Rewrite one literal to the top of the healed chain: on the attribute's line
\* in the first module that has one, whichever page the locator missed on.
rewrite_page_object_locator(p, a, after) ==
    IF after = NoChain THEN p ELSE [p EXCEPT ![FirstLine[a]] = after]

\* MATCH, never MERGE: a key the graph does not have raises, which the caller
\* swallows, as it does a graph that is down.
append_element_history(g, key, chain) ==
    IF key \in Keys /\ chain # NoChain THEN [g EXCEPT ![key] = chain] ELSE g

\* Mutant: the outcome is not asked for, a quarantined proposal is written too.
ingest_heal_journal_all(f) ==
    LET e == Head(job[f].left)
    IN  /\ job[f].pc = "ingest" /\ job[f].left # <<>> /\ valid_entry(e)
        /\ job' = [job EXCEPT ![f].left = Tail(@), ![f].pending = Append(@, e)]
        /\ pages' = rewrite_page_object_locator(pages, e.element_key,
                                                e.after_chain)
        /\ UNCHANGED <<generated, graph, journal, audit, req, approved, lost,
                       crashes>>

\* One entry of the journal: the row joins the session, an auto_heal is
\* written to the page object and, if the graph is up, sent to the graph.
ingest_heal_journal(f) ==
    LET e == Head(job[f].left)
        heals == e.outcome = "auto_heal"
    IN  /\ job[f].pc = "ingest" /\ job[f].left # <<>> /\ valid_entry(e)
        /\ job' = [job EXCEPT ![f].left = Tail(@), ![f].pending = Append(@, e)]
        /\ pages' = IF heals
                    THEN rewrite_page_object_locator(pages, e.element_key,
                                                     e.after_chain)
                    ELSE pages
        /\ \E up \in GraphUp :
             graph' = IF heals /\ up
                      THEN append_element_history(graph, e.element_key,
                                                  e.after_chain)
                      ELSE graph
        /\ UNCHANGED <<generated, journal, audit, req, approved, lost,
                       crashes>>

\* The rows are committed with the test result; the ack is a step later.
commit_result(f) ==
    /\ job[f].pc = "ingest" /\ job[f].left = <<>>
    /\ Len(audit) + Len(job[f].pending) <= MaxAudit
    /\ audit' = audit \o job[f].pending
    /\ job' = [job EXCEPT ![f] = Job("committed")]
    /\ UNCHANGED <<pages, generated, graph, journal, req, approved, lost,
                   crashes>>

ack_job(f) ==
    /\ job[f].pc = "committed"
    /\ job' = [job EXCEPT ![f] = Job("done")]
    /\ UNCHANGED <<pages, generated, graph, journal, audit, req, approved,
                   lost, crashes>>

\* The worker dies: the session is rolled back, the files stay, the message
\* comes again.  A death while the spec writes may leave a torn journal, which
\* the next heal starts afresh.
worker_dies(f) ==
    /\ job[f].pc \in {"running", "ingest", "committed"}
    /\ crashes < MaxCrashes
    /\ crashes' = crashes + 1
    /\ job' = [job EXCEPT ![f] = Job("queued")]
    /\ \/ UNCHANGED <<journal, lost>>
       \/ /\ job[f].pc = "running" /\ journal[f] # <<>>
          /\ journal' = [journal EXCEPT ![f] = <<>>]
          /\ lost' = lost \cup {f}
    /\ UNCHANGED <<pages, generated, graph, audit, req, approved>>

\* The run was killed: the job is drained without an ingest.
abort_flow(f) ==
    /\ job[f].pc = "queued"
    /\ job' = [job EXCEPT ![f] = Job("done")]
    /\ lost' = lost \cup {f}
    /\ UNCHANGED <<pages, generated, graph, journal, audit, req, approved,
                   crashes>>

\* apply, up to its commit: the row as loaded, whatever its outcome, is
\* written to the page object and, as well as may be, to the graph.
apply_heal(q) ==
    \E d \in DOMAIN audit :
      LET h == audit[d] IN
      /\ req[q] = Idle
      /\ req' = [req EXCEPT ![q] = [pc |-> "commit", id |-> d]]
      /\ pages' = rewrite_page_object_locator(pages, h.element_key, h.after_chain)
      /\ \E up \in GraphUp :
           graph' = IF up THEN append_element_history(graph, h.element_key,
                                                      h.after_chain)
                    ELSE graph
      /\ approved' = approved \cup {<<h.element_key, h.after_chain>>}
      /\ UNCHANGED <<generated, journal, audit, job, lost, crashes>>

commit_applied(q) ==
    /\ req[q].pc = "commit"
    /\ audit' = [audit EXCEPT ![req[q].id].outcome = "applied"]
    /\ req' = [req EXCEPT ![q] = Idle]
    /\ UNCHANGED <<pages, generated, graph, journal, job, approved, lost,
                   crashes>>

\* The request is dropped or its commit fails: the page object stays as it is.
apply_raises(q) ==
    /\ req[q].pc = "commit"
    /\ req' = [req EXCEPT ![q] = Idle]
    /\ UNCHANGED <<pages, generated, graph, journal, audit, job, approved,
                   lost, crashes>>

reject_heal(d) ==
    /\ audit[d].reviewed_outcome # "rejected"
    /\ audit' = [audit EXCEPT ![d].reviewed_outcome = "rejected"]
    /\ UNCHANGED <<pages, generated, graph, journal, job, req, approved, lost,
                   crashes>>

\* The project is generated again from the graph, over the healed tree.
generate_project ==
    /\ pages' \in page_object_locators(graph)
    /\ generated' = pages'
    /\ UNCHANGED <<graph, journal, audit, job, req, approved, lost, crashes>>

Next ==
    \/ \E f \in Flows :
         \/ start_job(f) \/ parse_heal_journal(f)
         \/ skip_entry(f) \/ ingest_heal_journal(f)
         \/ commit_result(f) \/ ack_job(f) \/ worker_dies(f) \/ abort_flow(f)
         \/ \E l \in Lines : heal(f, l)
    \/ \E q \in Requests : apply_heal(q) \/ commit_applied(q) \/ apply_raises(q)
    \/ \E d \in DOMAIN audit : reject_heal(d)
    \/ generate_project

Spec == Init /\ [][Next]_vars

---------------------------------------------------------------------------
\* What the worker still holds of a heal that is not in the table.
Journalled(f) == {journal[f][i] : i \in DOMAIN journal[f]}
Kept(f) ==
    LET items == journal_items(journal[f])
    IN  {e \in {items[i] : i \in DOMAIN items} : valid_entry(e)}
Outgrown(f) == Len(journal[f]) > MAX_SIZE
Audited == {audit[d] : d \in DOMAIN audit}

Entry ==
    [element_key : Attrs, after_chain : Chains \cup {NoChain},
     confidence : Nat, live_match_count : Nat,
     outcome : Outcomes \cup {"applied"}, reviewed_outcome : {"none", "rejected"}]

\* The table, the tree, the graph, the journals and the jobs hold what they may.
TypeOK ==
    /\ pages \in [Lines -> Chains] /\ generated \in [Lines -> Chains]
    /\ graph \in [Keys -> Chains]
    /\ journal \in [Flows -> Seq(Entry)] /\ audit \in Seq(Entry)
    /\ job \in [Flows -> [pc: {"queued", "running", "ingest", "committed", "done"},
                          left: Seq(Entry), pending: Seq(Entry)]]
    /\ req \in [Requests -> [pc: {"commit"}, id: Nat] \cup {Idle}]
    /\ approved \subseteq Attrs \X (Chains \cup {NoChain})
    /\ lost \subseteq Flows
    /\ crashes \in 0..MaxCrashes

\* A healed locator in the script repository is on record: a row of the audit
\* table proposes it, or what the parser keeps of the journal of a job that has
\* not been acked does, so that its redelivery will commit the row.  Only a torn
\* journal, a killed run, or a journal that a redelivery made too large for the
\* parser can leave a rewrite without a row.  And only the first line of a name
\* is ever rewritten: a locator of the same name on a later page is healed in the
\* wrong file (ingest.py, ingest_heal_journal, _resolve_page_module).
RewritesAreAudited ==
    \A l \in Lines : pages[l] # generated[l] =>
      /\ l = FirstLine[AttrAt[l]]
      /\ \/ \E h \in Audited :
              h.element_key = AttrAt[l] /\ h.after_chain = pages[l]
         \/ \E f \in Flows : job[f].pc # "done" /\ \E e \in Kept(f) :
              e.element_key = AttrAt[l] /\ e.after_chain = pages[l]
         \/ lost # {} \/ \E f \in Flows : Outgrown(f)

\* What no reviewer has applied got into the script repository only with a
\* sure score and exactly one live match (confidence.py, heal_outcome).
UnreviewedRewritesWereSure ==
    \A l \in Lines :
      \/ pages[l] = generated[l]
      \/ <<AttrAt[l], pages[l]>> \in approved
      \/ lost # {}
      \/ \E h \in Audited \cup UNION {Journalled(f) : f \in Flows} :
           /\ h.element_key = AttrAt[l] /\ h.after_chain = pages[l]
           /\ h.confidence >= High /\ h.live_match_count = 1

\* A job that was acked has put on record every entry of its journal that the
\* parser keeps.  The others, past the caps or with too long a name, are in no
\* review queue and no statistics (job.py, run_flow_job; parse_heal_journal).
AckedJournalsAreAudited ==
    \A f \in Flows \ lost : job[f].pc = "done" =>
      \A e \in Kept(f) : \E h \in Audited :
        /\ h.element_key = e.element_key /\ h.after_chain = e.after_chain
        /\ h.confidence = e.confidence
        /\ h.live_match_count = e.live_match_count

\* The audit table is complete as far as the parser reads: it has every rewrite
\* of a page object and every entry that was kept of an acked journal, whenever
\* the worker dies in between.
AuditIsComplete == TypeOK /\ RewritesAreAudited /\ AckedJournalsAreAudited
===========================================================================
