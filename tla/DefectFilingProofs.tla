------------------------- MODULE DefectFilingProofs -------------------------
(***************************************************************************)
(* Proofs about DefectFiling, for any number of reviewers, runs, flows,    *)
(* drafts and issues, any evidence, cap and threshold: nothing is filed    *)
(* past the gates, an applied draft names an issue of its own failure, and *)
(* only two filings at the same time make a duplicate.                     *)
(***************************************************************************)
EXTENDS DefectFiling, Algorithms, FiniteSetTheorems, TLAPS

\* What the gates of a run's pipeline ask of a row.
Allowed(d, r) ==
    /\ defects[d].run = r
    /\ defects[d].classification = "product_defect"
    /\ defects[d].confidence >= Threshold

\* Jira created an issue for the row's failure and did not name it.
Nameless(d) ==
    \E k \in DOMAIN issues :
      issues[k].fingerprint = defects[d].fingerprint /\ ~issues[k].named

\* A filing of p for a row: the row and the issue are of one failure, a key the
\* session loaded is not lost but to an issue without a name, no open issue it could have found is of the same
\* failure, and a pipeline files only what its run may.
JobIsSound(p) ==
    LET j == job[p]
        row == defects[j.id]
    IN  /\ j.id \in DOMAIN defects
        /\ j.jira_key # NoKey => row.jira_key # NoKey \/ Nameless(j.id)
        /\ ~j.named => j.pc \in {"attach", "commit"} /\ ~issues[j.key].named
        /\ j.pc \in {"attach", "commit"} =>
             j.key \in DOMAIN issues /\ issues[j.key].fingerprint = row.fingerprint
        /\ j.created =>
             /\ j.pc \in {"attach", "commit"}
             /\ issues[j.key].by = p /\ ~issues[j.key].raised
        /\ j.pc = "create" =>
             /\ j.seen <= Len(issues)
             /\ \A k \in 1..j.seen :
                  ~(issues[k].open /\ issues[k].fingerprint = row.fingerprint)
        /\ p \in Runs => Allowed(j.id, p)

JobsAreSound == \A p \in Actors : job[p] # Idle => JobIsSound(p)

\* A key a row has is of an issue of its failure, and an applied row has one
\* unless there is one without a name.
KeysAreSound ==
    \A d \in DOMAIN defects :
      /\ defects[d].status = "applied" => defects[d].jira_key # NoKey \/ Nameless(d)
      /\ defects[d].jira_key # NoKey =>
           /\ defects[d].jira_key \in DOMAIN issues
           /\ issues[defects[d].jira_key].fingerprint = defects[d].fingerprint

\* The counter a run threads is the number of its issues that were not lost to
\* an error, but for the one it is filing; and it files below the cap.
Unraised(r) == {k \in DOMAIN issues : issues[k].by = r /\ ~issues[k].raised}
InHand(r) == job[r] # Idle /\ job[r].created
CounterIsSound(r) ==
    /\ Cardinality(Unraised(r)) = counter[r] + (IF InHand(r) THEN 1 ELSE 0)
    /\ job[r].pc = "create" \/ InHand(r) => counter[r] < Cap

CountersAreSound == \A r \in Runs : CounterIsSound(r)

FilingInv ==
    /\ TypeOK
    /\ KeysAreSound
    /\ JobsAreSound
    /\ CountersAreSound
    /\ TicketsAreDrafted
    /\ DuplicatesOnlyByRace

-----------------------------------------------------------------------------
(* The classifier's verdicts *)

\* classify_rules gives one of the three classes and cites finitely many
\* signals, all of that class.
LEMMA RulesType ==
    ASSUME NEW ev
    PROVE  /\ classify_rules(ev).classification \in Classes
           /\ \E cited : /\ IsFiniteSet(cited)
                         /\ classify_rules(ev) =
                              Decision(classify_rules(ev).classification, cited)
<1> DEFINE d == classify_rules(ev)
           loaded == IF ev.page_loaded THEN {"page-loaded"} ELSE {}
           locator == IF "locator" \in ev.sig THEN {"locator-miss"} ELSE {}
           assertion == IF "product" \in ev.sig THEN {"assertion-or-api"} ELSE {}
           heal == {ev.heal_outcome} \cup locator \cup loaded
           product == IF assertion \cup loaded = {} THEN {"default"}
                      ELSE assertion \cup loaded
           infra == {"error-signature"}
                      \cup IF ev.infra_health = "down" THEN {"health-down"} ELSE {}
<1>1. \A x : IsFiniteSet({x})
  BY FS_Singleton
<1>2. IsFiniteSet({})
  BY FS_EmptySet
<1>3. IsFiniteSet(loaded) /\ IsFiniteSet(locator) /\ IsFiniteSet(assertion)
  BY <1>1, <1>2
<1>4. IsFiniteSet(heal)
  <2>1. IsFiniteSet({ev.heal_outcome} \cup locator)
    BY <1>1, <1>3, FS_Union, Zenon
  <2> QED BY <2>1, <1>3, FS_Union, Zenon
<1>5. IsFiniteSet(product)
  <2>1. IsFiniteSet(assertion \cup loaded)
    BY <1>3, FS_Union, Zenon
  <2> QED BY <2>1, <1>1
<1>6. IsFiniteSet(infra)
  <2>1. IsFiniteSet(IF ev.infra_health = "down" THEN {"health-down"} ELSE {})
    BY <1>1, <1>2
  <2> QED BY <1>1, <2>1, FS_Union, Zenon
<1>7. \/ d = Decision("infrastructure", infra)
      \/ d = Decision("infrastructure", {"health-down"})
      \/ d = Decision("infrastructure", {"timeout-never-loaded"})
      \/ d = Decision("automation", heal)
      \/ d = Decision("product_defect", product)
  BY Zenon DEF classify_rules
<1>8. PICK c, cited : c \in Classes /\ d = Decision(c, cited) /\ IsFiniteSet(cited)
  BY <1>1, <1>4, <1>5, <1>6, <1>7 DEF Classes
<1>9. d.classification = c
  BY <1>8 DEF Decision
<1> QED BY <1>8, <1>9

\* What classify makes of the rules' decision: its class, and a percentage which
\* is the weight of one signal at most when there are not two.
LEMMA Confidence ==
    ASSUME NEW g
    PROVE  /\ classify(g, DEFAULT_WEIGHTS).classification =
                classify_rules(g).classification
           /\ classify(g, DEFAULT_WEIGHTS).confidence \in 0..100
           /\ Cardinality(classify_rules(g).cited) < 2 =>
                classify(g, DEFAULT_WEIGHTS).confidence <= 60
<1> DEFINE d == classify_rules(g)
<1>1. PICK cited : IsFiniteSet(cited) /\ d = Decision(d.classification, cited)
  BY RulesType
<1> HIDE DEF d
<1>2. d.cited = {<<d.classification, s>> : s \in cited}
  BY <1>1 DEF Decision
<1>3. IsFiniteSet(d.cited)
  <2>1. IsFiniteSet({d.classification} \X cited)
    BY <1>1, FS_Singleton, FS_Product, Zenon
  <2>2. d.cited \subseteq {d.classification} \X cited
    BY <1>2
  <2> QED BY <2>1, <2>2, FS_Subset, Zenon
<1>4. /\ corroboration(d) \in Int
      /\ Cardinality(d.cited) < 2 => corroboration(d) = 0
  <2> DEFINE alike == {s \in d.cited : s[1] = d.classification}
  <2>1. alike \subseteq d.cited
    OBVIOUS
  <2>2. IsFiniteSet(alike) /\ Cardinality(alike) <= Cardinality(d.cited)
    BY <1>3, <2>1, FS_Subset, Zenon
  <2>3. Cardinality(alike) \in Nat /\ Cardinality(d.cited) \in Nat
    BY <1>3, <2>2, FS_CardinalityType
  <2>4. corroboration(d) = IF Cardinality(alike) = 0 THEN 0 ELSE Cardinality(alike) - 1
    BY Zenon DEF corroboration
  <2> HIDE DEF alike
  <2> QED BY <2>2, <2>3, <2>4
<1>5. conflict(d) \in Nat
  <2> DEFINE other == {s \in d.cited : s[1] # d.classification}
  <2>1. other \subseteq d.cited
    OBVIOUS
  <2>2. IsFiniteSet(other)
    BY <1>3, <2>1, FS_Subset, Zenon
  <2>3. Cardinality(other) \in Nat
    BY <2>2, FS_CardinalityType
  <2> HIDE DEF other
  <2>4. conflict(d) = Cardinality(other)
    BY Zenon DEF conflict, other
  <2> QED BY <2>3, <2>4
<1>6. classify(g, DEFAULT_WEIGHTS).classification = d.classification
  BY Zenon DEF classify, d
<1>7. classify(g, DEFAULT_WEIGHTS).confidence
        = clamp(60 + 20 * corroboration(d) + (-15) * conflict(d))
  BY DEF classify, d, DEFAULT_WEIGHTS
<1>8. /\ clamp(60 + 20 * corroboration(d) + (-15) * conflict(d)) \in 0..100
      /\ corroboration(d) = 0 =>
           clamp(60 + 20 * corroboration(d) + (-15) * conflict(d)) <= 60
  BY <1>4, <1>5 DEF clamp
<1>9. Cardinality(d.cited) < 2 => classify(g, DEFAULT_WEIGHTS).confidence <= 60
  BY <1>4, <1>7, <1>8
<1> QED BY <1>6, <1>7, <1>8, <1>9 DEF d

\* The class of a decision is one of the three, its confidence a percentage.
LEMMA VerdictType ==
    ASSUME NEW ev, NEW flow
    PROVE  /\ classify_failure(ev, flow).classification \in Classes
           /\ classify_failure(ev, flow).confidence \in 0..100
<1> DEFINE g == gather_evidence(ev.text.sig, ev.heal)
           d == classify(g, DEFAULT_WEIGHTS)
<1>1. /\ classify_failure(ev, flow).classification = d.classification
      /\ classify_failure(ev, flow).confidence = d.confidence
  BY DEF classify_failure
<1> HIDE DEF g
<1>2. d.classification \in Classes /\ d.confidence \in 0..100
  BY RulesType, Confidence
<1> QED BY <1>1, <1>2

\* The rules on gathered evidence: infrastructure takes precedence, and there
\* is no automation issue without a heal that was not sure.
LEMMA Precedence ==
    ASSUME NEW sig, NEW heal
    PROVE  /\ classify_rules(gather_evidence(sig, heal)).classification
                = "infrastructure" <=> sig \cap {"infra", "down", "timeout"} # {}
           /\ classify_rules(gather_evidence(sig, heal)).classification
                = "automation" => heal \in {"quarantine", "fail_as_defect"}
<1> DEFINE ev == gather_evidence(sig, heal)
           d == classify_rules(ev)
           bad == sig \cap {"infra", "down", "timeout"} # {}
<1>1. /\ ev.sig = sig /\ ev.heal_outcome = heal
      /\ ev.page_loaded = page_loaded(sig)
      /\ ev.infra_health = infra_health(sig, page_loaded(sig))
  BY DEF gather_evidence
<1>2. infra_health(sig, FALSE) = "down" <=> sig \cap {"down", "timeout"} # {}
  BY DEF infra_health
<1>3. page_loaded(sig) <=> sig \cap {"down", "timeout"} = {}
  BY <1>2 DEF page_loaded
<1>4. infra_health(sig, page_loaded(sig)) = "down" <=>
        sig \cap {"down", "timeout"} # {}
  BY <1>3 DEF infra_health
<1>5. ASSUME NEW c, NEW cited, d = Decision(c, cited)
      PROVE  d.classification = c
  BY <1>5 DEF Decision
<1> HIDE DEF ev
<1>6. ASSUME bad PROVE d.classification = "infrastructure"
  <2>1. "infra" \in ev.sig \/ ev.infra_health = "down"
    BY <1>1, <1>4, <1>6
  <2> QED BY <2>1 DEF classify_rules, Decision
<1>7. ASSUME ~bad PROVE \/ d.classification = "automation"
                           /\ heal \in {"quarantine", "fail_as_defect"}
                        \/ d.classification = "product_defect"
  <2>1. "infra" \notin ev.sig /\ ev.infra_health # "down" /\ "timeout" \notin ev.sig
    BY <1>1, <1>4, <1>7
  <2> QED BY <2>1, <1>1 DEF classify_rules, Decision
<1> QED BY <1>6, <1>7 DEF ev

-----------------------------------------------------------------------------
(* What every step keeps *)

\* No step drops a row, changes what it was drafted with or takes its key away,
\* unless for an issue without a name.
RowsAreKept ==
    \A d \in DOMAIN defects :
      /\ d \in DOMAIN defects'
      /\ defects'[d].run = defects[d].run
      /\ defects'[d].classification = defects[d].classification
      /\ defects'[d].confidence = defects[d].confidence
      /\ defects'[d].fingerprint = defects[d].fingerprint
      /\ defects[d].jira_key # NoKey => defects'[d].jira_key # NoKey \/ Nameless(d)'

\* No step drops or reopens an issue.
IssuesAreKept ==
    /\ Len(issues) <= Len(issues')
    /\ \A k \in DOMAIN issues :
         /\ k \in DOMAIN issues'
         /\ issues'[k].fingerprint = issues[k].fingerprint
         /\ issues'[k].by = issues[k].by
         /\ issues'[k].seen = issues[k].seen
         /\ issues'[k].named = issues[k].named
         /\ issues'[k].open => issues[k].open

LEMMA Domains ==
    ASSUME TypeOK
    PROVE  /\ Len(defects) \in Nat /\ DOMAIN defects = 1..Len(defects)
           /\ Len(issues) \in Nat /\ DOMAIN issues = 1..Len(issues)
           /\ \A d \in 1..Len(defects) : defects[d] \in Rows
           /\ \A k \in 1..Len(issues) : issues[k] \in Tickets
  BY DEF TypeOK

\* A job that is not idle is a filing, and one that is idle is at no step of one.
LEMMA BusyJob ==
    ASSUME TypeOK, NEW p \in Actors
    PROVE  /\ job[p] # Idle => job[p] \in Filings
           /\ job[p].pc \in {"search", "create", "attach", "commit"} => job[p] # Idle
           /\ job[p].pc = "idle" => job[p] = Idle
  BY DEF TypeOK, Idle, Filings

\* An issue without a name stays one.
LEMMA NamelessIsKept ==
    ASSUME IssuesAreKept, NEW d, defects'[d].fingerprint = defects[d].fingerprint,
           Nameless(d)
    PROVE  Nameless(d)'
  BY DEF IssuesAreKept, Nameless

\* A filing stays sound when somebody else takes a step.
LEMMA OtherJob ==
    ASSUME TypeOK, TypeOK', RowsAreKept, IssuesAreKept,
           NEW q \in Actors, job'[q] = job[q], job[q] # Idle, JobIsSound(q),
           \A k \in DOMAIN issues :
              issues[k].by = q /\ ~issues[k].raised => ~issues'[k].raised
    PROVE  JobIsSound(q)'
<1> DEFINE j == job[q]
<1>1. j \in Filings /\ j.id \in DOMAIN defects /\ job'[q] = j
  BY BusyJob DEF JobIsSound
<1>2. j.seen \in Nat /\ Len(issues) \in Nat /\ Len(issues') \in Nat
      /\ DOMAIN issues = 1..Len(issues) /\ DOMAIN issues' = 1..Len(issues')
  BY <1>1, FilingAssumption, Domains DEF Filings, Keys, TypeOK
<1>3. /\ j.id \in DOMAIN defects'
      /\ defects'[j.id].fingerprint = defects[j.id].fingerprint
      /\ j.jira_key # NoKey => defects'[j.id].jira_key # NoKey \/ Nameless(j.id)'
  <2>1. /\ j.id \in DOMAIN defects'
        /\ defects'[j.id].fingerprint = defects[j.id].fingerprint
        /\ defects[j.id].jira_key # NoKey =>
             defects'[j.id].jira_key # NoKey \/ Nameless(j.id)'
    BY <1>1 DEF RowsAreKept
  <2>2. Nameless(j.id) => Nameless(j.id)'
    BY <2>1, NamelessIsKept
  <2> QED BY <2>1, <2>2 DEF JobIsSound
<1>4. j.pc \in {"attach", "commit"} =>
        j.key \in DOMAIN issues' /\ issues'[j.key].fingerprint = defects'[j.id].fingerprint
  BY <1>3 DEF IssuesAreKept, JobIsSound
<1>8. ~j.named => j.pc \in {"attach", "commit"} /\ ~issues'[j.key].named
  BY DEF IssuesAreKept, JobIsSound
<1>5. j.created =>
        /\ j.pc \in {"attach", "commit"}
        /\ issues'[j.key].by = q /\ ~issues'[j.key].raised
  BY DEF IssuesAreKept, JobIsSound
<1>6. ASSUME j.pc = "create"
      PROVE  /\ j.seen <= Len(issues')
             /\ \A k \in 1..j.seen :
                  ~(issues'[k].open /\ issues'[k].fingerprint = defects'[j.id].fingerprint)
  BY <1>2, <1>3, <1>6 DEF IssuesAreKept, JobIsSound
<1>7. q \in Runs => Allowed(j.id, q)'
  BY <1>1 DEF RowsAreKept, JobIsSound, Allowed
<1> QED BY <1>1, <1>3, <1>4, <1>5, <1>6, <1>7, <1>8 DEF JobIsSound

\* Every issue still has its row.
LEMMA DraftsAreKept ==
    ASSUME TypeOK, TypeOK', RowsAreKept, IssuesAreKept, TicketsAreDrafted,
           NEW k \in DOMAIN issues
    PROVE  \E d \in DOMAIN defects' :
             /\ defects'[d].fingerprint = issues'[k].fingerprint
             /\ issues'[k].by \in Runs => Allowed(d, issues[k].by)'
<1>1. PICK d \in DOMAIN defects :
         /\ defects[d].fingerprint = issues[k].fingerprint
         /\ issues[k].by \in Runs => Allowed(d, issues[k].by)
  BY DEF TicketsAreDrafted, Allowed
<1>2. d \in DOMAIN defects' /\ defects'[d].fingerprint = issues'[k].fingerprint
  BY <1>1 DEF RowsAreKept, IssuesAreKept
<1>3. issues'[k].by \in Runs => Allowed(d, issues[k].by)'
  BY <1>1 DEF RowsAreKept, IssuesAreKept, Allowed
<1> QED BY <1>2, <1>3

\* As long as no issue is added, the claims about issues alone are kept.
LEMMA NoNewIssue ==
    ASSUME TypeOK, TypeOK', RowsAreKept, IssuesAreKept, DOMAIN issues' = DOMAIN issues,
           TicketsAreDrafted, DuplicatesOnlyByRace
    PROVE  TicketsAreDrafted' /\ DuplicatesOnlyByRace'
<1>1. ASSUME NEW k \in DOMAIN issues'
      PROVE  \E d \in DOMAIN defects' :
               /\ defects'[d].fingerprint = issues'[k].fingerprint
               /\ issues'[k].by \in Runs =>
                    /\ defects'[d].run = issues'[k].by
                    /\ defects'[d].classification = "product_defect"
                    /\ defects'[d].confidence >= Threshold
  <2>1. PICK d \in DOMAIN defects' :
           /\ defects'[d].fingerprint = issues'[k].fingerprint
           /\ issues'[k].by \in Runs => Allowed(d, issues[k].by)'
    BY DraftsAreKept
  <2> QED BY <2>1 DEF Allowed, IssuesAreKept
<1>2. TicketsAreDrafted'
  BY <1>1 DEF TicketsAreDrafted
<1>3. DuplicatesOnlyByRace'
  BY DEF DuplicatesOnlyByRace, IssuesAreKept
<1> QED BY <1>2, <1>3

\* The counter of a run is sound after a step of somebody else.
LEMMA OtherCounter ==
    ASSUME TypeOK, NEW r \in Runs, CounterIsSound(r), job'[r] = job[r],
           counter'[r] = counter[r],
           Unraised(r)' = Unraised(r)
    PROVE  CounterIsSound(r)'
  BY DEF CounterIsSound, InHand

LEMMA UnraisedFinite ==
    ASSUME TypeOK, NEW r
    PROVE  IsFiniteSet(Unraised(r))
<1>1. IsFiniteSet(1..Len(issues))
  BY Domains, FS_Interval
<1>2. Unraised(r) \subseteq 1..Len(issues)
  BY Domains DEF Unraised
<1> QED BY <1>1, <1>2, FS_Subset, Zenon

\* Keys of rows survive a step that only adds issues or resolves them.
LEMMA OtherKeys ==
    ASSUME TypeOK, KeysAreSound, defects' = defects, IssuesAreKept
    PROVE  KeysAreSound'
<1>1. \A d \in DOMAIN defects : Nameless(d) => Nameless(d)'
  BY NamelessIsKept
<1> QED BY <1>1 DEF KeysAreSound, IssuesAreKept

-----------------------------------------------------------------------------
(* The steps *)

LEMMA PipelineStep ==
    ASSUME FilingInv, NEW r \in Runs, run_defect_pipeline(r)
    PROVE  FilingInv'
<1> USE DEF FilingInv
<1>1. PICK flow \in Flows, ev \in Evidences :
         LET d == classify_failure(ev, flow)
             row == [run |-> r, flow |-> flow, artifacts |-> ev.artifacts,
                     classification |-> d.classification,
                     confidence |-> d.confidence,
                     fingerprint |-> d.fingerprint,
                     jira_key |-> NoKey, status |-> "draft"]
             files == /\ d.classification = "product_defect"
                      /\ may_autofile(Autonomous, Threshold, d.confidence)
         IN  /\ job[r] = Idle
             /\ Len(defects) < MaxDefects
             /\ defects' = Append(defects, row)
             /\ job' = [job EXCEPT ![r] =
                          IF files
                          THEN [pc |-> "search", id |-> Len(defects) + 1,
                                status |-> "draft", jira_key |-> NoKey,
                                key |-> NoKey, named |-> TRUE,
                                created |-> FALSE, seen |-> 0]
                          ELSE Idle]
             /\ UNCHANGED <<issues, counter>>
  BY DEF run_defect_pipeline
<1> DEFINE d == classify_failure(ev, flow)
           row == [run |-> r, flow |-> flow, artifacts |-> ev.artifacts,
                   classification |-> d.classification, confidence |-> d.confidence,
                   fingerprint |-> d.fingerprint, jira_key |-> NoKey, status |-> "draft"]
           new == [pc |-> "search", id |-> Len(defects) + 1, status |-> "draft",
                   jira_key |-> NoKey, key |-> NoKey, named |-> TRUE,
                   created |-> FALSE, seen |-> 0]
<1>2. /\ row \in Rows
      /\ row.run = r /\ row.jira_key = NoKey /\ row.status = "draft"
      /\ row.classification = d.classification /\ row.confidence = d.confidence
  <2>1. d.classification \in Classes /\ d.confidence \in 0..100
    BY VerdictType
  <2>2. d.fingerprint \in Fingerprints
    BY DEF Fingerprints
  <2>3. NoKey \in Keys
    BY FilingAssumption DEF NoKey, Keys
  <2> HIDE DEF d
  <2> QED BY <2>1, <2>2, <2>3 DEF Rows, Statuses
<1>3. /\ job[r] = Idle /\ Len(defects) < MaxDefects
      /\ defects' = Append(defects, row)
      /\ job' = [job EXCEPT ![r] =
                    IF d.classification = "product_defect"
                       /\ may_autofile(Autonomous, Threshold, d.confidence)
                    THEN new ELSE Idle]
      /\ issues' = issues /\ counter' = counter
  BY <1>1, Zenon
<1> HIDE DEF d, row
<1>4. /\ r \in Actors /\ Len(defects) \in Nat /\ DOMAIN defects = 1..Len(defects)
      /\ \A e \in 1..Len(defects) : defects[e] \in Rows
  BY Domains DEF Actors
<1>5. /\ defects' \in Seq(Rows) /\ Len(defects') = Len(defects) + 1
      /\ DOMAIN defects' = 1..(Len(defects) + 1)
      /\ defects'[Len(defects) + 1] = row
      /\ \A e \in 1..Len(defects) : defects'[e] = defects[e]
  BY <1>2, <1>3, <1>4 DEF TypeOK
<1>6. new \in Filings
  <2>1. Len(defects) + 1 \in 1..MaxDefects /\ NoKey \in Keys /\ 0 \in Keys
    BY <1>3, <1>4, FilingAssumption DEF Keys, NoKey
  <2> QED BY <2>1 DEF Filings, Statuses
<1>7. /\ job' \in [Actors -> Filings \cup {Idle}]
      /\ job'[r] \in {new, Idle}
      /\ job'[r] = new => d.classification = "product_defect" /\ d.confidence >= Threshold
      /\ \A q \in Actors : q # r => job'[q] = job[q]
  <2> HIDE DEF new
  <2>1. Idle # new
    BY <1>6 DEF Idle, Filings
  <2> QED BY <1>3, <1>4, <1>6, <2>1 DEF TypeOK, may_autofile
<1>8. TypeOK'
  BY <1>3, <1>4, <1>5, <1>7, FilingAssumption DEF TypeOK
<1>9. RowsAreKept /\ IssuesAreKept
  BY <1>3, <1>4, <1>5, Domains DEF RowsAreKept, IssuesAreKept
<1>10. KeysAreSound'
  <2>1. \A e \in DOMAIN defects : Nameless(e) => Nameless(e)'
    BY <1>9, NamelessIsKept DEF RowsAreKept
  <2> QED BY <1>2, <1>3, <1>4, <1>5, <2>1 DEF KeysAreSound, NoKey
<1>11. ASSUME NEW q \in Actors, job'[q] # Idle PROVE JobIsSound(q)'
  <2>1. CASE q # r
    BY <1>3, <1>7, <1>8, <1>9, <1>11, <2>1, OtherJob DEF JobsAreSound
  <2>2. CASE q = r
    <3>1. job'[q] = new
      BY <1>7, <1>11, <2>2
    <3>2. PICK n \in Nat : n = Len(defects) + 1
      BY <1>4
    <3>3. Allowed(n, q)'
      BY <1>2, <1>5, <1>7, <2>2, <3>1, <3>2 DEF Allowed
    <3>4. job'[q].id = n /\ n \in DOMAIN defects'
      BY <1>4, <1>5, <3>1, <3>2
    <3> QED BY <3>1, <3>3, <3>4 DEF JobIsSound, NoKey
  <2> QED BY <2>1, <2>2
<1>12. ASSUME NEW q \in Runs PROVE CounterIsSound(q)'
  <2>1. Unraised(q)' = Unraised(q) /\ counter'[q] = counter[q] /\ CounterIsSound(q)
    BY <1>3 DEF Unraised, CountersAreSound
  <2>2. CASE q # r
    BY <1>7, <2>1, <2>2, OtherCounter DEF Actors
  <2>3. CASE q = r
    <3>1. ~InHand(q) /\ ~InHand(q)' /\ job'[q].pc # "create"
      BY <1>3, <1>7, <2>3 DEF InHand, Idle
    <3> QED BY <2>1, <3>1 DEF CounterIsSound
  <2> QED BY <2>2, <2>3
<1>13. TicketsAreDrafted' /\ DuplicatesOnlyByRace'
  BY <1>3, <1>8, <1>9, NoNewIssue
<1> QED BY <1>8, <1>10, <1>11, <1>12, <1>13 DEF JobsAreSound, CountersAreSound

LEMMA ApplyStep ==
    ASSUME FilingInv, NEW q \in Requests, apply_defect(q)
    PROVE  FilingInv'
<1> USE DEF FilingInv
<1>1. PICK d \in DOMAIN defects : job' = [job EXCEPT ![q] = Filing(d)]
  BY DEF apply_defect
<1>2. /\ q \in Actors /\ q \notin Runs /\ job[q] = Idle
      /\ defects' = defects /\ issues' = issues /\ counter' = counter
  BY FilingAssumption DEF apply_defect, Actors
<1>3. defects[d] \in Rows /\ d \in 1..MaxDefects
  BY <1>1, Domains, FilingAssumption DEF TypeOK
<1>4. Filing(d) \in Filings
  <2>1. defects[d].status \in Statuses /\ defects[d].jira_key \in Keys
    BY <1>3 DEF Rows
  <2>2. NoKey \in Keys /\ 0 \in Keys
    BY FilingAssumption DEF Keys, NoKey
  <2> QED BY <1>3, <2>1, <2>2 DEF Filing, Filings
<1>5. /\ job'[q] = Filing(d)
      /\ \A p \in Actors : p # q => job'[p] = job[p]
      /\ job' \in [Actors -> Filings \cup {Idle}]
  BY <1>1, <1>2, <1>4 DEF TypeOK
<1>6. TypeOK'
  BY <1>2, <1>5 DEF TypeOK
<1>7. RowsAreKept /\ IssuesAreKept
  BY <1>2, Domains DEF RowsAreKept, IssuesAreKept
<1>8. ASSUME NEW p \in Actors, job'[p] # Idle PROVE JobIsSound(p)'
  <2>1. CASE p # q
    BY <1>2, <1>5, <1>6, <1>7, <1>8, <2>1, OtherJob DEF JobsAreSound
  <2>2. CASE p = q
    BY <1>1, <1>2, <1>5, <2>2 DEF JobIsSound, Filing
  <2> QED BY <2>1, <2>2
<1>9. ASSUME NEW r \in Runs PROVE CounterIsSound(r)'
  <2>1. Unraised(r)' = Unraised(r) /\ counter'[r] = counter[r] /\ CounterIsSound(r)
    BY <1>2 DEF Unraised, CountersAreSound
  <2>2. r \in Actors /\ r # q
    BY <1>2 DEF Actors
  <2> QED BY <1>5, <2>1, <2>2, OtherCounter
<1>10. KeysAreSound'
  BY <1>2, <1>7, OtherKeys
<1>11. TicketsAreDrafted' /\ DuplicatesOnlyByRace'
  BY <1>2, <1>6, <1>7, NoNewIssue
<1> QED BY <1>6, <1>8, <1>9, <1>10, <1>11 DEF JobsAreSound, CountersAreSound

\* A step of p's filing that changes nothing but p's job, and leaves an issue p
\* has in hand in hand.
LEMMA JobOnlyStep ==
    ASSUME FilingInv, NEW p \in Actors, NEW j, job' = [job EXCEPT ![p] = j],
           j \in Filings \cup {Idle},
           defects' = defects, issues' = issues, counter' = counter,
           j # Idle => JobIsSound(p)',
           p \in Runs => CounterIsSound(p)'
    PROVE  FilingInv'
<1> USE DEF FilingInv
<1>1. /\ job'[p] = j
      /\ \A q \in Actors : q # p => job'[q] = job[q]
      /\ job' \in [Actors -> Filings \cup {Idle}]
  BY DEF TypeOK
<1>2. TypeOK'
  BY <1>1 DEF TypeOK
<1>3. RowsAreKept /\ IssuesAreKept
  BY Domains DEF RowsAreKept, IssuesAreKept
<1>4. ASSUME NEW q \in Actors, job'[q] # Idle PROVE JobIsSound(q)'
  <2>1. CASE q # p
    BY <1>1, <1>2, <1>3, <1>4, <2>1, OtherJob DEF JobsAreSound
  <2> QED BY <1>1, <1>4, <2>1
<1>5. ASSUME NEW r \in Runs PROVE CounterIsSound(r)'
  <2>1. CASE r # p
    <3>1. Unraised(r)' = Unraised(r) /\ counter'[r] = counter[r] /\ CounterIsSound(r)
      BY DEF Unraised, CountersAreSound
    <3> QED BY <1>1, <2>1, <3>1, OtherCounter DEF Actors
  <2> QED BY <2>1
<1>6. KeysAreSound'
  BY <1>3, OtherKeys
<1>7. TicketsAreDrafted' /\ DuplicatesOnlyByRace'
  BY <1>2, <1>3, NoNewIssue
<1> QED BY <1>2, <1>4, <1>5, <1>6, <1>7 DEF JobsAreSound, CountersAreSound

LEMMA SearchStep ==
    ASSUME FilingInv, NEW p \in Actors, search_jql(p)
    PROVE  FilingInv'
<1> USE DEF FilingInv
<1> DEFINE hits == open_issues(defects[job[p].id].fingerprint)
<1>1. /\ job[p].pc = "search" /\ job[p] \in Filings /\ job[p] # Idle /\ JobIsSound(p)
      /\ defects' = defects /\ issues' = issues /\ counter' = counter
  BY BusyJob DEF search_jql, JobsAreSound
<1>2. ~job[p].created /\ job[p].named
  BY <1>1 DEF JobIsSound
<1>0. PICK e : e = job[p].id
  OBVIOUS
<1>7. Nameless(e) => Nameless(e)'
  BY <1>1 DEF Nameless
<1>3. p \in Runs => Unraised(p)' = Unraised(p) /\ CounterIsSound(p) /\ ~InHand(p)
  BY <1>1, <1>2 DEF Unraised, CountersAreSound, InHand
<1>4. CASE \E k \in hits : job' = [job EXCEPT ![p].pc = "attach", ![p].key = k]
  <2>1. PICK k \in hits : job' = [job EXCEPT ![p].pc = "attach", ![p].key = k]
    BY <1>4
  <2>2. k \in DOMAIN issues /\ issues[k].fingerprint = defects[job[p].id].fingerprint
    BY DEF open_issues
  <2>3. k \in Keys
    BY <2>2, Domains, FilingAssumption DEF TypeOK, Keys
  <2> DEFINE j == [job[p] EXCEPT !.pc = "attach", !.key = k]
  <2>4. /\ j \in Filings /\ j.pc = "attach" /\ j.key = k /\ j.id = job[p].id
        /\ j.jira_key = job[p].jira_key /\ j.created = job[p].created
        /\ j.named = job[p].named
    BY <1>1, <2>3 DEF Filings
  <2>5. job' = [job EXCEPT ![p] = j]
    BY <2>1
  <2> HIDE DEF j
  <2>6. job'[p] = j
    BY <2>5 DEF TypeOK
  <2>7. JobIsSound(p)'
    BY <1>0, <1>1, <1>2, <1>7, <2>2, <2>4, <2>6 DEF JobIsSound, Allowed
  <2>8. p \in Runs => CounterIsSound(p)'
    BY <1>1, <1>2, <1>3, <2>4, <2>6 DEF CounterIsSound, InHand
  <2> QED BY <1>1, <2>4, <2>5, <2>7, <2>8, JobOnlyStep
<1>5. CASE job' = [job EXCEPT ![p] = Idle]
  <2>1. job'[p] = Idle
    BY <1>5 DEF TypeOK
  <2>2. p \in Runs => CounterIsSound(p)'
    BY <1>1, <1>3, <2>1 DEF CounterIsSound, InHand, Idle
  <2> QED BY <1>1, <1>5, <2>2, JobOnlyStep
<1>6. CASE /\ hits = {} /\ run_counter(p) < Cap
           /\ job' = [job EXCEPT ![p].pc = "create", ![p].seen = Len(issues)]
  <2>1. Len(issues) \in Keys /\ DOMAIN issues = 1..Len(issues)
    BY Domains, FilingAssumption DEF TypeOK, Keys
  <2> DEFINE j == [job[p] EXCEPT !.pc = "create", !.seen = Len(issues)]
  <2>2. /\ j \in Filings /\ j.pc = "create" /\ j.seen = Len(issues) /\ j.id = job[p].id
        /\ j.jira_key = job[p].jira_key /\ j.created = job[p].created
        /\ j.named = job[p].named
    BY <1>1, <2>1 DEF Filings
  <2>3. job' = [job EXCEPT ![p] = j]
    BY <1>6
  <2> HIDE DEF j
  <2>4. job'[p] = j
    BY <2>3 DEF TypeOK
  <2>5. \A k \in 1..Len(issues) :
          ~(issues[k].open /\ issues[k].fingerprint = defects[job[p].id].fingerprint)
    BY <1>6, <2>1 DEF open_issues
  <2>6. JobIsSound(p)'
    <3>1. /\ e \in DOMAIN defects /\ (p \in Runs => Allowed(e, p))
          /\ j.jira_key # NoKey => defects[e].jira_key # NoKey \/ Nameless(e)
      BY <1>0, <1>1, <2>2 DEF JobIsSound
    <3>2. /\ job'[p].id = e /\ e \in DOMAIN defects' /\ (p \in Runs => Allowed(e, p)')
          /\ j.jira_key # NoKey => defects'[e].jira_key # NoKey \/ Nameless(e)'
      BY <1>0, <1>1, <1>7, <2>2, <2>4, <3>1 DEF Allowed
    <3>3. j.pc = "create" /\ ~j.created /\ j.named /\ j.seen = Len(issues') /\ Len(issues') \in Nat
      BY <1>1, <1>2, <2>2, Domains
    <3>4. \A k \in 1..j.seen :
            ~(issues'[k].open /\ issues'[k].fingerprint = defects'[e].fingerprint)
      BY <1>0, <1>1, <2>5, <3>3
    <3> QED BY <2>4, <3>2, <3>3, <3>4 DEF JobIsSound
  <2>7. p \in Runs => CounterIsSound(p)'
    BY <1>1, <1>2, <1>3, <1>6, <2>2, <2>4 DEF CounterIsSound, InHand, run_counter
  <2> QED BY <1>1, <2>2, <2>3, <2>6, <2>7, JobOnlyStep
<1> QED BY <1>4, <1>5, <1>6 DEF search_jql

LEMMA AddEvidenceStep ==
    ASSUME FilingInv, NEW p \in Actors, add_evidence(p)
    PROVE  FilingInv'
<1> USE DEF FilingInv
<1>1. /\ job[p].pc = "attach" /\ job[p] \in Filings /\ job[p] # Idle /\ JobIsSound(p)
      /\ defects' = defects /\ issues' = issues /\ counter' = counter
  BY BusyJob DEF add_evidence, JobsAreSound
<1> DEFINE j == [job[p] EXCEPT !.pc = "commit"]
<1>2. /\ j \in Filings /\ j.pc = "commit" /\ j.key = job[p].key /\ j.id = job[p].id
      /\ j.jira_key = job[p].jira_key /\ j.created = job[p].created
      /\ j.named = job[p].named
  BY <1>1 DEF Filings
<1>3. job' = [job EXCEPT ![p] = j]
  BY DEF add_evidence
<1> HIDE DEF j
<1>4. job'[p] = j /\ j # Idle
  BY <1>2, <1>3 DEF TypeOK, Idle
<1>0. PICK e : e = job[p].id
  OBVIOUS
<1>7. Nameless(e) => Nameless(e)'
  BY <1>1 DEF Nameless
<1>5. JobIsSound(p)'
  BY <1>0, <1>1, <1>2, <1>4, <1>7 DEF JobIsSound, Allowed
<1>6. ASSUME p \in Runs PROVE CounterIsSound(p)'
  <2>1. Unraised(p)' = Unraised(p) /\ CounterIsSound(p)
    BY <1>1, <1>6 DEF Unraised, CountersAreSound
  <2> QED BY <1>1, <1>2, <1>4, <2>1 DEF CounterIsSound, InHand
<1> QED BY <1>1, <1>2, <1>3, <1>5, <1>6, JobOnlyStep

LEMMA CreateStep ==
    ASSUME FilingInv, NEW p \in Actors, NEW named \in BOOLEAN, create_issue(p, named)
    PROVE  FilingInv'
<1> USE DEF FilingInv
<1> DEFINE n == Len(issues) + 1
           fp == defects[job[p].id].fingerprint
           new == [fingerprint |-> fp, open |-> TRUE, by |-> p, seen |-> job[p].seen,
                   raised |-> FALSE, named |-> named]
           j == [job[p] EXCEPT !.pc = "attach", !.created = TRUE, !.key = n,
                               !.named = named]
<1>1. /\ job[p].pc = "create" /\ job[p] \in Filings /\ job[p] # Idle /\ JobIsSound(p)
      /\ Len(issues) < MaxIssues
      /\ defects' = defects /\ counter' = counter
      /\ issues' = Append(issues, new)
      /\ job' = [job EXCEPT ![p] = j]
  BY BusyJob DEF create_issue, JobsAreSound
<1>2. /\ Len(issues) \in Nat /\ DOMAIN issues = 1..Len(issues)
      /\ \A k \in 1..Len(issues) : issues[k] \in Tickets
  BY Domains
<1>3. job[p].id \in DOMAIN defects /\ fp \in Fingerprints
  BY <1>1, Domains DEF JobIsSound, Rows
<1>4. /\ new \in Tickets /\ new.fingerprint = fp /\ new.by = p /\ new.seen = job[p].seen
      /\ new.raised = FALSE /\ new.named = named
  <2> HIDE DEF fp
  <2> QED BY <1>1, <1>3 DEF Tickets, Filings
<1>5. /\ j \in Filings /\ j.pc = "attach" /\ j.key = n /\ j.id = job[p].id
      /\ j.jira_key = job[p].jira_key /\ j.created = TRUE /\ j.named = named
  <2>1. Len(issues) + 1 \in Keys
    BY <1>1, <1>2, FilingAssumption DEF Keys
  <2> QED BY <1>1, <2>1 DEF Filings
<1> HIDE DEF new, j, fp
<1>6. /\ issues' \in Seq(Tickets) /\ Len(issues') = n /\ DOMAIN issues' = 1..n
      /\ issues'[n] = new
      /\ \A k \in 1..Len(issues) : issues'[k] = issues[k]
  BY <1>1, <1>2, <1>4 DEF TypeOK
<1>7. /\ job'[p] = j
      /\ \A q \in Actors : q # p => job'[q] = job[q]
      /\ job' \in [Actors -> Filings \cup {Idle}]
  BY <1>1, <1>5 DEF TypeOK
<1>8. TypeOK'
  BY <1>1, <1>2, <1>6, <1>7, FilingAssumption DEF TypeOK
<1>9. RowsAreKept /\ IssuesAreKept
  BY <1>1, <1>2, <1>6 DEF RowsAreKept, IssuesAreKept
<1>10. n \in DOMAIN issues' /\ n \notin DOMAIN issues /\ DOMAIN issues' = DOMAIN issues \cup {n}
  BY <1>2, <1>6
<1>11. JobIsSound(p)'
  <2>0. PICK e \in DOMAIN defects : e = job[p].id
    BY <1>3
  <2>1. job'[p].id = e /\ (p \in Runs => Allowed(e, p)')
    BY <1>1, <1>5, <1>7, <2>0 DEF JobIsSound, Allowed
  <2>2. issues'[n].fingerprint = defects'[job[p].id].fingerprint
    BY <1>1, <1>4, <1>6 DEF fp
  <2>3. Nameless(e) => Nameless(e)'
    BY <1>1, <1>9, NamelessIsKept
  <2> QED BY <1>1, <1>4, <1>5, <1>6, <1>7, <1>10, <2>0, <2>1, <2>2, <2>3 DEF JobIsSound
<1>12. ASSUME NEW q \in Actors, job'[q] # Idle PROVE JobIsSound(q)'
  <2>1. CASE q # p
    BY <1>2, <1>6, <1>7, <1>8, <1>9, <1>12, <2>1, OtherJob DEF JobsAreSound
  <2> QED BY <1>11, <2>1
<1>13. ASSUME NEW r \in Runs PROVE CounterIsSound(r)'
  <2>1. CounterIsSound(r) /\ counter'[r] = counter[r]
    BY <1>1 DEF CountersAreSound
  <2>2. CASE r # p
    <3>1. Unraised(r)' = Unraised(r)
      BY <1>2, <1>4, <1>6, <1>10, <2>2 DEF Unraised
    <3> QED BY <1>7, <2>1, <2>2, <3>1, OtherCounter DEF Actors
  <2>3. CASE r = p
    <3>1. Unraised(r)' = Unraised(r) \cup {n}
      BY <1>2, <1>4, <1>6, <1>10, <2>3 DEF Unraised
    <3>2. n \notin Unraised(r) /\ IsFiniteSet(Unraised(r))
      BY <1>10, UnraisedFinite DEF Unraised
    <3>3. Cardinality(Unraised(r)') = Cardinality(Unraised(r)) + 1
      BY <3>1, <3>2, FS_AddElement
    <3>4. ~InHand(r) /\ InHand(r)'
      BY <1>1, <1>5, <1>7, <2>3 DEF InHand, JobIsSound, Idle
    <3>5. Cardinality(Unraised(r)) = counter[r] /\ counter[r] < Cap /\ counter[r] \in Nat
      BY <1>1, <2>1, <2>3, <3>4 DEF CounterIsSound, TypeOK
    <3> QED BY <2>1, <3>3, <3>4, <3>5 DEF CounterIsSound
  <2> QED BY <2>2, <2>3
<1>14. KeysAreSound'
  BY <1>1, <1>9, OtherKeys
<1>15. TicketsAreDrafted'
  <2>1. ASSUME NEW k \in DOMAIN issues'
        PROVE  \E d \in DOMAIN defects' :
                 /\ defects'[d].fingerprint = issues'[k].fingerprint
                 /\ issues'[k].by \in Runs =>
                      /\ defects'[d].run = issues'[k].by
                      /\ defects'[d].classification = "product_defect"
                      /\ defects'[d].confidence >= Threshold
    <3>1. CASE k = n
      <4>1. job[p].id \in DOMAIN defects'
            /\ defects'[job[p].id].fingerprint = issues'[k].fingerprint
        BY <1>1, <1>3, <1>4, <1>6, <3>1 DEF fp
      <4>2. issues'[k].by = p /\ (p \in Runs => Allowed(job[p].id, p))
        BY <1>1, <1>4, <1>6, <3>1 DEF JobIsSound
      <4> QED BY <1>1, <4>1, <4>2 DEF Allowed
    <3>2. CASE k # n
      <4>1. PICK d \in DOMAIN defects :
              /\ defects[d].fingerprint = issues[k].fingerprint
              /\ issues[k].by \in Runs => Allowed(d, issues[k].by)
        BY <1>10, <3>2 DEF TicketsAreDrafted, Allowed
      <4> QED BY <1>1, <1>2, <1>6, <1>10, <3>2, <4>1 DEF Allowed
    <3> QED BY <3>1, <3>2
  <2> QED BY <2>1 DEF TicketsAreDrafted
<1>16. DuplicatesOnlyByRace'
  <2>1. ASSUME NEW k \in DOMAIN issues', NEW l \in DOMAIN issues', k < l,
               issues'[k].open, issues'[l].open,
               issues'[k].fingerprint = issues'[l].fingerprint
        PROVE  issues'[l].seen < k
    <3>1. k \in 1..Len(issues) /\ issues'[k] = issues[k]
      BY <1>2, <1>6, <2>1
    <3>2. CASE l = n
      <4>1. issues[k].open /\ issues[k].fingerprint = fp /\ issues'[l].seen = job[p].seen
        BY <1>4, <1>6, <2>1, <3>1, <3>2
      <4>2. job[p].seen \in Nat
        BY <1>1, FilingAssumption DEF Filings, Keys
      <4>3. ~(k \in 1..job[p].seen)
        BY <1>1, <4>1 DEF JobIsSound, fp
      <4> QED BY <3>1, <4>1, <4>2, <4>3
    <3>3. CASE l # n
      BY <1>2, <1>6, <1>10, <2>1, <3>1, <3>3 DEF DuplicatesOnlyByRace
    <3> QED BY <3>2, <3>3
  <2> QED BY <2>1 DEF DuplicatesOnlyByRace
<1> QED BY <1>8, <1>12, <1>13, <1>14, <1>15, <1>16 DEF JobsAreSound, CountersAreSound

LEMMA PersistFiledStep ==
    ASSUME FilingInv, NEW p \in Actors, persist_filed(p)
    PROVE  FilingInv'
<1> USE DEF FilingInv
<1> DEFINE j == job[p]
           row == flushed(defects[j.id], j)
<1>1. /\ j.pc = "commit" /\ j \in Filings /\ j # Idle /\ JobIsSound(p)
      /\ issues' = issues
      /\ defects' = [defects EXCEPT ![j.id] = row]
      /\ job' = [job EXCEPT ![p] = Idle]
      /\ counter' = IF p \in Runs /\ j.created
                    THEN [counter EXCEPT ![p] = counter[p] + 1] ELSE counter
  BY BusyJob DEF persist_filed, JobsAreSound
<1>2. /\ Len(defects) \in Nat /\ DOMAIN defects = 1..Len(defects)
      /\ \A d \in 1..Len(defects) : defects[d] \in Rows
  BY Domains
<1>3. /\ j.id \in DOMAIN defects /\ defects[j.id] \in Rows
      /\ j.key \in DOMAIN issues /\ issues[j.key].fingerprint = defects[j.id].fingerprint
      /\ j.jira_key # NoKey => defects[j.id].jira_key # NoKey \/ Nameless(j.id)
      /\ ~j.named => ~issues[j.key].named
  BY <1>1, <1>2 DEF JobIsSound
<1> DEFINE key == result_key(j)
<1>4. /\ key \in Keys
      /\ j.named => key = j.key /\ key # NoKey
      /\ ~j.named => key = NoKey
  BY <1>1, <1>3, Domains, FilingAssumption DEF NoKey, Filings, Keys, result_key
<1> HIDE DEF key
<1>5. /\ row \in Rows
      /\ row.run = defects[j.id].run
      /\ row.classification = defects[j.id].classification
      /\ row.confidence = defects[j.id].confidence
      /\ row.fingerprint = defects[j.id].fingerprint
      /\ row.jira_key = IF key # j.jira_key THEN key ELSE defects[j.id].jira_key
      /\ row.status = IF j.status # "applied" THEN "applied" ELSE defects[j.id].status
  <2> DEFINE old == defects[j.id]
  <2>1. old \in Rows /\ key \in Keys
    BY <1>3, <1>4
  <2>2. row = [old EXCEPT !.jira_key = IF key # j.jira_key THEN key ELSE old.jira_key,
                          !.status = IF j.status # "applied" THEN "applied" ELSE old.status]
    BY DEF flushed, key
  <2> HIDE DEF old, row, j
  <2>3. (IF j.status # "applied" THEN "applied" ELSE old.status) \in Statuses
    BY <2>1 DEF Rows, Statuses
  <2>4. (IF key # j.jira_key THEN key ELSE old.jira_key) \in Keys
    BY <2>1 DEF Rows
  <2>5. row \in Rows
    BY <2>1, <2>2, <2>3, <2>4 DEF Rows
  <2>6. /\ row.run = old.run /\ row.classification = old.classification
        /\ row.confidence = old.confidence /\ row.fingerprint = old.fingerprint
        /\ row.jira_key = IF key # j.jira_key THEN key ELSE old.jira_key
        /\ row.status = IF j.status # "applied" THEN "applied" ELSE old.status
    BY <2>1, <2>2 DEF Rows
  <2> QED BY <2>5, <2>6 DEF old
<1> HIDE DEF row
<1>0. PICK e \in DOMAIN defects : e = j.id
  BY <1>3
<1>18. Nameless(e) \/ ~j.named => Nameless(e)'
  <2>1. defects'[e].fingerprint = defects[e].fingerprint
    BY <1>0, <1>1, <1>2, <1>3, <1>5
  <2>2. Nameless(e) \/ ~j.named => Nameless(e)
    BY <1>0, <1>3 DEF Nameless
  <2> QED BY <1>1, <2>1, <2>2 DEF Nameless
<1>6. row.jira_key # NoKey \/ Nameless(e)'
  BY <1>0, <1>3, <1>4, <1>5, <1>18
<1>7. /\ defects' \in Seq(Rows) /\ Len(defects') = Len(defects)
      /\ DOMAIN defects' = DOMAIN defects
      /\ defects'[j.id] = row
      /\ \A d \in DOMAIN defects : d # j.id => defects'[d] = defects[d]
  BY <1>1, <1>2, <1>3, <1>5 DEF TypeOK
<1>8. /\ job'[p] = Idle
      /\ \A q \in Actors : q # p => job'[q] = job[q]
      /\ job' \in [Actors -> Filings \cup {Idle}]
  BY <1>1 DEF TypeOK
<1>9. p \in Runs => CounterIsSound(p) /\ counter[p] \in 0..Cap
  BY DEF CountersAreSound, TypeOK
<1>10. p \in Runs /\ j.created => counter[p] < Cap
  BY <1>1, <1>9 DEF CounterIsSound, InHand
<1>11. counter' \in [Runs -> 0..Cap]
  BY <1>1, <1>9, <1>10, FilingAssumption DEF TypeOK
<1>12. TypeOK'
  BY <1>1, <1>7, <1>8, <1>11 DEF TypeOK
<1>13. RowsAreKept /\ IssuesAreKept
  <2>1. IssuesAreKept
    BY <1>1, Domains DEF IssuesAreKept
  <2>2. ASSUME NEW d \in DOMAIN defects
        PROVE  /\ d \in DOMAIN defects'
               /\ defects'[d].run = defects[d].run
               /\ defects'[d].classification = defects[d].classification
               /\ defects'[d].confidence = defects[d].confidence
               /\ defects'[d].fingerprint = defects[d].fingerprint
               /\ defects[d].jira_key # NoKey =>
                    defects'[d].jira_key # NoKey \/ Nameless(d)'
    BY <1>0, <1>5, <1>6, <1>7
  <2> QED BY <2>1, <2>2 DEF RowsAreKept
<1>14. KeysAreSound'
  <2>1. ASSUME NEW d \in DOMAIN defects
        PROVE  /\ defects'[d].status = "applied" =>
                    defects'[d].jira_key # NoKey \/ Nameless(d)'
               /\ defects'[d].jira_key # NoKey =>
                    /\ defects'[d].jira_key \in DOMAIN issues
                    /\ issues[defects'[d].jira_key].fingerprint = defects'[d].fingerprint
    <3>0. Nameless(d) => Nameless(d)'
      BY <1>13, NamelessIsKept DEF RowsAreKept
    <3>1. CASE d # j.id
      BY <1>7, <3>0, <3>1 DEF KeysAreSound
    <3>2. CASE d = j.id
      BY <1>0, <1>3, <1>4, <1>5, <1>6, <1>7, <3>2 DEF KeysAreSound
    <3> QED BY <3>1, <3>2
  <2> QED BY <1>1, <1>7, <2>1 DEF KeysAreSound
<1>15. ASSUME NEW q \in Actors, job'[q] # Idle PROVE JobIsSound(q)'
  BY <1>1, <1>8, <1>12, <1>13, <1>15, OtherJob DEF JobsAreSound
<1>16. ASSUME NEW r \in Runs PROVE CounterIsSound(r)'
  <2>1. CounterIsSound(r) /\ Unraised(r)' = Unraised(r)
    BY <1>1 DEF CountersAreSound, Unraised
  <2>2. CASE r # p
    <3>1. counter'[r] = counter[r]
      BY <1>1, <2>2 DEF TypeOK
    <3> QED BY <1>8, <2>1, <2>2, <3>1, OtherCounter DEF Actors
  <2>3. CASE r = p
    <3>1. ~InHand(r)' /\ job'[r].pc # "create"
      BY <1>8, <2>3 DEF InHand, Idle
    <3>2. counter'[r] = counter[r] + (IF InHand(r) THEN 1 ELSE 0) /\ counter'[r] \in Nat
      BY <1>1, <1>9, <2>3 DEF InHand, TypeOK
    <3> QED BY <2>1, <3>1, <3>2 DEF CounterIsSound
  <2> QED BY <2>2, <2>3
<1>17. TicketsAreDrafted' /\ DuplicatesOnlyByRace'
  BY <1>1, <1>12, <1>13, NoNewIssue
<1> QED BY <1>12, <1>14, <1>15, <1>16, <1>17 DEF JobsAreSound, CountersAreSound

LEMMA RaisesStep ==
    ASSUME FilingInv, NEW p \in Actors, filing_raises(p)
    PROVE  FilingInv'
<1> USE DEF FilingInv
<1> DEFINE j == job[p]
<1>1. /\ j \in Filings /\ j # Idle /\ JobIsSound(p)
      /\ defects' = defects /\ counter' = counter
      /\ issues' = IF j.created THEN [issues EXCEPT ![j.key].raised = TRUE] ELSE issues
      /\ job' = [job EXCEPT ![p] = Idle]
  BY BusyJob DEF filing_raises, JobsAreSound
<1>2. /\ Len(issues) \in Nat /\ DOMAIN issues = 1..Len(issues)
      /\ \A k \in DOMAIN issues : issues[k] \in Tickets
  BY Domains
<1>3. j.created => /\ j.key \in DOMAIN issues
                   /\ issues[j.key].by = p /\ ~issues[j.key].raised
  BY <1>1 DEF JobIsSound
<1>4. /\ issues' \in Seq(Tickets) /\ Len(issues') = Len(issues)
      /\ DOMAIN issues' = DOMAIN issues
      /\ \A k \in DOMAIN issues :
           /\ issues'[k].fingerprint = issues[k].fingerprint
           /\ issues'[k].by = issues[k].by
           /\ issues'[k].seen = issues[k].seen
           /\ issues'[k].named = issues[k].named
           /\ issues'[k].open = issues[k].open
           /\ issues'[k].raised = (issues[k].raised \/ (j.created /\ k = j.key))
  <2>1. CASE ~j.created
    BY <1>1, <1>2, <2>1 DEF TypeOK, Tickets
  <2>2. CASE j.created
    <3> DEFINE i == [issues[j.key] EXCEPT !.raised = TRUE]
    <3>1. /\ i \in Tickets /\ i.fingerprint = issues[j.key].fingerprint
          /\ i.by = issues[j.key].by /\ i.seen = issues[j.key].seen
          /\ i.open = issues[j.key].open /\ i.named = issues[j.key].named
          /\ i.raised = TRUE
      BY <1>2, <1>3, <2>2 DEF Tickets
    <3>2. issues' = [issues EXCEPT ![j.key] = i]
      BY <1>1, <2>2
    <3> HIDE DEF i
    <3>3. /\ issues' \in Seq(Tickets) /\ Len(issues') = Len(issues)
          /\ DOMAIN issues' = DOMAIN issues
          /\ issues'[j.key] = i
          /\ \A k \in DOMAIN issues : k # j.key => issues'[k] = issues[k]
      BY <1>2, <1>3, <2>2, <3>1, <3>2 DEF TypeOK
    <3>4. \A k \in DOMAIN issues : k # j.key => issues[k].raised \in BOOLEAN
      BY <1>2 DEF Tickets
    <3> QED BY <2>2, <3>1, <3>3, <3>4
  <2> QED BY <2>1, <2>2
<1>5. /\ job'[p] = Idle
      /\ \A q \in Actors : q # p => job'[q] = job[q]
      /\ job' \in [Actors -> Filings \cup {Idle}]
  BY <1>1 DEF TypeOK
<1>6. TypeOK'
  BY <1>1, <1>4, <1>5 DEF TypeOK
<1>7. RowsAreKept /\ IssuesAreKept
  BY <1>1, <1>2, <1>4 DEF RowsAreKept, IssuesAreKept
<1>8. KeysAreSound'
  BY <1>1, <1>7, OtherKeys
<1>9. ASSUME NEW q \in Actors, job'[q] # Idle PROVE JobIsSound(q)'
  <2>1. q # p /\ job'[q] = job[q] /\ job[q] # Idle /\ JobIsSound(q)
    BY <1>5, <1>9 DEF JobsAreSound
  <2>2. \A k \in DOMAIN issues :
          issues[k].by = q /\ ~issues[k].raised => ~issues'[k].raised
    BY <1>3, <1>4, <2>1
  <2> QED BY <1>6, <1>7, <2>1, <2>2, OtherJob
<1>10. ASSUME NEW r \in Runs PROVE CounterIsSound(r)'
  <2>1. CounterIsSound(r) /\ counter'[r] = counter[r] /\ counter[r] \in Nat
    BY <1>1 DEF CountersAreSound, TypeOK
  <2>2. CASE r # p
    <3>1. Unraised(r)' = Unraised(r)
      BY <1>3, <1>4, <2>2 DEF Unraised
    <3> QED BY <1>5, <2>1, <2>2, <3>1, OtherCounter DEF Actors
  <2>3. CASE r = p
    <3>1. ~InHand(r)' /\ job'[r].pc # "create"
      BY <1>5, <2>3 DEF InHand, Idle
    <3>2. CASE j.created
      <4>1. Unraised(r)' = Unraised(r) \ {j.key}
        BY <1>3, <1>4, <2>3, <3>2 DEF Unraised
      <4>2. j.key \in Unraised(r) /\ IsFiniteSet(Unraised(r))
        BY <1>3, <2>3, <3>2, UnraisedFinite DEF Unraised
      <4>3. Cardinality(Unraised(r)') = Cardinality(Unraised(r)) - 1
        BY <4>1, <4>2, FS_RemoveElement
      <4>4. InHand(r)
        BY <1>1, <2>3, <3>2 DEF InHand
      <4> QED BY <2>1, <3>1, <4>3, <4>4 DEF CounterIsSound
    <3>3. CASE ~j.created
      <4>1. Unraised(r)' = Unraised(r) /\ ~InHand(r)
        BY <1>1, <2>3, <3>3 DEF Unraised, InHand
      <4> QED BY <2>1, <3>1, <4>1 DEF CounterIsSound
    <3> QED BY <3>2, <3>3
  <2> QED BY <2>2, <2>3
<1>11. TicketsAreDrafted' /\ DuplicatesOnlyByRace'
  BY <1>4, <1>6, <1>7, NoNewIssue
<1> QED BY <1>6, <1>8, <1>9, <1>10, <1>11 DEF JobsAreSound, CountersAreSound

LEMMA RejectStep ==
    ASSUME FilingInv, NEW e \in DOMAIN defects, reject_defect(e)
    PROVE  FilingInv'
<1> USE DEF FilingInv
<1> DEFINE row == [defects[e] EXCEPT !.status = "rejected"]
<1>1. /\ issues' = issues /\ job' = job /\ counter' = counter
      /\ defects' = [defects EXCEPT ![e] = row]
  BY DEF reject_defect
<1>2. DOMAIN defects = 1..Len(defects) /\ defects[e] \in Rows
  BY Domains
<1>3. /\ row \in Rows /\ row.run = defects[e].run
      /\ row.classification = defects[e].classification
      /\ row.confidence = defects[e].confidence
      /\ row.fingerprint = defects[e].fingerprint
      /\ row.jira_key = defects[e].jira_key /\ row.status = "rejected"
  BY <1>2 DEF Rows, Statuses
<1> HIDE DEF row
<1>4. /\ defects' \in Seq(Rows) /\ Len(defects') = Len(defects)
      /\ DOMAIN defects' = DOMAIN defects
      /\ defects'[e] = row
      /\ \A d \in DOMAIN defects : d # e => defects'[d] = defects[d]
  BY <1>1, <1>2, <1>3 DEF TypeOK
<1>5. TypeOK'
  BY <1>1, <1>4 DEF TypeOK
<1>6. IssuesAreKept
  BY <1>1, Domains DEF IssuesAreKept
<1>7. RowsAreKept
  BY <1>3, <1>4 DEF RowsAreKept
<1>8. KeysAreSound'
  <2>1. \A d \in DOMAIN defects : Nameless(d) => Nameless(d)'
    BY <1>6, <1>7, NamelessIsKept DEF RowsAreKept
  <2> QED BY <1>1, <1>3, <1>4, <2>1 DEF KeysAreSound
<1>9. ASSUME NEW q \in Actors, job'[q] # Idle PROVE JobIsSound(q)'
  BY <1>1, <1>5, <1>6, <1>7, <1>9, OtherJob DEF JobsAreSound
<1>10. ASSUME NEW r \in Runs PROVE CounterIsSound(r)'
  BY <1>1, OtherCounter DEF CountersAreSound, Unraised
<1>11. TicketsAreDrafted' /\ DuplicatesOnlyByRace'
  BY <1>1, <1>5, <1>6, <1>7, NoNewIssue
<1> QED BY <1>5, <1>8, <1>9, <1>10, <1>11 DEF JobsAreSound, CountersAreSound

LEMMA ResolvedStep ==
    ASSUME FilingInv, NEW e \in DOMAIN issues, issue_resolved(e)
    PROVE  FilingInv'
<1> USE DEF FilingInv
<1> DEFINE i == [issues[e] EXCEPT !.open = FALSE]
<1>1. /\ defects' = defects /\ job' = job /\ counter' = counter
      /\ issues' = [issues EXCEPT ![e] = i]
  BY DEF issue_resolved
<1>2. /\ Len(issues) \in Nat /\ DOMAIN issues = 1..Len(issues) /\ issues[e] \in Tickets
  BY Domains
<1>3. /\ i \in Tickets /\ i.fingerprint = issues[e].fingerprint /\ i.by = issues[e].by
      /\ i.seen = issues[e].seen /\ i.raised = issues[e].raised /\ i.open = FALSE
      /\ i.named = issues[e].named
  BY <1>2 DEF Tickets
<1> HIDE DEF i
<1>4. /\ issues' \in Seq(Tickets) /\ Len(issues') = Len(issues)
      /\ DOMAIN issues' = DOMAIN issues
      /\ issues'[e] = i
      /\ \A k \in DOMAIN issues : k # e => issues'[k] = issues[k]
  BY <1>1, <1>2, <1>3 DEF TypeOK
<1>5. TypeOK'
  BY <1>1, <1>4 DEF TypeOK
<1>6. IssuesAreKept /\ \A k \in DOMAIN issues : issues'[k].raised = issues[k].raised
  BY <1>2, <1>3, <1>4 DEF IssuesAreKept
<1>7. RowsAreKept
  BY <1>1 DEF RowsAreKept
<1>8. KeysAreSound'
  BY <1>1, <1>6, OtherKeys
<1>9. ASSUME NEW q \in Actors, job'[q] # Idle PROVE JobIsSound(q)'
  BY <1>1, <1>5, <1>6, <1>7, <1>9, OtherJob DEF JobsAreSound
<1>10. ASSUME NEW r \in Runs PROVE CounterIsSound(r)'
  <2>1. Unraised(r)' = Unraised(r)
    BY <1>4, <1>6 DEF Unraised, IssuesAreKept
  <2> QED BY <1>1, <2>1, OtherCounter DEF CountersAreSound
<1>11. TicketsAreDrafted' /\ DuplicatesOnlyByRace'
  BY <1>4, <1>5, <1>6, <1>7, NoNewIssue
<1> QED BY <1>5, <1>8, <1>9, <1>10, <1>11 DEF JobsAreSound, CountersAreSound

-----------------------------------------------------------------------------
LEMMA FilingInit == Init => FilingInv
<1> SUFFICES ASSUME Init PROVE FilingInv
  OBVIOUS
<1> USE DEF Init
<1>1. TypeOK
  BY FilingAssumption DEF TypeOK
<1>2. \A p \in Actors : job[p] = Idle
  OBVIOUS
<1>3. KeysAreSound /\ JobsAreSound /\ TicketsAreDrafted /\ DuplicatesOnlyByRace
  BY <1>2 DEF KeysAreSound, JobsAreSound, TicketsAreDrafted, DuplicatesOnlyByRace
<1>4. ASSUME NEW r \in Runs PROVE CounterIsSound(r)
  <2>1. Unraised(r) = {}
    BY DEF Unraised
  <2>2. ~InHand(r) /\ job[r].pc # "create"
    BY <1>2 DEF InHand, Actors, Idle
  <2> QED BY <2>1, <2>2, FS_EmptySet DEF CounterIsSound
<1> QED BY <1>1, <1>3, <1>4 DEF FilingInv, CountersAreSound

LEMMA FilingStep == FilingInv /\ [Next]_vars => FilingInv'
<1> SUFFICES ASSUME FilingInv, [Next]_vars PROVE FilingInv'
  OBVIOUS
<1>1. CASE UNCHANGED vars
  <2> USE <1>1 DEF vars, FilingInv
  <2>1. TypeOK' /\ KeysAreSound'
    BY DEF TypeOK, KeysAreSound, Nameless
  <2>2. JobsAreSound'
    BY DEF JobsAreSound, JobIsSound, Allowed, Nameless
  <2>3. CountersAreSound'
    BY DEF CountersAreSound, CounterIsSound, Unraised, InHand
  <2>4. TicketsAreDrafted' /\ DuplicatesOnlyByRace'
    BY DEF TicketsAreDrafted, DuplicatesOnlyByRace
  <2> QED BY <2>1, <2>2, <2>3, <2>4
<1>2. CASE Next
  BY <1>2, PipelineStep, ApplyStep, SearchStep, CreateStep, AddEvidenceStep,
     PersistFiledStep, RaisesStep, RejectStep, ResolvedStep
  DEF Next, file_or_update
<1> QED BY <1>1, <1>2

\* The inductive invariant holds of every history of drafts and issues.
THEOREM FilingInvariant == Spec => []FilingInv
  BY FilingInit, FilingStep, PTL DEF Spec

\* Nothing is filed past the gates, whatever raises in whichever filing: every
\* issue has its committed draft, an unreviewed one a product defect that was
\* sure enough in that very run, and but for the lost counters of filings that
\* raised no run files more than its cap.
THEOREM FilingIsGatedTheorem == Spec => []FilingIsGated
<1>1. ASSUME FilingInv PROVE FilingIsGated
  <2>1. ASSUME NEW r \in Runs
        PROVE  Cardinality({k \in DOMAIN issues : issues[k].by = r /\ ~issues[k].raised})
                 <= Cap
    <3>1. CounterIsSound(r) /\ counter[r] \in 0..Cap
      BY <1>1 DEF FilingInv, CountersAreSound, TypeOK
    <3>2. Cardinality(Unraised(r)) <= Cap
      BY <3>1, FilingAssumption DEF CounterIsSound
    <3> QED BY <3>2 DEF Unraised
  <2>2. CapHolds
    BY <2>1 DEF CapHolds
  <2> QED BY <1>1, <2>2 DEF FilingInv, FilingIsGated
<1>2. FilingInv => FilingIsGated
  BY <1>1
<1> QED BY <1>2, FilingInvariant, PTL

\* An applied draft names an issue of its own failure, however applies, rejects,
\* partial updates and lost answers interleave, unless Jira created one for it
\* without saying which.
THEOREM AppliedNamesItsIssueTheorem == Spec => []AppliedNamesItsIssue
<1>1. FilingInv => AppliedNamesItsIssue
  BY DEF FilingInv, KeysAreSound, AppliedNamesItsIssue, IssuesOf, Nameless
<1> QED BY <1>1, FilingInvariant, PTL

\* Only two filings at the same time make two open issues of one failure.
THEOREM DuplicatesOnlyByRaceTheorem == Spec => []DuplicatesOnlyByRace
<1>1. FilingInv => DuplicatesOnlyByRace
  BY DEF FilingInv
<1> QED BY <1>1, FilingInvariant, PTL

-----------------------------------------------------------------------------
(* The classifier *)

LEMMA Caution ==
    ASSUME NEW sig, NEW heal, NEW threshold \in Int
    PROVE  CautiousClassification(sig, heal, threshold)
<1> DEFINE ev == gather_evidence(sig, heal)
           r == classify(ev, DEFAULT_WEIGHTS)
           cited == classify_rules(ev).cited
           seen == [ev EXCEPT !.page_loaded = TRUE,
                              !.infra_health = infra_health(sig, TRUE)]
           s == classify(seen, DEFAULT_WEIGHTS)
<1>1. /\ r.classification = classify_rules(ev).classification
      /\ r.confidence \in 0..100
      /\ Cardinality(cited) < 2 => r.confidence <= 60
  BY Confidence
<1>2. r.classification = "infrastructure" <=>
        sig \cap {"infra", "down", "timeout"} # {}
  BY <1>1, Precedence, Zenon
<1>3. r.classification = "automation" =>
        heal \in {"quarantine", "fail_as_defect"}
  BY <1>1, Precedence, Zenon
<1>4. ASSUME threshold > DEFAULT_WEIGHTS.strong, Cardinality(cited) < 2
      PROVE  ~may_autofile(TRUE, threshold, r.confidence)
  <2> HIDE DEF r, cited
  <2>1. DEFAULT_WEIGHTS.strong = 60
    BY DEF DEFAULT_WEIGHTS
  <2>2. r.confidence <= 60 /\ r.confidence \in Int
    BY <1>1, <1>4
  <2>3. ~(r.confidence >= threshold)
    BY <1>4, <2>1, <2>2
  <2> QED BY <2>3 DEF may_autofile
<1>5. ASSUME "timeout" \in sig PROVE ~ev.page_loaded
  <2>1. infra_health(sig, FALSE) = "down"
    BY <1>5 DEF infra_health
  <2> QED BY <2>1 DEF gather_evidence, page_loaded
<1>6. s.classification = "infrastructure" <=> sig \cap {"infra", "down"} # {}
  <2>1. /\ seen.sig = sig /\ seen.page_loaded = TRUE
        /\ seen.infra_health = infra_health(sig, TRUE)
    BY DEF gather_evidence
  <2>2. infra_health(sig, TRUE) = "down" <=> "down" \in sig
    BY DEF infra_health
  <2> HIDE DEF seen
  <2>3. s.classification = classify_rules(seen).classification
    BY Confidence
  <2>4. ASSUME sig \cap {"infra", "down"} # {}
        PROVE  classify_rules(seen).classification = "infrastructure"
    <3>1. "infra" \in seen.sig \/ seen.infra_health = "down"
      BY <2>1, <2>2, <2>4
    <3> QED BY <3>1 DEF classify_rules, Decision
  <2>5. ASSUME sig \cap {"infra", "down"} = {}
        PROVE  classify_rules(seen).classification # "infrastructure"
    <3>1. "infra" \notin seen.sig /\ seen.infra_health # "down" /\ seen.page_loaded
      BY <2>1, <2>2, <2>5
    <3> QED BY <3>1 DEF classify_rules, Decision
  <2> QED BY <2>3, <2>4, <2>5
<1> HIDE DEF ev, r, cited, seen, s
<1> QED BY <1>1, <1>2, <1>3, <1>4, <1>5, <1>6, Zenon
        DEF CautiousClassification, ev, r, cited, seen, s

\* For any error text, heal and thresholds: infrastructure takes precedence, any
\* timeout included, though the rules spare one on a page that loaded; a
\* healed locator is no automation issue, and one signal alone is never filed
\* without a review (classify, may_autofile).
THEOREM ClassificationTheorem == PickSpec => []ClassificationIsCautious
<1>1. ClassificationIsCautious
  <2>1. Thresholds \subseteq Int
    BY AlgorithmsAssumption
  <2> QED BY <2>1, Caution DEF ClassificationIsCautious
<1> QED BY <1>1, PTL
=============================================================================
