------------------------- MODULE DefectClassifier -------------------------
(***************************************************************************)
(* What a failed flow is classified as and how it is recognised again:     *)
(* the evidence gathered from its last result and its heals, the           *)
(* precedence rules, the confidence, the fingerprint and the gate of       *)
(* autonomous filing.                                                      *)
(*                                                                         *)
(* An error text is the set of patterns it matches, what it says (words)   *)
(* and the numbers, ids and times in it (noise).  Every set of patterns    *)
(* occurs; the empty set is the empty text, and a text that matches none   *)
(* of the lists is {"other"}.                                              *)
(***************************************************************************)
EXTENDS Integers, FiniteSets

Patterns == {"infra", "down", "timeout", "locator", "product", "other"}
HealOutcomes == {"auto_heal", "quarantine", "fail_as_defect", "none"}
Classes == {"infrastructure", "automation", "product_defect"}

DEFAULT_WEIGHTS == [strong |-> 60, corroborating |-> 20, conflicting |-> -15]

\* A class and the signals cited for it, each with the class it speaks for.
Decision(c, cited) == [classification |-> c, cited |-> {<<c, s>> : s \in cited}]

infra_health(sig, page_loaded) ==
    CASE sig = {} -> "unknown"
      [] "down" \in sig -> "down"
      [] "timeout" \in sig /\ ~page_loaded -> "down"
      [] OTHER -> "up"

\* The patterns alone decide whether the page is taken to have loaded.
page_loaded(sig) == infra_health(sig, FALSE) # "down"

\* What classify() is given for the last error text and the last heal.
gather_evidence(sig, heal) ==
    [sig |-> sig, page_loaded |-> page_loaded(sig), heal_outcome |-> heal,
     infra_health |-> infra_health(sig, page_loaded(sig))]

\* Mutant: the heal is looked at before the infrastructure is.
classify_rules_heal_first(ev) ==
    IF ev.heal_outcome \in {"fail_as_defect", "quarantine"}
    THEN Decision("automation", {ev.heal_outcome})
    ELSE IF ev.infra_health = "down" \/ "infra" \in ev.sig
    THEN Decision("infrastructure", {"health-down"})
    ELSE Decision("product_defect", {"default"})

\* The precedence: infrastructure, then automation, then product_defect.
classify_rules(ev) ==
    LET down == ev.infra_health = "down"
        loaded == IF ev.page_loaded THEN {"page-loaded"} ELSE {}
        locator == IF "locator" \in ev.sig THEN {"locator-miss"} ELSE {}
        assertion == IF "product" \in ev.sig THEN {"assertion-or-api"} ELSE {}
    IN  CASE "infra" \in ev.sig ->
               Decision("infrastructure", {"error-signature"}
                        \cup IF down THEN {"health-down"} ELSE {})
          [] "infra" \notin ev.sig /\ down ->
               Decision("infrastructure", {"health-down"})
          [] "infra" \notin ev.sig /\ ~down
             /\ "timeout" \in ev.sig /\ ~ev.page_loaded ->
               Decision("infrastructure", {"timeout-never-loaded"})
          [] OTHER ->
               IF ev.heal_outcome \in {"fail_as_defect", "quarantine"}
               THEN Decision("automation",
                             {ev.heal_outcome} \cup locator \cup loaded)
               ELSE Decision("product_defect",
                             IF assertion \cup loaded = {} THEN {"default"}
                             ELSE assertion \cup loaded)

corroboration(d) ==
    LET same == Cardinality({s \in d.cited : s[1] = d.classification})
    IN  IF same = 0 THEN 0 ELSE same - 1

conflict(d) == Cardinality({s \in d.cited : s[1] # d.classification})

clamp(raw) == IF raw < 0 THEN 0 ELSE IF raw > 100 THEN 100 ELSE raw

classify(ev, w) ==
    LET d == classify_rules(ev)
    IN  [classification |-> d.classification,
         confidence |-> clamp(w.strong + w.corroborating * corroboration(d)
                              + w.conflicting * conflict(d))]

\* Numbers, ids and times do not survive the normalisation, words do.
normalize(text) == text.words

fingerprint(cls, text, flow, step) == <<cls, normalize(text), flow, step>>

\* The decision for a failure of flow; the failing step is the element of the
\* last heal.
classify_failure(ev, flow) ==
    LET d == classify(gather_evidence(ev.text.sig, ev.heal), DEFAULT_WEIGHTS)
        step == IF ev.heal = "none" THEN "flow" ELSE ev.element
    IN  [classification |-> d.classification, confidence |-> d.confidence,
         fingerprint |-> fingerprint(d.classification, ev.text, flow, step)]

may_autofile(enabled, threshold, confidence) ==
    enabled /\ confidence >= threshold

\* A failure is put down to the infrastructure exactly when its text has an
\* infrastructure or network pattern or any timeout.  The rules themselves spare
\* a timeout on a page that loaded, as infra_health.py and classifier.py say, but
\* they are never told of one: gather_evidence takes every timeout for a page that
\* never loaded.  A healed locator never makes an automation issue, and with a
\* threshold above the weight of one signal only a failure with two agreeing
\* ones is filed without a review (classify, _page_loaded, may_autofile).
CautiousClassification(sig, heal, threshold) ==
    LET ev == gather_evidence(sig, heal)
        r == classify(ev, DEFAULT_WEIGHTS)
        cited == classify_rules(ev).cited
        seen == [ev EXCEPT !.page_loaded = TRUE,
                           !.infra_health = infra_health(sig, TRUE)]
    IN /\ "timeout" \in sig => ~ev.page_loaded
       /\ classify(seen, DEFAULT_WEIGHTS).classification = "infrastructure" <=>
            sig \cap {"infra", "down"} # {}
       /\ r.classification = "infrastructure" <=>
            sig \cap {"infra", "down", "timeout"} # {}
       /\ r.classification = "automation" =>
            heal \in {"quarantine", "fail_as_defect"}
       /\ r.confidence \in 0..100
       /\ threshold > DEFAULT_WEIGHTS.strong /\ Cardinality(cited) < 2 =>
            ~may_autofile(TRUE, threshold, r.confidence)
===========================================================================
