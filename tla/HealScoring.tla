---------------------------- MODULE HealScoring ---------------------------
(***************************************************************************)
(* How a candidate element is compared with the one a locator lost, and    *)
(* what the heal ledger says of an element afterwards.  Scores are         *)
(* fractions <<numerator, denominator>> with a positive denominator.       *)
(*                                                                         *)
(* An element has a set of attribute tokens, a tag, an xpath (a sequence   *)
(* of segments), a role, an accessible name, a box and a locator chain,    *)
(* each of which may be missing.                                           *)
(***************************************************************************)
EXTENDS Integers, Sequences, FiniteSets

CONSTANTS
    Missing,            \* no tag, role, name or box
    NameRatio(_, _)     \* difflib's ratio of two different names

Zero == <<0, 1>>
One == <<1, 1>>
Plus(x, y) == <<x[1] * y[2] + y[1] * x[2], x[2] * y[2]>>
Times(x, y) == <<x[1] * y[1], x[2] * y[2]>>
Leq(x, y) == x[1] * y[2] <= y[1] * x[2]
Clamp01(x) == IF Leq(x, Zero) THEN Zero ELSE IF Leq(One, x) THEN One ELSE x
Lower(a, b) == IF a < b THEN a ELSE b
Higher(a, b) == IF a < b THEN b ELSE a

---------------------------------------------------------------------------
_jaccard(a, b) ==
    IF a \cup b = {} THEN Zero
    ELSE <<Cardinality(a \cap b), Cardinality(a \cup b)>>

\* Shared leading segments over the longer path.
_xpath_overlap(a, b) ==
    LET shared == {n \in 0..Lower(Len(a), Len(b)) :
                     \A i \in 1..n : a[i] = b[i]}
    IN IF a = <<>> \/ b = <<>> THEN Zero
       ELSE <<CHOOSE n \in shared : \A m \in shared : m <= n,
              Higher(Len(a), Len(b))>>

same(x, y) == IF x # Missing /\ x = y THEN One ELSE Zero

\* Mutant: a component neither element has still weighs.
dom_sim_all(c, b) ==
    Clamp01(Plus(Plus(Times(<<5, 10>>, _jaccard(c.attrs, b.attrs)),
                      Times(<<2, 10>>, same(c.tag, b.tag))),
                 Times(<<3, 10>>, _xpath_overlap(c.xpath, b.xpath))))

\* The blend is over the components that either element has.
dom_sim(c, b) ==
    LET weight(has, w) == IF has THEN w ELSE 0
        jaccard == weight(c.attrs \cup b.attrs # {}, 5)
        tag == weight({c.tag, b.tag} # {Missing}, 2)
        xpath == weight(c.xpath # <<>> \/ b.xpath # <<>>, 3)
        total == jaccard + tag + xpath
        raw == Plus(Plus(Times(<<jaccard, 1>>, _jaccard(c.attrs, b.attrs)),
                         Times(<<tag, 1>>, same(c.tag, b.tag))),
                    Times(<<xpath, 1>>, _xpath_overlap(c.xpath, b.xpath)))
    IN IF total = 0 THEN Zero ELSE Clamp01(Times(raw, <<1, total>>))

a11y_sim(c, b) ==
    LET ratio == CASE c.name = Missing /\ b.name = Missing -> Zero
                   [] c.name = b.name /\ c.name # Missing -> One
                   [] OTHER -> NameRatio(c.name, b.name)
    IN Clamp01(Plus(Times(<<1, 2>>, same(c.role, b.role)),
                    Times(<<1, 2>>, ratio)))

TierRank == [xpath |-> 1, text |-> 2, role |-> 3, aria |-> 4, testid |-> 5]

\* The tier of the candidate's top locator, when some snapshot of the history
\* had the same one on top.
history_sim(chain, history) ==
    IF chain # <<>> /\ \E h \in history : h # <<>> /\ h[1] = chain[1]
      THEN <<TierRank[chain[1][1]], 5>>
      ELSE Zero

---------------------------------------------------------------------------
overlap(a, aw, b, bw) == Higher(0, Lower(a + aw, b + bw) - Higher(a, b))
area(a) == a.width * a.height

\* Mutant: the intersection is not taken off the union.
iou_sum(a, b) ==
    IF a = Missing \/ b = Missing THEN Zero
    ELSE LET inter == overlap(a.x, a.width, b.x, b.width)
                      * overlap(a.y, a.height, b.y, b.height)
             union == area(a) + area(b)
         IN IF union > 0 THEN <<inter, union>> ELSE Zero

iou(a, b) ==
    IF a = Missing \/ b = Missing THEN Zero
    ELSE LET inter == overlap(a.x, a.width, b.x, b.width)
                      * overlap(a.y, a.height, b.y, b.height)
             union == area(a) + area(b) - inter
         IN IF union > 0 THEN <<inter, union>> ELSE Zero

size_proximity(a, b) ==
    IF a = Missing \/ b = Missing THEN Zero
    ELSE IF area(a) <= 0 \/ area(b) <= 0 THEN Zero
    ELSE <<Lower(area(a), area(b)), Higher(area(a), area(b))>>

visual(a, b) ==
    Clamp01(Plus(Times(<<1, 2>>, iou(a, b)),
                 Times(<<1, 2>>, size_proximity(a, b))))

score_candidate(c, b, history) ==
    [dom |-> dom_sim(c, b), visual |-> visual(c.bbox, b.bbox),
     a11y |-> a11y_sim(c, b), history |-> history_sim(c.chain, history)]

HealWeights == [dom |-> 3, visual |-> 2, a11y |-> 3, history |-> 2]

confidence(s, w) ==
    LET total == w.dom + w.visual + w.a11y + w.history
        part(k, x) == Times(<<k, 1>>, x)
        raw == Plus(Plus(part(w.dom, s.dom), part(w.visual, s.visual)),
                    Plus(part(w.a11y, s.a11y), part(w.history, s.history)))
    IN Clamp01(Times(raw, <<1, IF total = 0 THEN 1 ELSE total>>))

\* Thresholds in hundredths.
heal_outcome(conf, live_match_count, high, med) ==
    CASE live_match_count # 1 -> "fail_as_defect"
      [] live_match_count = 1 /\ Leq(<<high, 100>>, conf) -> "auto_heal"
      [] live_match_count = 1 /\ ~Leq(<<high, 100>>, conf)
         /\ Leq(<<med, 100>>, conf) -> "quarantine"
      [] OTHER -> "fail_as_defect"

---------------------------------------------------------------------------
RowsWith(rows, P(_)) == Cardinality({i \in DOMAIN rows : P(rows[i])})

healed(rows) ==
    RowsWith(rows, LAMBDA r : r.outcome \in {"auto_heal", "applied"}
                          /\ r.reviewed_outcome # "rejected")

\* The two rates of one element's rows, which there is at least one of.
per_element_heal_stats(rows) ==
    LET autos == RowsWith(rows, LAMBDA r : r.outcome = "auto_heal")
        rejected == RowsWith(rows, LAMBDA r : r.reviewed_outcome = "rejected")
    IN [heal_success_rate |-> <<healed(rows), Len(rows)>>,
        false_heal_rate |-> IF autos = 0 THEN Zero ELSE <<rejected, autos>>]

---------------------------------------------------------------------------
(* What these are for.                                                     *)

Boxes == [x : Int, y : Int, width : Nat, height : Nat]

\* An element as the browser reports it, with a name from names.
IsElement(e, names) ==
    /\ IsFiniteSet(e.attrs)
    /\ e.xpath \in Seq(Nat)
    /\ e.name \in names
    /\ e.bbox = Missing \/ e.bbox \in Boxes

\* difflib's ratio of two names lies in 0..1, and is 1 for no two different ones;
\* a missing one has nothing in common with the other.  It is not symmetric:
\* "tide" against "diet" is 0.25, "diet" against "tide" 0.5.
RatioIsSound(names) ==
    \A m, n \in names :
      LET r == NameRatio(m, n) IN
      /\ r \in Nat \X (Nat \ {0}) /\ r[1] <= r[2]
      /\ m # n => r[1] < r[2]
      /\ Missing \in {m, n} => r[1] = 0

\* Each similarity of two elements lies in 0..1 and is 1 exactly when they agree
\* on everything it compares and there is something to compare; for a11y_sim
\* both the role and the name must be there.  Those of structure and of look do
\* not depend on which element is the baseline; a11y_sim does, as the ratio of
\* the names is not symmetric (dom_sim, visual, a11y_sim).
SoundSimilarity(c, b) ==
    LET dom == dom_sim(c, b)
        look == visual(c.bbox, b.bbox)
        voice == a11y_sim(c, b)
        Certain(x) == x[1] = x[2]
        Features(e) == <<e.attrs, e.tag, e.xpath>>
    IN /\ \A x \in {dom, look, voice} : 0 <= x[1] /\ x[1] <= x[2]
       /\ dom = dom_sim(b, c) /\ look = visual(b.bbox, c.bbox)
       /\ Certain(dom) <=> /\ Features(c) = Features(b)
                           /\ Features(c) # <<{}, Missing, <<>>>>
       /\ Certain(look) <=> /\ c.bbox = b.bbox
                            /\ c.bbox # Missing /\ area(c.bbox) > 0
       /\ Certain(voice) <=> /\ c.role = b.role /\ c.role # Missing
                             /\ c.name = b.name /\ c.name # Missing

\* With the default weights and a threshold above a tenth an element that shares
\* nothing with the lost one but the size of its box, is not where that one
\* was and bears another role is never healed to without a review
\* (score_candidate, confidence, heal_outcome).
NeverHealedBySize(c, b, high, med) ==
    LET score == confidence(score_candidate(c, b, {}), HealWeights)
    IN (/\ c.attrs \cap b.attrs = {}
        /\ c.tag # b.tag \/ c.tag = Missing
        /\ c.xpath = <<>> \/ b.xpath = <<>>
        /\ c.role # b.role \/ c.role = Missing
        /\ c.name = Missing \/ b.name = Missing
        /\ iou(c.bbox, b.bbox)[1] = 0
        /\ high > 10)
       => heal_outcome(score, 1, high, med) # "auto_heal"

\* A heal that a reviewer rejected is not a success: successes and rejections
\* of an element never add up to more than its heals.  The false-heal rate is a
\* proportion only when nothing but auto-heals was rejected: a rejected
\* quarantine, or an auto-heal that was applied before, is in its numerator and
\* not in its denominator, and the rate may exceed 1 (per_element_heal_stats).
NoRejectedSuccess(rows) ==
    LET stats == per_element_heal_stats(rows)
        rejected == {i \in DOMAIN rows :
                       rows[i].reviewed_outcome = "rejected"}
    IN /\ stats.heal_success_rate[1] + Cardinality(rejected)
            <= stats.heal_success_rate[2]
       /\ (\A i \in rejected : rows[i].outcome = "auto_heal") =>
            stats.false_heal_rate[1] <= stats.false_heal_rate[2]
===========================================================================
