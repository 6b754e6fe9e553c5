--------------------------- MODULE MCHealReview ---------------------------
(* Small instances of HealReview. *)
EXTENDS HealReview, TLC

CONSTANTS f1, q1, a1, a2, l1, l2, l3, k1, k2, k3, c1, c2

\* Two pages have an element named a1; the name a2 is too long to be kept.
TwoPages == (l1 :> a1) @@ (l2 :> a1) @@ (l3 :> a2)
FirstOfTwo == (a1 :> l1) @@ (a2 :> l3)
OnePerLine == (k1 :> l1) @@ (k2 :> l2) @@ (k3 :> l3)

\* Sure and unique, sure but ambiguous, and worth a review.
SmallScores == {<<15, 1>>, <<15, 2>>, <<10, 1>>}

Symmetry == Permutations({c1, c2})
===========================================================================
