------------------------- MODULE MCScenarioReview -------------------------
(* Small instances of ScenarioReview. *)
EXTENDS ScenarioReview, TLC

CONSTANTS q1, q2, t1, t2, bad, a, b

\* Requests are alike, and so are the two texts that lint.
Symmetry == Permutations({q1, q2}) \cup Permutations({t1, t2})
=============================================================================
