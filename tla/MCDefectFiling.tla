-------------------------- MODULE MCDefectFiling --------------------------
(* Small instances of DefectFiling. *)
EXTENDS DefectFiling

CONSTANTS q1, r1, f1, n1, n2

Text(sig, w, n) == [sig |-> sig, words |-> w, noise |-> n]
Failure(text, heal, artifacts) ==
    [text |-> text, heal |-> heal, element |-> "button", artifacts |-> artifacts]

\* One assertion failure twice, differing in its numbers and with and without
\* artifacts, and an unclear one that is not sure enough to be filed alone.
SmallEvidences ==
    {Failure(Text({"product"}, "w", n1), "none", 0),
     Failure(Text({"product"}, "w", n2), "none", 1),
     Failure(Text({"other"}, "v", n1), "auto_heal", 0)}
===========================================================================
