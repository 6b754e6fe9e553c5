----------------------------- MODULE FlowRisk -----------------------------
(***************************************************************************)
(* How a mined journey is rated: the signals read off its pages and edges, *)
(* and the score and tier made of them.  A journey is the sequence of its  *)
(* pages and the sequence of the types of the edges between them.          *)
(***************************************************************************)
EXTENDS Integers, Sequences, FiniteSets

StateChanges == {"Submits", "Creates", "Updates", "Deletes"}
Count(s, S) == Cardinality({i \in DOMAIN s : s[i] \in S})

extract_signals(g, f) ==
    [has_destructive |-> \E i \in DOMAIN f.node_fps :
                          f.node_fps[i] \in g.destructive,
     state_change_edges |-> Count(f.edge_types, StateChanges),
     auth_gated_steps |-> Count(f.node_fps, g.auth_gated),
     form_count |-> Count(f.node_fps, g.form),
     path_length |-> Len(f.node_fps)]

clamp100(x) == IF x < 0 THEN 0 ELSE IF x > 100 THEN 100 ELSE x

RiskWeights == [destructive_action |-> 40, per_state_change |-> 8,
                auth_gated_step |-> 6, per_form |-> 5, depth |-> 3]

risk_score(s, w) ==
    clamp100((IF s.has_destructive THEN w.destructive_action ELSE 0)
                  + w.per_state_change * s.state_change_edges
                  + w.auth_gated_step * s.auth_gated_steps
                  + w.per_form * s.form_count
                  + w.depth * s.path_length)

risk_tier(score) ==
    IF score >= 67 THEN "high" ELSE IF score >= 34 THEN "medium" ELSE "low"

---------------------------------------------------------------------------
(* What these are for.                                                     *)

Begins(s, t) == Len(s) <= Len(t) /\ \A i \in DOMAIN s : s[i] = t[i]

\* A journey that goes on from another is never rated below it, and one with a
\* destructive page never ends up in the low tier (extract_signals,
\* risk_score, risk_tier).
RiskGrows(g, f, h) ==
    LET Rating(x) == risk_score(extract_signals(g, x), RiskWeights)
    IN /\ Rating(f) \in 0..100
       /\ Begins(f.node_fps, h.node_fps) /\ Begins(f.edge_types, h.edge_types)
          => Rating(f) <= Rating(h)
       /\ (\E i \in DOMAIN f.node_fps : f.node_fps[i] \in g.destructive)
          => risk_tier(Rating(f)) # "low"
===========================================================================
