---------------------------- MODULE MCExecEngine ----------------------------
(* Small instances of ExecEngine: one or two runs of one flow each. *)
EXTENDS ExecEngine, TLC

CONSTANTS r1, r2, j1, j2

\* One run with a single flow.
MCRunOfOne == (j1 :> r1)

\* Two runs with one flow each.
MCRunOfTwo == (j1 :> r1) @@ (j2 :> r2)

\* No locator was healed, or some locator was and waits for a review.
NoJournal == {{}}
SomeJournals == {{}, {"quarantine"}}
=============================================================================
