---------------------------- MODULE Algorithms ----------------------------
(***************************************************************************)
(* The pure algorithms of the platform, applied to inputs.  A behaviour    *)
(* picks one input of one kind; the invariants say what the code computes  *)
(* for it.  The sets of inputs are parameters: TLC is given small ones,    *)
(* the proofs are for any.  The graphs and the rankings are inputs of      *)
(* FlowMining, about which MCAlgorithms states what there is to say.       *)
(***************************************************************************)
EXTENDS DefectClassifier, HealScoring, Reports, Sequences

CONSTANTS
    Graphs, Rankings,   \* explored graphs; risks and results of flows
    Elements, Names,    \* elements of pages, and their accessible names
    HealLedgers,        \* the heal rows of one element
    Databases, Mined,   \* rows of the platform, and the journeys mined
    Truths,             \* ground truths
    Discoveries,        \* pages an exploration may discover
    Soaks,              \* [outcomes, n, buggy, bug_url] of an acceptance
    Thresholds          \* settings in hundredths

HealRows == [outcome : {"auto_heal", "quarantine", "applied", "fail_as_defect"},
             reviewed_outcome : {None, "rejected"}]

ASSUME AlgorithmsAssumption ==
    /\ RatioIsSound(Names)
    /\ \A e \in Elements : IsElement(e, Names)
    /\ HealLedgers \subseteq Seq(HealRows)
    /\ \A db \in Databases : SoundDatabase(db)
    /\ \A t \in Truths : IsFiniteSet(t.pages) /\ IsFiniteSet(t.flows)
    /\ \A s \in Soaks : /\ s.outcomes \in Seq(BOOLEAN) /\ s.buggy \in BOOLEAN
                        /\ s.bug_url \in BOOLEAN
                        /\ s.n \in Nat /\ s.n <= Len(s.outcomes)
    /\ Thresholds \subseteq Int

VARIABLES
    kind,    \* which algorithm the input is for
    input

pickVars == <<kind, input>>

PickInit == kind = "none" /\ input = None

Pick(k, S) == kind = "none" /\ kind' = k /\ input' \in S

PickGraph == Pick("graph", Graphs)
PickRanking == Pick("ranking", Rankings)
PickElements == Pick("elements", Elements \X Elements)
PickHealRows == Pick("heals", HealLedgers)
PickDatabase == Pick("database", Databases)
PickCoverage == Pick("coverage", Truths \X SUBSET Discoveries)
PickSoak == Pick("soak", Soaks)
PickFailure == Pick("failure", (SUBSET Patterns) \X HealOutcomes)

PickNext == \/ PickGraph \/ PickRanking \/ PickElements \/ PickHealRows
            \/ PickDatabase \/ PickCoverage \/ PickSoak \/ PickFailure

PickSpec == PickInit /\ [][PickNext]_pickVars

---------------------------------------------------------------------------
(* What the algorithms compute.                                            *)

\* Similarities lie in 0..1 and are certain exactly on agreement; those of
\* structure and of look are symmetric (dom_sim, visual, a11y_sim).
SimilarityIsSound == kind = "elements" => SoundSimilarity(input[1], input[2])

\* The size of a box alone never heals without a review (score_candidate,
\* confidence, heal_outcome).
SizeAloneNeverHeals ==
    kind = "elements" =>
      \A high, med \in Thresholds :
        NeverHealedBySize(input[1], input[2], high, med)

\* A heal that a reviewer rejected is not a success, and the false-heal rate is a
\* proportion as long as only auto-heals are rejected (per_element_heal_stats).
RejectedIsNoSuccess == kind = "heals" => NoRejectedSuccess(input)

\* The scores behind a heal and its success rate are sound: how alike two
\* elements are, what that is enough for, and what a reviewer's rejection does
\* to the rates.
HealScoresAreSound ==
    SimilarityIsSound /\ SizeAloneNeverHeals /\ RejectedIsNoSuccess

\* The chain of a defect is about its own run and flow, holds the defect and
\* the result it came from, and is part of the chain of its run (chain,
\* _resolve_keys).
ChainsNest == kind = "database" => ChainsNestIn(input, Mined)

\* Whichever of the documents the index held before, a backfill leaves the same
\* ones: each execution as its write indexed it, and each failure without its
\* text, so that search() finds every execution and no failure (backfill).
BackfillLosesOnlyFailureText ==
    kind = "database" =>
      \A K \in SUBSET Ids(input) :
        LosesOnlyFailureText(input, [k \in K |-> {"error_text"}])

\* Finding more pages never lowers the coverage, a flow is covered only when
\* every one of its pages was found, and pages none of which is in the ground
\* truth are a measured zero (compute_coverage).
CoverageIsExact ==
    kind = "coverage" =>
      \A p \in Discoveries : ExactCoverage(input[1], input[2], p)

\* An accepted spec was green in every one of the runs asked for and fails
\* against the seeded bug, whose url is set (accept_spec, run_stability).
AcceptedIsStable ==
    kind = "soak" =>
      StableIfAccepted(input.outcomes, input.n, input.buggy, input.bug_url)

\* Coverage and acceptance claim no more than the pages found and the soak bear
\* out.
ReportsAreExact == CoverageIsExact /\ AcceptedIsStable

\* Infrastructure, which any timeout is taken for, wins over every other signal,
\* a healed locator never makes an automation issue, and only a failure with
\* two agreeing signals is confident enough to be filed without a review
\* (classify, gather_evidence, may_autofile).
ClassificationIsCautious ==
    kind = "failure" =>
      \A threshold \in Thresholds :
        CautiousClassification(input[1], input[2], threshold)
===========================================================================
