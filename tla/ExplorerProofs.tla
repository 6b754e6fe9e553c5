--------------------------- MODULE ExplorerProofs ---------------------------
(***************************************************************************)
(* Proofs about Explorer, for every web application, budget and bound: an  *)
(* exploration keeps its caps and its gates, loses no link, heeds a stop   *)
(* and leaves records that agree.                                          *)
(***************************************************************************)
EXTENDS Explorer, Integers, FiniteSetTheorems, WellFoundedInduction, TLAPS

\* The places before the graph has ended.
Loop == Nodes \cup {"queued", "login"}

\* The choice is an element of the page the browser is on, and so is all of a
\* menu that is about to be chosen from.
ChoiceIsHere ==
    /\ pending \in 0..Len(Elements[page])
    /\ pc = "decide" =>
         \A k \in 1..Len(menu) : menu[k] \in 1..Len(Elements[page])

\* What waits for navigate is a link that passed the gates.
LinkIsAllowed ==
    pc \in Loop \ {"act"} /\ pending # 0 =>
        /\ At(pending) \in clicked /\ ~is_destructive(At(pending))
        /\ At(pending).url \in Allowed

MenuInv == ChoiceIsHere /\ LinkIsAllowed

\* Only offered links of the target's own origin are queued.
FrontierIsOwn == Entries \subseteq InBase \cap offered

\* What RequestsAreJustified says of one page.
Justified(u) ==
    \/ u \in offered \cap InBase
    \/ \E e \in clicked : e.url = u /\ ~is_destructive(e) /\ u \in Allowed

LinkInv == FrontierIsOwn /\ LinksAreNotLost /\ RequestsAreJustified

\* As long as the loop goes on there is budget left for one more iteration.
BudgetLeft ==
    pc \in Loop =>
        /\ step = 0 \/ step < max_steps
        /\ depth = 0 \/ depth < max_depth
        /\ \A f \in Fps : seen[f] <= max_revisits

BudgetInv == CapsHold /\ BudgetLeft

\* An iteration that ended after the stop is the last: the flag is up and is
\* about to be read.
StopIsDue == pc \in Loop /\ afterStop # 0 => cancel /\ pc = "check_cancel"

StopInv == StopIsPrompt /\ StopIsDue

\* The loop goes on only without a reason, but for a refused decision, and
\* without a terminal event.
LoopHasNoReason ==
    /\ pc \in Loop => frame = "none" /\ reason \in {"none", "budget"}
    /\ pc \in Loop \ {"act", "persist", "converge"} => reason = "none"

\* From the end of the loop to the end of a passed run the terminal event, if
\* there was one and it got through, has the reason.
PassedIsTold ==
    pc \in {"ended", "passing"} \/ (pc \in {"reason", "done"} /\ status = "passed") =>
        /\ reason \notin {"none", "failed"}
        /\ frame = reason \/ (frame = "none" /\ (frameLost \/ reason = "stopped"))

\* The reason is recorded last, after the status it belongs to.
ReasonIsLast ==
    /\ pc \in {"reason", "done"} => status \in {"passed", "failed"}
    /\ pc \in {"reason", "done"} /\ status = "failed" => reason = "failed"
    /\ pc = "done" => recorded = reason
    /\ pc # "done" => recorded = "none"

ReasonIsTold ==
    /\ LoopHasNoReason
    /\ PassedIsTold
    /\ ReasonIsLast
    /\ frame \notin {"stopped", "failed"}

\* The state that is about to be counted has been written.
CountedIsWritten == pc = "converge" => FpKey(fp) \in kgPages

GraphInv == GraphIsClosed /\ CountedIsWritten

ExplorerInv ==
    /\ TypeOK
    /\ MenuInv
    /\ LinkInv
    /\ BudgetInv
    /\ StopInv
    /\ ReasonIsTold
    /\ GraphInv

USE DEF runVars, browserVars, menuVars, ledgerVars, kgVars, frameVars

-----------------------------------------------------------------------------
LEMMA ExploreStopStep ==
    ASSUME ExplorerInv, explore_stop
    PROVE  ExplorerInv'
<1> USE DEF ExplorerInv, explore_stop
<1>1. TypeOK'
  BY ExplorerAssumption DEF TypeOK, Places, Nodes, NoneOr, STOP_REASONS
<1>2. MenuInv'
  BY DEF MenuInv, ChoiceIsHere, LinkIsAllowed, At, Loop, Nodes
<1>3. LinkInv'
  BY DEF LinkInv, FrontierIsOwn, LinksAreNotLost, RequestsAreJustified, Entries, is_destructive, is_off_origin
<1>4. BudgetInv'
  BY DEF BudgetInv, BudgetLeft, CapsHold, Loop, Nodes
<1>5. StopInv'
  BY DEF StopInv, StopIsPrompt, StopIsDue, Loop, Nodes
<1>6. ReasonIsTold'
  BY DEF ReasonIsTold, LoopHasNoReason, PassedIsTold, ReasonIsLast, Loop, Nodes
<1>7. GraphInv'
  BY DEF GraphInv, GraphIsClosed, CountedIsWritten
<1> QED BY <1>1, <1>2, <1>3, <1>4, <1>5, <1>6, <1>7

LEMMA RunExploreStep ==
    ASSUME ExplorerInv, run_explore
    PROVE  ExplorerInv'
<1> USE DEF ExplorerInv, run_explore
<1>1. TypeOK'
  BY ExplorerAssumption DEF TypeOK, Places, Nodes, NoneOr, STOP_REASONS
<1>2. MenuInv'
  BY DEF MenuInv, ChoiceIsHere, LinkIsAllowed, At, Loop, Nodes
<1>3. LinkInv'
  BY DEF LinkInv, FrontierIsOwn, LinksAreNotLost, RequestsAreJustified, Entries, is_destructive, is_off_origin
<1>4. BudgetInv'
  BY DEF BudgetInv, BudgetLeft, CapsHold, Loop, Nodes
<1>5. StopInv'
  BY DEF StopInv, StopIsPrompt, StopIsDue, Loop, Nodes
<1>6. ReasonIsTold'
  BY DEF ReasonIsTold, LoopHasNoReason, PassedIsTold, ReasonIsLast, Loop, Nodes
<1>7. GraphInv'
  BY DEF GraphInv, GraphIsClosed, CountedIsWritten
<1> QED BY <1>1, <1>2, <1>3, <1>4, <1>5, <1>6, <1>7

LEMMA LoginStep ==
    ASSUME ExplorerInv, login
    PROVE  ExplorerInv'
<1> USE DEF ExplorerInv, login
<1>1. TypeOK'
  BY ExplorerAssumption DEF TypeOK, Places, Nodes, NoneOr, STOP_REASONS
<1>2. MenuInv'
  BY DEF MenuInv, ChoiceIsHere, LinkIsAllowed, At, Loop, Nodes
<1>3. LinkInv'
  BY DEF LinkInv, FrontierIsOwn, LinksAreNotLost, RequestsAreJustified, Entries, is_destructive, is_off_origin
<1>4. BudgetInv'
  BY DEF BudgetInv, BudgetLeft, CapsHold, Loop, Nodes
<1>5. StopInv'
  BY DEF StopInv, StopIsPrompt, StopIsDue, Loop, Nodes
<1>6. ReasonIsTold'
  BY DEF ReasonIsTold, LoopHasNoReason, PassedIsTold, ReasonIsLast, Loop, Nodes
<1>7. GraphInv'
  BY DEF GraphInv, GraphIsClosed, CountedIsWritten
<1> QED BY <1>1, <1>2, <1>3, <1>4, <1>5, <1>6, <1>7

LEMMA CheckCancelStep ==
    ASSUME ExplorerInv, check_cancel
    PROVE  ExplorerInv'
<1> USE DEF ExplorerInv, check_cancel
<1>1. TypeOK'
  BY ExplorerAssumption DEF TypeOK, Places, Nodes, NoneOr, STOP_REASONS
<1>2. MenuInv'
  BY DEF MenuInv, ChoiceIsHere, LinkIsAllowed, At, Loop, Nodes
<1>3. LinkInv'
  BY DEF LinkInv, FrontierIsOwn, LinksAreNotLost, RequestsAreJustified, Entries, is_destructive, is_off_origin
<1>4. BudgetInv'
  BY DEF BudgetInv, BudgetLeft, CapsHold, Loop, Nodes
<1>5. StopInv'
  BY DEF StopInv, StopIsPrompt, StopIsDue, Loop, Nodes
<1>6. ReasonIsTold'
  BY DEF ReasonIsTold, LoopHasNoReason, PassedIsTold, ReasonIsLast, Loop, Nodes
<1>7. GraphInv'
  BY DEF GraphInv, GraphIsClosed, CountedIsWritten
<1> QED BY <1>1, <1>2, <1>3, <1>4, <1>5, <1>6, <1>7

LEMMA PerceiveStep ==
    ASSUME ExplorerInv, perceive
    PROVE  ExplorerInv'
<1> USE DEF ExplorerInv, perceive
<1>1. TypeOK'
  BY ExplorerAssumption DEF TypeOK, Places, Nodes, NoneOr, STOP_REASONS
<1>2. MenuInv'
  BY DEF MenuInv, ChoiceIsHere, LinkIsAllowed, At, Loop, Nodes
<1>3. LinkInv'
  BY DEF LinkInv, FrontierIsOwn, LinksAreNotLost, RequestsAreJustified, Entries, is_destructive, is_off_origin
<1>4. BudgetInv'
  BY DEF BudgetInv, BudgetLeft, CapsHold, Loop, Nodes
<1>5. StopInv'
  BY DEF StopInv, StopIsPrompt, StopIsDue, Loop, Nodes
<1>6. ReasonIsTold'
  BY DEF ReasonIsTold, LoopHasNoReason, PassedIsTold, ReasonIsLast, Loop, Nodes
<1>7. GraphInv'
  BY DEF GraphInv, GraphIsClosed, CountedIsWritten
<1> QED BY <1>1, <1>2, <1>3, <1>4, <1>5, <1>6, <1>7

LEMMA DecideRefusedStep ==
    ASSUME ExplorerInv, decide_refused
    PROVE  ExplorerInv'
<1> USE DEF ExplorerInv, decide_refused
<1>1. TypeOK'
  BY ExplorerAssumption DEF TypeOK, Places, Nodes, NoneOr, STOP_REASONS
<1>2. MenuInv'
  BY DEF MenuInv, ChoiceIsHere, LinkIsAllowed, At, Loop, Nodes
<1>3. LinkInv'
  BY DEF LinkInv, FrontierIsOwn, LinksAreNotLost, RequestsAreJustified, Entries, is_destructive, is_off_origin
<1>4. BudgetInv'
  BY DEF BudgetInv, BudgetLeft, CapsHold, Loop, Nodes
<1>5. StopInv'
  BY DEF StopInv, StopIsPrompt, StopIsDue, Loop, Nodes
<1>6. ReasonIsTold'
  BY DEF ReasonIsTold, LoopHasNoReason, PassedIsTold, ReasonIsLast, Loop, Nodes
<1>7. GraphInv'
  BY DEF GraphInv, GraphIsClosed, CountedIsWritten
<1> QED BY <1>1, <1>2, <1>3, <1>4, <1>5, <1>6, <1>7

LEMMA DecideNothingStep ==
    ASSUME ExplorerInv, decide_nothing
    PROVE  ExplorerInv'
<1> USE DEF ExplorerInv, decide_nothing
<1>1. TypeOK'
  BY ExplorerAssumption DEF TypeOK, Places, Nodes, NoneOr, STOP_REASONS
<1>2. MenuInv'
  BY DEF MenuInv, ChoiceIsHere, LinkIsAllowed, At, Loop, Nodes
<1>3. LinkInv'
  BY DEF LinkInv, FrontierIsOwn, LinksAreNotLost, RequestsAreJustified, Entries, is_destructive, is_off_origin
<1>4. BudgetInv'
  BY DEF BudgetInv, BudgetLeft, CapsHold, Loop, Nodes
<1>5. StopInv'
  BY DEF StopInv, StopIsPrompt, StopIsDue, Loop, Nodes
<1>6. ReasonIsTold'
  BY DEF ReasonIsTold, LoopHasNoReason, PassedIsTold, ReasonIsLast, Loop, Nodes
<1>7. GraphInv'
  BY DEF GraphInv, GraphIsClosed, CountedIsWritten
<1> QED BY <1>1, <1>2, <1>3, <1>4, <1>5, <1>6, <1>7

LEMMA ActNothingStep ==
    ASSUME ExplorerInv, act_nothing
    PROVE  ExplorerInv'
<1> USE DEF ExplorerInv, act_nothing
<1>1. TypeOK'
  BY ExplorerAssumption DEF TypeOK, Places, Nodes, NoneOr, STOP_REASONS
<1>2. MenuInv'
  BY DEF MenuInv, ChoiceIsHere, LinkIsAllowed, At, Loop, Nodes
<1>3. LinkInv'
  BY DEF LinkInv, FrontierIsOwn, LinksAreNotLost, RequestsAreJustified, Entries, is_destructive, is_off_origin
<1>4. BudgetInv'
  BY DEF BudgetInv, BudgetLeft, CapsHold, Loop, Nodes
<1>5. StopInv'
  BY DEF StopInv, StopIsPrompt, StopIsDue, Loop, Nodes
<1>6. ReasonIsTold'
  BY DEF ReasonIsTold, LoopHasNoReason, PassedIsTold, ReasonIsLast, Loop, Nodes
<1>7. GraphInv'
  BY DEF GraphInv, GraphIsClosed, CountedIsWritten
<1> QED BY <1>1, <1>2, <1>3, <1>4, <1>5, <1>6, <1>7

LEMMA ActRefusesStep ==
    ASSUME ExplorerInv, act_refuses
    PROVE  ExplorerInv'
<1> USE DEF ExplorerInv, act_refuses
<1>1. TypeOK'
  BY ExplorerAssumption DEF TypeOK, Places, Nodes, NoneOr, STOP_REASONS
<1>2. MenuInv'
  BY DEF MenuInv, ChoiceIsHere, LinkIsAllowed, At, Loop, Nodes
<1>3. LinkInv'
  BY DEF LinkInv, FrontierIsOwn, LinksAreNotLost, RequestsAreJustified, Entries, is_destructive, is_off_origin
<1>4. BudgetInv'
  BY DEF BudgetInv, BudgetLeft, CapsHold, Loop, Nodes
<1>5. StopInv'
  BY DEF StopInv, StopIsPrompt, StopIsDue, Loop, Nodes
<1>6. ReasonIsTold'
  BY DEF ReasonIsTold, LoopHasNoReason, PassedIsTold, ReasonIsLast, Loop, Nodes
<1>7. GraphInv'
  BY DEF GraphInv, GraphIsClosed, CountedIsWritten
<1> QED BY <1>1, <1>2, <1>3, <1>4, <1>5, <1>6, <1>7

LEMMA NodeRaisesStep ==
    ASSUME ExplorerInv, node_raises
    PROVE  ExplorerInv'
<1> USE DEF ExplorerInv, node_raises
<1>1. TypeOK'
  BY ExplorerAssumption DEF TypeOK, Places, Nodes, NoneOr, STOP_REASONS
<1>2. MenuInv'
  BY DEF MenuInv, ChoiceIsHere, LinkIsAllowed, At, Loop, Nodes
<1>3. LinkInv'
  BY DEF LinkInv, FrontierIsOwn, LinksAreNotLost, RequestsAreJustified, Entries, is_destructive, is_off_origin
<1>4. BudgetInv'
  BY DEF BudgetInv, BudgetLeft, CapsHold, Loop, Nodes
<1>5. StopInv'
  BY DEF StopInv, StopIsPrompt, StopIsDue, Loop, Nodes
<1>6. ReasonIsTold'
  BY DEF ReasonIsTold, LoopHasNoReason, PassedIsTold, ReasonIsLast, Loop, Nodes
<1>7. GraphInv'
  BY DEF GraphInv, GraphIsClosed, CountedIsWritten
<1> QED BY <1>1, <1>2, <1>3, <1>4, <1>5, <1>6, <1>7

LEMMA TeardownStep ==
    ASSUME ExplorerInv, NEW closed \in BOOLEAN, NEW deleted \in BOOLEAN, teardown(closed, deleted)
    PROVE  ExplorerInv'
<1> USE DEF ExplorerInv, teardown
<1>1. TypeOK'
  BY ExplorerAssumption DEF TypeOK, Places, Nodes, NoneOr, STOP_REASONS
<1>2. MenuInv'
  BY DEF MenuInv, ChoiceIsHere, LinkIsAllowed, At, Loop, Nodes
<1>3. LinkInv'
  BY DEF LinkInv, FrontierIsOwn, LinksAreNotLost, RequestsAreJustified, Entries, is_destructive, is_off_origin
<1>4. BudgetInv'
  BY DEF BudgetInv, BudgetLeft, CapsHold, Loop, Nodes
<1>5. StopInv'
  BY DEF StopInv, StopIsPrompt, StopIsDue, Loop, Nodes
<1>6. ReasonIsTold'
  BY DEF ReasonIsTold, LoopHasNoReason, PassedIsTold, ReasonIsLast, Loop, Nodes
<1>7. GraphInv'
  BY DEF GraphInv, GraphIsClosed, CountedIsWritten
<1> QED BY <1>1, <1>2, <1>3, <1>4, <1>5, <1>6, <1>7

LEMMA SetPassedStep ==
    ASSUME ExplorerInv, set_passed
    PROVE  ExplorerInv'
<1> USE DEF ExplorerInv, set_passed
<1>1. TypeOK'
  BY ExplorerAssumption DEF TypeOK, Places, Nodes, NoneOr, STOP_REASONS
<1>2. MenuInv'
  BY DEF MenuInv, ChoiceIsHere, LinkIsAllowed, At, Loop, Nodes
<1>3. LinkInv'
  BY DEF LinkInv, FrontierIsOwn, LinksAreNotLost, RequestsAreJustified, Entries, is_destructive, is_off_origin
<1>4. BudgetInv'
  BY DEF BudgetInv, BudgetLeft, CapsHold, Loop, Nodes
<1>5. StopInv'
  BY DEF StopInv, StopIsPrompt, StopIsDue, Loop, Nodes
<1>6. ReasonIsTold'
  BY DEF ReasonIsTold, LoopHasNoReason, PassedIsTold, ReasonIsLast, Loop, Nodes
<1>7. GraphInv'
  BY DEF GraphInv, GraphIsClosed, CountedIsWritten
<1> QED BY <1>1, <1>2, <1>3, <1>4, <1>5, <1>6, <1>7

LEMMA SetFailedStep ==
    ASSUME ExplorerInv, set_failed
    PROVE  ExplorerInv'
<1> USE DEF ExplorerInv, set_failed
<1>1. TypeOK'
  BY ExplorerAssumption DEF TypeOK, Places, Nodes, NoneOr, STOP_REASONS
<1>2. MenuInv'
  BY DEF MenuInv, ChoiceIsHere, LinkIsAllowed, At, Loop, Nodes
<1>3. LinkInv'
  BY DEF LinkInv, FrontierIsOwn, LinksAreNotLost, RequestsAreJustified, Entries, is_destructive, is_off_origin
<1>4. BudgetInv'
  BY DEF BudgetInv, BudgetLeft, CapsHold, Loop, Nodes
<1>5. StopInv'
  BY DEF StopInv, StopIsPrompt, StopIsDue, Loop, Nodes
<1>6. ReasonIsTold'
  BY DEF ReasonIsTold, LoopHasNoReason, PassedIsTold, ReasonIsLast, Loop, Nodes
<1>7. GraphInv'
  BY DEF GraphInv, GraphIsClosed, CountedIsWritten
<1> QED BY <1>1, <1>2, <1>3, <1>4, <1>5, <1>6, <1>7

LEMMA CommitRaisesStep ==
    ASSUME ExplorerInv, commit_raises
    PROVE  ExplorerInv'
<1> USE DEF ExplorerInv, commit_raises
<1>1. TypeOK'
  BY ExplorerAssumption DEF TypeOK, Places, Nodes, NoneOr, STOP_REASONS
<1>2. MenuInv'
  BY DEF MenuInv, ChoiceIsHere, LinkIsAllowed, At, Loop, Nodes
<1>3. LinkInv'
  BY DEF LinkInv, FrontierIsOwn, LinksAreNotLost, RequestsAreJustified, Entries, is_destructive, is_off_origin
<1>4. BudgetInv'
  BY DEF BudgetInv, BudgetLeft, CapsHold, Loop, Nodes
<1>5. StopInv'
  BY DEF StopInv, StopIsPrompt, StopIsDue, Loop, Nodes
<1>6. ReasonIsTold'
  BY DEF ReasonIsTold, LoopHasNoReason, PassedIsTold, ReasonIsLast, Loop, Nodes
<1>7. GraphInv'
  BY DEF GraphInv, GraphIsClosed, CountedIsWritten
<1> QED BY <1>1, <1>2, <1>3, <1>4, <1>5, <1>6, <1>7

LEMMA RecordStopReasonStep ==
    ASSUME ExplorerInv, record_stop_reason
    PROVE  ExplorerInv'
<1> USE DEF ExplorerInv, record_stop_reason
<1>1. TypeOK'
  BY ExplorerAssumption DEF TypeOK, Places, Nodes, NoneOr, STOP_REASONS
<1>2. MenuInv'
  BY DEF MenuInv, ChoiceIsHere, LinkIsAllowed, At, Loop, Nodes
<1>3. LinkInv'
  BY DEF LinkInv, FrontierIsOwn, LinksAreNotLost, RequestsAreJustified, Entries, is_destructive, is_off_origin
<1>4. BudgetInv'
  BY DEF BudgetInv, BudgetLeft, CapsHold, Loop, Nodes
<1>5. StopInv'
  BY DEF StopInv, StopIsPrompt, StopIsDue, Loop, Nodes
<1>6. ReasonIsTold'
  BY DEF ReasonIsTold, LoopHasNoReason, PassedIsTold, ReasonIsLast, Loop, Nodes
<1>7. GraphInv'
  BY DEF GraphInv, GraphIsClosed, CountedIsWritten
<1> QED BY <1>1, <1>2, <1>3, <1>4, <1>5, <1>6, <1>7

LEMMA ApiRestartStep ==
    ASSUME ExplorerInv, api_restart
    PROVE  ExplorerInv'
<1> USE DEF ExplorerInv, api_restart
<1>1. TypeOK'
  BY ExplorerAssumption DEF TypeOK, Places, Nodes, NoneOr, STOP_REASONS
<1>2. MenuInv'
  BY DEF MenuInv, ChoiceIsHere, LinkIsAllowed, At, Loop, Nodes
<1>3. LinkInv'
  BY DEF LinkInv, FrontierIsOwn, LinksAreNotLost, RequestsAreJustified, Entries, is_destructive, is_off_origin
<1>4. BudgetInv'
  BY DEF BudgetInv, BudgetLeft, CapsHold, Loop, Nodes
<1>5. StopInv'
  BY DEF StopInv, StopIsPrompt, StopIsDue, Loop, Nodes
<1>6. ReasonIsTold'
  BY DEF ReasonIsTold, LoopHasNoReason, PassedIsTold, ReasonIsLast, Loop, Nodes
<1>7. GraphInv'
  BY DEF GraphInv, GraphIsClosed, CountedIsWritten
<1> QED BY <1>1, <1>2, <1>3, <1>4, <1>5, <1>6, <1>7

-----------------------------------------------------------------------------
\* A listing of a finite set is a sequence of its members that leaves none out.
LEMMA InOrderIsSeq ==
    ASSUME NEW S, IsFiniteSet(S), NEW s \in InOrder(S)
    PROVE  /\ s \in Seq(S)
           /\ \A x \in S : \E i \in 1..Len(s) : s[i] = x
<1>1. Cardinality(S) \in Nat
  BY FS_CardinalityType
<1>2. s \in [1..Cardinality(S) -> S]
  BY DEF InOrder
<1>3. s \in Seq(S) /\ Len(s) = Cardinality(S) /\ DOMAIN s = 1..Cardinality(S)
  BY <1>1, <1>2
<1> QED BY <1>3 DEF InOrder

\* A non-empty set of positive numbers has a least member.
LEMMA LeastPosition ==
    ASSUME NEW S \in SUBSET Nat, NEW x \in S
    PROVE  \E y \in S : \A z \in S : y <= z
<1>1. IsWellFoundedOn(OpToRel(<, Nat), Nat)
  BY NatLessThanWellFounded
<1>2. IsWellFoundedOn(OpToRel(<, Nat), S)
  BY <1>1, IsWellFoundedOnSubset
<1>3. PICK y \in S : \A z \in S : ~(<<z, y>> \in OpToRel(<, Nat))
  BY <1>2, WFMin
<1>4. \A z \in S : ~(z < y)
  BY <1>3 DEF OpToRel
<1> QED BY <1>4

\* Queueing adds to what the frontier holds and removes nothing.
LEMMA EntriesGrow ==
    ASSUME frontier \in Seq(Pages), NEW add \in Seq(Pages), frontier' = frontier \o add
    PROVE  /\ frontier' \in Seq(Pages)
           /\ Entries \subseteq Entries'
           /\ \A i \in 1..Len(add) : add[i] \in Entries'
           /\ \A u \in Entries' : u \in Entries \/ \E i \in 1..Len(add) : u = add[i]
<1>1. frontier' \in Seq(Pages) /\ Len(frontier') = Len(frontier) + Len(add)
  OBVIOUS
<1>2. \A i \in 1..Len(frontier) : frontier'[i] = frontier[i]
  OBVIOUS
<1>3. \A i \in 1..Len(add) : frontier'[Len(frontier) + i] = add[i]
  OBVIOUS
<1>4. Entries \subseteq Entries'
  BY <1>1, <1>2 DEF Entries
<1>5. ASSUME NEW i \in 1..Len(add) PROVE add[i] \in Entries'
  <2>1. Len(frontier) + i \in 1..Len(frontier')
    BY <1>1
  <2> QED BY <1>3, <2>1 DEF Entries
<1>6. ASSUME NEW u \in Entries' PROVE u \in Entries \/ \E i \in 1..Len(add) : u = add[i]
  <2>1. PICK k \in 1..Len(frontier') : u = frontier'[k]
    BY DEF Entries
  <2>2. CASE k <= Len(frontier)
    BY <1>2, <2>1, <2>2 DEF Entries
  <2>3. CASE k > Len(frontier)
    <3>1. k - Len(frontier) \in 1..Len(add)
      BY <1>1, <2>3
    <3>2. u = add[k - Len(frontier)]
      BY <1>3, <2>1, <3>1
    <3> QED BY <3>1, <3>2
  <2> QED BY <1>1, <2>2, <2>3
<1> QED BY <1>1, <1>4, <1>5, <1>6

\* Every in-origin url of a menu that is neither visited nor queued is the url
\* of a new candidate: of the first position that has it.
LEMMA FirstPosition ==
    ASSUME NEW m \in Seq(Nat), NEW k \in 1..Len(m),
           At(m[k]).url \in InBase, At(m[k]).url \notin visited \cup Entries
    PROVE  \E j \in NewCandidates(m) : At(m[j]).url = At(m[k]).url
<1> DEFINE same == {j \in 1..Len(m) : At(m[j]).url = At(m[k]).url}
<1>1. same \in SUBSET Nat /\ k \in same
  OBVIOUS
<1>2. PICK j \in same : \A z \in same : j <= z
  BY <1>1, LeastPosition
<1>3. \A z \in 1..(j - 1) : At(m[z]).url # At(m[j]).url
  BY <1>2
<1> QED BY <1>2, <1>3 DEF NewCandidates

LEMMA EnumerateStep ==
    ASSUME ExplorerInv, NEW skip \in Skips, enumerate(skip)
    PROVE  ExplorerInv'
<1> USE DEF ExplorerInv
<1> DEFINE n == Len(Elements[page])
           S == (1..n) \ skip
<1>0. /\ n \in Nat
      /\ \A i \in 1..n : Elements[page][i] \in Element
  BY ExplorerAssumption DEF TypeOK
<1>1. IsFiniteSet(S)
  <2>1. IsFiniteSet(1..n) /\ S \subseteq 1..n
    BY <1>0, FS_Interval
  <2> QED BY <2>1, FS_Subset, Zenon
<1>2. PICK m \in InOrder(S) : \E ks \in InOrder(NewCandidates(m)) :
          /\ menu' = m
          /\ frontier' = frontier \o [k \in DOMAIN ks |-> At(m[ks[k]]).url]
          /\ offered' = offered \cup ({At(m[k]).url : k \in 1..Len(m)} \cap InBase)
  BY DEF enumerate
<1>3. PICK ks \in InOrder(NewCandidates(m)) :
          /\ menu' = m
          /\ frontier' = frontier \o [k \in DOMAIN ks |-> At(m[ks[k]]).url]
          /\ offered' = offered \cup ({At(m[k]).url : k \in 1..Len(m)} \cap InBase)
  BY <1>2
<1>4. m \in Seq(1..n)
  BY <1>1, InOrderIsSeq, SMT
<1>5. Len(m) \in Nat /\ \A k \in 1..Len(m) : m[k] \in 1..n
  BY <1>4
<1>6. IsFiniteSet(NewCandidates(m))
  <2>1. IsFiniteSet(1..Len(m)) /\ NewCandidates(m) \subseteq 1..Len(m)
    BY <1>5, FS_Interval DEF NewCandidates
  <2> QED BY <2>1, FS_Subset, Zenon
<1>7. /\ ks \in Seq(NewCandidates(m))
      /\ \A x \in NewCandidates(m) : \E i \in 1..Len(ks) : ks[i] = x
  BY <1>6, InOrderIsSeq
<1> DEFINE add == [k \in DOMAIN ks |-> At(m[ks[k]]).url]
<1>8. /\ DOMAIN ks = 1..Len(ks) /\ Len(ks) \in Nat
      /\ \A k \in 1..Len(ks) : ks[k] \in NewCandidates(m)
  BY <1>7
<1>9. \A k \in 1..Len(ks) : At(m[ks[k]]).url \in InBase
  BY <1>8 DEF NewCandidates
<1>10. add \in Seq(Pages) /\ Len(add) = Len(ks)
  BY <1>8, <1>9, ExplorerAssumption
<1>11. \A k \in 1..Len(add) : add[k] \in InBase /\ add[k] = At(m[ks[k]]).url
  BY <1>8, <1>9, <1>10
<1>12. /\ frontier' \in Seq(Pages)
       /\ Entries \subseteq Entries'
       /\ \A i \in 1..Len(add) : add[i] \in Entries'
       /\ \A u \in Entries' : u \in Entries \/ \E i \in 1..Len(add) : u = add[i]
  <2>1. frontier \in Seq(Pages) /\ frontier' = frontier \o add
    BY <1>3 DEF TypeOK
  <2> HIDE DEF add
  <2> QED BY <1>10, <2>1, EntriesGrow
<1>13. /\ page' = page /\ visited' = visited /\ asked' = asked /\ clicked' = clicked
       /\ pending' = pending /\ pc = "enumerate" /\ pc' = "decide" /\ reason' = reason
  BY DEF enumerate
<1> HIDE DEF add, S
<1>14. TypeOK'
  <2>1. menu' \in Seq(Nat)
    BY <1>3, <1>5, <1>4
  <2>2. offered' \in SUBSET Pages
    BY <1>3, ExplorerAssumption DEF TypeOK
  <2> QED BY <1>12, <2>1, <2>2 DEF TypeOK, enumerate, Places, Nodes
<1>15. MenuInv'
  BY <1>3, <1>5, <1>13 DEF MenuInv, ChoiceIsHere, LinkIsAllowed, At, Loop, Nodes
<1>16. LinkInv'
  <2>0. offered \subseteq offered' /\ \A i \in 1..Len(add) : add[i] \in offered'
    <3>1. \A i \in 1..Len(add) : ks[i] \in 1..Len(m)
      BY <1>8, <1>10 DEF NewCandidates
    <3> QED BY <3>1, <1>3, <1>11
  <2>1. FrontierIsOwn'
    BY <2>0, <1>11, <1>12 DEF LinkInv, FrontierIsOwn
  <2>2. ASSUME NEW u \in offered' PROVE u \in visited' \cup asked' \cup Entries'
    <3>1. CASE u \in offered
      BY <3>1, <1>12, <1>13 DEF LinkInv, LinksAreNotLost
    <3>2. CASE u \notin offered
      <4>1. PICK k \in 1..Len(m) : u = At(m[k]).url /\ u \in InBase
        BY <3>2, <1>3
      <4>2. CASE u \in visited \cup Entries
        BY <4>2, <1>12, <1>13
      <4>3. CASE u \notin visited \cup Entries
        <5>1. PICK j \in NewCandidates(m) : At(m[j]).url = u
          BY <4>1, <4>3, <1>4, <1>5, FirstPosition
        <5>2. PICK i \in 1..Len(ks) : ks[i] = j
          BY <1>7
        <5> QED BY <5>1, <5>2, <1>10, <1>11, <1>12
      <4> QED BY <4>2, <4>3
    <3> QED BY <3>1, <3>2
  <2>3. RequestsAreJustified'
    BY <2>0, <1>13 DEF LinkInv, RequestsAreJustified, is_destructive
  <2> QED BY <2>1, <2>2, <2>3 DEF LinkInv, LinksAreNotLost
<1>17. BudgetInv'
  BY DEF BudgetInv, BudgetLeft, CapsHold, Loop, Nodes, enumerate
<1>18. StopInv'
  BY DEF StopInv, StopIsPrompt, StopIsDue, Loop, Nodes, enumerate
<1>19. ReasonIsTold'
  BY DEF ReasonIsTold, LoopHasNoReason, PassedIsTold, ReasonIsLast, Loop, Nodes, enumerate
<1>20. GraphInv'
  BY DEF GraphInv, GraphIsClosed, CountedIsWritten, enumerate
<1> QED BY <1>14, <1>15, <1>16, <1>17, <1>18, <1>19, <1>20

\* What a goto changes, whichever page it is for.
LEMMA GotoEffect ==
    ASSUME TypeOK, NEW target \in Pages \cup {NoPage}, Goto(target)
    PROVE  /\ page' \in Pages
           /\ visited' \in SUBSET Pages
           /\ visited \subseteq visited'
           /\ asked \subseteq asked'
           /\ asked' \subseteq asked \cup ({target} \ {NoPage})
           /\ target \in visited' \cup asked' \cup {NoPage}
  BY ExplorerAssumption DEF Goto, TypeOK

LEMMA NavigateStep ==
    ASSUME ExplorerInv, navigate
    PROVE  ExplorerInv'
<1> USE DEF ExplorerInv
<1> DEFINE link == IF pending # 0 THEN At(pending).url ELSE NoPage
<1>1. PICK target \in Pages \cup {NoPage} :
         /\ Goto(target)
         /\ target # NoPage => Justified(target)
         /\ frontier' \in Seq(Pages)
         /\ Entries' \subseteq Entries
         /\ Entries \subseteq Entries' \cup {target}
  <2>1. CASE link # NoPage /\ Goto(link) /\ UNCHANGED frontier
    <3>1. link \in Allowed /\ Justified(link)
      BY <2>1 DEF navigate, MenuInv, LinkIsAllowed, Loop, Nodes, Justified
    <3> HIDE DEF link
    <3> QED BY <2>1, <3>1, ExplorerAssumption DEF TypeOK, Entries
  <2>2. CASE frontier # <<>> /\ Goto(Head(frontier)) /\ frontier' = Tail(frontier)
    <3>1. /\ frontier' \in Seq(Pages)
          /\ Len(frontier) \in Nat \ {0} /\ Len(frontier') = Len(frontier) - 1
          /\ Head(frontier) = frontier[1]
          /\ \A i \in 1..Len(frontier') : frontier'[i] = frontier[i + 1]
      BY <2>2 DEF TypeOK
    <3>2. Head(frontier) \in InBase /\ Justified(Head(frontier))
      BY <3>1 DEF LinkInv, FrontierIsOwn, Entries, Justified
    <3>3. ASSUME NEW u \in Entries' PROVE u \in Entries
      <4>1. PICK i \in 1..Len(frontier') : u = frontier'[i]
        BY DEF Entries
      <4>2. i + 1 \in 1..Len(frontier) /\ u = frontier[i + 1]
        BY <3>1, <4>1
      <4> QED BY <4>2 DEF Entries
    <3>4. ASSUME NEW u \in Entries PROVE u \in Entries' \cup {Head(frontier)}
      <4>1. PICK i \in 1..Len(frontier) : u = frontier[i]
        BY DEF Entries
      <4>2. CASE i = 1
        BY <3>1, <4>1, <4>2
      <4>3. CASE i # 1
        <5>1. i - 1 \in 1..Len(frontier') /\ u = frontier'[i - 1]
          BY <3>1, <4>1, <4>3
        <5> QED BY <5>1 DEF Entries
      <4> QED BY <4>2, <4>3
    <3> QED BY <2>2, <3>1, <3>2, <3>3, <3>4, ExplorerAssumption
  <2>3. CASE frontier = <<>> /\ Goto(NoPage) /\ UNCHANGED frontier
    BY <2>3 DEF TypeOK, Entries
  <2> QED BY <2>1, <2>2, <2>3 DEF navigate
<1>2. /\ page' \in Pages
      /\ visited' \in SUBSET Pages
      /\ visited \subseteq visited'
      /\ asked \subseteq asked'
      /\ asked' \subseteq asked \cup ({target} \ {NoPage})
      /\ target \in visited' \cup asked' \cup {NoPage}
  BY <1>1, GotoEffect
<1>3. /\ offered' = offered /\ clicked' = clicked /\ pending' = 0 /\ menu' = menu
      /\ pc = "navigate" /\ pc' = "perceive"
  BY DEF navigate
<1>4. TypeOK'
  <2>1. asked' \in SUBSET Pages
    BY <1>2 DEF TypeOK
  <2> QED BY <1>1, <1>2, <2>1 DEF TypeOK, navigate, Places, Nodes
<1>5. MenuInv'
  <2>1. Len(Elements'[page']) \in Nat
    BY <1>2, ExplorerAssumption
  <2> QED BY <1>3, <2>1 DEF MenuInv, ChoiceIsHere, LinkIsAllowed
<1>6. LinkInv'
  <2>1. NoPage \notin offered
    BY ExplorerAssumption DEF TypeOK
  <2>2. FrontierIsOwn' /\ LinksAreNotLost'
    BY <1>1, <1>2, <1>3, <2>1 DEF LinkInv, FrontierIsOwn, LinksAreNotLost
  <2>3. RequestsAreJustified'
    <3>1. \A u \in asked' : Justified(u)
      BY <1>1, <1>2 DEF LinkInv, RequestsAreJustified, Justified
    <3> QED BY <3>1, <1>3 DEF RequestsAreJustified, Justified, is_destructive
  <2> QED BY <2>2, <2>3 DEF LinkInv
<1>7. BudgetInv'
  BY DEF BudgetInv, BudgetLeft, CapsHold, Loop, Nodes, navigate
<1>8. StopInv'
  BY DEF StopInv, StopIsPrompt, StopIsDue, Loop, Nodes, navigate
<1>9. ReasonIsTold'
  BY DEF ReasonIsTold, LoopHasNoReason, PassedIsTold, ReasonIsLast, Loop, Nodes, navigate
<1>10. GraphInv'
  BY DEF GraphInv, GraphIsClosed, CountedIsWritten, navigate
<1> QED BY <1>4, <1>5, <1>6, <1>7, <1>8, <1>9, <1>10

LEMMA DecideRepliesStep ==
    ASSUME ExplorerInv, NEW reply \in 1..Len(Elements[page]), decide_replies(reply)
    PROVE  ExplorerInv'
<1> USE DEF ExplorerInv, decide_replies
<1>1. Len(Elements[page]) \in Nat /\ Len(menu) \in Nat \ {0}
  BY ExplorerAssumption DEF TypeOK
<1>2. parse_index(reply) \in 1..Len(menu)
  BY <1>1 DEF parse_index
<1>3. pending' \in 1..Len(Elements[page])
  BY <1>2 DEF MenuInv, ChoiceIsHere
<1>4. chosen' \in Nat /\ pending' \in Nat
  BY <1>1, <1>2, <1>3
<1>5. TypeOK'
  BY <1>4 DEF TypeOK, Places, Nodes
<1>6. MenuInv'
  BY <1>1, <1>3 DEF MenuInv, ChoiceIsHere, LinkIsAllowed
<1>7. LinkInv'
  BY DEF LinkInv, FrontierIsOwn, LinksAreNotLost, RequestsAreJustified, Entries, is_destructive, is_off_origin
<1>8. BudgetInv'
  BY DEF BudgetInv, BudgetLeft, CapsHold, Loop, Nodes
<1>9. StopInv'
  BY DEF StopInv, StopIsPrompt, StopIsDue, Loop, Nodes
<1>10. ReasonIsTold'
  BY DEF ReasonIsTold, LoopHasNoReason, PassedIsTold, ReasonIsLast, Loop, Nodes
<1>11. GraphInv'
  BY DEF GraphInv, GraphIsClosed, CountedIsWritten
<1> QED BY <1>5, <1>6, <1>7, <1>8, <1>9, <1>10, <1>11

\* The chosen element is one of the application's.
LEMMA ChosenElement ==
    ASSUME TypeOK, ChoiceIsHere, pending # 0
    PROVE  At(pending) \in Element
  BY ExplorerAssumption DEF TypeOK, ChoiceIsHere, At

LEMMA ActLinkStep ==
    ASSUME ExplorerInv, act_link
    PROVE  ExplorerInv'
<1> USE DEF ExplorerInv, act_link
<1>1. At(pending) \in Element
  BY ChosenElement DEF MenuInv
<1>2. ~Denied(At(pending)) /\ At(pending).url # NoPage
  OBVIOUS
<1>3. TypeOK'
  BY <1>1 DEF TypeOK, Places, Nodes
<1>4. MenuInv'
  BY <1>2 DEF MenuInv, ChoiceIsHere, LinkIsAllowed, At, Denied, is_off_origin
<1>5. LinkInv'
  BY <1>2 DEF LinkInv, FrontierIsOwn, LinksAreNotLost, RequestsAreJustified, Entries, Denied,
              is_destructive, is_off_origin
<1>6. BudgetInv'
  BY DEF BudgetInv, BudgetLeft, CapsHold, Loop, Nodes
<1>7. StopInv'
  BY DEF StopInv, StopIsPrompt, StopIsDue, Loop, Nodes
<1>8. ReasonIsTold'
  BY DEF ReasonIsTold, LoopHasNoReason, PassedIsTold, ReasonIsLast, Loop, Nodes
<1>9. GraphInv'
  BY DEF GraphInv, GraphIsClosed, CountedIsWritten
<1> QED BY <1>3, <1>4, <1>5, <1>6, <1>7, <1>8, <1>9

LEMMA ActClickStep ==
    ASSUME ExplorerInv, NEW works \in BOOLEAN, act_click(works)
    PROVE  ExplorerInv'
<1> USE DEF ExplorerInv, act_click
<1>1. At(pending) \in Element
  BY ChosenElement DEF MenuInv
<1>2. ~Denied(At(pending))
  OBVIOUS
<1>3. page' \in Pages /\ probe' \in Pages \cup {NoPage}
  BY <1>1 DEF Element, TypeOK
<1>4. TypeOK'
  BY <1>1, <1>3 DEF TypeOK, Places, Nodes
<1>5. MenuInv'
  <2>1. Len(Elements'[page']) \in Nat
    BY <1>3, ExplorerAssumption
  <2> QED BY <2>1 DEF MenuInv, ChoiceIsHere, LinkIsAllowed
<1>6. LinkInv'
  BY <1>2 DEF LinkInv, FrontierIsOwn, LinksAreNotLost, RequestsAreJustified, Entries, Denied,
              is_destructive, is_off_origin
<1>7. BudgetInv'
  BY DEF BudgetInv, BudgetLeft, CapsHold, Loop, Nodes
<1>8. StopInv'
  BY DEF StopInv, StopIsPrompt, StopIsDue, Loop, Nodes
<1>9. ReasonIsTold'
  BY DEF ReasonIsTold, LoopHasNoReason, PassedIsTold, ReasonIsLast, Loop, Nodes
<1>10. GraphInv'
  BY DEF GraphInv, GraphIsClosed, CountedIsWritten
<1> QED BY <1>4, <1>5, <1>6, <1>7, <1>8, <1>9, <1>10

\* However many of its writes get through, persist leaves a closed graph of
\* pages and forms, and after the first of them the current state is in it.
LEMMA KgWritesClosed ==
    ASSUME ExplorerInv, NEW n \in Nat, pc = "persist", KgWrites(n), seen' = seen, fp' = fp
    PROVE  /\ kgPages' \in SUBSET PageKeys
           /\ kgEdges' \in SUBSET (PageKeys \X PageKeys)
           /\ kgForms' \in SUBSET (PageKeys \X Pages)
           /\ GraphIsClosed'
           /\ n >= 1 => FpKey(fp) \in kgPages'
<1> DEFINE a == FpKey(fp)
           b == IF pending # 0 THEN UrlKey(At(pending).url) ELSE a
<1>1. a \in PageKeys
  BY DEF ExplorerInv, TypeOK, PageKeys
<1>2. b \in PageKeys
  <2>1. CASE pending # 0
    <3>1. At(pending).url \in Pages
      BY <2>1, ExplorerAssumption DEF ExplorerInv, MenuInv, LinkIsAllowed, Loop, Nodes
    <3> QED BY <2>1, <3>1 DEF PageKeys
  <2> QED BY <1>1, <2>1
<1>3. probe \in Pages \cup {NoPage}
  BY DEF ExplorerInv, TypeOK
<1>4. /\ kgPages' = kgPages \cup (IF n >= 1 THEN {a} ELSE {}) \cup (IF n >= 2 THEN {b} ELSE {})
      /\ kgEdges' = kgEdges \cup (IF n >= 3 THEN {<<a, b>>} ELSE {})
      /\ kgForms' = kgForms \cup (IF n >= 4 /\ probe # NoPage THEN {<<a, probe>>} ELSE {})
  BY DEF KgWrites
<1> HIDE DEF a, b
<1>5. kgPages' \in SUBSET PageKeys
  BY <1>1, <1>2, <1>4 DEF ExplorerInv, TypeOK
<1>6. kgEdges' \in SUBSET (PageKeys \X PageKeys)
  BY <1>1, <1>2, <1>4 DEF ExplorerInv, TypeOK
<1>7. kgForms' \in SUBSET (PageKeys \X Pages)
  BY <1>1, <1>3, <1>4 DEF ExplorerInv, TypeOK
<1>8. ASSUME NEW e \in kgEdges' PROVE e[1] \in kgPages' /\ e[2] \in kgPages'
  BY <1>4 DEF ExplorerInv, GraphInv, GraphIsClosed
<1>9. ASSUME NEW f \in kgForms' PROVE f[1] \in kgPages'
  BY <1>4 DEF ExplorerInv, GraphInv, GraphIsClosed
<1>10. ASSUME NEW f \in Fps, seen'[f] > 0 PROVE FpKey(f) \in kgPages'
  BY <1>4, <1>10 DEF ExplorerInv, GraphInv, GraphIsClosed
<1>11. GraphIsClosed'
  BY <1>8, <1>9, <1>10 DEF GraphIsClosed
<1>12. n >= 1 => FpKey(fp) \in kgPages'
  BY <1>4 DEF a
<1> QED BY <1>5, <1>6, <1>7, <1>11, <1>12

LEMMA PersistStep ==
    ASSUME ExplorerInv,
           persist_to_neo4j \/ \E n \in 0..3 : persist_raises(n)
    PROVE  ExplorerInv'
<1> USE DEF ExplorerInv
<1>1. PICK n \in 0..4 :
         /\ pc = "persist" /\ KgWrites(n)
         /\ pc' = "raised" \/ (pc' = "converge" /\ n = 4)
         /\ UNCHANGED <<runVars, cancel, browserVars, frontier, visited, fp, menuVars,
                        ledgerVars, frameVars, offered, clicked, afterStop>>
  BY DEF persist_to_neo4j, persist_raises
<1>2. /\ kgPages' \in SUBSET PageKeys
      /\ kgEdges' \in SUBSET (PageKeys \X PageKeys)
      /\ kgForms' \in SUBSET (PageKeys \X Pages)
      /\ GraphIsClosed'
      /\ n >= 1 => FpKey(fp) \in kgPages'
  BY <1>1, KgWritesClosed
<1>3. TypeOK'
  BY <1>1, <1>2 DEF TypeOK, Places, Nodes
<1>4. MenuInv'
  BY <1>1 DEF MenuInv, ChoiceIsHere, LinkIsAllowed, At, Loop, Nodes
<1>5. LinkInv'
  BY <1>1 DEF LinkInv, FrontierIsOwn, LinksAreNotLost, RequestsAreJustified, Entries, is_destructive,
              is_off_origin
<1>6. BudgetInv'
  BY <1>1 DEF BudgetInv, BudgetLeft, CapsHold, Loop, Nodes
<1>7. StopInv'
  BY <1>1 DEF StopInv, StopIsPrompt, StopIsDue, Loop, Nodes
<1>8. ReasonIsTold'
  BY <1>1 DEF ReasonIsTold, LoopHasNoReason, PassedIsTold, ReasonIsLast, Loop, Nodes
<1>9. GraphInv'
  BY <1>1, <1>2 DEF GraphInv, CountedIsWritten, FpKey
<1> QED BY <1>3, <1>4, <1>5, <1>6, <1>7, <1>8, <1>9

\* What converge decides: an earlier reason stands, a reached cap or a state
\* visited too often gives one, and no reason is given while there is budget.
LEMMA StopReasonTold ==
    ASSUME NEW expired \in BOOLEAN, reason \in NoneOr(STOP_REASONS),
           step' \in Nat, depth' \in Nat, seen'[fp] \in Nat
    PROVE  /\ StopReason(expired) \in NoneOr(STOP_REASONS)
           /\ reason \in {"none", "budget"} =>
                StopReason(expired) \notin {"stopped", "failed"}
           /\ StopReason(expired) = "none" =>
                /\ step' < max_steps
                /\ depth' < max_depth
                /\ seen'[fp] <= max_revisits
<1>1. /\ cap_reason(step', depth', expired) \in NoneOr(STOP_REASONS)
      /\ cap_reason(step', depth', expired) \notin {"stopped", "failed"}
      /\ cap_reason(step', depth', expired) = "none" =>
           step' < max_steps /\ depth' < max_depth
  BY ExplorerAssumption DEF cap_reason, NoneOr, STOP_REASONS
<1> QED BY <1>1, ExplorerAssumption DEF StopReason, is_loop, NoneOr, STOP_REASONS

LEMMA ConvergeStep ==
    ASSUME ExplorerInv, NEW expired \in BOOLEAN, NEW published \in BOOLEAN,
           converge(expired, published)
    PROVE  ExplorerInv'
<1> USE DEF ExplorerInv
<1>1. /\ pc = "converge" /\ fp \in Fps /\ seen \in [Fps -> Nat]
      /\ step \in Nat /\ depth \in Nat
      /\ step' = step + 1
      /\ depth' \in {depth, depth + 1} /\ (depth' # depth => seen[fp] = 0)
      /\ seen' = [seen EXCEPT ![fp] = @ + 1]
      /\ reason' = StopReason(expired)
      /\ pc' = IF reason' = "none" THEN "check_cancel" ELSE "ended"
  BY DEF converge, TypeOK
<1>2. /\ seen' \in [Fps -> Nat] /\ seen'[fp] = seen[fp] + 1
      /\ \A f \in Fps : f # fp => seen'[f] = seen[f]
  BY <1>1
<1>3. /\ reason' \in NoneOr(STOP_REASONS)
      /\ reason \in {"none", "budget"} => reason' \notin {"stopped", "failed"}
      /\ reason' = "none" =>
           /\ step' < max_steps
           /\ depth' < max_depth
           /\ seen'[fp] <= max_revisits
  BY <1>1, <1>2, StopReasonTold DEF TypeOK
<1>4. TypeOK'
  <2>1. pairs' \in SUBSET (Fps \X Nat)
    BY <1>1 DEF converge, TypeOK
  <2>2. frame' \in NoneOr(STOP_REASONS) /\ frameLost' \in BOOLEAN /\ afterStop' \in Nat
    BY <1>3 DEF converge, TypeOK
  <2>3. step' \in Nat /\ depth' \in Nat /\ pc' \in Places
    BY <1>1 DEF Places, Nodes
  <2> QED BY <1>2, <1>3, <2>1, <2>2, <2>3 DEF converge, TypeOK
<1>5. MenuInv'
  BY DEF MenuInv, ChoiceIsHere, LinkIsAllowed, At, Loop, Nodes, converge
<1>6. LinkInv'
  BY DEF LinkInv, FrontierIsOwn, LinksAreNotLost, RequestsAreJustified, Entries, is_destructive,
         is_off_origin, converge
<1>7. BudgetInv'
  <2>1. /\ step = 0 \/ step < max_steps
        /\ depth = 0 \/ depth < max_depth
        /\ \A f \in Fps : seen[f] <= max_revisits
    BY <1>1 DEF BudgetInv, BudgetLeft, Loop, Nodes
  <2>2. CapsHold'
    BY <1>1, <1>2, <2>1, ExplorerAssumption DEF CapsHold
  <2>3. BudgetLeft'
    BY <1>1, <1>2, <1>3, <2>1, ExplorerAssumption DEF BudgetLeft, Loop, Nodes
  <2> QED BY <2>2, <2>3 DEF BudgetInv
<1>8. StopInv'
  BY DEF StopInv, StopIsPrompt, StopIsDue, Loop, Nodes, converge, TypeOK
<1>9. ReasonIsTold'
  BY <1>1, <1>3 DEF ReasonIsTold, LoopHasNoReason, PassedIsTold, ReasonIsLast, Loop, Nodes,
         converge
<1>10. GraphInv'
  <2>1. kgPages' = kgPages /\ kgEdges' = kgEdges /\ kgForms' = kgForms
    BY DEF converge
  <2>2. ASSUME NEW f \in Fps, seen'[f] > 0 PROVE FpKey(f) \in kgPages'
    BY <1>1, <1>2, <2>1, <2>2 DEF GraphInv, GraphIsClosed, CountedIsWritten
  <2>3. pc' # "converge"
    BY <1>1
  <2> QED BY <2>1, <2>2, <2>3 DEF GraphInv, GraphIsClosed, CountedIsWritten
<1> QED BY <1>4, <1>5, <1>6, <1>7, <1>8, <1>9, <1>10

-----------------------------------------------------------------------------
LEMMA ExplorerInit == Init => ExplorerInv
<1> SUFFICES ASSUME Init PROVE ExplorerInv
  OBVIOUS
<1> USE DEF Init
<1>1. TypeOK
  <2>1. seen \in [Fps -> Nat] /\ frontier \in Seq(Pages) /\ menu \in Seq(Nat)
    OBVIOUS
  <2>2. page \in Pages /\ visited \in SUBSET Pages /\ fp \in Fps
    BY ExplorerAssumption
  <2>3. pairs \in SUBSET (Fps \X Nat) /\ clicked \in SUBSET Element
    OBVIOUS
  <2> QED BY <2>1, <2>2, <2>3 DEF TypeOK, NoneOr, Places
<1>2. MenuInv
  <2>1. Len(Elements[page]) \in Nat
    BY ExplorerAssumption
  <2> QED BY <2>1 DEF MenuInv, ChoiceIsHere, LinkIsAllowed
<1>3. LinkInv
  BY DEF LinkInv, FrontierIsOwn, LinksAreNotLost, RequestsAreJustified, Entries
<1>4. BudgetInv
  BY ExplorerAssumption DEF BudgetInv, BudgetLeft, CapsHold
<1>5. StopInv
  BY DEF StopInv, StopIsPrompt, StopIsDue
<1>6. ReasonIsTold
  BY DEF ReasonIsTold, LoopHasNoReason, PassedIsTold, ReasonIsLast
<1>7. GraphInv
  BY DEF GraphInv, GraphIsClosed, CountedIsWritten
<1> QED BY <1>1, <1>2, <1>3, <1>4, <1>5, <1>6, <1>7 DEF ExplorerInv

LEMMA ExplorerStep == ExplorerInv /\ [Next]_vars => ExplorerInv'
<1> SUFFICES ASSUME ExplorerInv, [Next]_vars PROVE ExplorerInv'
  OBVIOUS
<1>1. CASE UNCHANGED vars
  <2> USE <1>1 DEF vars, ExplorerInv
  <2>1. TypeOK'
    BY DEF TypeOK
  <2>2. MenuInv' /\ StopInv' /\ ReasonIsTold'
    BY DEF MenuInv, ChoiceIsHere, LinkIsAllowed, At, StopInv, StopIsPrompt, StopIsDue,
           ReasonIsTold, LoopHasNoReason, PassedIsTold, ReasonIsLast, is_destructive
  <2>3. LinkInv'
    BY DEF LinkInv, FrontierIsOwn, LinksAreNotLost, RequestsAreJustified, Entries, is_destructive,
           is_off_origin
  <2>4. BudgetInv'
    BY DEF BudgetInv, BudgetLeft, CapsHold
  <2>5. GraphInv'
    BY DEF GraphInv, GraphIsClosed, CountedIsWritten
  <2> QED BY <2>1, <2>2, <2>3, <2>4, <2>5
<1>2. CASE task_step
  BY <1>2, RunExploreStep, LoginStep, CheckCancelStep, NavigateStep, PerceiveStep,
     EnumerateStep, DecideRepliesStep, DecideRefusedStep, DecideNothingStep,
     ActNothingStep, ActRefusesStep, ActLinkStep, ActClickStep, PersistStep,
     ConvergeStep, TeardownStep, SetPassedStep, SetFailedStep, RecordStopReasonStep
  DEF task_step
<1>3. CASE Next /\ ~task_step
  BY <1>3, ExploreStopStep, NodeRaisesStep, PersistStep, CommitRaisesStep, ApiRestartStep
  DEF Next
<1> QED BY <1>1, <1>2, <1>3

\* The inductive invariant holds of every exploration.
THEOREM ExplorerInvariant == Spec => []ExplorerInv
  BY ExplorerInit, ExplorerStep, PTL DEF Spec

\* The records of an exploration agree, however it ends: the knowledge graph
\* it leaves is closed and complete even when Neo4j failed between two of
\* persist's writes; the row is whole, and the terminal event and the row differ
\* only when the run failed after its event, was stopped, lost the event or has
\* recorded its pass and not yet the reason.
THEOREM RecordsAgreeTheorem == Spec => []RecordsAgree
<1>1. ASSUME ExplorerInv PROVE RecordsAgree
  <2>1. AnnouncedAsRecorded
    BY <1>1 DEF ExplorerInv, ReasonIsTold, LoopHasNoReason, PassedIsTold, ReasonIsLast,
       AnnouncedAsRecorded, snapshot_event, HalfRecorded
  <2> QED BY <1>1, <2>1 DEF ExplorerInv, GraphInv, RecordsAgree
<1>2. ExplorerInv => RecordsAgree
  BY <1>1
<1> QED BY <1>2, ExplorerInvariant, PTL

\* No exploration overruns its budget of steps, states and visits, whatever the
\* model answers, elements cannot be described and requests redirect to.
THEOREM CapsHoldTheorem == Spec => []CapsHold
<1>1. ExplorerInv => CapsHold
  BY DEF ExplorerInv, BudgetInv
<1> QED BY <1>1, ExplorerInvariant, PTL

\* Every request the browser makes goes back to a link the own origin offered or
\* to a choice that is not destructive and on an allowed origin, whatever the
\* model answers and wherever pages redirect.
THEOREM RequestsAreJustifiedTheorem == Spec => []RequestsAreJustified
<1>1. ExplorerInv => RequestsAreJustified
  BY DEF ExplorerInv, LinkInv
<1> QED BY <1>1, ExplorerInvariant, PTL

\* No in-origin link the explorer was offered is dropped: it is visited,
\* requested or still queued.
THEOREM LinksAreNotLostTheorem == Spec => []LinksAreNotLost
<1>1. ExplorerInv => LinksAreNotLost
  BY DEF ExplorerInv, LinkInv
<1> QED BY <1>1, ExplorerInvariant, PTL

\* A stop request is heeded after at most the iteration in progress.
THEOREM StopIsPromptTheorem == Spec => []StopIsPrompt
<1>1. ExplorerInv => StopIsPrompt
  BY DEF ExplorerInv, StopInv
<1> QED BY <1>1, ExplorerInvariant, PTL
=============================================================================
