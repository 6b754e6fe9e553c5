------------------------- MODULE ExecLiveViewProofs -------------------------
(***************************************************************************)
(* Proofs about ExecLiveView, for any flows, verdicts and number of        *)
(* results and lost connections: what the live page shows was true at one  *)
(* moment of the run, and its counters never go back.                      *)
(***************************************************************************)
EXTENDS ExecLiveView, Integers, FiniteSetTheorems, SequenceTheorems, TLAPS

\* A frame tells the first n results, and if it is about a flow, the n-th is
\* that flow's.
IsTrue(fr) ==
    LET n == fr.counters.completed
    IN  /\ n <= Len(rows)
        /\ fr.counters = build_counters(SubSeq(rows, 1, n))
        /\ fr.flow # NoFlow =>
             n >= 1 /\ rows[n].flow = fr.flow /\ rows[n].verdict = fr.verdict

\* Wherever a frame is on its way to the page, it is true.
FramesAreTrue ==
    /\ snapshot # NoFrame => IsTrue(snapshot)
    /\ \A i \in 1..Len(pipe) : IsTrue(pipe[i])
    /\ latest # NoFrame => IsTrue(latest)

\* What the worker has still to publish is the last row.
LastIsUnpublished == unpub # NoRow => Len(rows) > 0 /\ unpub = rows[Len(rows)]

\* The page is not ahead of the snapshot, the snapshot is not ahead of the
\* frames buffered behind it, and these are in the order of the results.
FramesAreInOrder ==
    /\ snapshot # NoFrame =>
         /\ Completed(latest) <= Completed(snapshot)
         /\ \A i \in 1..Len(pipe) : Completed(snapshot) <= Completed(pipe[i])
    /\ \A i \in 1..Len(pipe) : Completed(latest) <= Completed(pipe[i])
    /\ \A i, j \in 1..Len(pipe) : i < j => Completed(pipe[i]) <= Completed(pipe[j])

\* A request that has not subscribed buffers nothing, and one that has not
\* streamed holds its snapshot.
RequestIsSound ==
    /\ ~Subscribed => pipe = <<>>
    /\ server \in {"snapshotted", "subscribed"} <=> snapshot # NoFrame

LiveInv ==
    /\ TypeOK
    /\ LastIsUnpublished
    /\ RequestIsSound
    /\ FramesAreTrue
    /\ FramesAreInOrder
    /\ ShownRowsWereTrue

-----------------------------------------------------------------------------
(* Frames *)

\* The counters of a sequence of rows are numbers.
LEMMA CountersType ==
    ASSUME NEW rs \in Seq(Row)
    PROVE  build_counters(rs) \in [completed: Nat, passed: Nat, failed: Nat, flaky: Nat]
<1>1. ASSUME NEW v PROVE Count(rs, v) \in Nat
  <2> DEFINE S == {i \in 1..Len(rs) : rs[i].verdict = v}
  <2>1. IsFiniteSet(1..Len(rs)) /\ S \subseteq 1..Len(rs)
    BY FS_Interval
  <2>2. IsFiniteSet(S)
    BY <2>1, FS_Subset, Zenon
  <2>3. Cardinality(S) \in Nat
    BY <2>2, FS_CardinalityType
  <2> QED BY <2>3 DEF Count
<1>2. Len(rs) \in Nat
  OBVIOUS
<1> QED BY <1>1, <1>2 DEF build_counters

\* The last result is f's, with verdict v.
EndsWith(f, v) ==
    Len(rows) > 0 /\ rows[Len(rows)].flow = f /\ rows[Len(rows)].verdict = v

\* A new frame is a frame, and true.
LEMMA NewFrame ==
    ASSUME TypeOK, NEW f \in Flows \cup {NoFlow}, NEW v \in Verdicts \cup {NoVerdict},
           f = NoFlow \/ EndsWith(f, v)
    PROVE  /\ Frame(rows, f, v) \in Frames
           /\ Frame(rows, f, v) # NoFrame
           /\ IsTrue(Frame(rows, f, v))
           /\ Completed(Frame(rows, f, v)) = Len(rows)
<1> DEFINE fr == Frame(rows, f, v)
           c == build_counters(rows)
<1>1. rows \in Seq(Row)
  BY DEF TypeOK
<1>2. c \in [completed: Nat, passed: Nat, failed: Nat, flaky: Nat] /\ c.completed = Len(rows)
  BY <1>1, CountersType DEF build_counters
<1>3. /\ fr = [counters |-> c, flow |-> f, verdict |-> v]
      /\ fr.counters = c /\ fr.flow = f /\ fr.verdict = v
  BY DEF Frame
<1>4. SubSeq(rows, 1, Len(rows)) = rows
  BY <1>1, SubSeqFull
<1> HIDE DEF fr, c
<1>5. fr \in Frames /\ fr # NoFrame
  <2>1. fr \in Frames
    BY <1>2, <1>3 DEF Frames
  <2> QED BY <2>1, LiveViewAssumption DEF Frames
<1>6. fr.counters.completed = Len(rows) /\ Len(rows) \in Nat
  BY <1>1, <1>2, <1>3
<1>7. IsTrue(fr)
  <2>1. fr.counters = build_counters(SubSeq(rows, 1, fr.counters.completed))
    BY <1>3, <1>4, <1>6 DEF c
  <2>2. fr.flow # NoFlow =>
          /\ fr.counters.completed >= 1
          /\ rows[fr.counters.completed].flow = fr.flow
          /\ rows[fr.counters.completed].verdict = fr.verdict
    BY <1>3, <1>6 DEF EndsWith
  <2> QED BY <1>6, <2>1, <2>2 DEF IsTrue
<1>8. Completed(fr) = Len(rows)
  BY <1>5, <1>6 DEF Completed
<1> QED BY <1>5, <1>7, <1>8 DEF fr

\* What a frame tells stays true when a row is added.
LEMMA StaysTrue ==
    ASSUME TypeOK, NEW row \in Row, rows' = Append(rows, row), NEW fr \in Frames, IsTrue(fr)
    PROVE  IsTrue(fr)'
<1> DEFINE n == fr.counters.completed
<1>1. n \in Nat /\ n <= Len(rows) /\ rows \in Seq(Row)
  BY DEF Frames, IsTrue, TypeOK
<1>2. Len(rows') = Len(rows) + 1 /\ \A i \in 1..n : rows'[i] = rows[i]
  BY <1>1
<1>3. SubSeq(rows', 1, n) = SubSeq(rows, 1, n)
  BY <1>1, <1>2
<1>4. n <= Len(rows') /\ fr.counters = build_counters(SubSeq(rows', 1, n))
  <2>1. fr.counters = build_counters(SubSeq(rows, 1, n))
    BY DEF IsTrue
  <2>2. fr.counters = build_counters(SubSeq(rows', 1, n))
    BY <1>3, <2>1, Zenon
  <2> QED BY <1>1, <1>2, <2>2
<1>5. fr.flow # NoFlow =>
        n >= 1 /\ rows'[n].flow = fr.flow /\ rows'[n].verdict = fr.verdict
  BY <1>1, <1>2 DEF IsTrue
<1> QED BY <1>4, <1>5 DEF IsTrue, build_counters, Count

LEMMA CompletedType ==
    ASSUME NEW fr \in Frames \cup {NoFrame}
    PROVE  /\ Completed(fr) \in Nat
           /\ fr \in Frames => Completed(fr) = fr.counters.completed
           /\ fr \in Frames => fr # NoFrame
  BY LiveViewAssumption DEF Completed, Frames

-----------------------------------------------------------------------------
(* The steps *)

USE DEF pageVars, sseVars

LEMMA CommitRowStep ==
    ASSUME LiveInv, NEW f \in Flows, NEW v \in Verdicts, commit_row(f, v)
    PROVE  LiveInv'
<1> USE DEF LiveInv
<1> DEFINE row == [flow |-> f, verdict |-> v]
<1>1. /\ rows' = Append(rows, row) /\ unpub' = row
      /\ server' = server /\ snapshot' = snapshot /\ pipe' = pipe /\ latest' = latest
      /\ shown' = shown
  BY DEF commit_row
<1>2. row \in Row
  BY DEF Row
<1> HIDE DEF row
<1>3. /\ rows \in Seq(Row) /\ rows' \in Seq(Row) /\ Len(rows') = Len(rows) + 1
      /\ Len(rows) \in Nat /\ rows'[Len(rows')] = row
      /\ \A i \in 1..Len(rows) : rows'[i] = rows[i]
  BY <1>1, <1>2 DEF TypeOK
<1>4. TypeOK'
  BY <1>1, <1>2, <1>3 DEF TypeOK, commit_row
<1>5. LastIsUnpublished'
  BY <1>1, <1>3 DEF LastIsUnpublished
<1>6. RequestIsSound'
  BY <1>1 DEF RequestIsSound, Subscribed
<1>7. FramesAreTrue'
  <2>1. ASSUME NEW fr \in Frames, IsTrue(fr) PROVE IsTrue(fr)'
    BY <1>1, <1>2, <2>1, StaysTrue
  <2>2. ASSUME snapshot # NoFrame PROVE IsTrue(snapshot)'
    <3>1. PICK fr \in Frames : fr = snapshot
      BY <2>2 DEF TypeOK
    <3>2. IsTrue(fr)'
      BY <2>1, <2>2, <3>1 DEF FramesAreTrue
    <3> QED BY <1>1, <3>1, <3>2 DEF IsTrue
  <2>3. ASSUME latest # NoFrame PROVE IsTrue(latest)'
    <3>1. PICK fr \in Frames : fr = latest
      BY <2>3 DEF TypeOK
    <3>2. IsTrue(fr)'
      BY <2>1, <2>3, <3>1 DEF FramesAreTrue
    <3> QED BY <1>1, <3>1, <3>2 DEF IsTrue
  <2>4. ASSUME NEW i \in 1..Len(pipe) PROVE IsTrue(pipe[i])'
    <3>1. PICK fr \in Frames : fr = pipe[i]
      BY DEF TypeOK
    <3>2. IsTrue(fr)'
      BY <2>1, <3>1 DEF FramesAreTrue
    <3> QED BY <1>1, <3>1, <3>2 DEF IsTrue
  <2> QED BY <1>1, <2>2, <2>3, <2>4 DEF FramesAreTrue
<1>8. FramesAreInOrder'
  BY <1>1 DEF FramesAreInOrder, Completed
<1>9. ShownRowsWereTrue'
  <2>1. Completed(latest) \in Nat /\ Completed(latest) <= Len(rows)
    BY <1>3, CompletedType DEF TypeOK, FramesAreTrue, IsTrue, Completed
  <2>2. Completed(latest)' = Completed(latest)
    BY <1>1 DEF Completed
  <2> QED BY <1>1, <1>3, <2>1, <2>2 DEF ShownRowsWereTrue
<1> QED BY <1>4, <1>5, <1>6, <1>7, <1>8, <1>9

\* A true frame is not ahead of the rows.
LEMMA NotAhead ==
    ASSUME LiveInv
    PROVE  /\ Completed(latest) \in Nat /\ Completed(latest) <= Len(rows)
           /\ snapshot # NoFrame => Completed(snapshot) \in Nat /\ Completed(snapshot) <= Len(rows)
           /\ \A i \in 1..Len(pipe) : Completed(pipe[i]) \in Nat /\ Completed(pipe[i]) <= Len(rows)
<1> USE DEF LiveInv
<1>1. ASSUME NEW fr \in Frames, IsTrue(fr) PROVE Completed(fr) \in Nat /\ Completed(fr) <= Len(rows)
  BY <1>1, CompletedType DEF IsTrue
<1>2. Len(rows) \in Nat
  BY DEF TypeOK
<1>3. CASE latest = NoFrame
  BY <1>1, <1>2, <1>3 DEF TypeOK, FramesAreTrue, Completed
<1>4. CASE latest # NoFrame
  BY <1>1, <1>4 DEF TypeOK, FramesAreTrue
<1>5. snapshot # NoFrame => Completed(snapshot) \in Nat /\ Completed(snapshot) <= Len(rows)
  BY <1>1 DEF TypeOK, FramesAreTrue
<1>6. ASSUME NEW i \in 1..Len(pipe)
      PROVE  Completed(pipe[i]) \in Nat /\ Completed(pipe[i]) <= Len(rows)
  <2>1. pipe[i] \in Frames /\ IsTrue(pipe[i])
    BY DEF TypeOK, FramesAreTrue
  <2> QED BY <1>1, <2>1
<1>7. Completed(latest) \in Nat /\ Completed(latest) <= Len(rows)
  BY <1>2, <1>3, <1>4 DEF Completed
<1> QED BY <1>5, <1>6, <1>7

LEMMA PublishStep ==
    ASSUME LiveInv, publish_test_event
    PROVE  LiveInv'
<1> USE DEF LiveInv
<1> DEFINE fr == Frame(rows, unpub.flow, unpub.verdict)
<1>1. /\ unpub # NoRow /\ unpub' = NoRow
      /\ rows' = rows /\ server' = server /\ snapshot' = snapshot /\ latest' = latest
      /\ shown' = shown
      /\ pipe' = IF Subscribed THEN Append(pipe, fr) ELSE pipe
  BY DEF publish_test_event
<1>2. /\ unpub.flow \in Flows \cup {NoFlow} /\ unpub.verdict \in Verdicts \cup {NoVerdict}
      /\ EndsWith(unpub.flow, unpub.verdict)
  BY <1>1 DEF TypeOK, Row, LastIsUnpublished, EndsWith
<1>3. fr \in Frames /\ IsTrue(fr) /\ Completed(fr) = Len(rows)
  BY <1>2, NewFrame
<1> HIDE DEF fr
<1>4. PICK g \in Frames : g = fr
  BY <1>3
<1>5. pipe \in Seq(Frames) /\ Len(rows) \in Nat
  BY DEF TypeOK
<1>6. pipe' \in Seq(Frames)
  BY <1>1, <1>3, <1>5
<1>7. TypeOK'
  BY <1>1, <1>6 DEF TypeOK, publish_test_event
<1>8. LastIsUnpublished' /\ RequestIsSound' /\ ShownRowsWereTrue'
  BY <1>1 DEF LastIsUnpublished, RequestIsSound, Subscribed, ShownRowsWereTrue, Completed
<1>9. \A i \in 1..Len(pipe') : pipe'[i] = g \/ (i \in 1..Len(pipe) /\ pipe'[i] = pipe[i])
  BY <1>1, <1>4, <1>5
<1>10. FramesAreTrue'
  <2>1. \A i \in 1..Len(pipe') : IsTrue(pipe'[i])
    BY <1>3, <1>4, <1>9 DEF FramesAreTrue
  <2> QED BY <1>1, <2>1 DEF FramesAreTrue, IsTrue
<1>11. FramesAreInOrder'
  <2>1. Completed(g) = Len(rows)
    BY <1>3, <1>4
  <2>2. \A i, j \in 1..Len(pipe') : i < j =>
          i \in 1..Len(pipe) /\ pipe'[i] = pipe[i]
    BY <1>1, <1>5
  <2>3. \A i, j \in 1..Len(pipe') : i < j => Completed(pipe'[i]) <= Completed(pipe'[j])
    BY <1>9, <2>1, <2>2, NotAhead DEF FramesAreInOrder
  <2>4. \A i \in 1..Len(pipe') : Completed(latest) <= Completed(pipe'[i])
    BY <1>9, <2>1, NotAhead DEF FramesAreInOrder
  <2>5. snapshot # NoFrame =>
          /\ Completed(latest) <= Completed(snapshot)
          /\ \A i \in 1..Len(pipe') : Completed(snapshot) <= Completed(pipe'[i])
    BY <1>9, <2>1, NotAhead DEF FramesAreInOrder
  <2> QED BY <1>1, <2>3, <2>4, <2>5 DEF FramesAreInOrder, Completed
<1> QED BY <1>7, <1>8, <1>10, <1>11

LEMMA EventsStep ==
    ASSUME LiveInv, execution_events
    PROVE  LiveInv'
<1> USE DEF LiveInv
<1>1. /\ rows' = rows /\ unpub' = unpub /\ latest' = latest /\ shown' = shown
      /\ server' = "snapshotted" /\ pipe' = <<>>
      /\ snapshot' = Frame(rows, NoFlow, NoVerdict)
  BY DEF execution_events
<1>2. PICK fr \in Frames : fr = snapshot' /\ IsTrue(fr) /\ Completed(fr) = Len(rows)
                           /\ fr # NoFrame
  BY <1>1, NewFrame
<1>3. TypeOK'
  BY <1>1, <1>2 DEF TypeOK, execution_events, SSEPhases
<1>4. LastIsUnpublished' /\ RequestIsSound' /\ ShownRowsWereTrue'
  BY <1>1, <1>2 DEF LastIsUnpublished, RequestIsSound, ShownRowsWereTrue, Completed
<1>5. FramesAreTrue'
  BY <1>1, <1>2 DEF FramesAreTrue, IsTrue
<1>6. FramesAreInOrder'
  <2>1. Completed(latest) <= Completed(fr)
    BY <1>2, NotAhead
  <2> QED BY <1>1, <1>2, <2>1 DEF FramesAreInOrder, Completed
<1> QED BY <1>3, <1>4, <1>5, <1>6

LEMMA YieldStep ==
    ASSUME LiveInv, yield_snapshot
    PROVE  LiveInv'
<1> USE DEF LiveInv
<1>1. /\ rows' = rows /\ unpub' = unpub /\ latest' = latest /\ shown' = shown
      /\ server = "subscribed" /\ server' = "streaming" /\ snapshot' = NoFrame
      /\ pipe' = <<snapshot>> \o pipe
  BY DEF yield_snapshot
<1>2. snapshot \in Frames /\ snapshot # NoFrame /\ pipe \in Seq(Frames)
  BY <1>1 DEF TypeOK, RequestIsSound
<1>3. /\ pipe' \in Seq(Frames) /\ Len(pipe') = Len(pipe) + 1 /\ pipe'[1] = snapshot
      /\ \A i \in 2..Len(pipe') : i - 1 \in 1..Len(pipe) /\ pipe'[i] = pipe[i - 1]
  BY <1>1, <1>2
<1>4. TypeOK'
  BY <1>1, <1>3 DEF TypeOK, yield_snapshot, SSEPhases
<1>5. LastIsUnpublished' /\ RequestIsSound' /\ ShownRowsWereTrue'
  BY <1>1 DEF LastIsUnpublished, RequestIsSound, Subscribed, ShownRowsWereTrue, Completed
<1>6. Len(pipe) \in Nat
  BY <1>2
<1>7. FramesAreTrue'
  <2>1. ASSUME NEW i \in 1..Len(pipe') PROVE IsTrue(pipe'[i])
    <3>1. CASE i = 1
      BY <1>2, <1>3, <3>1 DEF FramesAreTrue
    <3>2. CASE i \in 2..Len(pipe')
      BY <1>3, <3>2 DEF FramesAreTrue
    <3> QED BY <1>3, <1>6, <3>1, <3>2
  <2> QED BY <1>1, <2>1 DEF FramesAreTrue, IsTrue
<1>8. FramesAreInOrder'
  <2>1. ASSUME NEW i \in 1..Len(pipe') PROVE Completed(latest) <= Completed(pipe'[i])
    <3>1. CASE i = 1
      BY <1>2, <1>3, <3>1 DEF FramesAreInOrder
    <3>2. CASE i \in 2..Len(pipe')
      BY <1>3, <3>2 DEF FramesAreInOrder
    <3> QED BY <1>3, <1>6, <3>1, <3>2
  <2>2. ASSUME NEW i \in 1..Len(pipe'), NEW j \in 1..Len(pipe'), i < j
        PROVE  Completed(pipe'[i]) <= Completed(pipe'[j])
    <3>1. j \in 2..Len(pipe')
      BY <2>2
    <3>2. CASE i = 1
      BY <1>2, <1>3, <3>1, <3>2 DEF FramesAreInOrder
    <3>3. CASE i \in 2..Len(pipe')
      <4>1. i - 1 < j - 1
        BY <2>2
      <4> QED BY <1>3, <3>1, <3>3, <4>1 DEF FramesAreInOrder
    <3> QED BY <1>3, <1>6, <3>2, <3>3
  <2> QED BY <1>1, <2>1, <2>2 DEF FramesAreInOrder, Completed
<1> QED BY <1>4, <1>5, <1>7, <1>8

\* The page takes the frame at the head of the pipe, which is not behind it.
LEMMA ApplyEventStep ==
    ASSUME LiveInv, applyEvent
    PROVE  LiveInv' /\ Completed(latest') >= Completed(latest)
<1> USE DEF LiveInv
<1> DEFINE ev == Head(pipe)
<1>1. /\ rows' = rows /\ unpub' = unpub /\ server' = server /\ snapshot' = snapshot
      /\ server = "streaming" /\ pipe # <<>> /\ pipe' = Tail(pipe)
      /\ latest' = ev
      /\ shown' = IF ev.flow = NoFlow THEN shown
                  ELSE [shown EXCEPT ![ev.flow] = ev.verdict]
  BY DEF applyEvent
<1>2. /\ pipe \in Seq(Frames) /\ Len(pipe) \in Nat \ {0} /\ pipe' \in Seq(Frames)
      /\ Len(pipe') = Len(pipe) - 1 /\ ev = pipe[1]
      /\ \A i \in 1..Len(pipe') : i + 1 \in 1..Len(pipe) /\ pipe'[i] = pipe[i + 1]
  BY <1>1 DEF TypeOK
<1> HIDE DEF ev
<1>3. /\ ev \in Frames /\ ev # NoFrame /\ IsTrue(ev)
      /\ ev.flow \in Flows \cup {NoFlow} /\ ev.verdict \in Verdicts \cup {NoVerdict}
  <2>1. ev \in Frames /\ IsTrue(ev)
    BY <1>2 DEF FramesAreTrue
  <2> QED BY <2>1, CompletedType DEF Frames
<1>4. /\ Completed(latest) \in Nat /\ Completed(ev) \in Nat
      /\ Completed(latest) <= Completed(ev) /\ Completed(ev) = ev.counters.completed
  BY <1>2, <1>3, NotAhead, CompletedType DEF FramesAreInOrder
<1>5. TypeOK'
  <2>1. shown' \in [Flows -> Verdicts \cup {NoVerdict}]
    BY <1>1, <1>3 DEF TypeOK
  <2>2. conn' \in ConnStates
    BY DEF applyEvent, NextConn, ConnStates, TypeOK
  <2> QED BY <1>1, <1>2, <1>3, <2>1, <2>2 DEF TypeOK, applyEvent
<1>6. LastIsUnpublished' /\ RequestIsSound'
  BY <1>1 DEF LastIsUnpublished, RequestIsSound, Subscribed
<1>7. FramesAreTrue'
  <2>1. snapshot = NoFrame
    BY <1>1 DEF RequestIsSound
  <2>2. \A i \in 1..Len(pipe') : IsTrue(pipe'[i])
    BY <1>2 DEF FramesAreTrue
  <2> QED BY <1>1, <1>3, <2>1, <2>2 DEF FramesAreTrue, IsTrue
<1>8. FramesAreInOrder'
  <2>1. snapshot' = NoFrame
    BY <1>1 DEF RequestIsSound
  <2>2. ASSUME NEW i \in 1..Len(pipe') PROVE Completed(ev) <= Completed(pipe'[i])
    <3>1. i + 1 \in 1..Len(pipe) /\ 1 < i + 1 /\ pipe'[i] = pipe[i + 1] /\ 1 \in 1..Len(pipe)
      BY <1>2
    <3> QED BY <1>2, <3>1 DEF FramesAreInOrder
  <2>3. ASSUME NEW i \in 1..Len(pipe'), NEW j \in 1..Len(pipe'), i < j
        PROVE  Completed(pipe'[i]) <= Completed(pipe'[j])
    <3>1. i + 1 < j + 1
      BY <2>3
    <3> QED BY <1>2, <3>1 DEF FramesAreInOrder
  <2> QED BY <1>1, <2>1, <2>2, <2>3 DEF FramesAreInOrder, Completed
<1>9. ShownRowsWereTrue'
  <2>1. Completed(latest)' = Completed(ev)
    BY <1>1 DEF Completed
  <2>2. ASSUME NEW f \in Flows, shown'[f] # NoVerdict
        PROVE  \E i \in 1..Completed(ev) : rows[i] = [flow |-> f, verdict |-> shown'[f]]
    <3>1. CASE shown'[f] = shown[f]
      <4>1. PICK i \in 1..Completed(latest) : rows[i] = [flow |-> f, verdict |-> shown[f]]
        BY <2>2, <3>1 DEF ShownRowsWereTrue
      <4> QED BY <1>4, <3>1, <4>1
    <3>2. CASE shown'[f] # shown[f]
      <4>1. f = ev.flow /\ f # NoFlow /\ shown'[f] = ev.verdict
        BY <1>1, <1>3, <3>2, LiveViewAssumption DEF TypeOK
      <4>2. /\ Completed(ev) \in 1..Len(rows)
            /\ rows[Completed(ev)].flow = f /\ rows[Completed(ev)].verdict = shown'[f]
        BY <1>3, <1>4, <4>1 DEF IsTrue
      <4>3. rows[Completed(ev)] \in Row
        BY <4>2 DEF TypeOK
      <4>4. rows[Completed(ev)] = [flow |-> f, verdict |-> shown'[f]]
        BY <4>2, <4>3 DEF Row
      <4> QED BY <1>4, <4>2, <4>4
    <3> QED BY <3>1, <3>2
  <2> QED BY <1>1, <2>1, <2>2 DEF ShownRowsWereTrue
<1>10. Completed(latest') >= Completed(latest)
  BY <1>1, <1>4
<1> QED BY <1>5, <1>6, <1>7, <1>8, <1>9, <1>10

\* The steps that neither make nor show a frame: the subscription, the kill
\* button, a lost frame, and the ends of connections.
LEMMA QuietStep ==
    ASSUME LiveInv,
           \/ publish_fails \/ subscribe \/ kill_clicked \/ kill_confirmed
           \/ connection_lost \/ stream_lost \/ UNCHANGED vars
    PROVE  LiveInv' /\ latest' = latest
<1> USE DEF LiveInv, publish_fails, subscribe, kill_clicked, kill_confirmed,
            connection_lost, stream_lost, disconnect, vars
<1>1. /\ rows' = rows /\ latest' = latest /\ shown' = shown
      /\ unpub' \in {unpub, NoRow}
      /\ \/ snapshot' = snapshot /\ pipe' = pipe
         \/ snapshot' = NoFrame /\ pipe' = <<>>
  OBVIOUS
<1>2. TypeOK'
  <2>1. server' \in SSEPhases
    BY DEF TypeOK, SSEPhases
  <2>2. conn' \in ConnStates
    BY DEF TypeOK, ConnStates
  <2>3. killing' \in BOOLEAN
    BY DEF TypeOK
  <2>4. drops' \in Nat
    BY DEF TypeOK
  <2> HIDE DEF publish_fails, subscribe, kill_clicked, kill_confirmed, connection_lost,
               stream_lost, disconnect, vars
  <2>5. snapshot' \in Frames \cup {NoFrame} /\ pipe' \in Seq(Frames)
    <3>1. <<>> \in Seq(Frames)
      OBVIOUS
    <3> QED BY <1>1, <3>1 DEF TypeOK
  <2> QED BY <1>1, <2>1, <2>2, <2>3, <2>4, <2>5 DEF TypeOK
<1>3. LastIsUnpublished'
  BY <1>1 DEF LastIsUnpublished
<1>4. RequestIsSound'
  BY DEF RequestIsSound, Subscribed
<1>5. FramesAreTrue'
  BY <1>1 DEF FramesAreTrue, IsTrue
<1>6. FramesAreInOrder'
  BY <1>1 DEF FramesAreInOrder, Completed
<1>7. ShownRowsWereTrue'
  BY <1>1 DEF ShownRowsWereTrue, Completed
<1> QED BY <1>1, <1>2, <1>3, <1>4, <1>5, <1>6, <1>7

LEMMA ReloadStep ==
    ASSUME LiveInv, reload
    PROVE  LiveInv' /\ latest' = NoFrame
<1> USE DEF LiveInv, reload
<1>1. TypeOK'
  <2>1. shown' \in [Flows -> Verdicts \cup {NoVerdict}] /\ pipe' \in Seq(Frames)
    OBVIOUS
  <2>2. server' \in SSEPhases /\ conn' \in ConnStates
    BY DEF SSEPhases, ConnStates
  <2>3. drops' \in Nat
    BY DEF TypeOK
  <2> QED BY <2>1, <2>2, <2>3 DEF TypeOK
<1>2. LastIsUnpublished' /\ RequestIsSound'
  BY DEF LastIsUnpublished, RequestIsSound
<1>3. FramesAreTrue' /\ FramesAreInOrder' /\ ShownRowsWereTrue'
  BY DEF FramesAreTrue, FramesAreInOrder, ShownRowsWereTrue
<1> QED BY <1>1, <1>2, <1>3

-----------------------------------------------------------------------------
LEMMA LiveInit == Init => LiveInv
<1> SUFFICES ASSUME Init PROVE LiveInv
  OBVIOUS
<1> USE DEF Init
<1>1. TypeOK
  <2>1. /\ shown \in [Flows -> Verdicts \cup {NoVerdict}]
        /\ pipe \in Seq(Frames) /\ rows \in Seq(Row)
    OBVIOUS
  <2>2. server \in SSEPhases /\ conn \in ConnStates
    BY DEF SSEPhases, ConnStates
  <2> QED BY <2>1, <2>2 DEF TypeOK
<1>2. LastIsUnpublished /\ RequestIsSound
  BY DEF LastIsUnpublished, RequestIsSound
<1>3. FramesAreTrue /\ FramesAreInOrder /\ ShownRowsWereTrue
  BY DEF FramesAreTrue, FramesAreInOrder, ShownRowsWereTrue
<1> QED BY <1>1, <1>2, <1>3 DEF LiveInv

\* Every step keeps the invariant, and none takes the page's counters back.
LEMMA LiveStep ==
    ASSUME LiveInv, [Next]_vars
    PROVE  /\ LiveInv'
           /\ latest' # NoFrame => Completed(latest') >= Completed(latest)
<1>1. Completed(latest) \in Nat
  BY NotAhead
<1>2. CASE \/ publish_fails \/ subscribe \/ kill_clicked \/ kill_confirmed
           \/ connection_lost \/ stream_lost \/ UNCHANGED vars
  BY <1>1, <1>2, QuietStep
<1>3. CASE \E f \in Flows, v \in Verdicts : commit_row(f, v)
  <2>1. latest' = latest
    BY <1>3 DEF commit_row
  <2> QED BY <1>1, <1>3, <2>1, CommitRowStep
<1>4. CASE publish_test_event
  <2>1. latest' = latest
    BY <1>4 DEF publish_test_event
  <2> QED BY <1>1, <1>4, <2>1, PublishStep
<1>5. CASE execution_events
  <2>1. latest' = latest
    BY <1>5 DEF execution_events
  <2> QED BY <1>1, <1>5, <2>1, EventsStep
<1>6. CASE yield_snapshot
  <2>1. latest' = latest
    BY <1>6 DEF yield_snapshot
  <2> QED BY <1>1, <1>6, <2>1, YieldStep
<1>7. CASE applyEvent
  BY <1>7, ApplyEventStep
<1>8. CASE reload
  BY <1>8, ReloadStep
<1> QED BY <1>2, <1>3, <1>4, <1>5, <1>6, <1>7, <1>8 DEF Next, endpoint_step

\* The inductive invariant holds of every run and every page.
THEOREM LiveInvariant == Spec => []LiveInv
<1>1. LiveInv /\ [Next]_vars => LiveInv'
  BY LiveStep
<1> QED BY <1>1, LiveInit, PTL DEF Spec

\* What the page shows was true at one moment of the run, however frames,
\* snapshots, reconnects and the worker's commits interleave.
THEOREM PageWasTrueTheorem == Spec => []PageWasTrue
<1>1. ASSUME LiveInv PROVE PageWasTrue
  <2>1. CountersWereTrue
    <3>1. latest # NoFrame => latest \in Frames /\ IsTrue(latest)
      BY <1>1 DEF LiveInv, FramesAreTrue, TypeOK
    <3> QED BY <3>1, CompletedType DEF CountersWereTrue, IsTrue
  <2> QED BY <1>1, <2>1 DEF LiveInv, PageWasTrue
<1>2. LiveInv => PageWasTrue
  BY <1>1
<1> QED BY <1>2, LiveInvariant, PTL

\* The page's counters never go back while it stays open, across snapshots,
\* buffered frames and reconnects.
THEOREM CountersNeverRegressTheorem == Spec => CountersNeverRegress
<1>1. LiveInv /\ [Next]_vars =>
        [latest' # NoFrame => Completed(latest') >= Completed(latest)]_vars
  BY LiveStep
<1> QED BY <1>1, LiveInvariant, PTL DEF Spec, CountersNeverRegress
=============================================================================
