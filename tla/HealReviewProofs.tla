-------------------------- MODULE HealReviewProofs --------------------------
(***************************************************************************)
(* Proofs about HealReview, for any flows, page objects, graphs, scores,   *)
(* thresholds and parser limits and any number of heals, crashes and       *)
(* reviews: the audit table is complete as far as the parser reads, and no *)
(* unsure rewrite gets into the script repository without a reviewer.      *)
(***************************************************************************)
EXTENDS HealReview, Integers, SequenceTheorems, TLAPS

\* The entries of a sequence.
Entries(s) == {s[i] : i \in 1..Len(s)}

\* The entries of a sequence that pass the parser's validation, and those the
\* parser keeps of a journal.
Fit(s) == {e \in Entries(s) : valid_entry(e)}
KeptOf(j) == Fit(journal_items(j))

\* How many entries are read of a journal of n that is not too large.
Cut(n) == IF n > MAX_ENTRIES THEN MAX_ENTRIES ELSE n

\* Two entries tell the same heal; what became of it may differ.
Same(h, e) ==
    /\ h.element_key = e.element_key /\ h.after_chain = e.after_chain
    /\ h.confidence = e.confidence /\ h.live_match_count = e.live_match_count

Sure(h) == h.confidence >= High /\ h.live_match_count = 1

\* The table has the heal e.
Recorded(e) == \E h \in Audited : Same(h, e)

\* What a journal calls an auto_heal was decided by the score and the count.
HealsWereDecided ==
    \A f \in Flows : \A e \in Entries(journal[f]) : e.outcome = "auto_heal" => Sure(e)

\* While its journal is ingested a job has each kept entry still to come or in
\* its session, and no other; once it has committed the table has them all, and
\* still has when it was acked, unless the journal is lost.
JobIsSound(f) ==
    /\ job[f].pc = "ingest" =>
         KeptOf(journal[f]) = Fit(job[f].left) \cup Entries(job[f].pending)
    /\ job[f].pc = "committed" \/ (job[f].pc = "done" /\ f \notin lost) =>
         \A e \in KeptOf(journal[f]) : Recorded(e)

JobsAreSound == \A f \in Flows : JobIsSound(f)

RequestsAreSound == \A q \in Requests : req[q] # Idle => req[q].id \in DOMAIN audit

\* The rewrite of a to c is on record; it was sure or approved.
OnRecord(a, c) ==
    \/ \E h \in Audited : h.element_key = a /\ h.after_chain = c
    \/ \E f \in Flows : job[f].pc # "done" /\ \E e \in KeptOf(journal[f]) :
         e.element_key = a /\ e.after_chain = c

WasSure(a, c) ==
    \/ <<a, c>> \in approved
    \/ \E h \in Audited : h.element_key = a /\ h.after_chain = c /\ Sure(h)
    \/ \E f \in Flows : \E e \in Entries(journal[f]) :
         e.element_key = a /\ e.after_chain = c /\ Sure(e)

\* Both, but for the journals that were lost or are too large to be parsed.
Sound(a, c) ==
    /\ lost # {} \/ WasSure(a, c)
    /\ lost # {} \/ (\E f \in Flows : Outgrown(f)) \/ OnRecord(a, c)

RewritesAreSound ==
    \A l \in Lines : pages[l] # generated[l] =>
      l = FirstLine[AttrAt[l]] /\ Sound(AttrAt[l], pages[l])

HealInv ==
    /\ TypeOK
    /\ HealsWereDecided
    /\ JobsAreSound
    /\ RequestsAreSound
    /\ RewritesAreSound

-----------------------------------------------------------------------------
(* Entries *)

LEMMA EntriesOfAppend ==
    ASSUME NEW S, NEW s \in Seq(S), NEW e \in S
    PROVE  Entries(Append(s, e)) = Entries(s) \cup {e}
<1> DEFINE t == Append(s, e)
<1>1. /\ Len(s) \in Nat /\ Len(t) = Len(s) + 1 /\ t[Len(s) + 1] = e
      /\ \A i \in 1..Len(s) : t[i] = s[i]
  OBVIOUS
<1> HIDE DEF t
<1>2. \A i \in 1..Len(t) : i \in 1..Len(s) \/ i = Len(s) + 1
  BY <1>1
<1>3. Len(s) + 1 \in 1..Len(t) /\ \A i \in 1..Len(s) : i \in 1..Len(t)
  BY <1>1
<1>4. Entries(t) \subseteq Entries(s) \cup {e}
  BY <1>1, <1>2 DEF Entries
<1>5. Entries(s) \cup {e} \subseteq Entries(t)
  BY <1>1, <1>3 DEF Entries
<1> QED BY <1>4, <1>5 DEF t

LEMMA EntriesOfTail ==
    ASSUME NEW S, NEW s \in Seq(S), s # <<>>
    PROVE  Head(s) \in S /\ Tail(s) \in Seq(S) /\ Entries(s) = {Head(s)} \cup Entries(Tail(s))
<1> DEFINE t == Tail(s)
<1>1. /\ Len(s) \in Nat \ {0} /\ t \in Seq(S) /\ Len(t) = Len(s) - 1
      /\ Head(s) = s[1] /\ Head(s) \in S
      /\ \A i \in 1..Len(t) : t[i] = s[i + 1]
  OBVIOUS
<1> HIDE DEF t
<1>2. Entries(s) \subseteq {Head(s)} \cup Entries(t)
  <2> SUFFICES ASSUME NEW i \in 1..Len(s), i # 1 PROVE s[i] \in Entries(t)
    BY <1>1 DEF Entries
  <2>1. i - 1 \in 1..Len(t) /\ t[i - 1] = s[i]
    BY <1>1
  <2> QED BY <2>1 DEF Entries
<1>3. ASSUME NEW i \in 1..Len(t) PROVE t[i] \in Entries(s)
  <2>1. i + 1 \in 1..Len(s) /\ t[i] = s[i + 1]
    BY <1>1
  <2> QED BY <2>1 DEF Entries
<1>4. Head(s) \in Entries(s)
  <2>1. 1 \in 1..Len(s)
    BY <1>1
  <2> QED BY <1>1, <2>1 DEF Entries
<1>5. {Head(s)} \cup Entries(t) \subseteq Entries(s)
  BY <1>3, <1>4 DEF Entries
<1> QED BY <1>1, <1>2, <1>5 DEF t

LEMMA EntriesOfConcat ==
    ASSUME NEW S, NEW s \in Seq(S), NEW t \in Seq(S)
    PROVE  Entries(s \o t) = Entries(s) \cup Entries(t)
<1> DEFINE u == s \o t
<1>1. /\ Len(s) \in Nat /\ Len(t) \in Nat /\ Len(u) = Len(s) + Len(t)
      /\ \A i \in 1..Len(s) : u[i] = s[i]
      /\ \A i \in 1..Len(t) : u[Len(s) + i] = t[i]
  OBVIOUS
<1> HIDE DEF u
<1>2. ASSUME NEW i \in 1..Len(u) PROVE u[i] \in Entries(s) \cup Entries(t)
  <2>1. CASE i \in 1..Len(s)
    BY <1>1, <2>1 DEF Entries
  <2>2. CASE i > Len(s)
    <3>1. i - Len(s) \in 1..Len(t) /\ u[i] = t[i - Len(s)]
      <4>1. i - Len(s) \in 1..Len(t) /\ i = Len(s) + (i - Len(s))
        BY <1>1, <2>2
      <4> QED BY <1>1, <4>1
    <3> QED BY <3>1 DEF Entries
  <2> QED BY <1>1, <2>1, <2>2
<1>3. ASSUME NEW i \in 1..Len(s) PROVE s[i] \in Entries(u)
  <2>1. i \in 1..Len(u) /\ s[i] = u[i]
    BY <1>1
  <2> QED BY <2>1 DEF Entries
<1>4. ASSUME NEW i \in 1..Len(t) PROVE t[i] \in Entries(u)
  <2>1. Len(s) + i \in 1..Len(u) /\ t[i] = u[Len(s) + i]
    BY <1>1
  <2> QED BY <2>1 DEF Entries
<1>5. Entries(u) \subseteq Entries(s) \cup Entries(t)
  BY <1>2 DEF Entries
<1>6. Entries(s) \cup Entries(t) \subseteq Entries(u)
  BY <1>3, <1>4 DEF Entries
<1> QED BY <1>5, <1>6 DEF u

\* The parser reads a prefix of the journal, or nothing.
LEMMA ItemsAre ==
    ASSUME NEW S, NEW j \in Seq(S)
    PROVE  /\ journal_items(j) \in Seq(S)
           /\ Len(j) > MAX_SIZE => Entries(journal_items(j)) = {}
           /\ Len(j) <= MAX_SIZE =>
                Entries(journal_items(j)) = {j[i] : i \in 1..Cut(Len(j))}
<1>1. Len(j) \in Nat /\ MAX_SIZE \in Nat /\ MAX_ENTRIES \in Nat
  BY HealAssumption
<1>2. CASE Len(j) > MAX_SIZE
  <2>1. journal_items(j) = <<>>
    BY <1>2 DEF journal_items
  <2>2. Entries(<<>>) = {} /\ <<>> \in Seq(S)
    BY DEF Entries
  <2>3. ~(Len(j) <= MAX_SIZE)
    BY <1>1, <1>2
  <2> QED BY <1>2, <2>1, <2>2, <2>3
<1>3. CASE Len(j) <= MAX_SIZE
  <2>1. PICK n : n = Cut(Len(j))
    OBVIOUS
  <2>2. n \in 0..Len(j)
    BY <1>1, <2>1 DEF Cut
  <2>3. ~(Len(j) > MAX_SIZE)
    BY <1>1, <1>3
  <2>4. journal_items(j) = SubSeq(j, 1, n)
    BY <2>1, <2>3 DEF journal_items, Cut
  <2>5. PICK t : t = SubSeq(j, 1, n)
    OBVIOUS
  <2>6. t \in Seq(S) /\ Len(t) = n /\ \A i \in 1..n : t[i] = j[i]
    <3>1. \A i \in 1..n : i \in 1..Len(j) /\ j[i] \in S
      BY <1>1, <2>2
    <3> QED BY <1>1, <2>2, <2>5, <3>1
  <2>7. Entries(t) = {j[i] : i \in 1..n}
    BY <2>6 DEF Entries
  <2> QED BY <2>1, <2>3, <2>4, <2>5, <2>6, <2>7
<1> QED BY <1>1, <1>2, <1>3

\* A journal that grows keeps what was kept of it, until it is too large.
LEMMA ItemsOfAppend ==
    ASSUME NEW S, NEW j \in Seq(S), NEW e \in S, NEW t, t = Append(j, e)
    PROVE  /\ Len(j) > MAX_SIZE => Len(t) > MAX_SIZE
           /\ Len(t) > MAX_SIZE \/ KeptOf(j) \subseteq KeptOf(t)
<1>1. /\ Len(j) \in Nat /\ MAX_SIZE \in Nat /\ MAX_ENTRIES \in Nat
      /\ t \in Seq(S) /\ Len(t) = Len(j) + 1 /\ \A i \in 1..Len(j) : t[i] = j[i]
  BY HealAssumption
<1>2. ASSUME ~(Len(t) > MAX_SIZE) PROVE KeptOf(j) \subseteq KeptOf(t)
  <2>1. Len(t) <= MAX_SIZE /\ Len(j) <= MAX_SIZE
    BY <1>1, <1>2
  <2>2. \A i \in 1..Cut(Len(j)) : i \in 1..Cut(Len(t)) /\ i \in 1..Len(j)
    BY <1>1 DEF Cut
  <2>3. /\ Entries(journal_items(j)) = {j[i] : i \in 1..Cut(Len(j))}
        /\ Entries(journal_items(t)) = {t[i] : i \in 1..Cut(Len(t))}
    BY <1>1, <2>1, ItemsAre
  <2>4. Entries(journal_items(j)) \subseteq Entries(journal_items(t))
    BY <1>1, <2>2, <2>3
  <2> QED BY <2>4 DEF KeptOf, Fit
<1> QED BY <1>1, <1>2

\* What the parser keeps is in the journal and has passed the validation.
LEMMA KeptIsFit ==
    ASSUME NEW S, NEW j \in Seq(S)
    PROVE  KeptOf(j) \subseteq Entries(j)
<1>1. Len(j) \in Nat /\ MAX_SIZE \in Nat /\ MAX_ENTRIES \in Nat
  BY HealAssumption
<1>2. \A i \in 1..Cut(Len(j)) : i \in 1..Len(j)
  BY <1>1 DEF Cut
<1>3. Entries(journal_items(j)) \subseteq Entries(j)
  <2>1. CASE Len(j) > MAX_SIZE
    BY <2>1, ItemsAre
  <2>2. CASE Len(j) <= MAX_SIZE
    <3>1. Entries(journal_items(j)) = {j[i] : i \in 1..Cut(Len(j))}
      BY <2>2, ItemsAre
    <3> QED BY <1>2, <3>1 DEF Entries
  <2> QED BY <1>1, <2>1, <2>2
<1> QED BY <1>3 DEF KeptOf, Fit

\* The rows of the table and the entries of a journal, as the module has them.
LEMMA EntriesAre ==
    ASSUME TypeOK
    PROVE  /\ Audited = Entries(audit)
           /\ \A f \in Flows : Journalled(f) = Entries(journal[f])
           /\ \A h \in Audited : h \in Entry
           /\ \A f \in Flows : \A e \in Entries(journal[f]) : e \in Entry
           /\ \A f \in Flows : Kept(f) = KeptOf(journal[f])
<1>1. audit \in Seq(Entry) /\ DOMAIN audit = 1..Len(audit)
  BY DEF TypeOK
<1>2. ASSUME NEW f \in Flows PROVE journal[f] \in Seq(Entry) /\ DOMAIN journal[f] = 1..Len(journal[f])
  BY DEF TypeOK
<1>3. ASSUME NEW f \in Flows PROVE Kept(f) = KeptOf(journal[f])
  <2>1. PICK t : t = journal_items(journal[f])
    OBVIOUS
  <2>2. t \in Seq(Entry)
    BY <1>2, <2>1, ItemsAre
  <2>3. DOMAIN t = 1..Len(t)
    BY <2>2
  <2> QED BY <2>1, <2>3, Zenon DEF Kept, KeptOf, Fit, Entries
<1>4. /\ Audited = Entries(audit) /\ \A h \in Audited : h \in Entry
  BY <1>1 DEF Audited, Entries
<1>5. /\ \A f \in Flows : Journalled(f) = Entries(journal[f])
      /\ \A f \in Flows : \A e \in Entries(journal[f]) : e \in Entry
  BY <1>2 DEF Journalled, Entries
<1> QED BY <1>3, <1>4, <1>5

-----------------------------------------------------------------------------
(* What every step keeps *)

\* The table still has every heal it had.
AuditIsKept == \A h \in Audited : \E g \in Audited' : Same(g, h)

LEMMA RecordedIsKept ==
    ASSUME AuditIsKept, NEW e, Recorded(e)
    PROVE  Recorded(e)'
  BY DEF AuditIsKept, Recorded, Same

\* No journal shrinks, and no job ends with an entry that is not on record.
JournalsGrow ==
    \A f \in Flows :
      /\ Entries(journal[f]) \subseteq Entries(journal'[f])
      /\ Outgrown(f) => Outgrown(f)'
      /\ Outgrown(f)' \/ KeptOf(journal[f]) \subseteq KeptOf(journal'[f])
JobsEndOnRecord ==
    \A f \in Flows : job'[f].pc = "done" =>
      job[f].pc = "done" \/ \A e \in KeptOf(journal[f]) : Recorded(e)'

\* A rewrite that was sound is sound, unless a journal is lost.
LEMMA RewriteIsKept ==
    ASSUME AuditIsKept, approved \subseteq approved', lost \subseteq lost',
           JournalsGrow, JobsEndOnRecord, NEW a, NEW c, Sound(a, c)
    PROVE  Sound(a, c)'
<1> SUFFICES ASSUME lost' = {} PROVE Sound(a, c)'
  BY DEF Sound
<1>1. lost = {} /\ WasSure(a, c)
  BY DEF Sound
<1>2. (\E f \in Flows : Outgrown(f)') \/ OnRecord(a, c)'
  <2> SUFFICES ASSUME \A f \in Flows : ~Outgrown(f)' PROVE OnRecord(a, c)'
    OBVIOUS
  <2>1. \A f \in Flows : KeptOf(journal[f]) \subseteq KeptOf(journal'[f])
    BY DEF JournalsGrow
  <2>2. OnRecord(a, c)
    <3>1. \A f \in Flows : ~Outgrown(f)
      BY DEF JournalsGrow
    <3> QED BY <1>1, <3>1 DEF Sound
  <2>3. CASE \E h \in Audited : h.element_key = a /\ h.after_chain = c
    <3>1. PICK h \in Audited : h.element_key = a /\ h.after_chain = c
      BY <2>3
    <3>2. PICK g \in Audited' : Same(g, h)
      BY DEF AuditIsKept
    <3> QED BY <3>1, <3>2 DEF OnRecord, Same
  <2>4. CASE \E f \in Flows : job[f].pc # "done" /\ \E e \in KeptOf(journal[f]) :
               e.element_key = a /\ e.after_chain = c
    <3>1. PICK f \in Flows : job[f].pc # "done" /\ \E e \in KeptOf(journal[f]) :
            e.element_key = a /\ e.after_chain = c
      BY <2>4
    <3>2. PICK e \in KeptOf(journal[f]) : e.element_key = a /\ e.after_chain = c
      BY <3>1
    <3>3. CASE job'[f].pc # "done"
      <4>1. e \in KeptOf(journal'[f])
        BY <2>1
      <4> QED BY <3>2, <3>3, <4>1 DEF OnRecord
    <3>4. CASE job'[f].pc = "done"
      <4>1. Recorded(e)'
        BY <3>1, <3>4 DEF JobsEndOnRecord
      <4>2. PICK g \in Audited' : Same(g, e)
        BY <4>1 DEF Recorded, Same
      <4> QED BY <3>2, <4>2 DEF OnRecord, Same
    <3> QED BY <3>3, <3>4
  <2> QED BY <2>2, <2>3, <2>4 DEF OnRecord
<1>3. WasSure(a, c)'
  <2>1. CASE <<a, c>> \in approved
    BY <2>1 DEF WasSure
  <2>2. CASE \E h \in Audited : h.element_key = a /\ h.after_chain = c /\ Sure(h)
    <3>1. PICK h \in Audited : h.element_key = a /\ h.after_chain = c /\ Sure(h)
      BY <2>2
    <3>2. PICK g \in Audited' : Same(g, h)
      BY DEF AuditIsKept
    <3>3. g.element_key = a /\ g.after_chain = c /\ Sure(g)
      BY <3>1, <3>2 DEF Same, Sure
    <3> QED BY <3>3 DEF WasSure, Sure
  <2>3. CASE \E f \in Flows : \E e \in Entries(journal[f]) :
               e.element_key = a /\ e.after_chain = c /\ Sure(e)
    <3>1. PICK f \in Flows : \E e \in Entries(journal[f]) :
            e.element_key = a /\ e.after_chain = c /\ Sure(e)
      BY <2>3
    <3>2. PICK e \in Entries(journal[f]) :
            e.element_key = a /\ e.after_chain = c /\ Sure(e)
      BY <3>1
    <3>3. e \in Entries(journal'[f])
      BY DEF JournalsGrow
    <3> QED BY <3>2, <3>3 DEF WasSure, Sure, Entries
  <2> QED BY <1>1, <2>1, <2>2, <2>3 DEF WasSure
<1> QED BY <1>2, <1>3 DEF Sound

\* So are all of them, if the step rewrites at most the first line of k, soundly.
LEMMA RewritesAreKept ==
    ASSUME RewritesAreSound, generated' = generated, lost \subseteq lost',
           AuditIsKept, approved \subseteq approved', JournalsGrow, JobsEndOnRecord,
           NEW k, NEW c,
           \A l \in Lines :
             \/ pages'[l] = pages[l]
             \/ /\ AttrAt[l] = k /\ l = FirstLine[k] /\ pages'[l] = c
                /\ OnRecord(k, c)' /\ WasSure(k, c)'
    PROVE  RewritesAreSound'
<1> SUFFICES ASSUME NEW l \in Lines, pages'[l] # generated'[l]
             PROVE  l = FirstLine[AttrAt[l]] /\ Sound(AttrAt[l], pages[l])'
  BY DEF RewritesAreSound
<1>1. PICK a, d : a = AttrAt[l] /\ d = pages'[l]
  OBVIOUS
<1>2. CASE pages'[l] = pages[l]
  <2>1. l = FirstLine[a] /\ Sound(a, d)
    BY <1>1, <1>2 DEF RewritesAreSound
  <2>2. Sound(a, d)'
    BY <2>1, RewriteIsKept
  <2> QED BY <1>1, <2>1, <2>2 DEF Sound, OnRecord, WasSure
<1>3. CASE AttrAt[l] = k /\ l = FirstLine[k] /\ pages'[l] = c /\ OnRecord(k, c)' /\ WasSure(k, c)'
  <2>1. Sound(a, d)'
    BY <1>1, <1>3 DEF Sound, OnRecord, WasSure
  <2> QED BY <1>1, <1>3, <2>1 DEF Sound, OnRecord, WasSure
<1> QED BY <1>2, <1>3

\* A step that leaves the journals alone.
LEMMA JournalsStay ==
    ASSUME journal' = journal
    PROVE  JournalsGrow
  BY DEF JournalsGrow, Outgrown

\* A job is sound after a step that leaves it and its journal alone.
LEMMA OtherJob ==
    ASSUME NEW f \in Flows, JobIsSound(f), job'[f] = job[f], journal'[f] = journal[f],
           lost \subseteq lost', AuditIsKept
    PROVE  JobIsSound(f)'
<1>1. KeptOf(journal'[f]) = KeptOf(journal[f])
  OBVIOUS
<1>2. job'[f].pc = "committed" \/ (job'[f].pc = "done" /\ f \notin lost') =>
        \A e \in KeptOf(journal'[f]) : Recorded(e)'
  BY RecordedIsKept DEF JobIsSound
<1> QED BY <1>1, <1>2 DEF JobIsSound

-----------------------------------------------------------------------------
(* The steps *)

\* A step of a flow's job that touches nothing but the job, whatever it does to
\* the list of lost flows.
LEMMA JobOnlyStep ==
    ASSUME HealInv, NEW f \in Flows, NEW j,
           j \in [pc: {"queued", "running", "ingest", "committed", "done"},
                  left: Seq(Entry), pending: Seq(Entry)],
           job' = [job EXCEPT ![f] = j],
           pages' = pages, generated' = generated, graph' = graph, journal' = journal,
           audit' = audit, req' = req, approved' = approved, lost \subseteq lost',
           lost' \subseteq Flows, crashes' \in 0..MaxCrashes,
           j.pc = "ingest" => KeptOf(journal[f]) = Fit(j.left) \cup Entries(j.pending),
           j.pc = "committed" \/ (j.pc = "done" /\ f \notin lost') =>
              \A e \in KeptOf(journal[f]) : Recorded(e)
    PROVE  HealInv'
<1> USE DEF HealInv
<1>1. job'[f] = j /\ \A g \in Flows : g # f => job'[g] = job[g]
  BY DEF TypeOK
<1>2. TypeOK'
  BY DEF TypeOK
<1>3. AuditIsKept
  BY DEF AuditIsKept, Audited, Same
<1>4. \A e : Recorded(e)' <=> Recorded(e)
  BY DEF Recorded, Audited, Same
<1>5. ASSUME NEW g \in Flows PROVE JobIsSound(g)'
  <2>1. CASE g # f
    BY <1>1, <1>3, <2>1, OtherJob DEF JobsAreSound
  <2>2. CASE g = f
    BY <1>1, <1>4, <2>2 DEF JobIsSound
  <2> QED BY <2>1, <2>2
<1>6. HealsWereDecided' /\ RequestsAreSound'
  BY DEF HealsWereDecided, RequestsAreSound, Sure
<1>7. RewritesAreSound'
  <2>1. CASE lost' # {}
    BY <2>1 DEF RewritesAreSound, Sound
  <2>2. CASE lost' = {}
    <3>1. JobsEndOnRecord
      BY <1>1, <1>4, <2>2 DEF JobsEndOnRecord
    <3> QED BY <1>3, <3>1, JournalsStay, RewritesAreKept
  <2> QED BY <2>1, <2>2
<1> QED BY <1>2, <1>5, <1>6, <1>7 DEF JobsAreSound

\* A job that has just come to pc.
LEMMA NewJob ==
    ASSUME NEW pc \in {"queued", "running", "ingest", "committed", "done"}
    PROVE  /\ Job(pc) \in [pc: {"queued", "running", "ingest", "committed", "done"},
                           left: Seq(Entry), pending: Seq(Entry)]
           /\ Job(pc).pc = pc
  BY DEF Job

LEMMA StartStep ==
    ASSUME HealInv, NEW f \in Flows, start_job(f)
    PROVE  HealInv'
<1>1. Job("running").pc = "running"
      /\ Job("running") \in [pc: {"queued", "running", "ingest", "committed", "done"},
                             left: Seq(Entry), pending: Seq(Entry)]
  BY NewJob
<1>2. lost' \subseteq Flows /\ crashes' \in 0..MaxCrashes
  BY DEF HealInv, TypeOK, start_job
<1> QED BY <1>1, <1>2, JobOnlyStep DEF start_job

LEMMA AckStep ==
    ASSUME HealInv, NEW f \in Flows, ack_job(f)
    PROVE  HealInv'
<1>1. Job("done").pc = "done"
      /\ Job("done") \in [pc: {"queued", "running", "ingest", "committed", "done"},
                          left: Seq(Entry), pending: Seq(Entry)]
  BY NewJob
<1>2. lost' \subseteq Flows /\ crashes' \in 0..MaxCrashes
  BY DEF HealInv, TypeOK, ack_job
<1>3. \A e \in KeptOf(journal[f]) : Recorded(e)
  BY DEF HealInv, JobsAreSound, JobIsSound, ack_job
<1> QED BY <1>1, <1>2, <1>3, JobOnlyStep DEF ack_job

LEMMA AbortStep ==
    ASSUME HealInv, NEW f \in Flows, abort_flow(f)
    PROVE  HealInv'
<1>1. Job("done").pc = "done"
      /\ Job("done") \in [pc: {"queued", "running", "ingest", "committed", "done"},
                          left: Seq(Entry), pending: Seq(Entry)]
  BY NewJob
<1>2. lost \subseteq lost' /\ lost' \subseteq Flows /\ crashes' \in 0..MaxCrashes /\ f \in lost'
  BY DEF HealInv, TypeOK, abort_flow
<1> QED BY <1>1, <1>2, JobOnlyStep DEF abort_flow

LEMMA ParseStep ==
    ASSUME HealInv, NEW f \in Flows, parse_heal_journal(f)
    PROVE  HealInv'
<1>1. PICK t : t = journal_items(journal[f])
  OBVIOUS
<1> DEFINE j == [pc |-> "ingest", left |-> t, pending |-> <<>>]
<1>2. journal[f] \in Seq(Entry) /\ lost' \subseteq Flows /\ crashes' \in 0..MaxCrashes
  BY DEF HealInv, TypeOK, parse_heal_journal
<1>3. t \in Seq(Entry)
  BY <1>1, <1>2, ItemsAre
<1>4. /\ j \in [pc: {"queued", "running", "ingest", "committed", "done"},
                left: Seq(Entry), pending: Seq(Entry)]
      /\ j.pc = "ingest" /\ j.left = t /\ j.pending = <<>>
  BY <1>3
<1>5. KeptOf(journal[f]) = Fit(j.left) \cup Entries(j.pending)
  <2>1. Entries(<<>>) = {}
    BY DEF Entries
  <2>2. KeptOf(journal[f]) = Fit(t)
    BY <1>1 DEF KeptOf
  <2> QED BY <1>4, <2>1, <2>2
<1>6. job' = [job EXCEPT ![f] = j]
  <2>1. [Job("ingest") EXCEPT !.left = t] = j
    BY DEF Job
  <2> QED BY <1>1, <2>1 DEF parse_heal_journal
<1> HIDE DEF j
<1> QED BY <1>2, <1>4, <1>5, <1>6, JobOnlyStep DEF parse_heal_journal

LEMMA SkipStep ==
    ASSUME HealInv, NEW f \in Flows, skip_entry(f)
    PROVE  HealInv'
<1>1. PICK e, t : e = Head(job[f].left) /\ t = Tail(job[f].left)
  OBVIOUS
<1>2. /\ job[f].pc = "ingest" /\ job[f].left # <<>> /\ ~valid_entry(e)
      /\ job[f].left \in Seq(Entry) /\ job[f].pending \in Seq(Entry)
      /\ lost' \subseteq Flows /\ crashes' \in 0..MaxCrashes
  BY <1>1 DEF HealInv, TypeOK, skip_entry
<1> DEFINE j == [pc |-> "ingest", left |-> t, pending |-> job[f].pending]
<1>3. t \in Seq(Entry) /\ Fit(job[f].left) = Fit(t)
  <2>1. PICK s : s = job[f].left
    OBVIOUS
  <2>2. s \in Seq(Entry) /\ s # <<>> /\ e = Head(s) /\ t = Tail(s)
    BY <1>1, <1>2, <2>1
  <2>3. t \in Seq(Entry) /\ Entries(s) = {e} \cup Entries(t)
    BY <2>2, EntriesOfTail
  <2> QED BY <1>2, <2>1, <2>3 DEF Fit
<1>4. /\ j \in [pc: {"queued", "running", "ingest", "committed", "done"},
                left: Seq(Entry), pending: Seq(Entry)]
      /\ j.pc = "ingest" /\ j.left = t /\ j.pending = job[f].pending
  BY <1>2, <1>3
<1>5. KeptOf(journal[f]) = Fit(j.left) \cup Entries(j.pending)
  <2>1. KeptOf(journal[f]) = Fit(job[f].left) \cup Entries(job[f].pending)
    BY <1>2 DEF HealInv, JobsAreSound, JobIsSound
  <2> QED BY <1>3, <1>4, <2>1
<1>6. job' = [job EXCEPT ![f] = j]
  <2>1. [job[f] EXCEPT !.left = t] = j
    BY <1>2 DEF HealInv, TypeOK
  <2>2. job' = [job EXCEPT ![f] = [job[f] EXCEPT !.left = t]]
    BY <1>1 DEF skip_entry
  <2> QED BY <2>1, <2>2
<1> HIDE DEF j
<1> QED BY <1>2, <1>4, <1>5, <1>6, JobOnlyStep DEF skip_entry

LEMMA HealStep ==
    ASSUME HealInv, NEW f \in Flows, NEW l \in Lines, heal(f, l)
    PROVE  HealInv'
<1> USE DEF HealInv
<1>0. PICK a \in Attrs : a = AttrAt[l]
  BY HealAssumption
<1>1. PICK best \in (Chains \X Scores) \cup {<<NoChain, <<0, 0>>>>} :
        journal' = [journal EXCEPT ![f] = Append(journal[f],
           [element_key |-> a, after_chain |-> best[1], confidence |-> best[2][1],
            live_match_count |-> best[2][2],
            outcome |-> heal_outcome(best[2][1], best[2][2]),
            reviewed_outcome |-> "none"])]
  BY <1>0 DEF heal
<1> DEFINE e == [element_key |-> a, after_chain |-> best[1], confidence |-> best[2][1],
                 live_match_count |-> best[2][2],
                 outcome |-> heal_outcome(best[2][1], best[2][2]),
                 reviewed_outcome |-> "none"]
<1>2. /\ best[1] \in Chains \cup {NoChain} /\ best[2][1] \in Nat /\ best[2][2] \in Nat
  BY HealAssumption
<1>3. /\ heal_outcome(best[2][1], best[2][2]) \in Outcomes
      /\ heal_outcome(best[2][1], best[2][2]) = "auto_heal" =>
           best[2][1] >= High /\ best[2][2] = 1
  BY <1>2, HealAssumption DEF heal_outcome, Outcomes
<1>4. e \in Entry /\ (e.outcome = "auto_heal" => Sure(e))
  BY <1>2, <1>3 DEF Entry, Sure
<1> HIDE DEF e
<1>5. /\ job[f].pc = "running" /\ pages' = pages /\ generated' = generated /\ graph' = graph
      /\ audit' = audit /\ job' = job /\ req' = req /\ approved' = approved
      /\ lost' = lost /\ crashes' = crashes
      /\ journal' = [journal EXCEPT ![f] = Append(journal[f], e)]
  BY <1>1 DEF heal, e
<1>6. /\ journal \in [Flows -> Seq(Entry)] /\ journal[f] \in Seq(Entry)
      /\ journal' \in [Flows -> Seq(Entry)]
      /\ journal'[f] = Append(journal[f], e)
      /\ \A g \in Flows : g # f => journal'[g] = journal[g]
  BY <1>4, <1>5 DEF TypeOK
<1>7. Entries(journal'[f]) = Entries(journal[f]) \cup {e}
  BY <1>4, <1>6, EntriesOfAppend
<1>8. TypeOK'
  BY <1>5, <1>6 DEF TypeOK
<1>9. HealsWereDecided'
  <2>1. ASSUME NEW g \in Flows, NEW h \in Entries(journal'[g]), h.outcome = "auto_heal"
        PROVE  Sure(h)
    BY <1>4, <1>6, <1>7, <2>1 DEF HealsWereDecided
  <2> QED BY <2>1 DEF HealsWereDecided, Sure, Entries
<1>10. AuditIsKept
  BY <1>5 DEF AuditIsKept, Audited, Same
<1>11. ASSUME NEW g \in Flows PROVE JobIsSound(g)'
  <2>1. CASE g # f
    BY <1>5, <1>6, <1>10, <2>1, OtherJob DEF JobsAreSound
  <2>2. CASE g = f
    BY <1>5, <2>2 DEF JobIsSound
  <2> QED BY <2>1, <2>2
<1>12. RequestsAreSound'
  BY <1>5 DEF RequestsAreSound
<1>13. RewritesAreSound'
  <2>1. JournalsGrow
    <3>1. ASSUME NEW g \in Flows
          PROVE  /\ Entries(journal[g]) \subseteq Entries(journal'[g])
                 /\ Outgrown(g) => Outgrown(g)'
                 /\ Outgrown(g)' \/ KeptOf(journal[g]) \subseteq KeptOf(journal'[g])
      <4>1. CASE g # f
        BY <1>6, <4>1 DEF Outgrown
      <4>2. CASE g = f
        <5>1. PICK t : t = journal'[f]
          OBVIOUS
        <5>2. /\ Len(journal[f]) > MAX_SIZE => Len(t) > MAX_SIZE
              /\ Len(t) > MAX_SIZE \/ KeptOf(journal[f]) \subseteq KeptOf(t)
          BY <1>4, <1>6, <5>1, ItemsOfAppend
        <5> QED BY <1>7, <4>2, <5>1, <5>2 DEF Outgrown
      <4> QED BY <4>1, <4>2
    <3> QED BY <3>1 DEF JournalsGrow
  <2>2. JobsEndOnRecord
    BY <1>5 DEF JobsEndOnRecord
  <2> QED BY <1>5, <1>10, <2>1, <2>2, RewritesAreKept
<1> QED BY <1>8, <1>9, <1>11, <1>12, <1>13 DEF JobsAreSound

\* What a rewrite and a write-back do to the tree and to the graph.
LEMMA RewriteIsTyped ==
    ASSUME NEW p \in [Lines -> Chains], NEW a \in Attrs, NEW c \in Chains \cup {NoChain}
    PROVE  /\ rewrite_page_object_locator(p, a, c) \in [Lines -> Chains]
           /\ \A l \in Lines :
                \/ rewrite_page_object_locator(p, a, c)[l] = p[l]
                \/ /\ AttrAt[l] = a /\ l = FirstLine[a]
                   /\ rewrite_page_object_locator(p, a, c)[l] = c
<1>1. FirstLine[a] \in Lines /\ AttrAt[FirstLine[a]] = a
  BY HealAssumption
<1> QED BY <1>1 DEF rewrite_page_object_locator

LEMMA HistoryIsTyped ==
    ASSUME NEW g \in [Keys -> Chains], NEW k, NEW c \in Chains \cup {NoChain}
    PROVE  append_element_history(g, k, c) \in [Keys -> Chains]
  BY DEF append_element_history

LEMMA IngestStep ==
    ASSUME HealInv, NEW f \in Flows, ingest_heal_journal(f)
    PROVE  HealInv'
<1> USE DEF HealInv
<1>1. PICK e : e = Head(job[f].left)
  OBVIOUS
<1>2. /\ job[f].pc = "ingest" /\ job[f].left # <<>> /\ valid_entry(e)
      /\ job[f].left \in Seq(Entry) /\ job[f].pending \in Seq(Entry)
      /\ journal \in [Flows -> Seq(Entry)]
      /\ pages \in [Lines -> Chains] /\ graph \in [Keys -> Chains]
  BY <1>1 DEF TypeOK, ingest_heal_journal
<1>3. /\ e \in Entry /\ Tail(job[f].left) \in Seq(Entry)
      /\ Fit(job[f].left) = {e} \cup Fit(Tail(job[f].left))
  <2>1. PICK s, t : s = job[f].left /\ t = Tail(s)
    OBVIOUS
  <2>2. s \in Seq(Entry) /\ s # <<>> /\ e = Head(s)
    BY <1>1, <1>2, <2>1
  <2>3. e \in Entry /\ t \in Seq(Entry) /\ Entries(s) = {e} \cup Entries(t)
    BY <2>1, <2>2, EntriesOfTail
  <2> QED BY <1>2, <2>1, <2>3 DEF Fit
<1>4. /\ Append(job[f].pending, e) \in Seq(Entry)
      /\ Entries(Append(job[f].pending, e)) = Entries(job[f].pending) \cup {e}
  BY <1>2, <1>3, EntriesOfAppend
<1>5. /\ job'[f].pc = "ingest" /\ job'[f].left = Tail(job[f].left)
      /\ job'[f].pending = Append(job[f].pending, e)
      /\ \A g \in Flows : g # f => job'[g] = job[g]
  BY <1>1, <1>2 DEF TypeOK, ingest_heal_journal
<1>6. job' \in [Flows -> [pc: {"queued", "running", "ingest", "committed", "done"},
                          left: Seq(Entry), pending: Seq(Entry)]]
  BY <1>1, <1>2, <1>3, <1>4 DEF TypeOK, ingest_heal_journal
<1>7. /\ generated' = generated /\ journal' = journal /\ audit' = audit /\ req' = req
      /\ approved' = approved /\ lost' = lost /\ crashes' = crashes
  BY DEF ingest_heal_journal
<1>8. e.element_key \in Attrs /\ e.after_chain \in Chains \cup {NoChain}
  BY <1>3 DEF Entry
<1>9. /\ pages' = IF e.outcome = "auto_heal"
                  THEN rewrite_page_object_locator(pages, e.element_key, e.after_chain)
                  ELSE pages
      /\ graph' = graph \/ graph' = append_element_history(graph, e.element_key, e.after_chain)
  BY <1>1 DEF ingest_heal_journal
<1>10. TypeOK'
  <2>1. pages' \in [Lines -> Chains] /\ graph' \in [Keys -> Chains]
    <3>1. rewrite_page_object_locator(pages, e.element_key, e.after_chain) \in [Lines -> Chains]
      BY <1>2, <1>8, RewriteIsTyped
    <3>2. append_element_history(graph, e.element_key, e.after_chain) \in [Keys -> Chains]
      BY <1>2, <1>8, HistoryIsTyped
    <3> QED BY <1>2, <1>9, <3>1, <3>2
  <2> QED BY <1>6, <1>7, <2>1 DEF TypeOK
<1>11. AuditIsKept
  BY <1>7 DEF AuditIsKept, Audited, Same
<1>12. KeptOf(journal[f]) = Fit(job[f].left) \cup Entries(job[f].pending)
  BY <1>2 DEF JobsAreSound, JobIsSound
<1>13. ASSUME NEW g \in Flows PROVE JobIsSound(g)'
  <2>1. CASE g # f
    BY <1>5, <1>7, <1>11, <2>1, OtherJob DEF JobsAreSound
  <2>2. CASE g = f
    <3>1. KeptOf(journal'[f]) = Fit(job'[f].left) \cup Entries(job'[f].pending)
      BY <1>3, <1>4, <1>5, <1>7, <1>12
    <3> QED BY <1>5, <2>2, <3>1 DEF JobIsSound
  <2> QED BY <2>1, <2>2
<1>14. HealsWereDecided' /\ RequestsAreSound'
  BY <1>7 DEF HealsWereDecided, RequestsAreSound, Sure
<1>15. RewritesAreSound'
  <2>1. JournalsGrow /\ JobsEndOnRecord
    BY <1>5, <1>7, JournalsStay DEF JobsEndOnRecord
  <2>2. CASE e.outcome # "auto_heal"
    <3>1. pages' = pages
      BY <1>9, <2>2
    <3> QED BY <1>7, <1>11, <2>1, <3>1, RewritesAreKept
  <2>3. CASE e.outcome = "auto_heal"
    <3>1. PICK k, c : k = e.element_key /\ c = e.after_chain
      OBVIOUS
    <3>2. /\ e \in KeptOf(journal'[f]) /\ e \in Entries(journal'[f])
      <4>1. e \in KeptOf(journal'[f])
        BY <1>3, <1>7, <1>12
      <4>2. KeptOf(journal'[f]) \subseteq Entries(journal'[f])
        BY <1>2, <1>7, KeptIsFit
      <4> QED BY <4>1, <4>2
    <3>3. Sure(e)
      BY <1>7, <2>3, <3>2 DEF HealsWereDecided
    <3>4. OnRecord(k, c)' /\ WasSure(k, c)'
      BY <1>5, <3>1, <3>2, <3>3 DEF OnRecord, WasSure, Sure, Entries
    <3>5. pages' = rewrite_page_object_locator(pages, k, c)
      BY <1>9, <2>3, <3>1
    <3>6. \A l \in Lines :
            pages'[l] = pages[l] \/ (AttrAt[l] = k /\ l = FirstLine[k] /\ pages'[l] = c)
      BY <1>2, <1>8, <3>1, <3>5, RewriteIsTyped
    <3> QED BY <1>7, <1>11, <2>1, <3>4, <3>6, RewritesAreKept
  <2> QED BY <2>2, <2>3
<1> QED BY <1>10, <1>13, <1>14, <1>15 DEF JobsAreSound

LEMMA CommitStep ==
    ASSUME HealInv, NEW f \in Flows, commit_result(f)
    PROVE  HealInv'
<1> USE DEF HealInv
<1>1. /\ job[f].pc = "ingest" /\ job[f].left = <<>> /\ audit' = audit \o job[f].pending
      /\ job' = [job EXCEPT ![f] = Job("committed")]
      /\ pages' = pages /\ generated' = generated /\ graph' = graph
      /\ journal' = journal /\ req' = req
      /\ approved' = approved /\ lost' = lost /\ crashes' = crashes
  BY DEF commit_result
<1>2. audit \in Seq(Entry) /\ job[f].pending \in Seq(Entry)
  BY DEF TypeOK
<1>3. /\ audit' \in Seq(Entry) /\ DOMAIN audit \subseteq DOMAIN audit'
      /\ Entries(audit') = Entries(audit) \cup Entries(job[f].pending)
  <2>1. audit' \in Seq(Entry) /\ DOMAIN audit \subseteq DOMAIN audit'
    BY <1>1, <1>2
  <2> QED BY <1>1, <1>2, <2>1, EntriesOfConcat
<1>4. job'[f].pc = "committed" /\ \A g \in Flows : g # f => job'[g] = job[g]
  BY <1>1, NewJob DEF TypeOK
<1>5. TypeOK'
  <2>1. job' \in [Flows -> [pc: {"queued", "running", "ingest", "committed", "done"},
                            left: Seq(Entry), pending: Seq(Entry)]]
    BY <1>1, NewJob DEF TypeOK
  <2> QED BY <1>1, <1>3, <2>1 DEF TypeOK
<1>6. Audited' = Audited \cup Entries(job[f].pending)
  <2>1. Audited = Entries(audit) /\ Audited' = Entries(audit')
    BY <1>2, <1>3 DEF Audited, Entries
  <2> QED BY <1>3, <2>1
<1>7. AuditIsKept
  BY <1>6 DEF AuditIsKept, Same
<1>8. \A e \in KeptOf(journal[f]) : Recorded(e)'
  <2>1. Fit(<<>>) = {}
    BY DEF Entries, Fit
  <2>2. KeptOf(journal[f]) = Entries(job[f].pending)
    BY <1>1, <2>1 DEF JobsAreSound, JobIsSound
  <2> QED BY <1>6, <2>2 DEF Recorded, Same
<1>9. ASSUME NEW g \in Flows PROVE JobIsSound(g)'
  <2>1. CASE g # f
    BY <1>1, <1>4, <1>7, <2>1, OtherJob DEF JobsAreSound
  <2>2. CASE g = f
    BY <1>1, <1>4, <1>8, <2>2 DEF JobIsSound
  <2> QED BY <2>1, <2>2
<1>10. HealsWereDecided' /\ RequestsAreSound'
  BY <1>1, <1>3 DEF HealsWereDecided, RequestsAreSound, Sure
<1>11. RewritesAreSound'
  <2>1. JournalsGrow /\ JobsEndOnRecord
    BY <1>1, <1>4, JournalsStay DEF JobsEndOnRecord
  <2> QED BY <1>1, <1>7, <2>1, RewritesAreKept
<1> QED BY <1>5, <1>9, <1>10, <1>11 DEF JobsAreSound

LEMMA DiesStep ==
    ASSUME HealInv, NEW f \in Flows, worker_dies(f)
    PROVE  HealInv'
<1> USE DEF HealInv
<1>1. Job("queued").pc = "queued"
      /\ Job("queued") \in [pc: {"queued", "running", "ingest", "committed", "done"},
                            left: Seq(Entry), pending: Seq(Entry)]
  BY NewJob
<1>2. /\ job' = [job EXCEPT ![f] = Job("queued")]
      /\ pages' = pages /\ generated' = generated /\ graph' = graph
      /\ audit' = audit /\ req' = req /\ approved' = approved
  BY DEF worker_dies
<1>3. crashes' \in 0..MaxCrashes
  BY HealAssumption DEF TypeOK, worker_dies
<1>4. CASE journal' = journal /\ lost' = lost
  <2>1. lost' \subseteq Flows
    BY <1>4 DEF TypeOK
  <2> QED BY <1>1, <1>2, <1>3, <1>4, <2>1, JobOnlyStep
<1>5. CASE journal' = [journal EXCEPT ![f] = <<>>] /\ lost' = lost \cup {f}
  <2>1. /\ job'[f].pc = "queued" /\ journal'[f] = <<>>
        /\ \A g \in Flows : g # f => job'[g] = job[g] /\ journal'[g] = journal[g]
    BY <1>1, <1>2, <1>5 DEF TypeOK
  <2>2. journal' \in [Flows -> Seq(Entry)]
    BY <1>5 DEF TypeOK
  <2>3. job' \in [Flows -> [pc: {"queued", "running", "ingest", "committed", "done"},
                            left: Seq(Entry), pending: Seq(Entry)]]
    BY <1>1, <1>2 DEF TypeOK
  <2>4. TypeOK'
    BY <1>2, <1>3, <1>5, <2>2, <2>3 DEF TypeOK
  <2>5. AuditIsKept
    BY <1>2 DEF AuditIsKept, Audited, Same
  <2>6. ASSUME NEW g \in Flows PROVE JobIsSound(g)'
    <3>1. CASE g # f
      BY <1>5, <2>1, <2>5, <3>1, OtherJob DEF JobsAreSound
    <3>2. CASE g = f
      BY <2>1, <3>2 DEF JobIsSound
    <3> QED BY <3>1, <3>2
  <2>7. HealsWereDecided'
    <3>1. Entries(<<>>) = {}
      BY DEF Entries
    <3>2. ASSUME NEW g \in Flows, NEW e \in Entries(journal'[g]), e.outcome = "auto_heal"
          PROVE  Sure(e)
      BY <2>1, <3>1, <3>2 DEF HealsWereDecided
    <3> QED BY <3>2 DEF HealsWereDecided, Sure, Entries
  <2>8. RequestsAreSound' /\ RewritesAreSound'
    BY <1>2, <1>5 DEF RequestsAreSound, RewritesAreSound, Sound
  <2> QED BY <2>4, <2>6, <2>7, <2>8 DEF JobsAreSound
<1> QED BY <1>4, <1>5 DEF worker_dies

LEMMA ApplyStep ==
    ASSUME HealInv, NEW q \in Requests, apply_heal(q)
    PROVE  HealInv'
<1> USE DEF HealInv
<1>1. PICK d \in DOMAIN audit :
        /\ req' = [req EXCEPT ![q] = [pc |-> "commit", id |-> d]]
        /\ pages' = rewrite_page_object_locator(pages, audit[d].element_key,
                                                audit[d].after_chain)
        /\ graph' = graph \/ graph' = append_element_history(graph, audit[d].element_key,
                                                             audit[d].after_chain)
        /\ approved' = approved \cup {<<audit[d].element_key, audit[d].after_chain>>}
  BY DEF apply_heal
<1>2. /\ generated' = generated /\ journal' = journal /\ audit' = audit
      /\ job' = job /\ lost' = lost /\ crashes' = crashes
  BY DEF apply_heal
<1>3. /\ audit \in Seq(Entry) /\ DOMAIN audit \subseteq Nat
      /\ pages \in [Lines -> Chains] /\ graph \in [Keys -> Chains]
  BY DEF TypeOK
<1>4. PICK k, c : k = audit[d].element_key /\ c = audit[d].after_chain
  OBVIOUS
<1>5. k \in Attrs /\ c \in Chains \cup {NoChain}
  <2>1. audit[d] \in Entry
    BY <1>3
  <2> QED BY <1>4, <2>1 DEF Entry
<1>6. /\ req' \in [Requests -> [pc: {"commit"}, id: Nat] \cup {Idle}]
      /\ req'[q].id = d /\ \A r \in Requests : r # q => req'[r] = req[r]
  BY <1>1, <1>3 DEF TypeOK
<1>7. TypeOK'
  <2>1. pages' \in [Lines -> Chains]
    BY <1>1, <1>3, <1>4, <1>5, RewriteIsTyped
  <2>2. graph' \in [Keys -> Chains]
    BY <1>1, <1>3, <1>4, <1>5, HistoryIsTyped
  <2>3. approved' \subseteq Attrs \X (Chains \cup {NoChain})
    BY <1>1, <1>4, <1>5 DEF TypeOK
  <2> QED BY <1>2, <1>6, <2>1, <2>2, <2>3 DEF TypeOK
<1>8. AuditIsKept
  BY <1>2 DEF AuditIsKept, Audited, Same
<1>9. HealsWereDecided'
  BY <1>2 DEF HealsWereDecided, Sure
<1>10. JobsAreSound'
  BY <1>2 DEF JobsAreSound, JobIsSound, Recorded, Audited, Same
<1>11. RequestsAreSound'
  BY <1>2, <1>6 DEF RequestsAreSound
<1>12. RewritesAreSound'
  <2>1. approved \subseteq approved' /\ <<k, c>> \in approved'
    BY <1>1, <1>4
  <2>2. \A l \in Lines :
          pages'[l] = pages[l] \/ (AttrAt[l] = k /\ l = FirstLine[k] /\ pages'[l] = c)
    <3>1. pages' = rewrite_page_object_locator(pages, k, c)
      BY <1>1, <1>4
    <3>2. pages \in [Lines -> Chains]
      BY <1>3
    <3> QED BY <1>5, <3>1, <3>2, RewriteIsTyped
  <2>3. OnRecord(k, c)' /\ WasSure(k, c)'
    BY <1>2, <1>4, <2>1 DEF OnRecord, WasSure, Audited
  <2>4. JournalsGrow /\ JobsEndOnRecord
    BY <1>2, JournalsStay DEF JobsEndOnRecord
  <2> QED BY <1>2, <1>8, <2>1, <2>2, <2>3, <2>4, RewritesAreKept
<1> QED BY <1>7, <1>9, <1>10, <1>11, <1>12

\* A step that edits what became of one row of the table.
LEMMA RowStep ==
    ASSUME HealInv, audit' \in Seq(Entry), DOMAIN audit' = DOMAIN audit,
           \A d \in DOMAIN audit : Same(audit'[d], audit[d]),
           pages' = pages, generated' = generated, graph' = graph, journal' = journal,
           job' = job, approved' = approved, lost' = lost, crashes' = crashes,
           req' \in [Requests -> [pc: {"commit"}, id: Nat] \cup {Idle}],
           \A r \in Requests : req'[r] = req[r] \/ req'[r] = Idle
    PROVE  HealInv'
<1> USE DEF HealInv
<1>1. TypeOK'
  BY DEF TypeOK
<1>2. AuditIsKept
  BY DEF AuditIsKept, Audited
<1>3. HealsWereDecided'
  BY DEF HealsWereDecided, Sure
<1>4. ASSUME NEW f \in Flows PROVE JobIsSound(f)'
  BY <1>2, OtherJob DEF JobsAreSound
<1>5. RequestsAreSound'
  BY DEF RequestsAreSound
<1>6. RewritesAreSound'
  <2>1. JournalsGrow /\ JobsEndOnRecord
    BY JournalsStay DEF JobsEndOnRecord
  <2> QED BY <1>2, <2>1, RewritesAreKept
<1> QED BY <1>1, <1>3, <1>4, <1>5, <1>6 DEF JobsAreSound

LEMMA SetsAnEntry ==
    ASSUME NEW S, NEW s \in Seq(S), NEW d \in DOMAIN s, NEW e \in S
    PROVE  [s EXCEPT ![d] = e] \in Seq(S) /\ DOMAIN [s EXCEPT ![d] = e] = DOMAIN s
  OBVIOUS

LEMMA CommitAppliedStep ==
    ASSUME HealInv, NEW q \in Requests, commit_applied(q)
    PROVE  HealInv'
<1> USE DEF HealInv
<1>1. req[q] # Idle /\ req' = [req EXCEPT ![q] = Idle]
  BY DEF commit_applied, Idle
<1>2. PICK d : d = req[q].id
  OBVIOUS
<1>3. d \in DOMAIN audit
  BY <1>1, <1>2 DEF RequestsAreSound
<1>4. audit' = [audit EXCEPT ![d].outcome = "applied"]
  BY <1>2 DEF commit_applied
<1>5. audit \in Seq(Entry) /\ audit[d] \in Entry
  BY <1>3 DEF TypeOK
<1>6. /\ audit' \in Seq(Entry) /\ DOMAIN audit' = DOMAIN audit
  <2>1. [audit[d] EXCEPT !.outcome = "applied"] \in Entry
    BY <1>5 DEF Entry
  <2>2. audit' = [audit EXCEPT ![d] = [audit[d] EXCEPT !.outcome = "applied"]]
    BY <1>4
  <2> QED BY <1>3, <1>5, <2>1, <2>2, SetsAnEntry
<1>7. \A i \in DOMAIN audit : Same(audit'[i], audit[i])
  BY <1>3, <1>4, <1>5 DEF Same, Entry
<1>8. /\ req' \in [Requests -> [pc: {"commit"}, id: Nat] \cup {Idle}]
      /\ \A r \in Requests : req'[r] = req[r] \/ req'[r] = Idle
  BY <1>1 DEF TypeOK
<1> QED BY <1>6, <1>7, <1>8, RowStep DEF commit_applied

LEMMA RaisesStep ==
    ASSUME HealInv, NEW q \in Requests, apply_raises(q)
    PROVE  HealInv'
<1>1. /\ req' \in [Requests -> [pc: {"commit"}, id: Nat] \cup {Idle}]
      /\ \A r \in Requests : req'[r] = req[r] \/ req'[r] = Idle
  BY DEF apply_raises, HealInv, TypeOK
<1>2. /\ audit' \in Seq(Entry) /\ DOMAIN audit' = DOMAIN audit
      /\ \A i \in DOMAIN audit : Same(audit'[i], audit[i])
  BY DEF apply_raises, HealInv, TypeOK, Same
<1> QED BY <1>1, <1>2, RowStep DEF apply_raises

LEMMA RejectStep ==
    ASSUME HealInv, NEW d \in DOMAIN audit, reject_heal(d)
    PROVE  HealInv'
<1>1. audit' = [audit EXCEPT ![d].reviewed_outcome = "rejected"]
  BY DEF reject_heal
<1>2. audit \in Seq(Entry) /\ audit[d] \in Entry
  BY DEF HealInv, TypeOK
<1>3. audit' \in Seq(Entry) /\ DOMAIN audit' = DOMAIN audit
  <2>1. [audit[d] EXCEPT !.reviewed_outcome = "rejected"] \in Entry
    BY <1>2 DEF Entry
  <2>2. audit' = [audit EXCEPT ![d] = [audit[d] EXCEPT !.reviewed_outcome = "rejected"]]
    BY <1>1
  <2> QED BY <1>2, <2>1, <2>2, SetsAnEntry
<1>4. \A i \in DOMAIN audit : Same(audit'[i], audit[i])
  BY <1>1, <1>2 DEF Same, Entry
<1>5. /\ req' \in [Requests -> [pc: {"commit"}, id: Nat] \cup {Idle}]
      /\ \A r \in Requests : req'[r] = req[r] \/ req'[r] = Idle
  BY DEF reject_heal, HealInv, TypeOK
<1> QED BY <1>3, <1>4, <1>5, RowStep DEF reject_heal

LEMMA GenerateStep ==
    ASSUME HealInv, generate_project
    PROVE  HealInv'
<1> USE DEF HealInv
<1>1. /\ pages' \in [Lines -> Chains] /\ generated' = pages'
      /\ graph' = graph /\ journal' = journal /\ audit' = audit /\ job' = job
      /\ req' = req /\ approved' = approved /\ lost' = lost /\ crashes' = crashes
  BY DEF generate_project, page_object_locators
<1>2. TypeOK'
  BY <1>1 DEF TypeOK
<1>3. HealsWereDecided' /\ RequestsAreSound'
  BY <1>1 DEF HealsWereDecided, RequestsAreSound, Sure
<1>4. JobsAreSound'
  BY <1>1 DEF JobsAreSound, JobIsSound, Recorded, Audited, Same
<1>5. RewritesAreSound'
  BY <1>1 DEF RewritesAreSound
<1> QED BY <1>2, <1>3, <1>4, <1>5

LEMMA HealStutters ==
    ASSUME HealInv, UNCHANGED vars
    PROVE  HealInv'
<1> USE DEF HealInv, vars
<1>1. /\ req' \in [Requests -> [pc: {"commit"}, id: Nat] \cup {Idle}]
      /\ \A r \in Requests : req'[r] = req[r] \/ req'[r] = Idle
  BY DEF TypeOK
<1>2. /\ audit' \in Seq(Entry) /\ DOMAIN audit' = DOMAIN audit
      /\ \A i \in DOMAIN audit : Same(audit'[i], audit[i])
  BY DEF TypeOK, Same
<1> QED BY <1>1, <1>2, RowStep

LEMMA HealInit ==
    ASSUME Init
    PROVE  HealInv
<1>1. pages \in [Lines -> Chains] /\ generated = pages /\ graph \in [Keys -> Chains]
  BY DEF Init, page_object_locators
<1>2. /\ journal = [f \in Flows |-> <<>>] /\ audit = <<>>
      /\ job = [f \in Flows |-> Job("queued")] /\ req = [q \in Requests |-> Idle]
      /\ approved = {} /\ lost = {} /\ crashes = 0
  BY DEF Init
<1>3. TypeOK
  <2>1. job \in [Flows -> [pc: {"queued", "running", "ingest", "committed", "done"},
                           left: Seq(Entry), pending: Seq(Entry)]]
    BY <1>2, NewJob
  <2>2. crashes \in 0..MaxCrashes
    BY <1>2, HealAssumption
  <2> QED BY <1>1, <1>2, <2>1, <2>2 DEF TypeOK
<1>4. HealsWereDecided
  <2>1. Entries(<<>>) = {}
    BY DEF Entries
  <2> QED BY <1>2, <2>1 DEF HealsWereDecided
<1>5. JobsAreSound
  BY <1>2, NewJob DEF JobsAreSound, JobIsSound
<1>6. RequestsAreSound /\ RewritesAreSound
  BY <1>1, <1>2 DEF RequestsAreSound, RewritesAreSound
<1> QED BY <1>3, <1>4, <1>5, <1>6 DEF HealInv

-----------------------------------------------------------------------------
(* The theorems *)

LEMMA HealSteps ==
    ASSUME HealInv, [Next]_vars
    PROVE  HealInv'
<1>1. CASE UNCHANGED vars
  BY <1>1, HealStutters
<1>2. ASSUME NEW f \in Flows,
             \/ start_job(f) \/ parse_heal_journal(f)
             \/ skip_entry(f) \/ ingest_heal_journal(f)
             \/ commit_result(f) \/ ack_job(f) \/ worker_dies(f) \/ abort_flow(f)
             \/ \E l \in Lines : heal(f, l)
      PROVE  HealInv'
  BY <1>2, StartStep, ParseStep, SkipStep, IngestStep, CommitStep, AckStep, DiesStep, AbortStep,
     HealStep
<1>3. ASSUME NEW q \in Requests, apply_heal(q) \/ commit_applied(q) \/ apply_raises(q)
      PROVE  HealInv'
  BY <1>3, ApplyStep, CommitAppliedStep, RaisesStep
<1>4. CASE \E d \in DOMAIN audit : reject_heal(d)
  BY <1>4, RejectStep
<1>5. CASE generate_project
  BY <1>5, GenerateStep
<1> QED BY <1>1, <1>2, <1>3, <1>4, <1>5 DEF Next

\* HealInv holds for any number of flows, lines, requests, journal entries and
\* crashes of the worker and any limits of the parser (job.py, run_flow_job;
\* ingest.py; heals.py).
THEOREM HealInvariant == Spec => []HealInv
<1>1. Init => HealInv
  BY HealInit
<1>2. HealInv /\ [Next]_vars => HealInv'
  BY HealSteps
<1> QED BY <1>1, <1>2, PTL DEF Spec

\* Every rewrite of a page object is on record, and so is every entry that the
\* parser keeps of an acked journal, whenever the worker dies in between.  The
\* exceptions are stated: a journal that was torn, not ingested because the run
\* was killed, or made too large by a redelivery (ingest.py, parse_heal_journal,
\* ingest_heal_journal; job.py, run_flow_job).
THEOREM AuditIsCompleteTheorem == Spec => []AuditIsComplete
<1>1. ASSUME HealInv PROVE AuditIsComplete
  <2> USE <1>1 DEF HealInv
  <2>1. \A f \in Flows : Kept(f) = KeptOf(journal[f])
    BY EntriesAre
  <2>2. RewritesAreAudited
    BY <2>1 DEF RewritesAreSound, RewritesAreAudited, Sound, OnRecord
  <2>3. AckedJournalsAreAudited
    BY <2>1 DEF JobsAreSound, JobIsSound, AckedJournalsAreAudited, Recorded, Same
  <2> QED BY <2>2, <2>3 DEF AuditIsComplete
<1> QED BY <1>1, HealInvariant, PTL

\* Unless a reviewer applied it, a rewrite had a sure score and exactly one live
\* match, however deliveries, reviews and regenerations interleave
\* (confidence.py, heal_outcome; ingest.py, ingest_heal_journal).
THEOREM UnreviewedRewritesWereSureTheorem == Spec => []UnreviewedRewritesWereSure
<1>1. ASSUME HealInv PROVE UnreviewedRewritesWereSure
  <2> USE <1>1 DEF HealInv
  <2>1. \A f \in Flows : Journalled(f) = Entries(journal[f])
    BY EntriesAre
  <2>2. ASSUME NEW l \in Lines, pages[l] # generated[l],
               <<AttrAt[l], pages[l]>> \notin approved, lost = {}
        PROVE  \E h \in Audited \cup UNION {Journalled(f) : f \in Flows} :
                 /\ h.element_key = AttrAt[l] /\ h.after_chain = pages[l]
                 /\ h.confidence >= High /\ h.live_match_count = 1
    <3>1. PICK a, c : a = AttrAt[l] /\ c = pages[l]
      OBVIOUS
    <3>2. WasSure(a, c) /\ <<a, c>> \notin approved
      BY <2>2, <3>1 DEF RewritesAreSound, Sound
    <3>3. CASE \E h \in Audited : h.element_key = a /\ h.after_chain = c /\ Sure(h)
      BY <3>1, <3>3 DEF Sure
    <3>4. CASE \E f \in Flows : \E e \in Entries(journal[f]) :
                 e.element_key = a /\ e.after_chain = c /\ Sure(e)
      BY <2>1, <3>1, <3>4 DEF Sure
    <3> QED BY <3>2, <3>3, <3>4 DEF WasSure
  <2> QED BY <2>2 DEF UnreviewedRewritesWereSure
<1> QED BY <1>1, HealInvariant, PTL

=============================================================================
