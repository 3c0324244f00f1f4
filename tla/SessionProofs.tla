--------------------------- MODULE SessionProofs ---------------------------
(***************************************************************************)
(* Proofs about sessions.  Over one file (SessionStore): the types, that   *)
(* labels hold, that no operation leaves a table that cannot be read, that *)
(* history resumes and numbers are fresh, for any number of processes,     *)
(* libraries and faults.  In quai (Quai), which runs such sessions or one  *)
(* in the process: that each answer is its own line's, that a refused      *)
(* mount is taken back, that cells are numbered one by one, and that       *)
(* pages are fetched and diagnostics printed for the line under way.       *)
(***************************************************************************)
EXTENDS Quai, TLAPS, SequenceTheorems

\* The number of a line that has one is a label.
LEMMA NoIsLabel == ASSUME NEW s \in Sessions, s.no <= MaxNo PROVE s.no \in Labels /\ s.no + 1 \in 1..(MaxNo + 1)
BY BoundAssumption DEF Sessions, Labels

\* No two of a session, a file and nothing are mixed up: a file without a state is none.
LEMMA ImageIsAState == ASSUME NEW f \in Images PROVE f # NoState
BY NoStateAssumption DEF Images

\* A session starts empty, at line 1.
LEMMA FreshType == Fresh \in Sessions
<1>1. <<>> \in Tables
  BY DEF Tables
<1>2. NoSnaps \in [Labels -> Answers \union {None}]
  BY DEF NoSnaps
<1> QED
  BY <1>1, <1>2, BoundAssumption DEF Fresh, Sessions

\* A session starts from what a file holds.
LEMMA LoadedType == ASSUME NEW f \in Images \union {NoState} PROVE Loaded(f) \in Sessions
<1>1. NoSnaps \in [Labels -> Answers \union {None}]
  BY DEF NoSnaps
<1>2. CASE f = NoState
  BY <1>2, FreshType DEF Loaded
<1>3. CASE f # NoState
  BY <1>1, <1>3 DEF Loaded, Images, Sessions
<1> QED
  BY <1>2, <1>3

\* What is saved of a session is an image.
LEMMA ImageType == ASSUME NEW s \in Sessions PROVE Image(s) \in Images /\ Torn(s) \in Images
<1>1. <<>> \in Tables
  BY DEF Tables
<1> QED
  BY <1>1 DEF Image, Saving, Torn, Images, Sessions

\* A table with a definition at its end is a table.
LEMMA AppendType == ASSUME NEW t \in Tables, NEW d \in Definitions PROVE Append(t, d) \in Tables
BY AppendProperties DEF Tables

\* The line as a definition.
LEMMA LabelledType ==
    ASSUME NEW s \in Sessions, s.no <= MaxNo, NEW uses \in Names \union {None}, NEW text \in Bodies
    PROVE  [name |-> s.no, uses |-> uses, text |-> text] \in Definitions
           /\ Labelled(s, uses, text) \in Tables
<1>1. [name |-> s.no, uses |-> uses, text |-> text] \in Definitions
  BY NoIsLabel DEF Definitions, Names
<1>2. s.defs \in Tables
  BY DEF Sessions
<1> QED
  BY <1>1, <1>2, AppendType DEF Labelled

\* A number, a table and an answer more give a session.
LEMMA NumberedType ==
    ASSUME NEW s \in Sessions, s.no <= MaxNo, NEW defs \in Tables, NEW answer \in Answers \union {None}
    PROVE  Numbered(s, defs, answer) \in Sessions
<1>1. [s.snaps EXCEPT ![s.no] = answer] \in [Labels -> Answers \union {None}]
  BY DEF Sessions
<1>2. s.no + 1 \in 1..(MaxNo + 1)
  BY NoIsLabel
<1>3. s.ragged \in BOOLEAN
  BY DEF Sessions
<1> QED
  BY <1>1, <1>2, <1>3 DEF Numbered, Sessions

\* commit gives a session.
LEMMA CommittedType ==
    ASSUME NEW s \in Sessions, s.no <= MaxNo, NEW uses \in Names \union {None},
           NEW text \in Texts, NEW answer \in Answers
    PROVE  Committed(s, uses, text, answer) \in Sessions
<1> DEFINE defs == IF Referenceable(s, uses, text) THEN Labelled(s, uses, text) ELSE s.defs
<1>1. defs \in Tables
  BY LabelledType DEF Referenceable, Sessions
<1> QED
  BY <1>1, NumberedType DEF Committed

\* record_frozen gives a session.
LEMMA ReplayedType ==
    ASSUME NEW s \in Sessions, s.no <= MaxNo, NEW n \in Labels
    PROVE  Replayed(s, n) \in Sessions
<1>1. s.defs \in Tables /\ s.snaps[n] \in Answers \union {None}
  BY DEF Sessions
<1> QED
  BY <1>1, NumberedType DEF Replayed

\* add_def gives a session.
LEMMA ExtendedType ==
    ASSUME NEW s \in Sessions, s.no <= MaxNo, NEW d \in Definitions
    PROVE  Extended(s, d) \in Sessions
<1>1. Append(s.defs, d) \in Tables
  BY AppendType DEF Sessions
<1>2. Blank \in Answers
  BY DEF Answers
<1> QED
  BY <1>1, <1>2, NumberedType DEF Extended

\* seed_defs gives a session.
LEMMA SeededType == ASSUME NEW s \in Sessions, NEW lib \in Tables PROVE Seeded(s, lib) \in Sessions
BY DEF Seeded, Sessions

\* What overlapping saves leave is an image.
LEMMA OverlaidType ==
    ASSUME NEW s \in Sessions, NEW f \in Images \union {NoState}
    PROVE  Overlaid(f, s) \subseteq Images
<1>1. CASE f \in {NoState, Image(s)}
  BY <1>1, ImageType DEF Overlaid
<1>2. CASE f \notin {NoState, Image(s)}
  <2>1. s.defs \in Tables /\ f.defs \in Tables /\ s.ragged \in BOOLEAN /\ s.no \in 1..(MaxNo + 1)
    BY <1>2 DEF Sessions, Images
  <2>2. ASSUME NEW k \in DOMAIN f.defs
        PROVE  Saving(s, s.defs \o SubSeq(f.defs, k, Len(f.defs))) \in Images
    <3>1. k \in Int /\ Len(f.defs) \in Int /\ k >= 1
      BY <2>1 DEF Tables
    <3>2. \A i \in k..Len(f.defs) : f.defs[i] \in Definitions
      BY <2>1, <3>1 DEF Tables
    <3>3. SubSeq(f.defs, k, Len(f.defs)) \in Tables
      BY <3>1, <3>2, SubSeqProperties DEF Tables
    <3>4. s.defs \o SubSeq(f.defs, k, Len(f.defs)) \in Tables
      BY <2>1, <3>3, ConcatProperties DEF Tables
    <3> QED
      BY <2>1, <3>4 DEF Saving, Images
  <2> QED
    BY <1>2, <2>2, ImageType DEF Overlaid
<1> QED
  BY <1>1, <1>2

\* What a cut save leaves is an image or nothing.
LEMMA CutsType == ASSUME NEW s \in Sessions PROVE Cuts(s) \subseteq Images \union {NoState}
<1>1. s.defs \in Tables /\ s.ragged \in BOOLEAN /\ s.no \in 1..(MaxNo + 1)
  BY DEF Sessions
<1>2. ASSUME NEW k \in 0..Len(s.defs)
      PROVE  Saving(s, SubSeq(s.defs, 1, k)) \in Images
  <2>1. k \in Int /\ \A i \in 1..k : s.defs[i] \in Definitions
    BY <1>1 DEF Tables
  <2>2. SubSeq(s.defs, 1, k) \in Tables
    BY <2>1, SubSeqProperties DEF Tables
  <2> QED
    BY <1>1, <2>2 DEF Saving, Images
<1> QED
  BY <1>2, ImageType DEF Cuts
-----------------------------------------------------------------------------
\* The first state.
LEMMA TypeInit == Init => TypeOK
<1> SUFFICES ASSUME Init PROVE TypeOK
  OBVIOUS
<1>1. sess \in [Procs -> Sessions]
  BY FreshType DEF Init
<1>2. queue \in [Procs -> Seq(Libraries)]
  <2>1. <<>> \in Seq(Libraries)
    OBVIOUS
  <2> QED
    BY <2>1 DEF Init
<1> QED
  BY <1>1, <1>2, FaultsAssumption DEF Init, TypeOK

\* A session may start.
LEMMA TypeStart == ASSUME TypeOK, NEW p \in Procs, Start(p) PROVE TypeOK'
<1>1. Loaded(file) \in Sessions
  BY LoadedType DEF TypeOK
<1>2. sess' \in [Procs -> Sessions]
  BY <1>1 DEF TypeOK, Start
<1>3. PICK q \in Starts : /\ queue' = [queue EXCEPT ![p] = q]
                          /\ phase' = [phase EXCEPT ![p] = IF q = <<>> THEN "idle" ELSE "seeding"]
  BY DEF Start
<1>4. q \in Seq(Libraries)
  BY StartsAssumption DEF Libraries
<1>5. queue' \in [Procs -> Seq(Libraries)] /\ phase' \in [Procs -> {"off", "seeding", "idle", "writing"}]
  BY <1>3, <1>4 DEF TypeOK
<1>6. starts' \in 0..MaxStarts
  BY FaultsAssumption DEF TypeOK, Start
<1>7. told' \in [Procs -> SUBSET (Labels \X Texts)] /\ loss' \subseteq Causes
  BY DEF TypeOK, Start, Causes
<1> QED
  BY <1>2, <1>5, <1>6, <1>7 DEF TypeOK, Start

\* An operation that ends with a save.
LEMMA TypePersist ==
    ASSUME TypeOK, NEW p \in Procs, NEW s \in Sessions, Persist(p, s)
    PROVE  /\ phase' \in [Procs -> {"off", "seeding", "idle", "writing"}]
           /\ sess' \in [Procs -> Sessions]
           /\ file' \in Images \union {NoState}
           /\ starts' \in 0..MaxStarts /\ faults' \in 0..MaxFaults
BY DEF TypeOK, Persist

\* A library may be seeded.
LEMMA TypeSeed == ASSUME TypeOK, NEW p \in Procs, Seed(p), queue[p] # <<>> PROVE TypeOK'
<1>1. queue[p] \in Seq(Libraries) /\ sess[p] \in Sessions
  BY DEF TypeOK
<1>2. Head(queue[p]) \in Libraries /\ Tail(queue[p]) \in Seq(Libraries)
  BY <1>1, HeadTailProperties
<1>3. Seeded(sess[p], Head(queue[p])) \in Sessions
  BY <1>1, <1>2, SeededType DEF Libraries
<1>4. queue' \in [Procs -> Seq(Libraries)]
  BY <1>2 DEF TypeOK, Seed
<1>5. loss' \subseteq Causes
  BY DEF TypeOK, Seed, Causes
<1> QED
  BY <1>3, <1>4, <1>5, TypePersist DEF TypeOK, Seed

\* A line that takes its number.
LEMMA TypeTake ==
    ASSUME TypeOK, NEW p \in Procs, NEW s \in Sessions, Take(p, s),
           told' \in [Procs -> SUBSET (Labels \X Texts)], kept' \subseteq Labels
    PROVE  TypeOK'
<1>1. sess[p] \in Sessions
  BY DEF TypeOK
<1>2. used' \subseteq Labels
  BY <1>1, NoIsLabel DEF TypeOK, Take
<1> QED
  BY <1>2, TypePersist DEF TypeOK, Take

\* A question, a replay, a definition and a reset.
LEMMA TypeLine == ASSUME TypeOK, NEW p \in Procs, Line(p) PROVE TypeOK'
<1>1. sess[p] \in Sessions
  BY DEF TypeOK
<1>2. ASSUME NEW u \in Names \union {None}, NEW t \in Asks, Ask(p, u, t) PROVE TypeOK'
  <2>1. t \in Texts /\ t \in Answers
    BY TypedAssumption DEF Answers
  <2>2. sess[p].no <= MaxNo
    BY <1>2 DEF Ask, Take
  <2>3. Committed(sess[p], u, t, t) \in Sessions
    BY <1>1, <2>1, <2>2, CommittedType
  <2>4. sess[p].no \in Labels
    BY <1>1, <2>2, NoIsLabel
  <2>5. told' \in [Procs -> SUBSET (Labels \X Texts)] /\ kept' \subseteq Labels
    BY <1>2, <2>1, <2>4 DEF TypeOK, Ask
  <2> QED
    BY <1>2, <2>3, <2>5, TypeTake DEF Ask
<1>3. ASSUME NEW n \in Labels, Replay(p, n) PROVE TypeOK'
  <2>1. sess[p].no <= MaxNo
    BY <1>3 DEF Replay, Take
  <2>2. Replayed(sess[p], n) \in Sessions
    BY <1>1, <2>1, ReplayedType
  <2> QED
    BY <1>3, <2>2, TypeTake DEF Replay, TypeOK
<1>4. ASSUME NEW d \in Defs, Define(p, d) PROVE TypeOK'
  <2>1. sess[p].no <= MaxNo /\ d \in Definitions
    BY <1>4, TypedAssumption DEF Define, Take
  <2>2. Extended(sess[p], d) \in Sessions
    BY <1>1, <2>1, ExtendedType
  <2> QED
    BY <1>4, <2>2, TypeTake DEF Define, TypeOK
<1>5. ASSUME Reset(p) PROVE TypeOK'
  <2>1. Cleared(sess[p]) \in Sessions
    BY FreshType DEF Cleared
  <2> QED
    BY <1>5, <2>1, TypePersist DEF Reset, TypeOK
<1> QED
  BY <1>2, <1>3, <1>4, <1>5 DEF Line

\* A save, whole or cut, and the end of a session.
LEMMA TypeRest ==
    ASSUME TypeOK, NEW p \in Procs, Write(p) \/ WriteCut(p) \/ Quit(p) \/ Crash(p)
    PROVE  TypeOK'
<1>1. sess[p] \in Sessions
  BY DEF TypeOK
<1>2. Saved(p) => phase' \in [Procs -> {"off", "seeding", "idle", "writing"}]
  BY DEF TypeOK, Saved
<1>3. CASE Write(p)
  <2>1. file' \in Images \union {NoState}
    BY <1>1, <1>3, OverlaidType DEF TypeOK, Write
  <2> QED
    BY <1>2, <1>3, <2>1 DEF TypeOK, Write, history
<1>4. CASE WriteCut(p)
  <2>1. file' \in Images \union {NoState}
    BY <1>1, <1>4, CutsType DEF TypeOK, WriteCut
  <2>2. faults' \in 0..MaxFaults /\ loss' \subseteq Causes
    BY <1>4, FaultsAssumption DEF TypeOK, WriteCut, Causes
  <2> QED
    BY <1>2, <1>4, <2>1, <2>2 DEF TypeOK, WriteCut
<1>5. ASSUME Off(p)
      PROVE  /\ phase' \in [Procs -> {"off", "seeding", "idle", "writing"}]
             /\ sess' \in [Procs -> Sessions] /\ queue' \in [Procs -> Seq(Libraries)]
             /\ told' \in [Procs -> SUBSET (Labels \X Texts)]
  <2>1. <<>> \in Seq(Libraries)
    OBVIOUS
  <2> QED
    BY <1>5, <2>1, FreshType DEF TypeOK, Off
<1>6. CASE Quit(p)
  BY <1>5, <1>6 DEF TypeOK, Quit
<1>7. CASE Crash(p)
  <2>1. faults' \in 0..MaxFaults /\ loss' \subseteq Causes
    BY <1>7, FaultsAssumption DEF TypeOK, Crash, Causes
  <2> QED
    BY <1>5, <1>7, <2>1 DEF TypeOK, Crash
<1> QED
  BY <1>3, <1>4, <1>6, <1>7
-----------------------------------------------------------------------------
\* Libraries wait to be seeded only in a session that is starting.
QueueAt(p) == /\ phase[p] = "seeding" => queue[p] # <<>>
              /\ phase[p] = "idle" => queue[p] = <<>>

\* A session whose user was told of a label has been started, and its table gives
\* every label back.
ToldAt(p) == told[p] # {} =>
                /\ queue[p] = <<>> /\ phase[p] \in {"idle", "writing"}
                /\ ~sess[p].ragged /\ WellFormed(sess[p].defs)
                /\ \A l \in told[p] : Resolves(sess[p].defs, l[1], l[2])

LabelsInv == TypeOK /\ \A p \in Procs : QueueAt(p) /\ ToldAt(p)

\* A definition added at the end of a table leaves what the table says.
LEMMA AppendKeeps ==
    ASSUME NEW t \in Tables, NEW d \in Definitions
    PROVE  /\ Defined(Append(t, d)) = Defined(t) \union {d.name}
           /\ Resolves(Append(t, d), d.name, d.text)
           /\ \A n, x : Resolves(t, n, x) => Resolves(Append(t, d), n, x)
<1> DEFINE a == Append(t, d)
<1>1. /\ Len(t) \in Nat /\ DOMAIN t = 1..Len(t) /\ DOMAIN a = 1..(Len(t) + 1)
      /\ a[Len(t) + 1] = d /\ \A i \in 1..Len(t) : a[i] = t[i]
  BY AppendProperties DEF Tables
<1>2. Resolves(a, d.name, d.text)
  BY <1>1 DEF Resolves
<1>3. ASSUME NEW n, NEW x, Resolves(t, n, x) PROVE Resolves(a, n, x)
  BY <1>1, <1>3 DEF Resolves
<1>4. Defined(a) \subseteq Defined(t) \union {d.name}
  BY <1>1 DEF Defined
<1>5. Defined(t) \union {d.name} \subseteq Defined(a)
  <2>1. ASSUME NEW n \in Defined(t) PROVE n \in Defined(a)
    <3>1. PICK i \in DOMAIN t : n = t[i].name
      BY DEF Defined
    <3>2. i \in DOMAIN a /\ a[i].name = n
      BY <1>1, <3>1
    <3> QED
      BY <3>2 DEF Defined
  <2>2. d.name \in Defined(a)
    <3>1. Len(t) + 1 \in DOMAIN a /\ a[Len(t) + 1].name = d.name
      BY <1>1
    <3> QED
      BY <3>1 DEF Defined
  <2> QED
    BY <2>1, <2>2
<1> QED
  BY <1>2, <1>3, <1>4, <1>5

\* The fields of a session after a line.
LEMMA NumberedFields ==
    ASSUME NEW s, NEW defs, NEW answer
    PROVE  /\ Numbered(s, defs, answer).defs = defs /\ Numbered(s, defs, answer).ragged = s.ragged
           /\ Numbered(s, defs, answer).no = s.no + 1
BY DEF Numbered

\* The first state has told nobody anything.
LEMMA LabelsInit == Init => LabelsInv
BY TypeInit DEF Init, LabelsInv, QueueAt, ToldAt

\* A process that a step leaves alone.
LEMMA LabelsAlone ==
    ASSUME NEW q, QueueAt(q), ToldAt(q), phase'[q] = phase[q], queue'[q] = queue[q],
           sess'[q] = sess[q], told'[q] = told[q]
    PROVE  QueueAt(q)' /\ ToldAt(q)'
BY DEF QueueAt, ToldAt

\* A session starts, or ends: it has been told of nothing.
LEMMA LabelsStart ==
    ASSUME LabelsInv, NEW p \in Procs, Start(p) \/ Quit(p) \/ Crash(p)
    PROVE  LabelsInv'
<1>1. TypeOK'
  BY TypeStart, TypeRest DEF LabelsInv
<1>2. ASSUME NEW q \in Procs PROVE QueueAt(q)' /\ ToldAt(q)'
  <2>1. CASE q = p
    <3>1. told'[p] = {}
      BY DEF LabelsInv, TypeOK, Start, Quit, Crash, Off
    <3>2. QueueAt(p)'
      <4>1. CASE Start(p)
        <5>1. PICK x \in Starts : /\ queue' = [queue EXCEPT ![p] = x]
                                  /\ phase' = [phase EXCEPT ![p] = IF x = <<>> THEN "idle" ELSE "seeding"]
          BY <4>1 DEF Start
        <5> QED
          BY <5>1 DEF QueueAt, LabelsInv, TypeOK
      <4>2. CASE Quit(p) \/ Crash(p)
        BY <4>2 DEF QueueAt, LabelsInv, TypeOK, Quit, Crash, Off
      <4> QED
        BY <4>1, <4>2
    <3> QED
      BY <2>1, <3>1, <3>2 DEF ToldAt
  <2>2. CASE q # p
    <3>1. phase'[q] = phase[q] /\ queue'[q] = queue[q] /\ sess'[q] = sess[q] /\ told'[q] = told[q]
      BY <2>2 DEF LabelsInv, TypeOK, Start, Quit, Crash, Off
    <3> QED
      BY <3>1, LabelsAlone DEF LabelsInv
  <2> QED
    BY <2>1, <2>2
<1> QED
  BY <1>1, <1>2 DEF LabelsInv

\* A save, whole or cut, leaves the session.
LEMMA LabelsSaved ==
    ASSUME LabelsInv, NEW p \in Procs, Write(p) \/ WriteCut(p)
    PROVE  LabelsInv'
<1>1. TypeOK'
  BY TypeRest DEF LabelsInv
<1>2. UNCHANGED <<queue, sess, told>> /\ Saved(p)
  BY DEF Write, WriteCut, history
<1>3. ASSUME NEW q \in Procs PROVE QueueAt(q)' /\ ToldAt(q)'
  BY <1>2 DEF LabelsInv, TypeOK, Saved, QueueAt, ToldAt
<1> QED
  BY <1>1, <1>3 DEF LabelsInv

\* A library is seeded before anybody is told anything.
LEMMA LabelsSeed == ASSUME LabelsInv, NEW p \in Procs, Seed(p) PROVE LabelsInv'
<1>1. queue[p] # <<>> /\ told[p] = {} /\ phase[p] = "seeding"
  BY DEF LabelsInv, QueueAt, ToldAt, Seed
<1>2. TypeOK'
  BY <1>1, TypeSeed DEF LabelsInv
<1>3. ASSUME NEW q \in Procs PROVE QueueAt(q)' /\ ToldAt(q)'
  <2>1. CASE q = p
    BY <1>1, <2>1 DEF LabelsInv, TypeOK, Seed, Persist, QueueAt, ToldAt
  <2>2. CASE q # p
    BY <2>2, LabelsAlone DEF LabelsInv, TypeOK, Seed, Persist
  <2> QED
    BY <2>1, <2>2
<1> QED
  BY <1>2, <1>3 DEF LabelsInv

\* A line: what its user was told before stays, in a table that is the same or has
\* the line at its end.
LEMMA LabelsTake ==
    ASSUME LabelsInv, TypeOK', NEW p \in Procs, NEW s, phase[p] = "idle", Persist(p, s),
           UNCHANGED queue, \A q \in Procs \ {p} : told'[q] = told[q],
           told'[p] # {} => /\ ~s.ragged /\ WellFormed(s.defs)
                            /\ \A l \in told'[p] : Resolves(s.defs, l[1], l[2])
    PROVE  LabelsInv'
<1>1. phase' = [phase EXCEPT ![p] = "writing"] /\ sess' = [sess EXCEPT ![p] = s]
  BY DEF Persist
<1>2. queue[p] = <<>>
  BY DEF LabelsInv, QueueAt
<1>3. ASSUME NEW q \in Procs PROVE QueueAt(q)' /\ ToldAt(q)'
  <2>1. CASE q = p
    BY <1>1, <1>2, <2>1 DEF LabelsInv, TypeOK, QueueAt, ToldAt
  <2>2. CASE q # p
    BY <1>1, <2>2, LabelsAlone DEF LabelsInv, TypeOK
  <2> QED
    BY <2>1, <2>2
<1> QED
  BY <1>3 DEF LabelsInv

\* A question, a replay, a definition and a reset.
LEMMA LabelsLine == ASSUME LabelsInv, NEW p \in Procs, Line(p) PROVE LabelsInv'
<1>1. TypeOK' /\ sess[p] \in Sessions /\ sess[p].defs \in Tables /\ told[p] \subseteq Labels \X Texts
  BY TypeLine DEF LabelsInv, TypeOK, Sessions
<1>2. told[p] # {} => /\ ~sess[p].ragged /\ WellFormed(sess[p].defs)
                      /\ \A l \in told[p] : Resolves(sess[p].defs, l[1], l[2])
  BY DEF LabelsInv, ToldAt
<1>3. ASSUME NEW u \in Names \union {None}, NEW t \in Asks, Ask(p, u, t) PROVE LabelsInv'
  <2> DEFINE c == Committed(sess[p], u, t, t)
  <2>1. phase[p] = "idle" /\ sess[p].no <= MaxNo /\ Persist(p, c) /\ UNCHANGED queue
    BY <1>3 DEF Ask, Take
  <2>2. CASE Referenceable(sess[p], u, t)
    <3> DEFINE d == [name |-> sess[p].no, uses |-> u, text |-> t]
    <3>1. told' = [told EXCEPT ![p] = @ \union {<<sess[p].no, t>>}]
      BY <1>3, <2>2 DEF Ask
    <3>2. d \in Definitions
      BY <1>1, <2>1, <2>2, LabelledType DEF Referenceable
    <3>3. c.defs = Append(sess[p].defs, d) /\ c.ragged = sess[p].ragged
      <4>1. c = Numbered(sess[p], Append(sess[p].defs, d), t)
        BY <2>2 DEF Committed, Labelled
      <4> QED
        BY <4>1 DEF Numbered
    <3>4. ~c.ragged /\ WellFormed(c.defs)
      BY <2>2, <3>3 DEF Referenceable, Labelled
    <3>5. told'[p] = told[p] \union {<<sess[p].no, t>>} /\ \A q \in Procs \ {p} : told'[q] = told[q]
      BY <3>1 DEF LabelsInv, TypeOK
    <3>6. \A l \in told[p] : Resolves(c.defs, l[1], l[2])
      BY <1>1, <1>2, <3>2, <3>3, AppendKeeps
    <3>7. Resolves(c.defs, sess[p].no, t)
      <4>1. d.name = sess[p].no /\ d.text = t
        OBVIOUS
      <4> QED
        BY <1>1, <3>2, <3>3, <4>1, AppendKeeps
    <3>8. \A l \in told'[p] : Resolves(c.defs, l[1], l[2])
      BY <3>5, <3>6, <3>7
    <3> QED
      BY <1>1, <2>1, <3>4, <3>5, <3>8, LabelsTake
  <2>3. CASE ~Referenceable(sess[p], u, t)
    <3>1. told' = told
      BY <1>3, <2>3 DEF Ask
    <3>2. c.defs = sess[p].defs /\ c.ragged = sess[p].ragged
      BY <2>3, NumberedFields DEF Committed
    <3> QED
      BY <1>1, <1>2, <2>1, <3>1, <3>2, LabelsTake
  <2> QED
    BY <2>2, <2>3
<1>4. ASSUME NEW n \in Labels, Replay(p, n) PROVE LabelsInv'
  <2> DEFINE c == Replayed(sess[p], n)
  <2>1. phase[p] = "idle" /\ Persist(p, c) /\ UNCHANGED <<queue, told>>
    BY <1>4 DEF Replay, Take
  <2>2. c.defs = sess[p].defs /\ c.ragged = sess[p].ragged
    BY NumberedFields DEF Replayed
  <2> QED
    BY <1>1, <1>2, <2>1, <2>2, LabelsTake
<1>5. ASSUME NEW d \in Defs, Define(p, d) PROVE LabelsInv'
  <2> DEFINE c == Extended(sess[p], d)
  <2>1. phase[p] = "idle" /\ Persist(p, c) /\ UNCHANGED <<queue, told>>
    BY <1>5 DEF Define, Take
  <2>2. c.defs = Append(sess[p].defs, d) /\ c.ragged = sess[p].ragged
    BY DEF Extended, Numbered
  <2>3. ~c.ragged /\ WellFormed(c.defs)
    BY <1>5, <2>2 DEF Define, Admits
  <2>4. \A l \in told[p] : Resolves(c.defs, l[1], l[2])
    BY <1>1, <1>2, <2>2, TypedAssumption, AppendKeeps
  <2> QED
    BY <1>1, <2>1, <2>3, <2>4, LabelsTake
<1>6. ASSUME Reset(p) PROVE LabelsInv'
  <2>1. told' = [told EXCEPT ![p] = {}] /\ phase[p] = "idle" /\ UNCHANGED queue
          /\ Persist(p, Cleared(sess[p]))
    BY <1>6 DEF Reset
  <2>2. told'[p] = {} /\ \A q \in Procs \ {p} : told'[q] = told[q]
    BY <2>1 DEF LabelsInv, TypeOK
  <2> QED
    BY <1>1, <2>1, <2>2, LabelsTake
<1> QED
  BY <1>3, <1>4, <1>5, <1>6 DEF Line

\* Every step keeps the invariant.
LEMMA LabelsNext == LabelsInv /\ [Next]_vars => LabelsInv'
<1> SUFFICES ASSUME LabelsInv, [Next]_vars PROVE LabelsInv'
  OBVIOUS
<1>1. CASE Next
  <2>1. PICK p \in Procs : Step(p)
    BY <1>1 DEF Next
  <2> QED
    BY <2>1, LabelsStart, LabelsSaved, LabelsSeed, LabelsLine DEF Step
<1>2. CASE UNCHANGED vars
  BY <1>2 DEF vars, LabelsInv, TypeOK, QueueAt, ToldAt
<1> QED
  BY <1>1, <1>2

\* The state of sessions and their file keeps its type: no operation makes a table
\* of anything but definitions, or numbers a line past what a session can hold.
THEOREM TypeCorrect == Spec => []TypeOK
<1>1. LabelsInv => TypeOK
  BY DEF LabelsInv
<1> QED
  BY <1>1, LabelsInit, LabelsNext, PTL DEF Spec

\* A label that a user was told of keeps its line until the session ends or is
\* reset, whatever other sessions and the disk do (session.rs commit, add_def).
THEOREM LabelsStayTold == Spec => []LabelsHold
<1>1. LabelsInv => LabelsHold
  BY DEF LabelsInv, ToldAt, LabelsHold
<1> QED
  BY <1>1, LabelsInit, LabelsNext, PTL DEF Spec
-----------------------------------------------------------------------------
\* While no save was cut and no two sessions overlapped: one session runs at a time,
\* the file is empty while it is saved, every table can be read, and the numbers and
\* the lines that users saw are in every session and in the file at rest.
Safe == loss \cap {"cut", "race"} = {}
Quiet == \A p \in Procs : phase[p] # "writing"
Solo == \A p, q \in Procs : Running(p) /\ Running(q) => p = q
Emptied == \A p \in Procs : phase[p] = "writing" => file = NoState
Whole == (\A p \in Procs : ~Broken(sess[p])) /\ (file # NoState => ~Broken(file))
Numbers == /\ \A p \in Procs : Running(p) => \A n \in used : n < sess[p].no
           /\ Quiet /\ used # {} => file # NoState /\ \A n \in used : n < file.no
History == /\ \A p \in Procs : Running(p) => kept \subseteq Defined(sess[p].defs)
           /\ Quiet /\ kept # {} => file # NoState /\ kept \subseteq Defined(file.defs)
SafeInv == /\ LabelsInv
           /\ Safe => Solo /\ Emptied /\ Whole /\ Numbers
           /\ loss = {} => History

\* An empty table parses and defines nothing.
LEMMA FreshReads == ~Broken(Fresh) /\ Defined(<<>>) = {} /\ Fresh.no = 1
<1>1. WellFormed(<<>>)
  BY DEF WellFormed
<1>2. Defined(<<>>) = {}
  BY DEF Defined
<1> QED
  BY <1>1, <1>2 DEF Broken, Fresh

\* A session starts with what the file says.
LEMMA LoadedReads ==
    /\ Loaded(NoState) = Fresh
    /\ \A f \in Images : /\ Loaded(f).defs = f.defs /\ Loaded(f).no = f.no
                         /\ ~Broken(f) => ~Broken(Loaded(f))
BY ImageIsAState DEF Loaded, Broken

\* No session has run.
LEMMA SafeInit == Init => SafeInv
<1> SUFFICES ASSUME Init PROVE SafeInv
  OBVIOUS
<1>1. LabelsInv
  BY LabelsInit
<1>2. Solo /\ Emptied /\ Numbers /\ History
  BY DEF Init, Solo, Emptied, Numbers, History, Running
<1>3. Whole
  BY FreshReads DEF Init, Whole
<1> QED
  BY <1>1, <1>2, <1>3 DEF SafeInv

\* A session starts.
LEMMA SafeStart == ASSUME SafeInv, NEW p \in Procs, Start(p) PROVE SafeInv'
<1>1. LabelsInv' /\ TypeOK
  BY LabelsStart DEF SafeInv, LabelsInv
<1>2. PICK x \in Starts : phase' = [phase EXCEPT ![p] = IF x = <<>> THEN "idle" ELSE "seeding"]
  BY DEF Start
<1>3. /\ phase[p] = "off" /\ sess'[p] = Loaded(file) /\ UNCHANGED <<file, kept, used>>
      /\ \A q \in Procs \ {p} : sess'[q] = sess[q] /\ phase'[q] = phase[q]
      /\ phase'[p] \in {"idle", "seeding"}
  BY <1>1, <1>2 DEF Start, TypeOK
<1>4. ASSUME Safe' PROVE Safe /\ Alone(p) /\ loss' = loss
  BY <1>4 DEF Safe, Start
<1>5. ASSUME Safe' PROVE Quiet /\ (\A q \in Procs \ {p} : ~Running(q)')
  <2>1. \A q \in Procs \ {p} : phase[q] = "off"
    BY <1>4, <1>5 DEF Alone, Running
  <2> QED
    BY <1>3, <2>1 DEF Quiet, Running
<1>6. ASSUME Safe' PROVE Solo' /\ Emptied'
  BY <1>3, <1>5, <1>6 DEF Solo, Emptied, Running, Quiet
<1>7. ASSUME Safe' PROVE Whole'
  <2>1. Whole
    BY <1>4, <1>7 DEF SafeInv
  <2>2. ~Broken(sess'[p])
    BY <1>1, <1>3, <2>1, FreshReads, LoadedReads DEF TypeOK, Whole
  <2>3. \A q \in Procs : ~Broken(sess'[q])
    BY <1>3, <2>1, <2>2 DEF Whole
  <2> QED
    BY <1>3, <2>1, <2>3 DEF Whole
<1>8. ASSUME Safe' PROVE Numbers'
  <2>1. Numbers /\ Quiet
    BY <1>4, <1>5, <1>8 DEF SafeInv
  <2>2. \A n \in used : n < sess'[p].no
    BY <1>1, <1>3, <2>1, LoadedReads DEF TypeOK, Numbers
  <2> QED
    BY <1>3, <1>5, <1>8, <2>1, <2>2 DEF Numbers
<1>9. ASSUME loss' = {} PROVE History'
  <2>1. Safe'
    BY <1>9 DEF Safe
  <2>2. History /\ Quiet
    BY <1>4, <1>5, <1>9, <2>1 DEF SafeInv
  <2>3. kept \subseteq Defined(sess'[p].defs)
    BY <1>1, <1>3, <2>2, LoadedReads DEF TypeOK, History
  <2> QED
    BY <1>3, <1>5, <2>1, <2>2, <2>3 DEF History
<1> QED
  BY <1>1, <1>6, <1>7, <1>8, <1>9 DEF SafeInv

\* An operation that ends with a save of a session that can be read, numbers past
\* the lines seen and holds those that were told.
LEMMA SafePersist ==
    ASSUME SafeInv, LabelsInv', NEW p \in Procs, NEW s, Persist(p, s),
           phase[p] \in {"idle", "seeding"}, Safe' => Safe, loss' = {} => loss = {},
           Safe /\ ~Broken(sess[p]) => ~Broken(s),
           Safe' /\ (\A n \in used : n < sess[p].no) => \A n \in used' : n < s.no,
           loss' = {} /\ kept \subseteq Defined(sess[p].defs) => kept' \subseteq Defined(s.defs)
    PROVE  SafeInv'
<1>1. /\ sess'[p] = s /\ phase'[p] = "writing" /\ file' = NoState
      /\ \A q \in Procs \ {p} : sess'[q] = sess[q] /\ phase'[q] = phase[q]
  BY DEF Persist, SafeInv, LabelsInv, TypeOK
<1>2. Running(p) /\ ~Quiet'
  BY <1>1 DEF Running, Quiet
<1>3. ASSUME Safe' PROVE /\ Solo' /\ Emptied'
                         /\ \A q \in Procs \ {p} : ~Running(q)'
  BY <1>1, <1>2, <1>3 DEF SafeInv, Solo, Emptied, Running
<1>4. ASSUME Safe' PROVE Whole'
  BY <1>1, <1>4 DEF SafeInv, Whole
<1>5. ASSUME Safe' PROVE Numbers'
  <2>1. \A n \in used' : n < s.no
    BY <1>2, <1>5 DEF SafeInv, Numbers
  <2> QED
    BY <1>1, <1>2, <1>3, <1>5, <2>1 DEF Numbers
<1>6. ASSUME loss' = {} PROVE History'
  <2>1. Safe' /\ kept' \subseteq Defined(s.defs)
    BY <1>2, <1>6 DEF SafeInv, History, Safe
  <2> QED
    BY <1>1, <1>2, <1>3, <2>1 DEF History
<1> QED
  BY <1>3, <1>4, <1>5, <1>6 DEF SafeInv

\* A library parses on its own; it is no loss where there was no table.
LEMMA SafeSeed == ASSUME SafeInv, NEW p \in Procs, Seed(p) PROVE SafeInv'
<1> DEFINE lib == Head(queue[p])
<1>1. LabelsInv' /\ LabelsInv
  BY LabelsSeed DEF SafeInv
<1>2. lib \in Libraries
  BY <1>1, HeadTailProperties DEF LabelsInv, TypeOK, QueueAt, Seed
<1>3. ~Broken(Seeded(sess[p], lib))
  BY <1>2 DEF Broken, Seeded, Libraries
<1>4. Seeded(sess[p], lib).no = sess[p].no
  BY DEF Seeded
<1>5. Persist(p, Seeded(sess[p], lib)) /\ phase[p] = "seeding" /\ UNCHANGED <<kept, used>>
  BY DEF Seed
<1>6. (Safe' => Safe) /\ (loss' = {} => loss = {} /\ sess[p].defs = <<>>)
  BY DEF Seed, Safe
<1>7. loss' = {} /\ kept \subseteq Defined(sess[p].defs) => kept \subseteq Defined(Seeded(sess[p], lib).defs)
  BY <1>6, FreshReads
<1> QED
  BY <1>1, <1>3, <1>4, <1>5, <1>6, <1>7, SafePersist

\* A line between lines leaves a table that can be read.
LEMMA SafeTake ==
    ASSUME SafeInv, LabelsInv', NEW p \in Procs, NEW defs, NEW answer,
           Take(p, Numbered(sess[p], defs, answer)),
           ~Broken(sess[p]) => WellFormed(defs),
           kept \subseteq Defined(sess[p].defs) => kept' \subseteq Defined(defs)
    PROVE  SafeInv'
<1> DEFINE s == Numbered(sess[p], defs, answer)
<1>1. s.defs = defs /\ s.ragged = sess[p].ragged /\ s.no = sess[p].no + 1
  BY NumberedFields
<1>2. sess[p].no \in Nat /\ used \subseteq Nat
  BY DEF SafeInv, LabelsInv, TypeOK, Sessions, Labels
<1>3. UNCHANGED loss /\ phase[p] = "idle" /\ Persist(p, s) /\ used' = used \union {sess[p].no}
  BY DEF Take
<1>4. ~Broken(sess[p]) => ~Broken(s)
  BY <1>1 DEF Broken
<1>5. (\A n \in used : n < sess[p].no) => \A n \in used' : n < s.no
  BY <1>1, <1>2, <1>3
<1> HIDE DEF s
<1> QED
  BY <1>1, <1>3, <1>4, <1>5, SafePersist DEF Safe

\* A question, a replay, a definition and a reset.
LEMMA SafeLine == ASSUME SafeInv, NEW p \in Procs, Line(p) PROVE SafeInv'
<1>1. LabelsInv' /\ sess[p] \in Sessions /\ sess[p].defs \in Tables
  BY LabelsLine DEF SafeInv, LabelsInv, TypeOK, Sessions
<1>2. ASSUME NEW u \in Names \union {None}, NEW t \in Asks, Ask(p, u, t) PROVE SafeInv'
  <2> DEFINE defs == IF Referenceable(sess[p], u, t) THEN Labelled(sess[p], u, t) ELSE sess[p].defs
  <2>1. Take(p, Numbered(sess[p], defs, t)) /\ sess[p].no <= MaxNo
    BY <1>2 DEF Ask, Take, Committed
  <2>2. ~Broken(sess[p]) => WellFormed(defs)
    BY DEF Broken, Referenceable
  <2>3. kept \subseteq Defined(sess[p].defs) => kept' \subseteq Defined(defs)
    <3>1. CASE Referenceable(sess[p], u, t)
      <4> DEFINE d == [name |-> sess[p].no, uses |-> u, text |-> t]
      <4>1. d \in Definitions
        BY <1>1, <2>1, <3>1, LabelledType DEF Referenceable
      <4>2. defs = Append(sess[p].defs, d) /\ kept' = kept \union {d.name}
        BY <1>2, <3>1 DEF Ask, Labelled
      <4> QED
        BY <1>1, <4>1, <4>2, AppendKeeps
    <3>2. CASE ~Referenceable(sess[p], u, t)
      BY <1>2, <3>2 DEF Ask
    <3> QED
      BY <3>1, <3>2
  <2> HIDE DEF defs
  <2> QED
    BY <1>1, <2>1, <2>2, <2>3, SafeTake
<1>3. ASSUME NEW n \in Labels, Replay(p, n) PROVE SafeInv'
  <2>1. Take(p, Numbered(sess[p], sess[p].defs, sess[p].snaps[n])) /\ UNCHANGED kept
    BY <1>3 DEF Replay, Replayed
  <2> QED
    BY <1>1, <2>1, SafeTake DEF Broken
<1>4. ASSUME NEW d \in Defs, Define(p, d) PROVE SafeInv'
  <2> DEFINE defs == Append(sess[p].defs, d)
  <2>1. Take(p, Numbered(sess[p], defs, Blank)) /\ UNCHANGED kept
    BY <1>4 DEF Define, Extended
  <2>2. WellFormed(defs)
    BY <1>4 DEF Define, Admits
  <2>3. Defined(defs) = Defined(sess[p].defs) \union {d.name}
    BY <1>1, TypedAssumption, AppendKeeps
  <2> HIDE DEF defs
  <2> QED
    BY <1>1, <2>1, <2>2, <2>3, SafeTake
<1>5. ASSUME Reset(p) PROVE SafeInv'
  <2>1. Persist(p, Fresh) /\ phase[p] = "idle" /\ UNCHANGED loss /\ kept' = {} /\ used' = {}
    BY <1>5 DEF Reset, Cleared
  <2> QED
    BY <1>1, <2>1, FreshReads, SafePersist DEF Safe
<1> QED
  BY <1>2, <1>3, <1>4, <1>5 DEF Line

\* A whole save of the only session puts that session in the file.
LEMMA SafeWrite == ASSUME SafeInv, NEW p \in Procs, Write(p) PROVE SafeInv'
<1>1. LabelsInv' /\ TypeOK /\ sess[p] \in Sessions
  BY LabelsSaved DEF SafeInv, LabelsInv, TypeOK
<1>2. /\ UNCHANGED <<sess, kept, used, loss>> /\ phase[p] = "writing" /\ phase'[p] \in {"idle", "seeding"}
      /\ \A q \in Procs \ {p} : phase'[q] = phase[q]
  BY <1>1 DEF Write, Saved, TypeOK, history
<1>3. ASSUME Safe PROVE /\ Solo' /\ Emptied' /\ \A q \in Procs \ {p} : ~Running(q)'
  BY <1>2, <1>3 DEF SafeInv, Solo, Emptied, Running
<1>4. ASSUME Safe PROVE /\ file' # NoState /\ file'.defs = sess[p].defs
                        /\ file'.ragged = sess[p].ragged /\ file'.no = sess[p].no
  <2>1. file = NoState
    BY <1>2, <1>4 DEF SafeInv, Emptied
  <2>2. file' = Image(sess[p])
    BY <2>1 DEF Write, Overlaid
  <2>3. file' # NoState
    BY <1>1, <2>2, ImageType, ImageIsAState
  <2> QED
    BY <2>2, <2>3 DEF Image, Saving
<1>5. ASSUME Safe PROVE Whole' /\ Numbers'
  <2>1. Whole /\ Numbers /\ Running(p)
    BY <1>2, <1>5 DEF SafeInv, Running
  <2>2. Whole'
    BY <1>2, <1>4, <1>5, <2>1 DEF Whole, Broken
  <2>3. \A n \in used : n < sess[p].no
    BY <2>1 DEF Numbers
  <2>4. Numbers'
    BY <1>2, <1>3, <1>4, <1>5, <2>3 DEF Numbers
  <2> QED
    BY <2>2, <2>4
<1>6. ASSUME loss = {} PROVE History'
  <2>1. Safe /\ History /\ Running(p)
    BY <1>2, <1>6 DEF SafeInv, Running, Safe
  <2>2. kept \subseteq Defined(sess[p].defs)
    BY <2>1 DEF History
  <2> QED
    BY <1>2, <1>3, <1>4, <2>1, <2>2 DEF History
<1> QED
  BY <1>1, <1>2, <1>3, <1>5, <1>6 DEF SafeInv, Safe

\* A save that is cut is a cause of its own.
LEMMA SafeCut == ASSUME SafeInv, NEW p \in Procs, WriteCut(p) PROVE SafeInv'
<1>1. LabelsInv'
  BY LabelsSaved DEF SafeInv
<1>2. ~Safe' /\ loss' # {}
  BY DEF WriteCut, Safe
<1> QED
  BY <1>1, <1>2 DEF SafeInv

\* A session ends, between lines or while it starts; in a save, that cuts it.
LEMMA SafeOff == ASSUME SafeInv, NEW p \in Procs, Quit(p) \/ Crash(p) PROVE SafeInv'
<1>1. LabelsInv' /\ TypeOK
  BY LabelsStart DEF SafeInv, LabelsInv
<1>2. /\ sess'[p] = Fresh /\ phase'[p] = "off" /\ UNCHANGED <<file, kept, used>>
      /\ \A q \in Procs \ {p} : sess'[q] = sess[q] /\ phase'[q] = phase[q]
  BY <1>1 DEF Quit, Crash, Off, TypeOK
<1>3. (Safe' => phase[p] # "writing" /\ Safe) /\ (loss' = {} => loss = {})
  BY DEF Quit, Crash, Safe
<1>4. ASSUME Safe' PROVE Quiet' => Quiet
  BY <1>2, <1>3, <1>4 DEF Quiet
<1>5. ASSUME Safe' PROVE Solo' /\ Emptied'
  BY <1>2, <1>3, <1>5 DEF SafeInv, Solo, Emptied, Running
<1>6. ASSUME Safe' PROVE Whole'
  BY <1>2, <1>3, <1>6, FreshReads DEF SafeInv, Whole
<1>7. ASSUME Safe' PROVE Numbers'
  BY <1>2, <1>3, <1>4, <1>7 DEF SafeInv, Numbers, Running
<1>8. ASSUME loss' = {} PROVE History'
  <2>1. Safe' /\ History
    BY <1>3, <1>8 DEF SafeInv, Safe
  <2> QED
    BY <1>2, <1>4, <2>1 DEF History, Running
<1> QED
  BY <1>1, <1>5, <1>6, <1>7, <1>8 DEF SafeInv

\* Every step keeps the invariant.
LEMMA SafeNext == SafeInv /\ [Next]_vars => SafeInv'
<1> SUFFICES ASSUME SafeInv, [Next]_vars PROVE SafeInv'
  OBVIOUS
<1>1. CASE Next
  <2>1. PICK p \in Procs : Step(p)
    BY <1>1 DEF Next
  <2> QED
    BY <2>1, SafeStart, SafeSeed, SafeLine, SafeWrite, SafeCut, SafeOff DEF Step
<1>2. CASE UNCHANGED vars
  <2>1. LabelsInv'
    BY <1>2, LabelsNext DEF SafeInv
  <2> QED
    BY <1>2, <2>1 DEF vars, SafeInv, Safe, Solo, Emptied, Whole, Numbers, History, Running, Quiet
<1> QED
  BY <1>1, <1>2

\* No operation leaves a table that the next line cannot be read with: one that no
\* line parses behind was left by a cut save or by overlapping sessions.
THEOREM TablesStayWhole == Spec => []TablesParse
<1>1. SafeInv => TablesParse
  BY DEF SafeInv, Safe, Whole, TablesParse
<1> QED
  BY <1>1, SafeInit, SafeNext, PTL DEF Spec

\* The &N history resumes: at rest the file has every line that users were told of,
\* unless a library was seeded over it, sessions overlapped or a save was cut.
THEOREM HistoryStays == Spec => []HistoryResumes
<1>1. SafeInv => HistoryResumes
  BY DEF SafeInv, History, Quiet, HistoryResumes
<1> QED
  BY <1>1, SafeInit, SafeNext, PTL DEF Spec

\* A number that users saw taken is not given again while no save is cut and no two
\* sessions overlap, whatever is seeded.
THEOREM NumbersStayFresh == Spec => []NumbersAreFresh
<1>1. SafeInv => NumbersAreFresh
  <2> SUFFICES ASSUME SafeInv, loss \subseteq {"seed"}, NEW n \in used
               PROVE  /\ \A p \in Procs : Running(p) => n < sess[p].no
                      /\ (\A p \in Procs : phase[p] # "writing") => file # NoState /\ n < file.no
    BY DEF NumbersAreFresh
  <2>1. Numbers
    BY DEF SafeInv, Safe
  <2> QED
    BY <2>1 DEF Numbers, Quiet
<1> QED
  BY <1>1, SafeInit, SafeNext, PTL DEF Spec
-----------------------------------------------------------------------------
\* The state of quai in the process.
Contexts == [specs : Seq(Sources), web : Seq(BOOLEAN), model : Nat]
Lines == [uses : Names \union {None}, text : Texts, live : BOOLEAN, answer : Texts,
          rounds : Nat, done : BOOLEAN]
Strays == {"web", "specs", "model", "table"}
QuaiTypeOK ==
    /\ mode \in {"daemon", "prompt", "file"}
    /\ ctx \in Contexts /\ built \in Contexts /\ depth \in Nat
    /\ exec \in [refs : BOOLEAN, mine : BOOLEAN]
    /\ here \in Sessions /\ under \in Lines \union {None}
    /\ claims \subseteq Labels \X Texts /\ stray \subseteq Strays
    /\ cells \in Nat /\ undone \in Nat

\* A line under way has a number to take, answers what it says, and what stands in
\* the executor is its own, a reading of re-opened files aside.
UnderWay == under # None => /\ here.no <= MaxNo /\ under.answer = under.text
                            /\ exec.mine \/ (under.live /\ Reopens)

\* The lines users were told of have numbers below the next line's.
Claimed == /\ \A l \in claims : l[1] < here.no
           /\ AnswersOwnLines

QuaiInv == /\ QuaiTypeOK /\ UnderWay /\ Claimed /\ ContextMounted /\ CellsNumbered
           /\ ~Broken(here)

\* A line of a daemon's session is a step of the sessions over the file, and a line
\* in the process leaves those alone.
THEOREM DaemonKeepsSessions == QuaiSpec => Spec
<1>1. QuaiInit => Init
  BY DEF QuaiInit
<1>2. [QuaiNext]_allVars => [Next]_vars
  BY DEF QuaiNext, allVars
<1> QED
  BY <1>1, <1>2, PTL DEF QuaiSpec, Spec

\* The fields of a session after a line that takes a number.
LEMMA NumberedSnaps ==
    ASSUME NEW s \in Sessions, s.no <= MaxNo, NEW defs, NEW answer
    PROVE  /\ Numbered(s, defs, answer).snaps[s.no] = answer
           /\ \A n \in Labels : n < s.no => Numbered(s, defs, answer).snaps[n] = s.snaps[n]
<1>1. s.no \in Labels /\ s.snaps \in [Labels -> Answers \union {None}]
  BY NoIsLabel DEF Sessions
<1>2. Numbered(s, defs, answer).snaps = [s.snaps EXCEPT ![s.no] = answer]
  BY DEF Numbered
<1>3. \A n \in Labels : n < s.no => n # s.no
  BY <1>1 DEF Labels
<1> QED
  BY <1>1, <1>2, <1>3

\* What commit makes of the table: it still reads, and it says what it said.
LEMMA CommittedReads ==
    ASSUME NEW s \in Sessions, s.no <= MaxNo, ~Broken(s), NEW uses \in Names \union {None},
           NEW text \in Texts, NEW answer \in Answers
    PROVE  /\ ~Broken(Committed(s, uses, text, answer))
           /\ Committed(s, uses, text, answer).no = s.no + 1
           /\ Committed(s, uses, text, answer).snaps[s.no] = answer
           /\ \A n \in Labels : n < s.no => Committed(s, uses, text, answer).snaps[n] = s.snaps[n]
           /\ Referenceable(s, uses, text) => Resolves(Committed(s, uses, text, answer).defs, s.no, text)
           /\ \A n \in Labels, x \in Texts :
                Resolves(s.defs, n, x) => Resolves(Committed(s, uses, text, answer).defs, n, x)
<1> DEFINE defs == IF Referenceable(s, uses, text) THEN Labelled(s, uses, text) ELSE s.defs
           d == [name |-> s.no, uses |-> uses, text |-> text]
           c == Committed(s, uses, text, answer)
<1>1. c = Numbered(s, defs, answer)
  BY DEF Committed
<1>2. c.defs = defs /\ c.ragged = s.ragged /\ c.no = s.no + 1
  BY <1>1, NumberedFields
<1>3. WellFormed(defs) /\ ~s.ragged
  BY DEF Broken, Referenceable
<1>4. ~Broken(c)
  BY <1>2, <1>3 DEF Broken
<1>5. c.snaps[s.no] = answer /\ \A n \in Labels : n < s.no => c.snaps[n] = s.snaps[n]
  BY <1>1, NumberedSnaps
<1>6. s.defs \in Tables
  BY DEF Sessions
<1>7. CASE Referenceable(s, uses, text)
  <2>1. d \in Definitions /\ defs = Append(s.defs, d) /\ d.name = s.no /\ d.text = text
    BY <1>7, LabelledType DEF Referenceable, Labelled
  <2>2. Resolves(defs, s.no, text) /\ \A n, x : Resolves(s.defs, n, x) => Resolves(defs, n, x)
    BY <1>6, <2>1, AppendKeeps
  <2> QED
    BY <1>2, <1>4, <1>5, <2>2
<1>8. CASE ~Referenceable(s, uses, text)
  BY <1>2, <1>4, <1>5, <1>8
<1> QED
  BY <1>7, <1>8

\* quai starts with what it was given mounted, and the session fresh or seeded.
LEMMA QuaiBegins == QuaiInit => QuaiInv
<1> SUFFICES ASSUME QuaiInit PROVE QuaiInv
  OBVIOUS
<1>1. PICK specs \in {<<>>, <<Bare>>} : ctx = [specs |-> specs, web |-> <<>>, model |-> 0]
  BY DEF QuaiInit
<1>2. specs \in Seq(Sources) /\ <<>> \in Seq(BOOLEAN)
  <2>1. Bare \in Sources
    BY SourcesAssumption
  <2>2. <<Bare>> \in Seq(Sources) /\ <<>> \in Seq(Sources)
    BY <2>1
  <2>3. <<>> \in Seq(BOOLEAN)
    OBVIOUS
  <2> QED
    BY <2>2, <2>3
<1>3. ctx \in Contexts /\ built \in Contexts /\ depth \in Nat
  BY <1>1, <1>2 DEF QuaiInit, Contexts
<1>4. here \in Sessions /\ ~Broken(here) /\ here.no = 1
  <2>1. CASE here = Fresh
    BY <2>1, FreshType, FreshReads
  <2>2. CASE here # Fresh
    <3>1. PICK lib \in CellDefs \intersect Libraries : here = Seeded(Fresh, lib)
      BY <2>2 DEF QuaiInit
    <3>2. here \in Sessions
      BY <3>1, FreshType, SeededType DEF Libraries
    <3>3. here.defs = lib /\ here.ragged = FALSE /\ here.no = 1
      BY <3>1 DEF Seeded, Fresh
    <3> QED
      BY <3>1, <3>2, <3>3 DEF Broken, Libraries
  <2> QED
    BY <2>1, <2>2
<1>5. QuaiTypeOK
  BY <1>3, <1>4 DEF QuaiInit, QuaiTypeOK, NewExecutor, Strays
<1>6. UnderWay /\ Claimed /\ ContextMounted
  BY DEF QuaiInit, UnderWay, Claimed, AnswersOwnLines, ContextMounted
<1>7. CellsNumbered
  BY <1>4 DEF QuaiInit, CellsNumbered
<1> QED
  BY <1>4, <1>5, <1>6, <1>7 DEF QuaiInv

\* What may come out of a step for the lines that users were told of: the session
\* goes on by one number, and its table says what it said.
LEMMA ClaimsStay ==
    ASSUME QuaiInv, UNCHANGED claims, stray \subseteq stray', here' \in Sessions, here'.no \in Nat,
           here.no <= here'.no,
           \A n \in Labels : n < here.no => here'.snaps[n] = here.snaps[n],
           "table" \in stray' \/ claims = {}
             \/ \A n \in Labels, x \in Texts : Resolves(here.defs, n, x) => Resolves(here'.defs, n, x)
    PROVE  Claimed'
<1> SUFFICES ASSUME NEW l \in claims
             PROVE  /\ l[1] < here'.no /\ here'.snaps[l[1]] = l[2]
                    /\ "table" \notin stray' => Resolves(here'.defs, l[1], l[2])
  BY DEF Claimed, AnswersOwnLines
<1>1. l[1] \in Labels /\ l[2] \in Texts /\ l[1] \in Nat /\ here.no \in Nat
  BY DEF QuaiInv, QuaiTypeOK, Labels, Sessions
<1>2. l[1] < here.no /\ here.snaps[l[1]] = l[2] /\ ("table" \notin stray => Resolves(here.defs, l[1], l[2]))
  BY DEF QuaiInv, Claimed, AnswersOwnLines
<1>3. l[1] < here'.no
  BY <1>1, <1>2
<1>4. here'.snaps[l[1]] = l[2]
  BY <1>1, <1>2
<1> QED
  BY <1>1, <1>2, <1>3, <1>4

\* A notebook's count and the number go on together.
LEMMA CountsStay ==
    ASSUME QuaiInv, UNCHANGED mode, NEW numbered \in BOOLEAN, Cell(numbered),
           here'.no = IF numbered THEN here.no + 1 ELSE here.no
    PROVE  CellsNumbered' /\ cells' \in Nat /\ undone' \in Nat
<1>1. cells \in Nat /\ undone \in Nat /\ here.no \in Nat
  BY DEF QuaiInv, QuaiTypeOK, Sessions
<1>2. cells' \in Nat /\ undone' \in Nat
  BY <1>1 DEF Cell
<1>3. CASE ~Notebook
  BY <1>2, <1>3 DEF Notebook, CellsNumbered
<1>4. CASE Notebook
  BY <1>1, <1>2, <1>4 DEF QuaiInv, Notebook, CellsNumbered, Cell
<1> QED
  BY <1>3, <1>4

\* The line is asked.
LEMMA QuaiAsk ==
    ASSUME QuaiInv, UNCHANGED mode, NEW uses \in Names \union {None}, NEW text \in Texts,
           NEW live \in BOOLEAN, AskHere(uses, text, live)
    PROVE  QuaiInv'
<1> DEFINE line == [uses |-> uses, text |-> text, live |-> live, answer |-> text,
                    rounds |-> 0, done |-> Notebook]
<1>1. /\ UNCHANGED <<ctx, depth, built, here, claims, stray, cells, undone>> /\ here.no <= MaxNo
      /\ under' = line
  BY DEF AskHere, mounts, notebook
<1>2. line \in Lines
  BY DEF Lines, Notebook
<1>3. exec' \in [refs : BOOLEAN, mine : BOOLEAN] /\ (exec'.mine \/ (live /\ Reopens))
  <2>1. CASE live /\ Reopens
    BY <2>1 DEF AskHere, QuaiInv, QuaiTypeOK
  <2>2. CASE ~(live /\ Reopens)
    <3>1. PICK met \in BOOLEAN : exec' = Standing(met)
      BY <2>2 DEF AskHere
    <3> QED
      BY <3>1 DEF Standing
  <2> QED
    BY <2>1, <2>2
<1>4. QuaiTypeOK'
  BY <1>1, <1>2, <1>3 DEF QuaiInv, QuaiTypeOK
<1>5. UnderWay'
  <2>1. under'.live = live /\ under'.answer = under'.text
    BY <1>1
  <2>2. Reopens' = Reopens
    BY <1>1 DEF Reopens
  <2> QED
    BY <1>1, <1>3, <2>1, <2>2 DEF UnderWay
<1>6. Claimed' /\ ContextMounted' /\ CellsNumbered' /\ ~Broken(here')
  BY <1>1 DEF QuaiInv, Claimed, AnswersOwnLines, ContextMounted, CellsNumbered, Notebook
<1> QED
  BY <1>4, <1>5, <1>6 DEF QuaiInv

\* A line is committed.
LEMMA QuaiFinish == ASSUME QuaiInv, UNCHANGED mode, Finish PROVE QuaiInv'
<1>1. /\ under \in Lines /\ here.no <= MaxNo /\ under.answer = under.text /\ here \in Sessions /\ ~Broken(here)
  BY DEF QuaiInv, QuaiTypeOK, UnderWay, Finish
<1>2. under.uses \in Names \union {None} /\ under.text \in Texts /\ under.answer \in Answers
  BY <1>1 DEF Lines, Answers
<1>3. /\ here' = Committed(here, under.uses, under.text, under.answer) /\ under' = None
      /\ UNCHANGED <<ctx, depth, built, exec, stray>> /\ Cell(TRUE)
  BY DEF Finish, mounts
<1>4. here' \in Sessions
  BY <1>1, <1>2, <1>3, CommittedType
<1>5. /\ ~Broken(here') /\ here'.no = here.no + 1 /\ here'.snaps[here.no] = under.text
      /\ \A n \in Labels : n < here.no => here'.snaps[n] = here.snaps[n]
      /\ Referenceable(here, under.uses, under.text) => Resolves(here'.defs, here.no, under.text)
      /\ \A n \in Labels, x \in Texts : Resolves(here.defs, n, x) => Resolves(here'.defs, n, x)
  BY <1>1, <1>2, <1>3, CommittedReads
<1>6. here.no \in Labels /\ here.no \in Nat
  BY <1>1, NoIsLabel DEF Sessions
<1>7. claims' \subseteq Labels \X Texts
  BY <1>2, <1>6 DEF Finish, QuaiInv, QuaiTypeOK
<1>8. Claimed'
  <2> SUFFICES ASSUME NEW l \in claims'
               PROVE  /\ l[1] < here'.no /\ here'.snaps[l[1]] = l[2]
                      /\ "table" \notin stray' => Resolves(here'.defs, l[1], l[2])
    BY DEF Claimed, AnswersOwnLines
  <2>1. CASE l \in claims
    <3>1. l[1] \in Labels /\ l[2] \in Texts /\ l[1] \in Nat
      BY <2>1 DEF QuaiInv, QuaiTypeOK, Labels
    <3>2. /\ l[1] < here.no /\ here.snaps[l[1]] = l[2]
          /\ "table" \notin stray => Resolves(here.defs, l[1], l[2])
      BY <2>1 DEF QuaiInv, Claimed, AnswersOwnLines
    <3> QED
      BY <1>3, <1>5, <1>6, <3>1, <3>2
  <2>2. CASE l \notin claims
    <3>1. l = <<here.no, under.text>> /\ Referenceable(here, under.uses, under.text)
      BY <2>2 DEF Finish
    <3> QED
      BY <1>5, <1>6, <3>1
  <2> QED
    BY <2>1, <2>2
<1>9. CellsNumbered' /\ cells' \in Nat /\ undone' \in Nat
  BY <1>3, <1>5, CountsStay
<1>10. QuaiTypeOK'
  BY <1>3, <1>4, <1>7, <1>9 DEF QuaiInv, QuaiTypeOK
<1>11. UnderWay' /\ ContextMounted'
  BY <1>3 DEF UnderWay, QuaiInv, ContextMounted
<1> QED
  BY <1>5, <1>8, <1>9, <1>10, <1>11 DEF QuaiInv

\* The remaining steps of a line under way.
LEMMA QuaiFetchFails == ASSUME QuaiInv, UNCHANGED mode, FetchFails PROVE QuaiInv'
<1>1. under # None /\ under \in Lines
  BY DEF QuaiInv, QuaiTypeOK, FetchFails, Follow
<1>2. /\ under' = [under EXCEPT !.done = TRUE, !.rounds = @ + 1]
      /\ UNCHANGED <<ctx, depth, built, exec, here, claims, stray, cells, undone>>
  BY DEF FetchFails, mounts, notebook
<1>3. under' = [uses |-> under.uses, text |-> under.text, live |-> under.live, answer |-> under.answer,
                rounds |-> under.rounds + 1, done |-> TRUE]
  BY <1>1, <1>2 DEF Lines
<1>4. under' \in Lines /\ under'.live = under.live /\ under'.text = under.text /\ under'.answer = under.answer
  BY <1>1, <1>3 DEF Lines
<1>5. QuaiTypeOK'
  BY <1>2, <1>4 DEF QuaiInv, QuaiTypeOK
<1>6. UnderWay'
  BY <1>1, <1>2, <1>4 DEF QuaiInv, UnderWay, Reopens
<1>7. Claimed' /\ ContextMounted' /\ CellsNumbered' /\ ~Broken(here')
  BY <1>2 DEF QuaiInv, Claimed, AnswersOwnLines, ContextMounted, CellsNumbered, Notebook
<1> QED
  BY <1>5, <1>6, <1>7 DEF QuaiInv

\* A line that runs again is a line, and its answer is that of its text.
LEMMA RerunType ==
    ASSUME NEW line \in Lines
    PROVE  /\ Rerun(line) \in Lines /\ Rerun(line).answer = Rerun(line).text
<1>1. Again(line) \in Texts
  <2>1. Moved \in [Texts -> Texts] /\ line.text \in Texts
    BY SourcesAssumption DEF Lines
  <2> QED
    BY <2>1 DEF Again
<1>2. line.rounds + 1 \in Nat
  BY DEF Lines
<1> DEFINE again == Again(line)
           more == line.rounds + 1
<1>3. Rerun(line) = [line EXCEPT !.text = again, !.answer = again, !.rounds = more]
  BY DEF Rerun
<1>4. again \in Texts /\ more \in Nat
  BY <1>1, <1>2
<1> HIDE DEF again, more
<1>5. [line EXCEPT !.text = again, !.answer = again, !.rounds = more] \in Lines
  BY <1>4 DEF Lines
<1>6. /\ [line EXCEPT !.text = again, !.answer = again, !.rounds = more].answer = again
      /\ [line EXCEPT !.text = again, !.answer = again, !.rounds = more].text = again
  BY <1>4 DEF Lines
<1> QED
  BY <1>3, <1>5, <1>6

\* A page is fetched.
LEMMA QuaiFetch == ASSUME QuaiInv, UNCHANGED mode, Fetch PROVE QuaiInv'
<1>1. under # None /\ under \in Lines /\ ctx \in Contexts /\ built \in Contexts
  BY DEF QuaiInv, QuaiTypeOK, Fetch, Follow
<1>2. PICK parses \in BOOLEAN, opens \in BOOLEAN :
        LET c == [ctx EXCEPT !.web = Append(@, parses)] IN
        /\ ctx' = c
        /\ IF Buildable(c) /\ opens
           THEN /\ built' = c
                /\ \/ /\ \E met \in BOOLEAN : exec' = Standing(met)
                      /\ under' = Rerun(under)
                   \/ exec' = NewExecutor /\ under' = None
                /\ stray' = stray
           ELSE /\ under' = [under EXCEPT !.done = TRUE, !.rounds = @ + 1]
                /\ stray' = stray \union {"web"}
                /\ UNCHANGED <<built, exec>>
  BY DEF Fetch
<1> DEFINE c == [ctx EXCEPT !.web = Append(@, parses)]
<1>3. /\ UNCHANGED <<depth, here, claims, cells, undone>> /\ ctx' = c
  BY <1>2 DEF Fetch, notebook
<1>4. c \in Contexts /\ c.specs = ctx.specs /\ c.model = ctx.model
  <2>1. Append(ctx.web, parses) \in Seq(BOOLEAN)
    BY <1>1, AppendProperties DEF Contexts
  <2> QED
    BY <1>1, <2>1 DEF Contexts
<1> HIDE DEF c
<1>5. CASE Buildable(c) /\ opens
  <2>1. built' = c /\ stray' = stray
    BY <1>2, <1>5 DEF c
  <2>2. ContextMounted'
    BY <1>3, <2>1 DEF ContextMounted
  <2>3. /\ exec' \in [refs : BOOLEAN, mine : BOOLEAN] /\ under' \in Lines \union {None}
        /\ under' # None => exec'.mine /\ under'.answer = under'.text
    <3>1. CASE exec' = NewExecutor /\ under' = None
      BY <3>1 DEF NewExecutor
    <3>2. CASE (\E met \in BOOLEAN : exec' = Standing(met)) /\ under' = Rerun(under)
      BY <1>1, <3>2, RerunType DEF Standing
    <3> QED
      BY <1>2, <1>5, <3>1, <3>2 DEF c
  <2>4. QuaiTypeOK'
    BY <1>3, <1>4, <2>1, <2>3 DEF QuaiInv, QuaiTypeOK
  <2>5. UnderWay'
    BY <1>1, <1>3, <2>3 DEF QuaiInv, UnderWay
  <2>6. Claimed' /\ CellsNumbered' /\ ~Broken(here')
    BY <1>3, <2>1 DEF QuaiInv, Claimed, AnswersOwnLines, CellsNumbered, Notebook
  <2> QED
    BY <2>2, <2>4, <2>5, <2>6 DEF QuaiInv
<1>6. CASE ~(Buildable(c) /\ opens)
  <2>1. /\ under' = [under EXCEPT !.done = TRUE, !.rounds = @ + 1]
        /\ stray' = stray \union {"web"} /\ UNCHANGED <<built, exec>>
    BY <1>2, <1>6 DEF c
  <2>2. under' = [uses |-> under.uses, text |-> under.text, live |-> under.live, answer |-> under.answer,
                  rounds |-> under.rounds + 1, done |-> TRUE]
    BY <1>1, <2>1 DEF Lines
  <2>3. under' \in Lines /\ under'.live = under.live /\ under'.text = under.text /\ under'.answer = under.answer
    BY <1>1, <2>2 DEF Lines
  <2>4. QuaiTypeOK'
    BY <1>3, <1>4, <2>1, <2>3 DEF QuaiInv, QuaiTypeOK, Strays
  <2>5. UnderWay'
    BY <1>1, <1>3, <2>1, <2>3 DEF QuaiInv, UnderWay, Reopens
  <2>6. ContextMounted'
    BY <1>3, <1>4, <2>1 DEF QuaiInv, ContextMounted
  <2>7. Claimed' /\ CellsNumbered' /\ ~Broken(here')
    BY <1>3, <2>1 DEF QuaiInv, Claimed, AnswersOwnLines, CellsNumbered, Notebook
  <2> QED
    BY <2>4, <2>5, <2>6, <2>7 DEF QuaiInv
<1> QED
  BY <1>5, <1>6

\* A line that takes a number and is told of nothing: what is left is the session.
LEMMA QuaiTakes ==
    ASSUME QuaiInv, UNCHANGED <<mode, depth, exec, claims>>, under' = None,
           ctx' \in Contexts, built' \in Contexts, ContextMounted',
           stray \subseteq stray', stray' \subseteq Strays,
           here' \in Sessions, ~Broken(here'), NEW numbered \in BOOLEAN, Cell(numbered),
           here'.no = IF numbered THEN here.no + 1 ELSE here.no,
           \A n \in Labels : n < here.no => here'.snaps[n] = here.snaps[n],
           "table" \in stray' \/ claims = {}
             \/ \A n \in Labels, x \in Texts : Resolves(here.defs, n, x) => Resolves(here'.defs, n, x)
    PROVE  QuaiInv'
<1>1. here.no \in Nat /\ here'.no \in Nat /\ here.no <= here'.no
  BY DEF QuaiInv, QuaiTypeOK, Sessions
<1>2. Claimed'
  BY <1>1, ClaimsStay
<1>3. CellsNumbered' /\ cells' \in Nat /\ undone' \in Nat
  BY CountsStay
<1>4. QuaiTypeOK'
  BY <1>3 DEF QuaiInv, QuaiTypeOK
<1>5. UnderWay'
  BY DEF UnderWay
<1> QED
  BY <1>2, <1>3, <1>4, <1>5 DEF QuaiInv

\* A cell that fails, a replay and a definition.
LEMMA QuaiNumbers ==
    ASSUME QuaiInv, UNCHANGED mode,
           \/ \E u \in Names \union {None}, t \in Texts : FailHere(u, t)
           \/ \E n \in Labels : ReplayHere(n)
           \/ \E d \in Defs : DefineHere(d)
    PROVE  QuaiInv'
<1>1. here \in Sessions /\ ~Broken(here) /\ here.defs \in Tables /\ ctx \in Contexts /\ built \in Contexts
      /\ stray \subseteq Strays /\ ContextMounted
  BY DEF QuaiInv, QuaiTypeOK, Sessions
<1>2. Blank \in Answers
  BY DEF Answers
<1>3. ASSUME NEW u \in Names \union {None}, NEW t \in Texts, FailHere(u, t) PROVE QuaiInv'
  <2>1. /\ UNCHANGED <<ctx, depth, built, exec, under, claims, stray>> /\ under = None /\ here.no <= MaxNo
        /\ here' = Committed(here, u, t, Blank) /\ Cell(TRUE)
    BY <1>3 DEF FailHere, mounts, Idle
  <2>2. here' \in Sessions
    BY <1>1, <1>2, <2>1, CommittedType
  <2>3. /\ ~Broken(here') /\ here'.no = here.no + 1
        /\ \A n \in Labels : n < here.no => here'.snaps[n] = here.snaps[n]
        /\ \A n \in Labels, x \in Texts : Resolves(here.defs, n, x) => Resolves(here'.defs, n, x)
    BY <1>1, <1>2, <2>1, CommittedReads
  <2>4. ContextMounted'
    BY <1>1, <2>1 DEF ContextMounted
  <2> QED
    BY <1>1, <2>1, <2>2, <2>3, <2>4, QuaiTakes
<1>4. ASSUME NEW n \in Labels, ReplayHere(n) PROVE QuaiInv'
  <2>1. /\ UNCHANGED <<ctx, depth, built, exec, under, claims, stray>> /\ under = None /\ here.no <= MaxNo
        /\ here' = Replayed(here, n) /\ Cell(TRUE)
    BY <1>4 DEF ReplayHere, mounts, Idle
  <2>2. here' \in Sessions
    BY <1>1, <2>1, ReplayedType
  <2>3. here'.defs = here.defs /\ here'.ragged = here.ragged /\ here'.no = here.no + 1
    BY <2>1, NumberedFields DEF Replayed
  <2>4. \A k \in Labels : k < here.no => here'.snaps[k] = here.snaps[k]
    BY <1>1, <2>1, NumberedSnaps DEF Replayed
  <2>5. ~Broken(here')
    BY <1>1, <2>3 DEF Broken
  <2>6. ContextMounted'
    BY <1>1, <2>1 DEF ContextMounted
  <2> QED
    BY <1>1, <2>1, <2>2, <2>3, <2>4, <2>5, <2>6, QuaiTakes
<1>5. ASSUME NEW d \in Defs, DefineHere(d) PROVE QuaiInv'
  <2>1. /\ UNCHANGED <<ctx, depth, built, exec, under, claims, stray>> /\ under = None /\ here.no <= MaxNo
        /\ here' = (IF Admits(here, d) THEN Extended(here, d) ELSE here) /\ Cell(Admits(here, d))
    BY <1>5 DEF DefineHere, mounts, Idle
  <2>2. ContextMounted'
    BY <1>1, <2>1 DEF ContextMounted
  <2>3. CASE Admits(here, d)
    <3>1. d \in Definitions
      BY TypedAssumption
    <3>2. here' = Extended(here, d) /\ here' \in Sessions
      BY <1>1, <2>1, <2>3, <3>1, ExtendedType
    <3> DEFINE defs == Append(here.defs, d)
    <3>3. here' = Numbered(here, defs, Blank)
      BY <3>2 DEF Extended
    <3> HIDE DEF defs
    <3>4. here'.defs = defs /\ here'.ragged = here.ragged /\ here'.no = here.no + 1
      BY <3>3, NumberedFields
    <3>5. here'.defs = Append(here.defs, d) /\ here'.ragged = here.ragged /\ here'.no = here.no + 1
      BY <3>4 DEF defs
    <3>6. \A k \in Labels : k < here.no => here'.snaps[k] = here.snaps[k]
      BY <1>1, <2>1, <3>3, NumberedSnaps
    <3>7. ~Broken(here')
      BY <2>3, <3>5 DEF Broken, Admits
    <3>8. \A k \in Labels, x \in Texts : Resolves(here.defs, k, x) => Resolves(here'.defs, k, x)
      BY <1>1, <3>1, <3>5, AppendKeeps
    <3>9. Cell(TRUE)
      BY <2>1, <2>3 DEF Cell
    <3> QED
      BY <1>1, <2>1, <2>2, <3>2, <3>5, <3>6, <3>7, <3>8, <3>9, QuaiTakes
  <2>4. CASE ~Admits(here, d)
    <3>1. here' = here
      BY <2>1, <2>4
    <3>2. Cell(FALSE)
      BY <2>1, <2>4 DEF Cell
    <3> QED
      BY <1>1, <2>1, <2>2, <3>1, <3>2, QuaiTakes
  <2> QED
    BY <2>3, <2>4
<1> QED
  BY <1>3, <1>4, <1>5

\* A mount, the depth of :follow, and a session that starts over.
LEMMA QuaiCommands ==
    ASSUME QuaiInv, UNCHANGED mode,
           \/ \E m \in Sources : MountHere(m)
           \/ \E d \in 0..MaxDepth : DepthHere(d)
           \/ ResetHere
    PROVE  QuaiInv'
<1>1. ASSUME NEW m \in Sources, MountHere(m) PROVE QuaiInv'
  <2> DEFINE c == [ctx EXCEPT !.specs = Append(@, m)]
  <2>1. UNCHANGED <<depth, here, under, claims, stray, cells, undone>> /\ under = None /\ Remount(c)
    BY <1>1 DEF MountHere, notebook, Idle
  <2>2. ctx \in Contexts /\ c \in Contexts
    <3>1. ctx \in Contexts
      BY DEF QuaiInv, QuaiTypeOK
    <3>2. Append(ctx.specs, m) \in Seq(Sources)
      BY <3>1, AppendProperties DEF Contexts
    <3> QED
      BY <3>1, <3>2 DEF Contexts
  <2> HIDE DEF c
  <2>3. /\ ctx' \in Contexts /\ built' \in Contexts /\ exec' \in [refs : BOOLEAN, mine : BOOLEAN]
        /\ (ctx' = built' \/ UNCHANGED <<ctx, built>>)
    <3>1. built \in Contexts /\ exec \in [refs : BOOLEAN, mine : BOOLEAN] /\ NewExecutor \in [refs : BOOLEAN, mine : BOOLEAN]
      BY DEF QuaiInv, QuaiTypeOK, NewExecutor
    <3>2. \/ ctx' = c /\ built' = c /\ exec' = NewExecutor
          \/ UNCHANGED <<ctx, built, exec>>
      BY <2>1 DEF Remount, Remounted
    <3> QED
      BY <2>2, <3>1, <3>2
  <2>4. QuaiTypeOK' /\ UnderWay'
    BY <2>1, <2>3 DEF QuaiInv, QuaiTypeOK, UnderWay
  <2>5. ContextMounted'
    BY <2>1, <2>3 DEF QuaiInv, ContextMounted
  <2>6. Claimed' /\ CellsNumbered' /\ ~Broken(here')
    BY <2>1 DEF QuaiInv, Claimed, AnswersOwnLines, CellsNumbered, Notebook
  <2> QED
    BY <2>4, <2>5, <2>6 DEF QuaiInv
<1>2. ASSUME NEW d \in 0..MaxDepth, DepthHere(d) PROVE QuaiInv'
  <2>1. UNCHANGED <<ctx, built, exec, here, under, claims, stray, cells, undone>> /\ depth' = d
    BY <1>2 DEF DepthHere, notebook
  <2>2. QuaiTypeOK'
    BY <2>1 DEF QuaiInv, QuaiTypeOK
  <2> QED
    BY <2>1, <2>2 DEF QuaiInv, UnderWay, Reopens, Claimed, AnswersOwnLines, ContextMounted, CellsNumbered, Notebook
<1>3. ASSUME ResetHere PROVE QuaiInv'
  <2>1. UNCHANGED <<ctx, depth, built, exec, under, stray, cells, undone>> /\ under = None /\ ~Notebook
        /\ here' = Fresh /\ claims' = {}
    BY <1>3 DEF ResetHere, mounts, notebook, Idle, Cleared
  <2>2. QuaiTypeOK'
    BY <2>1, FreshType DEF QuaiInv, QuaiTypeOK
  <2>3. UnderWay' /\ Claimed' /\ CellsNumbered'
    BY <2>1 DEF UnderWay, Claimed, AnswersOwnLines, CellsNumbered, Notebook
  <2>4. ContextMounted' /\ ~Broken(here')
    BY <2>1, FreshReads DEF QuaiInv, ContextMounted
  <2> QED
    BY <2>2, <2>3, <2>4 DEF QuaiInv
<1> QED
  BY <1>1, <1>2, <1>3

\* A model cell stops with its mounts pushed, or with its declarations, or mounts it all.
LEMMA QuaiModel ==
    ASSUME QuaiInv, UNCHANGED mode, NEW ms \in Seq(Sources), NEW lib \in CellDefs,
           NEW text \in Texts \ Bodies, ModelCell(ms, lib, text)
    PROVE  QuaiInv'
<1> DEFINE pushed == [ctx EXCEPT !.specs = @ \o ms]
           c == [pushed EXCEPT !.model = @ + 1]
           modelled == [ctx EXCEPT !.model = @ + 1]
           seeded == lib # <<>> /\ WellFormed(lib)
           s == IF seeded THEN Seeded(here, lib) ELSE here
<1>1. /\ UNCHANGED <<depth, under, claims>> /\ under = None /\ here.no <= MaxNo /\ Cell(TRUE)
      /\ \/ /\ ctx' = pushed /\ stray' = (IF ms = <<>> THEN stray ELSE stray \union {"specs"})
            /\ here' = Committed(here, None, text, Blank)
            /\ UNCHANGED <<built, exec>>
         \/ /\ ctx' = modelled /\ stray' = stray \union {"model"}
            /\ here' = Committed(here, None, text, Blank)
            /\ UNCHANGED <<built, exec>>
         \/ /\ Buildable(c) /\ ctx' = c /\ Remounted(c)
            /\ here' = Committed(s, None, text, Blank)
            /\ stray' = IF seeded /\ here.defs # <<>> THEN stray \union {"table"} ELSE stray
  BY DEF ModelCell, Idle
<1>2. here \in Sessions /\ ~Broken(here) /\ here.defs \in Tables /\ ctx \in Contexts /\ built \in Contexts
      /\ stray \subseteq Strays /\ ContextMounted /\ Blank \in Answers /\ text \in Texts
  BY DEF QuaiInv, QuaiTypeOK, Sessions, Answers
<1>3. /\ pushed \in Contexts /\ pushed.web = ctx.web /\ pushed.model = ctx.model
      /\ (ms = <<>> => pushed.specs = ctx.specs)
  <2>1. ctx.specs \o ms \in Seq(Sources) /\ (ms = <<>> => ctx.specs \o ms = ctx.specs)
    BY <1>2, ConcatProperties DEF Contexts
  <2> QED
    BY <1>2, <2>1 DEF Contexts
<1>4. modelled \in Contexts /\ modelled.specs = ctx.specs /\ modelled.web = ctx.web
  <2>1. ctx.model + 1 \in Nat
    BY <1>2 DEF Contexts
  <2> QED
    BY <1>2, <2>1 DEF Contexts
<1>5. c \in Contexts
  <2>1. pushed.model + 1 \in Nat
    BY <1>3 DEF Contexts
  <2> HIDE DEF pushed
  <2> QED
    BY <1>3, <2>1 DEF Contexts
<1>6. s \in Sessions /\ ~Broken(s) /\ s.no = here.no /\ s.snaps = here.snaps
  <2>1. CASE seeded
    <3>1. lib \in Tables
      BY SourcesAssumption DEF Tables
    <3>2. s.defs = lib /\ s.ragged = FALSE /\ s.no = here.no /\ s.snaps = here.snaps
      BY <2>1 DEF Seeded
    <3>3. s \in Sessions
      BY <1>2, <2>1, <3>1, SeededType
    <3> QED
      BY <2>1, <3>2, <3>3 DEF Broken
  <2>2. CASE ~seeded
    BY <1>2, <2>2
  <2> QED
    BY <2>1, <2>2
<1> HIDE DEF pushed, c, modelled, seeded, s
<1>7. Committed(here, None, text, Blank) \in Sessions /\ Committed(s, None, text, Blank) \in Sessions
  BY <1>1, <1>2, <1>6, CommittedType
<1>8. ASSUME NEW r \in {here, s}
      PROVE  /\ ~Broken(Committed(r, None, text, Blank)) /\ Committed(r, None, text, Blank).no = here.no + 1
             /\ \A n \in Labels : n < here.no => Committed(r, None, text, Blank).snaps[n] = here.snaps[n]
             /\ \A n \in Labels, x \in Texts :
                  Resolves(r.defs, n, x) => Resolves(Committed(r, None, text, Blank).defs, n, x)
  <2>1. r \in Sessions /\ ~Broken(r) /\ r.no = here.no /\ r.snaps = here.snaps
    BY <1>2, <1>6
  <2>2. /\ ~Broken(Committed(r, None, text, Blank)) /\ Committed(r, None, text, Blank).no = r.no + 1
        /\ \A n \in Labels : n < r.no => Committed(r, None, text, Blank).snaps[n] = r.snaps[n]
        /\ \A n \in Labels, x \in Texts :
             Resolves(r.defs, n, x) => Resolves(Committed(r, None, text, Blank).defs, n, x)
    <3>1. r.no <= MaxNo /\ None \in Names \union {None} /\ text \in Texts /\ Blank \in Answers
      BY <1>1, <1>2, <2>1
    <3> QED
      BY <2>1, <3>1, CommittedReads
  <2> QED
    BY <2>1, <2>2
<1>9. ASSUME here' = Committed(here, None, text, Blank), UNCHANGED <<built, exec>>, ctx' \in Contexts,
             stray \subseteq stray', stray' \subseteq Strays, ContextMounted'
      PROVE  QuaiInv'
  <2>1. /\ here' \in Sessions /\ ~Broken(here') /\ here'.no = here.no + 1
        /\ \A n \in Labels : n < here.no => here'.snaps[n] = here.snaps[n]
        /\ \A n \in Labels, x \in Texts : Resolves(here.defs, n, x) => Resolves(here'.defs, n, x)
    BY <1>7, <1>8, <1>9
  <2>2. under' = None /\ built' \in Contexts
    BY <1>1, <1>2, <1>9
  <2> QED
    BY <1>1, <1>9, <2>1, <2>2, QuaiTakes
<1>10. CASE ctx' = pushed /\ stray' = (IF ms = <<>> THEN stray ELSE stray \union {"specs"})
            /\ here' = Committed(here, None, text, Blank) /\ UNCHANGED <<built, exec>>
  <2>1. ContextMounted'
    BY <1>2, <1>3, <1>10 DEF ContextMounted
  <2>2. ctx' \in Contexts /\ stray \subseteq stray' /\ stray' \subseteq Strays
    BY <1>2, <1>3, <1>10 DEF Strays
  <2> QED
    BY <1>9, <1>10, <2>1, <2>2
<1>11. CASE ctx' = modelled /\ stray' = stray \union {"model"}
            /\ here' = Committed(here, None, text, Blank) /\ UNCHANGED <<built, exec>>
  <2>1. ContextMounted'
    BY <1>2, <1>4, <1>11 DEF ContextMounted
  <2>2. ctx' \in Contexts /\ stray \subseteq stray' /\ stray' \subseteq Strays
    BY <1>2, <1>4, <1>11 DEF Strays
  <2> QED
    BY <1>9, <1>11, <2>1, <2>2
<1>12. CASE ctx' = c /\ Remounted(c) /\ here' = Committed(s, None, text, Blank)
            /\ stray' = IF seeded /\ here.defs # <<>> THEN stray \union {"table"} ELSE stray
  <2>1. ctx' \in Contexts /\ built' = ctx' /\ exec' = NewExecutor
    BY <1>5, <1>12 DEF Remounted
  <2>2. stray \subseteq stray' /\ stray' \subseteq Strays
    BY <1>2, <1>12 DEF Strays
  <2>3. /\ here' \in Sessions /\ ~Broken(here') /\ here'.no = here.no + 1
        /\ \A n \in Labels : n < here.no => here'.snaps[n] = here.snaps[n]
        /\ \A n \in Labels, x \in Texts : Resolves(s.defs, n, x) => Resolves(here'.defs, n, x)
    BY <1>7, <1>8, <1>12
  <2>4. "table" \in stray' \/ claims = {} \/ s = here
    <3>1. CASE ~seeded
      BY <3>1 DEF s
    <3>2. CASE seeded /\ here.defs # <<>>
      BY <1>12, <3>2
    <3>3. CASE seeded /\ here.defs = <<>>
      <4>1. \A l \in claims : ~Resolves(here.defs, l[1], l[2])
        BY <3>3 DEF Resolves
      <4>2. stray' = stray
        BY <1>12, <3>3
      <4> QED
        BY <4>1, <4>2 DEF QuaiInv, Claimed, AnswersOwnLines
    <3> QED
      BY <3>1, <3>2, <3>3
  <2>5. Claimed'
    <3>1. here.no \in Nat /\ here'.no \in Nat /\ here.no <= here'.no
      BY <1>2, <2>3 DEF Sessions
    <3>2. \/ "table" \in stray' \/ claims = {}
          \/ \A n \in Labels, x \in Texts : Resolves(here.defs, n, x) => Resolves(here'.defs, n, x)
      BY <2>3, <2>4
    <3>3. UNCHANGED claims
      BY <1>1
    <3> QED
      BY <2>2, <2>3, <3>1, <3>2, <3>3, ClaimsStay
  <2>6. CellsNumbered' /\ cells' \in Nat /\ undone' \in Nat
    BY <1>1, <2>3, CountsStay
  <2>7. QuaiTypeOK'
    BY <1>1, <2>1, <2>2, <2>3, <2>6 DEF QuaiInv, QuaiTypeOK, NewExecutor
  <2>8. UnderWay' /\ ContextMounted'
    BY <1>1, <2>1 DEF UnderWay, ContextMounted
  <2> QED
    BY <2>3, <2>5, <2>6, <2>7, <2>8 DEF QuaiInv
<1> QED
  BY <1>1, <1>10, <1>11, <1>12

\* A line typed in the process is one of these.
LEMMA QuaiTyped == ASSUME QuaiInv, UNCHANGED mode, Typed PROVE QuaiInv'
<1>1. CASE \E u \in Names \union {None}, t \in Texts, l \in BOOLEAN : AskHere(u, t, l)
  BY <1>1, QuaiAsk
<1>2. CASE \/ \E u \in Names \union {None}, t \in Texts : FailHere(u, t)
           \/ \E n \in Labels : ReplayHere(n)
           \/ \E d \in Defs : DefineHere(d)
  BY <1>2, QuaiNumbers
<1>3. CASE \/ \E m \in Sources : MountHere(m)
           \/ \E d \in 0..MaxDepth : DepthHere(d)
           \/ ResetHere
  BY <1>3, QuaiCommands
<1>4. CASE \E ms \in {<<>>} \union {<<m>> : m \in Sources \ {Bare}}, lib \in CellDefs,
              t \in Texts \ Bodies : ModelCell(ms, lib, t)
  <2>1. PICK ms \in {<<>>} \union {<<m>> : m \in Sources \ {Bare}}, lib \in CellDefs,
             t \in Texts \ Bodies : ModelCell(ms, lib, t)
    BY <1>4
  <2>2. ms \in Seq(Sources)
    <3>1. CASE ms = <<>>
      BY <3>1
    <3>2. CASE ms # <<>>
      <4>1. PICK m \in Sources : ms = <<m>>
        BY <3>2
      <4> QED
        BY <4>1
    <3> QED
      BY <3>1, <3>2
  <2> QED
    BY <2>1, <2>2, QuaiModel
<1> QED
  BY <1>1, <1>2, <1>3, <1>4 DEF Typed

\* Every step keeps the invariant.
LEMMA QuaiGoesOn == QuaiInv /\ [QuaiNext]_allVars => QuaiInv'
<1> SUFFICES ASSUME QuaiInv, [QuaiNext]_allVars PROVE QuaiInv'
  OBVIOUS
<1>1. CASE UNCHANGED <<mode, local>>
  BY <1>1 DEF local, QuaiInv, QuaiTypeOK, UnderWay, Reopens, Claimed, AnswersOwnLines, ContextMounted,
              CellsNumbered, Notebook
<1>2. CASE (Typed \/ Fetch \/ FetchFails \/ Finish) /\ UNCHANGED <<vars, mode>>
  BY <1>2, QuaiTyped, QuaiFetch, QuaiFetchFails, QuaiFinish
<1> QED
  BY <1>1, <1>2 DEF QuaiNext, allVars

\* The state of quai in the process keeps its type.
THEOREM QuaiTypeCorrect == QuaiSpec => []QuaiTypeOK
<1>1. QuaiInv => QuaiTypeOK
  BY DEF QuaiInv
<1> QED
  BY <1>1, QuaiBegins, QuaiGoesOn, PTL DEF QuaiSpec

\* What &n runs is the line that gave its answer, followed or not, and it can be
\* referred to unless a model cell's definitions took the table's place.
THEOREM AnswersStayOwn == QuaiSpec => []AnswersOwnLines
<1>1. QuaiInv => AnswersOwnLines
  BY DEF QuaiInv, Claimed
<1> QED
  BY <1>1, QuaiBegins, QuaiGoesOn, PTL DEF QuaiSpec

\* What the next mount will be built from is what is mounted, but for what a refused
\* step left behind.
THEOREM ContextStaysMounted == QuaiSpec => []ContextMounted
<1>1. QuaiInv => ContextMounted
  BY DEF QuaiInv
<1> QED
  BY <1>1, QuaiBegins, QuaiGoesOn, PTL DEF QuaiSpec

\* Every cell of a notebook takes a number of its own, a refused definition aside.
THEOREM CellsStayNumbered == QuaiSpec => []CellsNumbered
<1>1. QuaiInv => CellsNumbered
  BY DEF QuaiInv
<1> QED
  BY <1>1, QuaiBegins, QuaiGoesOn, PTL DEF QuaiSpec

\* No line, definition, cell or mount leaves the session in the process with a table
\* that the next line cannot be read with.
THEOREM HereStaysReadable == QuaiSpec => []~Broken(here)
<1>1. QuaiInv => ~Broken(here)
  BY DEF QuaiInv
<1> QED
  BY <1>1, QuaiBegins, QuaiGoesOn, PTL DEF QuaiSpec

\* A page is fetched for a reference of the line under way, or, when that line reads
\* re-opened files, for one that the line before it left.
THEOREM PagesFetchedForCause == QuaiSpec => FetchedForCause
<1>1. QuaiInv /\ [QuaiNext]_allVars =>
         [ctx'.web # ctx.web => exec.mine \/ (under.live /\ Reopens)]_allVars
  <2> SUFFICES ASSUME QuaiInv, QuaiNext, ctx'.web # ctx.web
               PROVE  exec.mine \/ (under.live /\ Reopens)
    OBVIOUS
  <2>1. ctx \in Contexts
    BY DEF QuaiInv, QuaiTypeOK
  <2>2. ~UNCHANGED ctx
    OBVIOUS
  <2>3. ASSUME NEW m \in Sources, MountHere(m) PROVE FALSE
    BY <2>1, <2>3 DEF MountHere, Remount, Remounted, Contexts
  <2>4. ASSUME NEW ms, NEW lib, NEW t, ModelCell(ms, lib, t) PROVE FALSE
    BY <2>1, <2>4 DEF ModelCell, Remounted, Contexts
  <2>5. ~Typed
    BY <2>2, <2>3, <2>4 DEF Typed, AskHere, FailHere, ReplayHere, DefineHere, DepthHere, ResetHere, mounts
  <2>6. Fetch
    BY <2>2, <2>5 DEF QuaiNext, local, FetchFails, Finish, mounts
  <2> QED
    BY <2>6 DEF Fetch, Follow, QuaiInv, UnderWay
<1> QED
  BY <1>1, QuaiBegins, QuaiGoesOn, PTL DEF QuaiSpec, FetchedForCause

\* The diagnostics printed with an answer are the line's own, the readings of
\* re-opened files aside.
THEOREM NotesStayOwn == QuaiSpec => NotesOwn
<1>1. QuaiInv /\ [QuaiNext]_allVars => [Finish => exec.mine \/ (under.live /\ Reopens)]_allVars
  BY DEF QuaiInv, UnderWay, Finish
<1> QED
  BY <1>1, QuaiBegins, QuaiGoesOn, PTL DEF QuaiSpec, NotesOwn

\* What holds of the sessions over a file holds of quai, which runs several of them
\* or one in the process: that labels hold, tables parse, history resumes and
\* numbers are fresh.
THEOREM DaemonSessionsHold ==
    QuaiSpec => [](LabelsHold /\ TablesParse /\ HistoryResumes /\ NumbersAreFresh)
BY DaemonKeepsSessions, LabelsStayTold, TablesStayWhole, HistoryStays, NumbersStayFresh, PTL
=============================================================================
