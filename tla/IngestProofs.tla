---------------------------- MODULE IngestProofs ----------------------------
(***************************************************************************)
(* Proofs about the ingest, for every dump, number of workers and number   *)
(* of slots.  First, that no thread blocks on the worker pool's channels:  *)
(* what is in flight is counted, and the count stays within the slots.     *)
(* Then, what the store is written from and what it ends up holding.  Last,*)
(* that no line is lost on the way.                                        *)
(***************************************************************************)
EXTENDS Ingest, TLAPS, FiniteSetTheorems, SequenceTheorems, NaturalsInduction,
        FunctionTheorems, WellFoundedInduction

USE DEF Place

Jobs == [line : Place, row : BOOLEAN]
WorkerStates == {"lock", "recv", "work", "send", "ended", "panicked"}

\* The slots of the pool are a number.
LEMMA SlotsType == Slots \in Nat
<1>1. Cardinality(Workers) \in Nat
  BY SlotsAssumption, FS_CardinalityType
<1> QED
  BY <1>1, SlotsAssumption DEF Slots

\* The busy workers are finitely many.
LEMMA BusyFinite == IsFiniteSet(Busy) /\ Cardinality(Busy) \in Nat
<1>1. Busy \in SUBSET Workers
  BY DEF Busy
<1>2. IsFiniteSet(Busy)
  BY <1>1, SlotsAssumption, FS_Subset
<1> QED
  BY <1>2, FS_CardinalityType

\* What both channels hold is a number.
LEMMA LengthsType ==
    ASSUME FlightInv
    PROVE  Len(lineCh) \in Nat /\ Len(doneCh) \in Nat
BY LenProperties DEF FlightInv, FlightTypes

\* A file and a number make the place of a line.
LEMMA JobOfLine ==
    ASSUME NEW l \in Place
    PROVE  Unlowered(l) \in Jobs /\ (base \in BOOLEAN => Result(l) \in Jobs)
BY DEF Jobs, Unlowered, Result

\* A step that leaves the pool alone and enters "send" only with room.
LEMMA PoolAlone ==
    ASSUME FlightInv,
           UNCHANGED <<lineCh, doneCh, wpc, job>>, inFlight' = inFlight,
           pc' \in {"open", "fill", "send", "handle", "join", "finished", "failed", "panicked"},
           file' \in Nat, taken' \in Nat, base' \in BOOLEAN,
           pc' = "send" => inFlight < Slots /\ hold' \in Jobs
    PROVE  FlightInv'
<1>1. Busy' = Busy
  BY DEF Busy
<1> QED
  BY <1>1, SlotsType DEF FlightInv, FlightTypes, FlightHeld, FlightCounted, Jobs, Slots

\* A step of a worker that only moves between waiting for the lock, holding it
\* and having ended.
LEMMA IdleStep ==
    ASSUME FlightInv, NEW w \in Workers, NEW s \in {"lock", "recv", "ended"},
           wpc[w] \in {"lock", "recv"}, wpc' = [wpc EXCEPT ![w] = s],
           UNCHANGED <<pc, file, taken, base, hold, inFlight, lineCh, doneCh, job>>
    PROVE  FlightInv'
<1>1. Busy' = Busy
  BY DEF Busy, FlightInv, FlightTypes
<1>2. FlightTypes'
  BY DEF FlightInv, FlightTypes, Slots
<1>3. FlightHeld'
  BY <1>1 DEF FlightInv, FlightHeld, Jobs
<1>4. FlightCounted'
  BY <1>1 DEF FlightInv, FlightCounted, Slots
<1> QED
  BY <1>2, <1>3, <1>4 DEF FlightInv

\* A worker takes the first line of the channel.
LEMMA TakeStep ==
    ASSUME FlightInv, NEW w \in Workers, Recv(w), lineCh # <<>>, lineCh' = Tail(lineCh),
           job' = [job EXCEPT ![w] = Unlowered(Head(lineCh))],
           wpc' = [wpc EXCEPT ![w] = "work"]
    PROVE  FlightInv'
<1>0. UNCHANGED <<pc, file, taken, base, hold, inFlight, doneCh>>
  BY DEF Recv, mainVars, readVars
<1>1. Busy' = Busy \union {w} /\ w \notin Busy
  BY DEF Busy, Recv, FlightInv, FlightTypes
<1>2. Cardinality(Busy') = Cardinality(Busy) + 1
  BY <1>1, BusyFinite, FS_AddElement
<1>3. /\ Head(lineCh) \in Place /\ lineCh' \in Seq(Place)
      /\ Len(lineCh') = Len(lineCh) - 1
  BY HeadTailProperties DEF FlightInv, FlightTypes
<1>4. FlightTypes'
  BY <1>0, <1>3 DEF FlightInv, FlightTypes, Slots
<1>5. FlightHeld'
  BY <1>0, <1>1, <1>3, JobOfLine DEF FlightInv, FlightHeld, Jobs
<1>6. FlightCounted'
  BY <1>0, <1>2, <1>3, BusyFinite, LengthsType, SlotsType
  DEF FlightInv, FlightTypes, FlightCounted, Slots
<1> QED
  BY <1>4, <1>5, <1>6 DEF FlightInv

\* A worker hands in its result.
LEMMA ReplyStep ==
    ASSUME FlightInv, NEW w \in Workers, Reply(w)
    PROVE  FlightInv'
<1>0. UNCHANGED <<pc, file, taken, base, hold, inFlight, lineCh>>
  BY DEF Reply, mainVars, readVars
<1>1. Busy' = Busy \ {w} /\ w \in Busy
  BY DEF Busy, Reply, FlightInv, FlightTypes
<1>2. Cardinality(Busy') = Cardinality(Busy) - 1
  BY <1>1, BusyFinite, FS_RemoveElement
<1>3. job[w] \in Jobs
  BY <1>1 DEF FlightInv, FlightHeld, Jobs
<1>4. doneCh' \in Seq(Jobs) /\ Len(doneCh') = Len(doneCh) + 1
  BY <1>3, AppendProperties DEF Reply, FlightInv, FlightTypes, Jobs
<1>5. FlightTypes'
  BY <1>0, <1>4 DEF Reply, FlightInv, FlightTypes, Slots, Jobs
<1>6. FlightHeld'
  BY <1>0, <1>1 DEF Reply, FlightInv, FlightHeld, Jobs
<1>7. FlightCounted'
  BY <1>0, <1>2, <1>4, BusyFinite, LengthsType, SlotsType
  DEF FlightInv, FlightTypes, FlightCounted, Slots
<1> QED
  BY <1>5, <1>6, <1>7 DEF FlightInv

\* A worker panics with a line in hand, which stays counted.
LEMMA PanicStep ==
    ASSUME FlightInv, NEW w \in Workers, Panic(w)
    PROVE  FlightInv'
<1>0. UNCHANGED <<pc, file, taken, base, hold, inFlight, lineCh, doneCh, job>>
  BY DEF Panic, mainVars, readVars
<1>1. Busy' = Busy \ {w} /\ w \in Busy
  BY DEF Busy, Panic, FlightInv, FlightTypes
<1>2. Cardinality(Busy') = Cardinality(Busy) - 1
  BY <1>1, BusyFinite, FS_RemoveElement
<1>3. FlightTypes'
  BY <1>0 DEF Panic, FlightInv, FlightTypes, Slots
<1>4. FlightHeld'
  BY <1>0, <1>1 DEF FlightInv, FlightHeld, Jobs
<1>5. FlightCounted'
  BY <1>0, <1>2, BusyFinite, LengthsType, SlotsType
  DEF FlightInv, FlightTypes, FlightCounted, Slots
<1> QED
  BY <1>3, <1>4, <1>5 DEF FlightInv

\* A worker lowers its line: busy before and after.
LEMMA WorkStep ==
    ASSUME FlightInv, NEW w \in Workers, Work(w)
    PROVE  FlightInv'
<1>0. UNCHANGED <<pc, file, taken, base, hold, inFlight, lineCh, doneCh>>
  BY DEF Work, mainVars, readVars
<1>1. Busy' = Busy /\ w \in Busy
  BY DEF Busy, Work, FlightInv, FlightTypes
<1>2. job[w].line \in Place
  BY <1>1 DEF FlightInv, FlightHeld
<1>3. Result(job[w].line) \in Jobs
  BY <1>2, JobOfLine DEF FlightInv, FlightTypes
<1>4. FlightTypes'
  BY <1>0 DEF Work, FlightInv, FlightTypes, Slots
<1>5. FlightHeld'
  BY <1>0, <1>1, <1>3 DEF Work, FlightInv, FlightHeld, Jobs
<1>6. FlightCounted'
  BY <1>0, <1>1 DEF FlightInv, FlightCounted, Slots
<1> QED
  BY <1>4, <1>5, <1>6 DEF FlightInv

\* The main thread opens a file: empty channels, idle workers.
LEMMA OpenStep ==
    ASSUME FlightInv, OpenFile
    PROVE  FlightInv'
<1>1. /\ UNCHANGED <<base, hold, inFlight, job>> /\ file' = file + 1 /\ taken' = 0
      /\ lineCh' = <<>> /\ doneCh' = <<>> /\ pc' \in {"fill", "failed"}
      /\ wpc' = wpc \/ wpc' = [w \in Workers |-> "lock"]
  BY DEF OpenFile
<1>2. Busy' \subseteq Busy
  BY <1>1 DEF Busy
<1>3. Cardinality(Busy') \in Nat /\ Cardinality(Busy') <= Cardinality(Busy)
  BY <1>2, BusyFinite, FS_Subset, FS_CardinalityType
<1>4. FlightTypes'
  BY <1>1 DEF FlightInv, FlightTypes, Slots
<1>5. FlightHeld'
  BY <1>1, <1>2 DEF FlightInv, FlightHeld
<1>6. FlightCounted'
  BY <1>1, <1>3, BusyFinite, LengthsType, SlotsType
  DEF FlightInv, FlightTypes, FlightCounted, Slots
<1> QED
  BY <1>4, <1>5, <1>6 DEF FlightInv

\* The main thread sends a line: one more in the channel, one more in flight.
LEMMA SendStep ==
    ASSUME FlightInv, Send
    PROVE  FlightInv'
<1>0. UNCHANGED <<file, taken, base, doneCh, wpc, job>> /\ pc' = "fill"
  BY DEF Send, readVars
<1>1. Busy' = Busy
  BY <1>0 DEF Busy
<1>2. lineCh' \in Seq(Place) /\ Len(lineCh') = Len(lineCh) + 1
  BY AppendProperties DEF Send, FlightInv, FlightTypes, FlightHeld
<1>3. inFlight' = inFlight + 1 /\ inFlight < Slots
  BY DEF Send, FlightInv, FlightCounted
<1>4. FlightTypes'
  BY <1>0, <1>2, <1>3, SlotsType DEF FlightInv, FlightTypes, Slots
<1>5. FlightHeld'
  BY <1>0, <1>1 DEF FlightInv, FlightHeld
<1>6. FlightCounted'
  BY <1>0, <1>1, <1>2, <1>3, BusyFinite, LengthsType, SlotsType
  DEF FlightInv, FlightTypes, FlightCounted, Slots
<1> QED
  BY <1>4, <1>5, <1>6 DEF FlightInv

\* The main thread receives a result: one less in the channel and in flight.
LEMMA ReceiveStep ==
    ASSUME FlightInv, ReceiveDone
    PROVE  FlightInv'
<1>0. UNCHANGED <<file, taken, base, lineCh, wpc, job>> /\ pc' = "handle"
  BY DEF ReceiveDone, mainVars, readVars
<1>1. Busy' = Busy
  BY <1>0 DEF Busy
<1>2. doneCh' \in Seq(Jobs) /\ Len(doneCh') = Len(doneCh) - 1
  BY HeadTailProperties DEF ReceiveDone, FlightInv, FlightTypes, Jobs
<1>3. inFlight' = inFlight - 1 /\ inFlight > 0
  BY DEF ReceiveDone
<1>4. FlightTypes'
  BY <1>0, <1>2, <1>3, SlotsType DEF FlightInv, FlightTypes, Slots, Jobs
<1>5. FlightHeld'
  BY <1>0, <1>1 DEF FlightInv, FlightHeld
<1>6. FlightCounted'
  BY <1>0, <1>1, <1>2, <1>3, BusyFinite, LengthsType, SlotsType
  DEF FlightInv, FlightTypes, FlightCounted, Slots
<1> QED
  BY <1>4, <1>5, <1>6 DEF FlightInv

\* The scope ends: no worker is busy, and the channels go with it.
LEMMA JoinStep ==
    ASSUME FlightInv, Join
    PROVE  FlightInv'
<1>0. /\ UNCHANGED <<file, taken, base, hold, wpc, job>>
      /\ pc' \in {"panicked", "failed", "open"}
      /\ inFlight' = 0 /\ lineCh' = <<>> /\ doneCh' = <<>>
  BY DEF Join, mainVars, readVars
<1>1. Busy' = {}
  BY <1>0 DEF Busy, Join
<1>2. Cardinality(Busy') = 0
  BY <1>1, FS_EmptySet
<1>3. FlightTypes'
  BY <1>0, SlotsType DEF FlightInv, FlightTypes, Slots
<1>4. FlightHeld'
  BY <1>0, <1>1 DEF FlightInv, FlightHeld
<1>5. FlightCounted'
  BY <1>0, <1>2 DEF FlightCounted
<1> QED
  BY <1>3, <1>4, <1>5 DEF FlightInv

-----------------------------------------------------------------------------
\* Every step keeps the count of what is in flight.
LEMMA FlightStep ==
    ASSUME FlightInv, [Next]_vars
    PROVE  FlightInv'
<1>0. /\ pc \in {"open", "fill", "send", "handle", "join", "finished", "failed", "panicked"}
      /\ file \in Nat /\ taken \in Nat /\ base \in BOOLEAN /\ inFlight \in Nat
      /\ pc = "send" => inFlight < Slots /\ hold \in Jobs
  BY SlotsType DEF FlightInv, FlightTypes, FlightHeld, FlightCounted, Jobs
<1>1. CASE OpenFile
  BY <1>1, OpenStep
<1>2. CASE Take
  <2>1. UNCHANGED <<lineCh, doneCh, wpc, job, inFlight, file>> /\ inFlight < Slots /\ pc = "fill"
    BY <1>2 DEF Take, poolVars, Filling
  <2>2. taken' = taken + 1 /\ base' = (base \/ Rec(<<file, taken + 1>>).kind # "bad")
    BY <1>2 DEF Take
  <2>3. pc' = "send" => hold' = Unlowered(<<file, taken + 1>>)
    BY <1>2, <2>1 DEF Take
  <2>4. pc' \in {"fill", "send"}
    BY <1>2, <2>1 DEF Take
  <2>5. Unlowered(<<file, taken + 1>>) \in Jobs
    BY <1>0, JobOfLine
  <2> QED
    BY <1>0, <2>1, <2>2, <2>3, <2>4, <2>5, PoolAlone
<1>3. CASE Send
  BY <1>3, SendStep
<1>4. CASE ReceiveDone
  BY <1>4, ReceiveStep
<1>5. CASE Join
  BY <1>5, JoinStep
<1>6. CASE TakeNone \/ ReceiveErr \/ Drained
  <2>1. /\ UNCHANGED <<lineCh, doneCh, wpc, job, inFlight, file, taken, base, hold>>
        /\ pc' = pc \/ pc' = "join"
    BY <1>6 DEF TakeNone, ReceiveErr, Drained, poolVars, readVars, mainVars
  <2> QED
    BY <1>0, <2>1, PoolAlone
<1>7. CASE Handle \/ HandleFault \/ WriteCategories
  <2>1. /\ UNCHANGED <<lineCh, doneCh, wpc, job, inFlight, file, taken, base>>
        /\ pc' \in {"fill", "join", "finished", "failed"}
    BY <1>7 DEF Handle, HandleFault, WriteCategories, poolVars, readVars, mainVars
  <2> QED
    BY <1>0, <2>1, PoolAlone
<1>8. ASSUME NEW w \in Workers, Worker(w) \/ Panic(w)
      PROVE  FlightInv'
  <2>1. CASE Lock(w)
    BY <2>1, IdleStep DEF Lock, mainVars, readVars
  <2>2. CASE Recv(w)
    <3>1. CASE lineCh = <<>>
      BY <2>2, <3>1, IdleStep DEF Recv, mainVars, readVars
    <3>2. CASE lineCh # <<>>
      BY <2>2, <3>2, TakeStep DEF Recv
    <3> QED
      BY <3>1, <3>2
  <2>3. CASE Work(w)
    BY <2>3, WorkStep
  <2>4. CASE Reply(w)
    BY <2>4, ReplyStep
  <2>5. CASE Panic(w)
    BY <2>5, PanicStep
  <2> QED
    BY <1>8, <2>1, <2>2, <2>3, <2>4, <2>5 DEF Worker
<1>9. ASSUME NEW f \in 1..Len(Files), Reader(f) \/ ReadFault(f)
      PROVE  FlightInv'
  <2>1. UNCHANGED <<pc, lineCh, doneCh, wpc, job, inFlight, file, taken, base, hold>>
    BY <1>9 DEF Reader, ReadLine, ReadEnd, ReadFault, poolVars, mainVars
  <2> QED
    BY <1>0, <2>1, PoolAlone
<1>10. CASE Terminated \/ UNCHANGED vars
  <2>1. UNCHANGED <<pc, lineCh, doneCh, wpc, job, inFlight, file, taken, base, hold>>
    BY <1>10 DEF Terminated, vars
  <2> QED
    BY <1>0, <2>1, PoolAlone
<1> QED
  BY <1>1, <1>2, <1>3, <1>4, <1>5, <1>6, <1>7, <1>8, <1>9, <1>10 DEF Next, Main

\* What is in flight is counted, and the count is within the slots.
THEOREM FlightCorrect == Spec => []FlightInv
<1>1. Init => FlightInv
  <2> SUFFICES ASSUME Init PROVE FlightInv
    OBVIOUS
  <2>1. Busy = {}
    BY DEF Init, Busy
  <2>2. Cardinality(Busy) = 0
    BY <2>1, FS_EmptySet
  <2>3. FlightTypes
    BY SlotsType DEF Init, FlightTypes
  <2>4. FlightHeld
    BY <2>1 DEF Init, FlightHeld
  <2>5. FlightCounted
    BY <2>2 DEF Init, FlightCounted
  <2> QED
    BY <2>3, <2>4, <2>5 DEF FlightInv
<1>2. FlightInv /\ [Next]_vars => FlightInv'
  BY FlightStep
<1> QED
  BY <1>1, <1>2, PTL DEF Spec

\* No send into the pool's channels ever finds them full: the main thread does
\* not wait for the workers while it feeds them, nor they for it when they
\* reply, with however many workers and whatever goes wrong.
THEOREM NoSendBlocks == Spec => []SendsNeverBlock
<1>1. FlightInv => SendsNeverBlock
  <2> SUFFICES ASSUME FlightInv PROVE SendsNeverBlock
    OBVIOUS
  <2>1. /\ Len(lineCh) + Cardinality(Busy) + Len(doneCh) <= inFlight
        /\ inFlight \in Nat /\ inFlight <= Slots
        /\ pc = "send" => inFlight < Slots
    BY SlotsType DEF FlightInv, FlightTypes, FlightCounted
  <2>2. pc = "send" => Len(lineCh) < Slots
    BY <2>1, BusyFinite, LengthsType, SlotsType
  <2>3. ASSUME NEW w \in Workers, wpc[w] = "send"
        PROVE  Len(doneCh) < Slots
    <3>1. Busy # {}
      BY <2>3 DEF Busy
    <3>2. Cardinality(Busy) > 0
      BY <3>1, BusyFinite, FS_EmptySet
    <3> QED
      BY <3>2, <2>1, BusyFinite, LengthsType, SlotsType
  <2> QED
    BY <2>2, <2>3 DEF SendsNeverBlock
<1> QED
  BY <1>1, FlightCorrect, PTL

-----------------------------------------------------------------------------
(***************************************************************************)
(* What is written: types, the numbering of categories, and the rows.      *)
(***************************************************************************)

\* The lines as they go to the workers, and as they come back.
Good(l) == Rec(l).kind # "bad"
Sendable == {l \in Lines : Good(l) => base}
Lowered == {c \in Carried : c.row <=> Good(c.line)}

\* Where the threads are, and what they hold.
Reading ==
    /\ file \in 0..Len(Files) /\ taken \in Nat /\ base \in BOOLEAN
    /\ exhausted \in BOOLEAN /\ lineOpen \in BOOLEAN /\ err \in BOOLEAN
    /\ faults \in 0..MaxFaults /\ lock \in Workers \union {None}
    /\ reader \in [1..Len(Files) -> {"unborn", "reading", "ended"}]
    /\ readPos \in [1..Len(Files) -> Nat]
    /\ \A f \in 1..Len(Files) : readPos[f] <= Len(Files[f])
    /\ pc \in {"fill", "send", "handle"} => file # 0 /\ taken <= readPos[file]
    /\ sent \in 0..Limit /\ (pc = "send" => sent < Limit)
Carrying ==
    /\ lineCh \in Seq(Sendable) /\ doneCh \in Seq(Lowered)
    /\ job \in [Workers -> Carried \union {None}]
    /\ \A w \in Workers : /\ wpc[w] = "work" => job[w] \in Carried /\ job[w].line \in Sendable
                          /\ wpc[w] = "send" => job[w] \in Lowered
    /\ hold # None <=> pc \in {"send", "handle"}
    /\ pc = "send" => hold \in Carried /\ hold.line \in Sendable
    /\ pc = "handle" => hold \in Lowered

\* How the categories are numbered: an id above the base is minted, and counted;
\* another is a record's own.
MintedIn(ids) == {t \in Titles : ids[t] > CategoryBase}
OwnIds == {Rec(l).id : l \in {k \in Lines : Rec(k).kind = "category"}}
Numbering ==
    /\ catIds \in [Titles -> CatId \union {0}]
    /\ minted = Cardinality(MintedIn(catIds))
    /\ \A t \in Titles : catIds[t] \in OwnIds \union {0} \/ catIds[t] > CategoryBase

\* The record kept for a category id, with the ids of its parents.
KeptFor(i) == /\ catRows[i] \in Lines /\ Rec(catRows[i]).kind = "category"
              /\ catIds[Rec(catRows[i]).title] = i
              /\ \A k \in DOMAIN Rec(catRows[i]).cats : catIds[Rec(catRows[i]).cats[k]] # 0
\* A record that is not the one kept for its title.
Behind(l) == LET i == catIds[Rec(l).title]
             IN i # 0 /\ catRows[i] # None /\ Rec(l).modified <= Rec(catRows[i]).modified
Keeping ==
    /\ catRows \in [CatId -> Lines \union {None}]
    /\ \A i \in CatId : catRows[i] # None => KeptFor(i)
    /\ skipped \subseteq Lines /\ replaced \subseteq Lines
    /\ \A l \in replaced : Rec(l).kind = "category"
    /\ \A l \in skipped \union replaced : Rec(l).kind = "category" => Behind(l)

\* The rows and terms of the pages.
PageRow(r) == r.from \in Lines /\ Rec(r.from).kind = "page" /\ r.id = Rec(r.from).id
Written ==
    /\ rows \subseteq [id : CatId, from : Lines \union {None}]
    /\ terms \subseteq [page : CatId, category : CatId]
    /\ \A l \in skipped : Rec(l).kind = "page" => \E r \in rows : PageRow(r) /\ r.id = Rec(l).id
    /\ pc # "finished" =>
         /\ \A r \in rows : PageRow(r)
         /\ \A r, s \in rows : r.id = s.id => r = s
         /\ \A t \in terms : /\ \E r \in rows : r.id = t.page
                             /\ t.category \in Named

StoreInv == Reading /\ Carrying /\ Numbering /\ Keeping /\ Written /\ StoreConsistent

\* A set of numbers has a least element.
LEMMA LeastPlace == ASSUME NEW T \in SUBSET Nat, T # {} PROVE \E x \in T : \A y \in T : x <= y
<1>1. IsWellFoundedOn(OpToRel(<, Nat), Nat)
  BY NatLessThanWellFounded, Zenon
<1>2. PICK x \in T : \A y \in T : ~ (<<y, x>> \in OpToRel(<, Nat))
  BY <1>1, WFMin, Zenon
<1>3. \A y \in T : ~(y < x)
  BY <1>2, Zenon DEF OpToRel
<1> QED
  BY <1>3

\* The lines of the dump are places, their records of the type, and None is none.
LEMMA LineType ==
    ASSUME NEW l \in Lines
    PROVE  l \in Place /\ l # None /\ Rec(l) \in RecordType
<1>1. PICK f \in 1..Len(Files) : l \in {<<f, i>> : i \in 1..Len(Files[f])}
  BY DEF Lines
<1>2. Len(Files) \in Nat /\ Files[f] \in Seq(RecordType)
  BY FilesAssumption, LenProperties, ElementOfSeq
<1>3. PICK i \in 1..Len(Files[f]) : l = <<f, i>>
  BY <1>1
<1>4. f \in Nat /\ i \in Nat
  BY <1>2, LenProperties
<1>5. Files[f][i] \in RecordType
  BY <1>2, ElementOfSeq
<1> QED
  BY <1>3, <1>4, <1>5, BoundsAssumption DEF Rec

\* A position within a file is a line.
LEMMA LineAt ==
    ASSUME NEW f \in 1..Len(Files), NEW i \in Nat \ {0}, i <= Len(Files[f])
    PROVE  <<f, i>> \in Lines
<1>1. Files[f] \in Seq(RecordType)
  BY FilesAssumption, ElementOfSeq
<1>2. i \in 1..Len(Files[f])
  BY <1>1, LenProperties
<1> QED
  BY <1>2 DEF Lines

\* What a worker carries is not None.
LEMMA CarriedType == None \notin Carried /\ Lowered \subseteq Carried /\ Sendable \subseteq Lines
<1>1. \A c \in Carried : c \in [line : Place, row : BOOLEAN]
  BY LineType DEF Carried
<1> QED
  BY <1>1, BoundsAssumption DEF Lowered, Sendable

\* The numbers of the bounds.
LEMMA BoundTypes ==
    /\ CategoryBase \in Nat /\ Limit \in Nat /\ MaxFaults \in Nat /\ Len(Files) \in Nat
    /\ Cardinality(Titles) \in Nat
    /\ \A f \in 1..Len(Files) : Len(Files[f]) \in Nat
<1>1. \A f \in 1..Len(Files) : Len(Files[f]) \in Nat
  <2> TAKE f \in 1..Len(Files)
  <2>1. Files[f] \in Seq(RecordType)
    BY FilesAssumption, ElementOfSeq
  <2> QED
    BY <2>1, LenProperties
<1> QED
  BY <1>1, BoundsAssumption, SlotsAssumption, FilesAssumption, LenProperties, FS_CardinalityType

\* The titles that or_insert_with finds without an id get one each, above the
\* base; the others keep theirs; afterwards every title of the record has one.
LEMMA Naming ==
    ASSUME NEW ids \in [Titles -> CatId \union {0}], NEW cats \in Seq(Titles),
           minted = Cardinality(MintedIn(ids))
    PROVE  /\ NameAll(ids, cats) \in [Titles -> CatId \union {0}]
           /\ \A t \in Titles : /\ ids[t] # 0 => NameAll(ids, cats)[t] = ids[t]
                                /\ ids[t] = 0 => \/ NameAll(ids, cats)[t] = 0
                                                 \/ NameAll(ids, cats)[t] > CategoryBase
           /\ \A k \in DOMAIN cats : NameAll(ids, cats)[cats[k]] # 0
           /\ minted + Cardinality(Unnamed(ids, cats)) = Cardinality(MintedIn(NameAll(ids, cats)))
<1> DEFINE U == Unnamed(ids, cats)
           upto(t) == {j \in U : \A i \in U : cats[i] = t => j <= i}
           n == NameAll(ids, cats)
           first == [i \in U |-> cats[i]]
           new == {cats[i] : i \in U}
<1>0. /\ DOMAIN cats = 1..Len(cats) /\ Len(cats) \in Nat
      /\ \A k \in DOMAIN cats : cats[k] \in Titles
  BY LenProperties, ElementOfSeq
<1>1. U \in SUBSET (1..Len(cats)) /\ U \subseteq Nat
  BY <1>0 DEF Unnamed
<1>2. IsFiniteSet(U) /\ Cardinality(U) \in Nat
  <2>1. IsFiniteSet(1..Len(cats))
    BY <1>0, FS_Interval
  <2> QED
    BY <1>1, <2>1, FS_Subset, FS_CardinalityType
<1>3. \A i, j \in U : cats[i] = cats[j] => i = j
  <2> SUFFICES ASSUME NEW i \in U, NEW j \in U, cats[i] = cats[j], i # j PROVE FALSE
    OBVIOUS
  <2>1. i \in Nat \ {0} /\ j \in Nat \ {0}
    BY <1>1, <1>0
  <2>2. CASE i < j
    BY <2>1, <2>2 DEF Unnamed
  <2>3. CASE j < i
    BY <2>1, <2>3 DEF Unnamed
  <2> QED
    BY <2>1, <2>2, <2>3
<1>4. /\ new \in SUBSET Titles /\ IsFiniteSet(new) /\ Cardinality(new) = Cardinality(U)
      /\ \A t \in new : ids[t] = 0
  <2>1. new \in SUBSET Titles /\ \A t \in new : ids[t] = 0
    BY <1>0, <1>1 DEF Unnamed
  <2>2. first \in Bijection(U, new)
    <3>1. first \in [U -> new] /\ \A i \in U : first[i] = cats[i]
      OBVIOUS
    <3>2. \A t \in new : \E i \in U : cats[i] = t
      OBVIOUS
    <3> HIDE DEF first, new, U
    <3>3. \A i, j \in U : first[i] = first[j] => i = j
      BY <1>3, <3>1
    <3>4. \A t \in new : \E i \in U : first[i] = t
      BY <3>1, <3>2
    <3> QED
      BY <3>1, <3>3, <3>4, Fun_IsBij
  <2>3. ExistsBijection(U, new)
    BY <2>2 DEF ExistsBijection
  <2> QED
    BY <1>2, <2>1, <2>3, FS_Bijection
<1>5. \A t \in Titles : n[t] = IF t \in new THEN CategoryBase + minted + Cardinality(upto(t)) ELSE ids[t]
  BY DEF NameAll
<1>6. \A t \in new : Cardinality(upto(t)) \in 1..Cardinality(U)
  <2> TAKE t \in new
  <2>1. PICK i \in U : cats[i] = t
    OBVIOUS
  <2>2. i \in upto(t)
    BY <1>1, <1>3, <2>1
  <2>3. upto(t) \in SUBSET U
    OBVIOUS
  <2>4. IsFiniteSet(upto(t)) /\ Cardinality(upto(t)) <= Cardinality(U) /\ Cardinality(upto(t)) \in Nat
    BY <1>2, <2>3, FS_Subset, FS_CardinalityType
  <2>5. Cardinality(upto(t)) # 0
    BY <2>2, <2>4, FS_EmptySet
  <2> HIDE DEF upto, U
  <2> QED
    BY <2>4, <2>5, <1>2
<1>7. /\ IsFiniteSet(MintedIn(ids)) /\ Cardinality(MintedIn(ids)) \in Nat
      /\ minted \in Nat
  <2>1. MintedIn(ids) \in SUBSET Titles
    BY DEF MintedIn
  <2> QED
    BY <2>1, SlotsAssumption, FS_Subset, FS_CardinalityType
<1> HIDE DEF upto, first, new, n, U
<1>8. MintedIn(n) = MintedIn(ids) \union new
  <2>1. \A t \in new : n[t] > CategoryBase
    BY <1>2, <1>4, <1>5, <1>6, <1>7, BoundTypes
  <2> QED
    BY <1>4, <1>5, <2>1 DEF MintedIn
<1>9. MintedIn(ids) \intersect new = {}
  BY <1>4, BoundTypes DEF MintedIn
<1>10. Cardinality(MintedIn(n)) = minted + Cardinality(U)
  <2>1. Cardinality(MintedIn(ids) \union new)
          = Cardinality(MintedIn(ids)) + Cardinality(new) - Cardinality(MintedIn(ids) \intersect new)
    BY <1>4, <1>7, FS_Union
  <2>2. Cardinality(MintedIn(ids) \intersect new) = 0
    BY <1>9, FS_EmptySet
  <2>3. Cardinality(MintedIn(n)) = Cardinality(MintedIn(ids) \union new)
    BY <1>8
  <2> QED
    BY <1>2, <1>4, <1>7, <2>1, <2>2, <2>3
<1>11. minted + Cardinality(U) <= Cardinality(Titles)
  <2>1. MintedIn(n) \in SUBSET Titles
    BY DEF MintedIn
  <2>2. Cardinality(MintedIn(n)) <= Cardinality(Titles)
    BY <2>1, SlotsAssumption, FS_Subset
  <2> QED
    BY <1>10, <2>2
<1>12. \A t \in new : n[t] \in CatId /\ n[t] > CategoryBase
  BY <1>2, <1>4, <1>5, <1>6, <1>7, <1>11, BoundTypes DEF CatId
<1>13. n \in [Titles -> CatId \union {0}]
  <2>1. \A t \in Titles : n[t] \in CatId \union {0}
    BY <1>5, <1>12
  <2>2. n = [t \in Titles |-> n[t]]
    BY DEF n, NameAll
  <2> HIDE DEF n
  <2> QED
    BY <2>1, <2>2
<1>14. \A t \in Titles : /\ ids[t] # 0 => n[t] = ids[t]
                         /\ ids[t] = 0 => n[t] = 0 \/ n[t] > CategoryBase
  BY <1>4, <1>5, <1>12
<1>15. ASSUME NEW k \in DOMAIN cats
       PROVE  n[cats[k]] # 0
  <2>0. cats[k] \in Titles
    BY <1>0
  <2>1. CASE ids[cats[k]] # 0
    BY <2>0, <2>1, <1>14
  <2>2. CASE ids[cats[k]] = 0
    <3> DEFINE places == {j \in DOMAIN cats : cats[j] = cats[k]}
    <3>1. places \in SUBSET Nat /\ places # {}
      BY <1>0
    <3>2. PICK j \in places : \A i \in places : j <= i
      BY <3>1, LeastPlace
    <3>3. j \in U
      <4>1. \A i \in 1..(j - 1) : i \in DOMAIN cats /\ i < j
        BY <1>0
      <4> QED
        BY <1>0, <2>2, <3>1, <3>2, <4>1 DEF U, Unnamed
    <3>4. cats[k] \in new
      BY <3>3 DEF new
    <3> QED
      BY <3>4, <1>12, BoundTypes
  <2> QED
    BY <2>1, <2>2
<1> QED
  BY <1>10, <1>13, <1>14, <1>15 DEF n, U

\* A step that writes nothing and does not finish.
LEMMA StoreAlone ==
    ASSUME StoreInv, UNCHANGED storeVars, pc' = "finished" <=> pc = "finished"
    PROVE  Numbering' /\ Keeping' /\ Written' /\ StoreConsistent'
<1>1. UNCHANGED <<catIds, catRows, minted, rows, terms, skipped, replaced>>
  BY DEF storeVars
<1>2. Numbering' /\ Keeping'
  BY <1>1 DEF StoreInv, Numbering, MintedIn, Keeping, KeptFor, Behind
<1>3. Written'
  BY <1>1 DEF StoreInv, Written, PageRow, Named
<1>4. StoreConsistent'
  BY <1>1 DEF StoreInv, StoreConsistent
<1> QED
  BY <1>2, <1>3, <1>4

\* A step of a worker: the lines and results it takes and gives are of their kinds.
LEMMA WorkerKeeps ==
    ASSUME StoreInv, FlightInv, NEW w \in Workers, Worker(w) \/ Panic(w)
    PROVE  StoreInv'
<1>0. /\ UNCHANGED <<pc, file, exhausted, sent, base, hold, reader, readPos, taken, lineOpen, err>>
      /\ UNCHANGED storeVars
      /\ faults' \in 0..MaxFaults /\ lock' \in Workers \union {None}
  BY BoundTypes DEF Worker, Lock, Recv, Work, Reply, Panic, mainVars, readVars, StoreInv, Reading
<1>1. Reading'
  BY <1>0 DEF StoreInv, Reading
<1>2. Sendable' = Sendable
  BY <1>0 DEF Sendable
<1>3. /\ wpc \in [Workers -> WorkerStates] /\ job \in [Workers -> Carried \union {None}]
      /\ lineCh \in Seq(Sendable) /\ doneCh \in Seq(Lowered)
  BY DEF FlightInv, FlightTypes, WorkerStates, StoreInv, Carrying
<1>4. Carrying'
  <2>1. CASE Lock(w)
    BY <1>0, <1>2, <1>3, <2>1 DEF Lock, StoreInv, Carrying
  <2>2. CASE Recv(w) /\ lineCh = <<>>
    BY <1>0, <1>2, <1>3, <2>2 DEF Recv, StoreInv, Carrying
  <2>3. CASE Recv(w) /\ lineCh # <<>>
    <3>1. /\ job' = [job EXCEPT ![w] = Unlowered(Head(lineCh))] /\ lineCh' = Tail(lineCh)
          /\ wpc' = [wpc EXCEPT ![w] = "work"] /\ doneCh' = doneCh
      BY <2>3 DEF Recv
    <3>2. Head(lineCh) \in Sendable /\ Tail(lineCh) \in Seq(Sendable)
      BY <1>3, <2>3, HeadTailProperties
    <3>3. Unlowered(Head(lineCh)) \in Carried /\ Unlowered(Head(lineCh)).line \in Sendable
      BY <3>2, CarriedType DEF Unlowered, Carried
    <3> QED
      BY <1>0, <1>2, <1>3, <3>1, <3>2, <3>3 DEF StoreInv, Carrying
  <2>4. CASE Work(w)
    <3>1. /\ job' = [job EXCEPT ![w] = Result(job[w].line)] /\ wpc' = [wpc EXCEPT ![w] = "send"]
          /\ UNCHANGED <<lineCh, doneCh>> /\ wpc[w] = "work"
      BY <2>4 DEF Work
    <3>2. job[w].line \in Sendable
      BY <3>1 DEF StoreInv, Carrying
    <3>3. Result(job[w].line) \in Lowered
      BY <3>2 DEF Result, Lowered, Carried, Sendable, Good, StoreInv, Reading
    <3> QED
      BY <1>0, <1>2, <1>3, <3>1, <3>3, CarriedType DEF StoreInv, Carrying
  <2>5. CASE Reply(w)
    <3>1. /\ doneCh' = Append(doneCh, job[w]) /\ job' = [job EXCEPT ![w] = None]
          /\ wpc' = [wpc EXCEPT ![w] = "lock"] /\ lineCh' = lineCh /\ wpc[w] = "send"
      BY <2>5 DEF Reply
    <3>2. job[w] \in Lowered
      BY <3>1 DEF StoreInv, Carrying
    <3>3. doneCh' \in Seq(Lowered)
      BY <1>3, <3>1, <3>2, AppendProperties
    <3> QED
      BY <1>0, <1>2, <1>3, <3>1, <3>3 DEF StoreInv, Carrying
  <2>6. CASE Panic(w)
    BY <1>0, <1>2, <1>3, <2>6 DEF Panic, StoreInv, Carrying
  <2> QED
    BY <2>1, <2>2, <2>3, <2>4, <2>5, <2>6 DEF Worker
<1> QED
  BY <1>0, <1>1, <1>4, StoreAlone DEF StoreInv

\* A step of a reader: it stays within its file.
LEMMA ReaderKeeps ==
    ASSUME StoreInv, NEW f \in 1..Len(Files), Reader(f) \/ ReadFault(f)
    PROVE  StoreInv'
<1>0. /\ UNCHANGED <<pc, file, exhausted, sent, base, hold, taken, lineOpen, err>>
      /\ UNCHANGED <<lineCh, doneCh, job, wpc, lock>> /\ UNCHANGED storeVars
      /\ faults' \in 0..MaxFaults
  BY BoundTypes DEF Reader, ReadLine, ReadEnd, ReadFault, mainVars, poolVars, StoreInv, Reading
<1>1. /\ reader \in [1..Len(Files) -> {"unborn", "reading", "ended"}]
      /\ readPos \in [1..Len(Files) -> Nat] /\ \A g \in 1..Len(Files) : readPos[g] <= Len(Files[g])
  BY DEF StoreInv, Reading
<1>2. /\ reader' \in [1..Len(Files) -> {"unborn", "reading", "ended"}]
      /\ readPos' \in [1..Len(Files) -> Nat]
      /\ \A g \in 1..Len(Files) : readPos'[g] <= Len(Files[g]) /\ readPos[g] <= readPos'[g]
  <2>1. CASE ReadLine(f)
    <3>1. /\ readPos' = [readPos EXCEPT ![f] = readPos[f] + 1] /\ reader' = reader
          /\ readPos[f] < Len(Files[f])
      BY <2>1 DEF ReadLine
    <3>2. readPos[f] \in Nat /\ Len(Files[f]) \in Nat
      BY <1>1, BoundTypes
    <3>3. readPos' \in [1..Len(Files) -> Nat]
      BY <1>1, <3>1, <3>2
    <3>4. \A g \in 1..Len(Files) : readPos'[g] = IF g = f THEN readPos[f] + 1 ELSE readPos[g]
      BY <1>1, <3>1
    <3>5. \A g \in 1..Len(Files) : readPos'[g] <= Len(Files[g])
      BY <1>1, <3>1, <3>2, <3>4
    <3>6. \A g \in 1..Len(Files) : readPos[g] \in Nat
      BY <1>1
    <3>7. \A g \in 1..Len(Files) : readPos[g] <= readPos'[g]
      BY <3>4, <3>6
    <3> QED
      BY <1>1, <3>1, <3>3, <3>5, <3>7
  <2>2. CASE ReadEnd(f) \/ ReadFault(f)
    <3>1. readPos' = readPos /\ reader' = [reader EXCEPT ![f] = "ended"]
      BY <2>2 DEF ReadEnd, ReadFault
    <3>2. \A g \in 1..Len(Files) : readPos[g] \in Nat
      BY <1>1
    <3>3. \A g \in 1..Len(Files) : readPos[g] <= readPos'[g]
      BY <3>1, <3>2
    <3>4. reader' \in [1..Len(Files) -> {"unborn", "reading", "ended"}]
      BY <1>1, <3>1
    <3> QED
      BY <1>1, <3>1, <3>3, <3>4
  <2> QED
    BY <2>1, <2>2 DEF Reader
<1>3. pc' \in {"fill", "send", "handle"} => file' # 0 /\ taken' <= readPos'[file']
  <2> SUFFICES ASSUME pc \in {"fill", "send", "handle"} PROVE file # 0 /\ taken <= readPos'[file]
    BY <1>0
  <2>1. file \in 1..Len(Files) /\ taken <= readPos[file] /\ taken \in Nat
    BY BoundTypes DEF StoreInv, Reading
  <2> QED
    BY <1>1, <1>2, <2>1, BoundTypes
<1>4. Reading'
  BY <1>0, <1>2, <1>3 DEF StoreInv, Reading
<1>5. Carrying'
  BY <1>0 DEF StoreInv, Carrying, Sendable
<1> QED
  BY <1>0, <1>4, <1>5, StoreAlone DEF StoreInv

\* The next file: empty channels and idle workers.
LEMMA OpenKeeps ==
    ASSUME StoreInv, FlightInv, OpenFile
    PROVE  StoreInv'
<1>0. /\ UNCHANGED <<hold, sent, base, readPos, lock, job>> /\ UNCHANGED storeVars
      /\ file' = file + 1 /\ taken' = 0 /\ exhausted' = FALSE /\ lineOpen' = TRUE
      /\ lineCh' = <<>> /\ doneCh' = <<>> /\ pc = "open" /\ file < Len(Files)
  BY DEF OpenFile
<1>1. /\ file' \in 1..Len(Files) /\ file' \in 0..Len(Files) /\ file' # 0
      /\ readPos[file'] \in Nat
  BY <1>0, BoundTypes DEF StoreInv, Reading
<1>2. /\ pc' \in {"fill", "failed"} /\ faults' \in 0..MaxFaults /\ err' \in BOOLEAN
      /\ reader' \in [1..Len(Files) -> {"unborn", "reading", "ended"}]
      /\ wpc' = wpc \/ wpc' = [w \in Workers |-> "lock"]
  <2>1. CASE pc' = "fill" /\ reader' = [reader EXCEPT ![file'] = "reading"]
             /\ wpc' = [w \in Workers |-> "lock"] /\ UNCHANGED <<faults, err>>
    BY <1>1, <2>1 DEF StoreInv, Reading
  <2>2. CASE faults < MaxFaults /\ faults' = faults + 1 /\ pc' = "failed" /\ err' = TRUE
             /\ UNCHANGED <<reader, wpc>>
    BY <2>2, BoundTypes DEF StoreInv, Reading
  <2> QED
    BY <2>1, <2>2 DEF OpenFile
<1>3. Reading'
  <2>1. taken' <= readPos'[file'] /\ taken' \in Nat
    BY <1>0, <1>1
  <2>2. sent \in 0..Limit /\ base \in BOOLEAN /\ lock \in Workers \union {None}
    BY DEF StoreInv, Reading
  <2>3. readPos' \in [1..Len(Files) -> Nat] /\ \A f \in 1..Len(Files) : readPos'[f] <= Len(Files[f])
    BY <1>0 DEF StoreInv, Reading
  <2> QED
    BY <1>0, <1>1, <1>2, <2>1, <2>2, <2>3 DEF Reading
<1>4. Carrying'
  BY <1>0, <1>2, EmptySeq DEF StoreInv, Carrying, Sendable
<1> QED
  BY <1>0, <1>2, <1>3, <1>4, StoreAlone DEF StoreInv

\* A line is taken: it is one of the file's, and the base URL is known if it has one.
LEMMA TakeKeeps ==
    ASSUME StoreInv, FlightInv, Take
    PROVE  StoreInv'
<1> DEFINE l == <<file, taken + 1>>
<1>0. /\ UNCHANGED <<file, sent, reader, readPos, lineCh, lineOpen, doneCh, wpc, lock, job, faults, err>>
      /\ UNCHANGED storeVars
      /\ pc = "fill" /\ taken < readPos[file] /\ taken' = taken + 1
  BY DEF Take, Filling, poolVars
<1>1. base' = (base \/ Good(l))
  BY DEF Take, Good
<1>2. sent \in Nat /\ Limit \in Nat /\ exhausted \in BOOLEAN
  BY BoundTypes DEF StoreInv, Reading
<1>3. /\ exhausted' \in BOOLEAN
      /\ \/ pc' = "fill" /\ hold' = hold
         \/ pc' = "send" /\ hold' = Unlowered(l) /\ sent < Limit
  <2>1. CASE sent >= Limit
    BY <1>0, <2>1 DEF Take
  <2>2. CASE ~(sent >= Limit)
    BY <1>2, <2>2 DEF Take
  <2> QED
    BY <2>1, <2>2
<1>4. /\ file \in 1..Len(Files) /\ taken \in Nat /\ readPos[file] <= Len(Files[file])
      /\ readPos[file] \in Nat /\ base \in BOOLEAN
  BY <1>0, BoundTypes DEF StoreInv, Reading
<1>5. l \in Lines
  <2>1. taken + 1 \in Nat \ {0} /\ taken + 1 <= Len(Files[file])
    BY <1>0, <1>4, BoundTypes
  <2> QED
    BY <1>4, <2>1, LineAt
<1> HIDE DEF l
<1>6. Sendable \subseteq Sendable' /\ l \in Sendable'
  BY <1>4, <1>5, <1>1 DEF Sendable
<1>7. Reading'
  BY <1>0, <1>4, <1>1, <1>2, <1>3 DEF StoreInv, Reading
<1>8. lineCh \in Seq(Sendable')
  BY <1>6, SeqMonotonic DEF StoreInv, Carrying
<1>9. Unlowered(l) \in Carried /\ Unlowered(l).line = l
  BY <1>5 DEF Unlowered, Carried
<1>10. hold' # None <=> pc' \in {"send", "handle"}
  BY <1>0, <1>3, <1>9, CarriedType DEF StoreInv, Carrying
<1>11. Carrying'
  BY <1>0, <1>3, <1>6, <1>8, <1>9, <1>10 DEF StoreInv, Carrying, Lowered
<1> QED
  BY <1>0, <1>3, <1>7, <1>11, StoreAlone DEF StoreInv

\* A line goes out, and a result comes in.
LEMMA SendKeeps ==
    ASSUME StoreInv, Send
    PROVE  StoreInv'
<1>0. /\ UNCHANGED <<file, exhausted, base, reader, readPos, taken, lineOpen, doneCh, wpc, lock, job,
                     faults, err>>
      /\ UNCHANGED storeVars
      /\ pc = "send" /\ pc' = "fill" /\ hold' = None /\ sent' = sent + 1
      /\ lineCh' = Append(lineCh, hold.line)
  BY DEF Send, readVars
<1>1. hold.line \in Sendable /\ lineCh \in Seq(Sendable) /\ sent < Limit
  BY <1>0 DEF StoreInv, Carrying, Reading
<1>2. lineCh' \in Seq(Sendable)
  BY <1>0, <1>1, AppendProperties
<1>3. Reading'
  BY <1>0, <1>1, BoundTypes DEF StoreInv, Reading
<1>4. Carrying'
  BY <1>0, <1>2 DEF StoreInv, Carrying, Sendable
<1> QED
  BY <1>0, <1>3, <1>4, StoreAlone DEF StoreInv

\* A result comes in.
LEMMA ReceiveKeeps ==
    ASSUME StoreInv, ReceiveDone
    PROVE  StoreInv'
<1>0. /\ UNCHANGED <<file, exhausted, sent, base, reader, readPos, taken, lineCh, wpc, lock, job,
                     faults, err>>
      /\ UNCHANGED storeVars
      /\ pc = "fill" /\ pc' = "handle" /\ doneCh # <<>> /\ hold' = Head(doneCh)
      /\ doneCh' = Tail(doneCh) /\ lineOpen' \in BOOLEAN
  BY DEF ReceiveDone, mainVars, readVars, StoreInv, Reading
<1>1. Head(doneCh) \in Lowered /\ doneCh' \in Seq(Lowered)
  BY <1>0, HeadTailProperties DEF StoreInv, Carrying
<1>2. Reading'
  BY <1>0 DEF StoreInv, Reading
<1>3. Carrying'
  BY <1>0, <1>1, CarriedType DEF StoreInv, Carrying, Sendable
<1> QED
  BY <1>0, <1>2, <1>3, StoreAlone DEF StoreInv

\* The file is left, or nothing moves but the main thread's place.
LEMMA LeaveKeeps ==
    ASSUME StoreInv, TakeNone \/ ReceiveErr \/ Drained \/ Join \/ HandleFault
    PROVE  StoreInv'
<1>0. /\ UNCHANGED <<file, sent, base, reader, readPos, taken, wpc, lock, job>>
      /\ UNCHANGED storeVars
  BY DEF TakeNone, ReceiveErr, Drained, Join, HandleFault, mainVars, readVars, poolVars
<1>1. /\ exhausted' \in BOOLEAN /\ lineOpen' \in BOOLEAN /\ err' \in BOOLEAN
      /\ faults' \in 0..MaxFaults
  <2>1. CASE TakeNone \/ ReceiveErr \/ Drained \/ Join
    BY <2>1 DEF TakeNone, ReceiveErr, Drained, Join, mainVars, poolVars, StoreInv, Reading
  <2>2. CASE HandleFault
    <3>1. /\ faults < MaxFaults /\ faults' = faults + 1 /\ err' = TRUE /\ lineOpen' = FALSE
          /\ exhausted' = exhausted
      BY <2>2 DEF HandleFault, mainVars
    <3>2. exhausted \in BOOLEAN /\ faults \in 0..MaxFaults
      BY DEF StoreInv, Reading
    <3>3. faults' \in 0..MaxFaults
      BY <3>1, <3>2, BoundTypes
    <3>4. exhausted' \in BOOLEAN /\ lineOpen' \in BOOLEAN /\ err' \in BOOLEAN
      BY <3>1, <3>2
    <3> QED
      BY <3>3, <3>4
  <2> QED
    BY <2>1, <2>2
<1>2. /\ pc \in {"fill", "join", "handle"}
      /\ \/ pc' = "fill" /\ pc = "fill" /\ hold' = hold
         \/ pc' \in {"join", "panicked", "failed", "open"} /\ (hold' = None \/ (pc # "handle" /\ hold' = hold))
      /\ (lineCh' = lineCh /\ doneCh' = doneCh) \/ (lineCh' = <<>> /\ doneCh' = <<>>)
  <2>1. CASE TakeNone
    BY <2>1 DEF TakeNone, Filling, poolVars
  <2>2. CASE ReceiveErr \/ Drained
    BY <2>2 DEF ReceiveErr, Drained
  <2>3. CASE Join
    BY <2>3 DEF Join
  <2>4. CASE HandleFault
    BY <2>4 DEF HandleFault
  <2> QED
    BY <2>1, <2>2, <2>3, <2>4
<1>3. Reading'
  BY <1>0, <1>1, <1>2 DEF StoreInv, Reading
<1>4. Carrying'
  BY <1>0, <1>2, EmptySeq DEF StoreInv, Carrying, Sendable
<1> QED
  BY <1>0, <1>2, <1>3, <1>4, StoreAlone DEF StoreInv

\* The fields of a record.
LEMMA RecordOf ==
    ASSUME NEW l \in Lines
    PROVE  /\ Rec(l).id \in 1..CategoryBase /\ Rec(l).id \in CatId /\ Rec(l).id # 0
           /\ Rec(l).title \in Titles /\ Rec(l).modified \in Nat
           /\ Rec(l).kind \in {"page", "category", "bad"}
           /\ Rec(l).cats \in Seq(Titles)
           /\ \A k \in DOMAIN Rec(l).cats : Rec(l).cats[k] \in Titles
<1>1. Rec(l) \in RecordType
  BY LineType
<1>2. Rec(l).cats \in Seq(Titles)
  BY <1>1 DEF RecordType
<1>3. \A k \in DOMAIN Rec(l).cats : Rec(l).cats[k] \in Titles
  BY <1>2, LenProperties, ElementOfSeq
<1> QED
  BY <1>1, <1>2, <1>3, BoundTypes DEF RecordType, CatId

\* More categories get ids, and what is kept stays kept.
LEMMA NamedOn ==
    ASSUME Keeping, \A t \in Titles : catIds[t] # 0 => catIds'[t] = catIds[t],
           UNCHANGED <<catRows, replaced>>, skipped' \subseteq Lines,
           \A l \in skipped' \ skipped : Rec(l).kind # "category"
    PROVE  Keeping'
<1>1. ASSUME NEW i \in CatId, catRows[i] # None
      PROVE  KeptFor(i)'
  <2>1. KeptFor(i) /\ catRows[i] \in Lines
    BY <1>1 DEF Keeping, KeptFor
  <2>2. Rec(catRows[i]).title \in Titles /\ i # 0
    BY <2>1, RecordOf, BoundTypes DEF CatId
  <2>3. catIds'[Rec(catRows[i]).title] = i
    BY <2>1, <2>2 DEF KeptFor
  <2>4. \A k \in DOMAIN Rec(catRows[i]).cats : catIds'[Rec(catRows[i]).cats[k]] # 0
    BY <2>1, RecordOf DEF KeptFor
  <2> QED
    BY <2>1, <2>3, <2>4 DEF KeptFor
<1>2. ASSUME NEW l \in skipped' \union replaced', Rec(l).kind = "category"
      PROVE  Behind(l)'
  <2>1. l \in Lines /\ Behind(l)
    BY <1>2 DEF Keeping
  <2>2. Rec(l).title \in Titles
    BY <2>1, RecordOf
  <2> QED
    BY <2>1, <2>2 DEF Behind
<1> QED
  BY <1>1, <1>2 DEF Keeping

\* Named categories stay named, and the rows of the pages with their terms.
LEMMA WrittenOn ==
    ASSUME Written, pc # "finished", pc' # "finished", UNCHANGED <<rows, terms>>,
           \A t \in Titles : catIds[t] # 0 => catIds'[t] = catIds[t],
           \A l \in skipped' : Rec(l).kind = "page" => \E r \in rows : PageRow(r) /\ r.id = Rec(l).id
    PROVE  Written'
<1>1. Named \subseteq Named'
  BY DEF Named
<1>2. \A t \in terms : t.category \in Named'
  BY <1>1 DEF Written
<1> QED
  BY <1>2 DEF Written, PageRow

\* A category record is numbered, and kept or counted as skipped.
LEMMA CategoryKeeps ==
    ASSUME StoreInv, HandleCategory, pc = "handle", pc' = "fill", hold.line \in Lines
    PROVE  Numbering' /\ Keeping' /\ Written'
<1>0. PICK l \in Lines : l = hold.line
  OBVIOUS
<1> DEFINE ids == [catIds EXCEPT ![Rec(l).title] = IF @ = 0 THEN Rec(l).id ELSE @]
           own == ids[Rec(l).title]
<1>1. /\ Rec(l).kind = "category" /\ catIds' = NameAll(ids, Rec(l).cats)
      /\ minted' = minted + Cardinality(Unnamed(ids, Rec(l).cats))
      /\ UNCHANGED <<rows, terms>>
      /\ \/ /\ Newer(l, catRows[own]) /\ catRows' = [catRows EXCEPT ![own] = l]
            /\ replaced' = replaced \union ({catRows[own]} \ {None}) /\ skipped' = skipped
         \/ /\ ~Newer(l, catRows[own]) /\ skipped' = skipped \union {l}
            /\ UNCHANGED <<catRows, replaced>>
  BY <1>0 DEF HandleCategory
<1>2. l \in Lines /\ Rec(l).title \in Titles /\ Rec(l).id \in 1..CategoryBase /\ Rec(l).id \in CatId
      /\ Rec(l).id # 0 /\ Rec(l).cats \in Seq(Titles) /\ Rec(l).modified \in Nat
  BY RecordOf
<1>3. catIds \in [Titles -> CatId \union {0}] /\ minted = Cardinality(MintedIn(catIds))
  BY DEF StoreInv, Numbering
<1>4. /\ ids \in [Titles -> CatId \union {0}] /\ own \in CatId /\ own # 0
      /\ \A t \in Titles : /\ catIds[t] # 0 => ids[t] = catIds[t]
                           /\ catIds[t] = 0 => ids[t] = 0 \/ (ids[t] = Rec(l).id /\ t = Rec(l).title)
  BY <1>2, <1>3, BoundTypes
<1> HIDE DEF ids
<1>5. MintedIn(ids) = MintedIn(catIds)
  BY <1>2, <1>3, <1>4, BoundTypes DEF MintedIn
<1>6. /\ catIds' \in [Titles -> CatId \union {0}]
      /\ \A t \in Titles : /\ ids[t] # 0 => catIds'[t] = ids[t]
                           /\ ids[t] = 0 => catIds'[t] = 0 \/ catIds'[t] > CategoryBase
      /\ \A k \in DOMAIN Rec(l).cats : catIds'[Rec(l).cats[k]] # 0
      /\ minted' = Cardinality(MintedIn(catIds'))
  BY <1>1, <1>2, <1>3, <1>4, <1>5, Naming
<1>7. \A t \in Titles : catIds[t] # 0 => catIds'[t] = catIds[t]
  BY <1>4, <1>6
<1> HIDE DEF own
<1>8. PICK id \in CatId : id = own
  BY <1>4
<1>9. Numbering'
  <2>1. \A t \in Titles : catIds'[t] \in OwnIds \union {0} \/ catIds'[t] > CategoryBase
    <3> TAKE t \in Titles
    <3>1. CASE catIds[t] # 0
      BY <1>7, <3>1 DEF StoreInv, Numbering
    <3>2. CASE catIds[t] = 0 /\ ids[t] = 0
      BY <1>6, <3>2
    <3>3. CASE catIds[t] = 0 /\ ids[t] = Rec(l).id
      <4>1. Rec(l).id \in OwnIds
        BY <1>1, <1>2 DEF OwnIds
      <4> QED
        BY <1>2, <1>6, <3>3, <4>1
    <3> QED
      BY <1>4, <3>1, <3>2, <3>3
  <2> QED
    BY <1>6, <2>1 DEF Numbering
<1>10. catIds'[Rec(l).title] = id /\ id # 0
  BY <1>2, <1>4, <1>6, <1>8 DEF own
<1>11. \/ /\ Newer(l, catRows[id]) /\ catRows' = [catRows EXCEPT ![id] = l]
         /\ replaced' = replaced \union ({catRows[id]} \ {None}) /\ skipped' = skipped
      \/ /\ ~Newer(l, catRows[id]) /\ skipped' = skipped \union {l}
         /\ UNCHANGED <<catRows, replaced>>
  BY <1>1, <1>8
<1>12. Keeping'
  <2>0. /\ catRows \in [CatId -> Lines \union {None}] /\ skipped \subseteq Lines /\ replaced \subseteq Lines
        /\ \A i \in CatId : catRows[i] # None => KeptFor(i)
        /\ \A m \in replaced : Rec(m).kind = "category"
        /\ \A m \in skipped \union replaced : Rec(m).kind = "category" => Behind(m)
    BY DEF StoreInv, Keeping
  <2>1. \A m \in Lines : m # None
    BY LineType
  <2>2. ASSUME NEW i \in CatId, KeptFor(i), catRows'[i] = catRows[i]
        PROVE  KeptFor(i)'
    <3>1. /\ catRows[i] \in Lines /\ Rec(catRows[i]).title \in Titles /\ i # 0
      BY <2>2, RecordOf, BoundTypes DEF KeptFor, CatId
    <3>2. catIds'[Rec(catRows[i]).title] = i
      BY <1>7, <2>2, <3>1 DEF KeptFor
    <3>3. \A k \in DOMAIN Rec(catRows[i]).cats : catIds'[Rec(catRows[i]).cats[k]] # 0
      BY <1>7, <2>2, <3>1, RecordOf DEF KeptFor
    <3> QED
      BY <2>2, <3>1, <3>2, <3>3 DEF KeptFor
  <2>3. CASE /\ Newer(l, catRows[id]) /\ catRows' = [catRows EXCEPT ![id] = l]
             /\ replaced' = replaced \union ({catRows[id]} \ {None}) /\ skipped' = skipped
    <3>1. /\ catRows' \in [CatId -> Lines \union {None}] /\ catRows'[id] = l
          /\ \A i \in CatId : i # id => catRows'[i] = catRows[i]
      BY <1>2, <2>0, <2>3
    <3>2. KeptFor(id)'
      BY <1>1, <1>2, <1>6, <1>10, <3>1 DEF KeptFor
    <3>3. \A i \in CatId : catRows'[i] # None => KeptFor(i)'
      BY <2>0, <2>2, <3>1, <3>2
    <3>4. catRows[id] # None => /\ catRows[id] \in Lines /\ Rec(catRows[id]).kind = "category"
                                /\ Rec(catRows[id]).modified <= Rec(l).modified
                                /\ catIds[Rec(catRows[id]).title] = id
      BY <2>0, <2>3 DEF KeptFor, Newer
    <3>5. ASSUME NEW m \in skipped \union replaced, Rec(m).kind = "category"
          PROVE  Behind(m)'
      <4>1. /\ m \in Lines /\ Behind(m) /\ Rec(m).title \in Titles /\ Rec(m).modified \in Nat
            /\ catIds[Rec(m).title] \in CatId
        BY <2>0, <3>5, <1>3, RecordOf DEF Behind
      <4>2. catIds'[Rec(m).title] = catIds[Rec(m).title] /\ catIds[Rec(m).title] # 0
        BY <1>7, <4>1 DEF Behind
      <4>3. CASE catIds[Rec(m).title] = id
        <5>1. catRows[id] # None /\ Rec(m).modified <= Rec(catRows[id]).modified
          BY <4>1, <4>3 DEF Behind
        <5>2. Rec(m).modified <= Rec(l).modified
          BY <1>2, <3>4, <4>1, <5>1, RecordOf
        <5> QED
          BY <1>2, <2>1, <3>1, <4>2, <4>3, <5>2 DEF Behind
      <4>4. CASE catIds[Rec(m).title] # id
        BY <3>1, <4>1, <4>2, <4>4 DEF Behind
      <4> QED
        BY <4>3, <4>4
    <3>6. ASSUME NEW old \in {catRows[id]} \ {None}
          PROVE  Behind(old)'
      <4>1. catIds'[Rec(old).title] = id
        BY <1>7, <1>10, <3>4, <3>6, RecordOf
      <4> QED
        BY <1>2, <1>10, <2>1, <3>1, <3>4, <3>6, <4>1 DEF Behind
    <3>7. /\ skipped' \subseteq Lines /\ replaced' \subseteq Lines
          /\ \A m \in replaced' : Rec(m).kind = "category"
      BY <2>0, <2>3, <3>4
    <3>8. \A m \in skipped' \union replaced' : Rec(m).kind = "category" => Behind(m)'
      BY <2>3, <3>5, <3>6
    <3> QED
      BY <3>1, <3>3, <3>7, <3>8 DEF Keeping
  <2>4. CASE /\ ~Newer(l, catRows[id]) /\ skipped' = skipped \union {l}
             /\ UNCHANGED <<catRows, replaced>>
    <3>1. \A i \in CatId : catRows'[i] # None => KeptFor(i)'
      BY <2>0, <2>2, <2>4
    <3>2. ASSUME NEW m \in skipped \union replaced, Rec(m).kind = "category"
          PROVE  Behind(m)'
      <4>1. m \in Lines /\ Behind(m) /\ Rec(m).title \in Titles
        BY <2>0, <3>2, RecordOf
      <4> QED
        BY <1>7, <2>4, <4>1 DEF Behind
    <3>3. Behind(l)'
      <4>1. catRows[id] # None /\ ~(Rec(catRows[id]).modified <= Rec(l).modified)
        BY <2>4 DEF Newer
      <4>2. catRows[id] \in Lines
        BY <2>0, <4>1
      <4>3. Rec(l).modified <= Rec(catRows[id]).modified
        BY <1>2, <4>1, <4>2, RecordOf
      <4> QED
        BY <1>10, <2>4, <4>1, <4>3 DEF Behind
    <3> QED
      BY <1>2, <2>0, <2>4, <3>1, <3>2, <3>3 DEF Keeping
  <2> QED
    BY <1>11, <2>3, <2>4
<1>13. Written'
  <2>1. \A m \in skipped' : m \in skipped \/ Rec(m).kind = "category"
    BY <1>1
  <2> QED
    BY <1>1, <1>7, <2>1, WrittenOn DEF StoreInv, Written
<1> QED
  BY <1>9, <1>12, <1>13

\* A page is written with its terms, or its id has a row.
LEMMA PageKeeps ==
    ASSUME StoreInv, HandlePage, pc = "handle", pc' = "fill", hold.line \in Lines
    PROVE  Numbering' /\ Keeping' /\ Written'
<1>0. PICK l \in Lines : l = hold.line
  OBVIOUS
<1>1. /\ Rec(l).kind = "page" /\ UNCHANGED <<catRows, replaced>>
      /\ \/ /\ \E r \in rows : r.id = Rec(l).id
            /\ skipped' = skipped \union {l} /\ UNCHANGED <<catIds, minted, rows, terms>>
         \/ /\ \A r \in rows : r.id # Rec(l).id
            /\ rows' = rows \union {[id |-> Rec(l).id, from |-> l]}
            /\ catIds' = NameAll(catIds, Rec(l).cats)
            /\ minted' = minted + Cardinality(Unnamed(catIds, Rec(l).cats))
            /\ terms' = terms \union {[page |-> Rec(l).id, category |-> catIds'[Rec(l).cats[k]]] :
                                        k \in DOMAIN Rec(l).cats}
            /\ skipped' = skipped
  BY <1>0 DEF HandlePage
<1>2. /\ Rec(l).id \in CatId /\ Rec(l).cats \in Seq(Titles)
      /\ \A k \in DOMAIN Rec(l).cats : Rec(l).cats[k] \in Titles
  BY RecordOf
<1>3. /\ \A r \in rows : PageRow(r)
      /\ \A r, s \in rows : r.id = s.id => r = s
      /\ \A t \in terms : (\E r \in rows : r.id = t.page) /\ t.category \in Named
      /\ rows \subseteq [id : CatId, from : Lines \union {None}]
      /\ terms \subseteq [page : CatId, category : CatId]
      /\ \A m \in skipped : Rec(m).kind = "page" => \E r \in rows : PageRow(r) /\ r.id = Rec(m).id
  BY DEF StoreInv, Written
<1>4. CASE /\ \E r \in rows : r.id = Rec(l).id
           /\ skipped' = skipped \union {l} /\ UNCHANGED <<catIds, minted, rows, terms>>
  <2>1. Numbering'
    BY <1>4 DEF StoreInv, Numbering, MintedIn
  <2>2. Keeping'
    BY <1>1, <1>4, NamedOn DEF StoreInv, Keeping
  <2>3. \A m \in skipped' : Rec(m).kind = "page" => \E r \in rows : PageRow(r) /\ r.id = Rec(m).id
    BY <1>3, <1>4
  <2>4. Written'
    BY <1>4, <2>3, WrittenOn DEF StoreInv
  <2> QED
    BY <2>1, <2>2, <2>4
<1>5. CASE /\ \A r \in rows : r.id # Rec(l).id
           /\ rows' = rows \union {[id |-> Rec(l).id, from |-> l]}
           /\ catIds' = NameAll(catIds, Rec(l).cats)
           /\ minted' = minted + Cardinality(Unnamed(catIds, Rec(l).cats))
           /\ terms' = terms \union {[page |-> Rec(l).id, category |-> catIds'[Rec(l).cats[k]]] :
                                       k \in DOMAIN Rec(l).cats}
           /\ skipped' = skipped
  <2>0. catIds \in [Titles -> CatId \union {0}] /\ minted = Cardinality(MintedIn(catIds))
    BY DEF StoreInv, Numbering
  <2>1. /\ catIds' \in [Titles -> CatId \union {0}]
        /\ \A t \in Titles : /\ catIds[t] # 0 => catIds'[t] = catIds[t]
                             /\ catIds[t] = 0 => catIds'[t] = 0 \/ catIds'[t] > CategoryBase
        /\ \A k \in DOMAIN Rec(l).cats : catIds'[Rec(l).cats[k]] # 0
        /\ minted' = Cardinality(MintedIn(catIds'))
    BY <1>2, <1>5, <2>0, Naming
  <2>2. Numbering'
    <3>1. \A t \in Titles : catIds'[t] \in OwnIds \union {0} \/ catIds'[t] > CategoryBase
      BY <2>1 DEF StoreInv, Numbering
    <3> QED
      BY <2>1, <3>1 DEF Numbering
  <2>3. Keeping'
    BY <1>1, <1>5, <2>1, NamedOn DEF StoreInv, Keeping
  <2>4. PICK row \in [id : CatId, from : Lines \union {None}] :
             row.id = Rec(l).id /\ row.from = l /\ rows' = rows \union {row}
    BY <1>2, <1>5
  <2>5. PageRow(row)
    BY <1>1, <2>4 DEF PageRow
  <2>6. \A r, s \in rows' : r.id = s.id => r = s
    BY <1>3, <1>5, <2>4
  <2>7. Named \subseteq Named'
    BY <2>1 DEF Named
  <2>8. \A k \in DOMAIN Rec(l).cats : /\ catIds'[Rec(l).cats[k]] \in CatId
                                      /\ catIds'[Rec(l).cats[k]] \in Named'
    BY <1>2, <2>1 DEF Named
  <2>9. ASSUME NEW t \in terms'
        PROVE  /\ t \in [page : CatId, category : CatId]
               /\ \E r \in rows' : r.id = t.page
               /\ t.category \in Named'
    <3>1. CASE t \in terms
      BY <1>3, <1>5, <2>7, <3>1
    <3>2. CASE t \notin terms
      <4>1. PICK k \in DOMAIN Rec(l).cats : t = [page |-> Rec(l).id, category |-> catIds'[Rec(l).cats[k]]]
        BY <1>5, <3>2
      <4> QED
        BY <1>2, <2>4, <2>8, <4>1
    <3> QED
      BY <3>1, <3>2
  <2>10. \A m \in skipped' : Rec(m).kind = "page" => \E r \in rows' : PageRow(r) /\ r.id = Rec(m).id
    BY <1>3, <1>5
  <2>11. /\ rows' \subseteq [id : CatId, from : Lines \union {None}]
         /\ terms' \subseteq [page : CatId, category : CatId]
         /\ \A r \in rows' : PageRow(r)
    BY <1>3, <2>4, <2>5, <2>9
  <2>12. Written'
    BY <2>6, <2>9, <2>10, <2>11 DEF Written, PageRow
  <2> QED
    BY <2>2, <2>3, <2>12
<1> QED
  BY <1>1, <1>4, <1>5

\* A result without a row: a bad record, for any other was sent with the base
\* URL known.
LEMMA SkippedKeeps ==
    ASSUME StoreInv, HandleSkipped, pc = "handle", pc' = "fill", hold \in Lowered
    PROVE  Numbering' /\ Keeping' /\ Written'
<1>1. /\ UNCHANGED <<catIds, catRows, minted, rows, terms, replaced>>
      /\ skipped' = skipped \union {hold.line}
  BY DEF HandleSkipped
<1>2. hold.line \in Lines /\ Rec(hold.line).kind = "bad"
  BY DEF HandleSkipped, Lowered, Carried, Good
<1>3. Numbering'
  BY <1>1 DEF StoreInv, Numbering, MintedIn
<1>4. Keeping'
  BY <1>1, <1>2, NamedOn DEF StoreInv, Keeping
<1>5. \A m \in skipped' : Rec(m).kind = "page" => \E r \in rows : PageRow(r) /\ r.id = Rec(m).id
  BY <1>1, <1>2 DEF StoreInv, Written
<1>6. Written'
  BY <1>1, <1>5, WrittenOn DEF StoreInv
<1> QED
  BY <1>3, <1>4, <1>6

\* The main thread handles a result.
LEMMA HandleKeeps ==
    ASSUME StoreInv, Handle
    PROVE  StoreInv'
<1>0. /\ UNCHANGED <<file, exhausted, sent, base, reader, readPos, taken, lineCh, lineOpen, doneCh,
                     wpc, lock, job, faults, err>>
      /\ pc = "handle" /\ pc' = "fill" /\ hold' = None
  BY DEF Handle, mainVars, readVars, poolVars
<1>1. hold \in Lowered /\ hold.line \in Lines
  BY <1>0 DEF StoreInv, Carrying, Lowered, Carried
<1>2. Numbering' /\ Keeping' /\ Written'
  BY <1>0, <1>1, CategoryKeeps, PageKeeps, SkippedKeeps DEF Handle
<1>3. Reading'
  BY <1>0 DEF StoreInv, Reading
<1>4. Carrying'
  BY <1>0 DEF StoreInv, Carrying, Sendable
<1>5. StoreConsistent'
  BY <1>0 DEF StoreConsistent
<1> QED
  BY <1>2, <1>3, <1>4, <1>5 DEF StoreInv

\* The categories are written: no name was given the number of a page, and every
\* name a term mentions has a row.
LEMMA FinishKeeps ==
    ASSUME StoreInv, WriteCategories
    PROVE  StoreInv'
<1>0. /\ UNCHANGED <<file, exhausted, sent, base, hold, reader, readPos, taken, lineCh, lineOpen,
                     doneCh, wpc, lock, job>>
      /\ UNCHANGED <<catIds, catRows, minted, skipped, replaced>>
      /\ pc = "open" /\ pc' \in {"finished", "failed"}
  BY DEF WriteCategories, mainVars, readVars, poolVars
<1>1. faults' \in 0..MaxFaults /\ err' \in BOOLEAN
  <2>1. \/ UNCHANGED <<faults, err>>
        \/ faults < MaxFaults /\ faults' = faults + 1 /\ err' = TRUE
    BY DEF WriteCategories
  <2>2. faults \in 0..MaxFaults /\ err \in BOOLEAN
    BY DEF StoreInv, Reading
  <2>3. faults' \in 0..MaxFaults
    BY <2>1, <2>2, BoundTypes
  <2>4. err' \in BOOLEAN
    BY <2>1, <2>2
  <2> QED
    BY <2>3, <2>4
<1>2. Reading'
  BY <1>0, <1>1 DEF StoreInv, Reading
<1>3. Carrying'
  BY <1>0 DEF StoreInv, Carrying, Sendable
<1>4. Numbering' /\ Keeping'
  BY <1>0 DEF StoreInv, Numbering, MintedIn, Keeping, KeptFor, Behind
<1>5. Written' /\ StoreConsistent'
  <2>0. /\ \A r \in rows : PageRow(r)
        /\ \A r, s \in rows : r.id = s.id => r = s
        /\ \A t \in terms : (\E r \in rows : r.id = t.page) /\ t.category \in Named
        /\ rows \subseteq [id : CatId, from : Lines \union {None}]
        /\ terms \subseteq [page : CatId, category : CatId]
        /\ \A m \in skipped : Rec(m).kind = "page" => \E r \in rows : PageRow(r) /\ r.id = Rec(m).id
    BY <1>0 DEF StoreInv, Written
  <2>1. CASE pc' = "failed"
    <3>1. UNCHANGED <<rows, terms>>
      BY <2>1 DEF WriteCategories
    <3> QED
      BY <1>0, <2>0, <2>1, <3>1 DEF Written, StoreConsistent, PageRow, Named
  <2>2. CASE pc' = "finished"
    <3>0. /\ rows' = rows \union {[id |-> i, from |-> catRows[i]] : i \in Named}
          /\ terms' = terms \union
               UNION {{[page |-> i, category |-> p] : p \in Parents(catRows[i]) \ {i}} :
                        i \in {j \in CatId : catRows[j] # None}}
      BY <2>2 DEF WriteCategories
    <3>1. /\ Named \subseteq CatId /\ catRows \in [CatId -> Lines \union {None}]
          /\ \A i \in Named : i \in OwnIds \/ i > CategoryBase
          /\ \A i \in CatId : catRows[i] # None => KeptFor(i)
      BY DEF StoreInv, Numbering, Keeping, Named
    <3>2. ASSUME NEW i \in Named
          PROVE  \E s \in rows' : s.id = i
      <4>1. [id |-> i, from |-> catRows[i]] \in rows'
        BY <3>0
      <4> QED
        BY <4>1
    <3>3. \A s \in rows' \ rows : s.id \in Named /\ s = [id |-> s.id, from |-> catRows[s.id]]
      <4> SUFFICES ASSUME NEW s \in rows' \ rows
                   PROVE  s.id \in Named /\ s = [id |-> s.id, from |-> catRows[s.id]]
        OBVIOUS
      <4>1. PICK i \in Named : s = [id |-> i, from |-> catRows[i]]
        BY <3>0
      <4> QED
        BY <4>1
    <3>4. ASSUME NEW r \in rows, NEW i \in Named
          PROVE  r.id # i
      <4>1. r.from \in Lines /\ Rec(r.from).kind = "page" /\ r.id = Rec(r.from).id
        BY <2>0 DEF PageRow
      <4>2. CASE i \in OwnIds
        BY <4>1, <4>2, NumberingAssumption DEF OwnIds
      <4>3. CASE i > CategoryBase
        <5>1. r.id \in Nat /\ r.id <= CategoryBase
          BY <4>1, RecordOf, BoundTypes
        <5> QED
          BY <4>3, <5>1, BoundTypes
      <4> QED
        BY <3>1, <4>2, <4>3
    <3>5. \A r, s \in rows' : r.id = s.id => r = s
      BY <2>0, <3>3, <3>4
    <3>6. ASSUME NEW i \in CatId, catRows[i] # None
          PROVE  i \in Named /\ Parents(catRows[i]) \subseteq Named
      <4>1. /\ catRows[i] \in Lines /\ catIds[Rec(catRows[i]).title] = i
            /\ \A k \in DOMAIN Rec(catRows[i]).cats : catIds[Rec(catRows[i]).cats[k]] # 0
        BY <3>1, <3>6 DEF KeptFor
      <4>2. i # 0
        BY BoundTypes DEF CatId
      <4> QED
        BY <4>1, <4>2, RecordOf DEF Named, Parents
    <3>7. ASSUME NEW t \in terms'
          PROVE  /\ t \in [page : CatId, category : CatId]
                 /\ \E r \in rows' : r.id = t.page
                 /\ \E r \in rows' : r.id = t.category
      <4>1. CASE t \in terms
        BY <2>0, <3>0, <3>2, <4>1
      <4>2. CASE t \notin terms
        <5>1. PICK i \in CatId : /\ catRows[i] # None
                                 /\ t \in {[page |-> i, category |-> p] : p \in Parents(catRows[i]) \ {i}}
          BY <3>0, <4>2
        <5>2. PICK p \in Parents(catRows[i]) : t = [page |-> i, category |-> p]
          BY <5>1
        <5> QED
          BY <3>1, <3>2, <3>6, <5>1, <5>2
      <4> QED
        BY <4>1, <4>2
    <3>8. rows' \subseteq [id : CatId, from : Lines \union {None}]
      BY <2>0, <3>0, <3>1
    <3>9. \A m \in skipped' : Rec(m).kind = "page" => \E r \in rows' : PageRow(r) /\ r.id = Rec(m).id
      BY <1>0, <2>0, <3>0
    <3>10. Written'
      BY <2>2, <3>7, <3>8, <3>9 DEF Written, PageRow
    <3>11. StoreConsistent'
      BY <3>5, <3>7 DEF StoreConsistent
    <3> QED
      BY <3>10, <3>11
  <2> QED
    BY <1>0, <2>1, <2>2
<1> QED
  BY <1>2, <1>3, <1>4, <1>5 DEF StoreInv

\* Every step keeps what the store is written from.
LEMMA StoreStep ==
    ASSUME StoreInv, FlightInv, [Next]_vars
    PROVE  StoreInv'
<1>1. CASE OpenFile
  BY <1>1, OpenKeeps
<1>2. CASE Take
  BY <1>2, TakeKeeps
<1>3. CASE Send
  BY <1>3, SendKeeps
<1>4. CASE ReceiveDone
  BY <1>4, ReceiveKeeps
<1>5. CASE TakeNone \/ ReceiveErr \/ Drained \/ Join \/ HandleFault
  BY <1>5, LeaveKeeps
<1>6. CASE Handle
  BY <1>6, HandleKeeps
<1>7. CASE WriteCategories
  BY <1>7, FinishKeeps
<1>8. ASSUME NEW w \in Workers, Worker(w) \/ Panic(w)
      PROVE  StoreInv'
  BY <1>8, WorkerKeeps
<1>9. ASSUME NEW f \in 1..Len(Files), Reader(f) \/ ReadFault(f)
      PROVE  StoreInv'
  BY <1>9, ReaderKeeps
<1>10. CASE Terminated \/ UNCHANGED vars
  <2>1. UNCHANGED vars
    BY <1>10 DEF Terminated
  <2>2. UNCHANGED storeVars
    BY <2>1 DEF vars, storeVars
  <2>3. Reading'
    BY <2>1 DEF vars, StoreInv, Reading
  <2>4. Carrying'
    BY <2>1 DEF vars, StoreInv, Carrying, Sendable
  <2>5. pc' = pc
    BY <2>1 DEF vars
  <2> QED
    BY <2>2, <2>3, <2>4, <2>5, StoreAlone DEF StoreInv
<1> QED
  BY <1>1, <1>2, <1>3, <1>4, <1>5, <1>6, <1>7, <1>8, <1>9, <1>10 DEF Next, Main

\* What the store is written from holds in every state.
THEOREM StoreCorrect == Spec => []StoreInv
<1>1. Init => StoreInv
  <2> SUFFICES ASSUME Init PROVE StoreInv
    OBVIOUS
  <2>1. Reading
    <3>1. /\ exhausted \in BOOLEAN /\ lineOpen \in BOOLEAN /\ err \in BOOLEAN /\ base \in BOOLEAN
      BY DEF Init
    <3>2. \A f \in 1..Len(Files) : readPos[f] = 0 /\ readPos[f] <= Len(Files[f])
      BY BoundTypes DEF Init
    <3>3. /\ file \in 0..Len(Files) /\ taken \in Nat /\ faults \in 0..MaxFaults /\ sent \in 0..Limit
      BY BoundTypes DEF Init
    <3> QED
      BY <3>1, <3>2, <3>3 DEF Init, Reading
  <2>2. Carrying
    BY EmptySeq DEF Init, Carrying
  <2>3. MintedIn(catIds) = {}
    BY BoundTypes DEF Init, MintedIn
  <2>4. Numbering
    BY <2>3, FS_EmptySet DEF Init, Numbering
  <2>5. Keeping /\ Written /\ StoreConsistent
    BY DEF Init, Keeping, Written, StoreConsistent
  <2> QED
    BY <2>1, <2>2, <2>4, <2>5 DEF StoreInv
<1>2. StoreInv /\ FlightInv /\ [Next]_vars => StoreInv'
  BY StoreStep
<1> QED
  BY <1>1, <1>2, FlightCorrect, PTL DEF Spec

\* The types of the state, for every dump and number of workers.
THEOREM TypeCorrect == Spec => []TypeOK
<1>1. StoreInv /\ FlightInv => TypeOK
  <2> SUFFICES ASSUME StoreInv, FlightInv PROVE TypeOK
    OBVIOUS
  <2>1. /\ pc \in {"open", "fill", "send", "handle", "join", "finished", "failed", "panicked"}
        /\ wpc \in [Workers -> {"lock", "recv", "work", "send", "ended", "panicked"}]
        /\ inFlight \in 0..Slots
    BY DEF FlightInv, FlightTypes
  <2>2. lineCh \in Seq(Lines) /\ doneCh \in Seq(Carried)
    BY CarriedType, SeqMonotonic DEF StoreInv, Carrying
  <2>3. hold \in Carried \union {None} /\ (hold # None <=> pc \in {"send", "handle"})
    BY CarriedType, <2>1 DEF StoreInv, Carrying
  <2>4. minted \in 0..Cardinality(Titles)
    <3>1. MintedIn(catIds) \in SUBSET Titles
      BY DEF MintedIn
    <3>2. Cardinality(MintedIn(catIds)) \in Nat /\ Cardinality(MintedIn(catIds)) <= Cardinality(Titles)
      BY <3>1, SlotsAssumption, FS_Subset, FS_CardinalityType
    <3> QED
      BY <3>2, BoundTypes DEF StoreInv, Numbering
  <2> QED
    BY <2>1, <2>2, <2>3, <2>4
    DEF TypeOK, StoreInv, Reading, Carrying, Numbering, Keeping, Written
<1> QED
  BY <1>1, StoreCorrect, FlightCorrect, PTL

\* A finished store has one row per id, and every term leads from a row to a row.
THEOREM OneRowEach == Spec => []StoreConsistent
<1>1. StoreInv => StoreConsistent
  BY DEF StoreInv
<1> QED
  BY <1>1, StoreCorrect, PTL

\* No record is counted as skipped that has the fields a row needs, unless
\* another with its page's id, or for its category, was kept.
THEOREM SkipsHaveCause == Spec => []SkippedForCause
<1>1. StoreInv => SkippedForCause
  <2> SUFFICES ASSUME StoreInv, NEW l \in skipped, Rec(l).kind # "bad"
               PROVE  \/ /\ Rec(l).kind = "page"
                         /\ \E m \in Kept : Rec(m).kind = "page" /\ Rec(m).id = Rec(l).id
                      \/ /\ Rec(l).kind = "category" /\ catIds[Rec(l).title] # 0
                         /\ \E m \in Kept : /\ Rec(m).kind = "category"
                                            /\ catIds[Rec(m).title] = catIds[Rec(l).title]
    BY DEF SkippedForCause
  <2>1. l \in Lines /\ Rec(l).kind \in {"page", "category"}
    BY RecordOf DEF StoreInv, Keeping
  <2>2. CASE Rec(l).kind = "page"
    <3>1. PICK r \in rows : PageRow(r) /\ r.id = Rec(l).id
      BY <2>2 DEF StoreInv, Written
    <3>2. r.from \in Kept
      BY <3>1, LineType DEF PageRow, Kept, Landed
    <3> QED
      BY <2>2, <3>1, <3>2 DEF PageRow
  <2>3. CASE Rec(l).kind = "category"
    <3>1. PICK i \in CatId : i = catIds[Rec(l).title] /\ i # 0 /\ catRows[i] # None
      <4>1. Behind(l) /\ Rec(l).title \in Titles
        BY <2>1, <2>3, RecordOf DEF StoreInv, Keeping
      <4> QED
        BY <4>1 DEF Behind, StoreInv, Numbering
    <3>2. KeptFor(i) /\ catRows[i] \in Kept
      BY <3>1 DEF StoreInv, Keeping, Kept
    <3> QED
      BY <2>3, <3>1, <3>2 DEF KeptFor
  <2> QED
    BY <2>1, <2>2, <2>3
<1> QED
  BY <1>1, StoreCorrect, PTL

\* Of the records met for a category, the latest modified is the one kept.
THEOREM LaterWins == Spec => []LaterModificationWins
<1>1. StoreInv => LaterModificationWins
  <2> SUFFICES ASSUME StoreInv, NEW i \in CatId, catRows[i] # None,
                      NEW l \in skipped \union replaced,
                      Rec(l).kind = "category", catIds[Rec(l).title] = i
               PROVE  Rec(l).modified <= Rec(catRows[i]).modified
    BY DEF LaterModificationWins
  <2>1. Behind(l)
    BY DEF StoreInv, Keeping
  <2> QED
    BY <2>1 DEF Behind
<1> QED
  BY <1>1, StoreCorrect, PTL

-----------------------------------------------------------------------------
(***************************************************************************)
(* That an ingest that finishes accounts for every line it sent to its     *)
(* workers: each is written, replaced or counted as skipped, none is lost  *)
(* on the way and none comes twice.                                        *)
(***************************************************************************)

\* Where a line can be on its way: in the channel to the workers, with one of them,
\* in the channel of results, in the main thread's hand.
Queued == {lineCh[k] : k \in DOMAIN lineCh}
Worked == {job[w].line : w \in Busy}
Lowed == {doneCh[k].line : k \in DOMAIN doneCh}
InHand == IF pc \in {"send", "handle"} THEN {hold.line} ELSE {}
Flying == Queued \union Worked \union Lowed \union InHand

\* Where it can have come to.
RowsKept == {catRows[i] : i \in CatId} \ {None}
Accounted == Landed \union skipped \union replaced \union RowsKept

\* The lines taken so far, of the files before and of the one being read.
Passed == {l \in Lines : l[1] < file \/ (l[1] = file /\ l[2] <= taken)}

\* A line is at one place.
Apart ==
    /\ \A i, k \in DOMAIN lineCh : lineCh[i] = lineCh[k] => i = k
    /\ \A i, k \in DOMAIN doneCh : doneCh[i].line = doneCh[k].line => i = k
    /\ \A v, w \in Busy : job[v].line = job[w].line => v = w
    /\ Queued \intersect Worked = {} /\ Queued \intersect Lowed = {}
    /\ Worked \intersect Lowed = {}
    /\ InHand \intersect (Queued \union Worked \union Lowed) = {}
    /\ Accounted \intersect Flying = {}
    /\ RowsKept \intersect replaced = {}
    /\ Flying \union Accounted \subseteq Passed

\* Workers end only when nothing is under way, and the main thread leaves the file
\* with nothing under way unless something went wrong.
Looping == {"fill", "send", "handle"}
Closing ==
    /\ pc \in Looping /\ lineOpen => \A w \in Workers : wpc[w] # "ended"
    /\ pc \in Looping /\ ~lineOpen => inFlight = 0 /\ exhausted
    /\ pc = "send" => ~exhausted
    /\ pc = "join" => err \/ inFlight = 0 \/ Panicked # {}
    /\ pc = "open" => inFlight = 0

\* The count.
Total == Cardinality(Landed) + Cardinality(skipped) + Cardinality(replaced) + Cardinality(RowsKept)
Counted ==
    (pc \in Looping \union {"open"} \/ (pc = "join" /\ ~err)) =>
        Total + inFlight + (IF pc = "handle" THEN 1 ELSE 0) = sent

AccountInv == Apart /\ Closing /\ Counted /\ EveryLineLands

\* The lines are finitely many, and with them every set of them.
LEMMA LinesFinite == \A S \in SUBSET Lines : IsFiniteSet(S) /\ Cardinality(S) \in Nat
<1> DEFINE F == 1..Len(Files)
           of(f) == {<<f, i>> : i \in 1..Len(Files[f])}
<1>1. IsFiniteSet(F)
  BY BoundTypes, FS_Interval
<1>2. \A f \in F : IsFiniteSet(of(f))
  <2> TAKE f \in F
  <2> DEFINE pair == [i \in 1..Len(Files[f]) |-> <<f, i>>]
  <2>0. Len(Files[f]) \in Nat
    BY BoundTypes
  <2>1. IsFiniteSet(1..Len(Files[f]))
    BY <2>0, FS_Interval
  <2>2. pair \in Surjection(1..Len(Files[f]), of(f))
    BY DEF Surjection
  <2> HIDE DEF pair, of
  <2> QED
    BY <2>1, <2>2, FS_Surjection
<1>3. IsFiniteSet(UNION {of(f) : f \in F})
  <2>1. IsFiniteSet({of(f) : f \in F})
    <3> DEFINE each == [f \in F |-> of(f)]
    <3>1. each \in Surjection(F, {of(f) : f \in F})
      BY DEF Surjection
    <3> HIDE DEF each, of
    <3> QED
      BY <1>1, <3>1, FS_Surjection
  <2>2. \A S \in {of(f) : f \in F} : IsFiniteSet(S)
    BY <1>2
  <2> HIDE DEF of
  <2> QED
    BY <2>1, <2>2, FS_UNION
<1>4. IsFiniteSet(Lines)
  BY <1>3 DEF Lines
<1> QED
  BY <1>4, FS_Subset, FS_CardinalityType

\* What is under way, and what was handled, are lines.
LEMMA AreLines ==
    ASSUME StoreInv
    PROVE  /\ Landed \subseteq Lines /\ skipped \subseteq Lines /\ replaced \subseteq Lines
           /\ RowsKept \subseteq Lines
           /\ lineCh \in Seq(Lines) /\ doneCh \in Seq(Carried)
           /\ pc = "send" \/ pc = "handle" => hold \in Carried
<1>1. lineCh \in Seq(Lines) /\ doneCh \in Seq(Carried)
  BY CarriedType, SeqMonotonic DEF StoreInv, Carrying
<1>2. pc = "send" \/ pc = "handle" => hold \in Carried
  BY CarriedType DEF StoreInv, Carrying
<1> QED
  BY <1>1, <1>2 DEF StoreInv, Keeping, Written, Landed, RowsKept

\* The head of a list leaves the rest.
LEMMA HeadLeaves ==
    ASSUME NEW S, NEW s \in Seq(S), s # <<>>
    PROVE  /\ \A x : (\E k \in DOMAIN s : s[k] = x)
                       <=> (x = Head(s) \/ \E k \in DOMAIN Tail(s) : Tail(s)[k] = x)
           /\ \A k \in DOMAIN Tail(s) : k + 1 \in DOMAIN s /\ Tail(s)[k] = s[k + 1] /\ k \in Nat \ {0}
           /\ 1 \in DOMAIN s /\ s[1] = Head(s)
<1>1. /\ DOMAIN s = 1..Len(s) /\ Len(s) \in Nat \ {0}
      /\ Tail(s) \in Seq(S) /\ Len(Tail(s)) = Len(s) - 1
      /\ DOMAIN Tail(s) = 1..Len(s) - 1
      /\ \A k \in 1..Len(s) - 1 : Tail(s)[k] = s[k + 1]
      /\ Head(s) = s[1]
  BY LenProperties, HeadTailProperties, EmptySeq
<1>2. ASSUME NEW k \in DOMAIN s
      PROVE  s[k] = Head(s) \/ \E n \in DOMAIN Tail(s) : Tail(s)[n] = s[k]
  <2>1. CASE k = 1
    BY <1>1, <2>1
  <2>2. CASE k # 1
    <3>1. k - 1 \in DOMAIN Tail(s) /\ (k - 1) + 1 = k
      BY <1>1, <2>2
    <3> QED
      BY <1>1, <3>1
  <2> QED
    BY <2>1, <2>2
<1>3. \A k \in DOMAIN Tail(s) : k + 1 \in DOMAIN s /\ Tail(s)[k] = s[k + 1] /\ k \in Nat \ {0}
  BY <1>1
<1>4. 1 \in DOMAIN s /\ s[1] = Head(s)
  BY <1>1
<1> QED
  BY <1>2, <1>3, <1>4

\* A member appended is the last.
LEMMA LastComes ==
    ASSUME NEW S, NEW s \in Seq(S), NEW e \in S
    PROVE  /\ DOMAIN Append(s, e) = DOMAIN s \union {Len(s) + 1} /\ Len(s) + 1 \notin DOMAIN s
           /\ \A k \in DOMAIN s : Append(s, e)[k] = s[k]
           /\ Append(s, e)[Len(s) + 1] = e
BY LenProperties, AppendProperties

\* A step that writes nothing leaves what is accounted for, and the count.
LEMMA SameAccount ==
    ASSUME UNCHANGED storeVars
    PROVE  /\ Accounted' = Accounted /\ RowsKept' = RowsKept /\ Landed' = Landed
           /\ replaced' = replaced /\ Total' = Total
<1>1. UNCHANGED <<catRows, rows, skipped, replaced>>
  BY DEF storeVars
<1>2. Landed' = Landed /\ RowsKept' = RowsKept
  BY <1>1 DEF Landed, RowsKept
<1> QED
  BY <1>1, <1>2 DEF Accounted, Total

\* A step in which nothing changes its place and no file is opened.
LEMMA AllStay ==
    ASSUME AccountInv, UNCHANGED storeVars,
           Queued' = Queued, Worked' = Worked, Lowed' = Lowed, InHand' = InHand,
           UNCHANGED <<lineCh, doneCh>>, Passed \subseteq Passed',
           \A v, w \in Busy' : (job[v].line = job[w].line => v = w)'
    PROVE  Apart'
<1>1. Accounted' = Accounted /\ RowsKept' = RowsKept /\ replaced' = replaced
  BY SameAccount
<1>2. Flying' = Flying
  BY DEF Flying
<1> QED
  BY <1>1, <1>2 DEF AccountInv, Apart

\* Waiting for the lock, holding it, and ending.
LEMMA IdleStays ==
    ASSUME AccountInv, FlightInv, NEW w \in Workers, Lock(w) \/ (Recv(w) /\ lineCh = <<>>)
    PROVE  AccountInv'
<1>0. /\ UNCHANGED <<pc, file, taken, hold, inFlight, sent, exhausted, lineOpen, lineCh, doneCh, job, err>>
      /\ UNCHANGED storeVars
      /\ wpc[w] \in {"lock", "recv"}
      /\ wpc' = [wpc EXCEPT ![w] = "recv"] \/ (wpc' = [wpc EXCEPT ![w] = "ended"] /\ ~lineOpen)
  BY DEF Lock, Recv, mainVars, readVars
<1>1. wpc \in [Workers -> WorkerStates]
  BY DEF FlightInv, FlightTypes, WorkerStates
<1>2. Busy' = Busy /\ Panicked' = Panicked
  BY <1>0, <1>1 DEF Busy, Panicked
<1>3. /\ Queued' = Queued /\ Worked' = Worked /\ Lowed' = Lowed /\ InHand' = InHand
      /\ Passed' = Passed
  BY <1>0, <1>2 DEF Queued, Worked, Lowed, InHand, Passed
<1>4. Apart'
  BY <1>0, <1>2, <1>3, AllStay DEF AccountInv, Apart
<1>5. Closing'
  BY <1>0, <1>1, <1>2 DEF AccountInv, Closing, Looping
<1>6. Counted' /\ EveryLineLands'
  BY <1>0, SameAccount DEF AccountInv, Counted, EveryLineLands, storeVars
<1> QED
  BY <1>4, <1>5, <1>6 DEF AccountInv

\* A line goes from the channel to a worker.
LEMMA TakenUp ==
    ASSUME AccountInv, FlightInv, StoreInv, NEW w \in Workers, Recv(w), lineCh # <<>>
    PROVE  AccountInv'
<1>0. /\ UNCHANGED <<pc, file, taken, hold, inFlight, sent, exhausted, lineOpen, doneCh, err>>
      /\ UNCHANGED storeVars
      /\ wpc[w] = "recv" /\ wpc' = [wpc EXCEPT ![w] = "work"] /\ lineCh' = Tail(lineCh)
      /\ job' = [job EXCEPT ![w] = Unlowered(Head(lineCh))]
  BY DEF Recv, mainVars, readVars
<1>1. wpc \in [Workers -> WorkerStates] /\ DOMAIN job = Workers
  BY DEF FlightInv, FlightTypes, FlightHeld, WorkerStates
<1>2. Busy' = Busy \union {w} /\ w \notin Busy /\ Panicked' = Panicked
  BY <1>0, <1>1 DEF Busy, Panicked
<1>3. /\ \A v \in Busy : job'[v] = job[v]
      /\ job'[w].line = Head(lineCh)
  BY <1>0, <1>1, <1>2 DEF Unlowered, Busy
<1>4. lineCh \in Seq(Lines)
  BY AreLines
<1>5. /\ Queued = Queued' \union {Head(lineCh)}
      /\ \A k \in DOMAIN lineCh' : k + 1 \in DOMAIN lineCh /\ lineCh'[k] = lineCh[k + 1] /\ k \in Nat \ {0}
      /\ 1 \in DOMAIN lineCh /\ lineCh[1] = Head(lineCh)
  <2>1. \A x : (\E k \in DOMAIN lineCh : lineCh[k] = x)
                  <=> (x = Head(lineCh) \/ \E k \in DOMAIN Tail(lineCh) : Tail(lineCh)[k] = x)
    BY <1>4, HeadLeaves
  <2>2. \A x : x \in Queued <=> (x = Head(lineCh) \/ x \in Queued')
    BY <1>0, <2>1 DEF Queued
  <2>3. Queued = Queued' \union {Head(lineCh)}
    BY <2>2
  <2> QED
    BY <1>0, <1>4, <2>3, HeadLeaves
<1>6. \A i, k \in DOMAIN lineCh : lineCh[i] = lineCh[k] => i = k
  BY DEF AccountInv, Apart
<1>7. \A i, k \in DOMAIN lineCh' : lineCh'[i] = lineCh'[k] => i = k
  <2> SUFFICES ASSUME NEW i \in DOMAIN lineCh', NEW k \in DOMAIN lineCh', lineCh'[i] = lineCh'[k]
               PROVE  i = k
    OBVIOUS
  <2>1. i + 1 = k + 1 /\ i \in Nat /\ k \in Nat
    BY <1>5, <1>6
  <2> QED
    BY <2>1
<1>8. Head(lineCh) \notin Queued'
  <2> SUFFICES ASSUME NEW k \in DOMAIN lineCh', lineCh'[k] = Head(lineCh) PROVE FALSE
    BY DEF Queued
  <2>1. k + 1 = 1 /\ k \in Nat \ {0}
    BY <1>5, <1>6
  <2> QED
    BY <2>1
<1>9. Worked' = Worked \union {Head(lineCh)}
  BY <1>2, <1>3 DEF Worked
<1>10. Lowed' = Lowed /\ InHand' = InHand /\ Passed' = Passed
  BY <1>0 DEF Lowed, InHand, Passed
<1>11. Flying' = Flying
  BY <1>5, <1>9, <1>10 DEF Flying
<1>12. Accounted' = Accounted /\ RowsKept' = RowsKept /\ replaced' = replaced
  BY <1>0, SameAccount
<1>13. Head(lineCh) \in Queued
  BY <1>5
<1>14. \A v, x \in Busy' : job'[v].line = job'[x].line => v = x
  <2>1. \A v \in Busy : job'[v].line # job'[w].line
    BY <1>3, <1>13 DEF AccountInv, Apart, Worked
  <2>2. \A v, x \in Busy : job'[v].line = job'[x].line => v = x
    BY <1>3 DEF AccountInv, Apart
  <2> QED
    BY <1>2, <2>1, <2>2
<1>15. Apart'
  BY <1>0, <1>5, <1>7, <1>8, <1>9, <1>10, <1>11, <1>12, <1>13, <1>14 DEF AccountInv, Apart
<1>16. Closing'
  BY <1>0, <1>1, <1>2 DEF AccountInv, Closing, Looping
<1>17. Counted' /\ EveryLineLands'
  BY <1>0, SameAccount DEF AccountInv, Counted, EveryLineLands, storeVars
<1> QED
  BY <1>15, <1>16, <1>17 DEF AccountInv

\* A worker lowers its line, or panics over it.
LEMMA WorkedOn ==
    ASSUME AccountInv, FlightInv, NEW w \in Workers, Work(w) \/ Panic(w)
    PROVE  AccountInv'
<1>0. /\ UNCHANGED <<pc, file, taken, hold, inFlight, sent, exhausted, lineOpen, lineCh, doneCh, err>>
      /\ UNCHANGED storeVars
      /\ wpc[w] = "work"
      /\ \/ job' = [job EXCEPT ![w] = Result(job[w].line)] /\ wpc' = [wpc EXCEPT ![w] = "send"]
         \/ job' = job /\ wpc' = [wpc EXCEPT ![w] = "panicked"]
  BY DEF Work, Panic, mainVars, readVars
<1>1. wpc \in [Workers -> WorkerStates] /\ DOMAIN job = Workers
  BY DEF FlightInv, FlightTypes, FlightHeld, WorkerStates
<1>2. Busy' \subseteq Busy /\ Panicked \subseteq Panicked'
  BY <1>0, <1>1 DEF Busy, Panicked
<1>3. \A v \in Busy' : job'[v].line = job[v].line
  BY <1>0, <1>1, <1>2 DEF Result, Busy
<1>4. Worked' \subseteq Worked
  BY <1>2, <1>3 DEF Worked
<1>5. Queued' = Queued /\ Lowed' = Lowed /\ InHand' = InHand /\ Passed' = Passed
  BY <1>0 DEF Queued, Lowed, InHand, Passed
<1>6. Flying' \subseteq Flying
  BY <1>4, <1>5 DEF Flying
<1>7. Accounted' = Accounted /\ RowsKept' = RowsKept /\ replaced' = replaced
  BY <1>0, SameAccount
<1>8. \A v, x \in Busy' : job'[v].line = job'[x].line => v = x
  BY <1>2, <1>3 DEF AccountInv, Apart
<1>9. Apart'
  BY <1>0, <1>4, <1>5, <1>6, <1>7, <1>8 DEF AccountInv, Apart
<1>10. Closing'
  <2>1. \A v \in Workers : wpc'[v] = "ended" => wpc[v] = "ended"
    BY <1>0, <1>1
  <2>2. Panicked # {} => Panicked' # {}
    BY <1>2
  <2> QED
    BY <1>0, <2>1, <2>2 DEF AccountInv, Closing, Looping
<1>11. Counted' /\ EveryLineLands'
  BY <1>0, SameAccount DEF AccountInv, Counted, EveryLineLands, storeVars
<1> QED
  BY <1>9, <1>10, <1>11 DEF AccountInv

\* A result goes from a worker to the channel of results.
LEMMA HandedIn ==
    ASSUME AccountInv, FlightInv, StoreInv, NEW w \in Workers, Reply(w)
    PROVE  AccountInv'
<1>0. /\ UNCHANGED <<pc, file, taken, hold, inFlight, sent, exhausted, lineOpen, lineCh, err>>
      /\ UNCHANGED storeVars
      /\ wpc[w] = "send" /\ wpc' = [wpc EXCEPT ![w] = "lock"]
      /\ job' = [job EXCEPT ![w] = None] /\ doneCh' = Append(doneCh, job[w])
  BY DEF Reply, mainVars, readVars
<1>1. wpc \in [Workers -> WorkerStates] /\ DOMAIN job = Workers
  BY DEF FlightInv, FlightTypes, FlightHeld, WorkerStates
<1>2. Busy' = Busy \ {w} /\ w \in Busy /\ Panicked' = Panicked
  BY <1>0, <1>1 DEF Busy, Panicked
<1>3. \A v \in Busy' : job'[v] = job[v]
  BY <1>0, <1>1, <1>2 DEF Busy
<1>4. job[w] \in Carried /\ doneCh \in Seq(Carried)
  BY <1>0, AreLines, CarriedType DEF StoreInv, Carrying
<1>5. /\ DOMAIN doneCh' = DOMAIN doneCh \union {Len(doneCh) + 1} /\ Len(doneCh) + 1 \notin DOMAIN doneCh
      /\ \A k \in DOMAIN doneCh : doneCh'[k] = doneCh[k]
      /\ doneCh'[Len(doneCh) + 1] = job[w]
  BY <1>0, <1>4, LastComes
<1>6. Lowed' = Lowed \union {job[w].line}
  BY <1>5 DEF Lowed
<1>7. /\ Worked' \subseteq Worked /\ job[w].line \in Worked
      /\ job[w].line \notin Worked'
  BY <1>2, <1>3 DEF AccountInv, Apart, Worked
<1>8. Queued' = Queued /\ InHand' = InHand /\ Passed' = Passed
  BY <1>0 DEF Queued, InHand, Passed
<1>9. Flying' \subseteq Flying
  BY <1>6, <1>7, <1>8 DEF Flying
<1>10. Accounted' = Accounted /\ RowsKept' = RowsKept /\ replaced' = replaced
  BY <1>0, SameAccount
<1>11. \A v, x \in Busy' : job'[v].line = job'[x].line => v = x
  BY <1>2, <1>3 DEF AccountInv, Apart
<1>12. \A i, k \in DOMAIN doneCh' : doneCh'[i].line = doneCh'[k].line => i = k
  <2>1. \A k \in DOMAIN doneCh : doneCh[k].line # job[w].line
    BY <1>7 DEF AccountInv, Apart, Lowed
  <2>2. \A i, k \in DOMAIN doneCh : doneCh[i].line = doneCh[k].line => i = k
    BY DEF AccountInv, Apart
  <2> QED
    BY <1>5, <2>1, <2>2
<1>13. Apart'
  BY <1>0, <1>6, <1>7, <1>8, <1>9, <1>10, <1>11, <1>12 DEF AccountInv, Apart
<1>14. Closing'
  BY <1>0, <1>1, <1>2 DEF AccountInv, Closing, Looping
<1>15. Counted' /\ EveryLineLands'
  BY <1>0, SameAccount DEF AccountInv, Counted, EveryLineLands, storeVars
<1> QED
  BY <1>13, <1>14, <1>15 DEF AccountInv

\* The readers work ahead, or nothing changes.
LEMMA NothingMoves ==
    ASSUME AccountInv,
           UNCHANGED <<pc, file, taken, hold, inFlight, sent, exhausted, lineOpen, lineCh, doneCh,
                       job, wpc, err>>, UNCHANGED storeVars
    PROVE  AccountInv'
<1>1. Busy' = Busy /\ Panicked' = Panicked
  BY DEF Busy, Panicked
<1>2. /\ Queued' = Queued /\ Worked' = Worked /\ Lowed' = Lowed /\ InHand' = InHand
      /\ Passed' = Passed
  BY <1>1 DEF Queued, Worked, Lowed, InHand, Passed
<1>3. Apart'
  BY <1>1, <1>2, AllStay DEF AccountInv, Apart
<1>4. Closing'
  BY <1>1 DEF AccountInv, Closing, Looping
<1>5. Counted' /\ EveryLineLands'
  BY SameAccount DEF AccountInv, Counted, EveryLineLands, storeVars
<1> QED
  BY <1>3, <1>4, <1>5 DEF AccountInv

\* The next file: what was passed stays passed.
LEMMA NextFile ==
    ASSUME AccountInv, StoreInv, FlightInv, OpenFile
    PROVE  AccountInv'
<1>0. /\ UNCHANGED <<hold, inFlight, sent, job>> /\ UNCHANGED storeVars
      /\ pc = "open" /\ file' = file + 1 /\ taken' = 0 /\ lineCh' = <<>> /\ doneCh' = <<>>
      /\ lineOpen' = TRUE /\ exhausted' = FALSE
      /\ \/ pc' = "fill" /\ wpc' = [w \in Workers |-> "lock"] /\ err' = err
         \/ pc' = "failed" /\ wpc' = wpc
  BY DEF OpenFile
<1>1. Busy' \subseteq Busy
  BY <1>0 DEF Busy
<1>2. DOMAIN lineCh' = {} /\ DOMAIN doneCh' = {}
  BY <1>0, EmptySeq, LenProperties
<1>3. Queued' = {} /\ Lowed' = {} /\ InHand' = {} /\ Worked' \subseteq Worked
  BY <1>0, <1>1, <1>2 DEF Queued, Lowed, InHand, Worked
<1>4. Passed \subseteq Passed'
  <2> SUFFICES ASSUME NEW l \in Passed PROVE l[1] < file + 1 /\ l \in Lines
    BY <1>0 DEF Passed
  <2>1. l \in Lines /\ l[1] \in Nat /\ l[1] <= file /\ file \in Nat
    <3>1. l \in Lines /\ (l[1] < file \/ l[1] = file) /\ file \in Nat
      BY DEF Passed, FlightInv, FlightTypes
    <3>2. l \in Place
      BY <3>1, LineType
    <3>3. l[1] \in Nat
      BY <3>2
    <3> QED
      BY <3>1, <3>3
  <2> QED
    BY <2>1
<1>5. Accounted' = Accounted /\ RowsKept' = RowsKept /\ replaced' = replaced
  BY <1>0, SameAccount
<1>6. Flying' \subseteq Flying
  BY <1>3 DEF Flying
<1>7. Apart'
  BY <1>0, <1>1, <1>2, <1>3, <1>4, <1>5, <1>6 DEF AccountInv, Apart
<1>8. Closing'
  BY <1>0 DEF AccountInv, Closing, Looping
<1>9. Counted' /\ EveryLineLands'
  BY <1>0, SameAccount DEF AccountInv, Counted, EveryLineLands, Looping
<1> QED
  BY <1>7, <1>8, <1>9 DEF AccountInv

\* The next line was not met before.
LEMMA NewLine ==
    ASSUME AccountInv, StoreInv, FlightInv, Take
    PROVE  AccountInv'
<1> DEFINE l == <<file, taken + 1>>
<1>0. /\ UNCHANGED <<file, inFlight, sent, lineOpen, lineCh, doneCh, wpc, job, err>>
      /\ UNCHANGED storeVars
      /\ pc = "fill" /\ ~exhausted /\ taken' = taken + 1 /\ taken < readPos[file]
      /\ \/ pc' = "fill" /\ hold' = hold /\ exhausted' = TRUE
         \/ pc' = "send" /\ hold' = Unlowered(l) /\ exhausted' = exhausted
  <2>1. CASE sent >= Limit
    BY <2>1 DEF Take, Filling, poolVars
  <2>2. CASE ~(sent >= Limit)
    BY <2>2 DEF Take, Filling, poolVars
  <2> QED
    BY <2>1, <2>2
<1>1. Busy' = Busy /\ Panicked' = Panicked
  BY <1>0 DEF Busy, Panicked
<1>2. Queued' = Queued /\ Worked' = Worked /\ Lowed' = Lowed /\ InHand = {}
  BY <1>0, <1>1 DEF Queued, Worked, Lowed, InHand
<1>3. file \in 1..Len(Files) /\ taken \in Nat /\ l \in Lines
  <2>1. /\ file \in 1..Len(Files) /\ taken \in Nat /\ readPos[file] <= Len(Files[file])
        /\ readPos[file] \in Nat
    BY <1>0, BoundTypes DEF StoreInv, Reading
  <2>2. taken + 1 \in Nat \ {0} /\ taken + 1 <= Len(Files[file])
    BY <1>0, <2>1, BoundTypes
  <2> QED
    BY <2>1, <2>2, LineAt
<1>4. l \notin Passed /\ l \in Passed' /\ Passed \subseteq Passed'
  <2>1. file \in Nat /\ taken \in Nat /\ l[1] = file /\ l[2] = taken + 1
    BY <1>3, BoundTypes
  <2>2. l \notin Passed
    BY <2>1 DEF Passed
  <2>3. l \in Passed'
    BY <1>0, <1>3, <2>1 DEF Passed
  <2>4. ASSUME NEW k \in Passed
        PROVE  k \in Passed'
    <3>1. k \in Lines /\ (k[1] < file \/ (k[1] = file /\ k[2] <= taken))
      BY DEF Passed
    <3>2. k \in Place
      BY <3>1, LineType
    <3>3. k[2] \in Nat
      BY <3>2
    <3>4. k[2] <= taken => k[2] <= taken + 1
      BY <2>1, <3>3
    <3> QED
      BY <1>0, <3>1, <3>4 DEF Passed
  <2> QED
    BY <2>2, <2>3, <2>4
<1>5. Accounted' = Accounted /\ RowsKept' = RowsKept /\ replaced' = replaced
  BY <1>0, SameAccount
<1>6. InHand' \subseteq {l}
  BY <1>0 DEF InHand, Unlowered
<1> HIDE DEF l
<1>7. Apart'
  BY <1>0, <1>1, <1>2, <1>4, <1>5, <1>6 DEF AccountInv, Apart, Flying
<1>8. Closing'
  BY <1>0, <1>1 DEF AccountInv, Closing, Looping
<1>9. Counted' /\ EveryLineLands'
  BY <1>0, SameAccount DEF AccountInv, Counted, EveryLineLands, Looping
<1> QED
  BY <1>7, <1>8, <1>9 DEF AccountInv

\* A line goes out: from the hand into the channel, in flight from here.
LEMMA GoesOut ==
    ASSUME AccountInv, StoreInv, FlightInv, Send
    PROVE  AccountInv'
<1>0. /\ UNCHANGED <<file, taken, exhausted, lineOpen, doneCh, wpc, job, err>> /\ UNCHANGED storeVars
      /\ pc = "send" /\ pc' = "fill" /\ lineCh' = Append(lineCh, hold.line)
      /\ inFlight' = inFlight + 1 /\ sent' = sent + 1
  BY DEF Send, readVars
<1>1. Busy' = Busy /\ Panicked' = Panicked
  BY <1>0 DEF Busy, Panicked
<1>2. lineCh \in Seq(Lines) /\ hold.line \in Lines
  BY <1>0, AreLines DEF Carried
<1>3. /\ DOMAIN lineCh' = DOMAIN lineCh \union {Len(lineCh) + 1} /\ Len(lineCh) + 1 \notin DOMAIN lineCh
      /\ \A k \in DOMAIN lineCh : lineCh'[k] = lineCh[k]
      /\ lineCh'[Len(lineCh) + 1] = hold.line
  BY <1>0, <1>2, LastComes
<1>4. /\ Queued' = Queued \union {hold.line} /\ Worked' = Worked /\ Lowed' = Lowed
      /\ InHand = {hold.line} /\ InHand' = {} /\ Passed' = Passed
  BY <1>0, <1>1, <1>3 DEF Queued, Worked, Lowed, InHand, Passed
<1>5. Flying' = Flying
  BY <1>4 DEF Flying
<1>6. Accounted' = Accounted /\ RowsKept' = RowsKept /\ replaced' = replaced /\ Total' = Total
  BY <1>0, SameAccount
<1>7. \A i, k \in DOMAIN lineCh' : lineCh'[i] = lineCh'[k] => i = k
  <2>1. \A k \in DOMAIN lineCh : lineCh[k] # hold.line
    BY <1>4 DEF AccountInv, Apart, Queued
  <2>2. \A i, k \in DOMAIN lineCh : lineCh[i] = lineCh[k] => i = k
    BY DEF AccountInv, Apart
  <2> QED
    BY <1>3, <2>1, <2>2
<1>8. Apart'
  BY <1>0, <1>1, <1>4, <1>5, <1>6, <1>7 DEF AccountInv, Apart
<1>9. Closing'
  BY <1>0, <1>1 DEF AccountInv, Closing, Looping
<1>10. Total \in Nat
  BY AreLines, LinesFinite DEF Total
<1>11. inFlight \in Nat /\ sent \in Nat /\ Total + inFlight = sent
  BY <1>0, <1>10, SlotsType, BoundTypes DEF AccountInv, Counted, Looping, FlightInv, FlightTypes, StoreInv, Reading
<1>12. Counted'
  BY <1>0, <1>6, <1>10, <1>11 DEF Counted
<1>13. EveryLineLands'
  BY <1>0 DEF EveryLineLands
<1> QED
  BY <1>8, <1>9, <1>12, <1>13 DEF AccountInv

\* A result comes in: from the channel into the hand.
LEMMA ComesIn ==
    ASSUME AccountInv, StoreInv, FlightInv, ReceiveDone
    PROVE  AccountInv'
<1>0. /\ UNCHANGED <<file, taken, exhausted, sent, lineCh, wpc, job, err>> /\ UNCHANGED storeVars
      /\ pc = "fill" /\ pc' = "handle" /\ doneCh # <<>> /\ doneCh' = Tail(doneCh)
      /\ hold' = Head(doneCh) /\ inFlight > 0 /\ inFlight' = inFlight - 1
      /\ lineOpen' = (lineOpen /\ ~(exhausted /\ inFlight = 1))
  BY DEF ReceiveDone, mainVars, readVars
<1>1. Busy' = Busy /\ Panicked' = Panicked
  BY <1>0 DEF Busy, Panicked
<1>2. doneCh \in Seq(Carried)
  BY AreLines
<1>3. /\ \A k \in DOMAIN doneCh' : k + 1 \in DOMAIN doneCh /\ doneCh'[k] = doneCh[k + 1] /\ k \in Nat \ {0}
      /\ 1 \in DOMAIN doneCh /\ doneCh[1] = hold'
      /\ \A x : (\E k \in DOMAIN doneCh : doneCh[k] = x) <=> (x = hold' \/ \E k \in DOMAIN doneCh' : doneCh'[k] = x)
  BY <1>0, <1>2, HeadLeaves
<1>4. \A i, k \in DOMAIN doneCh : doneCh[i].line = doneCh[k].line => i = k
  BY DEF AccountInv, Apart
<1>5. \A i, k \in DOMAIN doneCh' : doneCh'[i].line = doneCh'[k].line => i = k
  <2> SUFFICES ASSUME NEW i \in DOMAIN doneCh', NEW k \in DOMAIN doneCh', doneCh'[i].line = doneCh'[k].line
               PROVE  i = k
    OBVIOUS
  <2>1. i + 1 = k + 1 /\ i \in Nat /\ k \in Nat
    BY <1>3, <1>4
  <2> QED
    BY <2>1
<1>6. Lowed' \union {hold'.line} = Lowed /\ hold'.line \notin Lowed'
  <2>1. \A k \in DOMAIN doneCh' : doneCh'[k].line \in Lowed
    BY <1>3 DEF Lowed
  <2>2. \A k \in DOMAIN doneCh : doneCh[k].line \in Lowed' \union {hold'.line}
    <3> SUFFICES ASSUME NEW k \in DOMAIN doneCh PROVE doneCh[k].line \in Lowed' \union {hold'.line}
      OBVIOUS
    <3>1. doneCh[k] = hold' \/ \E n \in DOMAIN doneCh' : doneCh'[n] = doneCh[k]
      BY <1>3
    <3>2. CASE \E n \in DOMAIN doneCh' : doneCh'[n] = doneCh[k]
      <4>1. PICK n \in DOMAIN doneCh' : doneCh'[n] = doneCh[k]
        BY <3>2
      <4>2. doneCh'[n].line \in Lowed'
        BY DEF Lowed
      <4> QED
        BY <4>1, <4>2
    <3> QED
      BY <3>1, <3>2
  <2>3. hold'.line \in Lowed
    BY <1>3 DEF Lowed
  <2>4. hold'.line \notin Lowed'
    <3> SUFFICES ASSUME NEW k \in DOMAIN doneCh', doneCh'[k].line = hold'.line PROVE FALSE
      BY DEF Lowed
    <3>1. k + 1 = 1 /\ k \in Nat \ {0}
      BY <1>3, <1>4
    <3> QED
      BY <3>1
  <2>5. Lowed' \subseteq Lowed /\ Lowed \subseteq Lowed' \union {hold'.line}
    BY <2>1, <2>2 DEF Lowed
  <2> QED
    BY <2>3, <2>4, <2>5
<1>7. /\ Queued' = Queued /\ Worked' = Worked /\ InHand = {} /\ InHand' = {hold'.line}
      /\ Passed' = Passed
  BY <1>0, <1>1 DEF Queued, Worked, InHand, Passed
<1>8. Flying' = Flying
  BY <1>6, <1>7 DEF Flying
<1>9. Accounted' = Accounted /\ RowsKept' = RowsKept /\ replaced' = replaced /\ Total' = Total
  BY <1>0, SameAccount
<1>10. Apart'
  BY <1>0, <1>1, <1>5, <1>6, <1>7, <1>8, <1>9 DEF AccountInv, Apart
<1>11. inFlight \in Nat /\ sent \in Nat /\ Total \in Nat /\ Total + inFlight = sent
  <2>1. Total \in Nat
    BY AreLines, LinesFinite DEF Total
  <2> QED
    BY <1>0, <2>1, SlotsType, BoundTypes DEF AccountInv, Counted, Looping, FlightInv, FlightTypes, StoreInv, Reading
<1>12. Closing'
  <2>1. lineOpen
    BY <1>0, <1>11 DEF AccountInv, Closing, Looping
  <2>2. ~lineOpen' => exhausted' /\ inFlight' = 0
    <3>1. ~lineOpen' => exhausted /\ inFlight = 1
      BY <1>0, <2>1, Zenon
    <3>2. inFlight = 1 => inFlight' = 0
      BY <1>0
    <3> QED
      BY <1>0, <3>1, <3>2, Zenon
  <2> QED
    BY <1>0, <2>1, <2>2 DEF AccountInv, Closing, Looping
<1>13. Counted'
  BY <1>0, <1>9, <1>11 DEF Counted
<1>14. EveryLineLands'
  BY <1>0 DEF EveryLineLands
<1> QED
  BY <1>10, <1>12, <1>13, <1>14 DEF AccountInv

\* The main thread leaves the loop, or finds the file at its end.
LEMMA Leaving ==
    ASSUME AccountInv, StoreInv, FlightInv, TakeNone \/ ReceiveErr \/ Drained
    PROVE  AccountInv'
<1>0. /\ UNCHANGED <<file, taken, sent, hold, inFlight, lineCh, doneCh, wpc, job, err>>
      /\ UNCHANGED storeVars /\ pc = "fill"
      /\ \/ pc' = "fill" /\ lineOpen' = lineOpen /\ exhausted' = TRUE
         \/ pc' = "join" /\ inFlight = 0
         \/ pc' = "join" /\ inFlight > 0 /\ \A w \in Workers : wpc[w] \in {"ended", "panicked"}
  <2>1. CASE TakeNone
    BY <2>1 DEF TakeNone, Filling, poolVars, readVars
  <2>2. CASE ReceiveErr
    BY <2>2 DEF ReceiveErr, mainVars, readVars
  <2>3. CASE Drained
    BY <2>3 DEF Drained, mainVars, readVars
  <2> QED
    BY <2>1, <2>2, <2>3
<1>1. Busy' = Busy /\ Panicked' = Panicked
  BY <1>0 DEF Busy, Panicked
<1>2. /\ Queued' = Queued /\ Worked' = Worked /\ Lowed' = Lowed /\ InHand' = InHand
      /\ Passed' = Passed
  BY <1>0, <1>1 DEF Queued, Worked, Lowed, InHand, Passed
<1>3. Apart'
  BY <1>0, <1>1, <1>2, AllStay DEF AccountInv, Apart
<1>4. inFlight \in Nat
  BY SlotsType DEF FlightInv, FlightTypes
<1>5. Closing'
  <2>1. CASE pc' = "fill" /\ lineOpen' = lineOpen /\ exhausted' = TRUE
    BY <1>0, <2>1 DEF AccountInv, Closing, Looping
  <2>2. CASE pc' = "join" /\ inFlight = 0
    BY <1>0, <2>2 DEF Closing, Looping
  <2>3. CASE pc' = "join" /\ inFlight > 0 /\ \A w \in Workers : wpc[w] \in {"ended", "panicked"}
    <3>1. \A w \in Workers : wpc[w] # "ended"
      BY <1>0, <1>4, <2>3 DEF AccountInv, Closing, Looping
    <3>2. Panicked # {}
      BY <2>3, <3>1, SlotsAssumption DEF Panicked
    <3> QED
      BY <1>0, <1>1, <2>3, <3>2 DEF Closing, Looping
  <2> QED
    BY <1>0, <2>1, <2>2, <2>3
<1>6. Counted' /\ EveryLineLands'
  BY <1>0, SameAccount DEF AccountInv, Counted, EveryLineLands, Looping
<1> QED
  BY <1>3, <1>5, <1>6 DEF AccountInv

\* The workers are gone; unless something went wrong nothing was under way.
LEMMA Joined ==
    ASSUME AccountInv, StoreInv, FlightInv, Join
    PROVE  AccountInv'
<1>0. /\ UNCHANGED <<file, taken, exhausted, sent, hold, lineOpen, wpc, job, err>>
      /\ UNCHANGED storeVars /\ pc = "join"
      /\ lineCh' = <<>> /\ doneCh' = <<>> /\ inFlight' = 0
      /\ \A w \in Workers : wpc[w] \in {"ended", "panicked"}
      /\ \/ pc' \in {"panicked", "failed"}
         \/ pc' = "open" /\ ~err /\ Panicked = {}
  BY DEF Join, mainVars, readVars, Panicked
<1>1. Busy = {} /\ Busy' = {}
  BY <1>0 DEF Busy
<1>2. DOMAIN lineCh' = {} /\ DOMAIN doneCh' = {}
  BY <1>0, EmptySeq, LenProperties
<1>3. /\ Queued' = {} /\ Lowed' = {} /\ InHand' = {} /\ Worked' = {}
      /\ Passed' = Passed
  BY <1>0, <1>1, <1>2 DEF Queued, Lowed, InHand, Worked, Passed
<1>4. Accounted' = Accounted /\ RowsKept' = RowsKept /\ replaced' = replaced /\ Total' = Total
  BY <1>0, SameAccount
<1>5. Apart'
  BY <1>1, <1>2, <1>3, <1>4 DEF AccountInv, Apart, Flying
<1>6. Closing'
  BY <1>0 DEF Closing, Looping
<1>7. pc' = "open" => inFlight = 0
  BY <1>0 DEF AccountInv, Closing
<1>8. Counted' /\ EveryLineLands'
  BY <1>0, <1>4, <1>7 DEF AccountInv, Counted, EveryLineLands, Looping
<1> QED
  BY <1>5, <1>6, <1>8 DEF AccountInv

\* A row is refused: the ingest will not finish.
LEMMA Refused ==
    ASSUME AccountInv, StoreInv, FlightInv, HandleFault
    PROVE  AccountInv'
<1>0. /\ UNCHANGED <<file, taken, exhausted, sent, inFlight, lineCh, doneCh, wpc, job>>
      /\ UNCHANGED storeVars /\ pc = "handle" /\ pc' = "join" /\ err' = TRUE
  BY DEF HandleFault, mainVars, readVars
<1>1. Busy' = Busy
  BY <1>0 DEF Busy
<1>2. /\ Queued' = Queued /\ Worked' = Worked /\ Lowed' = Lowed /\ InHand' = {}
      /\ Passed' = Passed
  BY <1>0, <1>1 DEF Queued, Worked, Lowed, InHand, Passed
<1>3. Accounted' = Accounted /\ RowsKept' = RowsKept /\ replaced' = replaced
  BY <1>0, SameAccount
<1>4. Flying' \subseteq Flying
  BY <1>2 DEF Flying
<1>5. Apart'
  BY <1>0, <1>1, <1>2, <1>3, <1>4 DEF AccountInv, Apart
<1>6. Closing' /\ Counted' /\ EveryLineLands'
  BY <1>0 DEF Closing, Counted, EveryLineLands, Looping
<1> QED
  BY <1>5, <1>6 DEF AccountInv

\* The sum counts one more when one set gains a line.
LEMMA OneMore ==
    ASSUME NEW S \in SUBSET Lines, NEW l \in Lines, l \notin S
    PROVE  Cardinality(S \union {l}) = Cardinality(S) + 1
BY LinesFinite, FS_AddElement

\* A result is handled: one line more is accounted for.
LEMMA Landing ==
    ASSUME AccountInv, StoreInv, FlightInv, pc = "handle",
           HandleSkipped \/ HandleCategory \/ HandlePage, hold.line \notin Accounted
    PROVE  /\ Accounted' = Accounted \union {hold.line} /\ RowsKept' \intersect replaced' = {}
           /\ Total' = Total + 1
<1>0. PICK l \in Lines : l = hold.line
  BY AreLines DEF Carried
<1>1. /\ Landed \subseteq Lines /\ skipped \subseteq Lines /\ replaced \subseteq Lines
      /\ RowsKept \subseteq Lines
      /\ l \notin Landed /\ l \notin skipped /\ l \notin replaced /\ l \notin RowsKept
      /\ RowsKept \intersect replaced = {}
  BY <1>0, AreLines DEF Accounted, AccountInv, Apart
<1>2. /\ Cardinality(Landed) \in Nat /\ Cardinality(skipped) \in Nat /\ Cardinality(replaced) \in Nat
      /\ Cardinality(RowsKept) \in Nat
  BY <1>1, LinesFinite
<1>3. CASE skipped' = skipped \union {l} /\ UNCHANGED <<rows, catRows, replaced>>
  <2>1. Landed' = Landed /\ RowsKept' = RowsKept
    BY <1>3 DEF Landed, RowsKept
  <2>2. Cardinality(skipped') = Cardinality(skipped) + 1
    BY <1>1, <1>3, OneMore
  <2>3. Total' = Total + 1
    BY <1>2, <1>3, <2>1, <2>2 DEF Total
  <2>4. Accounted' = Accounted \union {l}
    BY <1>3, <2>1 DEF Accounted
  <2> QED
    BY <1>0, <1>1, <1>3, <2>1, <2>3, <2>4
<1>4. CASE rows' = rows \union {[id |-> Rec(l).id, from |-> l]} /\ UNCHANGED <<skipped, catRows, replaced>>
  <2>1. RowsKept' = RowsKept
    BY <1>4 DEF RowsKept
  <2>2. Landed' = Landed \union {l}
    <3>1. PICK row : row = [id |-> Rec(l).id, from |-> l] /\ row.from = l /\ rows' = rows \union {row}
      BY <1>4
    <3>2. l # None
      BY LineType
    <3> QED
      BY <3>1, <3>2 DEF Landed
  <2>3. Cardinality(Landed') = Cardinality(Landed) + 1
    BY <1>1, <2>2, OneMore
  <2>4. Total' = Total + 1
    BY <1>2, <1>4, <2>1, <2>3 DEF Total
  <2>5. Accounted' = Accounted \union {l}
    BY <1>4, <2>1, <2>2 DEF Accounted
  <2> QED
    BY <1>0, <1>1, <1>4, <2>1, <2>4, <2>5
<1>5. ASSUME NEW id \in CatId, catRows' = [catRows EXCEPT ![id] = l],
             replaced' = replaced \union ({catRows[id]} \ {None}), UNCHANGED <<rows, skipped>>
      PROVE  /\ Accounted' = Accounted \union {l} /\ RowsKept' \intersect replaced' = {}
             /\ Total' = Total + 1
  <2>0. /\ catRows \in [CatId -> Lines \union {None}]
        /\ \A i \in CatId : catRows[i] # None => catIds[Rec(catRows[i]).title] = i
    BY DEF StoreInv, Keeping, KeptFor
  <2>1. Landed' = Landed
    BY <1>5 DEF Landed
  <2>2. l # None /\ catRows'[id] = l /\ \A i \in CatId : i # id => catRows'[i] = catRows[i]
    BY <1>5, <2>0, LineType
  <2>3. RowsKept' = (RowsKept \ ({catRows[id]} \ {None})) \union {l}
    <3>1. ASSUME NEW i \in CatId, i # id, catRows[i] # None
          PROVE  catRows[i] # catRows[id]
      BY <2>0, <3>1
    <3>2. ASSUME NEW k \in RowsKept'
          PROVE  k = l \/ (k \in RowsKept /\ k # catRows[id])
      <4>1. PICK i \in CatId : k = catRows'[i] /\ k # None
        BY DEF RowsKept
      <4> QED
        BY <2>2, <3>1, <4>1 DEF RowsKept
    <3>3. ASSUME NEW k \in RowsKept, k # catRows[id]
          PROVE  k \in RowsKept'
      <4>1. PICK i \in CatId : k = catRows[i] /\ k # None
        BY DEF RowsKept
      <4>2. k = catRows'[i]
        BY <2>2, <3>3, <4>1
      <4> QED
        BY <4>1, <4>2 DEF RowsKept
    <3>4. l \in RowsKept'
      BY <2>2 DEF RowsKept
    <3>5. None \notin RowsKept
      BY DEF RowsKept
    <3> QED
      BY <3>2, <3>3, <3>4, <3>5
  <2>4. CASE catRows[id] = None
    <3>1. RowsKept' = RowsKept \union {l} /\ replaced' = replaced
      BY <1>5, <2>3, <2>4
    <3>2. Cardinality(RowsKept') = Cardinality(RowsKept) + 1
      BY <1>1, <3>1, OneMore
    <3>3. Total' = Total + 1
      <4>1. /\ Cardinality(Landed') = Cardinality(Landed) /\ Cardinality(skipped') = Cardinality(skipped)
            /\ Cardinality(replaced') = Cardinality(replaced)
        BY <1>5, <2>1, <3>1
      <4> QED
        BY <1>2, <3>2, <4>1 DEF Total
    <3>4. Accounted' = Accounted \union {l}
      BY <1>5, <2>1, <3>1 DEF Accounted
    <3> QED
      BY <1>1, <3>1, <3>3, <3>4
  <2>5. CASE catRows[id] # None
    <3>0. catRows[id] \in RowsKept /\ catRows[id] \in Lines /\ catRows[id] \notin replaced
      BY <1>1, <2>0, <2>5 DEF RowsKept
    <3>1. /\ RowsKept' = (RowsKept \ {catRows[id]}) \union {l}
          /\ replaced' = replaced \union {catRows[id]}
      BY <1>5, <2>3, <2>5
    <3>2. Cardinality(replaced') = Cardinality(replaced) + 1
      BY <1>1, <3>0, <3>1, OneMore
    <3>3. Cardinality(RowsKept \ {catRows[id]}) = Cardinality(RowsKept) - 1
      BY <1>1, <3>0, LinesFinite, FS_RemoveElement
    <3>4. Cardinality(RowsKept') = Cardinality(RowsKept \ {catRows[id]}) + 1
      BY <1>1, <3>1, OneMore
    <3>5. Total' = Total + 1
      BY <1>2, <1>5, <2>1, <3>2, <3>3, <3>4 DEF Total
    <3>6. Accounted' = Accounted \union {l}
      BY <1>5, <2>1, <3>0, <3>1 DEF Accounted
    <3>7. RowsKept' \intersect replaced' = {}
      BY <1>1, <3>0, <3>1
    <3> QED
      BY <3>5, <3>6, <3>7
  <2> QED
    BY <2>4, <2>5
<1>6. CASE HandleSkipped
  BY <1>0, <1>3, <1>6 DEF HandleSkipped
<1>7. CASE HandlePage
  <2>1. \/ skipped' = skipped \union {l} /\ UNCHANGED <<rows, catRows, replaced>>
        \/ rows' = rows \union {[id |-> Rec(l).id, from |-> l]} /\ UNCHANGED <<skipped, catRows, replaced>>
    BY <1>0, <1>7 DEF HandlePage
  <2> QED
    BY <1>3, <1>4, <2>1
<1>8. CASE HandleCategory
  <2> DEFINE ids == [catIds EXCEPT ![Rec(l).title] = IF @ = 0 THEN Rec(l).id ELSE @]
             own == ids[Rec(l).title]
  <2>1. /\ UNCHANGED rows
        /\ \/ /\ catRows' = [catRows EXCEPT ![own] = l]
              /\ replaced' = replaced \union ({catRows[own]} \ {None}) /\ skipped' = skipped
           \/ skipped' = skipped \union {l} /\ UNCHANGED <<catRows, replaced>>
    BY <1>0, <1>8 DEF HandleCategory
  <2>2. own \in CatId
    BY RecordOf DEF StoreInv, Numbering
  <2> HIDE DEF own
  <2>3. PICK id \in CatId : id = own
    BY <2>2
  <2> QED
    BY <1>0, <1>3, <1>5, <2>1, <2>3
<1> QED
  BY <1>6, <1>7, <1>8

\* The result in hand is handled.
LEMMA Handled ==
    ASSUME AccountInv, StoreInv, FlightInv, Handle
    PROVE  AccountInv'
<1>0. /\ UNCHANGED <<file, taken, exhausted, sent, inFlight, lineOpen, lineCh, doneCh, wpc, job, err>>
      /\ pc = "handle" /\ pc' = "fill"
  BY DEF Handle, mainVars, readVars, poolVars
<1>1. Busy' = Busy /\ Panicked' = Panicked
  BY <1>0 DEF Busy, Panicked
<1>2. /\ Queued' = Queued /\ Worked' = Worked /\ Lowed' = Lowed
      /\ InHand = {hold.line} /\ InHand' = {} /\ Passed' = Passed
  BY <1>0, <1>1 DEF Queued, Worked, Lowed, InHand, Passed
<1>3. hold.line \notin Accounted /\ hold.line \notin Queued \union Worked \union Lowed
      /\ hold.line \in Passed
  BY <1>2 DEF AccountInv, Apart, Flying
<1>4. /\ Accounted' = Accounted \union {hold.line} /\ RowsKept' \intersect replaced' = {}
      /\ Total' = Total + 1
  BY <1>0, <1>3, Landing DEF Handle
<1>5. Apart'
  BY <1>0, <1>1, <1>2, <1>3, <1>4 DEF AccountInv, Apart, Flying
<1>6. Closing'
  BY <1>0, <1>1 DEF AccountInv, Closing, Looping
<1>7. Total \in Nat /\ inFlight \in Nat /\ Total + inFlight + 1 = sent
  <2>1. Total \in Nat
    BY AreLines, LinesFinite DEF Total
  <2> QED
    BY <1>0, <2>1, SlotsType DEF AccountInv, Counted, Looping, FlightInv, FlightTypes
<1>8. Counted'
  BY <1>0, <1>4, <1>7 DEF Counted
<1>9. EveryLineLands'
  BY <1>0 DEF EveryLineLands
<1> QED
  BY <1>5, <1>6, <1>8, <1>9 DEF AccountInv

\* The categories are written: the records kept become rows.
LEMMA Finished ==
    ASSUME AccountInv, StoreInv, FlightInv, WriteCategories
    PROVE  AccountInv'
<1>0. /\ UNCHANGED <<file, taken, exhausted, sent, hold, inFlight, lineOpen, lineCh, doneCh, wpc, job>>
      /\ UNCHANGED <<catRows, skipped, replaced>>
      /\ pc = "open"
      /\ \/ /\ pc' = "finished"
            /\ rows' = rows \union {[id |-> i, from |-> catRows[i]] : i \in Named}
         \/ pc' = "failed" /\ rows' = rows
  BY DEF WriteCategories, mainVars, readVars, poolVars
<1>1. Busy' = Busy
  BY <1>0 DEF Busy
<1>2. /\ Queued' = Queued /\ Worked' = Worked /\ Lowed' = Lowed
      /\ InHand = {} /\ InHand' = {} /\ Passed' = Passed /\ RowsKept' = RowsKept
  BY <1>0, <1>1 DEF Queued, Worked, Lowed, InHand, Passed, RowsKept
<1>3. CASE pc' = "finished"
  <2>1. Landed' = Landed \union RowsKept
    <3>1. Named \subseteq CatId
      BY DEF StoreInv, Numbering, Named
    <3>2. \A i \in CatId : catRows[i] # None => i \in Named
      <4> SUFFICES ASSUME NEW i \in CatId, catRows[i] # None PROVE i \in Named
        OBVIOUS
      <4>1. catRows[i] \in Lines /\ catIds[Rec(catRows[i]).title] = i
        BY DEF StoreInv, Keeping, KeptFor
      <4>2. Rec(catRows[i]).title \in Titles /\ i # 0
        BY <4>1, RecordOf, BoundTypes DEF CatId
      <4> QED
        BY <4>1, <4>2 DEF Named
    <3>3. ASSUME NEW k \in Landed'
          PROVE  k \in Landed \union RowsKept
      <4>1. PICK r \in rows' : k = r.from /\ k # None
        BY DEF Landed
      <4>2. CASE r \in rows
        BY <4>1, <4>2 DEF Landed
      <4>3. CASE r \notin rows
        <5>1. PICK i \in Named : r = [id |-> i, from |-> catRows[i]]
          BY <1>0, <1>3, <4>1, <4>3
        <5> QED
          BY <3>1, <4>1, <5>1 DEF RowsKept
      <4> QED
        BY <4>2, <4>3
    <3>4. ASSUME NEW k \in RowsKept
          PROVE  k \in Landed'
      <4>1. PICK i \in CatId : k = catRows[i] /\ k # None
        BY DEF RowsKept
      <4>2. [id |-> i, from |-> catRows[i]] \in rows'
        BY <1>0, <1>3, <3>2, <4>1
      <4> QED
        BY <4>1, <4>2 DEF Landed
    <3>5. Landed \subseteq Landed'
      BY <1>0, <1>3 DEF Landed
    <3> QED
      BY <3>3, <3>4, <3>5
  <2>2. Landed \intersect RowsKept = {}
    <3>1. \A k \in Landed : Rec(k).kind = "page"
      BY <1>0 DEF StoreInv, Written, PageRow, Landed
    <3>2. \A k \in RowsKept : Rec(k).kind = "category"
      BY DEF StoreInv, Keeping, KeptFor, RowsKept
    <3> QED
      BY <3>1, <3>2
  <2>3. Cardinality(Landed') = Cardinality(Landed) + Cardinality(RowsKept)
    <3>1. IsFiniteSet(Landed) /\ IsFiniteSet(RowsKept) /\ Cardinality(Landed) \in Nat /\ Cardinality(RowsKept) \in Nat
      BY AreLines, LinesFinite
    <3>2. Cardinality(Landed \union RowsKept)
            = Cardinality(Landed) + Cardinality(RowsKept) - Cardinality(Landed \intersect RowsKept)
      BY <3>1, FS_Union
    <3>3. Cardinality(Landed \intersect RowsKept) = 0
      BY <2>2, FS_EmptySet
    <3> QED
      BY <2>1, <3>1, <3>2, <3>3
  <2>4. EveryLineLands'
    <3>1. /\ Cardinality(Landed) \in Nat /\ Cardinality(RowsKept) \in Nat
          /\ Cardinality(skipped) \in Nat /\ Cardinality(replaced) \in Nat
      BY AreLines, LinesFinite
    <3>2. Total + inFlight = sent /\ inFlight = 0
      <4>1. Total \in Nat
        BY <3>1 DEF Total
      <4> QED
        BY <1>0, <4>1 DEF AccountInv, Counted, Closing
    <3> QED
      BY <1>0, <2>3, <3>1, <3>2 DEF EveryLineLands, Total
  <2>5. Accounted' = Accounted
    BY <1>0, <1>2, <2>1 DEF Accounted
  <2>6. Apart'
    BY <1>0, <1>1, <1>2, <2>5 DEF AccountInv, Apart, Flying
  <2>7. Closing' /\ Counted'
    BY <1>3 DEF Closing, Counted, Looping
  <2> QED
    BY <2>4, <2>6, <2>7 DEF AccountInv
<1>4. CASE pc' = "failed" /\ rows' = rows
  <2>1. Landed' = Landed
    BY <1>4 DEF Landed
  <2>2. Accounted' = Accounted
    BY <1>0, <1>2, <2>1 DEF Accounted
  <2>3. Apart'
    BY <1>0, <1>1, <1>2, <2>2 DEF AccountInv, Apart, Flying
  <2>4. Closing' /\ Counted' /\ EveryLineLands'
    BY <1>4 DEF Closing, Counted, EveryLineLands, Looping
  <2> QED
    BY <2>3, <2>4 DEF AccountInv
<1> QED
  BY <1>0, <1>3, <1>4

\* Every step keeps the account.
LEMMA AccountStep ==
    ASSUME AccountInv, StoreInv, FlightInv, [Next]_vars
    PROVE  AccountInv'
<1>1. CASE OpenFile
  BY <1>1, NextFile
<1>2. CASE Take
  BY <1>2, NewLine
<1>3. CASE Send
  BY <1>3, GoesOut
<1>4. CASE ReceiveDone
  BY <1>4, ComesIn
<1>5. CASE TakeNone \/ ReceiveErr \/ Drained
  BY <1>5, Leaving
<1>6. CASE Join
  BY <1>6, Joined
<1>7. CASE Handle
  BY <1>7, Handled
<1>8. CASE HandleFault
  BY <1>8, Refused
<1>9. CASE WriteCategories
  BY <1>9, Finished
<1>10. ASSUME NEW w \in Workers, Worker(w) \/ Panic(w)
       PROVE  AccountInv'
  <2>1. CASE Recv(w) /\ lineCh # <<>>
    BY <2>1, TakenUp
  <2> QED
    BY <1>10, <2>1, IdleStays, WorkedOn, HandedIn DEF Worker
<1>11. CASE Terminated \/ UNCHANGED vars \/ \E f \in 1..Len(Files) : Reader(f) \/ ReadFault(f)
  <2>1. /\ UNCHANGED <<pc, file, taken, hold, inFlight, sent, exhausted, lineOpen, lineCh, doneCh,
                       job, wpc, err>>
        /\ UNCHANGED storeVars
    <3>1. CASE UNCHANGED vars
      BY <3>1 DEF vars, storeVars
    <3>2. CASE \E f \in 1..Len(Files) : Reader(f) \/ ReadFault(f)
      BY <3>2 DEF Reader, ReadLine, ReadEnd, ReadFault, mainVars, poolVars
    <3> QED
      BY <1>11, <3>1, <3>2 DEF Terminated
  <2> QED
    BY <2>1, NothingMoves
<1> QED
  BY <1>1, <1>2, <1>3, <1>4, <1>5, <1>6, <1>7, <1>8, <1>9, <1>10, <1>11 DEF Next, Main

\* A finished ingest accounts for every line it sent, each once.
THEOREM NoLineLost == Spec => []EveryLineLands
<1>1. Init => AccountInv
  <2> SUFFICES ASSUME Init PROVE AccountInv
    OBVIOUS
  <2>1. Busy = {} /\ DOMAIN lineCh = {} /\ DOMAIN doneCh = {}
    BY EmptySeq, LenProperties DEF Init, Busy
  <2>2. Queued = {} /\ Worked = {} /\ Lowed = {} /\ InHand = {}
    BY <2>1 DEF Init, Queued, Worked, Lowed, InHand
  <2>3. Landed = {} /\ RowsKept = {} /\ skipped = {} /\ replaced = {}
    BY DEF Init, Landed, RowsKept
  <2>4. Apart
    BY <2>1, <2>2, <2>3 DEF Apart, Flying, Accounted
  <2>5. Closing
    BY DEF Init, Closing, Looping
  <2>6. Cardinality({}) = 0
    BY FS_EmptySet
  <2>7. Counted /\ EveryLineLands
    BY <2>3, <2>6 DEF Init, Counted, EveryLineLands, Total
  <2> QED
    BY <2>4, <2>5, <2>7 DEF AccountInv
<1>2. AccountInv /\ StoreInv /\ FlightInv /\ [Next]_vars => AccountInv'
  BY AccountStep
<1>3. AccountInv => EveryLineLands
  BY DEF AccountInv
<1> QED
  BY <1>1, <1>2, <1>3, StoreCorrect, FlightCorrect, PTL DEF Spec

=============================================================================
