------------------------------- MODULE Ingest -------------------------------
(***************************************************************************)
(* The Wikipedia ingest (quarb-web/src/ingest.rs): per dump file a reader  *)
(* thread hands lines to the main thread, which feeds a bounded channel to *)
(* the workers and writes their results to the store in arrival order.     *)
(* Category rows are kept back and written after the last file.            *)
(*                                                                         *)
(* A line is named by its place <<file, position>>; Rec gives its record.  *)
(***************************************************************************)
EXTENDS Naturals, Sequences, FiniteSets

CONSTANTS Files,         \* the dump files: sequences of records
          Workers,       \* the workers of one file
          PerWorker,     \* channel slots per worker (4 in the code)
          ReaderSlots,   \* slots of the reader's channel (1024 in the code)
          Limit,         \* stop after this many records
          Titles,        \* names of categories
          CategoryBase,  \* minted category ids lie above it
          MaxFaults,     \* store errors, unreadable files, panics in a worker
          None

RecordType == [kind : {"page", "category", "bad"}, id : 1..CategoryBase,
               title : Titles, cats : Seq(Titles), modified : Nat]

ASSUME FilesAssumption == Files \in Seq(Seq(RecordType))
ASSUME SlotsAssumption == /\ IsFiniteSet(Workers) /\ Workers # {} /\ IsFiniteSet(Titles)
                          /\ PerWorker \in Nat \ {0} /\ ReaderSlots \in Nat \ {0}
ASSUME BoundsAssumption == /\ Limit \in Nat /\ MaxFaults \in Nat /\ CategoryBase \in Nat
                           /\ None \notin (Nat \X Nat) \union [line : Nat \X Nat, row : BOOLEAN]

Lines == UNION {{<<f, i>> : i \in 1..Len(Files[f])} : f \in 1..Len(Files)}
Rec(l) == Files[l[1]][l[2]]

\* A wiki numbers its pages over all namespaces: no page has the number of a category.
ASSUME NumberingAssumption ==
    \A k, l \in Lines : Rec(k).kind = "page" /\ Rec(l).kind = "category" => Rec(k).id # Rec(l).id

\* workers * 4: the lines in flight, and the room in either worker channel.
Slots == Cardinality(Workers) * PerWorker

\* Ids a category row may have: a record's own, or one minted per title.
CatId == 1..(CategoryBase + Cardinality(Titles))

VARIABLES pc,        \* where the main thread is
          file,      \* the file being read
          exhausted, \* no more lines are taken from it
          hold,      \* the line taken, or the result received
          inFlight,  \* lines sent to the workers and not yet received back
          sent,      \* n_sent
          base,      \* the base URL is known
          reader,    \* per file: its reader thread
          readPos,   \* per file: lines the reader has handed over
          taken,     \* lines the main thread took from the current file
          lineCh,    \* the channel to the workers
          lineOpen,  \* its sender is held
          doneCh,    \* the channel of results
          wpc,       \* where each worker is
          lock,      \* the worker holding the receiver of lineCh
          job,       \* the line a worker has
          faults,    \* faults so far
          err,       \* an error is being returned
          catIds,    \* cat_ids: category title -> id, 0 for none
          catRows,   \* cat_rows: category id -> line or None
          minted,    \* next_cat - CATEGORY_BASE
          rows,      \* page rows written: [id, from]
          terms,     \* terms written: [page, category]
          skipped,   \* lines counted in summary.skipped
          replaced   \* history: category records a later one replaced

mainVars == <<file, exhausted, sent, base>>
readVars == <<reader, readPos, taken>>
poolVars == <<lineCh, lineOpen, doneCh, wpc, lock, job>>
storeVars == <<catIds, catRows, minted, rows, terms, skipped, replaced>>
vars == <<pc, file, exhausted, hold, inFlight, sent, base, reader, readPos, taken, lineCh,
          lineOpen, doneCh, wpc, lock, job, faults, err, catIds, catRows, minted,
          rows, terms, skipped, replaced>>

Init == /\ pc = "open" /\ file = 0 /\ exhausted = FALSE /\ hold = None
        /\ inFlight = 0 /\ sent = 0
        /\ base \in BOOLEAN          \* given by the options, or not
        /\ reader = [f \in 1..Len(Files) |-> "unborn"]
        /\ readPos = [f \in 1..Len(Files) |-> 0]
        /\ taken = 0
        /\ lineCh = <<>> /\ lineOpen = FALSE /\ doneCh = <<>>
        /\ wpc = [w \in Workers |-> "ended"]
        /\ lock = None
        /\ job = [w \in Workers |-> None]
        /\ faults = 0 /\ err = FALSE
        /\ catIds = [t \in Titles |-> 0]
        /\ catRows = [i \in CatId |-> None]
        /\ minted = 0
        /\ rows = {} /\ terms = {} /\ skipped = {} /\ replaced = {}

-----------------------------------------------------------------------------
(***************************************************************************)
(* lines_of: the reader thread of a file.                                  *)
(***************************************************************************)

\* The main thread still holds the receiving end of the reader's channel.
Wanted(f) == f = file /\ pc \in {"fill", "send", "handle"}

ReadLine(f) ==
    /\ reader[f] = "reading" /\ readPos[f] < Len(Files[f])
    /\ Wanted(f) /\ readPos[f] - taken < ReaderSlots
    /\ readPos' = [readPos EXCEPT ![f] = @ + 1]
    /\ UNCHANGED <<pc, mainVars, hold, inFlight, reader, taken, poolVars, faults, err, storeVars>>

\* Mutant: a send nobody receives does not end the reader.
MutReadEnd(f) ==
    /\ reader[f] = "reading" /\ readPos[f] = Len(Files[f])
    /\ reader' = [reader EXCEPT ![f] = "ended"]
    /\ UNCHANGED <<pc, mainVars, hold, inFlight, readPos, taken, poolVars, faults, err, storeVars>>

\* The end of the file, or a send nobody receives.
ReadEnd(f) ==
    /\ reader[f] = "reading"
    /\ readPos[f] = Len(Files[f]) \/ ~Wanted(f)
    /\ reader' = [reader EXCEPT ![f] = "ended"]
    /\ UNCHANGED <<pc, mainVars, hold, inFlight, readPos, taken, poolVars, faults, err, storeVars>>

\* An unreadable archive ends the stream of lines as its end would.
ReadFault(f) ==
    /\ reader[f] = "reading" /\ faults < MaxFaults
    /\ faults' = faults + 1
    /\ reader' = [reader EXCEPT ![f] = "ended"]
    /\ UNCHANGED <<pc, mainVars, hold, inFlight, readPos, taken, poolVars, err, storeVars>>

-----------------------------------------------------------------------------
(***************************************************************************)
(* A worker.                                                               *)
(***************************************************************************)
Lock(w) ==
    /\ wpc[w] = "lock" /\ lock = None
    /\ lock' = w
    /\ wpc' = [wpc EXCEPT ![w] = "recv"]
    /\ UNCHANGED <<pc, mainVars, hold, inFlight, readVars, lineCh, lineOpen, doneCh, job,
                   faults, err, storeVars>>

\* A line on its way, with no row made of it yet.
Unlowered(l) == [line |-> l, row |-> FALSE]

\* recv() under the lock: a line, or the channel closed and drained.
Recv(w) ==
    /\ wpc[w] = "recv"
    /\ \/ /\ lineCh # <<>>
          /\ job' = [job EXCEPT ![w] = Unlowered(Head(lineCh))]
          /\ lineCh' = Tail(lineCh)
          /\ wpc' = [wpc EXCEPT ![w] = "work"]
       \/ /\ lineCh = <<>> /\ ~lineOpen
          /\ wpc' = [wpc EXCEPT ![w] = "ended"]
          /\ UNCHANGED <<lineCh, job>>
    /\ lock' = None
    /\ UNCHANGED <<pc, mainVars, hold, inFlight, readVars, lineOpen, doneCh, faults, err, storeVars>>

\* process: nothing comes of a record without the fields a row needs, nor of
\* any record while the base URL is unknown.
Result(l) == [line |-> l, row |-> base /\ Rec(l).kind # "bad"]

Work(w) ==
    /\ wpc[w] = "work"
    /\ job' = [job EXCEPT ![w] = Result(job[w].line)]
    /\ wpc' = [wpc EXCEPT ![w] = "send"]
    /\ UNCHANGED <<pc, mainVars, hold, inFlight, readVars, lineCh, lineOpen, doneCh, lock,
                   faults, err, storeVars>>

\* tx.send(p), blocking while the channel is full.
Reply(w) ==
    /\ wpc[w] = "send" /\ Len(doneCh) < Slots
    /\ doneCh' = Append(doneCh, job[w])
    /\ job' = [job EXCEPT ![w] = None]
    /\ wpc' = [wpc EXCEPT ![w] = "lock"]
    /\ UNCHANGED <<pc, mainVars, hold, inFlight, readVars, lineCh, lineOpen, lock, faults, err,
                   storeVars>>

\* A panic while lowering a page: the line's result is lost.
Panic(w) ==
    /\ wpc[w] = "work" /\ faults < MaxFaults
    /\ faults' = faults + 1
    /\ wpc' = [wpc EXCEPT ![w] = "panicked"]
    /\ UNCHANGED <<pc, mainVars, hold, inFlight, readVars, lineCh, lineOpen, doneCh, lock, job,
                   err, storeVars>>

-----------------------------------------------------------------------------
(***************************************************************************)
(* The main thread: `wikipedia`.                                           *)
(***************************************************************************)

\* The next file: its reader, its channels and its workers.
OpenFile ==
    /\ pc = "open" /\ file < Len(Files)
    /\ file' = file + 1 /\ exhausted' = FALSE /\ taken' = 0
    /\ lineCh' = <<>> /\ lineOpen' = TRUE /\ doneCh' = <<>>
    /\ \/ /\ pc' = "fill"
          /\ reader' = [reader EXCEPT ![file'] = "reading"]
          /\ wpc' = [w \in Workers |-> "lock"]
          /\ UNCHANGED <<faults, err>>
       \/ /\ faults < MaxFaults /\ faults' = faults + 1    \* the file does not open
          /\ pc' = "failed" /\ err' = TRUE
          /\ UNCHANGED <<reader, wpc>>
    /\ UNCHANGED <<hold, inFlight, sent, base, readPos, lock, job, storeVars>>

\* Mutant: no bound on what is in flight.
MutFilling == pc = "fill" /\ ~exhausted

Filling == pc = "fill" /\ ~exhausted /\ inFlight < Slots

\* Mutant: the base URL is read off the first line of a file only.
MutTakeFirst ==
    /\ Filling /\ taken < readPos[file]
    /\ taken' = taken + 1
    /\ LET l == <<file, taken + 1>> IN
         /\ base' = (base \/ (taken = 0 /\ Rec(l).kind # "bad"))
         /\ IF sent >= Limit THEN /\ exhausted' = TRUE
                                  /\ UNCHANGED <<pc, hold>>
                             ELSE /\ pc' = "send" /\ hold' = Unlowered(l)
                                  /\ UNCHANGED exhausted
    /\ UNCHANGED <<file, inFlight, sent, reader, readPos, poolVars, faults, err, storeVars>>

\* lines.next() with a line: the base URL is read off the first record that has
\* one, and the limit is looked at before the line goes out.
Take ==
    /\ Filling /\ taken < readPos[file]
    /\ taken' = taken + 1
    /\ LET l == <<file, taken + 1>> IN
         /\ base' = (base \/ Rec(l).kind # "bad")
         /\ IF sent >= Limit THEN /\ exhausted' = TRUE
                                  /\ UNCHANGED <<pc, hold>>
                             ELSE /\ pc' = "send" /\ hold' = Unlowered(l)
                                  /\ UNCHANGED exhausted
    /\ UNCHANGED <<file, inFlight, sent, reader, readPos, poolVars, faults, err, storeVars>>

\* lines.next() with None: the reader is done and its channel drained.
TakeNone ==
    /\ Filling /\ taken = readPos[file] /\ reader[file] = "ended"
    /\ exhausted' = TRUE
    /\ UNCHANGED <<pc, file, hold, inFlight, sent, base, readVars, poolVars, faults, err, storeVars>>

\* tx_line.send, blocking while the channel is full.
Send ==
    /\ pc = "send" /\ Len(lineCh) < Slots
    /\ lineCh' = Append(lineCh, hold.line)
    /\ inFlight' = inFlight + 1 /\ sent' = sent + 1
    /\ pc' = "fill" /\ hold' = None
    /\ UNCHANGED <<file, exhausted, base, readVars, lineOpen, doneCh, wpc, lock, job, faults, err,
                   storeVars>>

\* rx_done.recv().  With the last result in hand the line channel closes, so
\* that the workers return.
ReceiveDone ==
    /\ pc = "fill" /\ ~Filling /\ inFlight > 0 /\ doneCh # <<>>
    /\ hold' = Head(doneCh) /\ doneCh' = Tail(doneCh)
    /\ lineOpen' = (lineOpen /\ ~(exhausted /\ inFlight = 1))
    /\ inFlight' = inFlight - 1
    /\ pc' = "handle"
    /\ UNCHANGED <<mainVars, readVars, lineCh, wpc, lock, job, faults, err, storeVars>>

\* Every worker is gone and their results are drained.
ReceiveErr ==
    /\ pc = "fill" /\ ~Filling /\ inFlight > 0 /\ doneCh = <<>>
    /\ \A w \in Workers : wpc[w] \in {"ended", "panicked"}
    /\ lineOpen' = FALSE /\ pc' = "join"
    /\ UNCHANGED <<mainVars, hold, inFlight, readVars, lineCh, doneCh, wpc, lock, job, faults,
                   err, storeVars>>

Drained ==
    /\ pc = "fill" /\ ~Filling /\ inFlight = 0
    /\ lineOpen' = FALSE /\ pc' = "join"
    /\ UNCHANGED <<mainVars, hold, inFlight, readVars, lineCh, doneCh, wpc, lock, job, faults,
                   err, storeVars>>

\* The scope ends when its workers have, and the file's channels with it; a
\* panic of a worker is passed on.
Join ==
    /\ pc = "join" /\ \A w \in Workers : wpc[w] \in {"ended", "panicked"}
    /\ pc' = IF \E w \in Workers : wpc[w] = "panicked" THEN "panicked"
             ELSE IF err THEN "failed" ELSE "open"
    /\ inFlight' = 0 /\ lineCh' = <<>> /\ doneCh' = <<>>
    /\ UNCHANGED <<mainVars, hold, readVars, lineOpen, wpc, lock, job, faults, err, storeVars>>

\* The titles of cats that have no id yet, by their first place.
Unnamed(ids, cats) == {i \in DOMAIN cats : /\ ids[cats[i]] = 0
                                           /\ \A j \in 1..(i - 1) : cats[j] # cats[i]}

\* or_insert_with: each of them gets the next minted id, in order.
NameAll(ids, cats) ==
    [t \in Titles |->
        IF \E i \in Unnamed(ids, cats) : cats[i] = t
        THEN CategoryBase + minted
               + Cardinality({j \in Unnamed(ids, cats) :
                                \A i \in Unnamed(ids, cats) : cats[i] = t => j <= i})
        ELSE ids[t]]

\* Mutant: the earlier modification wins.
MutNewer(l, old) == old = None \/ Rec(old).modified >= Rec(l).modified

Newer(l, old) == old = None \/ Rec(old).modified <= Rec(l).modified

HandleSkipped ==
    /\ ~hold.row
    /\ skipped' = skipped \union {hold.line}
    /\ UNCHANGED <<catIds, catRows, minted, rows, terms, replaced>>

\* Mutant: an older record of a category is dropped without being counted.
MutHandleCategory ==
    LET l == hold.line
        ids == [catIds EXCEPT ![Rec(l).title] = IF @ = 0 THEN Rec(l).id ELSE @]
        id == ids[Rec(l).title]
    IN /\ hold.row /\ Rec(l).kind = "category"
       /\ catIds' = NameAll(ids, Rec(l).cats)
       /\ minted' = minted + Cardinality(Unnamed(ids, Rec(l).cats))
       /\ IF Newer(l, catRows[id])
          THEN /\ catRows' = [catRows EXCEPT ![id] = l]
               /\ replaced' = replaced \union ({catRows[id]} \ {None})
          ELSE UNCHANGED <<catRows, replaced>>
       /\ UNCHANGED <<rows, terms, skipped>>

\* A category record takes the id its title already has, or gives it its own;
\* under one id the later modification is kept.
HandleCategory ==
    LET l == hold.line
        ids == [catIds EXCEPT ![Rec(l).title] = IF @ = 0 THEN Rec(l).id ELSE @]
        id == ids[Rec(l).title]
    IN /\ hold.row /\ Rec(l).kind = "category"
       /\ catIds' = NameAll(ids, Rec(l).cats)
       /\ minted' = minted + Cardinality(Unnamed(ids, Rec(l).cats))
       /\ IF Newer(l, catRows[id])
          THEN /\ catRows' = [catRows EXCEPT ![id] = l]
               /\ replaced' = replaced \union ({catRows[id]} \ {None})
               /\ UNCHANGED skipped
          ELSE /\ skipped' = skipped \union {l}
               /\ UNCHANGED <<catRows, replaced>>
       /\ UNCHANGED <<rows, terms>>

\* Mutant: a page that was written before is written again.
MutHandlePage ==
    LET l == hold.line IN
       /\ hold.row /\ Rec(l).kind = "page"
       /\ rows' = rows \union {[id |-> Rec(l).id, from |-> l]}
       /\ catIds' = NameAll(catIds, Rec(l).cats)
       /\ minted' = minted + Cardinality(Unnamed(catIds, Rec(l).cats))
       /\ terms' = terms \union {[page |-> Rec(l).id, category |-> catIds'[Rec(l).cats[i]]] :
                                   i \in DOMAIN Rec(l).cats}
       /\ UNCHANGED <<skipped, catRows, replaced>>

\* A page: the first to arrive under its id is written, with its terms.
HandlePage ==
    LET l == hold.line IN
       /\ hold.row /\ Rec(l).kind = "page"
       /\ IF \E r \in rows : r.id = Rec(l).id
          THEN /\ skipped' = skipped \union {l}
               /\ UNCHANGED <<catIds, minted, rows, terms>>
          ELSE /\ rows' = rows \union {[id |-> Rec(l).id, from |-> l]}
               /\ catIds' = NameAll(catIds, Rec(l).cats)
               /\ minted' = minted + Cardinality(Unnamed(catIds, Rec(l).cats))
               /\ terms' = terms \union {[page |-> Rec(l).id, category |-> catIds'[Rec(l).cats[i]]] :
                                           i \in DOMAIN Rec(l).cats}
               /\ UNCHANGED skipped
       /\ UNCHANGED <<catRows, replaced>>

Handle ==
    /\ pc = "handle"
    /\ HandleSkipped \/ HandleCategory \/ HandlePage
    /\ pc' = "fill" /\ hold' = None
    /\ UNCHANGED <<mainVars, inFlight, readVars, poolVars, faults, err>>

\* What is handled writes to the store at once: a page not seen before, and
\* before the first row of all the site's own.
Writes == \/ Rec(hold.line).kind = "page" /\ \A r \in rows : r.id # Rec(hold.line).id
          \/ rows = {} /\ \A i \in CatId : catRows[i] = None

\* The store refuses a row: `?` leaves the scope's closure, whose locals (the
\* line sender, the reader's receiver) drop; the scope then waits for the
\* workers, the receiver of their results still held.
HandleFault ==
    /\ pc = "handle" /\ hold.row /\ Writes /\ faults < MaxFaults
    /\ faults' = faults + 1 /\ err' = TRUE
    /\ lineOpen' = FALSE /\ pc' = "join" /\ hold' = None
    /\ UNCHANGED <<mainVars, inFlight, readVars, lineCh, doneCh, wpc, lock, job, storeVars>>

\* After the last file: a row for every category named or seen, terms for the
\* parents of those with a record.
Named == {catIds[t] : t \in Titles} \ {0}
Parents(l) == {catIds[Rec(l).cats[i]] : i \in DOMAIN Rec(l).cats}

WriteCategories ==
    /\ pc = "open" /\ file = Len(Files)
    /\ \/ /\ rows' = rows \union {[id |-> i, from |-> catRows[i]] : i \in Named}
          /\ terms' = terms \union
               UNION {{[page |-> i, category |-> p] : p \in Parents(catRows[i]) \ {i}} :
                        i \in {j \in CatId : catRows[j] # None}}
          /\ pc' = "finished"
          /\ UNCHANGED <<faults, err>>
       \/ /\ faults < MaxFaults /\ faults' = faults + 1
          /\ pc' = "failed" /\ err' = TRUE
          /\ UNCHANGED <<rows, terms>>
    /\ UNCHANGED <<mainVars, hold, inFlight, readVars, poolVars, catIds, catRows, minted,
                   skipped, replaced>>

Main == \/ OpenFile \/ Take \/ TakeNone \/ Send \/ ReceiveDone \/ ReceiveErr \/ Drained
        \/ Handle \/ HandleFault \/ Join \/ WriteCategories
Worker(w) == Lock(w) \/ Recv(w) \/ Work(w) \/ Reply(w)
Reader(f) == ReadLine(f) \/ ReadEnd(f)

Ended == pc \in {"finished", "failed", "panicked"}

\* All threads are done.
Terminated ==
    /\ Ended
    /\ \A w \in Workers : wpc[w] \in {"ended", "panicked"}
    /\ \A f \in 1..Len(Files) : reader[f] # "reading"
    /\ UNCHANGED vars

Next == \/ Main
        \/ Terminated
        \/ \E w \in Workers : Worker(w) \/ Panic(w)
        \/ \E f \in 1..Len(Files) : Reader(f) \/ ReadFault(f)

Spec == Init /\ [][Next]_vars
Fairness == /\ WF_vars(Main)
            /\ \A w \in Workers : WF_vars(Worker(w))
            /\ \A f \in 1..Len(Files) : WF_vars(Reader(f))
LiveSpec == Spec /\ Fairness

-----------------------------------------------------------------------------
Panicked == {w \in Workers : wpc[w] = "panicked"}
Busy == {w \in Workers : wpc[w] \in {"work", "send"}}
Carried == [line : Lines, row : BOOLEAN]

\* Types of the state; a worker has a job exactly while it works or sends.
TypeOK ==
    /\ pc \in {"open", "fill", "send", "handle", "join", "finished", "failed", "panicked"}
    /\ file \in 0..Len(Files) /\ exhausted \in BOOLEAN
    /\ hold \in Carried \union {None} /\ (hold # None <=> pc \in {"send", "handle"})
    /\ inFlight \in 0..Slots /\ sent \in 0..Limit /\ base \in BOOLEAN
    /\ reader \in [1..Len(Files) -> {"unborn", "reading", "ended"}]
    /\ readPos \in [1..Len(Files) -> Nat] /\ taken \in Nat
    /\ lineCh \in Seq(Lines) /\ lineOpen \in BOOLEAN /\ doneCh \in Seq(Carried)
    /\ wpc \in [Workers -> {"lock", "recv", "work", "send", "ended", "panicked"}]
    /\ lock \in Workers \union {None}
    /\ job \in [Workers -> Carried \union {None}]
    /\ faults \in 0..MaxFaults /\ err \in BOOLEAN
    /\ catIds \in [Titles -> CatId \union {0}] /\ catRows \in [CatId -> Lines \union {None}]
    /\ minted \in 0..Cardinality(Titles)
    /\ rows \subseteq [id : CatId, from : Lines \union {None}]
    /\ terms \subseteq [page : CatId, category : CatId]
    /\ skipped \subseteq Lines /\ replaced \subseteq Lines

\* What is in the channels and in the workers' hands is within what the main
\* thread counts as in flight, so neither channel of the pool is ever full when
\* something is sent to it: the main thread never blocks on the workers it
\* feeds, and the workers can hand in every result, also when the main thread
\* has left with an error and only waits for them to end.
SendsNeverBlock ==
    /\ pc = "send" => Len(lineCh) < Slots
    /\ \A w \in Workers : wpc[w] = "send" => Len(doneCh) < Slots

\* The counting behind it, inductive: what the channels and the workers hold
\* is counted in flight, and what is in flight is within the slots.
Place == Nat \X Nat
FlightTypes ==
    /\ pc \in {"open", "fill", "send", "handle", "join", "finished", "failed", "panicked"}
    /\ file \in Nat /\ taken \in Nat /\ base \in BOOLEAN
    /\ wpc \in [Workers -> {"lock", "recv", "work", "send", "ended", "panicked"}]
    /\ lineCh \in Seq(Place) /\ doneCh \in Seq([line : Place, row : BOOLEAN])
    /\ inFlight \in 0..Slots
FlightHeld ==
    /\ pc = "send" => hold \in [line : Place, row : BOOLEAN]
    /\ \A w \in Busy : job[w] \in [line : Place, row : BOOLEAN]
    /\ DOMAIN job = Workers
FlightCounted ==
    /\ Len(lineCh) + Cardinality(Busy) + Len(doneCh) <= inFlight
    /\ pc = "send" => inFlight < Slots
FlightInv == FlightTypes /\ FlightHeld /\ FlightCounted

\* A finished ingest has written one row per id, and every term leads from a
\* row to a row.
StoreConsistent ==
    pc = "finished" =>
        /\ \A r, s \in rows : r.id = s.id => r = s
        /\ \A t \in terms : {t.page, t.category} \subseteq {r.id : r \in rows}

\* The lines the main thread took, up to the limit over all files, are each
\* written, kept back, replaced or counted as skipped once the ingest is done,
\* none lost on the way and none twice.
Landed == {r.from : r \in rows} \ {None}
EveryLineLands ==
    pc = "finished" =>
        Cardinality(Landed) + Cardinality(skipped) + Cardinality(replaced) = sent

\* Only a record without the fields a row needs is skipped, a page whose id has
\* a row, or a category for whose title another record was kept; a dump that
\* starts with bad records is read like any other.
Kept == Landed \union replaced \union ({catRows[i] : i \in CatId} \ {None})
SkippedForCause ==
    \A l \in skipped :
        \/ Rec(l).kind = "bad"
        \/ /\ Rec(l).kind = "page"
           /\ \E m \in Kept : Rec(m).kind = "page" /\ Rec(m).id = Rec(l).id
        \/ /\ Rec(l).kind = "category" /\ catIds[Rec(l).title] # 0
           /\ \E m \in Kept : Rec(m).kind = "category" /\ catIds[Rec(m).title] = catIds[Rec(l).title]

\* "the later modification wins": of the records kept and met for a category
\* id, whatever the order they arrived in, the latest modified is the row.
LaterModificationWins ==
    \A i \in CatId : catRows[i] # None =>
        \A l \in skipped \union replaced :
            (Rec(l).kind = "category" /\ catIds[Rec(l).title] = i)
                => Rec(l).modified <= Rec(catRows[i]).modified

\* The ingest ends, with a summary or an error, unless a worker panics; and so
\* do its threads.
Ends == <>[](\/ Panicked # {}
             \/ /\ Ended
                /\ \A w \in Workers : wpc[w] = "ended"
                /\ \A f \in 1..Len(Files) : reader[f] # "reading")

(***************************************************************************)
(* What a comment of the code says, and a run of the model refutes.        *)
(***************************************************************************)

\* "A renamed page appears twice under one identifier: the later modification
\* wins": no two category rows are written for one page of the dump.
RenamedOnce ==
    pc = "finished" =>
        \A r, s \in rows : (/\ r.from # None /\ s.from # None
                            /\ Rec(r.from).kind = "category"
                            /\ Rec(s.from).kind = "category"
                            /\ Rec(r.from).id = Rec(s.from).id) => r = s
=============================================================================
