---------------------------- MODULE SessionStore ----------------------------
(***************************************************************************)
(* Sessions of quai --daemon over one set of sources.  Each is a process;  *)
(* all of them keep their table and their line number in the one file that *)
(* the sources name (quarb-session/src/store.rs), read when a session      *)
(* starts and rewritten, with no lock and no rename, after every line.     *)
(***************************************************************************)
EXTENDS Session

CONSTANTS Procs,      \* the processes
          Starts,     \* what a start may seed: sequences of libraries
          Asks,       \* the texts users ask
          Defs,       \* the definitions they type
          MaxStarts,  \* bound: sessions started in all
          MaxFaults,  \* bound: cut saves and crashes in all
          NoState     \* the file is missing, or emptied and not yet written

ASSUME FaultsAssumption == MaxFaults \in Nat /\ MaxStarts \in Nat
ASSUME TypedAssumption == Asks \subseteq Texts /\ Defs \subseteq Definitions
ASSUME StartsAssumption == Starts \subseteq Seq({t \in Tables : WellFormed(t)})
ASSUME NoStateAssumption == NoState \notin [defs : Tables, ragged : BOOLEAN, no : 1..(MaxNo + 1)]

VARIABLES phase,   \* where each process is
          sess,    \* its session
          queue,   \* the libraries it still has to seed
          file,    \* what the file holds
          starts,  \* sessions started so far
          faults,  \* faults so far
          told,    \* history: per process, the lines its user was told can be referred to
          kept,    \* history: the numbers of those lines, of all processes
          used,    \* history: the numbers users have seen taken
          loss     \* history: what may have cost the file some of them

vars == <<phase, sess, queue, file, starts, faults, told, kept, used, loss>>
history == <<told, kept, used, loss>>

Images == [defs : Tables, ragged : BOOLEAN, no : 1..(MaxNo + 1)]
Causes == {"race", "seed", "cut"}
Libraries == {t \in Tables : WellFormed(t)}

TypeOK ==
    /\ phase \in [Procs -> {"off", "seeding", "idle", "writing"}]
    /\ sess \in [Procs -> Sessions]
    /\ queue \in [Procs -> Seq(Libraries)]
    /\ file \in Images \union {NoState}
    /\ starts \in 0..MaxStarts /\ faults \in 0..MaxFaults
    /\ told \in [Procs -> SUBSET (Labels \X Texts)]
    /\ kept \subseteq Labels /\ used \subseteq Labels /\ loss \subseteq Causes

Init == /\ phase = [p \in Procs |-> "off"]
        /\ sess = [p \in Procs |-> Fresh]
        /\ queue = [p \in Procs |-> <<>>]
        /\ file = NoState /\ starts = 0 /\ faults = 0
        /\ told = [p \in Procs |-> {}] /\ kept = {} /\ used = {} /\ loss = {}

Saving(s, defs) == [defs |-> defs, ragged |-> s.ragged, no |-> s.no]
Image(s) == Saving(s, s.defs)

\* load().unwrap_or_default(), the number at least 1; the answers are not kept.
\* Mutant: the table is not restored.
MutLoadedNumber(f) == IF f = NoState THEN Fresh ELSE [Fresh EXCEPT !.no = f.no]
\* Mutant: the number is not restored.
MutLoadedTable(f) == IF f = NoState THEN Fresh
                     ELSE [Fresh EXCEPT !.defs = f.defs, !.ragged = f.ragged]
Loaded(f) == IF f = NoState THEN Fresh
             ELSE [defs |-> f.defs, ragged |-> f.ragged, no |-> f.no, snaps |-> NoSnaps]

Running(p) == phase[p] # "off"
Alone(p) == \A q \in Procs \ {p} : ~Running(q)

Start(p) ==
    /\ phase[p] = "off" /\ starts < MaxStarts
    /\ starts' = starts + 1
    /\ sess' = [sess EXCEPT ![p] = Loaded(file)]
    /\ \E q \in Starts : /\ queue' = [queue EXCEPT ![p] = q]
                         /\ phase' = [phase EXCEPT ![p] = IF q = <<>> THEN "idle" ELSE "seeding"]
    /\ told' = [told EXCEPT ![p] = {}]
    /\ loss' = IF Alone(p) THEN loss ELSE loss \union {"race"}
    /\ UNCHANGED <<file, faults, kept, used>>

\* persist: an operation ends by emptying the file; the text follows.
Persist(p, s) == /\ sess' = [sess EXCEPT ![p] = s]
                 /\ phase' = [phase EXCEPT ![p] = "writing"]
                 /\ file' = NoState
                 /\ UNCHANGED <<starts, faults>>

\* The definitions of the model, then those of --defs.
Seed(p) ==
    /\ phase[p] = "seeding"
    /\ Persist(p, Seeded(sess[p], Head(queue[p])))
    /\ queue' = [queue EXCEPT ![p] = Tail(@)]
    /\ loss' = IF sess[p].defs = <<>> THEN loss ELSE loss \union {"seed"}
    /\ UNCHANGED <<told, kept, used>>

\* A line between lines of the session, which takes the number s.no.
Take(p, s) == /\ phase[p] = "idle" /\ sess[p].no <= MaxNo
              /\ Persist(p, s)
              /\ used' = used \union {sess[p].no}
              /\ UNCHANGED <<queue, loss>>

\* A line that is answered; one that is refused or fails commits nothing.
Ask(p, uses, text) ==
    LET s == sess[p] IN
    /\ Readable(s, uses)
    /\ Take(p, Committed(s, uses, text, text))
    /\ IF Referenceable(s, uses, text)
       THEN /\ told' = [told EXCEPT ![p] = @ \union {<<s.no, text>>}]
            /\ kept' = kept \union {s.no}
       ELSE UNCHANGED <<told, kept>>

\* &n#
Replay(p, n) == /\ sess[p].snaps[n] # None
                /\ Take(p, Replayed(sess[p], n))
                /\ UNCHANGED <<told, kept>>

\* def &x: ... ;
Define(p, d) == /\ Admits(sess[p], d)
                /\ Take(p, Extended(sess[p], d))
                /\ UNCHANGED <<told, kept>>

\* :reset
Reset(p) == /\ phase[p] = "idle"
            /\ Persist(p, Cleared(sess[p]))
            /\ told' = [told EXCEPT ![p] = {}] /\ kept' = {} /\ used' = {}
            /\ UNCHANGED <<queue, loss>>

Saved(p) == phase' = [phase EXCEPT ![p] = IF queue[p] # <<>> THEN "seeding" ELSE "idle"]

\* A file cut or overlaid inside a definition: no line parses behind its text.
Torn(s) == [defs |-> <<>>, ragged |-> TRUE, no |-> s.no]

\* The text is written from the first byte; a longer text that another session
\* wrote in between keeps its tail, cut at a definition or inside one.
Overlaid(f, s) ==
    {Image(s)} \union
    IF f \in {NoState, Image(s)} THEN {}
    ELSE {Torn(s)} \union
         {Saving(s, s.defs \o SubSeq(f.defs, k, Len(f.defs))) : k \in DOMAIN f.defs}
Write(p) ==
    /\ phase[p] = "writing"
    /\ file' \in Overlaid(file, sess[p])
    /\ Saved(p)
    /\ UNCHANGED <<sess, queue, starts, faults, history>>

\* The disk is full: what was written stays, and the error is dropped.
Cuts(s) == {NoState} \union (IF s.defs = <<>> THEN {} ELSE {Torn(s)}) \union
           {Saving(s, SubSeq(s.defs, 1, k)) : k \in 0..Len(s.defs)}
WriteCut(p) ==
    /\ phase[p] = "writing" /\ faults < MaxFaults
    /\ file' \in Cuts(sess[p])
    /\ Saved(p)
    /\ faults' = faults + 1 /\ loss' = loss \union {"cut"}
    /\ UNCHANGED <<sess, queue, starts, told, kept, used>>

Off(p) == /\ phase' = [phase EXCEPT ![p] = "off"]
          /\ sess' = [sess EXCEPT ![p] = Fresh]
          /\ queue' = [queue EXCEPT ![p] = <<>>]
          /\ told' = [told EXCEPT ![p] = {}]

Quit(p) == phase[p] = "idle" /\ Off(p) /\ UNCHANGED <<file, starts, faults, kept, used, loss>>

\* Killed while it starts or saves; killed between lines, it has quit.
Crash(p) ==
    /\ phase[p] \in {"seeding", "writing"} /\ faults < MaxFaults
    /\ Off(p)
    /\ faults' = faults + 1
    /\ loss' = IF phase[p] = "writing" THEN loss \union {"cut"} ELSE loss
    /\ UNCHANGED <<file, starts, kept, used>>

Line(p) == \/ \E u \in Names \union {None}, t \in Asks : Ask(p, u, t)
           \/ \E n \in Labels : Replay(p, n)
           \/ \E d \in Defs : Define(p, d)
           \/ Reset(p)
Step(p) == Start(p) \/ Seed(p) \/ Line(p) \/ Write(p) \/ WriteCut(p) \/ Quit(p) \/ Crash(p)
Next == \E p \in Procs : Step(p)

Spec == Init /\ [][Next]_vars
-----------------------------------------------------------------------------
Resolves(t, n, text) == \E i \in DOMAIN t : t[i].name = n /\ t[i].text = text

\* What a user was told is referenceable stays so, and means what it said, until
\* the session ends or is reset: session.rs commit and add_def extend the table
\* and re-check the whole of it, whatever the other sessions do to the file.
LabelsHold == \A p \in Procs : \A l \in told[p] :
                 /\ Resolves(sess[p].defs, l[1], l[2])
                 /\ ~sess[p].ragged /\ WellFormed(sess[p].defs)

\* No operation leaves a table that the next line cannot be read with: a session
\* whose every line fails started from a file that a cut save or an overlapping
\* one had left in pieces.
Broken(f) == f.ragged \/ ~WellFormed(f.defs)
TablesParse == /\ \A p \in Procs : Broken(sess[p]) => loss \cap {"cut", "race"} # {}
               /\ file # NoState => (Broken(file) => loss \cap {"cut", "race"} # {})

\* Restarting quai over the same sources restores its &N history (store.rs:34),
\* unless a library was seeded over it, two sessions overlapped or a save was cut:
\* once no save is under way the file has every line users were told of.
HistoryResumes ==
    (loss = {} /\ kept # {} /\ \A p \in Procs : phase[p] # "writing")
       => file # NoState /\ kept \subseteq Defined(file.defs)

\* A number is taken once: the next line's number is above those users saw taken,
\* in the file while no save is under way and in every session.
NumbersAreFresh ==
    loss \subseteq {"seed"} =>
       \A n \in used : /\ \A p \in Procs : Running(p) => n < sess[p].no
                       /\ (\A p \in Procs : phase[p] # "writing") => file # NoState /\ n < file.no
=============================================================================
