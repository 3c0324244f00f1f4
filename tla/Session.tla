------------------------------ MODULE Session ------------------------------
(***************************************************************************)
(* The session object (quarb-session/src/session.rs) as a value, and what  *)
(* each of its operations makes of it.                                     *)
(*                                                                         *)
(* A session keeps a table of definitions, the number the next line will   *)
(* take and, per line, the answer it gave.  An accepted line becomes the   *)
(* definition &N of its own number; a text is a model value, of which only *)
(* the name it uses and whether it can be a macro body matter.             *)
(***************************************************************************)
EXTENDS Naturals, Sequences

CONSTANTS Frags,   \* names a user or a library gives to fragments
          Texts,   \* what a line says
          Bodies,  \* the texts that can be the body of a macro
          MaxNo,   \* bound: lines are numbered up to it
          Blank,   \* the answer of a definition, of a model cell, of a cell that failed
          None

Labels == 1..MaxNo
Names == Labels \union Frags

ASSUME TextsAssumption == Bodies \subseteq Texts
ASSUME BoundAssumption == MaxNo \in Nat
ASSUME NamesAssumption == /\ Frags \cap Labels = {} /\ None \notin Names
                          /\ None \notin Texts \union {Blank} /\ Blank \notin Texts

Definitions == [name : Names, uses : Names \union {None}, text : Bodies]
Tables == Seq(Definitions)
Answers == Texts \union {Blank}
Sessions == [defs : Tables, ragged : BOOLEAN, no : 1..(MaxNo + 1),
             snaps : [Labels -> Answers \union {None}]]

Defined(t) == {t[i].name : i \in DOMAIN t}

\* parse_defs: names are given once, and a body uses what is defined above it.
WellFormed(t) ==
    \A i \in DOMAIN t :
        /\ \A j \in 1..(i - 1) : t[j].name # t[i].name
        /\ t[i].uses # None => \E j \in 1..(i - 1) : t[j].name = t[i].uses

NoSnaps == [n \in Labels |-> None]
Fresh == [defs |-> <<>>, ragged |-> FALSE, no |-> 1, snaps |-> NoSnaps]

\* The table in front of a line parses, and so does the line.
Readable(s, uses) == /\ ~s.ragged /\ WellFormed(s.defs)
                     /\ uses # None => uses \in Defined(s.defs)

\* The table with the line as its last definition, when that still parses.
Labelled(s, uses, text) ==
    Append(s.defs, [name |-> s.no, uses |-> uses, text |-> text])
\* Mutant: the table is not read again with the line.
MutReferenceable(s, uses, text) == text \in Bodies /\ ~s.ragged
Referenceable(s, uses, text) ==
    /\ text \in Bodies /\ ~s.ragged
    /\ WellFormed(Labelled(s, uses, text))

\* The answer is kept under the next number, whatever it was.
Numbered(s, defs, answer) ==
    [defs |-> defs, ragged |-> s.ragged, no |-> s.no + 1,
     snaps |-> [s.snaps EXCEPT ![s.no] = answer]]

Committed(s, uses, text, answer) ==
    Numbered(s, IF Referenceable(s, uses, text) THEN Labelled(s, uses, text) ELSE s.defs, answer)

\* A replayed line keeps its answer under a number of its own and defines nothing.
Replayed(s, n) == Numbered(s, s.defs, s.snaps[n])

\* A definition takes a number too, with an empty answer behind it.
\* Mutant: the definition is read, the table with it is not.
MutAdmits(s, d) == ~s.ragged /\ (d.uses # None => d.uses \in Defined(s.defs))
Admits(s, d) == ~s.ragged /\ WellFormed(Append(s.defs, d))
Extended(s, d) == Numbered(s, Append(s.defs, d), Blank)

\* A library takes the place of the whole table.
Seeded(s, lib) == [defs |-> lib, ragged |-> FALSE, no |-> s.no, snaps |-> s.snaps]

Cleared(s) == Fresh
=============================================================================
