------------------------------ MODULE AstCache ------------------------------
(***************************************************************************)
(* The cache of syntax trees (quarb-tree-sitter/src/ast_cache.rs, and      *)
(* parse in lib.rs): files on a disk that processes share, written by      *)
(* builds of different grammars.  A parse first reads the file that its    *)
(* content and its grammar name and decodes it, or else parses and stores, *)
(* by a temporary file and a rename.                                       *)
(*                                                                         *)
(* Contents stand for their hashes and bytes for what they encode: the     *)
(* header, and one record per node.  A file that was cut short fails its   *)
(* checksum.                                                               *)
(***************************************************************************)
EXTENDS Integers, Sequences

CONSTANTS Procs,      \* processes that parse
          Grammars,   \* builds of the grammars: what the header's fingerprint tells apart
          Contents,   \* source texts
          Directory,  \* where a grammar's entries lie: its language and part of its digest
          Length,     \* the length of each text
          Symbols,    \* the kinds and field names that a grammar's tables give back
          Trees,      \* what parsers can return: sequences of nodes, each after its parent
          Parses,     \* what the grammars can make of the contents
          MaxFaults,  \* bound: files lost, cut short or misplaced
          None, Torn

Node == [kind : STRING, field : STRING \union {None}, parent : Nat \union {None},
         start : Nat, end : Nat, line : Nat, endLine : Nat]

ASSUME LengthAssumption == Length \in [Contents -> Nat]
ASSUME TreesAssumption ==
    /\ Trees \subseteq Seq(Node)
    /\ \A t \in Trees : \A i \in DOMAIN t :
          IF i = 1 THEN t[i].parent = None ELSE t[i].parent \in 1..(i - 1)
ASSUME ParsesAssumption ==
    /\ Parses \subseteq [Grammars \X Contents -> Trees]
    /\ \A q \in Parses, g \in Grammars, c \in Contents :
          \A i \in DOMAIN q[<<g, c>>] : q[<<g, c>>][i].end <= Length[c]
ASSUME FaultsAssumption == MaxFaults \in Nat

VARIABLES parsed,  \* what each grammar makes of each content
          file,    \* what each path holds
          grammar, \* the grammar each process is built with
          task,    \* the content it is asked for, or None
          phase,   \* where its parse is
          nodes,   \* the tree it has, once it has one
          temp,    \* the temporary file it has written
          faults

vars == <<parsed, file, grammar, task, phase, nodes, temp, faults>>

Paths == {Directory[g] : g \in Grammars} \X Contents
Path(p) == <<Directory[grammar[p]], task[p]>>
Prior(t, i) == IF i = 1 THEN [start |-> 0, line |-> 0] ELSE t[i - 1]

\* A record holds differences: to the parent's index, to the start and the line of
\* the node before, to its own start and line.
Record(t, i) ==
    [up |-> IF t[i].parent = None THEN 0 ELSE i - t[i].parent,
     kind |-> t[i].kind, field |-> t[i].field,
     start |-> t[i].start - Prior(t, i).start, length |-> t[i].end - t[i].start,
     line |-> t[i].line - Prior(t, i).line, span |-> t[i].endLine - t[i].line]

\* Differences are written without a sign and names by their number in the tables.
Encodable(t) == \A i \in DOMAIN t :
                   LET r == Record(t, i) IN
                   /\ r.kind \in Symbols /\ r.field \in Symbols \union {None}
                   /\ r.up >= 0 /\ r.start >= 0 /\ r.length >= 0 /\ r.line >= 0 /\ r.span >= 0

Image(g, c, t) == [grammar |-> g, content |-> c, length |-> Length[c],
                   records |-> [i \in DOMAIN t |-> Record(t, i)]]

ASSUME SentinelAssumption ==
    /\ None \notin Nat \union Contents \union Trees /\ Torn # None
    /\ \A t \in Trees, g \in Grammars, c \in Contents : Image(g, c, t) \notin {None, Torn}

\* The nodes of an image: starts and lines are the sums of their differences.
Summed(r, key) == LET s[i \in 0..Len(r)] == IF i = 0 THEN 0 ELSE s[i - 1] + r[i][key] IN s
Decoded(image) ==
    LET r == image.records
        start == Summed(r, "start")
        line == Summed(r, "line")
    IN [i \in DOMAIN r |->
          [kind |-> r[i].kind, field |-> r[i].field,
           parent |-> IF i = 1 THEN None ELSE i - r[i].up,
           start |-> start[i], end |-> start[i] + r[i].length,
           line |-> line[i], endLine |-> line[i] + r[i].span]]

\* decode refuses a file that is not whole, of another grammar, of another content,
\* or whose records do not describe a tree over it.
\* Mutants: the fingerprint, or the content, is left to the path.
MutMatchesAnyBuild(image, g, c) == image.content = c /\ image.length = Length[c]
MutMatchesAnyText(image, g, c) == image.grammar = g
Matches(image, g, c) == image.grammar = g /\ image.content = c /\ image.length = Length[c]
\* Mutant: the node before is not taken for a parent.
MutSound(image, c) ==
    \A i \in DOMAIN image.records :
       /\ IF i = 1 THEN image.records[i].up = 0 ELSE image.records[i].up \in 2..(i - 1)
       /\ Decoded(image)[i].end <= Length[c]
Sound(image, c) ==
    \A i \in DOMAIN image.records :
       /\ IF i = 1 THEN image.records[i].up = 0 ELSE image.records[i].up \in 1..(i - 1)
       /\ Decoded(image)[i].end <= Length[c]
Accepts(f, g, c) == f \notin {None, Torn} /\ Matches(f, g, c) /\ Sound(f, c)

Images == {Image(g, c, parsed[<<g, c>>]) : g \in Grammars, c \in Contents}

TypeOK ==
    /\ parsed \in Parses
    /\ file \in [Paths -> Images \union {None, Torn}]
    /\ grammar \in [Procs -> Grammars]
    /\ task \in [Procs -> Contents \union {None}]
    /\ phase \in [Procs -> {"idle", "load", "parse", "store", "rename", "answer"}]
    /\ nodes \in [Procs -> Trees \union {None}]
    /\ temp \in [Procs -> Images \union {None}]
    /\ faults \in 0..MaxFaults

Init == /\ parsed \in Parses
        /\ file = [f \in Paths |-> None]
        /\ grammar \in [Procs -> Grammars]
        /\ task = [p \in Procs |-> None] /\ phase = [p \in Procs |-> "idle"]
        /\ nodes = [p \in Procs |-> None] /\ temp = [p \in Procs |-> None]
        /\ faults = 0

At(p, here, next) == phase[p] = here /\ phase' = [phase EXCEPT ![p] = next]

Ask(p, c) == /\ At(p, "idle", "load")
             /\ task' = [task EXCEPT ![p] = c]
             /\ UNCHANGED <<parsed, file, grammar, nodes, temp, faults>>

\* load: one read of one file, which a rename replaces whole.
Hit(p) == /\ At(p, "load", "answer")
          /\ Accepts(file[Path(p)], grammar[p], task[p])
          /\ nodes' = [nodes EXCEPT ![p] = Decoded(file[Path(p)])]
          /\ UNCHANGED <<parsed, file, grammar, task, temp, faults>>
Miss(p) == /\ At(p, "load", "parse")
           /\ ~Accepts(file[Path(p)], grammar[p], task[p])
           /\ UNCHANGED <<parsed, file, grammar, task, nodes, temp, faults>>

\* parse_raw
Parse(p) == /\ At(p, "parse", "store")
            /\ nodes' = [nodes EXCEPT ![p] = parsed[<<grammar[p], task[p]>>]]
            /\ UNCHANGED <<parsed, file, grammar, task, temp, faults>>

\* store: a tree that cannot be encoded, a directory that cannot be made, a temporary
\* file that cannot be written: silently nothing.
\* Mutant: the file is written where readers look for it.
MutWrite(p) == /\ At(p, "store", "rename")
               /\ Encodable(nodes[p])
               /\ temp' = [temp EXCEPT ![p] = Image(grammar[p], task[p], nodes[p])]
               /\ file' = [file EXCEPT ![Path(p)] = Torn]
               /\ UNCHANGED <<parsed, grammar, task, nodes, faults>>
Write(p) == /\ At(p, "store", "rename")
            /\ Encodable(nodes[p])
            /\ temp' = [temp EXCEPT ![p] = Image(grammar[p], task[p], nodes[p])]
            /\ UNCHANGED <<parsed, file, grammar, task, nodes, faults>>
GiveUp(p) == /\ phase[p] \in {"store", "rename"}
             /\ phase' = [phase EXCEPT ![p] = "answer"]
             /\ temp' = [temp EXCEPT ![p] = None]
             /\ UNCHANGED <<parsed, file, grammar, task, nodes, faults>>
Rename(p) == /\ At(p, "rename", "answer")
             /\ file' = [file EXCEPT ![Path(p)] = temp[p]]
             /\ temp' = [temp EXCEPT ![p] = None]
             /\ UNCHANGED <<parsed, grammar, task, nodes, faults>>

\* The parse returns; or the process ends, at any point of it, and another build of
\* the program is started in its place.
Over(p) == /\ phase' = [phase EXCEPT ![p] = "idle"] /\ task' = [task EXCEPT ![p] = None]
           /\ nodes' = [nodes EXCEPT ![p] = None] /\ temp' = [temp EXCEPT ![p] = None]
Return(p) == phase[p] = "answer" /\ Over(p) /\ UNCHANGED <<parsed, file, grammar, faults>>
Restart(p) == /\ Over(p)
              /\ \E g \in Grammars : grammar' = [grammar EXCEPT ![p] = g]
              /\ UNCHANGED <<parsed, file, faults>>

\* The disk: a file is removed, is short after a power loss (it was renamed and never
\* synced), or a whole one is copied to a path that is not its own.
Fault(f) == /\ faults < MaxFaults /\ faults' = faults + 1 /\ file[f] # None
            /\ \/ file' = [file EXCEPT ![f] = None]
               \/ file' = [file EXCEPT ![f] = Torn]
               \/ \E e \in Paths : file' = [file EXCEPT ![e] = file[f]]
            /\ UNCHANGED <<parsed, grammar, task, phase, nodes, temp>>

Step(p) == \/ \E c \in Contents : Ask(p, c)
           \/ Hit(p) \/ Miss(p) \/ Parse(p) \/ Write(p) \/ GiveUp(p) \/ Rename(p) \/ Return(p)
Next == \/ \E p \in Procs : Step(p) \/ Restart(p)
        \/ \E f \in Paths : Fault(f)

Spec == Init /\ [][Next]_vars

-----------------------------------------------------------------------------
\* Caching is transparent: a parse returns what its own grammar makes of its own
\* content, whatever other processes, other builds and the disk did to the files
\* (ast_cache.rs:6-13, "a corrupt, truncated, or stale cache file can never produce
\* a wrong answer").
Transparent == \A p \in Procs : phase[p] = "answer" => nodes[p] = parsed[<<grammar[p], task[p]>>]

\* A file that is accepted was written by a process of the same grammar, for the
\* same content (decode's fingerprint and content checks over a path that holds
\* eight digits of the digest).
OnlyOwnAccepted == \A f \in Paths, g \in Grammars, c \in Contents :
    Accepts(file[f], g, c) => file[f] = Image(g, c, parsed[<<g, c>>])

\* A reader sees a whole file or none: a torn one is the disk's doing, never that of
\* a writer another one overlaps or that ends halfway (ast_cache.rs store).
TornByTheDisk == faults = 0 => \A f \in Paths : file[f] # Torn

\* What was stored is found: an image in its own place is never refused, so that
\* the cache is of use (encode and decode agree on what a tree is).
StoredIsFound == \A f \in Paths : LET i == file[f] IN
    (i \in Images /\ f = <<Directory[i.grammar], i.content>>) => Accepts(i, i.grammar, i.content)
=============================================================================
