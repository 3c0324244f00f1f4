--------------------------- MODULE AstCacheProofs ---------------------------
(***************************************************************************)
(* Proofs about the cache of syntax trees (AstCache): the codec gives every *)
(* tree back, a file that is accepted is the reader's own, and caching is   *)
(* transparent, for any processes, grammars, texts, trees and faults.       *)
(*                                                                          *)
(* What a recursive function computes is proved at the least argument at    *)
(* which it would differ, which a well-founded order has.                   *)
(***************************************************************************)
EXTENDS AstCache, TLAPS, WellFoundedInduction

\* A set of natural numbers that has a member has a least one.
LEMMA LeastNumber == ASSUME NEW T \in SUBSET Nat, T # {} PROVE \E x \in T : \A y \in T : x <= y
<1>1. IsWellFoundedOn(OpToRel(<, Nat), Nat)
  BY NatLessThanWellFounded, Zenon
<1>2. PICK x \in T : \A y \in T : ~ (<<y, x>> \in OpToRel(<, Nat))
  BY <1>1, WFMin, Zenon
<1>3. \A y \in T : ~(y < x)
  BY <1>2, Zenon DEF OpToRel
<1> QED
  BY <1>3

\* A function that satisfies the recursion of a sum is the sum.
LEMMA SummedIs ==
    ASSUME NEW r, NEW key, NEW n \in Nat, Len(r) = n, NEW g \in [0..n -> Int],
           \A i \in 1..n : r[i][key] \in Int,
           g[0] = 0, \A i \in 1..n : g[i] = g[i - 1] + r[i][key]
    PROVE  Summed(r, key) = g
<1> DEFINE s == Summed(r, key)
<1>1. g = [i \in 0..n |-> IF i = 0 THEN 0 ELSE g[i - 1] + r[i][key]]
  OBVIOUS
<1>2. s = [i \in 0..n |-> IF i = 0 THEN 0 ELSE s[i - 1] + r[i][key]]
  BY <1>1, Zenon DEF Summed
<1> HIDE DEF s
<1> DEFINE T == {i \in 0..n : s[i] # g[i]}
<1>3. CASE T = {}
  <2>1. \A i \in 0..n : s[i] = g[i]
    BY <1>3
  <2>2. s = [i \in 0..n |-> s[i]]
    BY <1>2
  <2>3. g = [i \in 0..n |-> g[i]]
    OBVIOUS
  <2>4. [i \in 0..n |-> s[i]] = [i \in 0..n |-> g[i]]
    BY <2>1
  <2> HIDE DEF T
  <2>5. s = g
    BY <2>2, <2>3, <2>4
  <2> QED
    BY <2>5 DEF s
<1>4. CASE T # {}
  <2>0. T \in SUBSET Nat
    OBVIOUS
  <2>1. PICK x \in T : \A y \in T : x <= y
    <3> HIDE DEF T
    <3> QED
      BY <1>4, <2>0, LeastNumber
  <2>2. x # 0
    BY <1>2, <2>1
  <2>3. x - 1 \in 0..n /\ x - 1 \notin T
    BY <2>1, <2>2
  <2>4. s[x - 1] = g[x - 1]
    BY <2>3
  <2>5. s[x] = s[x - 1] + r[x][key] /\ g[x] = g[x - 1] + r[x][key]
    BY <1>2, <2>1, <2>2
  <2> QED
    BY <2>1, <2>4, <2>5
<1> QED
  BY <1>3, <1>4 DEF s

\* The records of a tree, by field.
LEMMA RecordFields ==
    ASSUME NEW t, NEW i
    PROVE  /\ Record(t, i).up = (IF t[i].parent = None THEN 0 ELSE i - t[i].parent)
           /\ Record(t, i).kind = t[i].kind /\ Record(t, i).field = t[i].field
           /\ Record(t, i).start = t[i].start - Prior(t, i).start
           /\ Record(t, i).length = t[i].end - t[i].start
           /\ Record(t, i).line = t[i].line - Prior(t, i).line
           /\ Record(t, i).span = t[i].endLine - t[i].line
BY DEF Record

\* A tree is numbered from its root, and every other node comes after its parent.
LEMMA TreeNodes ==
    ASSUME NEW t \in Trees
    PROVE  /\ Len(t) \in Nat /\ DOMAIN t = 1..Len(t)
           /\ \A i \in 1..Len(t) :
                 /\ t[i] \in Node
                 /\ i = 1 => t[i].parent = None
                 /\ i # 1 => t[i].parent \in 1..(i - 1) /\ t[i].parent # None
<1>1. t \in Seq(Node)
  BY TreesAssumption
<1>2. Len(t) \in Nat /\ DOMAIN t = 1..Len(t) /\ \A i \in 1..Len(t) : t[i] \in Node
  BY <1>1
<1>3. \A i \in DOMAIN t : IF i = 1 THEN t[i].parent = None ELSE t[i].parent \in 1..(i - 1)
  BY TreesAssumption
<1> QED
  BY <1>2, <1>3, SentinelAssumption

\* Decoding gives back what was encoded.
LEMMA RoundTrip == ASSUME NEW t \in Trees, NEW g, NEW c PROVE Decoded(Image(g, c, t)) = t
<1> DEFINE n == Len(t)
           r == [i \in 1..n |-> Record(t, i)]
           starts == [i \in 0..n |-> IF i = 0 THEN 0 ELSE t[i].start]
           lines == [i \in 0..n |-> IF i = 0 THEN 0 ELSE t[i].line]
<1>1. /\ n \in Nat /\ DOMAIN t = 1..n
      /\ \A i \in 1..n : t[i] \in Node
  BY TreeNodes
<1>2. Image(g, c, t).records = r
  BY <1>1 DEF Image
<1>3. Len(r) = n /\ DOMAIN r = 1..n /\ \A i \in 1..n : r[i] = Record(t, i)
  BY <1>1
<1>4. \A i \in 1..n : /\ t[i].start \in Nat /\ t[i].line \in Nat /\ t[i].end \in Nat /\ t[i].endLine \in Nat
                      /\ i # 1 => i - 1 \in 1..n
  BY <1>1 DEF Node
<1>5. Summed(r, "start") = starts
  <2>1. \A i \in 1..n : r[i]["start"] = t[i].start - (IF i = 1 THEN 0 ELSE t[i - 1].start)
    BY <1>3, RecordFields DEF Prior
  <2>2. starts \in [0..n -> Int] /\ starts[0] = 0
    BY <1>1, <1>4
  <2>3. \A i \in 1..n : r[i]["start"] \in Int /\ starts[i] = starts[i - 1] + r[i]["start"]
    BY <1>1, <1>4, <2>1
  <2> HIDE DEF r, starts
  <2> QED
    BY <1>1, <1>3, <2>2, <2>3, SummedIs
<1>6. Summed(r, "line") = lines
  <2>1. \A i \in 1..n : r[i]["line"] = t[i].line - (IF i = 1 THEN 0 ELSE t[i - 1].line)
    BY <1>3, RecordFields DEF Prior
  <2>2. lines \in [0..n -> Int] /\ lines[0] = 0
    BY <1>1, <1>4
  <2>3. \A i \in 1..n : r[i]["line"] \in Int /\ lines[i] = lines[i - 1] + r[i]["line"]
    BY <1>1, <1>4, <2>1
  <2> HIDE DEF r, lines
  <2> QED
    BY <1>1, <1>3, <2>2, <2>3, SummedIs
<1> DEFINE d == [i \in 1..n |-> [kind |-> r[i].kind, field |-> r[i].field,
                                 parent |-> IF i = 1 THEN None ELSE i - r[i].up,
                                 start |-> starts[i], end |-> starts[i] + r[i].length,
                                 line |-> lines[i], endLine |-> lines[i] + r[i].span]]
<1>7. Decoded(Image(g, c, t)) = d
  <2> HIDE DEF r, starts, lines
  <2> QED
    BY <1>2, <1>3, <1>5, <1>6 DEF Decoded
<1>8. ASSUME NEW i \in 1..n PROVE d[i] = t[i]
  <2>1. /\ r[i].kind = t[i].kind /\ r[i].field = t[i].field
        /\ r[i].length = t[i].end - t[i].start /\ r[i].span = t[i].endLine - t[i].line
        /\ r[i].up = (IF t[i].parent = None THEN 0 ELSE i - t[i].parent)
    BY <1>3, RecordFields
  <2>2. starts[i] = t[i].start /\ lines[i] = t[i].line
    BY <1>1
  <2>3. t[i].start + (t[i].end - t[i].start) = t[i].end /\ t[i].line + (t[i].endLine - t[i].line) = t[i].endLine
    BY <1>4
  <2>4. (IF i = 1 THEN None ELSE i - r[i].up) = t[i].parent
    <3>1. CASE i = 1
      BY <3>1, TreeNodes
    <3>2. CASE i # 1
      <4>1. t[i].parent \in 1..(i - 1) /\ t[i].parent # None
        BY <3>2, TreeNodes
      <4> QED
        BY <2>1, <3>2, <4>1
    <3> QED
      BY <3>1, <3>2
  <2>5. t[i] = [kind |-> t[i].kind, field |-> t[i].field, parent |-> t[i].parent, start |-> t[i].start,
                end |-> t[i].end, line |-> t[i].line, endLine |-> t[i].endLine]
    BY <1>1 DEF Node
  <2> HIDE DEF r, starts, lines
  <2>6. d[i] = [kind |-> t[i].kind, field |-> t[i].field, parent |-> t[i].parent, start |-> t[i].start,
                end |-> t[i].end, line |-> t[i].line, endLine |-> t[i].endLine]
    BY <2>1, <2>2, <2>3, <2>4
  <2> QED
    BY <2>5, <2>6
<1> HIDE DEF d
<1>9. DOMAIN d = 1..n /\ d = [i \in 1..n |-> d[i]]
  BY DEF d
<1>10. t = [i \in 1..n |-> t[i]]
  BY <1>1, TreesAssumption
<1> QED
  BY <1>7, <1>8, <1>9, <1>10

\* An image of a tree that lies within its text is accepted in its own name.
LEMMA OwnAccepted ==
    ASSUME NEW t \in Trees, NEW g \in Grammars, NEW c \in Contents, \A i \in DOMAIN t : t[i].end <= Length[c]
    PROVE  Accepts(Image(g, c, t), g, c)
<1> DEFINE m == Image(g, c, t)
<1>1. m \notin {None, Torn} /\ Matches(m, g, c)
  BY SentinelAssumption DEF Matches, Image
<1>2. DOMAIN m.records = DOMAIN t /\ \A i \in DOMAIN t : m.records[i] = Record(t, i)
  BY DEF Image
<1>3. ASSUME NEW i \in DOMAIN t
      PROVE  IF i = 1 THEN m.records[i].up = 0 ELSE m.records[i].up \in 1..(i - 1)
  <2>1. m.records[i].up = (IF t[i].parent = None THEN 0 ELSE i - t[i].parent)
    BY <1>2, RecordFields
  <2>2. CASE i = 1
    BY <2>1, <2>2, TreeNodes
  <2>3. CASE i # 1
    <3>1. i \in Nat /\ t[i].parent \in 1..(i - 1) /\ t[i].parent # None
      BY <2>3, TreeNodes
    <3> QED
      BY <2>1, <2>3, <3>1
  <2> QED
    BY <2>2, <2>3
<1>4. Decoded(m) = t
  BY RoundTrip
<1> HIDE DEF m
<1> QED
  BY <1>1, <1>2, <1>3, <1>4 DEF Accepts, Sound, m
-----------------------------------------------------------------------------
\* A parse is asked for a text, has the tree of its own text from the store on, and
\* has written its own image before the rename; no file is torn before a fault.
TaskAt(p) == phase[p] # "idle" => task[p] \in Contents
TreeAt(p) == phase[p] \in {"store", "rename", "answer"} => nodes[p] = parsed[<<grammar[p], task[p]>>]
TempAt(p) == phase[p] = "rename" => temp[p] = Image(grammar[p], task[p], parsed[<<grammar[p], task[p]>>])
ProcessAt(p) == TaskAt(p) /\ TreeAt(p) /\ TempAt(p)
CacheInv == TypeOK /\ (\A p \in Procs : ProcessAt(p)) /\ TornByTheDisk

\* What a grammar makes of a text is a tree over the text, and its image is one.
LEMMA ParsedType ==
    ASSUME TypeOK, NEW g \in Grammars, NEW c \in Contents
    PROVE  /\ parsed[<<g, c>>] \in Trees
           /\ \A i \in DOMAIN parsed[<<g, c>>] : parsed[<<g, c>>][i].end <= Length[c]
           /\ Image(g, c, parsed[<<g, c>>]) \in Images
<1>1. parsed \in Parses /\ parsed \in [Grammars \X Contents -> Trees]
  BY ParsesAssumption DEF TypeOK
<1>2. parsed[<<g, c>>] \in Trees /\ \A i \in DOMAIN parsed[<<g, c>>] : parsed[<<g, c>>][i].end <= Length[c]
  BY <1>1, ParsesAssumption
<1>3. Image(g, c, parsed[<<g, c>>]) \in Images
  BY DEF Images
<1> QED
  BY <1>2, <1>3

\* While the grammars stay, so do the images of what they parse.
LEMMA ImagesStay == ASSUME UNCHANGED parsed PROVE Images' = Images
BY DEF Images, Image, Record, Prior

\* A file that is accepted is the image that its own names give.
LEMMA AcceptedIsOwn ==
    ASSUME NEW f \in Images \union {None, Torn}, NEW g, NEW c, Accepts(f, g, c)
    PROVE  f = Image(g, c, parsed[<<g, c>>])
<1>1. PICK h \in Grammars, d \in Contents : f = Image(h, d, parsed[<<h, d>>])
  BY DEF Accepts, Images
<1>2. f.grammar = h /\ f.content = d
  BY <1>1 DEF Image
<1>3. f.grammar = g /\ f.content = c
  BY DEF Accepts, Matches
<1> QED
  BY <1>1, <1>2, <1>3

\* A process looks where its grammar and its text lie.
LEMMA PathType == ASSUME TypeOK, NEW p \in Procs, task[p] \in Contents PROVE Path(p) \in Paths
<1>1. grammar[p] \in Grammars
  BY DEF TypeOK
<1>2. Directory[grammar[p]] \in {Directory[g] : g \in Grammars}
  BY <1>1
<1> QED
  BY <1>2 DEF Path, Paths

\* The first state.
LEMMA CacheInit == Init => CacheInv
<1> SUFFICES ASSUME Init PROVE CacheInv
  OBVIOUS
<1>1. TypeOK
  BY FaultsAssumption DEF Init, TypeOK
<1>2. TornByTheDisk
  BY SentinelAssumption DEF Init, TornByTheDisk
<1>3. \A p \in Procs : ProcessAt(p)
  BY DEF Init, ProcessAt, TaskAt, TreeAt, TempAt
<1> QED
  BY <1>1, <1>2, <1>3 DEF CacheInv

\* What a process that a step leaves alone holds stays.
LEMMA CacheAlone ==
    ASSUME NEW q, ProcessAt(q), UNCHANGED parsed, grammar'[q] = grammar[q], task'[q] = task[q],
           phase'[q] = phase[q], nodes'[q] = nodes[q], temp'[q] = temp[q]
    PROVE  ProcessAt(q)'
BY DEF ProcessAt, TaskAt, TreeAt, TempAt

\* A step of one process: its own part is shown, the others' stays.
LEMMA CacheOthers ==
    ASSUME CacheInv, NEW p \in Procs, UNCHANGED parsed, ProcessAt(p)', TypeOK', TornByTheDisk',
           \A q \in Procs \ {p} : /\ grammar'[q] = grammar[q] /\ task'[q] = task[q] /\ phase'[q] = phase[q]
                                  /\ nodes'[q] = nodes[q] /\ temp'[q] = temp[q]
    PROVE  CacheInv'
<1>1. \A q \in Procs \ {p} : ProcessAt(q)'
  BY CacheAlone DEF CacheInv
<1> QED
  BY <1>1 DEF CacheInv

\* The question, the parse and the answers that need no file.
LEMMA CachePlain ==
    ASSUME CacheInv, NEW p \in Procs,
           (\E c \in Contents : Ask(p, c)) \/ Miss(p) \/ Parse(p) \/ GiveUp(p) \/ Return(p) \/ Restart(p)
    PROVE  CacheInv'
<1>0. TypeOK /\ ProcessAt(p) /\ UNCHANGED <<parsed, file, faults>> /\ (TornByTheDisk => TornByTheDisk')
  BY DEF CacheInv, Ask, Miss, Parse, GiveUp, Return, Restart, At, TornByTheDisk
<1>1. CASE \E c \in Contents : Ask(p, c)
  <2>1. TypeOK' /\ ProcessAt(p)'
    BY <1>0, <1>1, ImagesStay DEF TypeOK, ProcessAt, TaskAt, TreeAt, TempAt, Ask, At
  <2> QED
    BY <1>0, <1>1, <2>1, CacheOthers DEF CacheInv, TypeOK, Ask, At
<1>2. CASE Miss(p)
  <2>1. TypeOK' /\ ProcessAt(p)'
    BY <1>0, <1>2, ImagesStay DEF TypeOK, ProcessAt, TaskAt, TreeAt, TempAt, Miss, At
  <2> QED
    BY <1>0, <1>2, <2>1, CacheOthers DEF CacheInv, TypeOK, Miss, At
<1>3. CASE Parse(p)
  <2>1. grammar[p] \in Grammars /\ task[p] \in Contents
    BY <1>0, <1>3 DEF TypeOK, ProcessAt, TaskAt, Parse, At
  <2>2. parsed[<<grammar[p], task[p]>>] \in Trees
    BY <1>0, <2>1, ParsedType
  <2>3. TypeOK' /\ ProcessAt(p)'
    BY <1>0, <1>3, <2>1, <2>2, ImagesStay DEF TypeOK, ProcessAt, TaskAt, TreeAt, TempAt, Parse, At
  <2> QED
    BY <1>0, <1>3, <2>3, CacheOthers DEF CacheInv, TypeOK, Parse, At
<1>4. CASE GiveUp(p)
  <2>1. TypeOK' /\ ProcessAt(p)'
    BY <1>0, <1>4, ImagesStay DEF TypeOK, ProcessAt, TaskAt, TreeAt, TempAt, GiveUp
  <2> QED
    BY <1>0, <1>4, <2>1, CacheOthers DEF CacheInv, TypeOK, GiveUp
<1>5. CASE Return(p) \/ Restart(p)
  <2>1. TypeOK' /\ ProcessAt(p)'
    BY <1>0, <1>5, ImagesStay DEF TypeOK, ProcessAt, TaskAt, TreeAt, TempAt, Return, Restart, Over
  <2> QED
    BY <1>0, <1>5, <2>1, CacheOthers DEF CacheInv, TypeOK, Return, Restart, Over
<1> QED
  BY <1>1, <1>2, <1>3, <1>4, <1>5

\* A file that is accepted gives the tree that the parse would have made.
LEMMA CacheHit == ASSUME CacheInv, NEW p \in Procs, Hit(p) PROVE CacheInv'
<1>1. TypeOK /\ ProcessAt(p) /\ grammar[p] \in Grammars /\ task[p] \in Contents
  BY DEF CacheInv, TypeOK, ProcessAt, TaskAt, Hit, At
<1>2. file[Path(p)] \in Images \union {None, Torn}
  BY <1>1, PathType DEF TypeOK
<1>3. file[Path(p)] = Image(grammar[p], task[p], parsed[<<grammar[p], task[p]>>])
  BY <1>2, AcceptedIsOwn DEF Hit
<1>4. Decoded(file[Path(p)]) = parsed[<<grammar[p], task[p]>>] /\ parsed[<<grammar[p], task[p]>>] \in Trees
  BY <1>1, <1>3, ParsedType, RoundTrip
<1>5. /\ phase' = [phase EXCEPT ![p] = "answer"]
      /\ nodes' = [nodes EXCEPT ![p] = parsed[<<grammar[p], task[p]>>]]
      /\ UNCHANGED <<parsed, file, grammar, task, temp, faults>>
  BY <1>4 DEF Hit, At
<1>6. TypeOK' /\ ProcessAt(p)' /\ TornByTheDisk'
  BY <1>1, <1>4, <1>5, ImagesStay DEF CacheInv, TornByTheDisk, TypeOK, ProcessAt, TaskAt, TreeAt, TempAt
<1> QED
  BY <1>1, <1>5, <1>6, CacheOthers DEF TypeOK

\* The temporary file is the image of the parse's own tree.
LEMMA CacheWrite == ASSUME CacheInv, NEW p \in Procs, Write(p) PROVE CacheInv'
<1>1. TypeOK /\ ProcessAt(p) /\ grammar[p] \in Grammars /\ task[p] \in Contents
  BY DEF CacheInv, TypeOK, ProcessAt, TaskAt, Write, At
<1>2. nodes[p] = parsed[<<grammar[p], task[p]>>]
  BY <1>1 DEF ProcessAt, TreeAt, Write, At
<1> DEFINE m == Image(grammar[p], task[p], parsed[<<grammar[p], task[p]>>])
<1>3. m \in Images
  BY <1>1, ParsedType
<1>4. /\ phase' = [phase EXCEPT ![p] = "rename"] /\ temp' = [temp EXCEPT ![p] = m]
      /\ UNCHANGED <<parsed, file, grammar, task, nodes, faults>>
  BY <1>2 DEF Write, At
<1>5. ProcessAt(p)'
  <2>1. m' = m
    BY <1>4 DEF Image, Record, Prior
  <2> HIDE DEF m
  <2>2. temp'[p] = m /\ nodes'[p] = nodes[p] /\ task'[p] = task[p] /\ grammar'[p] = grammar[p]
    BY <1>1, <1>4 DEF TypeOK
  <2>3. TempAt(p)'
    BY <2>1, <2>2 DEF TempAt, m
  <2> QED
    BY <1>1, <1>2, <1>4, <2>2, <2>3 DEF ProcessAt, TaskAt, TreeAt
<1> HIDE DEF m
<1>6. TypeOK' /\ TornByTheDisk'
  BY <1>1, <1>3, <1>4, ImagesStay DEF CacheInv, TornByTheDisk, TypeOK
<1> QED
  BY <1>1, <1>4, <1>5, <1>6, CacheOthers DEF TypeOK

\* The rename puts a whole image in its place.
LEMMA CacheRename == ASSUME CacheInv, NEW p \in Procs, Rename(p) PROVE CacheInv'
<1>1. TypeOK /\ ProcessAt(p) /\ grammar[p] \in Grammars /\ task[p] \in Contents
  BY DEF CacheInv, TypeOK, ProcessAt, TaskAt, Rename, At
<1>2. temp[p] = Image(grammar[p], task[p], parsed[<<grammar[p], task[p]>>])
  BY <1>1 DEF ProcessAt, TempAt, Rename, At
<1>3. temp[p] \in Images /\ temp[p] # Torn
  BY <1>1, <1>2, ParsedType, SentinelAssumption
<1>4. /\ phase' = [phase EXCEPT ![p] = "answer"] /\ temp' = [temp EXCEPT ![p] = None]
      /\ file' = [file EXCEPT ![Path(p)] = temp[p]]
      /\ UNCHANGED <<parsed, grammar, task, nodes, faults>>
  BY DEF Rename, At
<1>5. ProcessAt(p)'
  BY <1>1, <1>4 DEF TypeOK, ProcessAt, TaskAt, TreeAt, TempAt, Rename, At
<1>6. TypeOK'
  BY <1>1, <1>3, <1>4, ImagesStay DEF TypeOK
<1>7. TornByTheDisk'
  BY <1>1, <1>3, <1>4 DEF CacheInv, TypeOK, TornByTheDisk, Paths
<1> QED
  BY <1>1, <1>4, <1>5, <1>6, <1>7, CacheOthers DEF TypeOK

\* The disk changes files only, and is counted.
LEMMA CacheFault == ASSUME CacheInv, NEW f \in Paths, Fault(f) PROVE CacheInv'
<1>1. TypeOK /\ UNCHANGED <<parsed, grammar, task, phase, nodes, temp>> /\ faults' = faults + 1 /\ faults < MaxFaults
  BY DEF CacheInv, Fault
<1>2. faults' \in 0..MaxFaults /\ faults' # 0
  BY <1>1, FaultsAssumption DEF TypeOK
<1>3. file' \in [Paths -> Images \union {None, Torn}]
  BY DEF CacheInv, TypeOK, Fault
<1>4. TypeOK'
  BY <1>1, <1>2, <1>3, ImagesStay DEF TypeOK
<1>5. \A p \in Procs : ProcessAt(p)'
  BY <1>1, CacheAlone DEF CacheInv
<1> QED
  BY <1>2, <1>4, <1>5 DEF CacheInv, TornByTheDisk

\* Every step keeps the invariant.
LEMMA CacheNext == CacheInv /\ [Next]_vars => CacheInv'
<1> SUFFICES ASSUME CacheInv, [Next]_vars PROVE CacheInv'
  OBVIOUS
<1>1. ASSUME NEW p \in Procs, Step(p) \/ Restart(p) PROVE CacheInv'
  BY <1>1, CachePlain, CacheHit, CacheWrite, CacheRename DEF Step
<1>2. ASSUME NEW f \in Paths, Fault(f) PROVE CacheInv'
  BY <1>2, CacheFault
<1>3. CASE UNCHANGED vars
  BY <1>3, ImagesStay DEF vars, CacheInv, TypeOK, ProcessAt, TaskAt, TreeAt, TempAt, TornByTheDisk
<1> QED
  BY <1>1, <1>2, <1>3 DEF Next

\* The invariant holds in every run.
LEMMA CacheAlways == Spec => []CacheInv
BY CacheInit, CacheNext, PTL DEF Spec

\* The state keeps its type: what is decoded is a tree, what lies on the disk an image.
THEOREM TypeCorrect == Spec => []TypeOK
<1>1. CacheInv => TypeOK
  BY DEF CacheInv
<1> QED
  BY <1>1, CacheAlways, PTL

\* Caching is transparent: every parse returns what its grammar makes of its text
\* (ast_cache.rs:6-13), for all trees, by the codec's round trip and the fingerprint.
THEOREM CachingIsTransparent == Spec => []Transparent
<1>1. CacheInv => Transparent
  BY DEF CacheInv, ProcessAt, TreeAt, Transparent
<1> QED
  BY <1>1, CacheAlways, PTL

\* A file that is accepted is the reader's own, whatever path it lies at.
THEOREM AcceptedAreOwn == Spec => []OnlyOwnAccepted
<1>1. CacheInv => OnlyOwnAccepted
  <2> SUFFICES ASSUME CacheInv, NEW f \in Paths, NEW g \in Grammars, NEW c \in Contents, Accepts(file[f], g, c)
               PROVE  file[f] = Image(g, c, parsed[<<g, c>>])
    BY DEF OnlyOwnAccepted
  <2>1. file[f] \in Images \union {None, Torn}
    BY DEF CacheInv, TypeOK
  <2> QED
    BY <2>1, AcceptedIsOwn
<1> QED
  BY <1>1, CacheAlways, PTL

\* No process leaves a torn file: the temporary file is renamed whole.
THEOREM WritersTearNothing == Spec => []TornByTheDisk
<1>1. CacheInv => TornByTheDisk
  BY DEF CacheInv
<1> QED
  BY <1>1, CacheAlways, PTL

\* What was stored is found again: no tree over its text is refused by the decoder.
THEOREM StoredAreFound == Spec => []StoredIsFound
<1>1. CacheInv => StoredIsFound
  <2> SUFFICES ASSUME CacheInv, NEW f \in Paths, file[f] \in Images
               PROVE  Accepts(file[f], file[f].grammar, file[f].content)
    BY DEF StoredIsFound
  <2>1. PICK g \in Grammars, c \in Contents : file[f] = Image(g, c, parsed[<<g, c>>])
    BY DEF Images
  <2>2. file[f].grammar = g /\ file[f].content = c
    BY <2>1 DEF Image
  <2>3. TypeOK
    BY DEF CacheInv
  <2> QED
    BY <2>1, <2>2, <2>3, ParsedType, OwnAccepted
<1> QED
  BY <1>1, CacheAlways, PTL
=============================================================================
