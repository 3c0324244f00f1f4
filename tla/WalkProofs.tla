------------------------------ MODULE WalkProofs ------------------------------
(***************************************************************************)
(* Proofs about Walk, for every graph, group and bound: the types, that no *)
(* walk by rounds takes more of them than the graph has nodes, that the    *)
(* lightest walks settle nodes in order of total, and that a marker        *)
(* answers each node once.  Then what the walks of a graph are, by rounds  *)
(* and by legs, for the proofs that walks are complete.                    *)
(***************************************************************************)
EXTENDS Walk, TLAPS, FiniteSetTheorems, SequenceTheorems, WellFoundedInduction

Hop1 == Labels \union {Star}
Pcs == {"entry", "round", "hop", "settle", "reach", "done"}
Causes == {None, "bound", "cycle", "weight", "frontier", "open"}

\* What the types say of the inputs.
LEMMA InputTypes ==
    ASSUME TypeOK
    PROVE  /\ graph \subseteq Edges /\ group \in GroupType
           /\ \A al \in group.alts : al \in Seq(Hop1) /\ al # <<>>
<1>1. graph \subseteq Edges /\ group \in GroupType /\ <<>> \notin group.alts
  BY InputsAssumption DEF TypeOK
<1>2. group.alts \in SUBSET Seq(Hop1)
  BY <1>1 DEF GroupType, Hop1
<1> QED
  BY <1>1, <1>2

\* The anchor's path is one.
LEMMA AnchorType == Anchor \in PathType
BY NodesAssumption DEF Anchor, PathType

\* A budgeted group reads one weight off the edges its paths cross.
LEMMA AddsType ==
    ASSUME TypeOK, NEW e \in Edges, Budgeted => Len(Weight[e.label]) = 1
    PROVE  Adds(e) \in Int
<1>1. CASE ~Budgeted
  BY <1>1 DEF Adds
<1>2. CASE Budgeted
  <2>1. Weight[e.label] \in Seq(Int)
    BY WeightAssumption DEF Edges
  <2>2. Weight[e.label][1] \in Int
    BY <1>2, <2>1
  <2> QED
    BY <1>2, <2>2 DEF Adds
<1> QED
  BY <1>1, <1>2

\* What a hop crosses and where it leads.
LEMMA HopOf ==
    ASSUME TypeOK, NEW p \in PathType, NEW h, NEW q \in Hops(p, h)
    PROVE  \E e \in Edges : /\ e \in Selected(p, h) /\ q = Extended(p, e)
                            /\ e.to \notin p.ground /\ Affords(p, e)
<1>1. PICK e \in Selected(p, h) : q = Extended(p, e) /\ e.to \notin p.ground /\ Affords(p, e)
  BY DEF Hops
<1>2. e \in Edges
  BY <1>1, InputTypes DEF Selected
<1> QED
  BY <1>1, <1>2

\* A hop of a path is a path.
LEMMA HopType ==
    ASSUME TypeOK, NEW p \in PathType, NEW h, NEW q \in Hops(p, h)
    PROVE  q \in PathType
<1>1. PICK e \in Edges : q = Extended(p, e) /\ Affords(p, e)
  BY HopOf
<1>2. Adds(e) \in Int
  BY <1>1, AddsType DEF Affords
<1>3. /\ e.to \in Nodes /\ p.ground \subseteq Nodes /\ p.total \in Int
      /\ p.total + Adds(e) \in Int
  BY <1>1, <1>2 DEF Edges, PathType
<1> QED
  BY <1>1, <1>3 DEF Extended, PathType

\* Outside a set walk a hop covers one more node.
LEMMA HopCovers ==
    ASSUME TypeOK, ~SetWalk, NEW p \in PathType, NEW h, NEW q \in Hops(p, h)
    PROVE  Cardinality(q.ground) = Cardinality(p.ground) + 1 /\ Cardinality(p.ground) \in Nat
<1>1. PICK e \in Edges : q = Extended(p, e) /\ e.to \notin p.ground
  BY HopOf
<1>2. q.ground = p.ground \union {e.to}
  BY <1>1 DEF Extended
<1>3. IsFiniteSet(p.ground)
  BY NodesAssumption, FS_Subset DEF PathType
<1> QED
  BY <1>1, <1>2, <1>3, FS_AddElement, FS_CardinalityType

\* One path per node: some of the paths, at nodes not spent.
LEMMA OnePerNodeType ==
    ASSUME NEW S, NEW spent, NEW F \in OnePerNode(S, spent)
    PROVE  F \subseteq S /\ \A p \in F : p.node \notin spent
<1> DEFINE new == {p.node : p \in S} \ spent
<1>1. PICK pick \in [new -> S] : /\ \A n \in new : pick[n].node = n
                                 /\ F = {pick[n] : n \in new}
  BY DEF OnePerNode
<1> QED
  BY <1>1

\* One path per key: some of the paths.
LEMMA OnePerKeyType ==
    ASSUME NEW S, NEW F \in OnePerKey(S)
    PROVE  F \subseteq S
<1> DEFINE twins == {p \in S : \E q \in S : q # p /\ KeyOf(q) = KeyOf(p)}
<1>1. \E T \in SUBSET twins : F = (S \ twins) \union T
  BY DEF OnePerKey
<1> QED
  BY <1>1

\* Every path of a set of them, into every alternative.
LEMMA IntoType ==
    ASSUME TypeOK, NEW S \in SUBSET PathType
    PROVE  Into(S) \subseteq [path : PathType, rest : Seq(Hop1) \ {<<>>}]
BY InputTypes DEF Into

\* A merge keeps the paths' nodes and their grounds.
LEMMA MergeType ==
    ASSUME NEW S \in SUBSET PathType, NEW q \in MergeByPosition(S)
    PROVE  q \in PathType /\ \E p \in S : p.ground \subseteq q.ground
<1> DEFINE U(p) == UNION {r.ground : r \in {s \in S : s.node = p.node /\ s.edge = p.edge}}
<1>1. PICK p \in S : q = [p EXCEPT !.ground = U(p)]
  BY DEF MergeByPosition
<1>2. p \in PathType /\ U(p) \subseteq Nodes /\ p.ground \subseteq U(p)
  BY DEF PathType
<1>3. q = [node |-> p.node, ground |-> U(p), edge |-> p.edge, total |-> p.total]
  BY <1>1, <1>2 DEF PathType
<1>4. q \in PathType /\ q.ground = U(p)
  BY <1>2, <1>3 DEF PathType
<1> QED
  BY <1>2, <1>4

\* The next place of the loop.
LEMMA NextRoundType ==
    ASSUME NEW n, NEW F
    PROVE  NextRound(n, F) \in {"round", "reach"} /\ (NextRound(n, F) = "round" => F # {})
BY DEF NextRound

-----------------------------------------------------------------------------
\* The entry into the walk keeps the types.
LEMMA EntryType ==
    ASSUME TypeOK, Entry
    PROVE  TypeOK'
<1>1. UNCHANGED <<graph, group, count, arrived, seen, promise, alive, answer>>
  BY DEF Entry, inputs
<1>2. pc' \in Pcs /\ refusal' \in Causes
  BY NextRoundType DEF Entry, TypeOK, Pcs, Causes
<1>3. matches' \subseteq [path : PathType, round : Nat]
  BY AnchorType DEF Entry, TypeOK
<1>4. answer' = {}
  BY <1>1 DEF Entry, TypeOK
<1>5. frontier' \subseteq PathType
  BY DEF Entry, TypeOK
<1>6. flight' \subseteq [path : PathType, rest : Seq(Hop1) \ {<<>>}]
  BY AnchorType, IntoType DEF Entry, TypeOK, Hop1
<1> QED
  BY <1>1, <1>2, <1>3, <1>4, <1>5, <1>6 DEF TypeOK, Pcs, Causes, Hop1

\* The start of a round keeps the types.
LEMMA RoundType ==
    ASSUME TypeOK, Round
    PROVE  TypeOK'
<1>1. /\ UNCHANGED <<graph, group, frontier, seen, matches, promise, alive, refusal, answer>>
      /\ count' = count + 1 /\ arrived' = {} /\ pc' = "hop" /\ pc = "round"
      /\ flight' = Into(frontier)
  BY DEF Round, inputs
<1>2. flight' \subseteq [path : PathType, rest : Seq(Hop1) \ {<<>>}]
  BY <1>1, IntoType DEF TypeOK
<1>3. answer = {} /\ count' \in Nat
  BY <1>1 DEF TypeOK
<1> QED
  BY <1>1, <1>2, <1>3 DEF TypeOK, Hop1

\* A hop keeps the types.
LEMMA HopStepType ==
    ASSUME TypeOK, Hop
    PROVE  TypeOK'
<1>1. /\ UNCHANGED <<graph, group, count, frontier, seen, matches, promise, alive, answer>>
      /\ pc = "hop" /\ pc' \in {"hop", "done"} /\ refusal' \in {refusal, "cycle", "weight"}
  BY DEF Hop, inputs, Refusals
<1> DEFINE hopped == UNION {{[path |-> q, rest |-> Tail(f.rest)] :
                              q \in Hops(f.path, Head(f.rest))} : f \in flight}
<1>2. hopped \subseteq [path : PathType, rest : Seq(Hop1)]
  <2> SUFFICES ASSUME NEW f \in flight, NEW q \in Hops(f.path, Head(f.rest))
               PROVE  [path |-> q, rest |-> Tail(f.rest)] \in [path : PathType, rest : Seq(Hop1)]
    OBVIOUS
  <2>1. f.path \in PathType /\ f.rest \in Seq(Hop1) /\ f.rest # <<>>
    BY DEF TypeOK, Hop1
  <2>2. Tail(f.rest) \in Seq(Hop1)
    BY <2>1, HeadTailProperties
  <2>3. q \in PathType
    BY <2>1, HopType
  <2> QED
    BY <2>2, <2>3
<1>3. \/ UNCHANGED <<flight, arrived>>
      \/ /\ flight' = {f \in hopped : f.rest # <<>>}
         /\ arrived' = arrived \union {f.path : f \in {g \in hopped : g.rest = <<>>}}
  BY DEF Hop
<1> HIDE DEF hopped
<1>4. flight' \subseteq [path : PathType, rest : Seq(Hop1) \ {<<>>}]
  <2>1. CASE UNCHANGED flight
    BY <2>1 DEF TypeOK, Hop1
  <2>2. CASE flight' = {f \in hopped : f.rest # <<>>}
    BY <2>2, <1>2
  <2> QED
    BY <2>1, <2>2, <1>3
<1>5. arrived' \subseteq PathType
  BY <1>2, <1>3 DEF TypeOK
<1>6. answer' = {}
  BY <1>1 DEF TypeOK
<1> QED
  BY <1>1, <1>4, <1>5, <1>6 DEF TypeOK, Hop1

\* The frontier a round leaves: paths, at positions not spent before in a set
\* walk, and covering no less than those that arrived in an exact one.
LEMMA Advanced ==
    ASSUME TypeOK, EndRound
    PROVE  /\ frontier' \subseteq PathType
           /\ SetWalk => \A p \in frontier' : p.node \notin seen
           /\ ~SetWalk => \A q \in frontier' : \E p \in arrived : p.ground \subseteq q.ground
<1>1. arrived \in SUBSET PathType
  BY DEF TypeOK
<1>2. CASE SetWalk
  <2>1. frontier' \in OnePerNode(arrived, seen)
    BY <1>2 DEF EndRound
  <2> QED
    BY <1>1, <1>2, <2>1, OnePerNodeType
<1>3. CASE ~SetWalk
  <2>1. PICK S \in OnePerKey(arrived) : frontier' = MergeByPosition(S) \/ frontier' = S
    BY <1>3 DEF EndRound
  <2>2. S \subseteq arrived
    BY <2>1, OnePerKeyType
  <2>3. CASE frontier' = S
    BY <1>1, <1>3, <2>2, <2>3
  <2>4. CASE frontier' = MergeByPosition(S)
    BY <1>1, <1>3, <2>2, <2>4, MergeType
  <2> QED
    BY <2>1, <2>3, <2>4
<1> QED
  BY <1>2, <1>3

\* The end of a round keeps the types.
LEMMA EndRoundType ==
    ASSUME TypeOK, EndRound
    PROVE  TypeOK'
<1>1. /\ UNCHANGED <<graph, group, count, flight, arrived, answer>> /\ pc = "hop"
      /\ alive' \in BOOLEAN
  BY DEF EndRound, inputs, TypeOK
<1>2. promise' \in BOOLEAN
  BY DEF EndRound, TypeOK
<1>3. pc' \in Pcs
  BY NextRoundType DEF EndRound, Pcs
<1>4. refusal' \in Causes
  BY DEF EndRound, TypeOK, Causes
<1>5. seen' \subseteq Nodes
  <2>1. \A p \in frontier' : p.node \in Nodes
    BY Advanced DEF PathType
  <2> QED
    BY <2>1 DEF EndRound, TypeOK
<1>6. matches' \subseteq [path : PathType, round : Nat]
  <2>1. {[path |-> p, round |-> count] : p \in {q \in frontier' : Admits(q)}}
           \subseteq [path : PathType, round : Nat]
    BY Advanced DEF TypeOK
  <2> QED
    BY <2>1 DEF EndRound, TypeOK
<1>7. answer' = {}
  BY <1>1 DEF TypeOK
<1> QED
  BY <1>1, <1>2, <1>3, <1>4, <1>5, <1>6, <1>7, Advanced DEF TypeOK, Pcs, Causes

\* Settling a pending path keeps the types.
LEMMA SettleType ==
    ASSUME TypeOK, Settle
    PROVE  TypeOK'
<1>1. /\ UNCHANGED <<graph, group, promise, alive, refusal, answer>> /\ pc = "settle"
      /\ count' = count + 1
  BY DEF Settle, inputs
<1>2. CASE pc' = "reach" /\ UNCHANGED <<frontier, flight, arrived, seen, matches>>
  BY <1>1, <1>2 DEF TypeOK
<1>3. CASE \E p \in Least(frontier) :
             /\ frontier' = frontier \ {p} /\ seen' = seen \union {p.node} /\ arrived' = {}
             /\ matches' \in {matches, matches \union {[path |-> p, round |-> 0]}}
             /\ flight' \in {{}, Into({p})} /\ pc' \in {"hop", "settle"}
  <2>1. PICK p \in Least(frontier) :
             /\ frontier' = frontier \ {p} /\ seen' = seen \union {p.node} /\ arrived' = {}
             /\ matches' \in {matches, matches \union {[path |-> p, round |-> 0]}}
             /\ flight' \in {{}, Into({p})} /\ pc' \in {"hop", "settle"}
    BY <1>3
  <2>2. p \in PathType /\ p.node \in Nodes
    BY DEF Least, TypeOK, PathType
  <2>3. flight' \subseteq [path : PathType, rest : Seq(Hop1) \ {<<>>}]
    BY <2>1, <2>2, IntoType
  <2>4. matches' \subseteq [path : PathType, round : Nat]
    BY <2>1, <2>2 DEF TypeOK
  <2>5. answer' = {} /\ count' \in Nat
    BY <1>1 DEF TypeOK
  <2> QED
    BY <1>1, <2>1, <2>2, <2>3, <2>4, <2>5 DEF TypeOK, Hop1
<1> QED
  BY <1>2, <1>3 DEF Settle

\* What joins the pending paths keeps the types.
LEMMA PendType ==
    ASSUME TypeOK, Pend
    PROVE  TypeOK'
<1>1. /\ UNCHANGED <<graph, group, count, flight, arrived, seen, matches, promise, alive, answer>>
      /\ pc = "hop" /\ pc' \in {"done", "settle"} /\ refusal' \in {refusal, "frontier"}
      /\ frontier' = frontier \union {p \in arrived : p.node \notin seen}
  BY DEF Pend, inputs
<1>2. frontier' \subseteq PathType /\ answer' = {}
  BY <1>1 DEF TypeOK
<1> QED
  BY <1>1, <1>2 DEF TypeOK

\* The reach answers matches.
LEMMA ReachType ==
    ASSUME TypeOK, Reach
    PROVE  TypeOK'
<1>1. /\ UNCHANGED <<graph, group, count, frontier, flight, arrived, seen, matches, promise, alive,
                     refusal>>
      /\ pc' = "done"
  BY DEF Reach, inputs
<1>2. answer' \subseteq matches
  BY DEF Reach
<1> QED
  BY <1>1, <1>2 DEF TypeOK

\* The state is what its types say, for every graph, group and bound.
THEOREM TypeCorrect == Spec => []TypeOK
<1>1. Init => TypeOK
  BY NodesAssumption, AnchorType DEF Init, TypeOK, SetWalk, ExactPromise
<1>2. TypeOK /\ [Next]_vars => TypeOK'
  <2> SUFFICES ASSUME TypeOK, [Next]_vars PROVE TypeOK'
    OBVIOUS
  <2>1. CASE Terminated \/ UNCHANGED vars
    BY <2>1 DEF Terminated, vars, inputs, TypeOK
  <2>2. CASE Settled
    BY <2>2 DEF Settled, inputs, TypeOK
  <2> QED
    BY <2>1, <2>2, EntryType, RoundType, HopStepType, EndRoundType, SettleType, PendType,
       ReachType DEF Next
<1> QED
  BY <1>1, <1>2, PTL DEF Spec

-----------------------------------------------------------------------------
\* The sets a walk covers are finite.
LEMMA Finite ==
    ASSUME NEW S \in SUBSET Nodes
    PROVE  IsFiniteSet(S) /\ Cardinality(S) \in Nat /\ Cardinality(S) <= Cardinality(Nodes)
BY NodesAssumption, FS_Subset, FS_CardinalityType

\* A ground is within the nodes.
LEMMA GroundFinite ==
    ASSUME NEW p \in PathType
    PROVE  Cardinality(p.ground) \in Nat /\ Cardinality(p.ground) <= Cardinality(Nodes)
BY Finite DEF PathType

\* The form of the walk is the inputs' alone.
LEMMA FormUnchanged ==
    ASSUME group' = group
    PROVE  SetWalk' = SetWalk /\ Lightest' = Lightest /\ Budgeted' = Budgeted
BY DEF SetWalk, NodeLevel, Lightest, Budgeted

\* The entry begins to count.
LEMMA EntryMeasure ==
    ASSUME TypeOK, ~Lightest, MeasureInv, Entry
    PROVE  MeasureInv'
<1>1. /\ UNCHANGED <<group, count, frontier, seen>> /\ pc = "entry"
      /\ pc' \in {"done", "round", "reach"} /\ (pc' = "round" => frontier # {})
  BY NextRoundType DEF Entry, inputs
<1>2. /\ count = 0 /\ frontier = {Anchor} /\ seen = {Start}
      /\ count <= Cardinality(Nodes)
  BY <1>1 DEF MeasureInv
<1>3. Cardinality(seen) = 1 /\ Cardinality(Anchor.ground) = 1
  BY <1>2, FS_Singleton DEF Anchor
<1>4. Covered(frontier, count + 1)
  BY <1>2, <1>3 DEF Covered
<1>5. SetWalk' = SetWalk /\ Lightest' = Lightest
  BY <1>1, FormUnchanged
<1> QED
  BY <1>1, <1>2, <1>3, <1>4, <1>5 DEF MeasureInv, Covered

\* A round begins: there is a path in flight, which has covered more than the
\* rounds so far, or a position not spent before.
LEMMA RoundMeasure ==
    ASSUME TypeOK, ~Lightest, MeasureInv, Round
    PROVE  MeasureInv'
<1>1. /\ UNCHANGED <<group, frontier, seen>> /\ count' = count + 1 /\ arrived' = {}
      /\ pc = "round" /\ pc' = "hop"
      /\ flight' = Into(frontier)
  BY DEF Round, inputs
<1>2. SetWalk' = SetWalk /\ Lightest' = Lightest
  BY <1>1, FormUnchanged
<1>3. count \in Nat /\ frontier # {} /\ frontier \subseteq PathType /\ seen \subseteq Nodes
  BY <1>1 DEF MeasureInv, TypeOK
<1>4. SetWalk => count < Cardinality(seen)
  BY <1>1 DEF MeasureInv
<1>5. ~SetWalk => Covered(frontier, count + 1)
  BY <1>1 DEF MeasureInv
<1>6. count' <= Cardinality(Nodes)
  <2>1. CASE SetWalk
    <3>1. Cardinality(seen) \in Nat /\ Cardinality(seen) <= Cardinality(Nodes)
      BY <1>3, Finite
    <3> QED
      BY <1>1, <1>3, <1>4, <2>1, <3>1, Finite
  <2>2. CASE ~SetWalk
    <3>1. PICK p \in frontier : count + 1 <= Cardinality(p.ground)
      BY <1>3, <1>5, <2>2 DEF Covered
    <3>2. Cardinality(p.ground) \in Nat /\ Cardinality(p.ground) <= Cardinality(Nodes)
      BY <1>3, GroundFinite
    <3> QED
      BY <1>1, <1>3, <3>1, <3>2, Finite
  <2> QED
    BY <2>1, <2>2
<1>7. SetWalk => count' <= Cardinality(seen')
  BY <1>1, <1>3, <1>4, Finite
<1>8. ~SetWalk => Covered({f.path : f \in flight'}, count')
  <2>1. \A f \in flight' : f.path \in frontier
    BY <1>1 DEF Into
  <2> QED
    BY <1>1, <1>5, <2>1 DEF Covered
<1> QED
  BY <1>1, <1>2, <1>6, <1>7, <1>8 DEF MeasureInv, Covered

\* A hop of an exact walk covers a node more.
LEMMA HopMeasure ==
    ASSUME TypeOK, ~Lightest, MeasureInv, Hop
    PROVE  MeasureInv'
<1>1. /\ UNCHANGED <<group, count, frontier, seen>>
      /\ pc = "hop" /\ pc' \in {"hop", "done"}
  BY DEF Hop, inputs
<1>2. SetWalk' = SetWalk /\ Lightest' = Lightest
  BY <1>1, FormUnchanged
<1>3. CASE SetWalk
  BY <1>1, <1>2, <1>3 DEF MeasureInv
<1>4. CASE ~SetWalk
  <2> DEFINE hopped == UNION {{[path |-> q, rest |-> Tail(f.rest)] :
                                q \in Hops(f.path, Head(f.rest))} : f \in flight}
  <2>1. Covered({f.path : f \in flight}, count) /\ Covered(arrived, count + 1) /\ count \in Nat
    BY <1>1, <1>4 DEF MeasureInv, TypeOK
  <2>2. \A g \in hopped : count + 1 <= Cardinality(g.path.ground) /\ Cardinality(g.path.ground) \in Nat
    <3> SUFFICES ASSUME NEW f \in flight, NEW q \in Hops(f.path, Head(f.rest))
                 PROVE  count + 1 <= Cardinality(q.ground) /\ Cardinality(q.ground) \in Nat
      OBVIOUS
    <3>1. f.path \in PathType /\ count <= Cardinality(f.path.ground)
      BY <2>1 DEF TypeOK, Covered
    <3>2. /\ Cardinality(q.ground) = Cardinality(f.path.ground) + 1
          /\ Cardinality(f.path.ground) \in Nat
      BY <1>4, <3>1, HopCovers
    <3> QED
      BY <2>1, <3>1, <3>2
  <2>3. \/ UNCHANGED <<flight, arrived>>
        \/ /\ flight' = {f \in hopped : f.rest # <<>>}
           /\ arrived' = arrived \union {f.path : f \in {g \in hopped : g.rest = <<>>}}
    BY DEF Hop
  <2> HIDE DEF hopped
  <2>4. Covered({f.path : f \in flight'}, count)
    <3>1. CASE UNCHANGED flight
      BY <2>1, <3>1
    <3>2. CASE flight' = {f \in hopped : f.rest # <<>>}
      BY <2>1, <2>2, <3>2 DEF Covered
    <3> QED
      BY <2>3, <3>1, <3>2
  <2>5. Covered(arrived', count + 1)
    BY <2>1, <2>2, <2>3 DEF Covered
  <2> QED
    BY <1>1, <1>2, <1>4, <2>4, <2>5 DEF MeasureInv, Covered
<1> QED
  BY <1>3, <1>4

\* A round that goes on has spent a position, or covered a node more on every
\* path.
LEMMA EndRoundMeasure ==
    ASSUME TypeOK, ~Lightest, MeasureInv, EndRound
    PROVE  MeasureInv'
<1>1. /\ UNCHANGED <<group, count, flight, arrived>> /\ pc = "hop"
      /\ pc' \in {"done", "reach", "round"} /\ (pc' = "round" => frontier' # {})
      /\ seen' = IF SetWalk THEN seen \union {p.node : p \in frontier'} ELSE seen
  BY NextRoundType DEF EndRound, inputs
<1>2. SetWalk' = SetWalk /\ Lightest' = Lightest
  BY <1>1, FormUnchanged
<1>3. count \in Nat /\ seen \subseteq Nodes /\ frontier' \subseteq PathType
  BY Advanced DEF TypeOK
<1>4. ASSUME SetWalk, pc' = "round"
      PROVE  count < Cardinality(seen')
  <2>1. PICK p \in frontier' : p.node \notin seen
    BY <1>1, <1>4, Advanced
  <2>2. seen \union {p.node} \subseteq seen' /\ seen' \subseteq Nodes
    BY <1>1, <1>3, <1>4 DEF PathType
  <2>3. Cardinality(seen \union {p.node}) = Cardinality(seen) + 1
    BY <2>1, <1>3, Finite, FS_AddElement
  <2>4. Cardinality(seen \union {p.node}) <= Cardinality(seen')
    BY <2>2, Finite, FS_Subset
  <2>5. count <= Cardinality(seen)
    BY <1>1, <1>4 DEF MeasureInv
  <2> QED
    BY <1>3, <2>2, <2>3, <2>4, <2>5, Finite
<1>5. ASSUME ~SetWalk, pc' = "round"
      PROVE  Covered(frontier', count + 1)
  <2>1. Covered(arrived, count + 1)
    BY <1>1, <1>5 DEF MeasureInv
  <2> SUFFICES ASSUME NEW q \in frontier' PROVE count + 1 <= Cardinality(q.ground)
    BY DEF Covered
  <2>2. PICK p \in arrived : p.ground \subseteq q.ground
    BY <1>5, Advanced
  <2>3. p \in PathType /\ q \in PathType
    BY <1>3 DEF TypeOK
  <2>4. IsFiniteSet(q.ground) /\ Cardinality(p.ground) <= Cardinality(q.ground)
    BY <2>2, <2>3, Finite, FS_Subset DEF PathType
  <2> QED
    BY <1>3, <2>1, <2>3, <2>4, GroundFinite DEF Covered
<1> QED
  BY <1>1, <1>2, <1>4, <1>5 DEF MeasureInv, Covered

\* Every step of a walk by rounds keeps the measure.
LEMMA MeasureStep ==
    ASSUME TypeOK, MeasureInv, [Next]_vars
    PROVE  MeasureInv'
<1>1. group' = group
  BY DEF Next, vars, inputs, Entry, Round, Hop, EndRound, Settle, Pend, Settled, Reach, Terminated
<1>2. CASE Lightest
  BY <1>1, <1>2, FormUnchanged DEF MeasureInv
<1>3. CASE ~Lightest
  <2>1. CASE Reach
    BY <1>1, <1>3, <2>1, FormUnchanged DEF Reach, inputs, MeasureInv
  <2>2. CASE Terminated \/ UNCHANGED vars
    BY <1>3, <2>2, FormUnchanged DEF Terminated, vars, inputs, MeasureInv, Covered
  <2>3. ~Settle /\ ~Pend /\ ~Settled
    BY <1>3 DEF Settle, Pend, Settled, MeasureInv
  <2> QED
    BY <1>3, <2>1, <2>2, <2>3, EntryMeasure, RoundMeasure, HopMeasure, EndRoundMeasure DEF Next
<1> QED
  BY <1>2, <1>3

\* No walk by rounds takes more of them than the graph has nodes.
THEOREM WalkEnds == Spec => []RoundsBounded
<1>1. Init => MeasureInv
  <2> SUFFICES ASSUME Init PROVE MeasureInv
    OBVIOUS
  <2>1. Cardinality(Nodes) \in Nat
    BY NodesAssumption, FS_CardinalityType
  <2> QED
    BY <2>1 DEF Init, MeasureInv
<1>2. TypeOK /\ MeasureInv /\ [Next]_vars => MeasureInv'
  BY MeasureStep
<1>3. MeasureInv => RoundsBounded
  BY DEF MeasureInv, RoundsBounded
<1> QED
  BY <1>1, <1>2, <1>3, TypeCorrect, PTL DEF Spec

-----------------------------------------------------------------------------
\* A walk by totals has no round, and nothing has arrived before it begins.
OrderInv == /\ SettledInOrder
            /\ Lightest => pc # "round"
            /\ pc = "entry" => arrived = {}

\* A hop that is not refused adds no less than nothing.
LEMMA HopWeighs ==
    ASSUME TypeOK, Budgeted, NEW p \in PathType, NEW h, ~IllWeighed(p, h), NEW q \in Hops(p, h)
    PROVE  p.total <= q.total
<1>1. PICK e \in Edges : /\ e \in Selected(p, h) /\ q = Extended(p, e)
                         /\ e.to \notin p.ground /\ Affords(p, e)
  BY HopOf
<1>2. Len(Weight[e.label]) = 1 /\ Adds(e) \in Int
  BY <1>1, AddsType DEF Affords
<1>3. ~(Adds(e) < 0)
  BY <1>1, <1>2 DEF IllWeighed
<1>4. q.total = p.total + Adds(e) /\ p.total \in Int
  BY <1>1 DEF Extended, PathType
<1> QED
  BY <1>2, <1>3, <1>4

\* What is under way has a total.
LEMMA UnderWayTypes ==
    ASSUME TypeOK
    PROVE  UnderWay \subseteq PathType
BY DEF UnderWay, TypeOK

\* The anchor, which weighs nothing, is what the walk begins with.
LEMMA EntryOrder ==
    ASSUME TypeOK, OrderInv, Entry
    PROVE  OrderInv'
<1>1. /\ UNCHANGED <<group, arrived>> /\ pc = "entry" /\ pc' # "entry"
      /\ \A m \in matches' : pc' # "done" => m.path = Anchor
  BY NextRoundType DEF Entry, inputs
<1>2. Lightest' = Lightest
  BY <1>1, FormUnchanged
<1>3. CASE ~Lightest \/ pc' = "done"
  <2>1. Lightest => pc' # "round"
    BY <1>3
  <2>2. SettledInOrder'
    BY <1>2, <1>3 DEF SettledInOrder
  <2> QED
    BY <1>1, <1>2, <2>1, <2>2 DEF OrderInv
<1>4. CASE Lightest /\ pc' # "done"
  <2>1. frontier' = {} /\ flight' = Into({Anchor}) /\ pc' = "hop" /\ arrived' = {}
    BY <1>1, <1>4 DEF Entry, OrderInv
  <2>2. \A p \in UnderWay' : p = Anchor
    BY <2>1 DEF UnderWay, Into
  <2>3. SettledInOrder'
    BY <1>1, <1>4, <2>2 DEF SettledInOrder, Anchor
  <2> QED
    BY <1>1, <2>1, <2>3 DEF OrderInv
<1> QED
  BY <1>3, <1>4

\* A hop reaches nothing lighter than what it left.
LEMMA HopOrder ==
    ASSUME TypeOK, OrderInv, Hop
    PROVE  OrderInv'
<1>1. /\ UNCHANGED <<group, frontier, matches>> /\ pc = "hop" /\ pc' \in {"hop", "done"}
  BY DEF Hop, inputs
<1>2. Lightest' = Lightest
  BY <1>1, FormUnchanged
<1>3. CASE ~Lightest \/ pc' = "done"
  BY <1>1, <1>2, <1>3 DEF OrderInv, SettledInOrder
<1>4. CASE Lightest /\ pc' # "done"
  <2> DEFINE hopped == UNION {{[path |-> q, rest |-> Tail(f.rest)] :
                                q \in Hops(f.path, Head(f.rest))} : f \in flight}
  <2>1. /\ flight' = {f \in hopped : f.rest # <<>>}
        /\ arrived' = arrived \union {f.path : f \in {g \in hopped : g.rest = <<>>}}
        /\ Refusals = {}
    BY <1>4 DEF Hop
  <2>2. \A g \in hopped : \E f \in flight : f.path.total <= g.path.total
    <3> SUFFICES ASSUME NEW f \in flight, NEW q \in Hops(f.path, Head(f.rest))
                 PROVE  f.path.total <= q.total
      OBVIOUS
    <3>1. ~IllWeighed(f.path, Head(f.rest))
      BY <2>1 DEF Refusals
    <3>2. f.path \in PathType
      BY DEF TypeOK
    <3> QED
      BY <1>4, <3>1, <3>2, HopWeighs DEF Lightest
  <2> HIDE DEF hopped
  <2>3. \A p \in UnderWay' : \E u \in UnderWay : u = p \/ u.total <= p.total
    <3> SUFFICES ASSUME NEW p \in UnderWay' PROVE \E u \in UnderWay : u = p \/ u.total <= p.total
      OBVIOUS
    <3>1. CASE p \in frontier \union arrived
      BY <3>1 DEF UnderWay
    <3>2. CASE \E g \in hopped : p = g.path
      BY <2>2, <3>2 DEF UnderWay
    <3> QED
      BY <1>1, <2>1, <3>1, <3>2 DEF UnderWay
  <2>4. SettledInOrder'
    <3> SUFFICES ASSUME NEW m \in matches, NEW p \in UnderWay' PROVE m.path.total <= p.total
      BY <1>1 DEF SettledInOrder
    <3>1. PICK u \in UnderWay : u = p \/ u.total <= p.total
      BY <2>3
    <3>2. m.path.total <= u.total
      BY <1>1, <1>4 DEF OrderInv, SettledInOrder
    <3>3. m.path.total \in Int /\ u.total \in Int
      BY UnderWayTypes DEF TypeOK, PathType
    <3>4. p.total \in Int
      <4>1. UnderWay' \subseteq PathType
        BY HopStepType DEF UnderWay, TypeOK
      <4> QED
        BY <4>1 DEF PathType
    <3> QED
      BY <3>1, <3>2, <3>3, <3>4
  <2> QED
    BY <1>1, <1>2, <1>4, <2>4 DEF OrderInv
<1> QED
  BY <1>3, <1>4

\* The least of the pending paths is settled: what stays is no lighter.
LEMMA SettleOrder ==
    ASSUME TypeOK, OrderInv, Settle
    PROVE  OrderInv'
<1>1. group' = group /\ pc = "settle" /\ pc' \in {"reach", "hop", "settle"}
  BY DEF Settle, inputs
<1>2. Lightest' = Lightest
  BY <1>1, FormUnchanged
<1>3. CASE ~Lightest \/ pc' = "reach"
  BY <1>1, <1>2, <1>3 DEF OrderInv, SettledInOrder
<1>4. CASE Lightest /\ pc' # "reach"
  <2>1. PICK p \in Least(frontier) :
           /\ frontier' = frontier \ {p} /\ arrived' = {}
           /\ matches' \in {matches, matches \union {[path |-> p, round |-> 0]}}
           /\ flight' \in {{}, Into({p})}
    BY <1>4 DEF Settle
  <2>2. p \in frontier /\ \A q \in frontier : p.total <= q.total
    BY DEF Least
  <2>3. UnderWay' \subseteq frontier
    BY <2>1, <2>2 DEF UnderWay, Into
  <2>4. \A m \in matches' : m.path = p \/ m \in matches
    BY <2>1
  <2>5. \A m \in matches, q \in frontier : m.path.total <= q.total
    BY <1>1, <1>4 DEF OrderInv, SettledInOrder, UnderWay
  <2>6. SettledInOrder'
    BY <2>2, <2>3, <2>4, <2>5 DEF SettledInOrder
  <2> QED
    BY <1>1, <2>6 DEF OrderInv
<1> QED
  BY <1>3, <1>4

\* "each node settled once, at its least total": whatever is pending or under way
\* is no lighter than what was answered, for every graph, group, weight and bound.
THEOREM LightestFirst == Spec => []SettledInOrder
<1>1. Init => OrderInv
  BY DEF Init, OrderInv, SettledInOrder
<1>2. TypeOK /\ OrderInv /\ [Next]_vars => OrderInv'
  <2> SUFFICES ASSUME TypeOK, OrderInv, [Next]_vars PROVE OrderInv'
    OBVIOUS
  <2>1. CASE Pend
    <3>1. /\ group' = group /\ pc = "hop" /\ pc' \in {"settle", "done"}
          /\ UNCHANGED <<flight, arrived, matches>> /\ frontier' \subseteq frontier \union arrived
      BY <2>1 DEF Pend, inputs
    <3>2. UnderWay' \subseteq UnderWay
      BY <3>1 DEF UnderWay
    <3> QED
      BY <3>1, <3>2, FormUnchanged DEF OrderInv, SettledInOrder
  <2>2. CASE Round
    BY <2>2, FormUnchanged DEF Round, inputs, OrderInv, SettledInOrder
  <2>3. CASE EndRound
    <3>1. group' = group /\ ~Lightest /\ pc' # "entry"
      BY <2>3, NextRoundType DEF EndRound, inputs
    <3> QED
      BY <3>1, FormUnchanged DEF OrderInv, SettledInOrder
  <2>4. CASE Settled \/ Reach
    BY <2>4, FormUnchanged DEF Settled, Reach, inputs, OrderInv, SettledInOrder
  <2>5. CASE Terminated \/ UNCHANGED vars
    BY <2>5, FormUnchanged
    DEF Terminated, vars, inputs, OrderInv, SettledInOrder, UnderWay
  <2> QED
    BY <2>1, <2>2, <2>3, <2>4, <2>5, EntryOrder, HopOrder, SettleOrder DEF Next
<1>3. OrderInv => SettledInOrder
  BY DEF OrderInv
<1> QED
  BY <1>1, <1>2, <1>3, TypeCorrect, PTL DEF Spec

-----------------------------------------------------------------------------
\* The lightest walks match a node once, when it is settled.
MatchedOnce == /\ Start \in seen
               /\ \A m \in matches : m.path.node \in seen
               /\ \A m, n \in matches : m.path.node = n.path.node => m = n

\* A path of n hops has covered one more node than it has hopped.
Hopped(S, n) == \A p \in S : Cardinality(p.ground) = n + 1

\* A budgeted walk by rounds takes a hop in each, so that a path is matched in
\* one round alone.
RoundsAreHops == /\ pc # "settle"
                 /\ pc = "entry" => count = 0 /\ frontier = {Anchor}
                 /\ pc = "round" => Hopped(frontier, count)
                 /\ pc = "hop" => /\ Hopped(arrived, count)
                                  /\ \A f \in flight : /\ Len(f.rest) = 1
                                                        /\ Cardinality(f.path.ground) = count
                 /\ \A m \in matches : Cardinality(m.path.ground) = m.round + 1

OnceInv == /\ EquidistantOnce
           /\ pc = "entry" => matches = {}
           /\ Lightest => MatchedOnce
           /\ Budgeted /\ ~Lightest => RoundsAreHops

\* The alternatives of a budgeted group are single hops, and it is no set walk.
LEMMA BudgetedForm ==
    ASSUME TypeOK, Budgeted
    PROVE  ~SetWalk /\ \A al \in group.alts : Len(al) = 1
BY InputsAssumption DEF TypeOK, Budgeted, SetWalk

\* Nothing is answered by a step that does not reach.
LEMMA NothingAnswered ==
    ASSUME TypeOK, answer' = answer, pc # "done"
    PROVE  EquidistantOnce'
<1>1. answer' = {}
  BY DEF TypeOK
<1> QED
  BY <1>1 DEF EquidistantOnce

\* The anchor alone is matched on entry, at no hop.
LEMMA EntryOnce ==
    ASSUME TypeOK, OnceInv, Entry
    PROVE  OnceInv'
<1>1. /\ UNCHANGED <<group, count, seen, answer>> /\ pc = "entry"
      /\ pc' \in {"done", "hop", "round", "reach"}
      /\ matches' \subseteq {[path |-> Anchor, round |-> 0]}
  BY NextRoundType DEF Entry, inputs, OnceInv
<1>2. Lightest' = Lightest /\ Budgeted' = Budgeted
  BY <1>1, FormUnchanged
<1>3. EquidistantOnce'
  BY <1>1, NothingAnswered
<1>4. Lightest => MatchedOnce'
  <2>1. Anchor.node = Start
    BY DEF Anchor
  <2>2. \A m \in matches' : m = [path |-> Anchor, round |-> 0] /\ m.path = Anchor
    BY <1>1
  <2>3. Lightest => Start \in seen'
    BY <1>1 DEF OnceInv, MatchedOnce
  <2> QED
    BY <2>1, <2>2, <2>3 DEF MatchedOnce
<1>5. ASSUME Budgeted, ~Lightest PROVE RoundsAreHops'
  <2>1. count = 0 /\ frontier = {Anchor} /\ frontier' = frontier /\ pc' # "hop"
    BY <1>1, <1>5, NextRoundType DEF OnceInv, RoundsAreHops, Entry
  <2>2. Cardinality(Anchor.ground) = 1
    BY FS_Singleton DEF Anchor
  <2> QED
    BY <1>1, <2>1, <2>2 DEF RoundsAreHops, Hopped
<1> QED
  BY <1>1, <1>2, <1>3, <1>4, <1>5 DEF OnceInv

\* A round of a budgeted walk hops once.
LEMMA RoundOnce ==
    ASSUME TypeOK, OnceInv, Round
    PROVE  OnceInv'
<1>1. /\ UNCHANGED <<group, seen, matches, answer>> /\ count' = count + 1
      /\ pc = "round" /\ pc' = "hop" /\ flight' = Into(frontier) /\ arrived' = {}
  BY DEF Round, inputs
<1>2. Lightest' = Lightest /\ Budgeted' = Budgeted
  BY <1>1, FormUnchanged
<1>3. EquidistantOnce'
  BY <1>1, NothingAnswered
<1>4. Lightest => MatchedOnce'
  BY <1>1 DEF OnceInv, MatchedOnce
<1>5. ASSUME Budgeted, ~Lightest PROVE RoundsAreHops'
  <2>1. Hopped(frontier, count)
    BY <1>1, <1>5 DEF OnceInv, RoundsAreHops
  <2>2. \A f \in flight' : /\ Len(f.rest) = 1
                            /\ Cardinality(f.path.ground) = count'
    BY <1>1, <1>5, <2>1, BudgetedForm DEF Into, Hopped
  <2>3. \A m \in matches : Cardinality(m.path.ground) = m.round + 1
    BY <1>5 DEF OnceInv, RoundsAreHops
  <2> QED
    BY <1>1, <2>2, <2>3 DEF RoundsAreHops, Hopped
<1> QED
  BY <1>1, <1>2, <1>3, <1>4, <1>5 DEF OnceInv

\* The one hop of a round covers one node more.
LEMMA HopOnce ==
    ASSUME TypeOK, OnceInv, Hop
    PROVE  OnceInv'
<1>1. /\ UNCHANGED <<group, count, frontier, seen, matches, answer>>
      /\ pc = "hop" /\ pc' \in {"hop", "done"}
  BY DEF Hop, inputs
<1>2. Lightest' = Lightest /\ Budgeted' = Budgeted
  BY <1>1, FormUnchanged
<1>3. EquidistantOnce'
  BY <1>1, NothingAnswered
<1>4. Lightest => MatchedOnce'
  BY <1>1 DEF OnceInv, MatchedOnce
<1>5. ASSUME Budgeted, ~Lightest PROVE RoundsAreHops'
  <2> DEFINE hopped == UNION {{[path |-> q, rest |-> Tail(f.rest)] :
                                q \in Hops(f.path, Head(f.rest))} : f \in flight}
  <2>1. /\ Hopped(arrived, count)
        /\ \A f \in flight : Len(f.rest) = 1 /\ Cardinality(f.path.ground) = count
        /\ \A m \in matches : Cardinality(m.path.ground) = m.round + 1
    BY <1>1, <1>5 DEF OnceInv, RoundsAreHops
  <2>2. \A g \in hopped : g.rest = <<>> /\ Cardinality(g.path.ground) = count + 1
    <3> SUFFICES ASSUME NEW g \in hopped
                 PROVE  g.rest = <<>> /\ Cardinality(g.path.ground) = count + 1
      OBVIOUS
    <3> PICK f \in flight : \E q \in Hops(f.path, Head(f.rest)) : g = [path |-> q, rest |-> Tail(f.rest)]
      OBVIOUS
    <3> PICK q \in Hops(f.path, Head(f.rest)) : g = [path |-> q, rest |-> Tail(f.rest)]
      OBVIOUS
    <3>1. f.path \in PathType /\ f.rest \in Seq(Hop1)
      BY DEF TypeOK, Hop1
    <3>2. Cardinality(q.ground) = Cardinality(f.path.ground) + 1
      BY <1>5, <3>1, BudgetedForm, HopCovers
    <3>3. Tail(f.rest) = <<>>
      <4>1. Len(f.rest) = 1 /\ f.rest # <<>>
        BY <2>1, <3>1
      <4>2. Tail(f.rest) \in Seq(Hop1) /\ Len(Tail(f.rest)) = 0
        BY <3>1, <4>1, HeadTailProperties
      <4> QED
        BY <4>2, EmptySeq
    <3> QED
      BY <2>1, <3>2, <3>3
  <2>3. \/ UNCHANGED <<flight, arrived>> /\ pc' = "done"
        \/ /\ flight' = {f \in hopped : f.rest # <<>>}
           /\ arrived' = arrived \union {f.path : f \in {g \in hopped : g.rest = <<>>}}
    BY DEF Hop
  <2> HIDE DEF hopped
  <2>4. pc' # "done" => flight' = {} /\ Hopped(arrived', count)
    BY <2>1, <2>2, <2>3 DEF Hopped
  <2> QED
    BY <1>1, <2>1, <2>4 DEF RoundsAreHops, Hopped
<1> QED
  BY <1>1, <1>2, <1>3, <1>4, <1>5 DEF OnceInv

\* What the round of a budgeted walk matches has hopped as many times.
LEMMA EndRoundOnce ==
    ASSUME TypeOK, OnceInv, EndRound
    PROVE  OnceInv'
<1>1. /\ UNCHANGED <<group, count, flight, arrived, answer>> /\ pc = "hop" /\ ~Lightest
      /\ pc' \in {"done", "reach", "round"}
  BY NextRoundType DEF EndRound, inputs
<1>2. ~Lightest' /\ Budgeted' = Budgeted
  BY <1>1, FormUnchanged
<1>3. EquidistantOnce'
  BY <1>1, NothingAnswered
<1>4. ASSUME Budgeted PROVE RoundsAreHops'
  <2>1. /\ Hopped(arrived, count) /\ count \in Nat
        /\ \A m \in matches : Cardinality(m.path.ground) = m.round + 1
    BY <1>1, <1>4 DEF OnceInv, RoundsAreHops, TypeOK
  <2>2. frontier' \in OnePerKey(arrived)
    BY <1>4, BudgetedForm DEF EndRound
  <2>3. Hopped(frontier', count)
    BY <2>1, <2>2, OnePerKeyType DEF Hopped
  <2>4. \A m \in matches' : m \in matches \/ \E p \in frontier' : m = [path |-> p, round |-> count]
    BY DEF EndRound
  <2>5. \A m \in matches' : Cardinality(m.path.ground) = m.round + 1
    BY <2>1, <2>3, <2>4 DEF Hopped
  <2> QED
    BY <1>1, <2>3, <2>5 DEF RoundsAreHops, Hopped
<1> QED
  BY <1>1, <1>2, <1>3, <1>4 DEF OnceInv

\* A node is matched when it is settled, and is settled once.
LEMMA SettleOnce ==
    ASSUME TypeOK, OnceInv, Settle
    PROVE  OnceInv'
<1>1. /\ UNCHANGED <<group, answer>> /\ pc = "settle"
      /\ pc' \in {"reach", "hop", "settle"}
  BY DEF Settle, inputs
<1>2. Lightest' = Lightest /\ Budgeted' = Budgeted
  BY <1>1, FormUnchanged
<1>3. EquidistantOnce'
  BY <1>1, NothingAnswered
<1>4. \/ UNCHANGED <<seen, matches>>
      \/ \E p \in frontier :
            /\ seen' = seen \union {p.node}
            /\ matches' = matches \/ (p.node \notin seen
                                       /\ matches' = matches \union {[path |-> p, round |-> 0]})
  BY DEF Settle, Least
<1>5. Lightest => MatchedOnce'
  BY <1>4 DEF OnceInv, MatchedOnce
<1>6. ~(Budgeted /\ ~Lightest)
  BY <1>1 DEF OnceInv, RoundsAreHops
<1> QED
  BY <1>1, <1>2, <1>3, <1>5, <1>6 DEF OnceInv

\* Of the matches at one node the reach keeps one, of the first or last round or
\* of the greatest total.
LEMMA ReachOnce ==
    ASSUME TypeOK, OnceInv, Reach
    PROVE  OnceInv'
<1> DEFINE kept == {m \in matches : Tier(m)}
<1>1. /\ UNCHANGED <<group, count, frontier, flight, arrived, seen, matches>>
      /\ pc = "reach" /\ pc' = "done"
  BY DEF Reach, inputs
<1>2. Lightest' = Lightest /\ Budgeted' = Budgeted
  BY <1>1, FormUnchanged
<1>3. matches \subseteq [path : PathType, round : Nat] /\ group \in GroupType
  BY InputTypes DEF TypeOK
<1>4. CASE Lightest
  <2>1. answer' \subseteq matches
    BY DEF Reach
  <2>2. EquidistantOnce'
    BY <1>2, <1>4, <2>1 DEF EquidistantOnce, Lightest, OnceInv, MatchedOnce
  <2> QED
    BY <1>1, <1>2, <1>4, <2>2 DEF OnceInv, MatchedOnce
<1>5. CASE ~Lightest
  <2>1. ASSUME group.reach # "all", NEW m \in answer', NEW n \in answer'
        PROVE  /\ m.path.node = n.path.node => m = n
               /\ ~Budgeted => m.round = n.round
               /\ Budgeted => m.path.total = n.path.total
    <3>1. PICK once \in OnePerNode({k.path : k \in kept}, {}) :
            answer' = {k \in kept : k.path \in once}
      BY <1>5, <2>1 DEF Reach
    <3>2. m \in kept /\ n \in kept /\ m.path \in once /\ n.path \in once
      BY <2>1, <3>1
    <3>3. m.path.node = n.path.node => m.path = n.path
      <4> DEFINE new == {p.node : p \in {k.path : k \in kept}} \ {}
      <4>1. PICK pick \in [new -> {k.path : k \in kept}] :
              (\A i \in new : pick[i].node = i) /\ once = {pick[i] : i \in new}
        BY <3>1 DEF OnePerNode
      <4>2. PICK i \in new : m.path = pick[i]
        BY <3>2, <4>1
      <4>3. PICK j \in new : n.path = pick[j]
        BY <3>2, <4>1
      <4> QED
        BY <4>1, <4>2, <4>3
    <3>4. /\ m \in matches /\ n \in matches /\ m.round \in Nat /\ n.round \in Nat
          /\ m.path.total \in Int /\ n.path.total \in Int
      BY <1>3, <3>2 DEF PathType
    <3>5. ASSUME ~Budgeted PROVE m.round = n.round
      <4>1. m.round <= n.round /\ n.round <= m.round
        BY <1>3, <2>1, <3>2, <3>5 DEF Tier, Lightest, GroupType
      <4> QED
        BY <3>4, <4>1
    <3>6. ASSUME Budgeted PROVE m.path.total = n.path.total
      <4>1. m.path.total <= n.path.total /\ n.path.total <= m.path.total
        BY <1>3, <1>5, <2>1, <3>2, <3>6 DEF Tier, Lightest, GroupType
      <4> QED
        BY <3>4, <4>1
    <3>7. m.path = n.path => m.round = n.round
      <4>1. CASE ~Budgeted
        BY <3>5, <4>1
      <4>2. CASE Budgeted
        <5>1. Cardinality(m.path.ground) = m.round + 1 /\ Cardinality(n.path.ground) = n.round + 1
          BY <1>5, <3>4, <4>2 DEF OnceInv, RoundsAreHops
        <5> QED
          BY <3>4, <5>1
      <4> QED
        BY <4>1, <4>2
    <3>8. m = [path |-> m.path, round |-> m.round] /\ n = [path |-> n.path, round |-> n.round]
      BY <1>3, <3>4
    <3> QED
      BY <3>3, <3>5, <3>6, <3>7, <3>8
  <2>2. EquidistantOnce'
    BY <1>1, <1>2, <2>1 DEF EquidistantOnce
  <2>3. Budgeted => RoundsAreHops'
    BY <1>1, <1>5 DEF OnceInv, RoundsAreHops
  <2> QED
    BY <1>1, <1>2, <1>5, <2>2, <2>3 DEF OnceInv
<1> QED
  BY <1>4, <1>5

\* A marker answers each node once, all of them from one round, or of one total
\* where a budget asks for the heaviest: for every graph, group, weight and bound.
THEOREM MarkersAnswerOnce == Spec => []EquidistantOnce
<1>1. Init => OnceInv
  BY DEF Init, OnceInv, EquidistantOnce, MatchedOnce, RoundsAreHops, Hopped
<1>2. TypeOK /\ OnceInv /\ [Next]_vars => OnceInv'
  <2> SUFFICES ASSUME TypeOK, OnceInv, [Next]_vars PROVE OnceInv'
    OBVIOUS
  <2>1. CASE Pend \/ Settled
    <3>1. /\ UNCHANGED <<group, seen, matches, answer>> /\ pc \in {"hop", "settle"}
          /\ pc' \in {"settle", "done", "reach"}
      BY <2>1 DEF Pend, Settled, inputs
    <3>2. EquidistantOnce'
      BY <3>1, NothingAnswered
    <3>3. Budgeted /\ ~Lightest => RoundsAreHops'
      BY <2>1 DEF Pend, Settled, OnceInv, RoundsAreHops
    <3> QED
      BY <3>1, <3>2, <3>3, FormUnchanged DEF OnceInv, MatchedOnce
  <2>2. CASE Terminated \/ UNCHANGED vars
    BY <2>2, FormUnchanged
    DEF Terminated, vars, inputs, OnceInv, EquidistantOnce, Answered, MatchedOnce, RoundsAreHops, Hopped
  <2> QED
    BY <2>1, <2>2, EntryOnce, RoundOnce, HopOnce, EndRoundOnce, SettleOnce, ReachOnce DEF Next
<1>3. OnceInv => EquidistantOnce
  BY DEF OnceInv
<1> QED
  BY <1>1, <1>2, <1>3, TypeCorrect, PTL DEF Spec

-----------------------------------------------------------------------------
(***************************************************************************)
(* The walks of a graph.                                                   *)
(***************************************************************************)

\* Induction over the numbers.
LEMMA Naturally ==
    ASSUME NEW S, 0 \in S, \A n \in Nat : n \in S => n + 1 \in S
    PROVE  \A n \in Nat : n \in S
<1> DEFINE T == {n \in Nat : n \notin S}
<1> SUFFICES ASSUME T # {} PROVE FALSE
  OBVIOUS
<1>1. IsWellFoundedOn(OpToRel(<, Nat), Nat)
  BY NatLessThanWellFounded, Zenon
<1>2. T \subseteq Nat
  OBVIOUS
<1> HIDE DEF T
<1>3. PICK x \in T : \A y \in T : ~ (<<y, x>> \in OpToRel(<, Nat))
  BY <1>1, <1>2, WFMin, Zenon
<1>4. \A y \in T : ~(y < x)
  BY <1>2, <1>3, Zenon DEF OpToRel
<1>5. x \in Nat /\ x \notin S
  BY DEF T
<1>6. x # 0 /\ x - 1 \in Nat /\ x - 1 < x /\ x - 1 + 1 = x
  BY <1>5
<1>7. x - 1 \notin T
  BY <1>4, <1>6
<1> QED
  BY <1>5, <1>6, <1>7 DEF T

\* The sum along a route.
SumOf(r) == CHOOSE sum : sum = [i \in 0..Len(r) |-> IF i = 0 THEN 0 ELSE sum[i - 1] + Adds(r[i])]

\* The total of a route is its sum to the end.
LEMMA TotalIs == ASSUME NEW r PROVE TotalOf(r) = SumOf(r)[Len(r)]
BY DEF TotalOf, SumOf

\* There is such a sum.
LEMMA SumExists ==
    ASSUME NEW r, Len(r) \in Nat
    PROVE  SumOf(r) = [i \in 0..Len(r) |-> IF i = 0 THEN 0 ELSE SumOf(r)[i - 1] + Adds(r[i])]
<1> DEFINE E(n, f) == f = [i \in 0..n |-> IF i = 0 THEN 0 ELSE f[i - 1] + Adds(r[i])]
           S == {n \in Nat : \E f : E(n, f)}
<1>1. 0 \in S
  <2>1. E(0, [i \in 0..0 |-> 0])
    OBVIOUS
  <2> QED
    BY <2>1
<1>2. ASSUME NEW n \in Nat, n \in S PROVE n + 1 \in S
  <2>1. PICK f : E(n, f)
    BY <1>2
  <2> DEFINE h == [i \in 0..n + 1 |-> IF i = n + 1 THEN f[n] + Adds(r[n + 1]) ELSE f[i]]
  <2>2. \A i \in 0..n + 1 : h[i] = IF i = 0 THEN 0 ELSE h[i - 1] + Adds(r[i])
    <3> SUFFICES ASSUME NEW i \in 0..n + 1 PROVE h[i] = IF i = 0 THEN 0 ELSE h[i - 1] + Adds(r[i])
      OBVIOUS
    <3>1. CASE i = n + 1
      BY <3>1
    <3>2. CASE i # n + 1
      <4>1. i \in 0..n /\ (i # 0 => i - 1 \in 0..n)
        BY <3>2
      <4>2. f[i] = IF i = 0 THEN 0 ELSE f[i - 1] + Adds(r[i])
        BY <2>1, <4>1
      <4> QED
        BY <3>2, <4>1, <4>2
    <3> QED
      BY <3>1, <3>2
  <2>3. h = [i \in 0..n + 1 |-> h[i]]
    OBVIOUS
  <2> HIDE DEF h
  <2>4. E(n + 1, h)
    BY <2>2, <2>3
  <2> QED
    BY <2>4
<1>3. Len(r) \in S
  <2> HIDE DEF S
  <2> QED
    BY <1>1, <1>2, Naturally
<1>4. PICK f : E(Len(r), f)
  BY <1>3
<1> QED
  BY <1>4 DEF SumOf

\* The walks of one round more.
Onward(S) == {r \in UNION {{q \o s : s \in UNION {Through(EndOf(q), al) : al \in group.alts}} : q \in S} :
                Acyclic(r) /\ Within(r)}

\* The walks, as their recursion has them.
LEMMA WalksAre ==
    ASSUME Longest \in Nat
    PROVE  Walks = [k \in 0..Longest |-> IF k = 0 THEN {<<>>} ELSE Onward(Walks[k - 1])]
<1> DEFINE E(n, f) == f = [k \in 0..n |-> IF k = 0 THEN {<<>>} ELSE Onward(f[k - 1])]
           S == {n \in Nat : \E f : E(n, f)}
<1>1. 0 \in S
  <2>1. E(0, [i \in 0..0 |-> {<<>>}])
    OBVIOUS
  <2> QED
    BY <2>1
<1>2. ASSUME NEW n \in Nat, n \in S PROVE n + 1 \in S
  <2>1. PICK f : E(n, f)
    BY <1>2
  <2> DEFINE h == [k \in 0..n + 1 |-> IF k = n + 1 THEN Onward(f[n]) ELSE f[k]]
  <2>2. \A k \in 0..n + 1 : h[k] = IF k = 0 THEN {<<>>} ELSE Onward(h[k - 1])
    <3> SUFFICES ASSUME NEW k \in 0..n + 1 PROVE h[k] = IF k = 0 THEN {<<>>} ELSE Onward(h[k - 1])
      OBVIOUS
    <3>1. CASE k = n + 1
      BY <3>1
    <3>2. CASE k # n + 1
      <4>1. k \in 0..n /\ (k # 0 => k - 1 \in 0..n)
        BY <3>2
      <4>2. f[k] = IF k = 0 THEN {<<>>} ELSE Onward(f[k - 1])
        BY <2>1, <4>1
      <4> QED
        BY <3>2, <4>1, <4>2
    <3> QED
      BY <3>1, <3>2
  <2>3. h = [k \in 0..n + 1 |-> h[k]]
    OBVIOUS
  <2> HIDE DEF h
  <2>4. E(n + 1, h)
    BY <2>2, <2>3
  <2> QED
    BY <2>4
<1>3. Longest \in S
  <2> HIDE DEF S
  <2> QED
    BY <1>1, <1>2, Naturally
<1>4. PICK f : E(Longest, f)
  BY <1>3
<1>5. Walks = CHOOSE x : E(Longest, x)
  BY DEF Walks, Onward
<1> QED
  BY <1>4, <1>5

-----------------------------------------------------------------------------
\* A route and one edge more.
LEMMA RouteOn ==
    ASSUME NEW r \in Seq(graph), NEW e \in graph
    PROVE  /\ Append(r, e) \in Seq(graph) /\ Len(Append(r, e)) = Len(r) + 1 /\ Len(r) \in Nat
           /\ DOMAIN r = 1..Len(r) /\ DOMAIN Append(r, e) = 1..Len(r) + 1
           /\ \A i \in 1..Len(r) : Append(r, e)[i] = r[i]
           /\ Append(r, e)[Len(r) + 1] = e
           /\ r = <<>> <=> Len(r) = 0
<1>1. Append(r, e) \in Seq(graph) /\ Len(Append(r, e)) = Len(r) + 1
  BY AppendProperties
<1>2. /\ \A i \in 1..Len(r) : Append(r, e)[i] = r[i]
      /\ Append(r, e)[Len(r) + 1] = e
  BY AppendProperties
<1>3. Len(r) \in Nat /\ DOMAIN r = 1..Len(r)
  OBVIOUS
<1>4. r = <<>> <=> Len(r) = 0
  BY EmptySeq
<1> QED
  BY <1>1, <1>2, <1>3, <1>4

\* The sum along it agrees with the sum along the route, and adds the edge.
LEMMA TotalOn ==
    ASSUME NEW r \in Seq(graph), NEW e \in graph
    PROVE  TotalOf(Append(r, e)) = TotalOf(r) + Adds(e)
<1> DEFINE t == Append(r, e)
           f == SumOf(r)
           h == SumOf(t)
           n == Len(r)
<1>1. /\ Len(t) = n + 1 /\ n \in Nat /\ t[n + 1] = e
      /\ \A i \in 1..n : t[i] = r[i]
  BY RouteOn
<1> HIDE DEF t, n
<1>2. f = [i \in 0..n |-> IF i = 0 THEN 0 ELSE f[i - 1] + Adds(r[i])]
  BY <1>1, SumExists DEF n
<1>3. h = [i \in 0..n + 1 |-> IF i = 0 THEN 0 ELSE h[i - 1] + Adds(t[i])]
  BY <1>1, SumExists
<1> HIDE DEF f, h
<1>2a. \A i \in 0..n : f[i] = IF i = 0 THEN 0 ELSE f[i - 1] + Adds(r[i])
  BY <1>2
<1>3a. \A i \in 0..n + 1 : h[i] = IF i = 0 THEN 0 ELSE h[i - 1] + Adds(t[i])
  BY <1>3
<1> DEFINE S == {i \in Nat : i <= n => h[i] = f[i]}
<1>4. 0 \in S
  BY <1>1, <1>2, <1>3
<1>5. ASSUME NEW i \in Nat, i \in S PROVE i + 1 \in S
  <2> SUFFICES ASSUME i + 1 <= n PROVE h[i + 1] = f[i + 1]
    OBVIOUS
  <2>1. h[i] = f[i]
    BY <1>1, <1>5
  <2>2. i + 1 \in 0..n /\ i + 1 \in 0..n + 1 /\ i + 1 # 0 /\ i + 1 - 1 = i /\ i + 1 \in 1..n
    BY <1>1
  <2>3. f[i + 1] = f[i] + Adds(r[i + 1])
    BY <1>2a, <2>2
  <2>4. h[i + 1] = h[i] + Adds(t[i + 1])
    BY <1>3a, <2>2
  <2> QED
    BY <1>1, <2>1, <2>2, <2>3, <2>4
<1>6. n \in S
  <2> HIDE DEF S
  <2> QED
    BY <1>1, <1>4, <1>5, Naturally
<1>7. h[n] = f[n]
  BY <1>1, <1>6
<1>8. h[n + 1] = h[n] + Adds(e)
  <2>1. n + 1 \in 0..n + 1 /\ n + 1 # 0 /\ n + 1 - 1 = n
    BY <1>1
  <2> QED
    BY <1>1, <1>3, <2>1
<1> QED
  BY <1>1, <1>7, <1>8, TotalIs DEF f, h, t, n

\* The path of the route.
LEMMA PathOn ==
    ASSUME NEW r \in Seq(graph), NEW e \in graph, ~SetWalk
    PROVE  AsPath(Append(r, e)) = Extended(AsPath(r), e)
<1> DEFINE t == Append(r, e)
<1>1. /\ Len(t) = Len(r) + 1 /\ Len(r) \in Nat
      /\ DOMAIN r = 1..Len(r) /\ DOMAIN t = 1..Len(r) + 1
      /\ \A i \in 1..Len(r) : t[i] = r[i]
      /\ t[Len(r) + 1] = e
  BY RouteOn
<1>2. t # <<>>
  BY <1>1
<1>3. TotalOf(t) = TotalOf(r) + Adds(e)
  BY TotalOn
<1> HIDE DEF t
<1>4. EndOf(t) = e.to
  BY <1>1, <1>2 DEF EndOf
<1>5. Visited(t) = Visited(r) \union {e.to}
  <2>1. \A i \in DOMAIN t : i \in DOMAIN r \/ i = Len(r) + 1
    BY <1>1
  <2>2. DOMAIN r \subseteq DOMAIN t /\ Len(r) + 1 \in DOMAIN t
    BY <1>1
  <2> QED
    BY <1>1, <2>1, <2>2 DEF Visited
<1>6. AsPath(t) = [node |-> e.to, ground |-> Visited(r) \union {e.to}, edge |-> e,
                   total |-> TotalOf(r) + Adds(e)]
  BY <1>1, <1>2, <1>3, <1>4, <1>5 DEF AsPath
<1> QED
  BY <1>6 DEF AsPath, Extended, t

\* It is acyclic, and within the budget, as far as the edge allows.
LEMMA AcyclicOn ==
    ASSUME NEW r \in Seq(graph), NEW e \in graph
    PROVE  Acyclic(Append(r, e)) <=> Acyclic(r) /\ e.to \notin Visited(r)
<1> DEFINE t == Append(r, e)
<1>1. /\ Len(r) \in Nat
      /\ DOMAIN r = 1..Len(r) /\ DOMAIN t = 1..Len(r) + 1
      /\ \A i \in 1..Len(r) : t[i] = r[i]
      /\ t[Len(r) + 1] = e
  BY RouteOn
<1> HIDE DEF t
<1>2. /\ \A i \in DOMAIN t : i \in DOMAIN r \/ i = Len(r) + 1
      /\ \A i \in DOMAIN r : i \in DOMAIN t /\ i # Len(r) + 1
      /\ Len(r) + 1 \in DOMAIN t
  BY <1>1
<1>3. Acyclic(t) => Acyclic(r) /\ e.to \notin Visited(r)
  <2> SUFFICES ASSUME Acyclic(t) PROVE Acyclic(r) /\ e.to \notin Visited(r)
    OBVIOUS
  <2>1. Acyclic(r)
    BY <1>1, <1>2 DEF Acyclic
  <2>2. \A i \in DOMAIN r : r[i].to # e.to
    BY <1>1, <1>2 DEF Acyclic
  <2>3. e.to # Start
    BY <1>1, <1>2 DEF Acyclic
  <2> QED
    BY <2>1, <2>2, <2>3 DEF Visited
<1>4. Acyclic(r) /\ e.to \notin Visited(r) => Acyclic(t)
  <2> SUFFICES ASSUME Acyclic(r), e.to \notin Visited(r) PROVE Acyclic(t)
    OBVIOUS
  <2>1. e.to # Start /\ \A i \in DOMAIN r : r[i].to # e.to
    BY DEF Visited
  <2>2. \A i \in DOMAIN t : t[i].to # Start
    BY <1>1, <1>2, <2>1 DEF Acyclic
  <2>3. \A i, j \in DOMAIN t : t[i].to = t[j].to => i = j
    <3> SUFFICES ASSUME NEW i \in DOMAIN t, NEW j \in DOMAIN t, t[i].to = t[j].to PROVE i = j
      OBVIOUS
    <3>1. CASE i \in DOMAIN r /\ j \in DOMAIN r
      BY <3>1, <1>1 DEF Acyclic
    <3>2. CASE i \in DOMAIN r /\ j = Len(r) + 1
      BY <3>2, <1>1, <2>1
    <3>3. CASE j \in DOMAIN r /\ i = Len(r) + 1
      BY <3>3, <1>1, <2>1
    <3> QED
      BY <3>1, <3>2, <3>3, <1>2
  <2> QED
    BY <2>2, <2>3 DEF Acyclic
<1> QED
  BY <1>3, <1>4 DEF t

\* ... within the budget, where its path affords the edge.
LEMMA WithinOn ==
    ASSUME NEW r \in Seq(graph), NEW e \in graph
    PROVE  Within(Append(r, e)) <=> Within(r) /\ Affords(AsPath(r), e)
<1> DEFINE t == Append(r, e)
           One(l) == Len(Weight[l]) = 1
           Low(n) == n <= group.budget.ceiling
<1>1. /\ Len(r) \in Nat /\ t \in Seq(graph) /\ Len(t) = Len(r) + 1
      /\ DOMAIN r = 1..Len(r) /\ DOMAIN t = 1..Len(r) + 1
      /\ \A i \in 1..Len(r) : t[i] = r[i]
      /\ t[Len(r) + 1] = e
  BY RouteOn
<1>2. TotalOf(t) = TotalOf(r) + Adds(e)
  BY TotalOn
<1> HIDE DEF t
<1>3. /\ \A i \in DOMAIN t : i \in DOMAIN r \/ i = Len(r) + 1
      /\ \A i \in DOMAIN r : i \in DOMAIN t /\ i # Len(r) + 1
      /\ Len(r) + 1 \in DOMAIN t
  BY <1>1
<1>4. \A i \in DOMAIN r : SubSeq(t, 1, i) = SubSeq(r, 1, i)
  <2> SUFFICES ASSUME NEW i \in 1..Len(r) PROVE SubSeq(t, 1, i) = SubSeq(r, 1, i)
    BY <1>1
  <2>1. SubSeq(t, 1, i) = [k \in 1..i |-> t[k]] /\ SubSeq(r, 1, i) = [k \in 1..i |-> r[k]]
    BY <1>1
  <2>2. \A k \in 1..i : t[k] = r[k]
    BY <1>1
  <2> QED
    BY <2>1, <2>2
<1>5. SubSeq(t, 1, Len(r) + 1) = t
  BY <1>1, SubSeqFull
<1>6. \A i \in DOMAIN r : TotalOf(SubSeq(t, 1, i)) = TotalOf(SubSeq(r, 1, i))
  BY <1>4
<1>7. TotalOf(SubSeq(t, 1, Len(r) + 1)) = TotalOf(r) + Adds(e)
  BY <1>2, <1>5
<1>8. (\A i \in DOMAIN t : One(t[i].label)) <=> (\A i \in DOMAIN r : One(r[i].label)) /\ One(e.label)
  <2> HIDE DEF One
  <2> QED
    BY <1>1, <1>3
<1>9. (\A i \in DOMAIN t : Low(TotalOf(SubSeq(t, 1, i))))
        <=> (\A i \in DOMAIN r : Low(TotalOf(SubSeq(r, 1, i)))) /\ Low(TotalOf(r) + Adds(e))
  <2> HIDE DEF Low
  <2> QED
    BY <1>3, <1>6, <1>7
<1>10. AsPath(r).total = TotalOf(r)
  BY DEF AsPath
<1>11. Affords(AsPath(r), e) <=>
         (Budgeted => (One(e.label) /\ (group.budget.ceiling # None => Low(TotalOf(r) + Adds(e)))))
  BY <1>10, Zenon DEF Affords
<1> DEFINE Light(u) == \A i \in DOMAIN u : One(u[i].label)
           Cheap(u) == \A i \in DOMAIN u : Low(TotalOf(SubSeq(u, 1, i)))
<1>12. /\ Within(t) <=> (Budgeted => (Light(t) /\ (group.budget.ceiling # None => Cheap(t))))
       /\ Within(r) <=> (Budgeted => (Light(r) /\ (group.budget.ceiling # None => Cheap(r))))
  BY Zenon DEF Within
<1>13. /\ Light(t) <=> (Light(r) /\ One(e.label))
       /\ Cheap(t) <=> (Cheap(r) /\ Low(TotalOf(r) + Adds(e)))
  BY <1>8, <1>9
<1> HIDE DEF Light, Cheap
<1> HIDE DEF One, Low
<1> QED
  BY <1>11, <1>12, <1>13 DEF t

\* A route after another.
LEMMA Joined ==
    ASSUME NEW q \in Seq(graph), NEW s \in Seq(graph)
    PROVE  /\ q \o s \in Seq(graph) /\ Len(q \o s) = Len(q) + Len(s)
           /\ Len(q) \in Nat /\ Len(s) \in Nat
           /\ \A i \in 1..Len(q) + Len(s) : (q \o s)[i] = IF i <= Len(q) THEN q[i] ELSE s[i - Len(q)]
<1>1. Len(q) \in Nat /\ Len(s) \in Nat
  OBVIOUS
<1>2. /\ q \o s \in Seq(graph) /\ Len(q \o s) = Len(q) + Len(s)
      /\ \A i \in 1..Len(q) + Len(s) : (q \o s)[i] = IF i <= Len(q) THEN q[i] ELSE s[i - Len(q)]
  BY ConcatProperties, Zenon
<1> QED
  BY <1>1, <1>2

\* A walk that stands on no node twice crosses fewer edges than there are nodes.
LEMMA ShortRoute ==
    ASSUME TypeOK, NEW r \in Seq(graph), Acyclic(r)
    PROVE  Len(r) <= Longest /\ Longest \in Nat
<1> DEFINE n == Len(r)
           f == [i \in 1..n |-> r[i].to]
           T == Nodes \ {Start}
<1>1. n \in Nat /\ DOMAIN r = 1..n /\ \A i \in 1..n : r[i] \in graph
  OBVIOUS
<1>2. IsFiniteSet(T) /\ Cardinality(T) = Longest /\ Cardinality(T) \in Nat
  <2>1. IsFiniteSet(Nodes) /\ Start \in Nodes
    BY NodesAssumption
  <2>2. IsFiniteSet(T) /\ Cardinality(T) = Cardinality(Nodes) - 1
    BY <2>1, FS_RemoveElement
  <2> QED
    BY <2>2, FS_CardinalityType DEF Longest
<1>3. graph \subseteq Edges
  BY InputTypes
<1>4. \A i \in 1..n : r[i].to \in T
  <2>1. \A i \in 1..n : r[i].to \in Nodes
    BY <1>1, <1>3 DEF Edges
  <2> QED
    BY <1>1, <2>1 DEF Acyclic
<1>5. f \in Injection(1..n, T)
  <2>1. f \in [1..n -> T]
    BY <1>4
  <2>2. \A i, j \in 1..n : f[i] = f[j] => i = j
    BY <1>1 DEF Acyclic
  <2> QED
    BY <2>1, <2>2 DEF Injection, IsInjective
<1> HIDE DEF f, T, n
<1>6. Cardinality(1..n) = n
  <2>1. 1 \in Int /\ n \in Int /\ (1 > n => n = 0) /\ n - 1 + 1 = n
    BY <1>1
  <2>2. Cardinality(1..n) = IF 1 > n THEN 0 ELSE n - 1 + 1
    BY <2>1, FS_Interval
  <2> QED
    BY <2>1, <2>2
<1>7. Cardinality(1..n) <= Cardinality(T)
  BY <1>2, <1>5, FS_Injection
<1> QED
  BY <1>2, <1>6, <1>7 DEF n

\* The first j edges of a walk on through an alternative, from the end of q.
Legs(q, al, j) ==
    {s \in [1..j -> graph] :
       /\ j # 0 => s[1].from = EndOf(q)
       /\ \A i \in 1..j : Crosses(al[i], s[i].label)
       /\ \A i \in 1..(j - 1) : s[i + 1].from = s[i].to
       /\ Acyclic(q \o s) /\ Within(q \o s)}

\* A walk of one round more is a walk and all the legs of an alternative.
LEMMA OnwardIs ==
    ASSUME TypeOK, NEW S, NEW r
    PROVE  r \in Onward(S) <=> \E q \in S : \E al \in group.alts : \E s \in Legs(q, al, Len(al)) : r = q \o s
<1>1. \A al \in group.alts : al \in Seq(Hop1) /\ Len(al) \in Nat /\ Len(al) # 0 /\ DOMAIN al = 1..Len(al)
  <2>1. \A al \in group.alts : al \in Seq(Hop1) /\ al # <<>>
    BY InputTypes
  <2> QED
    BY <2>1, EmptySeq
<1>2. ASSUME NEW q \in S, NEW al \in group.alts, NEW s
      PROVE  s \in Legs(q, al, Len(al)) <=> s \in Through(EndOf(q), al) /\ Acyclic(q \o s) /\ Within(q \o s)
  <2>1. Len(al) # 0 /\ DOMAIN al = 1..Len(al)
    BY <1>1
  <2> QED
    BY <2>1 DEF Legs, Through
<1>3. r \in Onward(S) <=> /\ \E q \in S : \E al \in group.alts : \E s \in Through(EndOf(q), al) : r = q \o s
                          /\ Acyclic(r) /\ Within(r)
  <2>1. \A q : r \in {q \o s : s \in UNION {Through(EndOf(q), al) : al \in group.alts}}
                <=> \E al \in group.alts : \E s \in Through(EndOf(q), al) : r = q \o s
    OBVIOUS
  <2>2. r \in UNION {{q \o s : s \in UNION {Through(EndOf(q), al) : al \in group.alts}} : q \in S}
          <=> \E q \in S : r \in {q \o s : s \in UNION {Through(EndOf(q), al) : al \in group.alts}}
    OBVIOUS
  <2> QED
    BY <2>1, <2>2 DEF Onward
<1>4. ASSUME NEW q \in S, NEW al \in group.alts
      PROVE  (\E s \in Legs(q, al, Len(al)) : r = q \o s)
               <=> (\E s \in Through(EndOf(q), al) : r = q \o s /\ Acyclic(r) /\ Within(r))
  BY <1>2
<1> QED
  BY <1>3, <1>4

\* The walks of k rounds, and none beyond the longest.
WalksOf(k) == IF k \in 0..Longest THEN Walks[k] ELSE {}

\* A walk is a route, acyclic and within the budget, and crosses an edge a round.
LEMMA WalkIs ==
    ASSUME TypeOK, NEW k \in Nat, NEW r \in WalksOf(k)
    PROVE  r \in Seq(graph) /\ k <= Len(r) /\ Acyclic(r) /\ Within(r)
<1> DEFINE Good(n) == \A q \in WalksOf(n) : q \in Seq(graph) /\ n <= Len(q) /\ Acyclic(q) /\ Within(q)
           S == {n \in Nat : Good(n)}
<1>1. 0 \in S
  <2>1. \A q \in WalksOf(0) : q = <<>>
    <3>1. CASE 0 \in 0..Longest
      <4>1. Longest \in Nat
        <5>1. Longest \in Int
          BY NodesAssumption, FS_CardinalityType DEF Longest
        <5> QED
          BY <3>1, <5>1
      <4>2. Walks[0] = {<<>>}
        BY <3>1, <4>1, WalksAre
      <4> QED
        BY <3>1, <4>2 DEF WalksOf
    <3>2. CASE 0 \notin 0..Longest
      BY <3>2 DEF WalksOf
    <3> QED
      BY <3>1, <3>2
  <2>2. <<>> \in Seq(graph) /\ Len(<<>>) = 0 /\ Acyclic(<<>>) /\ Within(<<>>)
    BY DEF Acyclic, Within
  <2>3. Good(0)
    <3> SUFFICES ASSUME NEW q \in WalksOf(0)
                 PROVE  q \in Seq(graph) /\ 0 <= Len(q) /\ Acyclic(q) /\ Within(q)
      OBVIOUS
    <3>1. q = <<>> /\ 0 <= 0
      BY <2>1
    <3> QED
      BY <2>2, <3>1
  <2> QED
    BY <2>3
<1>2. ASSUME NEW n \in Nat, n \in S PROVE n + 1 \in S
  <2> SUFFICES ASSUME NEW q \in WalksOf(n + 1)
               PROVE  q \in Seq(graph) /\ n + 1 <= Len(q) /\ Acyclic(q) /\ Within(q)
    OBVIOUS
  <2>0. Longest \in Int
    BY NodesAssumption, FS_CardinalityType DEF Longest
  <2>1. n + 1 \in 0..Longest /\ q \in Walks[n + 1]
    BY DEF WalksOf
  <2>2. n \in 0..Longest /\ Longest \in Nat
    BY <2>0, <2>1
  <2>3. Walks[n + 1] = Onward(Walks[n])
    <3>1. n + 1 # 0 /\ n + 1 - 1 = n
      OBVIOUS
    <3> QED
      BY <2>1, <2>2, <3>1, WalksAre
  <2>4. PICK p \in Walks[n] : \E al \in group.alts : \E s \in Legs(p, al, Len(al)) : q = p \o s
    <3>1. q \in Onward(Walks[n])
      BY <2>1, <2>3
    <3>2. q \in Onward(Walks[n]) <=>
            \E p \in Walks[n] : \E al \in group.alts : \E s \in Legs(p, al, Len(al)) : q = p \o s
      <4> HIDE DEF S, Good
      <4> QED
        BY OnwardIs
    <3> QED
      BY <3>1, <3>2, Zenon
  <2>10. PICK al \in group.alts : \E s \in Legs(p, al, Len(al)) : q = p \o s
    BY <2>4
  <2>11. PICK s \in Legs(p, al, Len(al)) : q = p \o s
    BY <2>10
  <2>5. Acyclic(q) /\ Within(q)
    BY <2>1, <2>3 DEF Onward
  <2>6. p \in Seq(graph) /\ n <= Len(p)
    BY <1>2, <2>2, <2>4 DEF WalksOf
  <2>7. Len(al) \in Nat /\ Len(al) # 0
    <3>1. al \in Seq(Hop1) /\ al # <<>>
      BY <2>10, InputTypes
    <3> QED
      BY <3>1, EmptySeq
  <2>8. s \in Seq(graph) /\ Len(s) = Len(al)
    <3>1. s \in [1..Len(al) -> graph]
      BY <2>11 DEF Legs
    <3> QED
      BY <2>7, <3>1
  <2>9. q \in Seq(graph) /\ Len(q) = Len(p) + Len(s)
    BY <2>11, <2>6, <2>8, Joined
  <2> QED
    BY <2>5, <2>6, <2>7, <2>8, <2>9
<1>3. k \in S
  <2> HIDE DEF S
  <2> QED
    BY <1>1, <1>2, Naturally
<1> QED
  BY <1>3

\* So the walks of a round follow from those of the round before, without end.
LEMMA WalksGoOn ==
    ASSUME TypeOK, NEW k \in Nat
    PROVE  WalksOf(k + 1) = Onward(WalksOf(k)) /\ WalksOf(0) = {<<>>}
<1>1. Longest \in Nat
  <2>1. <<>> \in Seq(graph) /\ Acyclic(<<>>)
    BY DEF Acyclic
  <2> QED
    BY <2>1, ShortRoute
<1>2. WalksOf(0) = {<<>>}
  BY <1>1, WalksAre DEF WalksOf
<1>3. CASE k + 1 \in 0..Longest
  <2>1. k \in 0..Longest /\ k + 1 # 0 /\ k + 1 - 1 = k
    BY <1>1, <1>3
  <2>2. Walks[k + 1] = Onward(Walks[k])
    BY <1>1, <1>3, <2>1, WalksAre
  <2> QED
    BY <1>2, <1>3, <2>1, <2>2 DEF WalksOf
<1>4. CASE k + 1 \notin 0..Longest
  <2>1. WalksOf(k + 1) = {}
    BY <1>4 DEF WalksOf
  <2>2. ASSUME NEW r \in Onward(WalksOf(k)) PROVE FALSE
    <3>0. PICK q \in WalksOf(k) : \E al \in group.alts : \E s \in Legs(q, al, Len(al)) : r = q \o s
      BY OnwardIs
    <3>7. PICK al \in group.alts : \E s \in Legs(q, al, Len(al)) : r = q \o s
      BY <3>0
    <3>1. PICK s \in Legs(q, al, Len(al)) : r = q \o s
      BY <3>7
    <3>2. q \in Seq(graph) /\ k <= Len(q)
      BY <3>1, WalkIs
    <3>3. Len(al) \in Nat /\ Len(al) # 0
      <4>1. al \in Seq(Hop1) /\ al # <<>>
        BY <3>1, InputTypes
      <4> QED
        BY <4>1, EmptySeq
    <3>4. s \in Seq(graph) /\ Len(s) = Len(al)
      <4>1. s \in [1..Len(al) -> graph]
        BY <3>1 DEF Legs
      <4> QED
        BY <3>3, <4>1
    <3>5. r \in Seq(graph) /\ Len(r) = Len(q) + Len(s) /\ Len(q) \in Nat
      BY <3>1, <3>2, <3>4, Joined
    <3>6. Len(r) <= Longest
      <4>1. Acyclic(r)
        BY DEF Onward
      <4> QED
        BY <3>5, <4>1, ShortRoute
    <3> QED
      BY <1>1, <1>4, <3>2, <3>3, <3>4, <3>5, <3>6
  <2> QED
    BY <1>2, <2>1, <2>2
<1> QED
  BY <1>3, <1>4

\* A leg more.
LEMMA LegOn ==
    ASSUME TypeOK, NEW q \in Seq(graph), NEW al \in Seq(Hop1), NEW j \in Nat, j < Len(al),
           NEW s \in Legs(q, al, j), NEW e \in graph
    PROVE  /\ s \in Seq(graph) /\ Len(s) = j /\ q \o s \in Seq(graph)
           /\ q \o Append(s, e) = Append(q \o s, e)
           /\ Append(s, e) \in Legs(q, al, j + 1)
                <=> /\ e.from = EndOf(q \o s) /\ Crosses(al[j + 1], e.label)
                    /\ e.to \notin Visited(q \o s) /\ Affords(AsPath(q \o s), e)
<1> DEFINE t == Append(s, e)
           r == q \o s
<1>1. s \in [1..j -> graph] /\ Acyclic(r) /\ Within(r)
  BY DEF Legs
<1>2. s \in Seq(graph) /\ Len(s) = j
  BY <1>1
<1>3. /\ t \in Seq(graph) /\ Len(t) = j + 1 /\ DOMAIN t = 1..j + 1 /\ t[j + 1] = e
      /\ \A i \in 1..j : t[i] = s[i]
  BY <1>2, RouteOn
<1>4. r \in Seq(graph) /\ Len(r) = Len(q) + j /\ Len(q) \in Nat
      /\ \A i \in 1..Len(q) + j : r[i] = IF i <= Len(q) THEN q[i] ELSE s[i - Len(q)]
  BY <1>2, Joined
<1>5. q \o t = Append(r, e)
  <2>1. t = s \o <<e>> /\ Append(r, e) = r \o <<e>> /\ <<e>> \in Seq(graph)
    BY <1>2, <1>4, AppendIsConcat
  <2> QED
    BY <1>2, <2>1, ConcatAssociative
<1>6. t \in [1..j + 1 -> graph]
  <2> HIDE DEF t
  <2> QED
    BY <1>3
<1>7. EndOf(r) = IF j = 0 THEN EndOf(q) ELSE s[j].to
  <2>1. CASE j = 0
    <3>1. s = <<>>
      BY <1>2, <2>1
    <3> QED
      BY <2>1, <3>1, ConcatEmptySeq
  <2>2. CASE j # 0
    <3>1. Len(r) \in 1..Len(q) + j /\ ~(Len(r) <= Len(q)) /\ Len(r) - Len(q) = j /\ Len(r) # 0
      BY <1>4, <2>2
    <3>2. r[Len(r)] = s[j]
      BY <1>4, <3>1
    <3>3. r # <<>>
      BY <3>1
    <3> QED
      BY <2>2, <3>2, <3>3 DEF EndOf
  <2> QED
    BY <2>1, <2>2
<1> HIDE DEF t, r
<1>8. Acyclic(q \o t) <=> e.to \notin Visited(r)
  BY <1>1, <1>4, <1>5, AcyclicOn
<1>9. Within(q \o t) <=> Affords(AsPath(r), e)
  BY <1>1, <1>4, <1>5, WithinOn
<1>10. (\A i \in 1..j + 1 : Crosses(al[i], t[i].label)) <=> Crosses(al[j + 1], e.label)
  <2>1. \A i \in 1..j : Crosses(al[i], t[i].label)
    BY <1>3 DEF Legs
  <2>2. \A i \in 1..j + 1 : i \in 1..j \/ i = j + 1
    OBVIOUS
  <2>3. j + 1 \in 1..j + 1
    OBVIOUS
  <2> QED
    BY <1>3, <2>1, <2>2, <2>3
<1>11. (/\ j + 1 # 0 => t[1].from = EndOf(q)
        /\ \A i \in 1..j + 1 - 1 : t[i + 1].from = t[i].to)
         <=> e.from = EndOf(r)
  <2>1. CASE j = 0
    <3>1. t[1] = e /\ EndOf(r) = EndOf(q) /\ 1..j + 1 - 1 = {} /\ j + 1 # 0
      BY <1>3, <1>7, <2>1
    <3>2. \A i \in 1..j + 1 - 1 : t[i + 1].from = t[i].to
      BY <3>1
    <3> QED
      BY <3>1, <3>2
  <2>2. CASE j # 0
    <3>1. t[1] = s[1] /\ t[j] = s[j] /\ s[1].from = EndOf(q)
      BY <1>3, <2>2 DEF Legs
    <3>2. \A i \in 1..j - 1 : t[i + 1].from = t[i].to
      <4>1. \A i \in 1..j - 1 : i \in 1..j /\ i + 1 \in 1..j
        OBVIOUS
      <4>2. \A i \in 1..j - 1 : s[i + 1].from = s[i].to
        BY DEF Legs
      <4> QED
        BY <1>3, <4>1, <4>2
    <3>3. \A i \in 1..j + 1 - 1 : i \in 1..j - 1 \/ i = j
      OBVIOUS
    <3>4. j \in 1..j + 1 - 1
      BY <2>2
    <3>5. (\A i \in 1..j + 1 - 1 : t[i + 1].from = t[i].to) <=> e.from = s[j].to
      BY <1>3, <3>1, <3>2, <3>3, <3>4
    <3> QED
      BY <1>7, <2>2, <3>1, <3>5
  <2> QED
    BY <2>1, <2>2
<1>12. t \in Legs(q, al, j + 1) <=>
         /\ j + 1 # 0 => t[1].from = EndOf(q)
         /\ \A i \in 1..j + 1 : Crosses(al[i], t[i].label)
         /\ \A i \in 1..(j + 1 - 1) : t[i + 1].from = t[i].to
         /\ Acyclic(q \o t) /\ Within(q \o t)
  BY <1>6 DEF Legs
<1> QED
  BY <1>2, <1>4, <1>5, <1>8, <1>9, <1>10, <1>11, <1>12 DEF t, r

\* And every leg has those before it.
LEMMA LegBack ==
    ASSUME TypeOK, NEW q \in Seq(graph), NEW al \in Seq(Hop1), NEW j \in Nat, j < Len(al),
           NEW t \in Legs(q, al, j + 1)
    PROVE  \E s \in Legs(q, al, j) : \E e \in graph : t = Append(s, e)
<1>1. t \in Seq(graph) /\ Len(t) = j + 1 /\ t # <<>>
  <2>1. t \in [1..j + 1 -> graph]
    BY DEF Legs
  <2> QED
    BY <2>1
<1>2. PICK s \in Seq(graph), e \in graph : t = Append(s, e)
  BY <1>1, SequenceEmptyOrAppend
<1>3. Len(s) = j /\ \A i \in 1..j : t[i] = s[i]
  BY <1>1, <1>2, RouteOn
<1>4. q \o s \in Seq(graph) /\ q \o t = Append(q \o s, e)
  <2>1. q \o s \in Seq(graph)
    BY ConcatProperties
  <2>2. t = s \o <<e>> /\ Append(q \o s, e) = (q \o s) \o <<e>> /\ <<e>> \in Seq(graph)
    BY <1>2, <2>1, AppendIsConcat
  <2> QED
    BY <2>1, <2>2, ConcatAssociative
<1>5. Acyclic(q \o s) /\ Within(q \o s)
  <2>1. Acyclic(q \o t) /\ Within(q \o t)
    BY DEF Legs
  <2> QED
    BY <1>4, <2>1, AcyclicOn, WithinOn
<1>6. s \in [1..j -> graph]
  BY <1>3
<1>7. /\ j # 0 => s[1].from = EndOf(q)
      /\ \A i \in 1..j : Crosses(al[i], s[i].label)
      /\ \A i \in 1..(j - 1) : s[i + 1].from = s[i].to
  <2>1. /\ t[1].from = EndOf(q)
        /\ \A i \in 1..j + 1 : Crosses(al[i], t[i].label)
        /\ \A i \in 1..(j + 1 - 1) : t[i + 1].from = t[i].to
    BY DEF Legs
  <2>2. \A i \in 1..j - 1 : i \in 1..j /\ i + 1 \in 1..j /\ i \in 1..(j + 1 - 1)
    OBVIOUS
  <2>3. \A i \in 1..j : i \in 1..j + 1
    OBVIOUS
  <2>4. j # 0 => 1 \in 1..j
    OBVIOUS
  <2> QED
    BY <1>3, <2>1, <2>2, <2>3, <2>4
<1>8. s \in Legs(q, al, j)
  BY <1>5, <1>6, <1>7 DEF Legs
<1> QED
  BY <1>2, <1>8

\* Where there is no leg, there is none after it.
LEMMA NoLegs ==
    ASSUME TypeOK, NEW q \in Seq(graph), NEW al \in Seq(Hop1), NEW j \in Nat, j <= Len(al),
           Legs(q, al, j) = {}
    PROVE  Legs(q, al, Len(al)) = {}
<1> DEFINE S == {n \in Nat : j + n <= Len(al) => Legs(q, al, j + n) = {}}
<1>1. 0 \in S /\ Len(al) \in Nat
  OBVIOUS
<1>2. ASSUME NEW n \in Nat, n \in S PROVE n + 1 \in S
  <2> SUFFICES ASSUME j + (n + 1) <= Len(al), NEW t \in Legs(q, al, j + (n + 1)) PROVE FALSE
    OBVIOUS
  <2>1. j + n \in Nat /\ j + n < Len(al) /\ j + (n + 1) = (j + n) + 1
    BY <1>1
  <2>2. \E s \in Legs(q, al, j + n) : TRUE
    <3> HIDE DEF S
    <3>1. t \in Legs(q, al, (j + n) + 1)
      BY <2>1
    <3> QED
      BY <2>1, <3>1, LegBack
  <2> QED
    BY <1>2, <2>1, <2>2
<1>3. Len(al) - j \in S
  <2>1. Len(al) - j \in Nat
    BY <1>1
  <2> HIDE DEF S
  <2> QED
    BY <1>1, <1>2, <2>1, Naturally
<1> QED
  BY <1>1, <1>3

\* Without a budget nothing weighs.
LEMMA Unweighed ==
    ASSUME ~Budgeted, NEW r \in Seq(graph)
    PROVE  TotalOf(r) = 0
<1> DEFINE S == {n \in Nat : \A q \in Seq(graph) : Len(q) = n => TotalOf(q) = 0}
<1>1. \A q \in Seq(graph) : Len(q) = 0 => TotalOf(q) = 0
  <2> SUFFICES ASSUME NEW q \in Seq(graph), Len(q) = 0 PROVE TotalOf(q) = 0
    OBVIOUS
  <2>1. SumOf(q) = [i \in 0..0 |-> IF i = 0 THEN 0 ELSE SumOf(q)[i - 1] + Adds(q[i])]
    BY SumExists
  <2>2. \A i \in 0..0 : SumOf(q)[i] = IF i = 0 THEN 0 ELSE SumOf(q)[i - 1] + Adds(q[i])
    BY <2>1
  <2> QED
    BY <2>2, TotalIs
<1>2. ASSUME NEW n \in Nat, n \in S PROVE n + 1 \in S
  <2> SUFFICES ASSUME NEW q \in Seq(graph), Len(q) = n + 1 PROVE TotalOf(q) = 0
    OBVIOUS
  <2>1. q # <<>>
    OBVIOUS
  <2>2. PICK p \in Seq(graph), e \in graph : q = Append(p, e)
    BY <2>1, SequenceEmptyOrAppend
  <2>3. Len(q) = Len(p) + 1 /\ Len(p) \in Nat
    BY <2>2, RouteOn
  <2>4. TotalOf(p) = 0
    BY <1>2, <2>3
  <2>5. TotalOf(q) = TotalOf(p) + Adds(e)
    BY <2>2, TotalOn
  <2>6. Adds(e) = 0
    BY DEF Adds
  <2> QED
    BY <2>4, <2>5, <2>6
<1>3. Len(r) \in S
  <2>1. Len(r) \in Nat /\ 0 \in S
    BY <1>1
  <2> HIDE DEF S
  <2> QED
    BY <1>2, <2>1, Naturally
<1> QED
  BY <1>3

\* Where no two paths share a key, none is dropped.
LEMMA OneEach ==
    ASSUME NEW S, \A p, q \in S : KeyOf(p) = KeyOf(q) => p = q
    PROVE  OnePerKey(S) = {S}
<1> DEFINE twins == {p \in S : \E q \in S : q # p /\ KeyOf(q) = KeyOf(p)}
           Us == {U \in SUBSET twins : \A p \in twins : \E q \in U : {r \in U : KeyOf(r) = KeyOf(p)} = {q}}
<1>1. twins = {}
  OBVIOUS
<1>2. Us = {{}}
  <2> HIDE DEF twins
  <2> QED
    BY <1>1
<1>3. OnePerKey(S) = {(S \ twins) \union T : T \in Us}
  BY DEF OnePerKey
<1> HIDE DEF twins, Us
<1> QED
  BY <1>1, <1>2, <1>3

\* The inputs never change, and nothing said of the walks does.
LEMMA WalksSteady ==
    ASSUME graph' = graph, group' = group
    PROVE  Walks' = Walks /\ Longest' = Longest
BY DEF Walks, TotalOf, Adds, Budgeted, Longest, Through, EndOf, Acyclic, Within

\* ... of a route,
LEMMA RoutesSteady ==
    ASSUME graph' = graph, group' = group, NEW r
    PROVE  /\ AsPath(r)' = AsPath(r) /\ TotalOf(r)' = TotalOf(r) /\ EndOf(r)' = EndOf(r)
           /\ Visited(r)' = Visited(r)
           /\ Acyclic(r)' <=> Acyclic(r)
           /\ Within(r)' <=> Within(r)
           /\ Admits(AsPath(r))' <=> Admits(AsPath(r))
<1>1. TotalOf(r)' = TotalOf(r)
  BY DEF TotalOf, Adds, Budgeted
<1>2. EndOf(r)' = EndOf(r) /\ Visited(r)' = Visited(r) /\ (Acyclic(r)' <=> Acyclic(r))
  BY DEF EndOf, Visited, Acyclic
<1>3. AsPath(r)' = AsPath(r)
  BY <1>1, <1>2 DEF AsPath
<1>4. Within(r)' <=> Within(r)
  BY DEF TotalOf, Adds, Budgeted, Within
<1>5. Admits(AsPath(r))' <=> Admits(AsPath(r))
  BY <1>3 DEF Admits, Budgeted
<1> QED
  BY <1>1, <1>2, <1>3, <1>4, <1>5

\* Where a round has no walk, no later one has.
LEMMA NoWalksOn ==
    ASSUME TypeOK, NEW n \in Nat, WalksOf(n) = {}, NEW i \in Nat, n <= i
    PROVE  WalksOf(i) = {}
<1> DEFINE S == {m \in Nat : WalksOf(n + m) = {}}
<1>1. 0 \in S
  OBVIOUS
<1>2. ASSUME NEW m \in Nat, m \in S PROVE m + 1 \in S
  <2>1. WalksOf(n + m) = {} /\ n + m \in Nat
    BY <1>2
  <2>2. WalksOf(n + m + 1) = Onward({})
    BY <2>1, WalksGoOn
  <2>3. Onward({}) = {}
    BY DEF Onward
  <2>4. n + (m + 1) = n + m + 1 /\ m + 1 \in Nat
    OBVIOUS
  <2> QED
    BY <2>2, <2>3, <2>4
<1>3. i - n \in S
  <2>1. i - n \in Nat
    OBVIOUS
  <2> HIDE DEF S
  <2> QED
    BY <1>1, <1>2, <2>1, Naturally
<1>4. n + (i - n) = i
  OBVIOUS
<1> QED
  BY <1>3, <1>4

\* The rest of an alternative after j hops.
LEMMA RestOf ==
    ASSUME NEW al \in Seq(Hop1), NEW j \in Nat, j < Len(al)
    PROVE  /\ Head(SubSeq(al, j + 1, Len(al))) = al[j + 1]
           /\ Tail(SubSeq(al, j + 1, Len(al))) = SubSeq(al, j + 2, Len(al))
           /\ SubSeq(al, j + 2, Len(al)) = <<>> <=> Len(al) <= j + 1
<1>1. Len(al) \in Nat
  OBVIOUS
<1>2. j + 1 \in 1..Len(al) /\ Len(al) \in j + 1..Len(al) /\ j + 1 + 1 = j + 2
  BY <1>1
<1>3. /\ Head(SubSeq(al, j + 1, Len(al))) = al[j + 1]
      /\ Tail(SubSeq(al, j + 1, Len(al))) = SubSeq(al, j + 1 + 1, Len(al))
  BY <1>2, HeadTailOfSubSeq
<1>4. /\ SubSeq(al, j + 2, Len(al)) \in Seq(Hop1)
      /\ Len(SubSeq(al, j + 2, Len(al))) = IF j + 2 <= Len(al) THEN Len(al) - (j + 2) + 1 ELSE 0
  <2>1. j + 2 \in Int /\ Len(al) \in Int /\ \A i \in j + 2..Len(al) : al[i] \in Hop1
    BY <1>1
  <2> QED
    BY <2>1, SubSeqProperties
<1>5. SubSeq(al, j + 2, Len(al)) = <<>> <=> Len(SubSeq(al, j + 2, Len(al))) = 0
  BY <1>4, EmptySeq
<1>6. Len(SubSeq(al, j + 2, Len(al))) = 0 <=> Len(al) <= j + 1
  <2>1. Len(SubSeq(al, j + 2, Len(al))) = IF j + 2 <= Len(al) THEN Len(al) - (j + 2) + 1 ELSE 0
    BY <1>4
  <2> QED
    BY <1>1, <2>1
<1> QED
  BY <1>2, <1>3, <1>5, <1>6

\* The path p is the one of a leg more.
LegTo(q, al, j, s, p) ==
    \E e \in graph : Append(s, e) \in Legs(q, al, j + 1) /\ p = AsPath(q \o Append(s, e))

\* A hop of a path is a leg more.
LEMMA OneHop ==
    ASSUME TypeOK, ~SetWalk, NEW k \in Nat, NEW q \in WalksOf(k), NEW al \in group.alts,
           NEW j \in Nat, j < Len(al), NEW s \in Legs(q, al, j), NEW p
    PROVE  p \in Hops(AsPath(q \o s), al[j + 1]) <=> LegTo(q, al, j, s, p)
<1>1. q \in Seq(graph) /\ al \in Seq(Hop1)
  BY WalkIs, InputTypes
<1>2. \A e \in graph :
           /\ q \o s \in Seq(graph) /\ q \o Append(s, e) = Append(q \o s, e)
           /\ Append(s, e) \in Legs(q, al, j + 1)
                <=> /\ e.from = EndOf(q \o s) /\ Crosses(al[j + 1], e.label)
                    /\ e.to \notin Visited(q \o s) /\ Affords(AsPath(q \o s), e)
  BY <1>1, LegOn
<1>3. \A e \in graph : AsPath(q \o Append(s, e)) = Extended(AsPath(q \o s), e)
  BY <1>2, PathOn
<1>4. AsPath(q \o s).node = EndOf(q \o s) /\ AsPath(q \o s).ground = Visited(q \o s)
  BY DEF AsPath
<1>5. p \in Hops(AsPath(q \o s), al[j + 1]) <=>
        \E e \in graph : /\ e.from = AsPath(q \o s).node /\ Crosses(al[j + 1], e.label)
                         /\ e.to \notin AsPath(q \o s).ground /\ Affords(AsPath(q \o s), e)
                         /\ p = Extended(AsPath(q \o s), e)
  BY DEF Hops, Selected
<1>6. p \in Hops(AsPath(q \o s), al[j + 1]) <=>
        \E e \in graph : Append(s, e) \in Legs(q, al, j + 1) /\ p = AsPath(q \o Append(s, e))
  BY <1>2, <1>3, <1>4, <1>5
<1> QED
  BY <1>6 DEF LegTo

=============================================================================
