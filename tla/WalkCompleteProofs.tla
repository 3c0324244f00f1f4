-------------------------- MODULE WalkCompleteProofs --------------------------
(***************************************************************************)
(* Proofs that walks are complete, for every graph, group, weight and      *)
(* bound.  An exact walk holds, round by round, one path for every walk of *)
(* as many rounds, with the ground that walk visited or, where walks are   *)
(* merged by position, that of every walk of its position.                 *)
(***************************************************************************)
EXTENDS WalkProofs

\* A walk of every matching path, whose totals its keys tell.
Exact == group.reach = "all" /\ ~NodeLevel /\ (Budgeted => TotalsAgree)

\* The walks read by node are merged while every edge that ends a round is promised.
Merging == NodeLevel /\ ~SetWalk /\ ~Budgeted
AllPromised(k) == \A j \in 1..k : \A r \in WalksOf(j) : r[Len(r)].label \in Promised

\* An exact walk of which the answer tells: where it merges, its promise holds yet or
\* the merges united nothing.
Told == /\ ~SetWalk /\ ~Lightest /\ (Budgeted => TotalsAgree)
        /\ (Merging => alive \/ MergesTell)

\* The walks that stand where r does after k rounds, and what r's path carries of
\* their grounds.
Meeting(k, r) == {q \in WalksOf(k) : /\ AsPath(q).node = AsPath(r).node
                                     /\ AsPath(q).edge = AsPath(r).edge}
Carry(k, r) == IF Merging /\ AllPromised(k) THEN UNION {Visited(q) : q \in Meeting(k, r)} ELSE {}
Over(p, g) == [node |-> p.node, ground |-> p.ground \union g, edge |-> p.edge, total |-> p.total]

\* The paths of k rounds, and the matches among them.
Paths(k) == {Over(AsPath(r), Carry(k, r)) : r \in WalksOf(k)}
MatchesAt(k) == {[path |-> p, round |-> k] : p \in {q \in Paths(k) : Admits(q)}}
MatchesTo(n) == UNION {MatchesAt(k) : k \in group.min..n}
Expected == UNION {{[path |-> AsPath(r), round |-> k] : r \in FoundAt(k)} : k \in Reached}

\* After j hops of the round past k: what is under way, and what has arrived.
Flying(k, j) ==
    UNION {UNION {{[path |-> Over(AsPath(q \o s), Carry(k, q)), rest |-> SubSeq(al, j + 1, Len(al))] :
                     s \in Legs(q, al, j)} : q \in WalksOf(k)} : al \in {a \in group.alts : j < Len(a)}}
Landed(k, j) ==
    UNION {UNION {{Over(AsPath(q \o s), Carry(k, q)) : s \in Legs(q, al, Len(al))} : q \in WalksOf(k)} :
             al \in {a \in group.alts : Len(a) <= j}}
Arrivals(k) ==
    UNION {UNION {{Over(AsPath(q \o s), Carry(k, q)) : s \in Legs(q, al, Len(al))} : q \in WalksOf(k)} :
             al \in group.alts}

\* None of these hops led to what its path carries.
Free(s, i, g) == \A z \in 1..i : s[z].to \notin g
Met(k, j) == \A q \in WalksOf(k), al \in group.alts, i \in Nat :
                i <= j /\ i <= Len(al) => \A s \in Legs(q, al, i) : Free(s, i, Carry(k, q))

\* No walk of k rounds, or of any before the n-th, begins a hop to a node it has
\* visited.
NoReturnAt(k) == \A q \in WalksOf(k) : \A e \in NextEdges(q) : e.to \notin Visited(q)
NoReturn(n) == \A k \in Nat : k < n => NoReturnAt(k)
Unreturned == \A k \in Nat : NoReturnAt(k)

\* The promise as the rounds so far have kept it.
PromiseAt(n) == /\ alive <=> AllPromised(n)
                /\ promise <=> IF n = 0 THEN ExactPromise ELSE AllPromised(n)

\* A round follows the n-th.
InBounds(n) == n < Ceiling \/ (Open /\ n = Ceiling)

\* The wave past round n, after j hops.
WaveAt(n, j) == /\ InBounds(n) /\ matches = MatchesTo(n)
                /\ flight = Flying(n, j) /\ arrived = Landed(n, j)
                /\ Met(n, j) /\ PromiseAt(n)
                /\ ExactPromise => NoReturn(IF j = 0 THEN n ELSE n + 1)

\* No later round would change the answer.
Final(n) == /\ matches = MatchesTo(n) /\ (group.max # None => n <= group.max)
            /\ \/ \A k \in Nat : n < k /\ (group.max # None => k <= group.max) => WalksOf(k) = {}
               \/ group.reach = "proximal" /\ matches # {}
            /\ ExactPromise /\ group.max = None /\ group.reach = "all" => Unreturned

\* What the paths of the rounds say of the answer.
Fulfilled == /\ Complete
             /\ Exact => answer = Expected
             /\ ExactPromise /\ group.max = None /\ group.reach = "all" => Unreturned

\* What an exact walk carries from round to round, and between the hops of one.
WaveInv ==
    Told =>
      /\ pc # "settle"
      /\ pc = "entry" => count = 0 /\ matches = {}
      /\ pc \in {"entry", "round"} => frontier = Paths(count) /\ PromiseAt(count)
      /\ pc = "round" => InBounds(count) /\ matches = MatchesTo(count) /\ (ExactPromise => NoReturn(count))
      /\ pc = "hop" => \E n \in Nat : \E j \in Nat : count = n + 1 /\ WaveAt(n, j)
      /\ pc = "reach" => \E n \in Nat : Final(n)
      /\ Answered => Fulfilled

\* Members of the two, one by one.
LEMMA FlyingIs ==
    ASSUME NEW k, NEW j, NEW f
    PROVE  f \in Flying(k, j) <=>
             \E q \in WalksOf(k) : \E al \in group.alts : \E s \in Legs(q, al, j) :
                /\ j < Len(al)
                /\ f = [path |-> Over(AsPath(q \o s), Carry(k, q)), rest |-> SubSeq(al, j + 1, Len(al))]
BY DEF Flying

\* ... of what has arrived,
LEMMA LandedIs ==
    ASSUME NEW k, NEW j, NEW p
    PROVE  p \in Landed(k, j) <=>
             \E q \in WalksOf(k) : \E al \in group.alts : \E s \in Legs(q, al, Len(al)) :
                Len(al) <= j /\ p = Over(AsPath(q \o s), Carry(k, q))
BY DEF Landed

\* ... and of all that arrives.
LEMMA ArrivalsAre ==
    ASSUME NEW k, NEW p
    PROVE  p \in Arrivals(k) <=>
             \E q \in WalksOf(k) : \E al \in group.alts : \E s \in Legs(q, al, Len(al)) :
                p = Over(AsPath(q \o s), Carry(k, q))
BY DEF Arrivals

\* What a path carries has been visited by a walk that stands where it does, and holds
\* what its own has visited where anything is merged.
LEMMA CarryIs ==
    ASSUME NEW k, NEW r \in WalksOf(k)
    PROVE  /\ Merging /\ AllPromised(k) => Visited(r) \subseteq Carry(k, r)
           /\ ~(Merging /\ AllPromised(k)) => Carry(k, r) = {}
           /\ \A v \in Carry(k, r) : \E q \in Meeting(k, r) : v \in Visited(q)
<1>1. r \in Meeting(k, r)
  BY DEF Meeting
<1> QED
  BY <1>1 DEF Carry

\* Without a merge a path is its walk's own.
LEMMA OverNothing ==
    ASSUME NEW r
    PROVE  Over(AsPath(r), {}) = AsPath(r)
BY DEF Over, AsPath

\* Where the merges unite nothing, no path carries more than it has visited.
LEMMA TellsAll ==
    ASSUME TypeOK, MergesTell, NEW k \in Nat, NEW r \in WalksOf(k)
    PROVE  Carry(k, r) \subseteq Visited(r)
<1>1. CASE ~(Merging /\ AllPromised(k))
  BY <1>1, CarryIs
<1>2. CASE Merging /\ AllPromised(k)
  <2>1. k \in 0..Longest /\ Longest \in Int
    BY NodesAssumption, FS_CardinalityType DEF WalksOf, Longest
  <2>2. \A j \in 1..k : WalksOf(j) = Walks[j]
    <3>1. \A j \in 1..k : j \in 0..Longest
      BY <2>1
    <3> QED
      BY <3>1 DEF WalksOf
  <2>3. ArrivesPromised(k)
    BY <1>2, <2>2 DEF AllPromised, ArrivesPromised
  <2>4. \A q \in WalksOf(k) : AsPath(q).node = AsPath(r).node /\ AsPath(q).edge = AsPath(r).edge
                                => Visited(q) = Visited(r)
    BY <2>1, <2>3 DEF MergesTell, WalksOf
  <2> QED
    BY <2>4 DEF Carry, Meeting
<1> QED
  BY <1>1, <1>2

\* The total of a walk is a number its path's key tells.
LEMMA KeysTell ==
    ASSUME TypeOK, Told, NEW k \in Nat, NEW r \in WalksOf(k), NEW s \in WalksOf(k), NEW g, NEW h,
           Merging \/ (g = {} /\ h = {}),
           KeyOf(Over(AsPath(r), g)) = KeyOf(Over(AsPath(s), h))
    PROVE  Over(AsPath(r), g) = Over(AsPath(s), h)
<1>1. TotalOf(r) = TotalOf(s)
  <2>1. CASE Budgeted
    <3>1. r \in AllWalks /\ s \in AllWalks
      BY DEF WalksOf, AllWalks
    <3>2. g = {} /\ h = {}
      BY <2>1 DEF Merging
    <3>3. KeyOf(AsPath(r)) = KeyOf(AsPath(s))
      BY <3>2, OverNothing
    <3> QED
      BY <2>1, <3>1, <3>3 DEF Told, TotalsAgree
  <2>2. CASE ~Budgeted
    BY <2>2, WalkIs, Unweighed
  <2> QED
    BY <2>1, <2>2
<1>2. AsPath(r).node = AsPath(s).node /\ AsPath(r).ground \union g = AsPath(s).ground \union h
      /\ AsPath(r).edge = AsPath(s).edge
  BY DEF KeyOf, Over
<1>3. AsPath(r).total = AsPath(s).total
  BY <1>1 DEF AsPath
<1> QED
  BY <1>2, <1>3 DEF Over

\* Nothing said of a wave changes while the inputs do not.
LEMMA WaveSteady ==
    ASSUME graph' = graph, group' = group, NEW k, NEW j
    PROVE  /\ WalksOf(k)' = WalksOf(k) /\ Paths(k)' = Paths(k)
           /\ MatchesTo(k)' = MatchesTo(k)
           /\ Flying(k, j)' = Flying(k, j) /\ Landed(k, j)' = Landed(k, j)
           /\ AllPromised(k)' <=> AllPromised(k)
           /\ Met(k, j)' <=> Met(k, j)
           /\ NoReturn(k)' <=> NoReturn(k)
           /\ Unreturned' <=> Unreturned
<1>1. \A i : WalksOf(i)' = WalksOf(i)
  BY WalksSteady DEF WalksOf
<1>2. \A i : AllPromised(i)' <=> AllPromised(i)
  BY <1>1 DEF AllPromised
<1>3. \A i, r : Carry(i, r)' = Carry(i, r)
  <2>1. \A i, r : Meeting(i, r)' = Meeting(i, r)
    BY <1>1, RoutesSteady DEF Meeting
  <2>2. Merging' <=> Merging
    BY DEF Merging, NodeLevel, SetWalk, Budgeted
  <2> QED
    BY <1>2, <2>1, <2>2, RoutesSteady DEF Carry
<1>4. \A p, g : Over(p, g)' = Over(p, g)
  BY DEF Over
<1>5. \A i : Paths(i)' = Paths(i)
  BY <1>1, <1>3, RoutesSteady DEF Paths, Over
<1>6. \A p : Admits(p)' <=> Admits(p)
  BY DEF Admits, Budgeted
<1>7. \A i : MatchesAt(i)' = MatchesAt(i)
  BY <1>5, <1>6 DEF MatchesAt
<1>8. MatchesTo(k)' = MatchesTo(k)
  BY <1>7 DEF MatchesTo
<1>9. \A q, al, i : Legs(q, al, i)' = Legs(q, al, i)
  BY RoutesSteady DEF Legs, Crosses
<1>10. Flying(k, j)' = Flying(k, j)
  BY <1>1, <1>3, <1>9, RoutesSteady DEF Flying, Over
<1>11. Landed(k, j)' = Landed(k, j)
  BY <1>1, <1>3, <1>9, RoutesSteady DEF Landed, Over
<1>12. Met(k, j)' <=> Met(k, j)
  BY <1>1, <1>3, <1>9 DEF Met, Free
<1>13. \A i : NoReturnAt(i)' <=> NoReturnAt(i)
  <2>1. \A q : NextEdges(q)' = NextEdges(q)
    BY RoutesSteady DEF NextEdges, Crosses
  <2> QED
    BY <1>1, <2>1, RoutesSteady DEF NoReturnAt
<1> QED
  BY <1>1, <1>2, <1>5, <1>8, <1>10, <1>11, <1>12, <1>13 DEF NoReturn, Unreturned

\* ... nor what is expected.
LEMMA GoalSteady ==
    ASSUME graph' = graph, group' = group
    PROVE  /\ Expected' = Expected
           /\ Exact' <=> Exact
           /\ Ceiling' = Ceiling /\ (Open' <=> Open) /\ (Beyond' <=> Beyond)
           /\ Merging' <=> Merging
           /\ ExactPromise' <=> ExactPromise
           /\ Chosen' = Chosen
           /\ alive' = alive => (Told' <=> Told)
           /\ (alive' => alive) /\ Told' => Told
<1>1. \A i : FoundAt(i)' = FoundAt(i)
  BY WalksSteady, RoutesSteady DEF FoundAt
<1>2. Tiers' = Tiers
  BY <1>1, WalksSteady DEF Tiers
<1>3. Reached' = Reached
  BY <1>2 DEF Reached, Budgeted
<1>4. Expected' = Expected
  BY <1>1, <1>3, RoutesSteady DEF Expected
<1>5. TotalsAgree' <=> TotalsAgree
  <2>1. AllWalks' = AllWalks
    BY WalksSteady DEF AllWalks
  <2> QED
    BY <2>1, RoutesSteady DEF TotalsAgree, KeyOf
<1>6. Exact' <=> Exact
  BY <1>5 DEF Exact, NodeLevel, Budgeted
<1>7. (Merging' <=> Merging) /\ (SetWalk' <=> SetWalk) /\ (Lightest' <=> Lightest)
  BY DEF Merging, SetWalk, Lightest, NodeLevel, Budgeted
<1>8. ExactPromise' <=> ExactPromise
  BY DEF ExactPromise
<1>9. MergesTell' <=> MergesTell
  <2>1. \A i : ArrivesPromised(i)' <=> ArrivesPromised(i)
    BY WalksSteady DEF ArrivesPromised
  <2> QED
    BY <2>1, WalksSteady, RoutesSteady DEF MergesTell
<1>10. Chosen' = Chosen
  <2>1. Found' = Found
    BY <1>1, <1>3 DEF Found
  <2> QED
    BY <2>1, RoutesSteady DEF Chosen, Budgeted
<1>11. Budgeted' <=> Budgeted
  BY DEF Budgeted
<1>12. alive' = alive => (Told' <=> Told)
  BY <1>5, <1>7, <1>9, <1>11 DEF Told
<1>13. (alive' => alive) /\ Told' => Told
  BY <1>5, <1>7, <1>9, <1>11 DEF Told
<1> QED
  BY <1>4, <1>6, <1>7, <1>8, <1>10, <1>12, <1>13 DEF Ceiling, Open, Beyond, SetWalk, NodeLevel, Budgeted

\* What the form of an exact walk excludes.
LEMMA ToldForm ==
    ASSUME Told
    PROVE  ~SetWalk /\ ~Lightest /\ (Open <=> group.max = None)
BY DEF Told, Open

\* The path of no hops is the anchor's.
LEMMA NoHops ==
    ASSUME TypeOK
    PROVE  AsPath(<<>>) = Anchor
<1>1. TotalOf(<<>>) = 0
  <2>1. SumOf(<<>>) = [i \in 0..0 |-> IF i = 0 THEN 0 ELSE SumOf(<<>>)[i - 1] + Adds(<<>>[i])]
    BY SumExists
  <2>2. \A i \in 0..0 : SumOf(<<>>)[i] = IF i = 0 THEN 0 ELSE SumOf(<<>>)[i - 1] + Adds(<<>>[i])
    BY <2>1
  <2> QED
    BY <2>2, TotalIs
<1>2. EndOf(<<>>) = Start /\ Visited(<<>>) = {Start}
  BY DEF EndOf, Visited
<1> QED
  BY <1>1, <1>2 DEF AsPath, Anchor

\* The anchor is the path of no edge.
LEMMA AnchorIs ==
    ASSUME TypeOK
    PROVE  /\ Paths(0) = {Anchor}
           /\ MatchesTo(0) = IF group.min = 0 /\ Admits(Anchor)
                             THEN {[path |-> Anchor, round |-> 0]} ELSE {}
           /\ \A q \in WalksOf(0) : Carry(0, q) \subseteq Visited(q)
<1>1. WalksOf(0) = {<<>>}
  BY WalksGoOn
<1>2. EndOf(<<>>) = Start /\ Visited(<<>>) = {Start} /\ AsPath(<<>>) = Anchor
  BY NoHops DEF EndOf, Visited
<1>5. Carry(0, <<>>) \subseteq {Start}
  <2>1. \A q \in Meeting(0, <<>>) : q = <<>>
    BY <1>1 DEF Meeting
  <2>2. \A v \in Carry(0, <<>>) : \E q \in Meeting(0, <<>>) : v \in Visited(q)
    BY <1>1, CarryIs
  <2> QED
    BY <1>2, <2>1, <2>2
<1>6. Over(Anchor, Carry(0, <<>>)) = Anchor
  <2>1. {Start} \union Carry(0, <<>>) = {Start}
    BY <1>5
  <2> QED
    BY <2>1 DEF Over, Anchor
<1>7. Paths(0) = {Anchor}
  BY <1>1, <1>2, <1>6 DEF Paths
<1>8. MatchesAt(0) = IF Admits(Anchor) THEN {[path |-> Anchor, round |-> 0]} ELSE {}
  BY <1>7 DEF MatchesAt
<1>9. group.min \in Nat
  BY InputTypes DEF GroupType
<1>10. group.min..0 = IF group.min = 0 THEN {0} ELSE {}
  <2>1. CASE group.min = 0
    <3>1. 0..0 = {0}
      OBVIOUS
    <3> QED
      BY <2>1, <3>1
  <2>2. CASE group.min # 0
    <3>1. group.min..0 = {}
      BY <1>9, <2>2
    <3> QED
      BY <2>2, <3>1
  <2> QED
    BY <2>1, <2>2
<1>11. MatchesTo(0) = IF group.min = 0 THEN MatchesAt(0) ELSE {}
  BY <1>10 DEF MatchesTo
<1>12. \A q \in WalksOf(0) : Carry(0, q) \subseteq Visited(q)
  BY <1>1, <1>2, <1>5
<1> QED
  BY <1>7, <1>8, <1>11, <1>12

\* The matches of a round more.
LEMMA AddMatches ==
    ASSUME TypeOK, NEW n \in Nat, n # 0
    PROVE  MatchesTo(n) = IF n >= group.min THEN MatchesTo(n - 1) \union MatchesAt(n) ELSE MatchesTo(n - 1)
<1>1. group.min \in Nat
  BY InputTypes DEF GroupType
<1>2. CASE n >= group.min
  <2>1. group.min..n = (group.min..n - 1) \union {n}
    BY <1>1, <1>2
  <2>2. MatchesTo(n) = MatchesTo(n - 1) \union MatchesAt(n)
    BY <2>1 DEF MatchesTo
  <2> QED
    BY <1>2, <2>2
<1>3. CASE ~(n >= group.min)
  <2>1. group.min..n = {} /\ group.min..n - 1 = {}
    BY <1>1, <1>3
  <2>2. MatchesTo(n) = MatchesTo(n - 1)
    BY <2>1 DEF MatchesTo
  <2> QED
    BY <1>3, <2>2
<1> QED
  BY <1>2, <1>3

\* Of no hops there is one leg.
LEMMA FirstLeg ==
    ASSUME TypeOK, NEW k \in Nat, NEW q \in WalksOf(k), NEW al \in group.alts
    PROVE  Legs(q, al, 0) = {<<>>} /\ SubSeq(al, 0 + 1, Len(al)) = al /\ 0 < Len(al) /\ q \o <<>> = q
<1>1. al \in Seq(Hop1) /\ Len(al) \in Nat /\ Len(al) # 0
  <2>1. al \in Seq(Hop1) /\ al # <<>>
    BY InputTypes
  <2> QED
    BY <2>1, EmptySeq
<1>2. q \in Seq(graph) /\ q \o <<>> = q /\ Acyclic(q) /\ Within(q)
  <2>1. q \in Seq(graph) /\ Acyclic(q) /\ Within(q)
    BY WalkIs
  <2> QED
    BY <2>1, ConcatEmptySeq
<1>3. \A s : s \in [1..0 -> graph] <=> s = <<>>
  <2>1. ASSUME NEW s \in [1..0 -> graph] PROVE s = <<>>
    <3>1. s \in Seq(graph) /\ Len(s) = 0
      OBVIOUS
    <3> QED
      BY <3>1, EmptySeq
  <2>2. <<>> \in [1..0 -> graph]
    <3>1. <<>> \in Seq(graph) /\ Len(<<>>) = 0
      BY EmptySeq
    <3>2. <<>> \in [1..Len(<<>>) -> graph]
      BY <3>1
    <3> QED
      BY <3>1, <3>2
  <2> QED
    BY <2>1, <2>2
<1>4. \A s : s \in Legs(q, al, 0) <=> s = <<>>
  <2>1. 1..0 = {} /\ 1..(0 - 1) = {} /\ Acyclic(q \o <<>>) /\ Within(q \o <<>>)
    BY <1>2
  <2>2. \A s : s \in Legs(q, al, 0) <=>
                /\ s \in [1..0 -> graph]
                /\ \A i \in 1..0 : Crosses(al[i], s[i].label)
                /\ \A i \in 1..(0 - 1) : s[i + 1].from = s[i].to
                /\ Acyclic(q \o s) /\ Within(q \o s)
    BY DEF Legs
  <2> QED
    BY <1>3, <2>1, <2>2
<1>5. SubSeq(al, 1, Len(al)) = al
  BY <1>1, SubSeqFull
<1> QED
  BY <1>1, <1>2, <1>4, <1>5

\* A round begins with every path at the head of every alternative.
LEMMA RoundBegins ==
    ASSUME TypeOK, NEW k \in Nat
    PROVE  Into(Paths(k)) = Flying(k, 0) /\ Landed(k, 0) = {} /\ Met(k, 0)
<1>1. \A al \in group.alts : Len(al) \in Nat /\ Len(al) # 0
  <2>1. \A al \in group.alts : al \in Seq(Hop1) /\ al # <<>>
    BY InputTypes
  <2> QED
    BY <2>1, EmptySeq
<1>2. ASSUME NEW f PROVE f \in Into(Paths(k)) <=> f \in Flying(k, 0)
  <2>1. f \in Into(Paths(k)) <=>
          \E q \in WalksOf(k) : \E al \in group.alts :
             f = [path |-> Over(AsPath(q), Carry(k, q)), rest |-> al]
    BY DEF Into, Paths
  <2>2. f \in Flying(k, 0) <=>
          \E q \in WalksOf(k) : \E al \in group.alts : \E s \in Legs(q, al, 0) :
             /\ 0 < Len(al)
             /\ f = [path |-> Over(AsPath(q \o s), Carry(k, q)), rest |-> SubSeq(al, 0 + 1, Len(al))]
    BY FlyingIs
  <2>3. ASSUME NEW q \in WalksOf(k), NEW al \in group.alts
        PROVE  f = [path |-> Over(AsPath(q), Carry(k, q)), rest |-> al] <=>
                 \E s \in Legs(q, al, 0) :
                   /\ 0 < Len(al)
                   /\ f = [path |-> Over(AsPath(q \o s), Carry(k, q)), rest |-> SubSeq(al, 0 + 1, Len(al))]
    <3>1. Legs(q, al, 0) = {<<>>} /\ SubSeq(al, 0 + 1, Len(al)) = al /\ 0 < Len(al) /\ q \o <<>> = q
      BY FirstLeg
    <3> QED
      BY <3>1, Zenon
  <2> QED
    BY <2>1, <2>2, <2>3
<1>3. Landed(k, 0) = {}
  BY <1>1 DEF Landed
<1>4. Met(k, 0)
  <2> SUFFICES ASSUME NEW q \in WalksOf(k), NEW al \in group.alts, NEW i \in Nat, i <= 0,
                      NEW s \in Legs(q, al, i)
               PROVE  Free(s, i, Carry(k, q))
    BY DEF Met
  <2>1. 1..i = {}
    OBVIOUS
  <2> QED
    BY <2>1 DEF Free
<1> QED
  BY <1>2, <1>3, <1>4

\* The path p is the one of a leg more.
LEMMA LegIs ==
    ASSUME NEW q, NEW al, NEW j, NEW s, NEW p
    PROVE  LegTo(q, al, j, s, p) <=>
             \E e \in graph : Append(s, e) \in Legs(q, al, j + 1) /\ p = AsPath(q \o Append(s, e))
BY DEF LegTo

\* What a path carries besides is carried on, and blocks only what it holds.
LEMMA HopsOver ==
    ASSUME ~SetWalk, NEW p, NEW g, NEW h, NEW x,
           \A e \in Selected(p, h) : e.to \notin p.ground /\ Affords(p, e) => e.to \notin g
    PROVE  x \in Hops(Over(p, g), h) <=> \E y \in Hops(p, h) : x = Over(y, g)
<1>1. /\ Selected(Over(p, g), h) = Selected(p, h)
      /\ \A e : Affords(Over(p, g), e) <=> Affords(p, e)
  BY DEF Selected, Affords, Over
<1>2. \A e : Extended(Over(p, g), e) = Over(Extended(p, e), g)
  <2> SUFFICES ASSUME NEW e PROVE Extended(Over(p, g), e) = Over(Extended(p, e), g)
    OBVIOUS
  <2>1. (p.ground \union g) \union {e.to} = (p.ground \union {e.to}) \union g
    OBVIOUS
  <2> QED
    BY <2>1 DEF Extended, Over
<1>3. \A e : e.to \notin Over(p, g).ground <=> e.to \notin p.ground /\ e.to \notin g
  BY DEF Over
<1>4. x \in Hops(Over(p, g), h) <=>
        \E e \in Selected(p, h) : /\ e.to \notin p.ground /\ e.to \notin g /\ Affords(p, e)
                                  /\ x = Over(Extended(p, e), g)
  BY <1>1, <1>2, <1>3 DEF Hops
<1>5. (\E y \in Hops(p, h) : x = Over(y, g)) <=>
        \E e \in Selected(p, h) : /\ e.to \notin p.ground /\ Affords(p, e)
                                  /\ x = Over(Extended(p, e), g)
  BY DEF Hops
<1> QED
  BY <1>4, <1>5

\* What a path carries of others' grounds it carries under a promise.
LEMMA CarriedUnderPromise ==
    ASSUME TypeOK, NEW k \in Nat, PromiseAt(k), NEW q \in WalksOf(k)
    PROVE  promise \/ Carry(k, q) \subseteq Visited(q)
<1>1. CASE k = 0
  BY <1>1, AnchorIs
<1>2. CASE k # 0 /\ AllPromised(k)
  BY <1>2 DEF PromiseAt
<1>3. CASE ~AllPromised(k)
  BY <1>3, CarryIs
<1> QED
  BY <1>1, <1>2, <1>3

\* An edge more, as a leg.
LEMMA LegMore ==
    ASSUME TypeOK, NEW k \in Nat, NEW q \in WalksOf(k), NEW al \in group.alts, NEW j \in Nat,
           j < Len(al), NEW s \in Legs(q, al, j), NEW e \in graph
    PROVE  /\ q \o Append(s, e) = Append(q \o s, e) /\ q \o s \in Seq(graph)
           /\ s \in Seq(graph) /\ Len(s) = j
           /\ Append(s, e) \in Legs(q, al, j + 1)
                <=> e \in Selected(AsPath(q \o s), al[j + 1]) /\ e.to \notin AsPath(q \o s).ground
                    /\ Affords(AsPath(q \o s), e)
<1>1. q \in Seq(graph) /\ al \in Seq(Hop1)
  BY WalkIs, InputTypes
<1>2. /\ q \o Append(s, e) = Append(q \o s, e) /\ q \o s \in Seq(graph)
      /\ s \in Seq(graph) /\ Len(s) = j
      /\ Append(s, e) \in Legs(q, al, j + 1)
           <=> /\ e.from = EndOf(q \o s) /\ Crosses(al[j + 1], e.label)
               /\ e.to \notin Visited(q \o s) /\ Affords(AsPath(q \o s), e)
  BY <1>1, LegOn
<1>3. AsPath(q \o s).node = EndOf(q \o s) /\ AsPath(q \o s).ground = Visited(q \o s)
  BY DEF AsPath
<1> QED
  BY <1>2, <1>3 DEF Selected

\* No hop leads to what its path carries, where a promise refuses it or there is no more
\* of it than the walk has visited.
LEMMA MetOn ==
    ASSUME TypeOK, NEW k \in Nat, NEW j \in Nat, PromiseAt(k),
           flight = Flying(k, j), Refusals = {}, Met(k, j)
    PROVE  Met(k, j + 1)
<1> SUFFICES ASSUME NEW q \in WalksOf(k), NEW al \in group.alts, NEW i \in Nat,
                    i <= j + 1, i <= Len(al), NEW t \in Legs(q, al, i)
             PROVE  Free(t, i, Carry(k, q))
  BY DEF Met
<1>1. al \in Seq(Hop1) /\ Len(al) \in Nat /\ q \in Seq(graph)
  BY InputTypes, WalkIs
<1>2. CASE i <= j
  BY <1>2 DEF Met
<1>3. CASE ~(i <= j)
  <2>1. i = j + 1 /\ j < Len(al) /\ j <= Len(al) /\ j <= j
    BY <1>1, <1>3
  <2>2. PICK s \in Legs(q, al, j) : \E e \in graph : t = Append(s, e)
    BY <1>1, <2>1, LegBack
  <2>3. PICK e \in graph : t = Append(s, e)
    BY <2>2
  <2>4. /\ s \in Seq(graph) /\ Len(s) = j /\ q \o s \in Seq(graph)
        /\ e \in Selected(AsPath(q \o s), al[j + 1]) /\ e.to \notin AsPath(q \o s).ground
    BY <2>1, <2>3, LegMore
  <2>5. t[j + 1] = e /\ \A z \in 1..j : t[z] = s[z]
    BY <2>3, <2>4, RouteOn
  <2>6. Free(s, j, Carry(k, q))
    BY <2>1 DEF Met
  <2>7. e.to \notin Carry(k, q)
    <3>1. CASE Carry(k, q) \subseteq Visited(q)
      <4>1. Visited(q) \subseteq Visited(q \o s)
        <5>1. /\ Len(q) \in Nat /\ Len(q \o s) = Len(q) + Len(s)
              /\ \A z \in 1..Len(q) + Len(s) : (q \o s)[z] = IF z <= Len(q) THEN q[z] ELSE s[z - Len(q)]
          BY <1>1, <2>4, Joined
        <5>2. \A z \in DOMAIN q : z \in DOMAIN (q \o s) /\ (q \o s)[z] = q[z]
          BY <1>1, <2>4, <5>1
        <5> QED
          BY <5>2 DEF Visited
      <4>2. AsPath(q \o s).ground = Visited(q \o s)
        BY DEF AsPath
      <4> QED
        BY <2>4, <3>1, <4>1, <4>2
    <3>2. CASE promise
      <4> DEFINE f == [path |-> Over(AsPath(q \o s), Carry(k, q)), rest |-> SubSeq(al, j + 1, Len(al))]
      <4>1. f \in flight
        BY <2>1, FlyingIs
      <4>2. f.path = Over(AsPath(q \o s), Carry(k, q)) /\ Head(f.rest) = al[j + 1]
        BY <1>1, <2>1, RestOf
      <4> HIDE DEF f
      <4>3. ~Returns(f.path, Head(f.rest))
        BY <3>2, <4>1 DEF Refusals
      <4>4. e \in Selected(f.path, al[j + 1])
        BY <2>4, <4>2 DEF Selected, Over
      <4>5. Carry(k, q) \subseteq f.path.ground
        BY <4>2 DEF Over
      <4> QED
        BY <4>2, <4>3, <4>4, <4>5 DEF Returns
    <3> QED
      BY <3>1, <3>2, CarriedUnderPromise
  <2>8. \A z \in 1..i : z \in 1..j \/ z = j + 1
    BY <2>1
  <2> QED
    BY <2>5, <2>6, <2>7, <2>8 DEF Free
<1> QED
  BY <1>2, <1>3

\* The path p is the one of a leg more, and carries g.
LegOver(q, al, j, s, g, p) == \E y : LegTo(q, al, j, s, y) /\ p = Over(y, g)

\* A hop of a path is a leg more.
LEMMA OneHopOver ==
    ASSUME TypeOK, ~SetWalk, NEW k \in Nat, NEW q \in WalksOf(k), NEW al \in group.alts,
           NEW j \in Nat, j < Len(al), NEW s \in Legs(q, al, j), Met(k, j + 1), NEW p
    PROVE  p \in Hops(Over(AsPath(q \o s), Carry(k, q)), al[j + 1])
             <=> LegOver(q, al, j, s, Carry(k, q), p)
<1>1. ASSUME NEW e \in Selected(AsPath(q \o s), al[j + 1]), e.to \notin AsPath(q \o s).ground,
             Affords(AsPath(q \o s), e)
      PROVE  e.to \notin Carry(k, q)
  <2>0. e \in graph
    BY DEF Selected
  <2>1. Append(s, e) \in Legs(q, al, j + 1) /\ s \in Seq(graph) /\ Len(s) = j
    BY <1>1, <2>0, LegMore
  <2>2. j + 1 \in Nat /\ j + 1 <= Len(al) /\ j + 1 <= j + 1 /\ j + 1 \in 1..j + 1
    <3>1. Len(al) \in Nat
      BY InputTypes
    <3> QED
      BY <3>1
  <2>3. Free(Append(s, e), j + 1, Carry(k, q))
    BY <2>1, <2>2 DEF Met
  <2>4. Append(s, e)[j + 1] = e
    BY <2>0, <2>1, RouteOn
  <2> QED
    BY <2>2, <2>3, <2>4 DEF Free
<1>2. p \in Hops(Over(AsPath(q \o s), Carry(k, q)), al[j + 1])
        <=> \E y \in Hops(AsPath(q \o s), al[j + 1]) : p = Over(y, Carry(k, q))
  BY <1>1, HopsOver
<1>3. \A y : y \in Hops(AsPath(q \o s), al[j + 1]) <=> LegTo(q, al, j, s, y)
  BY OneHop
<1> QED
  BY <1>2, <1>3 DEF LegOver

\* The path g comes of a hop; it is one of a leg more.
OfHop(g) ==
    \E f \in flight : \E p \in Hops(f.path, Head(f.rest)) : g = [path |-> p, rest |-> Tail(f.rest)]
LegsFly(k, j, g, q, al, t) ==
    /\ j < Len(al)
    /\ g = [path |-> Over(AsPath(q \o t), Carry(k, q)), rest |-> SubSeq(al, j + 2, Len(al))]
OfLeg(k, j, g) ==
    \E q \in WalksOf(k) : \E al \in group.alts : \E t \in Legs(q, al, j + 1) : LegsFly(k, j, g, q, al, t)

\* So a hop of all that is under way is every leg more of every walk.
LEMMA AllHop ==
    ASSUME TypeOK, ~SetWalk, NEW k \in Nat, NEW j \in Nat, flight = Flying(k, j), Met(k, j + 1), NEW g
    PROVE  OfHop(g) <=> OfLeg(k, j, g)
<1>0. \A al \in group.alts : al \in Seq(Hop1)
  BY InputTypes
<1>1. ASSUME NEW f \in flight, NEW p \in Hops(f.path, Head(f.rest)), g = [path |-> p, rest |-> Tail(f.rest)]
      PROVE  OfLeg(k, j, g)
  <2> DEFINE Is(q, al, s) == /\ j < Len(al)
                             /\ f = [path |-> Over(AsPath(q \o s), Carry(k, q)),
                                     rest |-> SubSeq(al, j + 1, Len(al))]
  <2>1. \E q \in WalksOf(k) : \E al \in group.alts : \E s \in Legs(q, al, j) : Is(q, al, s)
    <3>1. f \in Flying(k, j)
      OBVIOUS
    <3> QED
      BY <3>1 DEF Flying
  <2> HIDE DEF Is
  <2>2. PICK q \in WalksOf(k) : \E al \in group.alts : \E s \in Legs(q, al, j) : Is(q, al, s)
    BY <2>1
  <2>3. PICK al \in group.alts : \E s \in Legs(q, al, j) : Is(q, al, s)
    BY <2>2
  <2>4. PICK s \in Legs(q, al, j) : Is(q, al, s)
    BY <2>3
  <2>5. /\ f.path = Over(AsPath(q \o s), Carry(k, q)) /\ Head(f.rest) = al[j + 1]
        /\ Tail(f.rest) = SubSeq(al, j + 2, Len(al)) /\ j < Len(al)
    BY <1>0, <2>4, RestOf DEF Is
  <2>6. LegOver(q, al, j, s, Carry(k, q), p)
    <3>1. p \in Hops(Over(AsPath(q \o s), Carry(k, q)), al[j + 1])
      BY <1>1, <2>5
    <3> QED
      BY <2>5, <3>1, OneHopOver
  <2>7. PICK y : LegTo(q, al, j, s, y) /\ p = Over(y, Carry(k, q))
    BY <2>6 DEF LegOver
  <2>8. PICK e \in graph : Append(s, e) \in Legs(q, al, j + 1) /\ y = AsPath(q \o Append(s, e))
    BY <2>7 DEF LegTo
  <2>9. LegsFly(k, j, g, q, al, Append(s, e))
    BY <1>1, <2>5, <2>7, <2>8 DEF LegsFly
  <2> QED
    BY <2>8, <2>9 DEF OfLeg
<1>2. ASSUME NEW q \in WalksOf(k), NEW al \in group.alts, NEW t \in Legs(q, al, j + 1),
             LegsFly(k, j, g, q, al, t)
      PROVE  OfHop(g)
  <2>1. q \in Seq(graph) /\ j < Len(al)
    BY <1>2, WalkIs DEF LegsFly
  <2>2. PICK s \in Legs(q, al, j) : \E e \in graph : t = Append(s, e)
    BY <1>0, <2>1, LegBack
  <2>3. PICK e \in graph : t = Append(s, e)
    BY <2>2
  <2> DEFINE f == [path |-> Over(AsPath(q \o s), Carry(k, q)), rest |-> SubSeq(al, j + 1, Len(al))]
  <2>4. f \in flight
    BY <2>1, FlyingIs
  <2>5. /\ f.path = Over(AsPath(q \o s), Carry(k, q)) /\ Head(f.rest) = al[j + 1]
        /\ Tail(f.rest) = SubSeq(al, j + 2, Len(al))
    BY <1>0, <2>1, RestOf
  <2>6. Over(AsPath(q \o t), Carry(k, q)) \in Hops(Over(AsPath(q \o s), Carry(k, q)), al[j + 1])
    <3>1. LegTo(q, al, j, s, AsPath(q \o t))
      BY <2>3 DEF LegTo
    <3>2. LegOver(q, al, j, s, Carry(k, q), Over(AsPath(q \o t), Carry(k, q)))
      BY <3>1 DEF LegOver
    <3> QED
      BY <2>1, <3>2, OneHopOver
  <2> HIDE DEF f
  <2> QED
    BY <1>2, <2>4, <2>5, <2>6 DEF OfHop, LegsFly
<1> QED
  BY <1>1, <1>2 DEF OfHop, OfLeg

\* A hop takes the wave one leg on.
LEMMA WaveOn ==
    ASSUME TypeOK, ~SetWalk, NEW k \in Nat, NEW j \in Nat, flight = Flying(k, j), arrived = Landed(k, j),
           Met(k, j + 1), NEW hopped,
           hopped = UNION {{[path |-> q, rest |-> Tail(f.rest)] : q \in Hops(f.path, Head(f.rest))} : f \in flight}
    PROVE  /\ {f \in hopped : f.rest # <<>>} = Flying(k, j + 1)
           /\ arrived \union {f.path : f \in {g \in hopped : g.rest = <<>>}} = Landed(k, j + 1)
<1>0. \A al \in group.alts : al \in Seq(Hop1) /\ Len(al) \in Nat
  BY InputTypes
<1>1. ASSUME NEW g
      PROVE  g \in hopped <=>
               \E q \in WalksOf(k) : \E al \in group.alts : \E t \in Legs(q, al, j + 1) : LegsFly(k, j, g, q, al, t)
  <2>1. g \in hopped <=> OfHop(g)
    BY DEF OfHop
  <2>2. OfHop(g) <=> OfLeg(k, j, g)
    BY AllHop
  <2> QED
    BY <2>1, <2>2 DEF OfLeg
<1>2. \A al \in group.alts : j < Len(al) => (SubSeq(al, j + 2, Len(al)) = <<>> <=> Len(al) <= j + 1)
  BY <1>0, RestOf
<1>3. ASSUME NEW g PROVE g \in Flying(k, j + 1) <=> g \in hopped /\ g.rest # <<>>
  <2> DEFINE Fly2(q, al, t) == /\ j + 1 < Len(al)
                               /\ g = [path |-> Over(AsPath(q \o t), Carry(k, q)),
                                       rest |-> SubSeq(al, j + 2, Len(al))]
  <2>1. g \in Flying(k, j + 1) <=>
          \E q \in WalksOf(k) : \E al \in group.alts : \E t \in Legs(q, al, j + 1) : Fly2(q, al, t)
    <3>1. j + 1 + 1 = j + 2
      OBVIOUS
    <3> QED
      BY <3>1 DEF Flying
  <2>2. ASSUME NEW q, NEW al \in group.alts, NEW t
        PROVE  Fly2(q, al, t) <=> LegsFly(k, j, g, q, al, t) /\ g.rest # <<>>
    <3>1. Len(al) \in Nat
      BY <1>0
    <3>2. j + 1 < Len(al) <=> j < Len(al) /\ ~(Len(al) <= j + 1)
      BY <3>1
    <3>3. g = [path |-> Over(AsPath(q \o t), Carry(k, q)), rest |-> SubSeq(al, j + 2, Len(al))]
            => g.rest = SubSeq(al, j + 2, Len(al))
      OBVIOUS
    <3> QED
      BY <1>2, <3>2, <3>3, Zenon DEF LegsFly
  <2> HIDE DEF Fly2
  <2> QED
    BY <1>1, <2>1, <2>2
<1>4. ASSUME NEW p
      PROVE  p \in Landed(k, j + 1) <=> p \in arrived \/ \E g \in hopped : g.rest = <<>> /\ p = g.path
  <2> DEFINE Land(q, al, s, i) == Len(al) <= i /\ p = Over(AsPath(q \o s), Carry(k, q))
  <2>0. \A i : p \in Landed(k, i) <=>
           \E q \in WalksOf(k) : \E al \in group.alts : \E s \in Legs(q, al, Len(al)) : Land(q, al, s, i)
    BY LandedIs
  <2>1. ASSUME p \in Landed(k, j + 1)
        PROVE  p \in arrived \/ \E g \in hopped : g.rest = <<>> /\ p = g.path
    <3>0. \E q \in WalksOf(k) : \E al \in group.alts : \E s \in Legs(q, al, Len(al)) : Land(q, al, s, j + 1)
      BY <2>0, <2>1
    <3> HIDE DEF Land
    <3>1. PICK q \in WalksOf(k) : \E al \in group.alts : \E s \in Legs(q, al, Len(al)) : Land(q, al, s, j + 1)
      BY <3>0
    <3>2. PICK al \in group.alts : \E s \in Legs(q, al, Len(al)) : Land(q, al, s, j + 1)
      BY <3>1
    <3>3. PICK s \in Legs(q, al, Len(al)) : Land(q, al, s, j + 1)
      BY <3>2
    <3> USE DEF Land
    <3>4. CASE Len(al) <= j
      BY <2>0, <3>3, <3>4
    <3>5. CASE ~(Len(al) <= j)
      <4>1. Len(al) = j + 1 /\ j < Len(al)
        BY <1>0, <3>3, <3>5
      <4> DEFINE g == [path |-> Over(AsPath(q \o s), Carry(k, q)), rest |-> SubSeq(al, j + 2, Len(al))]
      <4>2. g \in hopped
        <5>1. LegsFly(k, j, g, q, al, s)
          BY <4>1 DEF LegsFly
        <5> QED
          BY <1>1, <3>3, <4>1, <5>1
      <4>3. g.rest = <<>>
        BY <1>2, <3>3, <4>1
      <4>4. p = g.path
        BY <3>3
      <4> HIDE DEF g
      <4> QED
        BY <4>2, <4>3, <4>4
    <3> QED
      BY <3>4, <3>5
  <2>2. ASSUME p \in arrived PROVE p \in Landed(k, j + 1)
    <3>2. \A al \in group.alts : Len(al) <= j => Len(al) <= j + 1
      BY <1>0
    <3> QED
      BY <2>0, <2>2, <3>2
  <2>3. ASSUME NEW g \in hopped, g.rest = <<>>, p = g.path PROVE p \in Landed(k, j + 1)
    <3>1. PICK q \in WalksOf(k) : \E al \in group.alts : \E t \in Legs(q, al, j + 1) : LegsFly(k, j, g, q, al, t)
      BY <1>1
    <3>2. PICK al \in group.alts : \E t \in Legs(q, al, j + 1) : LegsFly(k, j, g, q, al, t)
      BY <3>1
    <3>3. PICK t \in Legs(q, al, j + 1) : LegsFly(k, j, g, q, al, t)
      BY <3>2
    <3>4. /\ g.rest = SubSeq(al, j + 2, Len(al)) /\ g.path = Over(AsPath(q \o t), Carry(k, q))
          /\ j < Len(al)
      BY <3>3 DEF LegsFly
    <3>5. Len(al) <= j + 1
      BY <1>2, <2>3, <3>4
    <3>6. Len(al) = j + 1
      BY <1>0, <3>4, <3>5
    <3> QED
      BY <2>0, <2>3, <3>3, <3>4, <3>5, <3>6
  <2> QED
    BY <2>1, <2>2, <2>3
<1>5. {f \in hopped : f.rest # <<>>} = Flying(k, j + 1)
  BY <1>3
<1>6. arrived \union {f.path : f \in {g \in hopped : g.rest = <<>>}} = Landed(k, j + 1)
  BY <1>4
<1> QED
  BY <1>5, <1>6

\* With nothing under way, there are legs only of alternatives walked to their ends.
LEMMA NoneFlying ==
    ASSUME TypeOK, NEW k \in Nat, NEW j \in Nat, Flying(k, j) = {},
           NEW q \in WalksOf(k), NEW al \in group.alts, NEW s \in Legs(q, al, Len(al))
    PROVE  Len(al) \in Nat /\ Len(al) <= j
<1>1. al \in Seq(Hop1) /\ Len(al) \in Nat /\ q \in Seq(graph)
  BY InputTypes, WalkIs
<1>2. ASSUME j < Len(al) PROVE FALSE
  <2>1. ASSUME NEW t \in Legs(q, al, j) PROVE FALSE
    <3>1. [path |-> Over(AsPath(q \o t), Carry(k, q)), rest |-> SubSeq(al, j + 1, Len(al))] \in Flying(k, j)
      BY <1>2 DEF Flying
    <3> QED
      BY <3>1
  <2>2. j <= Len(al) /\ Legs(q, al, j) = {}
    BY <1>1, <1>2, <2>1
  <2> QED
    BY <1>1, <2>2, NoLegs
<1> QED
  BY <1>1, <1>2

\* ... so every path of the round has arrived,
LEMMA AllLanded ==
    ASSUME TypeOK, NEW k \in Nat, NEW j \in Nat, Flying(k, j) = {}
    PROVE  Landed(k, j) = Arrivals(k)
<1>1. ASSUME NEW p PROVE p \in Landed(k, j) <=> p \in Arrivals(k)
  BY NoneFlying, LandedIs, ArrivalsAre
<1> QED
  BY <1>1

\* ... and met nothing it carried.
LEMMA AllMet ==
    ASSUME TypeOK, NEW k \in Nat, NEW j \in Nat, Flying(k, j) = {}, Met(k, j),
           NEW q \in WalksOf(k), NEW al \in group.alts, NEW s \in Legs(q, al, Len(al))
    PROVE  Free(s, Len(al), Carry(k, q))
<1>1. Len(al) \in Nat /\ Len(al) <= j /\ Len(al) <= Len(al)
  BY NoneFlying
<1> QED
  BY <1>1 DEF Met

\* A walk of one round more is a walk and the legs of an alternative, the last of which it
\* arrives by.
LEMMA Arrives ==
    ASSUME TypeOK, NEW k \in Nat, NEW q \in WalksOf(k), NEW al \in group.alts, NEW s \in Legs(q, al, Len(al))
    PROVE  /\ q \o s \in WalksOf(k + 1) /\ q \in Seq(graph)
           /\ s \in Seq(graph) /\ Len(s) = Len(al) /\ Len(s) \in Nat /\ Len(s) # 0
           /\ AsPath(q \o s).edge = s[Len(s)] /\ AsPath(q \o s).node = s[Len(s)].to
           /\ (q \o s)[Len(q \o s)] = s[Len(s)] /\ s[Len(s)] \in graph
           /\ Visited(q) \subseteq Visited(q \o s)
<1>1. Len(al) \in Nat /\ Len(al) # 0
  <2>1. al \in Seq(Hop1) /\ al # <<>>
    BY InputTypes
  <2> QED
    BY <2>1, EmptySeq
<1>2. q \in Seq(graph)
  BY WalkIs
<1>3. s \in Seq(graph) /\ Len(s) = Len(al)
  <2>1. s \in [1..Len(al) -> graph]
    BY DEF Legs
  <2> QED
    BY <1>1, <2>1
<1>4. /\ q \o s \in Seq(graph) /\ Len(q \o s) = Len(q) + Len(s)
      /\ Len(q) \in Nat /\ Len(s) \in Nat
      /\ \A i \in 1..Len(q) + Len(s) : (q \o s)[i] = IF i <= Len(q) THEN q[i] ELSE s[i - Len(q)]
  BY <1>2, <1>3, Joined
<1>5. (q \o s)[Len(q \o s)] = s[Len(s)]
  <2>1. Len(q) + Len(s) \in 1..Len(q) + Len(s) /\ ~(Len(q) + Len(s) <= Len(q))
        /\ Len(q) + Len(s) - Len(q) = Len(s)
    BY <1>1, <1>3, <1>4
  <2> QED
    BY <1>4, <2>1
<1>6. q \o s # <<>>
  BY <1>1, <1>3, <1>4
<1>7. AsPath(q \o s).edge = s[Len(s)] /\ AsPath(q \o s).node = s[Len(s)].to
  BY <1>5, <1>6 DEF AsPath, EndOf
<1>8. Visited(q) \subseteq Visited(q \o s)
  <2>1. \A z \in DOMAIN q : z \in DOMAIN (q \o s) /\ (q \o s)[z] = q[z]
    BY <1>2, <1>3, <1>4
  <2> QED
    BY <2>1 DEF Visited
<1>9. q \o s \in WalksOf(k + 1)
  <2>1. WalksOf(k + 1) = Onward(WalksOf(k))
    BY WalksGoOn
  <2>2. q \o s \in Onward(WalksOf(k))
    BY OnwardIs, Zenon
  <2> QED
    BY <2>1, <2>2
<1>10. s[Len(s)] \in graph
  BY <1>1, <1>3
<1> QED
  BY <1>1, <1>2, <1>3, <1>4, <1>5, <1>7, <1>8, <1>9, <1>10

\* Every walk of one round more is one.
LEMMA ComesOf ==
    ASSUME TypeOK, NEW k \in Nat, NEW r \in WalksOf(k + 1)
    PROVE  \E q \in WalksOf(k) : \E al \in group.alts : \E s \in Legs(q, al, Len(al)) : r = q \o s
<1>1. r \in Onward(WalksOf(k))
  BY WalksGoOn
<1> QED
  BY <1>1, OnwardIs

\* Legs that meet nothing a walk has visited go on from it as acyclically as from another.
LEMMA AcyclicJoin ==
    ASSUME NEW q \in Seq(graph), NEW q2 \in Seq(graph), NEW s \in Seq(graph),
           Acyclic(q \o s), Acyclic(q2), Free(s, Len(s), Visited(q2))
    PROVE  Acyclic(q2 \o s)
<1>1. /\ Len(q) \in Nat /\ Len(q2) \in Nat /\ Len(s) \in Nat
      /\ DOMAIN (q \o s) = 1..Len(q) + Len(s) /\ DOMAIN (q2 \o s) = 1..Len(q2) + Len(s)
      /\ \A i \in 1..Len(q) + Len(s) : (q \o s)[i] = IF i <= Len(q) THEN q[i] ELSE s[i - Len(q)]
      /\ \A i \in 1..Len(q2) + Len(s) : (q2 \o s)[i] = IF i <= Len(q2) THEN q2[i] ELSE s[i - Len(q2)]
  <2>1. /\ q \o s \in Seq(graph) /\ Len(q \o s) = Len(q) + Len(s)
        /\ q2 \o s \in Seq(graph) /\ Len(q2 \o s) = Len(q2) + Len(s)
    BY Joined
  <2> QED
    BY <2>1, Joined
<1>2. DOMAIN q2 = 1..Len(q2)
  OBVIOUS
<1>3. \A i, j \in 1..Len(s) : s[i].to = s[j].to => i = j
  <2> SUFFICES ASSUME NEW i \in 1..Len(s), NEW j \in 1..Len(s), s[i].to = s[j].to PROVE i = j
    OBVIOUS
  <2>1. /\ Len(q) + i \in DOMAIN (q \o s) /\ (q \o s)[Len(q) + i] = s[i]
        /\ Len(q) + j \in DOMAIN (q \o s) /\ (q \o s)[Len(q) + j] = s[j]
    <3>1. /\ Len(q) + i \in 1..Len(q) + Len(s) /\ ~(Len(q) + i <= Len(q)) /\ Len(q) + i - Len(q) = i
          /\ Len(q) + j \in 1..Len(q) + Len(s) /\ ~(Len(q) + j <= Len(q)) /\ Len(q) + j - Len(q) = j
      BY <1>1
    <3> QED
      BY <1>1, <3>1
  <2>2. Len(q) + i = Len(q) + j
    BY <2>1 DEF Acyclic
  <2> QED
    BY <1>1, <2>2
<1>4. \A i \in DOMAIN (q2 \o s) : \/ i \in DOMAIN q2 /\ (q2 \o s)[i] = q2[i]
                                  \/ i - Len(q2) \in 1..Len(s) /\ (q2 \o s)[i] = s[i - Len(q2)]
  <2> SUFFICES ASSUME NEW i \in 1..Len(q2) + Len(s)
               PROVE  \/ i \in 1..Len(q2) /\ (q2 \o s)[i] = q2[i]
                      \/ i - Len(q2) \in 1..Len(s) /\ (q2 \o s)[i] = s[i - Len(q2)]
    BY <1>1, <1>2
  <2>1. CASE i <= Len(q2)
    BY <1>1, <2>1
  <2>2. CASE ~(i <= Len(q2))
    <3>1. i - Len(q2) \in 1..Len(s)
      BY <1>1, <2>2
    <3> QED
      BY <1>1, <2>2, <3>1
  <2> QED
    BY <2>1, <2>2
<1>5. \A z \in 1..Len(s) : s[z].to # Start /\ \A i \in DOMAIN q2 : s[z].to # q2[i].to
  BY DEF Free, Visited
<1>6. ASSUME NEW i \in DOMAIN (q2 \o s), NEW j \in DOMAIN (q2 \o s), (q2 \o s)[i].to = (q2 \o s)[j].to
      PROVE  i = j
  <2>0. i \in Int /\ j \in Int
    BY <1>1
  <2>1. CASE /\ i \in DOMAIN q2 /\ (q2 \o s)[i] = q2[i]
             /\ j \in DOMAIN q2 /\ (q2 \o s)[j] = q2[j]
    BY <1>6, <2>1 DEF Acyclic
  <2>2. CASE /\ i \in DOMAIN q2 /\ (q2 \o s)[i] = q2[i]
             /\ j - Len(q2) \in 1..Len(s) /\ (q2 \o s)[j] = s[j - Len(q2)]
    BY <1>5, <1>6, <2>2
  <2>3. CASE /\ j \in DOMAIN q2 /\ (q2 \o s)[j] = q2[j]
             /\ i - Len(q2) \in 1..Len(s) /\ (q2 \o s)[i] = s[i - Len(q2)]
    BY <1>5, <1>6, <2>3
  <2>4. CASE /\ j - Len(q2) \in 1..Len(s) /\ (q2 \o s)[j] = s[j - Len(q2)]
             /\ i - Len(q2) \in 1..Len(s) /\ (q2 \o s)[i] = s[i - Len(q2)]
    <3>1. s[i - Len(q2)].to = s[j - Len(q2)].to
      BY <1>6, <2>4
    <3>2. i - Len(q2) = j - Len(q2)
      BY <1>3, <2>4, <3>1
    <3> QED
      BY <1>1, <2>0, <3>2
  <2> QED
    BY <1>4, <2>1, <2>2, <2>3, <2>4
<1>7. \A i \in DOMAIN (q2 \o s) : (q2 \o s)[i].to # Start
  <2> SUFFICES ASSUME NEW i \in DOMAIN (q2 \o s) PROVE (q2 \o s)[i].to # Start
    OBVIOUS
  <2>1. CASE i \in DOMAIN q2 /\ (q2 \o s)[i] = q2[i]
    BY <2>1 DEF Acyclic
  <2>2. CASE i - Len(q2) \in 1..Len(s) /\ (q2 \o s)[i] = s[i - Len(q2)]
    BY <1>5, <2>2
  <2> QED
    BY <1>4, <2>1, <2>2
<1> QED
  BY <1>6, <1>7 DEF Acyclic

\* So, without a budget, they are legs of either walk.
LEMMA SwapLeg ==
    ASSUME TypeOK, ~Budgeted, NEW k \in Nat, NEW q \in WalksOf(k), NEW q2 \in WalksOf(k),
           EndOf(q2) = EndOf(q), NEW al \in group.alts, NEW s \in Legs(q, al, Len(al)),
           Free(s, Len(al), Visited(q2))
    PROVE  s \in Legs(q2, al, Len(al))
<1>1. q \in Seq(graph) /\ q2 \in Seq(graph) /\ Acyclic(q2)
  BY WalkIs
<1>2. s \in Seq(graph) /\ Len(s) = Len(al)
  BY Arrives
<1>3. Acyclic(q \o s)
  BY DEF Legs
<1>4. Acyclic(q2 \o s)
  BY <1>1, <1>2, <1>3, AcyclicJoin
<1>5. Within(q2 \o s)
  BY DEF Within
<1> QED
  BY <1>4, <1>5 DEF Legs

\* The path p has arrived by these legs.
ArrivedBy(k, p, q, al, s) ==
    /\ q \in WalksOf(k) /\ al \in group.alts /\ s \in Legs(q, al, Len(al))
    /\ q \o s \in WalksOf(k + 1)
    /\ p = Over(AsPath(q \o s), Carry(k, q))

\* Every path that arrives does, and every walk of one round more has one that does.
LEMMA ArrivalBy ==
    ASSUME TypeOK, NEW k \in Nat
    PROVE  /\ \A p : p \in Arrivals(k) <=> \E q, al, s : ArrivedBy(k, p, q, al, s)
           /\ \A r \in WalksOf(k + 1) : \E q, al, s :
                r = q \o s /\ ArrivedBy(k, Over(AsPath(r), Carry(k, q)), q, al, s)
<1>1. \A q \in WalksOf(k), al \in group.alts : \A s \in Legs(q, al, Len(al)) : q \o s \in WalksOf(k + 1)
  BY Arrives
<1>2. ASSUME NEW p PROVE p \in Arrivals(k) <=> \E q, al, s : ArrivedBy(k, p, q, al, s)
  <2>1. p \in Arrivals(k) <=>
             \E q \in WalksOf(k) : \E al \in group.alts : \E s \in Legs(q, al, Len(al)) :
                p = Over(AsPath(q \o s), Carry(k, q))
    BY DEF Arrivals
  <2> QED
    BY <1>1, <2>1 DEF ArrivedBy
<1>3. ASSUME NEW r \in WalksOf(k + 1)
      PROVE  \E q, al, s : r = q \o s /\ ArrivedBy(k, Over(AsPath(r), Carry(k, q)), q, al, s)
  <2>1. PICK q \in WalksOf(k) : \E al \in group.alts : \E s \in Legs(q, al, Len(al)) : r = q \o s
    BY ComesOf
  <2>2. PICK al \in group.alts : \E s \in Legs(q, al, Len(al)) : r = q \o s
    BY <2>1
  <2>3. PICK s \in Legs(q, al, Len(al)) : r = q \o s
    BY <2>2
  <2>4. ArrivedBy(k, Over(AsPath(r), Carry(k, q)), q, al, s)
    BY <2>3 DEF ArrivedBy
  <2> QED
    BY <2>3, <2>4
<1> QED
  BY <1>2, <1>3

\* What a path that arrives is of.
LEMMA ArrivedIs ==
    ASSUME TypeOK, NEW k \in Nat, NEW p, NEW q, NEW al, NEW s, ArrivedBy(k, p, q, al, s)
    PROVE  /\ p.node = AsPath(q \o s).node /\ p.edge = AsPath(q \o s).edge
           /\ p.ground = Visited(q \o s) \union Carry(k, q)
BY DEF ArrivedBy, Over, AsPath

\* One path arrives per key.
LEMMA ArrivalsDiffer ==
    ASSUME TypeOK, Told, NEW k \in Nat, ~Merging => Arrivals(k) = {AsPath(r) : r \in WalksOf(k + 1)}
    PROVE  OnePerKey(Arrivals(k)) = {Arrivals(k)}
<1> SUFFICES ASSUME NEW p \in Arrivals(k), NEW p2 \in Arrivals(k), KeyOf(p) = KeyOf(p2) PROVE p = p2
  BY OneEach
<1>1. CASE Merging
  <2>1. PICK q, al, s : ArrivedBy(k, p, q, al, s)
    BY ArrivalBy
  <2>2. PICK q2, al2, s2 : ArrivedBy(k, p2, q2, al2, s2)
    BY ArrivalBy
  <2>3. /\ q \o s \in WalksOf(k + 1) /\ q2 \o s2 \in WalksOf(k + 1)
        /\ p = Over(AsPath(q \o s), Carry(k, q)) /\ p2 = Over(AsPath(q2 \o s2), Carry(k, q2))
    BY <2>1, <2>2 DEF ArrivedBy
  <2> QED
    BY <1>1, <2>3, KeysTell
<1>2. CASE ~Merging
  <2>1. PICK r \in WalksOf(k + 1) : p = AsPath(r)
    BY <1>2
  <2>2. PICK r2 \in WalksOf(k + 1) : p2 = AsPath(r2)
    BY <1>2
  <2>3. p = Over(AsPath(r), {}) /\ p2 = Over(AsPath(r2), {})
    BY <2>1, <2>2, OverNothing
  <2> QED
    BY <2>3, KeysTell
<1> QED
  BY <1>1, <1>2

\* Where nothing is united beyond what each walk has visited, each arrives as its own path.
LEMMA ArriveAlone ==
    ASSUME TypeOK, NEW k \in Nat, \A q \in WalksOf(k) : Carry(k, q) \subseteq Visited(q)
    PROVE  Arrivals(k) = {AsPath(r) : r \in WalksOf(k + 1)}
<1>1. \A q \in WalksOf(k), al \in group.alts : \A s \in Legs(q, al, Len(al)) :
         Over(AsPath(q \o s), Carry(k, q)) = AsPath(q \o s)
  <2> SUFFICES ASSUME NEW q \in WalksOf(k), NEW al \in group.alts, NEW s \in Legs(q, al, Len(al))
               PROVE  Over(AsPath(q \o s), Carry(k, q)) = AsPath(q \o s)
    OBVIOUS
  <2>1. Carry(k, q) \subseteq Visited(q \o s)
    BY Arrives
  <2>2. Visited(q \o s) \union Carry(k, q) = Visited(q \o s)
    BY <2>1
  <2> QED
    BY <2>2 DEF Over, AsPath
<1>2. ASSUME NEW p \in Arrivals(k) PROVE \E r \in WalksOf(k + 1) : p = AsPath(r)
  <2>1. PICK q, al, s : ArrivedBy(k, p, q, al, s)
    BY ArrivalBy
  <2> QED
    BY <1>1, <2>1 DEF ArrivedBy
<1>3. ASSUME NEW r \in WalksOf(k + 1) PROVE AsPath(r) \in Arrivals(k)
  <2>1. PICK q, al, s : r = q \o s /\ ArrivedBy(k, Over(AsPath(r), Carry(k, q)), q, al, s)
    BY ArrivalBy
  <2>2. Over(AsPath(r), Carry(k, q)) = AsPath(r)
    BY <1>1, <2>1 DEF ArrivedBy
  <2> QED
    BY <2>1, <2>2, ArrivalBy
<1> QED
  BY <1>2, <1>3

\* The grounds of the paths that arrive at a position, united, are what the walks that stand
\* there have visited: a ground carried here from another walk is that walk's own, led on
\* by the same legs.
LEMMA GroundsUnite ==
    ASSUME TypeOK, NEW k \in Nat, Merging, AllPromised(k), NEW r \in WalksOf(k + 1),
           \A q \in WalksOf(k), al \in group.alts : \A s \in Legs(q, al, Len(al)) :
              Free(s, Len(al), Carry(k, q))
    PROVE  UNION {p.ground : p \in {x \in Arrivals(k) : /\ x.node = AsPath(r).node
                                                        /\ x.edge = AsPath(r).edge}}
             = UNION {Visited(q) : q \in Meeting(k + 1, r)}
<1> DEFINE Here == {x \in Arrivals(k) : x.node = AsPath(r).node /\ x.edge = AsPath(r).edge}
<1>1. ASSUME NEW p \in Here, NEW v \in p.ground
      PROVE  \E q \in Meeting(k + 1, r) : v \in Visited(q)
  <2>1. PICK q, al, s : ArrivedBy(k, p, q, al, s)
    BY ArrivalBy
  <2>2. /\ q \in WalksOf(k) /\ al \in group.alts /\ s \in Legs(q, al, Len(al))
        /\ q \o s \in WalksOf(k + 1) /\ p.ground = Visited(q \o s) \union Carry(k, q)
        /\ AsPath(q \o s).node = AsPath(r).node /\ AsPath(q \o s).edge = AsPath(r).edge
    BY <2>1, ArrivedIs DEF ArrivedBy
  <2>3. CASE v \in Visited(q \o s)
    <3>1. q \o s \in Meeting(k + 1, r)
      BY <2>2 DEF Meeting
    <3> QED
      BY <2>3, <3>1
  <2>4. CASE v \in Carry(k, q)
    <3>1. PICK q2 \in Meeting(k, q) : v \in Visited(q2)
      BY <2>2, <2>4, CarryIs
    <3>2. q2 \in WalksOf(k) /\ EndOf(q2) = EndOf(q) /\ Visited(q2) \subseteq Carry(k, q)
      BY <2>2, <3>1 DEF Meeting, AsPath, Carry
    <3>3. Free(s, Len(al), Visited(q2))
      BY <2>2, <3>2 DEF Free
    <3>4. s \in Legs(q2, al, Len(al))
      BY <2>2, <3>2, <3>3, SwapLeg DEF Merging
    <3>5. q2 \o s \in WalksOf(k + 1) /\ Visited(q2) \subseteq Visited(q2 \o s)
          /\ AsPath(q2 \o s).node = AsPath(q \o s).node /\ AsPath(q2 \o s).edge = AsPath(q \o s).edge
      <4>1. /\ q2 \o s \in WalksOf(k + 1) /\ Visited(q2) \subseteq Visited(q2 \o s)
            /\ AsPath(q2 \o s).edge = s[Len(s)] /\ AsPath(q2 \o s).node = s[Len(s)].to
        BY <2>2, <3>2, <3>4, Arrives
      <4>2. AsPath(q \o s).edge = s[Len(s)] /\ AsPath(q \o s).node = s[Len(s)].to
        BY <2>2, Arrives
      <4> QED
        BY <4>1, <4>2
    <3>6. q2 \o s \in Meeting(k + 1, r)
      BY <2>2, <3>5 DEF Meeting
    <3> QED
      BY <3>1, <3>5, <3>6
  <2> QED
    BY <2>2, <2>3, <2>4
<1>2. ASSUME NEW q \in Meeting(k + 1, r), NEW v \in Visited(q)
      PROVE  \E p \in Here : v \in p.ground
  <2>0. q \in WalksOf(k + 1) /\ AsPath(q).node = AsPath(r).node /\ AsPath(q).edge = AsPath(r).edge
    BY DEF Meeting
  <2>1. PICK q1, al, s : q = q1 \o s /\ ArrivedBy(k, Over(AsPath(q), Carry(k, q1)), q1, al, s)
    BY <2>0, ArrivalBy
  <2> DEFINE p == Over(AsPath(q), Carry(k, q1))
  <2>2. p \in Arrivals(k)
    BY <2>1, ArrivalBy
  <2>3. p.node = AsPath(q).node /\ p.edge = AsPath(q).edge /\ p.ground = Visited(q) \union Carry(k, q1)
    BY DEF Over, AsPath
  <2> HIDE DEF p
  <2> QED
    BY <2>0, <2>2, <2>3
<1> HIDE DEF Here
<1>3. UNION {p.ground : p \in Here} = UNION {Visited(q) : q \in Meeting(k + 1, r)}
  BY <1>1, <1>2
<1> QED
  BY <1>3 DEF Here

\* So merged by position, they are the paths of a round more.
LEMMA MergedArrivals ==
    ASSUME TypeOK, NEW k \in Nat, Merging, AllPromised(k), AllPromised(k + 1),
           \A q \in WalksOf(k), al \in group.alts : \A s \in Legs(q, al, Len(al)) :
              Free(s, Len(al), Carry(k, q))
    PROVE  MergeByPosition(Arrivals(k)) = Paths(k + 1)
<1> DEFINE At(n, e) == UNION {p.ground : p \in {x \in Arrivals(k) : x.node = n /\ x.edge = e}}
<1>1. \A r \in WalksOf(k + 1) : At(AsPath(r).node, AsPath(r).edge) = Visited(r) \union Carry(k + 1, r)
  <2> SUFFICES ASSUME NEW r \in WalksOf(k + 1)
               PROVE  At(AsPath(r).node, AsPath(r).edge) = Visited(r) \union Carry(k + 1, r)
    OBVIOUS
  <2>1. Visited(r) \subseteq Carry(k + 1, r) /\ Carry(k + 1, r) = UNION {Visited(q) : q \in Meeting(k + 1, r)}
    BY CarryIs DEF Carry
  <2> QED
    BY <2>1, GroundsUnite
<1>2. \A p \in Arrivals(k) : \A q, al, s : ArrivedBy(k, p, q, al, s) =>
         /\ p.total = AsPath(q \o s).total
         /\ p = [node |-> AsPath(q \o s).node, ground |-> p.ground, edge |-> AsPath(q \o s).edge,
                 total |-> AsPath(q \o s).total]
  BY DEF ArrivedBy, Over
<1>3. MergeByPosition(Arrivals(k)) =
        {[p EXCEPT !.ground = At(p.node, p.edge)] : p \in Arrivals(k)}
  BY DEF MergeByPosition
<1> HIDE DEF At
<1>4. ASSUME NEW p, NEW q, NEW al, NEW s, ArrivedBy(k, p, q, al, s)
      PROVE  [p EXCEPT !.ground = At(p.node, p.edge)] = Over(AsPath(q \o s), Carry(k + 1, q \o s))
  <2>1. p = [node |-> AsPath(q \o s).node, ground |-> Visited(q \o s) \union Carry(k, q),
             edge |-> AsPath(q \o s).edge, total |-> AsPath(q \o s).total]
    BY <1>4 DEF ArrivedBy, Over, AsPath
  <2>2. At(p.node, p.edge) = Visited(q \o s) \union Carry(k + 1, q \o s)
    BY <1>1, <1>4, ArrivedIs DEF ArrivedBy
  <2>3. Over(AsPath(q \o s), Carry(k + 1, q \o s)) =
           [node |-> AsPath(q \o s).node, ground |-> At(p.node, p.edge),
            edge |-> AsPath(q \o s).edge, total |-> AsPath(q \o s).total]
    BY <2>2 DEF Over, AsPath
  <2> QED
    BY <2>1, <2>3
<1>5. ASSUME NEW m \in MergeByPosition(Arrivals(k)) PROVE m \in Paths(k + 1)
  <2>1. PICK p \in Arrivals(k) : m = [p EXCEPT !.ground = At(p.node, p.edge)]
    BY <1>3
  <2>2. PICK q, al, s : ArrivedBy(k, p, q, al, s)
    BY ArrivalBy
  <2>3. m = Over(AsPath(q \o s), Carry(k + 1, q \o s))
    BY <1>4, <2>1, <2>2
  <2> QED
    BY <2>2, <2>3 DEF ArrivedBy, Paths
<1>6. ASSUME NEW m \in Paths(k + 1) PROVE m \in MergeByPosition(Arrivals(k))
  <2>1. PICK r \in WalksOf(k + 1) : m = Over(AsPath(r), Carry(k + 1, r))
    BY DEF Paths
  <2>2. PICK q, al, s : r = q \o s /\ ArrivedBy(k, Over(AsPath(r), Carry(k, q)), q, al, s)
    BY ArrivalBy
  <2>3. PICK p : p = Over(AsPath(r), Carry(k, q))
    OBVIOUS
  <2>4. p \in Arrivals(k) /\ ArrivedBy(k, p, q, al, s)
    BY <2>2, <2>3, ArrivalBy
  <2> QED
    BY <1>3, <1>4, <2>1, <2>2, <2>4
<1> QED
  BY <1>5, <1>6

\* The promise is held by what arrives as by the walks of one round more.
LEMMA HeldIs ==
    ASSUME TypeOK, NEW k \in Nat, arrived = Arrivals(k)
    PROVE  /\ Held <=> \A r \in WalksOf(k + 1) : r[Len(r)].label \in Promised
           /\ AllPromised(k + 1) <=> AllPromised(k) /\ Held
           /\ arrived = {} <=> WalksOf(k + 1) = {}
<1>0. \A r \in WalksOf(k + 1) : AsPath(r).edge = r[Len(r)]
  <2> SUFFICES ASSUME NEW r \in WalksOf(k + 1) PROVE AsPath(r).edge = r[Len(r)]
    OBVIOUS
  <2>1. r # <<>>
    <3>1. k + 1 <= Len(r) /\ k + 1 # 0 /\ Len(<<>>) = 0
      BY WalkIs
    <3> QED
      BY <3>1
  <2> QED
    BY <2>1 DEF AsPath
<1>1. Held <=> \A r \in WalksOf(k + 1) : r[Len(r)].label \in Promised
  <2>1. ASSUME Held, NEW r \in WalksOf(k + 1) PROVE r[Len(r)].label \in Promised
    <3>1. PICK q, al, s : r = q \o s /\ ArrivedBy(k, Over(AsPath(r), Carry(k, q)), q, al, s)
      BY ArrivalBy
    <3>2. PICK p : p = Over(AsPath(r), Carry(k, q))
      OBVIOUS
    <3>3. p \in arrived /\ ArrivedBy(k, p, q, al, s)
      BY <3>1, <3>2, ArrivalBy
    <3>4. p.edge = AsPath(r).edge
      BY <3>1, <3>3, ArrivedIs
    <3>5. p.edge.label \in Promised
      BY <2>1, <3>3 DEF Held
    <3> QED
      BY <1>0, <3>4, <3>5
  <2>2. ASSUME \A r \in WalksOf(k + 1) : r[Len(r)].label \in Promised, NEW p \in arrived
        PROVE  p.edge.label \in Promised
    <3>1. PICK q, al, s : ArrivedBy(k, p, q, al, s)
      BY ArrivalBy
    <3>2. q \o s \in WalksOf(k + 1)
      BY <3>1 DEF ArrivedBy
    <3>3. PICK r \in WalksOf(k + 1) : r = q \o s
      BY <3>2
    <3>4. p.edge = AsPath(r).edge
      BY <3>1, <3>3, ArrivedIs
    <3> QED
      BY <1>0, <2>2, <3>4
  <2> QED
    BY <2>1, <2>2 DEF Held
<1>2. AllPromised(k + 1) <=> AllPromised(k) /\ \A r \in WalksOf(k + 1) : r[Len(r)].label \in Promised
  <2>1. 1..k + 1 = (1..k) \union {k + 1}
    OBVIOUS
  <2> QED
    BY <2>1 DEF AllPromised
<1>3. arrived = {} <=> WalksOf(k + 1) = {}
  <2>1. ASSUME arrived = {}, NEW r \in WalksOf(k + 1) PROVE FALSE
    <3>1. PICK q, al, s : r = q \o s /\ ArrivedBy(k, Over(AsPath(r), Carry(k, q)), q, al, s)
      BY ArrivalBy
    <3> QED
      BY <2>1, <3>1, ArrivalBy
  <2>2. ASSUME WalksOf(k + 1) = {}, NEW p \in arrived PROVE FALSE
    <3>1. PICK q, al, s : ArrivedBy(k, p, q, al, s)
      BY ArrivalBy
    <3> QED
      BY <2>2, <3>1 DEF ArrivedBy
  <2> QED
    BY <2>1, <2>2
<1> QED
  BY <1>1, <1>2, <1>3

\* Hops by promised labels cross promised edges alone.
LEMMA ExactKeeps ==
    ASSUME TypeOK, ExactPromise, NEW n \in Nat
    PROVE  AllPromised(n)
<1> SUFFICES ASSUME NEW j \in 1..n, NEW r \in WalksOf(j) PROVE r[Len(r)].label \in Promised
  BY DEF AllPromised
<1>1. PICK k \in Nat : j = k + 1
  <2>1. j - 1 \in Nat /\ j = (j - 1) + 1
    OBVIOUS
  <2> QED
    BY <2>1
<1>2. PICK q \in WalksOf(k) : \E al \in group.alts : \E s \in Legs(q, al, Len(al)) : r = q \o s
  BY <1>1, ComesOf
<1>3. PICK al \in group.alts : \E s \in Legs(q, al, Len(al)) : r = q \o s
  BY <1>2
<1>4. PICK s \in Legs(q, al, Len(al)) : r = q \o s
  BY <1>3
<1>5. /\ Len(s) = Len(al) /\ Len(s) \in Nat /\ Len(s) # 0 /\ r[Len(r)] = s[Len(s)]
      /\ Len(al) \in DOMAIN al
  <2>1. Len(s) = Len(al) /\ Len(s) \in Nat /\ Len(s) # 0 /\ (q \o s)[Len(q \o s)] = s[Len(s)]
    BY Arrives
  <2>2. al \in Seq(Hop1)
    BY InputTypes
  <2>3. Len(al) \in DOMAIN al
    BY <2>1, <2>2
  <2> QED
    BY <1>4, <2>1, <2>3
<1>6. Crosses(al[Len(al)], s[Len(al)].label) /\ al[Len(al)] \in Promised
  <2>1. Len(al) \in 1..Len(al)
    BY <1>5
  <2> QED
    BY <1>5, <2>1 DEF Legs, ExactPromise
<1>7. al[Len(al)] # Star
  BY <1>6, NodesAssumption, BoundsAssumption
<1> QED
  BY <1>5, <1>6, <1>7 DEF Crosses

\* The walk starts at its anchor.
LEMMA StartWave ==
    ASSUME TypeOK, Init
    PROVE  WaveInv
<1>1. Paths(0) = {Anchor}
  BY AnchorIs
<1>2. /\ pc = "entry" /\ count = 0 /\ frontier = {Anchor} /\ matches = {}
      /\ promise = ExactPromise /\ alive = ~SetWalk
  BY DEF Init
<1>3. AllPromised(0)
  <2>1. 1..0 = {}
    OBVIOUS
  <2> QED
    BY <2>1 DEF AllPromised
<1>4. Told => PromiseAt(0)
  BY <1>2, <1>3 DEF PromiseAt, Told
<1> QED
  BY <1>1, <1>2, <1>4 DEF WaveInv, Answered

\* The entry begins with the anchor, or refuses.
LEMMA EntryWave ==
    ASSUME TypeOK, WaveInv, Told, Entry
    PROVE  WaveInv'
<1>1. /\ pc = "entry" /\ count' = count /\ count = 0 /\ graph' = graph /\ group' = group
      /\ frontier = {Anchor} /\ ~SetWalk /\ ~Lightest /\ (Open <=> group.max = None)
      /\ PromiseAt(0) /\ promise' = promise /\ alive' = alive
  <2>1. Paths(0) = {Anchor}
    BY AnchorIs
  <2> QED
    BY <2>1, ToldForm DEF Entry, WaveInv, inputs
<1>2. CASE Beyond
  <2>1. pc' = "done" /\ refusal' = "bound" /\ refusal' # None
    BY <1>2, BoundsAssumption DEF Entry
  <2> QED
    BY <2>1 DEF WaveInv, Answered
<1>3. CASE ~Beyond
  <2>1. /\ matches' = IF group.min = 0 /\ Admits(Anchor) THEN {[path |-> Anchor, round |-> 0]} ELSE {}
        /\ frontier' = frontier /\ pc' = NextRound(0, frontier)
    BY <1>1, <1>3 DEF Entry
  <2>2. matches' = MatchesTo(0) /\ frontier' = Paths(0)
    BY <1>1, <2>1, AnchorIs
  <2>3. pc' = IF InBounds(0) THEN "round" ELSE "reach"
    BY <1>1, <2>1 DEF NextRound, InBounds
  <2>5. /\ Paths(0)' = Paths(0) /\ MatchesTo(0)' = MatchesTo(0)
        /\ (InBounds(0)' <=> InBounds(0)) /\ (PromiseAt(0)' <=> PromiseAt(0))
        /\ (NoReturn(0)' <=> NoReturn(0))
    BY <1>1, WaveSteady, GoalSteady DEF InBounds, PromiseAt
  <2>6. count' = 0 /\ NoReturn(0)
    BY <1>1 DEF NoReturn
  <2>7. CASE InBounds(0)
    BY <1>1, <2>2, <2>3, <2>5, <2>6, <2>7 DEF WaveInv, Answered
  <2>8. CASE ~InBounds(0)
    <3>1. group.max \in Nat \union {None}
      BY InputTypes DEF GroupType
    <3>2. group.max # None
      BY <1>1, <2>8, BoundsAssumption DEF InBounds, Ceiling
    <3>3. group.max = 0
      BY <2>8, <3>1, <3>2 DEF InBounds, Ceiling
    <3>4. \A k \in Nat : ~(0 < k /\ k <= 0)
      OBVIOUS
    <3>5. Final(0)'
      BY <1>1, <2>2, <2>5, <3>2, <3>3, <3>4 DEF Final
    <3>6. \E n \in Nat : Final(n)'
      BY <3>5
    <3>7. pc' = "reach"
      BY <2>3, <2>8
    <3> QED
      BY <3>6, <3>7 DEF WaveInv, Answered
  <2> QED
    BY <2>7, <2>8
<1> QED
  BY <1>2, <1>3

\* A round begins.
LEMMA RoundWave ==
    ASSUME TypeOK, WaveInv, Told, Round
    PROVE  WaveInv'
<1>1. PICK n \in Nat : n = count
  BY DEF TypeOK
<1>2. /\ pc' = "hop" /\ count' = n + 1 /\ flight' = Into(Paths(n)) /\ arrived' = {}
      /\ matches' = MatchesTo(n) /\ graph' = graph /\ group' = group /\ InBounds(n)
      /\ PromiseAt(n) /\ promise' = promise /\ alive' = alive /\ (ExactPromise => NoReturn(n))
  BY <1>1 DEF Round, WaveInv, inputs
<1>3. flight' = Flying(n, 0) /\ arrived' = Landed(n, 0) /\ Met(n, 0)
  BY <1>2, RoundBegins
<1>4. WaveAt(n, 0)'
  <2>1. /\ Flying(n, 0)' = Flying(n, 0) /\ Landed(n, 0)' = Landed(n, 0)
        /\ MatchesTo(n)' = MatchesTo(n) /\ (Met(n, 0)' <=> Met(n, 0))
        /\ (NoReturn(n)' <=> NoReturn(n)) /\ (AllPromised(n)' <=> AllPromised(n))
    BY <1>2, WaveSteady
  <2>2. InBounds(n)' /\ (ExactPromise' <=> ExactPromise)
    BY <1>2, GoalSteady DEF InBounds
  <2>3. PromiseAt(n)'
    BY <1>2, <2>1, <2>2 DEF PromiseAt
  <2> QED
    BY <1>2, <1>3, <2>1, <2>2, <2>3 DEF WaveAt
<1> QED
  <2>1. \E i \in Nat : \E j \in Nat : count' = i + 1 /\ WaveAt(i, j)'
    BY <1>2, <1>4
  <2> QED
    BY <1>2, <2>1 DEF WaveInv, Answered

\* The first hop of a round refuses a return under a promise.
LEMMA NoneReturns ==
    ASSUME TypeOK, NEW n \in Nat, flight = Flying(n, 0), Refusals = {}, ExactPromise, PromiseAt(n)
    PROVE  NoReturnAt(n)
<1> SUFFICES ASSUME NEW q \in WalksOf(n), NEW e \in NextEdges(q) PROVE e.to \notin Visited(q)
  BY DEF NoReturnAt
<1>1. PICK al \in group.alts : Crosses(al[1], e.label)
  BY DEF NextEdges
<1>2. e \in graph /\ e.from = EndOf(q)
  BY DEF NextEdges
<1>3. promise
  BY ExactKeeps DEF PromiseAt
<1>4. al \in Seq(Hop1) /\ al # <<>>
  BY InputTypes
<1> DEFINE f == [path |-> Over(AsPath(q), Carry(n, q)), rest |-> al]
<1>5. f \in flight
  <2>1. f \in Into(Paths(n))
    BY DEF Into, Paths
  <2> QED
    BY <2>1, RoundBegins
<1>6. f.path.node = EndOf(q) /\ Visited(q) \subseteq f.path.ground /\ Head(f.rest) = al[1]
  BY <1>4 DEF Over, AsPath
<1> HIDE DEF f
<1>7. ~Returns(f.path, Head(f.rest))
  BY <1>3, <1>5 DEF Refusals
<1>8. e \in Selected(f.path, Head(f.rest))
  BY <1>1, <1>2, <1>6 DEF Selected
<1> QED
  BY <1>6, <1>7, <1>8 DEF Returns

\* A hop of the round.
LEMMA HopWave ==
    ASSUME TypeOK, WaveInv, Told, Hop
    PROVE  WaveInv'
<1>1. /\ graph' = graph /\ group' = group /\ count' = count /\ matches' = matches /\ pc = "hop"
      /\ promise' = promise /\ alive' = alive
  BY DEF Hop, inputs
<1>2. CASE Refusals # {}
  <2>1. pc' = "done" /\ refusal' \in Refusals
    BY <1>2 DEF Hop
  <2>2. refusal' # None
    BY <2>1, BoundsAssumption DEF Refusals
  <2> QED
    BY <2>1, <2>2 DEF WaveInv, Answered
<1>3. CASE Refusals = {}
  <2> DEFINE hopped == UNION {{[path |-> q, rest |-> Tail(f.rest)] :
                                 q \in Hops(f.path, Head(f.rest))} : f \in flight}
  <2>1. /\ flight' = {f \in hopped : f.rest # <<>>} /\ pc' = pc
        /\ arrived' = arrived \union {f.path : f \in {g \in hopped : g.rest = <<>>}}
    BY <1>3 DEF Hop
  <2>2. \E n \in Nat : \E j \in Nat : count = n + 1 /\ WaveAt(n, j)
    BY <1>1 DEF WaveInv
  <2>3. PICK n \in Nat : \E j \in Nat : count = n + 1 /\ WaveAt(n, j)
    BY <2>2
  <2>4. PICK j \in Nat : count = n + 1 /\ WaveAt(n, j)
    BY <2>3
  <2>5. /\ flight = Flying(n, j) /\ arrived = Landed(n, j) /\ InBounds(n) /\ matches = MatchesTo(n)
        /\ Met(n, j) /\ PromiseAt(n) /\ (ExactPromise => NoReturn(IF j = 0 THEN n ELSE n + 1))
    BY <2>4 DEF WaveAt
  <2>6. \E h : h = hopped
    OBVIOUS
  <2>7. PICK h : h = hopped
    BY <2>6
  <2>8. Met(n, j + 1)
    BY <1>3, <2>5, MetOn
  <2>9. flight' = Flying(n, j + 1) /\ arrived' = Landed(n, j + 1)
    <3>1. /\ {f \in h : f.rest # <<>>} = Flying(n, j + 1)
          /\ arrived \union {f.path : f \in {g \in h : g.rest = <<>>}} = Landed(n, j + 1)
      BY <2>5, <2>7, <2>8, WaveOn, ToldForm
    <3> HIDE DEF hopped
    <3> QED
      BY <2>1, <2>7, <3>1
  <2>10. ExactPromise => NoReturn(n + 1)
    <3>1. CASE j = 0
      <4>1. ExactPromise => NoReturnAt(n) /\ NoReturn(n)
        BY <1>3, <2>5, <3>1, NoneReturns
      <4>2. \A k \in Nat : k < n + 1 => k < n \/ k = n
        OBVIOUS
      <4> QED
        BY <4>1, <4>2 DEF NoReturn
    <3> QED
      BY <2>5, <3>1
  <2>11. WaveAt(n, j + 1)'
    <3>1. /\ Flying(n, j + 1)' = Flying(n, j + 1) /\ Landed(n, j + 1)' = Landed(n, j + 1)
          /\ MatchesTo(n)' = MatchesTo(n) /\ (Met(n, j + 1)' <=> Met(n, j + 1))
          /\ (NoReturn(n + 1)' <=> NoReturn(n + 1)) /\ (AllPromised(n)' <=> AllPromised(n))
      BY <1>1, WaveSteady
    <3>2. InBounds(n)' /\ (ExactPromise' <=> ExactPromise)
      BY <1>1, <2>5, GoalSteady DEF InBounds
    <3>3. PromiseAt(n)'
      BY <1>1, <2>5, <3>1, <3>2 DEF PromiseAt
    <3>4. j + 1 # 0
      OBVIOUS
    <3> QED
      BY <1>1, <2>5, <2>8, <2>9, <2>10, <3>1, <3>2, <3>3, <3>4 DEF WaveAt
  <2>12. \E i \in Nat : \E k \in Nat : count' = i + 1 /\ WaveAt(i, k)'
    <3>1. j + 1 \in Nat /\ count' = n + 1
      BY <1>1, <2>4
    <3> QED
      BY <2>11, <3>1
  <2>13. pc' = "hop"
    BY <1>1, <2>1
  <2> QED
    BY <2>12, <2>13 DEF WaveInv, Answered
<1> QED
  BY <1>2, <1>3

\* What the end of a round keeps is the paths of a round more.
LEMMA FrontierOn ==
    ASSUME TypeOK, Told, Told', EndRound, NEW n \in Nat, NEW j \in Nat, WaveAt(n, j)
    PROVE  /\ frontier' = Paths(n + 1)
           /\ frontier' = {} <=> WalksOf(n + 1) = {}
           /\ frontier' # {} => PromiseAt(n + 1)'
<1>1. /\ graph' = graph /\ group' = group /\ pc = "hop" /\ flight = {} /\ ~SetWalk
      /\ alive' = (alive /\ Held)
      /\ promise' = IF alive THEN Held /\ (promise \/ arrived # {}) ELSE promise
      /\ frontier' \in {IF NodeLevel /\ ~Budgeted /\ alive' /\ promise'
                        THEN MergeByPosition(S) ELSE S : S \in OnePerKey(arrived)}
  BY ToldForm DEF EndRound, inputs
<1>2. Flying(n, j) = {} /\ Met(n, j) /\ PromiseAt(n) /\ arrived = Arrivals(n)
  BY <1>1, AllLanded DEF WaveAt
<1>3. \A q \in WalksOf(n), al \in group.alts : \A s \in Legs(q, al, Len(al)) :
         Free(s, Len(al), Carry(n, q))
  BY <1>2, AllMet
<1>4. (AllPromised(n + 1) <=> AllPromised(n) /\ Held) /\ (arrived = {} <=> WalksOf(n + 1) = {})
  BY <1>2, HeldIs
<1>5. alive' <=> AllPromised(n + 1)
  BY <1>1, <1>2, <1>4 DEF PromiseAt
<1>6. WalksOf(n + 1) = {} <=> Paths(n + 1) = {}
  BY DEF Paths
<1>7. frontier' = Paths(n + 1)
  <2>1. CASE Merging /\ AllPromised(n + 1)
    <3>1. OnePerKey(arrived) = {arrived}
      BY <1>2, <2>1, ArrivalsDiffer
    <3>2. frontier' = IF promise' THEN MergeByPosition(arrived) ELSE arrived
      BY <1>1, <1>5, <2>1, <3>1 DEF Merging
    <3>3. MergeByPosition(arrived) = Paths(n + 1)
      BY <1>2, <1>3, <1>4, <2>1, MergedArrivals
    <3>4. ~promise' => arrived = {} /\ Paths(n + 1) = {}
      BY <1>1, <1>4, <1>5, <1>6, <2>1
    <3> QED
      BY <3>2, <3>3, <3>4
  <2>2. CASE ~(Merging /\ AllPromised(n + 1))
    <3>1. \A q \in WalksOf(n) : Carry(n, q) \subseteq Visited(q)
      <4>1. CASE Merging /\ AllPromised(n)
        <5>1. ~alive'
          BY <1>5, <2>2, <4>1
        <5>2. Merging' /\ (MergesTell' => MergesTell)
          <6>1. Merging'
            BY <1>1, <4>1 DEF Merging, NodeLevel, SetWalk, Budgeted
          <6>2. \A i : ArrivesPromised(i)' <=> ArrivesPromised(i)
            BY <1>1, WalksSteady DEF ArrivesPromised
          <6>3. MergesTell' => MergesTell
            BY <1>1, <6>2, WalksSteady, RoutesSteady DEF MergesTell
          <6> QED
            BY <6>1, <6>3
        <5>3. MergesTell
          BY <5>1, <5>2 DEF Told
        <5> QED
          BY <5>3, TellsAll
      <4>2. CASE ~(Merging /\ AllPromised(n))
        BY <4>2, CarryIs
      <4> QED
        BY <4>1, <4>2
    <3>2. arrived = {AsPath(r) : r \in WalksOf(n + 1)}
      BY <1>2, <3>1, ArriveAlone
    <3>3. Paths(n + 1) = {AsPath(r) : r \in WalksOf(n + 1)}
      <4>1. \A r \in WalksOf(n + 1) : Carry(n + 1, r) = {}
        BY <2>2 DEF Carry
      <4> QED
        BY <4>1, OverNothing DEF Paths
    <3>4. OnePerKey(arrived) = {arrived}
      BY <1>2, <3>2, ArrivalsDiffer
    <3>5. ~(NodeLevel /\ ~Budgeted /\ alive' /\ promise')
      BY <1>1, <1>5, <2>2 DEF Merging
    <3> QED
      BY <1>1, <3>2, <3>3, <3>4, <3>5
  <2> QED
    BY <2>1, <2>2
<1>8. ASSUME frontier' # {} PROVE PromiseAt(n + 1)'
  <2>1. arrived # {}
    BY <1>4, <1>6, <1>7, <1>8
  <2>2. ~alive => ~promise
    <3>1. AllPromised(0)
      <4>1. 1..0 = {}
        OBVIOUS
      <4> QED
        BY <4>1 DEF AllPromised
    <3> QED
      BY <1>2, <3>1 DEF PromiseAt
  <2>3. promise' <=> AllPromised(n + 1)
    BY <1>1, <1>2, <1>4, <2>1, <2>2 DEF PromiseAt
  <2>4. AllPromised(n + 1)' <=> AllPromised(n + 1)
    BY <1>1, WaveSteady
  <2>5. n + 1 # 0
    OBVIOUS
  <2> QED
    BY <1>5, <2>3, <2>4, <2>5 DEF PromiseAt
<1> QED
  BY <1>6, <1>7, <1>8

\* No walk of a round returned, once none is under way in it.
LEMMA NoneReturned ==
    ASSUME TypeOK, NEW n \in Nat, NEW j \in Nat, WaveAt(n, j), flight = {}, ExactPromise
    PROVE  NoReturn(n + 1)
<1>1. CASE j # 0
  BY <1>1 DEF WaveAt
<1>2. CASE j = 0
  <2>1. Into(Paths(n)) = {} /\ NoReturn(n)
    BY <1>2, RoundBegins DEF WaveAt
  <2>2. group.alts # {}
    BY InputsAssumption DEF TypeOK
  <2>3. ASSUME NEW q \in WalksOf(n) PROVE FALSE
    <3>1. Over(AsPath(q), Carry(n, q)) \in Paths(n)
      BY DEF Paths
    <3>2. PICK al \in group.alts : TRUE
      BY <2>2
    <3>3. [path |-> Over(AsPath(q), Carry(n, q)), rest |-> al] \in Into(Paths(n))
      BY <3>1, <3>2 DEF Into
    <3> QED
      BY <2>1, <3>3
  <2>4. \A k \in Nat : k < n + 1 => k < n \/ k = n
    OBVIOUS
  <2> QED
    BY <2>1, <2>3, <2>4 DEF NoReturn, NoReturnAt
<1> QED
  BY <1>1, <1>2

\* The round ends, in the paths of one round more.
LEMMA EndRoundWave ==
    ASSUME TypeOK, WaveInv, Told, Told', EndRound
    PROVE  WaveInv'
<1>1. /\ graph' = graph /\ group' = group /\ count' = count /\ pc = "hop" /\ flight = {}
      /\ ~SetWalk /\ (Open <=> group.max = None)
  BY ToldForm DEF EndRound, inputs
<1>2. \E n \in Nat : \E j \in Nat : count = n + 1 /\ WaveAt(n, j)
  BY <1>1 DEF WaveInv
<1>3. PICK n \in Nat : \E j \in Nat : count = n + 1 /\ WaveAt(n, j)
  BY <1>2
<1>4. PICK j \in Nat : count = n + 1 /\ WaveAt(n, j)
  BY <1>3
<1>5. InBounds(n) /\ matches = MatchesTo(n)
  BY <1>4 DEF WaveAt
<1>6. /\ frontier' = Paths(n + 1) /\ (frontier' = {} => WalksOf(n + 1) = {})
      /\ frontier' # {} => PromiseAt(n + 1)'
  BY <1>4, FrontierOn
<1>7. ExactPromise => NoReturn(n + 1)
  BY <1>1, <1>4, NoneReturned
<1>8. \E m : m = n + 1
  OBVIOUS
<1>9. PICK m : m = n + 1
  BY <1>8
<1>10. /\ m \in Nat /\ m # 0 /\ m - 1 = n /\ count = m /\ frontier' = Paths(m)
       /\ (frontier' = {} => WalksOf(m) = {}) /\ (frontier' # {} => PromiseAt(m)')
       /\ (ExactPromise => NoReturn(m))
  BY <1>4, <1>6, <1>7, <1>9
<1>11. {[path |-> p, round |-> count] : p \in {q \in frontier' : Admits(q)}} = MatchesAt(m)
  BY <1>10 DEF MatchesAt
<1>12. MatchesTo(m) = IF m >= group.min THEN matches \union MatchesAt(m) ELSE matches
  BY <1>5, <1>10, AddMatches
<1>13. group.max \in Nat \union {None}
  BY InputTypes DEF GroupType
<1>14. /\ Paths(m)' = Paths(m) /\ MatchesTo(m)' = MatchesTo(m)
       /\ InBounds(m)' <=> InBounds(m)
       /\ NoReturn(m)' <=> NoReturn(m)
       /\ ExactPromise' <=> ExactPromise
  BY <1>1, WaveSteady, GoalSteady DEF InBounds
<1>15. ASSUME NEW i \in Nat PROVE Final(i)' <=>
          /\ matches' = MatchesTo(i) /\ (group.max # None => i <= group.max)
          /\ \/ \A k \in Nat : i < k /\ (group.max # None => k <= group.max) => WalksOf(k) = {}
             \/ group.reach = "proximal" /\ matches' # {}
          /\ ExactPromise /\ group.max = None /\ group.reach = "all" => Unreturned
  <2>1. /\ \A k : WalksOf(k)' = WalksOf(k)
        /\ MatchesTo(i)' = MatchesTo(i) /\ (Unreturned' <=> Unreturned)
        /\ ExactPromise' <=> ExactPromise
    BY <1>1, WaveSteady, GoalSteady
  <2> QED
    BY <1>1, <2>1 DEF Final
<1> DEFINE probed == Open /\ count > Ceiling
<1>16. ASSUME frontier' = {}
       PROVE  /\ \A k \in Nat : m <= k => WalksOf(k) = {}
              /\ ExactPromise => Unreturned
  <2>1. WalksOf(m) = {}
    BY <1>10, <1>16
  <2>2. \A k \in Nat : m <= k => WalksOf(k) = {}
    BY <1>10, <2>1, NoWalksOn
  <2>3. \A k \in Nat : k < m \/ m <= k
    BY <1>10
  <2> QED
    BY <1>10, <2>2, <2>3 DEF Unreturned, NoReturn, NoReturnAt
<1>17. CASE probed /\ frontier' # {} /\ refusal' = "open" /\ pc' = "done"
  BY <1>17, BoundsAssumption DEF WaveInv, Answered
<1>18. CASE probed /\ frontier' = {} /\ pc' = "reach" /\ matches' = matches
  <2>1. group.max = None
    BY <1>1, <1>18
  <2>2. \A k \in Nat : n < k => m <= k
    BY <1>9
  <2>3. \A k \in Nat : n < k => WalksOf(k) = {}
    BY <1>16, <1>18, <2>2
  <2>4. Final(n)'
    BY <1>5, <1>15, <1>16, <1>18, <2>1, <2>3
  <2>5. \E i \in Nat : Final(i)'
    BY <2>4
  <2> QED
    BY <1>18, <2>5 DEF WaveInv, Answered
<1>19. CASE refusal' = "frontier" /\ pc' = "done"
  BY <1>19, BoundsAssumption DEF WaveInv, Answered
<1>20. CASE /\ ~probed /\ matches' = MatchesTo(m)
            /\ \/ pc' = NextRound(count, frontier')
               \/ group.reach = "proximal" /\ MatchesTo(m) # {} /\ pc' = "reach"
  <2>1. QuantifierBound \in Nat /\ Ceiling \in Nat
    BY <1>13, BoundsAssumption DEF Ceiling
  <2>2. m <= Ceiling
    BY <1>5, <1>10, <1>20, <2>1 DEF InBounds
  <2>3. group.max # None => Ceiling = group.max
    BY DEF Ceiling
  <2>4. group.max # None => m <= group.max
    BY <2>2, <2>3
  <2>5. CASE group.reach = "proximal" /\ MatchesTo(m) # {} /\ pc' = "reach"
    <3>1. Final(m)'
      BY <1>10, <1>15, <1>20, <2>4, <2>5
    <3>2. \E i \in Nat : Final(i)'
      BY <1>10, <3>1
    <3> QED
      BY <2>5, <3>2 DEF WaveInv, Answered
  <2>6. CASE pc' = NextRound(count, frontier') /\ frontier' # {} /\ InBounds(m)
    <3>1. pc' = "round" /\ count' = m
      BY <1>1, <1>10, <2>6 DEF NextRound, InBounds
    <3> QED
      BY <1>10, <1>14, <1>20, <2>6, <3>1 DEF WaveInv, Answered
  <2>7. CASE pc' = NextRound(count, frontier') /\ (frontier' = {} \/ ~InBounds(m))
    <3>1. pc' = "reach"
      BY <1>1, <1>10, <2>7 DEF NextRound, InBounds
    <3>2. Final(m)'
      <4>1. CASE frontier' = {}
        <5>1. \A k \in Nat : m < k => m <= k
          BY <1>10
        <5>2. \A k \in Nat : m < k => WalksOf(k) = {}
          BY <1>16, <4>1, <5>1
        <5> QED
          BY <1>10, <1>15, <1>16, <1>20, <2>4, <4>1, <5>2
      <4>2. CASE ~InBounds(m)
        <5>1. m = Ceiling /\ ~Open
          BY <1>10, <2>1, <2>2, <4>2 DEF InBounds
        <5>2. group.max # None /\ group.max = m
          BY <1>1, <2>3, <5>1
        <5>3. \A k \in Nat : ~(m < k /\ k <= m)
          BY <1>10
        <5>4. \A k \in Nat : m < k /\ (group.max # None => k <= group.max) => WalksOf(k) = {}
          BY <5>2, <5>3
        <5> QED
          BY <1>10, <1>15, <1>20, <2>4, <5>2, <5>4
      <4> QED
        BY <2>7, <4>1, <4>2
    <3>3. \E i \in Nat : Final(i)'
      BY <1>10, <3>2
    <3> QED
      BY <3>1, <3>3 DEF WaveInv, Answered
  <2> QED
    BY <1>20, <2>5, <2>6, <2>7
<1>21. \/ probed /\ frontier' # {} /\ refusal' = "open" /\ pc' = "done"
       \/ probed /\ frontier' = {} /\ pc' = "reach" /\ matches' = matches
       \/ refusal' = "frontier" /\ pc' = "done"
       \/ /\ ~probed /\ matches' = MatchesTo(m)
          /\ \/ pc' = NextRound(count, frontier')
             \/ group.reach = "proximal" /\ MatchesTo(m) # {} /\ pc' = "reach"
  <2> DEFINE found == {[path |-> p, round |-> count] : p \in {q \in frontier' : Admits(q)}}
  <2>1. \/ probed /\ frontier' # {} /\ refusal' = "open" /\ pc' = "done"
        \/ probed /\ frontier' = {} /\ pc' = "reach" /\ matches' = matches
        \/ refusal' = "frontier" /\ pc' = "done"
        \/ /\ ~probed
           /\ matches' = IF count >= group.min THEN matches \union found ELSE matches
           /\ pc' = IF group.reach = "proximal" /\ count >= group.min /\ found # {}
                    THEN "reach" ELSE NextRound(count, frontier')
    BY DEF EndRound
  <2>2. found = MatchesAt(m)
    BY <1>11
  <2> HIDE DEF found, probed
  <2> QED
    BY <1>10, <1>12, <2>1, <2>2
<1> HIDE DEF probed
<1> QED
  BY <1>17, <1>18, <1>19, <1>20, <1>21

\* The match m is the one of the walk r of k rounds.
MatchOf(m, k, r) == /\ k \in Tiers /\ r \in FoundAt(k)
                    /\ m = [path |-> Over(AsPath(r), Carry(k, r)), round |-> k]

\* What a match tells of its walk.
LEMMA MatchTells ==
    ASSUME NEW m, NEW k, NEW r, MatchOf(m, k, r)
    PROVE  /\ m.round = k /\ m.path.node = EndOf(r) /\ m.path.total = TotalOf(r)
           /\ k \in Tiers /\ r \in FoundAt(k)
           /\ Carry(k, r) = {} => m = [path |-> AsPath(r), round |-> k]
<1>1. Carry(k, r) = {} => Over(AsPath(r), Carry(k, r)) = AsPath(r)
  BY OverNothing
<1> QED
  BY <1>1 DEF MatchOf, Over, AsPath

\* Once no later round would change the answer, the matches are those of the tiers so far,
\* which are all of them but where the first is enough.
LEMMA MatchesAreOf ==
    ASSUME TypeOK, NEW n \in Nat, Final(n)
    PROVE  /\ \A m \in matches : \E k, r : MatchOf(m, k, r) /\ k <= n
           /\ \A k \in Tiers : \A r \in FoundAt(k) : k <= n => \E m \in matches : MatchOf(m, k, r)
           /\ group.reach # "proximal" \/ matches = {} => \A k \in Tiers : k <= n
           /\ \A k \in Tiers : k \in Nat /\ FoundAt(k) # {}
<1>1. group.min \in Nat /\ group.max \in Nat \union {None}
  BY InputTypes DEF GroupType
<1>2. Longest \in Int
  BY NodesAssumption, FS_CardinalityType DEF Longest
<1>3. \A k \in Tiers : /\ k \in Nat /\ FoundAt(k) # {} /\ group.min <= k
                       /\ (group.max # None => k <= group.max) /\ k \in 0..Longest
  BY <1>2 DEF Tiers
<1>4. \A k, r : k \in 0..Longest => (r \in FoundAt(k) <=> r \in WalksOf(k) /\ Admits(AsPath(r)))
  BY DEF FoundAt, WalksOf
<1>5. \A r, g : Admits(Over(AsPath(r), g)) <=> Admits(AsPath(r))
  BY DEF Admits, Over
<1>6. ASSUME NEW m
      PROVE  m \in matches <=>
               \E k \in group.min..n : \E r \in WalksOf(k) :
                  /\ Admits(AsPath(r))
                  /\ m = [path |-> Over(AsPath(r), Carry(k, r)), round |-> k]
  <2>1. m \in matches <=>
               \E k \in group.min..n : \E r \in WalksOf(k) :
                  /\ Admits(Over(AsPath(r), Carry(k, r)))
                  /\ m = [path |-> Over(AsPath(r), Carry(k, r)), round |-> k]
    BY DEF Final, MatchesTo, MatchesAt, Paths
  <2> QED
    BY <1>5, <2>1
<1>7. ASSUME NEW k, NEW r
      PROVE  k \in group.min..n /\ r \in WalksOf(k) /\ Admits(AsPath(r))
               <=> k \in Tiers /\ r \in FoundAt(k) /\ k <= n
  <2>1. ASSUME k \in group.min..n, r \in WalksOf(k), Admits(AsPath(r))
        PROVE  k \in Tiers /\ r \in FoundAt(k) /\ k <= n
    <3>1. k \in 0..Longest
      BY <2>1 DEF WalksOf
    <3>2. r \in FoundAt(k)
      BY <1>4, <2>1, <3>1
    <3>3. group.min <= k /\ (group.max # None => k <= group.max) /\ k <= n
      BY <1>1, <2>1 DEF Final
    <3> QED
      BY <3>1, <3>2, <3>3 DEF Tiers
  <2>2. ASSUME k \in Tiers, r \in FoundAt(k), k <= n
        PROVE  k \in group.min..n /\ r \in WalksOf(k) /\ Admits(AsPath(r))
    BY <1>1, <1>3, <1>4, <2>2
  <2> QED
    BY <2>1, <2>2
<1>8. ASSUME NEW m \in matches PROVE \E k, r : MatchOf(m, k, r) /\ k <= n
  <2>1. PICK k \in group.min..n : \E r \in WalksOf(k) :
                  /\ Admits(AsPath(r))
                  /\ m = [path |-> Over(AsPath(r), Carry(k, r)), round |-> k]
    BY <1>6
  <2>2. PICK r \in WalksOf(k) : /\ Admits(AsPath(r))
                                /\ m = [path |-> Over(AsPath(r), Carry(k, r)), round |-> k]
    BY <2>1
  <2>3. MatchOf(m, k, r) /\ k <= n
    BY <1>7, <2>2 DEF MatchOf
  <2> QED
    BY <2>3
<1>9. ASSUME NEW k \in Tiers, NEW r \in FoundAt(k), k <= n
      PROVE  \E m \in matches : MatchOf(m, k, r)
  <2>1. k \in group.min..n /\ r \in WalksOf(k) /\ Admits(AsPath(r))
    BY <1>7, <1>9
  <2>2. PICK m : m = [path |-> Over(AsPath(r), Carry(k, r)), round |-> k]
    OBVIOUS
  <2>3. m \in matches
    BY <1>6, <2>1, <2>2
  <2>4. MatchOf(m, k, r)
    BY <2>2 DEF MatchOf
  <2> QED
    BY <2>3, <2>4
<1>10. ASSUME group.reach # "proximal" \/ matches = {}, NEW k \in Tiers PROVE k <= n
  <2>1. \A i \in Nat : n < i /\ (group.max # None => i <= group.max) => WalksOf(i) = {}
    BY <1>10 DEF Final
  <2>2. WalksOf(k) # {}
    BY <1>3, <1>4
  <2> QED
    BY <1>3, <2>1, <2>2
<1> QED
  BY <1>3, <1>8, <1>9, <1>10

\* The reach keeps the ends of what was to be chosen.
LEMMA KeptChosen ==
    ASSUME TypeOK, ~Lightest, NEW n \in Nat, Final(n)
    PROVE  {m.path.node : m \in {x \in matches : Tier(x)}} = {EndOf(r) : r \in Chosen}
<1>0. group.reach \in {"all", "proximal", "distal"}
  BY InputTypes DEF GroupType
<1>1. \A m \in matches : \E k, r : MatchOf(m, k, r) /\ k <= n
  BY MatchesAreOf
<1>2. \A k \in Tiers : \A r \in FoundAt(k) : k <= n => \E m \in matches : MatchOf(m, k, r)
  BY MatchesAreOf
<1>3. group.reach # "proximal" \/ matches = {} => \A k \in Tiers : k <= n
  BY MatchesAreOf
<1>4. \A k \in Tiers : k \in Nat /\ FoundAt(k) # {}
  BY MatchesAreOf
<1>5. \A k \in Reached : k <= n
  <2> SUFFICES ASSUME NEW k \in Reached, group.reach = "proximal", matches # {} PROVE k <= n
    BY <1>3 DEF Reached
  <2>1. PICK m \in matches : TRUE
    OBVIOUS
  <2>2. PICK k0, r0 : MatchOf(m, k0, r0) /\ k0 <= n
    BY <1>1
  <2>3. k0 \in Tiers
    BY <2>2, MatchTells
  <2>4. ~Budgeted
    BY DEF Lightest
  <2>5. k <= k0 /\ k \in Tiers
    BY <2>3, <2>4 DEF Reached
  <2> QED
    BY <1>4, <2>2, <2>3, <2>5
<1>6. Reached \subseteq Tiers
  BY DEF Reached
<1>7. \A r : r \in Found <=> \E k \in Reached : r \in FoundAt(k)
  BY DEF Found
<1>8. ASSUME NEW m \in matches, NEW k, NEW r, MatchOf(m, k, r)
      PROVE  Tier(m) <=> k \in Reached /\ r \in Chosen
  <2>0. /\ m.round = k /\ m.path.node = EndOf(r) /\ m.path.total = TotalOf(r)
        /\ k \in Tiers /\ r \in FoundAt(k)
    BY <1>8, MatchTells
  <2>1. CASE group.reach = "all"
    BY <1>7, <2>0, <2>1 DEF Tier, Reached, Chosen
  <2>2. CASE group.reach = "proximal"
    <3>1. ~Budgeted
      BY <2>2 DEF Lightest
    <3>2. (\A x \in matches : k <= x.round) <=> \A i \in Tiers : k <= i
      <4>1. ASSUME \A x \in matches : k <= x.round, NEW i \in Tiers PROVE k <= i
        <5>1. CASE i <= n
          <6>1. PICK q \in FoundAt(i) : TRUE
            BY <1>4
          <6>2. PICK x \in matches : MatchOf(x, i, q)
            BY <1>2, <5>1
          <6>3. x.round = i
            BY <6>2, MatchTells
          <6> QED
            BY <4>1, <6>3
        <5>2. CASE ~(i <= n)
          <6>1. PICK k0, r0 : MatchOf(m, k0, r0) /\ k0 <= n
            BY <1>1
          <6>2. k0 = k
            BY <2>0, <6>1, MatchTells
          <6> QED
            BY <1>4, <2>0, <5>2, <6>1, <6>2
        <5> QED
          BY <5>1, <5>2
      <4>2. ASSUME \A i \in Tiers : k <= i, NEW x \in matches PROVE k <= x.round
        <5>1. PICK i, q : MatchOf(x, i, q) /\ i <= n
          BY <1>1
        <5>2. x.round = i /\ i \in Tiers
          BY <5>1, MatchTells
        <5> QED
          BY <4>2, <5>2
      <4> QED
        BY <4>1, <4>2
    <3>3. Tier(m) <=> \A i \in Tiers : k <= i
      BY <2>0, <2>2, <3>1, <3>2 DEF Tier, Lightest
    <3>4. k \in Reached <=> \A i \in Tiers : k <= i
      BY <2>0, <2>2, <3>1 DEF Reached
    <3>5. k \in Reached => r \in Chosen
      BY <1>7, <2>0, <3>1 DEF Chosen
    <3> QED
      BY <3>3, <3>4, <3>5
  <2>3. CASE group.reach = "distal" /\ ~Budgeted
    <3>2. (\A x \in matches : x.round <= k) <=> \A i \in Tiers : i <= k
      <4>1. ASSUME \A x \in matches : x.round <= k, NEW i \in Tiers PROVE i <= k
        <5>1. i <= n
          BY <1>3, <2>3
        <5>2. PICK q \in FoundAt(i) : TRUE
          BY <1>4
        <5>3. PICK x \in matches : MatchOf(x, i, q)
          BY <1>2, <5>1
        <5>4. x.round = i
          BY <5>3, MatchTells
        <5> QED
          BY <4>1, <5>4
      <4>2. ASSUME \A i \in Tiers : i <= k, NEW x \in matches PROVE x.round <= k
        <5>1. PICK i, q : MatchOf(x, i, q) /\ i <= n
          BY <1>1
        <5>2. x.round = i /\ i \in Tiers
          BY <5>1, MatchTells
        <5> QED
          BY <4>2, <5>2
      <4> QED
        BY <4>1, <4>2
    <3>3. Tier(m) <=> \A i \in Tiers : i <= k
      BY <2>0, <2>3, <3>2 DEF Tier, Lightest
    <3>4. k \in Reached <=> \A i \in Tiers : i <= k
      BY <2>0, <2>3 DEF Reached
    <3>5. k \in Reached => r \in Chosen
      BY <1>7, <2>0, <2>3 DEF Chosen
    <3> QED
      BY <3>3, <3>4, <3>5
  <2>4. CASE group.reach = "distal" /\ Budgeted
    <3>1. Reached = Tiers
      BY <2>4 DEF Reached
    <3>2. (\A x \in matches : x.path.total <= TotalOf(r)) <=> \A q \in Found : TotalOf(q) <= TotalOf(r)
      <4>1. ASSUME \A x \in matches : x.path.total <= TotalOf(r), NEW q \in Found
            PROVE  TotalOf(q) <= TotalOf(r)
        <5>1. PICK i \in Reached : q \in FoundAt(i)
          BY <1>7
        <5>2. PICK x \in matches : MatchOf(x, i, q)
          BY <1>2, <1>5, <1>6, <5>1
        <5>3. x.path.total = TotalOf(q)
          BY <5>2, MatchTells
        <5> QED
          BY <4>1, <5>3
      <4>2. ASSUME \A q \in Found : TotalOf(q) <= TotalOf(r), NEW x \in matches
            PROVE  x.path.total <= TotalOf(r)
        <5>1. PICK i, q : MatchOf(x, i, q) /\ i <= n
          BY <1>1
        <5>2. x.path.total = TotalOf(q) /\ i \in Tiers /\ q \in FoundAt(i)
          BY <5>1, MatchTells
        <5> QED
          BY <1>7, <3>1, <4>2, <5>2
      <4> QED
        BY <4>1, <4>2
    <3>3. Tier(m) <=> \A x \in matches : x.path.total <= TotalOf(r)
      BY <2>0, <2>4 DEF Tier, Lightest
    <3>4. r \in Chosen <=> \A q \in Found : TotalOf(q) <= TotalOf(r)
      BY <1>7, <2>0, <2>4, <3>1 DEF Chosen
    <3> QED
      BY <2>0, <3>1, <3>2, <3>3, <3>4
  <2> QED
    BY <1>0, <2>1, <2>2, <2>3, <2>4
<1>9. ASSUME NEW m \in matches, Tier(m) PROVE \E r \in Chosen : m.path.node = EndOf(r)
  <2>1. PICK k, r : MatchOf(m, k, r)
    BY <1>1
  <2> QED
    BY <1>8, <1>9, <2>1, MatchTells
<1>10. ASSUME NEW r \in Chosen PROVE \E m \in matches : Tier(m) /\ m.path.node = EndOf(r)
  <2>1. r \in Found
    BY DEF Chosen
  <2>2. PICK k \in Reached : r \in FoundAt(k)
    BY <1>7, <2>1
  <2>3. PICK m \in matches : MatchOf(m, k, r)
    BY <1>2, <1>5, <1>6, <2>2
  <2> QED
    BY <1>8, <2>2, <2>3, MatchTells
<1> QED
  BY <1>9, <1>10

\* One path for each node keeps the nodes.
LEMMA OnceKeeps ==
    ASSUME NEW S, NEW once \in OnePerNode(S, {})
    PROVE  {p.node : p \in once} = {p.node : p \in S} /\ once \subseteq S
<1> DEFINE new == {p.node : p \in S} \ {}
<1>1. PICK pick \in [new -> S] : (\A n \in new : pick[n].node = n) /\ once = {pick[n] : n \in new}
  BY DEF OnePerNode
<1>2. new = {p.node : p \in S}
  OBVIOUS
<1> HIDE DEF new
<1>3. once \subseteq S
  BY <1>1
<1>4. {p.node : p \in once} = new
  BY <1>1
<1> QED
  BY <1>2, <1>3, <1>4

\* The reach answers the nodes of what it keeps.
LEMMA ReachNodes ==
    ASSUME Reach, ~Lightest
    PROVE  {m.path.node : m \in answer'} = {m.path.node : m \in {x \in matches : Tier(x)}}
<1>1. \E kept : kept = {m \in matches : Tier(m)}
  OBVIOUS
<1>2. PICK kept : kept = {m \in matches : Tier(m)}
  BY <1>1
<1>3. IF group.reach = "all" THEN answer' = kept
      ELSE \E once \in OnePerNode({m.path : m \in kept}, {}) : answer' = {m \in kept : m.path \in once}
  BY <1>2 DEF Reach
<1>4. {m.path.node : m \in answer'} = {m.path.node : m \in kept}
  <2>1. CASE group.reach = "all"
    BY <1>3, <2>1
  <2>2. CASE group.reach # "all"
    <3> DEFINE S == {m.path : m \in kept}
    <3>1. PICK once \in OnePerNode(S, {}) : answer' = {m \in kept : m.path \in once}
      BY <1>3, <2>2
    <3>2. {p.node : p \in once} = {p.node : p \in S} /\ once \subseteq S
      BY OnceKeeps
    <3>3. ASSUME NEW m \in kept PROVE \E x \in answer' : x.path.node = m.path.node
      <4>1. m.path.node \in {p.node : p \in once}
        BY <3>2
      <4>2. PICK p \in once : p.node = m.path.node
        BY <4>1
      <4>3. PICK x \in kept : x.path = p
        BY <3>2
      <4> QED
        BY <3>1, <4>2, <4>3
    <3>4. answer' \subseteq kept
      BY <3>1
    <3> QED
      BY <3>3, <3>4
  <2> QED
    BY <2>1, <2>2
<1> QED
  BY <1>2, <1>4

\* The reach answers what the paths of the rounds say.
LEMMA ReachWave ==
    ASSUME TypeOK, WaveInv, Told, Reach
    PROVE  WaveInv'
<1>1. /\ graph' = graph /\ group' = group /\ pc = "reach" /\ pc' = "done" /\ ~Lightest
      /\ IF group.reach = "all" \/ Lightest THEN answer' = {m \in matches : Tier(m)}
         ELSE \E once \in OnePerNode({m.path : m \in {x \in matches : Tier(x)}}, {}) :
                 answer' = {m \in {x \in matches : Tier(x)} : m.path \in once}
  BY ToldForm DEF Reach, inputs
<1>2. PICK n \in Nat : Final(n)
  BY <1>1 DEF WaveInv
<1>3. {m.path.node : m \in answer'} = {EndOf(r) : r \in Chosen}
  BY <1>1, <1>2, ReachNodes, KeptChosen
<1>4. Exact => answer' = Expected
  <2> SUFFICES ASSUME Exact PROVE answer' = Expected
    OBVIOUS
  <2>1. group.reach = "all" /\ ~Merging /\ Reached = Tiers
    BY DEF Exact, Merging, Reached
  <2>2. answer' = matches
    BY <1>1, <2>1 DEF Tier
  <2>3. \A k, r : Carry(k, r) = {}
    BY <2>1 DEF Carry
  <2>4. ASSUME NEW m \in matches PROVE m \in Expected
    <3>1. PICK k, r : MatchOf(m, k, r)
      BY <1>2, MatchesAreOf
    <3>2. k \in Reached /\ r \in FoundAt(k) /\ m = [path |-> AsPath(r), round |-> k]
      BY <2>1, <2>3, <3>1, MatchTells
    <3> QED
      BY <3>2 DEF Expected
  <2>5. ASSUME NEW m \in Expected PROVE m \in matches
    <3>1. PICK k \in Reached : \E r \in FoundAt(k) : m = [path |-> AsPath(r), round |-> k]
      BY DEF Expected
    <3>2. PICK r \in FoundAt(k) : m = [path |-> AsPath(r), round |-> k]
      BY <3>1
    <3>3. k \in Tiers /\ k <= n
      BY <1>2, <2>1, MatchesAreOf
    <3>4. PICK x \in matches : MatchOf(x, k, r)
      BY <1>2, <3>2, <3>3, MatchesAreOf
    <3>5. x = m
      BY <2>3, <3>2, <3>4, MatchTells
    <3> QED
      BY <3>4, <3>5
  <2> QED
    BY <2>2, <2>4, <2>5
<1>5. ExactPromise /\ group.max = None /\ group.reach = "all" => Unreturned
  BY <1>2 DEF Final
<1>6. Fulfilled'
  <2>1. /\ Expected' = Expected /\ (Exact' <=> Exact) /\ (ExactPromise' <=> ExactPromise)
        /\ Chosen' = Chosen /\ (Unreturned' <=> Unreturned)
    BY <1>1, GoalSteady, WaveSteady
  <2>2. Complete'
    <3>1. {EndOf(r) : r \in Chosen}' = {EndOf(r) : r \in Chosen}
      BY <2>1, RoutesSteady, <1>1
    <3> QED
      BY <1>3, <3>1 DEF Complete
  <2> QED
    BY <1>1, <1>4, <1>5, <2>1, <2>2 DEF Fulfilled
<1> QED
  BY <1>1, <1>6 DEF WaveInv, Answered

\* Nothing is said of a wave that a step that changes nothing would change.
LEMMA StutterWave ==
    ASSUME TypeOK, WaveInv, Told, UNCHANGED vars
    PROVE  WaveInv'
<1>1. /\ pc' = pc /\ count' = count /\ matches' = matches /\ frontier' = frontier /\ flight' = flight
      /\ arrived' = arrived /\ answer' = answer /\ refusal' = refusal /\ promise' = promise
      /\ alive' = alive /\ graph' = graph /\ group' = group
  BY DEF vars, inputs
<1>2. ASSUME NEW i
      PROVE  /\ WalksOf(i)' = WalksOf(i) /\ Paths(i)' = Paths(i)
             /\ MatchesTo(i)' = MatchesTo(i)
             /\ InBounds(i)' <=> InBounds(i)
             /\ NoReturn(i)' <=> NoReturn(i)
             /\ PromiseAt(i)' <=> PromiseAt(i)
  <2>1. /\ WalksOf(i)' = WalksOf(i) /\ Paths(i)' = Paths(i) /\ MatchesTo(i)' = MatchesTo(i)
        /\ (NoReturn(i)' <=> NoReturn(i)) /\ (AllPromised(i)' <=> AllPromised(i))
    BY <1>1, WaveSteady
  <2>2. (InBounds(i)' <=> InBounds(i)) /\ (ExactPromise' <=> ExactPromise)
    BY <1>1, GoalSteady DEF InBounds
  <2> QED
    BY <1>1, <2>1, <2>2 DEF PromiseAt
<1>3. /\ Expected' = Expected /\ (Exact' <=> Exact) /\ (ExactPromise' <=> ExactPromise)
      /\ Chosen' = Chosen /\ (Unreturned' <=> Unreturned)
  BY <1>1, GoalSteady, WaveSteady
<1>4. ASSUME NEW n, NEW j PROVE WaveAt(n, j)' <=> WaveAt(n, j)
  <2>1. Flying(n, j)' = Flying(n, j) /\ Landed(n, j)' = Landed(n, j) /\ (Met(n, j)' <=> Met(n, j))
    BY <1>1, WaveSteady
  <2>2. NoReturn(IF j = 0 THEN n ELSE n + 1)' <=> NoReturn(IF j = 0 THEN n ELSE n + 1)
    BY <1>2
  <2> QED
    BY <1>1, <1>2, <1>3, <2>1, <2>2 DEF WaveAt
<1>5. ASSUME NEW n PROVE Final(n)' <=> Final(n)
  BY <1>1, <1>2, <1>3 DEF Final
<1>6. Fulfilled' <=> Fulfilled
  <2>1. {EndOf(r) : r \in Chosen}' = {EndOf(r) : r \in Chosen}
    BY <1>1, <1>3, RoutesSteady
  <2> QED
    BY <1>1, <1>3, <2>1 DEF Fulfilled, Complete
<1>7. /\ Paths(count)' = Paths(count) /\ MatchesTo(count)' = MatchesTo(count)
      /\ InBounds(count)' <=> InBounds(count)
      /\ NoReturn(count)' <=> NoReturn(count)
      /\ PromiseAt(count)' <=> PromiseAt(count)
  <2>1. \A i : /\ Paths(i)' = Paths(i) /\ MatchesTo(i)' = MatchesTo(i)
               /\ InBounds(i)' <=> InBounds(i)
               /\ NoReturn(i)' <=> NoReturn(i)
               /\ PromiseAt(i)' <=> PromiseAt(i)
    BY <1>2
  <2> QED
    BY <1>1, <2>1
<1> QED
  BY <1>1, <1>3, <1>4, <1>5, <1>6, <1>7 DEF WaveInv, Answered

\* A group whose hops are all promised keeps its promise.
KeptInv == ExactPromise /\ ~SetWalk /\ ~Lightest /\ (Budgeted => TotalsAgree) => alive

\* Nothing in a step changes the inputs, nor gives a promise back.
LEMMA InputsStay ==
    ASSUME [Next]_vars
    PROVE  /\ graph' = graph /\ group' = group
           /\ alive' = alive \/ (EndRound /\ alive' = (alive /\ Held))
           /\ alive' => alive
<1>1. /\ graph' = graph /\ group' = group
      /\ alive' = alive \/ (EndRound /\ alive' = (alive /\ Held))
  BY DEF Next, vars, inputs, Entry, Round, Hop, EndRound, Settle, Pend, Settled, Reach, Terminated
<1>2. CASE alive' = alive
  BY <1>1, <1>2
<1>3. CASE alive' = (alive /\ Held)
  BY <1>1, <1>3
<1> QED
  BY <1>1, <1>2, <1>3

\* A step keeps what is known of the wave.
LEMMA WaveStep ==
    ASSUME TypeOK, WaveInv, [Next]_vars
    PROVE  WaveInv'
<1>1. /\ graph' = graph /\ group' = group /\ (alive' => alive)
  BY InputsStay
<1>2. Told' => Told
  BY <1>1, GoalSteady
<1>3. CASE ~Told'
  BY <1>3 DEF WaveInv
<1>4. CASE Told'
  <2>0. Told
    BY <1>2, <1>4
  <2>1. CASE Entry
    BY <2>0, <2>1, EntryWave
  <2>2. CASE Round
    BY <2>0, <2>2, RoundWave
  <2>3. CASE Hop
    BY <2>0, <2>3, HopWave
  <2>4. CASE EndRound
    BY <1>4, <2>0, <2>4, EndRoundWave
  <2>5. CASE Reach
    BY <2>0, <2>5, ReachWave
  <2>6. CASE Settle \/ Pend \/ Settled
    <3>1. ~Lightest /\ pc # "settle"
      BY <2>0, ToldForm DEF WaveInv
    <3> QED
      BY <2>6, <3>1 DEF Settle, Pend, Settled
  <2>7. CASE UNCHANGED vars
    BY <2>0, <2>7, StutterWave
  <2> QED
    BY <2>1, <2>2, <2>3, <2>4, <2>5, <2>6, <2>7 DEF Next, Terminated
<1> QED
  BY <1>3, <1>4

\* ... and a promise that all hops are of.
LEMMA KeptStep ==
    ASSUME TypeOK, WaveInv, KeptInv, [Next]_vars
    PROVE  KeptInv'
<1>1. graph' = graph /\ group' = group
  BY InputsStay
<1>2. /\ ExactPromise' <=> ExactPromise
      /\ SetWalk' <=> SetWalk
      /\ Lightest' <=> Lightest
      /\ Budgeted' <=> Budgeted
      /\ TotalsAgree' <=> TotalsAgree
  <2>1. TotalsAgree' <=> TotalsAgree
    <3>1. AllWalks' = AllWalks
      BY <1>1, WalksSteady DEF AllWalks
    <3> QED
      BY <1>1, <3>1, RoutesSteady DEF TotalsAgree, KeyOf
  <2> QED
    BY <1>1, <2>1, GoalSteady DEF SetWalk, Lightest, Budgeted, NodeLevel
<1> SUFFICES ASSUME ExactPromise, ~SetWalk, ~Lightest, Budgeted => TotalsAgree PROVE alive'
  BY <1>2 DEF KeptInv
<1>3. alive /\ Told
  BY DEF KeptInv, Told
<1>4. CASE alive' = alive
  BY <1>3, <1>4
<1>5. CASE EndRound /\ alive' = (alive /\ Held)
  <2>1. pc = "hop" /\ flight = {}
    BY <1>5 DEF EndRound
  <2>2. \E n \in Nat : \E j \in Nat : count = n + 1 /\ WaveAt(n, j)
    BY <1>3, <2>1 DEF WaveInv
  <2>3. PICK n \in Nat : \E j \in Nat : count = n + 1 /\ WaveAt(n, j)
    BY <2>2
  <2>4. PICK j \in Nat : WaveAt(n, j)
    BY <2>3
  <2>5. arrived = Arrivals(n)
    BY <2>1, <2>4, AllLanded DEF WaveAt
  <2>6. AllPromised(n + 1)
    BY ExactKeeps
  <2>7. Held
    BY <2>5, <2>6, HeldIs
  <2> QED
    BY <1>3, <1>5, <2>7
<1> QED
  BY <1>4, <1>5, InputsStay

\* The two of every reachable state.
LEMMA WaveAlways == Spec => [](TypeOK /\ WaveInv /\ KeptInv)
<1>1. Init /\ TypeOK => WaveInv
  BY StartWave
<1>2. Init => KeptInv
  BY DEF Init, KeptInv
<1>3. TypeOK /\ WaveInv /\ KeptInv /\ [Next]_vars => WaveInv' /\ KeptInv'
  BY WaveStep, KeptStep
<1> QED
  BY <1>1, <1>2, <1>3, TypeCorrect, PTL DEF Spec

\* A walk for all matches that is not read by node answers exactly one path for
\* every ground, arriving edge and round of the acyclic walks the group matches:
\* the expansion by rounds neither misses a walk nor adds one.
THEOREM EveryGroundAnswered == Spec => []GroundsAnswered
<1>1. TypeOK /\ WaveInv => GroundsAnswered
  <2> SUFFICES ASSUME TypeOK, WaveInv, Answered, group.reach = "all", ~NodeLevel, Budgeted => TotalsAgree
               PROVE  answer = Expected
    BY DEF GroundsAnswered, Expected
  <2>1. Exact /\ Told
    BY DEF Exact, Told, SetWalk, Lightest, Merging
  <2>2. Fulfilled
    BY <2>1 DEF WaveInv
  <2> QED
    BY <2>1, <2>2 DEF Fulfilled
<1> QED
  BY <1>1, WaveAlways, PTL

-----------------------------------------------------------------------------
(***************************************************************************)
(* Walks by node: what is seen and no longer held was followed.            *)
(***************************************************************************)

\* The routes of an alternative from a node that keep off the anchor, and where they stand.
Avoiding(v, al) == {s \in Through(v, al) : \A i \in DOMAIN s : s[i].to # Start}
StandsAt(v, s, i) == IF i = 0 THEN v ELSE s[i].to

\* An edge leads from v back to the anchor.
LeadsBack(v) == \E e \in graph : /\ e.from = v /\ e.to = Start
                                 /\ \E al \in group.alts : Crosses(al[1], e.label)

\* Whoever goes on from v stays within S, and does not lead back under a promise.
Followed(v, S) == /\ \A al \in group.alts : \A s \in Avoiding(v, al) : s[Len(al)].to \in S
                  /\ ExactPromise => ~LeadsBack(v)

\* The route s is walked to its end, or stands at one of its nodes.
Walked(v, al, s) ==
    \/ \E p \in arrived : p.node = s[Len(al)].to
    \/ \E i \in 0..(Len(al) - 1) : \E f \in flight : /\ f.path.node = StandsAt(v, s, i)
                                                     /\ f.rest = SubSeq(al, i + 1, Len(al))

\* Whatever a walk by node has seen and no longer holds, it has followed.
Holds == {p.node : p \in frontier}
SpreadInv ==
    SetWalk =>
      /\ pc # "settle" /\ (promise <=> ExactPromise) /\ ~alive
      /\ Start \in seen /\ Holds \subseteq seen
      /\ \A p \in UnderWay : p.ground = {Start}
      /\ \A v \in seen \ Holds : Followed(v, seen)
      /\ pc = "hop" => \A v \in Holds : \A al \in group.alts : \A s \in Avoiding(v, al) : Walked(v, al, s)
      /\ pc = "hop" => \/ flight = Into(frontier)
                       \/ ExactPromise => \A v \in Holds : ~LeadsBack(v)
      /\ pc = "reach" \/ Answered => (group.reach = "all" => frontier = {})

\* What the form of a walk by node excludes.
LEMMA SetForm ==
    ASSUME TypeOK, SetWalk
    PROVE  /\ ~Budgeted /\ ~Lightest /\ ~Open /\ group.min \in {0, 1} /\ group.max = None
           /\ group.reach \in {"all", "proximal"} /\ group.reach # "distal"
<1>1. group.min \in Nat /\ group.reach \in {"all", "proximal", "distal"}
  BY InputTypes DEF GroupType
<1> QED
  BY <1>1 DEF SetWalk, Lightest, Open

\* None of this changes while the inputs do not.
LEMMA SpreadSteady ==
    ASSUME graph' = graph, group' = group, NEW v, NEW S
    PROVE  /\ \A al : Avoiding(v, al)' = Avoiding(v, al)
           /\ (LeadsBack(v)' <=> LeadsBack(v)) /\ (ExactPromise' <=> ExactPromise)
           /\ (SetWalk' <=> SetWalk) /\ (SingleHops' <=> SingleHops)
           /\ Followed(v, S)' <=> Followed(v, S)
<1>1. \A al : Avoiding(v, al)' = Avoiding(v, al)
  BY DEF Avoiding, Through, Crosses
<1>2. (LeadsBack(v)' <=> LeadsBack(v)) /\ (ExactPromise' <=> ExactPromise)
  BY DEF LeadsBack, ExactPromise, Crosses
<1>3. (SetWalk' <=> SetWalk) /\ (SingleHops' <=> SingleHops)
  BY DEF SetWalk, NodeLevel, Budgeted, SingleHops
<1>4. Followed(v, S)' <=> Followed(v, S)
  BY <1>1, <1>2 DEF Followed
<1> QED
  BY <1>1, <1>2, <1>3, <1>4

\* What is followed within a set is followed within a greater.
LEMMA FollowedMore ==
    ASSUME NEW v, NEW S, NEW T, S \subseteq T, Followed(v, S)
    PROVE  Followed(v, T)
BY DEF Followed

\* A step of a route that stands at one of its nodes.
LEMMA StandsOn ==
    ASSUME TypeOK, NEW v, NEW al \in group.alts, NEW s \in Avoiding(v, al), NEW i \in 0..(Len(al) - 1)
    PROVE  /\ al \in Seq(Hop1) /\ Len(al) \in Nat /\ i \in Nat /\ i < Len(al) /\ i + 1 \in 1..Len(al)
           /\ s[i + 1] \in graph /\ s[i + 1].from = StandsAt(v, s, i)
           /\ Crosses(al[i + 1], s[i + 1].label) /\ s[i + 1].to # Start
           /\ StandsAt(v, s, i + 1) = s[i + 1].to
<1>1. al \in Seq(Hop1) /\ Len(al) \in Nat /\ i \in Nat /\ i < Len(al) /\ i + 1 \in 1..Len(al)
      /\ i + 1 # 0 /\ DOMAIN al = 1..Len(al)
  <2>1. al \in Seq(Hop1)
    BY InputTypes
  <2> QED
    BY <2>1
<1>2. /\ s \in [1..Len(al) -> graph] /\ s[1].from = v
      /\ \A j \in DOMAIN al : Crosses(al[j], s[j].label)
      /\ \A j \in 1..(Len(al) - 1) : s[j + 1].from = s[j].to
      /\ \A j \in DOMAIN s : s[j].to # Start
  BY DEF Avoiding, Through
<1>3. s[i + 1] \in graph /\ s[i + 1].to # Start /\ Crosses(al[i + 1], s[i + 1].label)
  BY <1>1, <1>2
<1>4. s[i + 1].from = StandsAt(v, s, i)
  <2>1. CASE i = 0
    BY <1>2, <2>1 DEF StandsAt
  <2>2. CASE i # 0
    <3>1. i \in 1..(Len(al) - 1)
      BY <1>1, <2>2
    <3> QED
      BY <1>2, <2>2, <3>1 DEF StandsAt
  <2> QED
    BY <2>1, <2>2
<1> QED
  BY <1>1, <1>3, <1>4 DEF StandsAt

\* The legs of a walk keep off the anchor.
LEMMA LegsAvoid ==
    ASSUME TypeOK, NEW k \in Nat, NEW q \in WalksOf(k), NEW al \in group.alts,
           NEW s \in Legs(q, al, Len(al))
    PROVE  s \in Avoiding(EndOf(q), al) /\ EndOf(q \o s) = s[Len(al)].to
<1>1. /\ q \in Seq(graph) /\ s \in Seq(graph) /\ Len(s) = Len(al) /\ Len(s) \in Nat /\ Len(s) # 0
      /\ AsPath(q \o s).node = s[Len(s)].to
  BY Arrives
<1>2. al \in Seq(Hop1) /\ DOMAIN al = 1..Len(al) /\ DOMAIN s = 1..Len(s)
  BY <1>1, InputTypes
<1>3. s \in Through(EndOf(q), al)
  BY <1>1, <1>2 DEF Legs, Through
<1>4. ASSUME NEW i \in DOMAIN s PROVE s[i].to # Start
  <2>1. /\ Len(q) \in Nat /\ Len(q \o s) = Len(q) + Len(s) /\ q \o s \in Seq(graph)
        /\ \A j \in 1..Len(q) + Len(s) : (q \o s)[j] = IF j <= Len(q) THEN q[j] ELSE s[j - Len(q)]
    BY <1>1, Joined
  <2>2. Len(q) + i \in 1..Len(q) + Len(s) /\ ~(Len(q) + i <= Len(q)) /\ Len(q) + i - Len(q) = i
    BY <1>1, <1>2, <2>1
  <2>3. Len(q) + i \in DOMAIN (q \o s) /\ (q \o s)[Len(q) + i] = s[i]
    BY <2>1, <2>2
  <2>4. Acyclic(q \o s)
    BY DEF Legs
  <2> QED
    BY <2>3, <2>4 DEF Acyclic
<1>5. EndOf(q \o s) = s[Len(al)].to
  BY <1>1 DEF AsPath
<1> QED
  BY <1>3, <1>4, <1>5 DEF Avoiding

\* Where everything seen has been followed, every walk ends at something seen.
LEMMA SeenAll ==
    ASSUME TypeOK, Start \in seen, \A v \in seen : Followed(v, seen)
    PROVE  \A k \in Nat : \A r \in WalksOf(k) : EndOf(r) \in seen
<1> DEFINE S == {k \in Nat : \A r \in WalksOf(k) : EndOf(r) \in seen}
<1>1. 0 \in S
  <2>1. WalksOf(0) = {<<>>}
    BY WalksGoOn
  <2>2. EndOf(<<>>) = Start
    BY DEF EndOf
  <2> QED
    BY <2>1, <2>2
<1>2. ASSUME NEW k \in Nat, k \in S PROVE k + 1 \in S
  <2> SUFFICES ASSUME NEW r \in WalksOf(k + 1) PROVE EndOf(r) \in seen
    OBVIOUS
  <2>1. PICK q \in WalksOf(k) : \E al \in group.alts : \E s \in Legs(q, al, Len(al)) : r = q \o s
    BY ComesOf
  <2>2. PICK al \in group.alts : \E s \in Legs(q, al, Len(al)) : r = q \o s
    BY <2>1
  <2>3. PICK s \in Legs(q, al, Len(al)) : r = q \o s
    BY <2>2
  <2>4. EndOf(q) \in seen
    BY <1>2
  <2>5. s \in Avoiding(EndOf(q), al) /\ EndOf(r) = s[Len(al)].to
    BY <2>3, LegsAvoid
  <2> QED
    BY <2>4, <2>5 DEF Followed
<1> HIDE DEF S
<1>3. \A k \in Nat : k \in S
  BY <1>1, <1>2, Naturally
<1> QED
  BY <1>3 DEF S

\* A walk by node starts at its anchor.
LEMMA StartSpread ==
    ASSUME TypeOK, Init
    PROVE  SpreadInv
<1>1. /\ pc = "entry" /\ promise = ExactPromise /\ alive = ~SetWalk /\ seen = {Start}
      /\ frontier = {Anchor} /\ flight = {} /\ arrived = {}
  BY DEF Init
<1>2. Holds = {Start} /\ UnderWay = {Anchor} /\ Anchor.ground = {Start}
  BY <1>1 DEF Holds, UnderWay, Anchor
<1> QED
  BY <1>1, <1>2 DEF SpreadInv, Answered

\* The entry, the beginning of a round, the reach, and a step that changes nothing, keep
\* what is seen, what is held and what has been followed.
LEMMA StillSpread ==
    ASSUME TypeOK, SpreadInv, SetWalk, graph' = graph, group' = group,
           UNCHANGED <<frontier, seen, promise, alive>>, pc' # "settle",
           \/ UNCHANGED <<flight, arrived>> /\ (pc' = "hop" => pc = "hop")
           \/ flight' = Into(frontier) /\ arrived' = {},
           pc' = "reach" \/ Answered' => (group.reach = "all" => frontier = {})
    PROVE  SpreadInv'
<1>1. /\ \A v, al : Avoiding(v, al)' = Avoiding(v, al)
      /\ \A v : LeadsBack(v)' <=> LeadsBack(v)
      /\ ExactPromise' <=> ExactPromise
      /\ \A v, S : Followed(v, S)' <=> Followed(v, S)
  BY SpreadSteady
<1>2. \A v : Followed(v, seen)' <=> Followed(v, seen)
  BY <1>1 DEF Followed
<1>3. Holds' = Holds
  BY DEF Holds
<1>4. /\ (promise <=> ExactPromise) /\ ~alive /\ Start \in seen /\ Holds \subseteq seen
      /\ \A p \in UnderWay : p.ground = {Start}
      /\ \A v \in seen \ Holds : Followed(v, seen)
      /\ pc = "hop" => \A v \in Holds : \A al \in group.alts : \A s \in Avoiding(v, al) : Walked(v, al, s)
      /\ pc = "hop" => flight = Into(frontier) \/ (ExactPromise => \A v \in Holds : ~LeadsBack(v))
  BY DEF SpreadInv
<1>5. ASSUME NEW p \in UnderWay' PROVE p.ground = {Start}
  <2>1. CASE p \in UnderWay
    BY <1>4, <2>1
  <2>2. CASE flight' = Into(frontier) /\ arrived' = {}
    BY <1>4, <2>2 DEF UnderWay, Into
  <2>3. CASE UNCHANGED <<flight, arrived>>
    BY <1>4, <2>3 DEF UnderWay
  <2> QED
    BY <2>1, <2>2, <2>3
<1>6. CASE flight' = Into(frontier) /\ arrived' = {}
  <2>1. ASSUME NEW v \in Holds, NEW al \in group.alts, NEW s \in Avoiding(v, al) PROVE Walked(v, al, s)'
    <3>1. PICK p \in frontier : p.node = v
      BY DEF Holds
    <3>2. al \in Seq(Hop1) /\ Len(al) \in Nat /\ Len(al) # 0 /\ SubSeq(al, 1, Len(al)) = al
      <4>1. al \in Seq(Hop1) /\ al # <<>>
        BY InputTypes
      <4> QED
        BY <4>1, EmptySeq, SubSeqFull
    <3>3. \E f \in flight' : f.path.node = v /\ f.rest = al
      <4> DEFINE f == [path |-> p, rest |-> al]
      <4>1. f \in flight' /\ f.path = p /\ f.rest = al
        BY <1>6 DEF Into
      <4> HIDE DEF f
      <4> QED
        BY <3>1, <4>1
    <3>4. 0 \in 0..(Len(al) - 1) /\ StandsAt(v, s, 0) = v /\ SubSeq(al, 0 + 1, Len(al)) = al
      BY <3>2 DEF StandsAt
    <3>5. \E i \in 0..(Len(al) - 1) : \E f \in flight' : /\ f.path.node = StandsAt(v, s, i)
                                                         /\ f.rest = SubSeq(al, i + 1, Len(al))
      BY <3>3, <3>4
    <3> QED
      BY <3>5 DEF Walked, StandsAt
  <2>2. Into(frontier)' = Into(frontier)
    BY DEF Into
  <2> QED
    BY <1>1, <1>2, <1>3, <1>4, <1>5, <1>6, <2>1, <2>2 DEF SpreadInv
<1>7. CASE UNCHANGED <<flight, arrived>> /\ (pc' = "hop" => pc = "hop")
  <2>1. \A v, al, s : Walked(v, al, s)' <=> Walked(v, al, s)
    BY <1>7 DEF Walked, StandsAt
  <2>2. Into(frontier)' = Into(frontier)
    BY DEF Into
  <2> QED
    BY <1>1, <1>2, <1>3, <1>4, <1>5, <1>7, <2>1, <2>2 DEF SpreadInv
<1> QED
  BY <1>6, <1>7

\* A hop takes every route an edge on, and refuses one that leads back under a promise.
LEMMA HopSpread ==
    ASSUME TypeOK, SpreadInv, SetWalk, Hop
    PROVE  SpreadInv'
<1>1. /\ graph' = graph /\ group' = group /\ pc = "hop"
      /\ UNCHANGED <<frontier, seen, promise, alive>>
  BY DEF Hop, inputs
<1>2. CASE Refusals # {}
  <2>1. pc' = "done" /\ refusal' \in Refusals /\ UNCHANGED <<flight, arrived>>
    BY <1>2 DEF Hop
  <2>2. refusal' # None
    BY <2>1, BoundsAssumption DEF Refusals
  <2> QED
    BY <1>1, <2>1, <2>2, StillSpread DEF Answered
<1>3. CASE Refusals = {}
  <2> DEFINE hopped == UNION {{[path |-> q, rest |-> Tail(f.rest)] :
                                 q \in Hops(f.path, Head(f.rest))} : f \in flight}
  <2>1. /\ flight' = {f \in hopped : f.rest # <<>>} /\ pc' = pc
        /\ arrived' = arrived \union {f.path : f \in {g \in hopped : g.rest = <<>>}}
    BY <1>3 DEF Hop
  <2>2. /\ \A v, al : Avoiding(v, al)' = Avoiding(v, al)
        /\ \A v : LeadsBack(v)' <=> LeadsBack(v)
        /\ ExactPromise' <=> ExactPromise
        /\ \A v, S : Followed(v, S)' <=> Followed(v, S)
    BY <1>1, SpreadSteady
  <2>3. (\A v : Followed(v, seen)' <=> Followed(v, seen)) /\ Holds' = Holds
    BY <1>1, <2>2 DEF Followed, Holds
  <2>4. /\ (promise <=> ExactPromise) /\ ~alive /\ Start \in seen /\ Holds \subseteq seen
        /\ \A p \in UnderWay : p.ground = {Start}
        /\ \A v \in seen \ Holds : Followed(v, seen)
        /\ \A v \in Holds : \A al \in group.alts : \A s \in Avoiding(v, al) : Walked(v, al, s)
        /\ flight = Into(frontier) \/ (ExactPromise => \A v \in Holds : ~LeadsBack(v))
    BY <1>1 DEF SpreadInv
  <2>5. ASSUME NEW g \in hopped PROVE g.path.ground = {Start}
    <3>1. PICK f \in flight : \E q \in Hops(f.path, Head(f.rest)) : g = [path |-> q, rest |-> Tail(f.rest)]
      OBVIOUS
    <3>2. PICK q \in Hops(f.path, Head(f.rest)) : g = [path |-> q, rest |-> Tail(f.rest)]
      BY <3>1
    <3>3. q.ground = f.path.ground
      BY DEF Hops, Extended
    <3>4. f.path \in UnderWay
      BY DEF UnderWay
    <3> QED
      BY <2>4, <3>2, <3>3, <3>4
  <2>6. ASSUME NEW v \in Holds, NEW al \in group.alts, NEW s \in Avoiding(v, al) PROVE Walked(v, al, s)'
    <3>1. CASE \E p \in arrived : p.node = s[Len(al)].to
      BY <2>1, <3>1 DEF Walked
    <3>2. CASE \E i \in 0..(Len(al) - 1) : \E f \in flight : /\ f.path.node = StandsAt(v, s, i)
                                                             /\ f.rest = SubSeq(al, i + 1, Len(al))
      <4>1. PICK i \in 0..(Len(al) - 1) : \E f \in flight : /\ f.path.node = StandsAt(v, s, i)
                                                            /\ f.rest = SubSeq(al, i + 1, Len(al))
        BY <3>2
      <4>2. PICK f \in flight : f.path.node = StandsAt(v, s, i) /\ f.rest = SubSeq(al, i + 1, Len(al))
        BY <4>1
      <4>3. /\ al \in Seq(Hop1) /\ Len(al) \in Nat /\ i \in Nat /\ i < Len(al)
            /\ s[i + 1] \in graph /\ s[i + 1].from = f.path.node
            /\ Crosses(al[i + 1], s[i + 1].label) /\ s[i + 1].to # Start
            /\ StandsAt(v, s, i + 1) = s[i + 1].to
        BY <4>2, StandsOn
      <4>4. /\ Head(f.rest) = al[i + 1] /\ Tail(f.rest) = SubSeq(al, i + 2, Len(al))
            /\ SubSeq(al, i + 2, Len(al)) = <<>> <=> Len(al) <= i + 1
        BY <4>2, <4>3, RestOf
      <4>5. PICK q \in Hops(f.path, Head(f.rest)) : q.node = s[i + 1].to
        <5>1. f.path.ground = {Start}
          BY <2>4 DEF UnderWay
        <5>2. s[i + 1] \in Selected(f.path, Head(f.rest)) /\ Affords(f.path, s[i + 1])
          BY <4>3, <4>4, SetForm DEF Selected, Affords
        <5>3. Extended(f.path, s[i + 1]) \in Hops(f.path, Head(f.rest))
          BY <4>3, <5>1, <5>2 DEF Hops
        <5>4. Extended(f.path, s[i + 1]).node = s[i + 1].to
          BY DEF Extended
        <5> QED
          BY <5>3, <5>4
      <4>6. PICK g : g = [path |-> q, rest |-> SubSeq(al, i + 2, Len(al))]
        OBVIOUS
      <4>7. g \in hopped /\ g.path = q /\ g.rest = SubSeq(al, i + 2, Len(al))
        <5>1. g = [path |-> q, rest |-> Tail(f.rest)]
          BY <4>4, <4>6
        <5>2. \E x \in Hops(f.path, Head(f.rest)) : g = [path |-> x, rest |-> Tail(f.rest)]
          BY <5>1
        <5>3. g \in {[path |-> x, rest |-> Tail(f.rest)] : x \in Hops(f.path, Head(f.rest))}
          BY <5>2
        <5>4. g \in hopped
          BY <5>3
        <5> HIDE DEF hopped
        <5> QED
          BY <4>6, <5>4
      <4> HIDE DEF hopped
      <4>8. CASE Len(al) <= i + 1
        <5>1. g.path \in arrived'
          BY <2>1, <4>4, <4>7, <4>8
        <5>2. Len(al) = i + 1
          BY <4>3, <4>8
        <5>3. \E p \in arrived' : p.node = s[Len(al)].to
          BY <4>5, <4>7, <5>1, <5>2
        <5> QED
          BY <5>3 DEF Walked
      <4>9. CASE ~(Len(al) <= i + 1)
        <5>1. g \in flight'
          BY <2>1, <4>4, <4>7, <4>9
        <5>2. i + 1 \in 0..(Len(al) - 1) /\ (i + 1) + 1 = i + 2
          BY <4>3, <4>9
        <5>3. \E j \in 0..(Len(al) - 1) : \E h \in flight' : /\ h.path.node = StandsAt(v, s, j)
                                                             /\ h.rest = SubSeq(al, j + 1, Len(al))
          BY <4>3, <4>5, <4>7, <5>1, <5>2
        <5> QED
          BY <5>3 DEF Walked, StandsAt
      <4> QED
        BY <4>8, <4>9
    <3> QED
      BY <2>4, <3>1, <3>2 DEF Walked
  <2>7. ASSUME ExactPromise, NEW v \in Holds PROVE ~LeadsBack(v)
    <3>1. CASE flight = Into(frontier)
      <4> SUFFICES ASSUME NEW e \in graph, e.from = v, e.to = Start,
                          NEW al \in group.alts, Crosses(al[1], e.label)
                   PROVE  FALSE
        BY DEF LeadsBack
      <4>1. PICK p \in frontier : p.node = v
        BY DEF Holds
      <4>2. PICK f : f = [path |-> p, rest |-> al]
        OBVIOUS
      <4>3. f \in flight /\ f.path = p /\ f.rest = al
        BY <3>1, <4>2 DEF Into
      <4>4. Head(al) = al[1]
        <5>1. al \in Seq(Hop1) /\ al # <<>>
          BY InputTypes
        <5> QED
          BY <5>1
      <4>5. p.ground = {Start}
        BY <2>4 DEF UnderWay
      <4>6. Returns(f.path, Head(f.rest))
        BY <4>1, <4>3, <4>4, <4>5 DEF Returns, Selected
      <4> QED
        BY <1>3, <2>4, <2>7, <4>3, <4>6 DEF Refusals
    <3> QED
      BY <2>4, <2>7, <3>1
  <2>8. ASSUME NEW p \in UnderWay' PROVE p.ground = {Start}
    <3>1. UnderWay' = frontier' \union arrived' \union {f.path : f \in flight'}
      BY DEF UnderWay
    <3>2. \/ p \in frontier
          \/ p \in arrived
          \/ \E g \in hopped : p = g.path
      BY <1>1, <2>1, <3>1
    <3> HIDE DEF hopped
    <3> QED
      BY <2>4, <2>5, <3>2 DEF UnderWay
  <2>9. pc' = "hop"
    BY <1>1, <2>1
  <2> HIDE DEF hopped
  <2> QED
    BY <1>1, <2>2, <2>3, <2>4, <2>6, <2>7, <2>8, <2>9 DEF SpreadInv, Answered
<1> QED
  BY <1>2, <1>3

\* The nodes held at the end of a round are those reached that were not seen.
LEMMA HeldOn ==
    ASSUME TypeOK, SetWalk, EndRound
    PROVE  /\ frontier' \subseteq arrived /\ \A p \in frontier' : p.node \notin seen
           /\ Holds' = {p.node : p \in arrived} \ seen
           /\ \A p, q \in frontier' : p.node = q.node => p = q
           /\ seen' = seen \union Holds'
<1>1. frontier' \in OnePerNode(arrived, seen) /\ seen' = seen \union {p.node : p \in frontier'}
  BY DEF EndRound
<1> DEFINE new == {p.node : p \in arrived} \ seen
<1>2. PICK pick \in [new -> arrived] : /\ \A n \in new : pick[n].node = n
                                       /\ frontier' = {pick[n] : n \in new}
  BY <1>1 DEF OnePerNode
<1> HIDE DEF new
<1>3. {p.node : p \in frontier'} = new /\ frontier' \subseteq arrived
      /\ \A p, q \in frontier' : p.node = q.node => p = q
  BY <1>2
<1> QED
  BY <1>1, <1>3 DEF Holds, new

\* The end of a round: what was held has been followed.
LEMMA EndRoundSpread ==
    ASSUME TypeOK, SpreadInv, SetWalk, EndRound
    PROVE  SpreadInv'
<1>1. /\ graph' = graph /\ group' = group /\ pc = "hop" /\ flight = {}
      /\ flight' = flight /\ arrived' = arrived
      /\ alive' = (alive /\ Held)
      /\ promise' = IF alive THEN Held /\ (promise \/ arrived # {}) ELSE promise
  BY DEF EndRound, inputs
<1>2. /\ \A v, al : Avoiding(v, al)' = Avoiding(v, al)
      /\ \A v : LeadsBack(v)' <=> LeadsBack(v)
      /\ ExactPromise' <=> ExactPromise
      /\ \A v, S : Followed(v, S)' <=> Followed(v, S)
  BY <1>1, SpreadSteady
<1>3. \A v : Followed(v, seen)' <=> Followed(v, seen')
  BY <1>2 DEF Followed
<1>4. /\ (promise <=> ExactPromise) /\ ~alive /\ Start \in seen /\ Holds \subseteq seen
      /\ \A p \in UnderWay : p.ground = {Start}
      /\ \A v \in seen \ Holds : Followed(v, seen)
      /\ \A v \in Holds : \A al \in group.alts : \A s \in Avoiding(v, al) : Walked(v, al, s)
      /\ flight = Into(frontier) \/ (ExactPromise => \A v \in Holds : ~LeadsBack(v))
  BY <1>1 DEF SpreadInv
<1>5. /\ frontier' \subseteq arrived
      /\ Holds' = {p.node : p \in arrived} \ seen
      /\ seen' = seen \union Holds'
  BY HeldOn
<1>6. ASSUME NEW v \in seen' \ Holds' PROVE Followed(v, seen')
  <2>1. v \in seen
    BY <1>5
  <2>2. CASE v \notin Holds
    BY <1>4, <1>5, <2>1, <2>2, FollowedMore
  <2>3. CASE v \in Holds
    <3>1. ASSUME NEW al \in group.alts, NEW s \in Avoiding(v, al) PROVE s[Len(al)].to \in seen'
      <4>1. Walked(v, al, s)
        BY <1>4, <2>3
      <4>2. \E p \in arrived : p.node = s[Len(al)].to
        BY <1>1, <4>1 DEF Walked
      <4> QED
        BY <1>5, <4>2
    <3>2. flight # Into(frontier)
      <4>1. PICK p \in frontier : p.node = v
        BY <2>3 DEF Holds
      <4>2. PICK al \in group.alts : TRUE
        BY InputsAssumption DEF TypeOK
      <4>3. [path |-> p, rest |-> al] \in Into(frontier)
        BY <4>1, <4>2 DEF Into
      <4> QED
        BY <1>1, <4>3
    <3> QED
      BY <1>4, <2>3, <3>1, <3>2 DEF Followed
  <2> QED
    BY <2>2, <2>3
<1>7. \A p \in UnderWay' : p.ground = {Start}
  <2>1. UnderWay' = frontier' \union arrived' \union {f.path : f \in flight'}
    BY DEF UnderWay
  <2> QED
    BY <1>1, <1>4, <1>5, <2>1 DEF UnderWay
<1>8. pc' \in {"done", "reach", "round"} /\ (pc' = "reach" => (group.reach = "all" => frontier' = {}))
      /\ (pc' = "done" => refusal' # None)
  <2>1. ~(Open /\ count > Ceiling) /\ NextRound(count, frontier') \in {"round", "reach"}
    BY SetForm, NextRoundType
  <2>2. NextRound(count, frontier') = "reach" => frontier' = {}
    BY DEF NextRound
  <2>3. "frontier" # None
    BY BoundsAssumption
  <2>4. \/ refusal' = "frontier" /\ pc' = "done"
        \/ group.reach = "proximal" /\ pc' = "reach"
        \/ pc' = NextRound(count, frontier')
    BY <2>1 DEF EndRound
  <2> QED
    BY <2>1, <2>2, <2>3, <2>4
<1> QED
  BY <1>1, <1>2, <1>3, <1>4, <1>5, <1>6, <1>7, <1>8 DEF SpreadInv, Answered

\* A step keeps what is followed.
LEMMA SpreadStep ==
    ASSUME TypeOK, SpreadInv, [Next]_vars
    PROVE  SpreadInv'
<1>1. graph' = graph /\ group' = group
  BY InputsStay
<1>2. SetWalk' <=> SetWalk
  BY <1>1, SpreadSteady
<1>3. CASE ~SetWalk
  BY <1>2, <1>3 DEF SpreadInv
<1>4. CASE SetWalk
  <2>0. /\ ~Lightest /\ pc # "settle"
        /\ pc = "reach" \/ Answered => (group.reach = "all" => frontier = {})
    BY <1>4, SetForm DEF SpreadInv
  <2>1. CASE Entry
    <3>1. /\ UNCHANGED <<frontier, seen, promise, alive, flight, arrived>> /\ pc' # "settle" /\ pc' # "hop"
          /\ pc' = "reach" \/ Answered' => (group.reach = "all" => frontier = {})
      <4>1. CASE Beyond
        <5>1. pc' = "done" /\ refusal' = "bound" /\ refusal' # None
          BY <2>1, <4>1, BoundsAssumption DEF Entry
        <5> QED
          BY <2>1, <4>1, <5>1 DEF Entry, Answered
      <4>2. CASE ~Beyond
        <5>1. UNCHANGED <<frontier, seen, promise, alive, flight, arrived>> /\ pc' = NextRound(0, frontier)
          BY <2>0, <2>1, <4>2 DEF Entry
        <5>2. pc' \in {"round", "reach"} /\ (pc' = "reach" => frontier = {})
          BY <1>4, <5>1 DEF NextRound
        <5> QED
          BY <5>1, <5>2 DEF Answered
      <4> QED
        BY <4>1, <4>2
    <3> QED
      BY <1>1, <1>4, <3>1, StillSpread
  <2>2. CASE Round
    <3>1. /\ UNCHANGED <<frontier, seen, promise, alive>> /\ flight' = Into(frontier) /\ arrived' = {}
          /\ pc' = "hop"
      BY <2>2 DEF Round
    <3> QED
      BY <1>1, <1>4, <3>1, StillSpread DEF Answered
  <2>3. CASE Hop
    BY <1>4, <2>3, HopSpread
  <2>4. CASE EndRound
    BY <1>4, <2>4, EndRoundSpread
  <2>5. CASE Reach
    <3>1. /\ UNCHANGED <<frontier, seen, promise, alive, flight, arrived>> /\ pc' = "done" /\ pc = "reach"
      BY <2>5 DEF Reach
    <3> QED
      BY <1>1, <1>4, <2>0, <3>1, StillSpread
  <2>6. CASE Settle \/ Pend \/ Settled
    BY <2>0, <2>6 DEF Settle, Pend, Settled
  <2>7. CASE UNCHANGED vars
    <3>1. /\ UNCHANGED <<frontier, seen, promise, alive, flight, arrived>> /\ pc' = pc /\ refusal' = refusal
      BY <2>7 DEF vars
    <3> QED
      BY <1>1, <1>4, <2>0, <3>1, StillSpread DEF Answered
  <2> QED
    BY <2>1, <2>2, <2>3, <2>4, <2>5, <2>6, <2>7 DEF Next, Terminated
<1> QED
  BY <1>3, <1>4

\* ... in every reachable state.
LEMMA SpreadAlways == Spec => [](TypeOK /\ SpreadInv)
<1>1. Init /\ TypeOK => SpreadInv
  BY StartSpread
<1>2. TypeOK /\ SpreadInv /\ [Next]_vars => SpreadInv'
  BY SpreadStep
<1> QED
  BY <1>1, <1>2, TypeCorrect, PTL DEF Spec

\* An open walk for all matches that answers under a promise met no cycle of promised
\* links: an exact one nowhere on a walk, one by node not through the anchor, whatever the
\* length of its rounds.
THEOREM NoCycleAnswered == Spec => []CyclesRefused
<1>1. TypeOK /\ WaveInv /\ KeptInv /\ SpreadInv => CyclesRefused
  <2> SUFFICES ASSUME TypeOK, WaveInv, KeptInv, SpreadInv,
                      Answered, group.reach = "all", group.max = None, ExactPromise,
                      Budgeted => TotalsAgree, NEW r \in AllWalks
               PROVE  IF SetWalk THEN \A e \in NextEdges(r) : e.to # Start ELSE ~Closes(r, Promised)
    BY DEF CyclesRefused
  <2>1. PICK k \in 0..Longest : r \in Walks[k]
    BY DEF AllWalks
  <2>2. k \in Nat /\ r \in WalksOf(k)
    BY <2>1 DEF WalksOf
  <2>3. CASE SetWalk
    <3>1. Holds = {} /\ Start \in seen
      BY <2>3 DEF SpreadInv, Holds
    <3>2. \A v \in seen : Followed(v, seen)
      BY <2>3, <3>1 DEF SpreadInv
    <3>3. EndOf(r) \in seen
      BY <2>2, <3>1, <3>2, SeenAll
    <3>4. ~LeadsBack(EndOf(r))
      BY <3>2, <3>3 DEF Followed
    <3>5. \A e \in NextEdges(r) : e.to # Start
      BY <3>4 DEF NextEdges, LeadsBack
    <3> QED
      BY <2>3, <3>5
  <2>4. CASE ~SetWalk
    <3>1. ~Lightest
      BY DEF Lightest
    <3>2. Told
      BY <2>4, <3>1 DEF KeptInv, Told
    <3>3. Fulfilled
      BY <3>2 DEF WaveInv
    <3>4. \A e \in NextEdges(r) : e.to \notin Visited(r)
      BY <2>2, <3>3 DEF Fulfilled, Unreturned, NoReturnAt
    <3>5. Start \in Visited(r) /\ \A i \in DOMAIN r : r[i].to \in Visited(r)
      BY DEF Visited
    <3>6. ~Closes(r, Promised)
      BY <3>4, <3>5 DEF Closes
    <3> QED
      BY <2>4, <3>6
  <2> QED
    BY <2>3, <2>4
<1> QED
  BY <1>1, WaveAlways, SpreadAlways, PTL

\* The walks of the first n rounds end at nodes seen.
Levels(n) == \A k \in Nat : k <= n => \A r \in WalksOf(k) : EndOf(r) \in seen

\* A walk of k rounds ends at the node v, and is otherwise on nodes of S.
Leads(k, v, S) == \E r \in WalksOf(k) : EndOf(r) = v /\ Visited(r) \subseteq S

\* The nodes held after n rounds end walks of that many, on nodes seen.
Stood(n) == \A p \in frontier : Leads(n, p.node, seen)

\* Where no predicate asks for the edge, every match is of a walk of its round, and every
\* node seen that is admitted is matched, unless it is the anchor and a hop is asked for.
Matched(n) ==
    group.labels = Labels =>
      /\ \A m \in matches : /\ m.round \in Nat /\ group.min <= m.round /\ m.round <= n
                            /\ m.path.node \in group.nodes
                            /\ \E r \in WalksOf(m.round) : EndOf(r) = m.path.node
      /\ \A v \in seen \cap group.nodes : v # Start \/ group.min = 0 => \E m \in matches : m.path.node = v
      /\ \A k \in Nat : group.min <= k /\ k <= n => \A r \in WalksOf(k) : EndOf(r) \in group.nodes =>
              \E m \in matches : m.path.node = EndOf(r) /\ m.round <= k

\* Within the round past n, and after the last.
Spread(n) == /\ Levels(n) /\ Stood(n) /\ Matched(n)
             /\ \A f \in flight : f.path \in frontier /\ f.rest \in group.alts
             /\ \A p \in arrived : p.node \in seen \/ Leads(n + 1, p.node, seen \union {p.node})
Ended(n) == /\ Levels(n) /\ Matched(n)
            /\ frontier = {} \/ (group.reach = "proximal" /\ matches # {})

\* A walk by node of single hops, round by round: what it has seen is what is reached in so
\* many rounds, at the least.
ByLevel == SetWalk /\ SingleHops
LevelInv ==
    ByLevel =>
      /\ pc = "entry" => count = 0 /\ matches = {} /\ frontier = {Anchor} /\ seen = {Start}
      /\ pc = "round" => \E n \in Nat : count = n /\ Levels(n) /\ Stood(n) /\ Matched(n)
      /\ pc = "hop" => \E n \in Nat : count = n + 1 /\ Spread(n)
      /\ pc = "reach" => \E n \in Nat : Ended(n)
      /\ Answered /\ group.labels = Labels => Complete

\* Whether a path of such a walk is admitted is a matter of its node.
LEMMA AdmitsNode ==
    ASSUME TypeOK, ByLevel, group.labels = Labels, NEW p, p.edge \in Edges \union {None}
    PROVE  Admits(p) <=> p.node \in group.nodes
<1>1. ~Budgeted
  BY DEF ByLevel, SetWalk
<1>2. p.edge # None => p.edge.label \in Labels
  BY DEF Edges
<1> QED
  BY <1>1, <1>2 DEF Admits

\* The edge of a walk's path.
LEMMA WalkEdge ==
    ASSUME TypeOK, NEW k \in Nat, NEW r \in WalksOf(k)
    PROVE  AsPath(r).edge \in Edges \union {None} /\ AsPath(r).node = EndOf(r)
<1>1. r \in Seq(graph) /\ graph \subseteq Edges
  BY WalkIs, InputsAssumption DEF TypeOK
<1>2. r # <<>> => r[Len(r)] \in graph
  BY <1>1
<1> QED
  BY <1>1, <1>2 DEF AsPath

\* None of this changes while the inputs do not.
LEMMA LevelSteady ==
    ASSUME graph' = graph, group' = group
    PROVE  /\ \A k : WalksOf(k)' = WalksOf(k)
           /\ \A k, v, S : Leads(k, v, S)' <=> Leads(k, v, S)
           /\ ByLevel' <=> ByLevel
<1>1. \A k : WalksOf(k)' = WalksOf(k)
  BY WaveSteady
<1>2. \A k, v, S : Leads(k, v, S)' <=> Leads(k, v, S)
  BY <1>1, RoutesSteady DEF Leads
<1>3. ByLevel' <=> ByLevel
  BY SpreadSteady DEF ByLevel
<1> QED
  BY <1>1, <1>2, <1>3

\* An edge on to a node not visited is a leg more, where nothing is budgeted.
LegMade(q, al, j, s, e) == /\ Append(s, e) \in Legs(q, al, j + 1)
                           /\ q \o Append(s, e) = Append(q \o s, e)
\* So it is of any leg of an alternative.
LEMMA LegMakes ==
    ASSUME TypeOK, ~Budgeted, NEW q \in Seq(graph), NEW al \in Seq(Hop1), NEW j \in Nat, j < Len(al),
           NEW s \in Legs(q, al, j), NEW e \in graph, e.from = EndOf(q \o s),
           Crosses(al[j + 1], e.label), e.to \notin Visited(q \o s)
    PROVE  LegMade(q, al, j, s, e)
<1>1. Affords(AsPath(q \o s), e)
  BY DEF Affords
<1> QED
  BY <1>1, LegOn DEF LegMade

\* So it is a walk of one round more.
LEMMA OneMore ==
    ASSUME TypeOK, ~Budgeted, NEW k \in Nat, NEW r \in WalksOf(k),
           NEW al \in group.alts, Len(al) = 1, NEW e \in graph, e.from = EndOf(r),
           Crosses(al[1], e.label), e.to \notin Visited(r)
    PROVE  Leads(k + 1, e.to, Visited(r) \union {e.to})
<1>1. r \in Seq(graph) /\ al \in Seq(Hop1)
  BY WalkIs, InputTypes
<1>2. <<>> \in Legs(r, al, 0) /\ r \o <<>> = r
  BY FirstLeg
<1>3. PICK j \in Nat : j = 0
  OBVIOUS
<1>4. \E t \in Legs(r, al, Len(al)) : r \o t = Append(r, e)
  <2>0. PICK s \in Legs(r, al, j) : s = <<>>
    BY <1>2, <1>3
  <2>1. r \o s = r /\ j + 1 = Len(al) /\ al[j + 1] = al[1] /\ j < Len(al)
    BY <1>2, <1>3, <2>0
  <2>2. e.from = EndOf(r \o s) /\ e.to \notin Visited(r \o s) /\ Crosses(al[j + 1], e.label)
    BY <2>1
  <2>3. LegMade(r, al, j, s, e)
    BY <1>1, <2>1, <2>2, LegMakes
  <2>4. Append(s, e) \in Legs(r, al, Len(al)) /\ r \o Append(s, e) = Append(r, e)
    BY <2>3, <2>1 DEF LegMade
  <2> QED
    BY <2>4
<1>5. Append(r, e) \in WalksOf(k + 1)
  <2>1. PICK t \in Legs(r, al, Len(al)) : r \o t = Append(r, e)
    BY <1>4
  <2>2. r \o t \in WalksOf(k + 1)
    BY Arrives
  <2> QED
    BY <2>1, <2>2
<1>6. /\ Len(Append(r, e)) = Len(r) + 1 /\ Len(r) \in Nat /\ Append(r, e) # <<>>
      /\ Append(r, e)[Len(r) + 1] = e /\ DOMAIN Append(r, e) = 1..Len(r) + 1
      /\ DOMAIN r = 1..Len(r) /\ \A i \in 1..Len(r) : Append(r, e)[i] = r[i]
  <2>1. Append(r, e) \in Seq(graph)
    BY <1>1, RouteOn
  <2> QED
    BY <1>1, <2>1, RouteOn, EmptySeq
<1>7. EndOf(Append(r, e)) = e.to
  BY <1>6 DEF EndOf
<1>8. Visited(Append(r, e)) \subseteq Visited(r) \union {e.to}
  <2>1. \A i \in 1..Len(r) + 1 : i \in 1..Len(r) \/ i = Len(r) + 1
    BY <1>6
  <2> QED
    BY <1>6, <2>1 DEF Visited
<1> QED
  BY <1>5, <1>7, <1>8 DEF Leads

\* No walk of a round ends at the anchor.
LEMMA EndsOff ==
    ASSUME TypeOK, NEW k \in Nat, k # 0, NEW r \in WalksOf(k)
    PROVE  EndOf(r) # Start
<1>1. k - 1 \in Nat /\ (k - 1) + 1 = k
  OBVIOUS
<1>2. r \in WalksOf((k - 1) + 1)
  BY <1>1
<1>3. PICK q \in WalksOf(k - 1) : \E al \in group.alts : \E s \in Legs(q, al, Len(al)) : r = q \o s
  BY <1>1, <1>2, ComesOf
<1>4. PICK al \in group.alts : \E s \in Legs(q, al, Len(al)) : r = q \o s
  BY <1>3
<1>5. PICK s \in Legs(q, al, Len(al)) : r = q \o s
  BY <1>4
<1>6. s \in Avoiding(EndOf(q), al) /\ EndOf(r) = s[Len(al)].to
  BY <1>1, <1>5, LegsAvoid
<1>7. Len(al) \in DOMAIN s
  <2>1. s \in Seq(graph) /\ Len(s) = Len(al) /\ Len(s) \in Nat /\ Len(s) # 0
    BY <1>1, Arrives
  <2> QED
    BY <2>1
<1> QED
  BY <1>6, <1>7 DEF Avoiding

\* A walk by node of single hops starts with its anchor, and the walk of no hops.
LEMMA EntryLevel ==
    ASSUME TypeOK, LevelInv, ByLevel, Entry
    PROVE  LevelInv'
<1>1. /\ graph' = graph /\ group' = group /\ pc = "entry" /\ SetWalk /\ ~Lightest /\ ~Budgeted
      /\ count' = count /\ seen' = seen
  BY SetForm DEF Entry, inputs, ByLevel
<1>2. count = 0 /\ matches = {} /\ frontier = {Anchor} /\ seen = {Start}
  BY <1>1 DEF LevelInv
<1>3. CASE Beyond
  <2>1. pc' = "done" /\ refusal' = "bound" /\ refusal' # None
    BY <1>3, BoundsAssumption DEF Entry
  <2> QED
    BY <2>1 DEF LevelInv, Answered
<1>4. CASE ~Beyond
  <2>1. /\ matches' = IF group.min = 0 /\ Admits(Anchor) THEN {[path |-> Anchor, round |-> 0]} ELSE {}
        /\ frontier' = frontier /\ pc' = NextRound(0, frontier)
    BY <1>1, <1>4 DEF Entry
  <2>2. pc' = "round"
    BY <1>1, <1>2, <2>1 DEF NextRound
  <2>3. WalksOf(0) = {<<>>} /\ EndOf(<<>>) = Start /\ Visited(<<>>) = {Start}
    <3>1. WalksOf(0) = {<<>>}
      BY WalksGoOn
    <3> QED
      BY <3>1 DEF EndOf, Visited
  <2>4. \A k : WalksOf(k)' = WalksOf(k)
    BY <1>1, LevelSteady
  <2>5. \A r : EndOf(r)' = EndOf(r)
    BY <1>1, RoutesSteady
  <2>6. Anchor.node = Start /\ Anchor.edge = None
    BY DEF Anchor
  <2>7. group.labels = Labels => (Admits(Anchor) <=> Start \in group.nodes)
    BY <2>6, AdmitsNode
  <2>8. group.min \in Nat
    BY InputTypes DEF GroupType
  <2>9. Levels(0)'
    <3>1. \A k \in Nat : k <= 0 => k = 0
      OBVIOUS
    <3> QED
      BY <1>1, <1>2, <2>3, <2>4, <2>5, <3>1 DEF Levels
  <2>10. Stood(0)'
    <3>1. Leads(0, Start, {Start})
      BY <2>3 DEF Leads
    <3>2. Leads(0, Start, {Start})'
      BY <1>1, <3>1, LevelSteady
    <3> QED
      BY <1>1, <1>2, <2>1, <2>6, <3>2 DEF Stood
  <2>11. ASSUME group.labels = Labels PROVE Matched(0)'
    <3>1. ASSUME NEW m \in matches'
          PROVE  /\ m.round \in Nat /\ group.min <= m.round /\ m.round <= 0
                 /\ m.path.node \in group.nodes
                 /\ \E r \in WalksOf(m.round)' : EndOf(r) = m.path.node
      <4>1. m = [path |-> Anchor, round |-> 0] /\ group.min = 0 /\ Admits(Anchor)
        BY <2>1
      <4>2. m.path.node = Start /\ m.round = 0
        BY <2>6, <4>1
      <4> QED
        BY <2>3, <2>4, <2>7, <2>11, <4>1, <4>2
    <3>2. ASSUME group.min = 0, Start \in group.nodes
          PROVE  \E m \in matches' : m.path.node = Start /\ m.round = 0
      <4>1. PICK m : m = [path |-> Anchor, round |-> 0]
        OBVIOUS
      <4>2. m \in matches' /\ m.path.node = Start /\ m.round = 0
        BY <2>1, <2>6, <2>7, <2>11, <3>2, <4>1
      <4> QED
        BY <4>2
    <3>3. \A v \in seen \cap group.nodes : v # Start \/ group.min = 0 => \E m \in matches' : m.path.node = v
      BY <1>2, <3>2
    <3>4. ASSUME NEW k \in Nat, group.min <= k, k <= 0, NEW r \in WalksOf(k), EndOf(r) \in group.nodes
          PROVE  \E m \in matches' : m.path.node = EndOf(r) /\ m.round <= k
      <4>1. k = 0 /\ group.min = 0
        BY <2>8, <3>4
      <4>2. EndOf(r) = Start
        BY <2>3, <4>1
      <4> QED
        BY <3>2, <3>4, <4>1, <4>2
    <3> QED
      BY <1>1, <2>4, <2>5, <3>1, <3>3, <3>4 DEF Matched
  <2>12. Matched(0)'
    BY <1>1, <2>11 DEF Matched
  <2> QED
    BY <1>1, <1>2, <2>2, <2>9, <2>10, <2>12 DEF LevelInv, Answered
<1> QED
  BY <1>3, <1>4

\* None of it changes while what it is about does not.
LEMMA SpreadStays ==
    ASSUME graph' = graph, group' = group, UNCHANGED <<frontier, seen, matches>>, NEW n
    PROVE  /\ Levels(n)' <=> Levels(n)
           /\ Stood(n)' <=> Stood(n)
           /\ Matched(n)' <=> Matched(n)
           /\ Ended(n)' <=> Ended(n)
           /\ UNCHANGED <<flight, arrived>> => (Spread(n)' <=> Spread(n))
<1>1. /\ \A k : WalksOf(k)' = WalksOf(k)
      /\ \A k, v, S : Leads(k, v, S)' <=> Leads(k, v, S)
      /\ \A r : EndOf(r)' = EndOf(r)
  BY LevelSteady, RoutesSteady
<1>2. Levels(n)' <=> Levels(n)
  BY <1>1 DEF Levels
<1>3. Stood(n)' <=> Stood(n)
  BY <1>1 DEF Stood, Leads
<1>4. Matched(n)' <=> Matched(n)
  BY <1>1 DEF Matched
<1>5. Ended(n)' <=> Ended(n)
  BY <1>2, <1>4 DEF Ended
<1>6. UNCHANGED <<flight, arrived>> => (Spread(n)' <=> Spread(n))
  BY <1>1, <1>2, <1>3, <1>4 DEF Spread, Leads
<1> QED
  BY <1>2, <1>3, <1>4, <1>5, <1>6

\* A round begins.
LEMMA RoundLevel ==
    ASSUME TypeOK, LevelInv, ByLevel, Round
    PROVE  LevelInv'
<1>1. /\ graph' = graph /\ group' = group /\ pc = "round" /\ pc' = "hop"
      /\ count' = count + 1 /\ UNCHANGED <<frontier, seen, matches>>
      /\ flight' = Into(frontier) /\ arrived' = {}
  BY DEF Round, inputs
<1>2. PICK n \in Nat : count = n /\ Levels(n) /\ Stood(n) /\ Matched(n)
  BY <1>1 DEF LevelInv
<1>3. Levels(n)' /\ Stood(n)' /\ Matched(n)'
  BY <1>1, <1>2, SpreadStays
<1>4. /\ \A f \in flight' : f.path \in frontier' /\ f.rest \in group'.alts
      /\ arrived' = {}
  BY <1>1 DEF Into
<1>5. Spread(n)'
  BY <1>3, <1>4 DEF Spread
<1> QED
  BY <1>1, <1>2, <1>5 DEF LevelInv, Answered

\* Its hop ends the round: every path arrives at a node seen, or at the end of a walk.
LEMMA HopLevel ==
    ASSUME TypeOK, LevelInv, SpreadInv, ByLevel, Hop
    PROVE  LevelInv'
<1>1. /\ graph' = graph /\ group' = group /\ pc = "hop" /\ SetWalk /\ SingleHops
      /\ UNCHANGED <<count, frontier, seen, matches>>
  BY DEF Hop, inputs, ByLevel
<1>2. CASE Refusals # {}
  <2>1. pc' = "done" /\ refusal' \in Refusals
    BY <1>2 DEF Hop
  <2>2. refusal' # None
    BY <2>1, BoundsAssumption DEF Refusals
  <2> QED
    BY <2>1, <2>2 DEF LevelInv, Answered
<1>3. CASE Refusals = {}
  <2> DEFINE hopped == UNION {{[path |-> q, rest |-> Tail(f.rest)] :
                                 q \in Hops(f.path, Head(f.rest))} : f \in flight}
  <2>1. /\ flight' = {f \in hopped : f.rest # <<>>} /\ pc' = pc
        /\ arrived' = arrived \union {f.path : f \in {g \in hopped : g.rest = <<>>}}
    BY <1>3 DEF Hop
  <2>2. PICK n \in Nat : count = n + 1 /\ Spread(n)
    BY <1>1 DEF LevelInv
  <2>3. /\ \A f \in flight : f.path \in frontier /\ f.rest \in group.alts
        /\ \A p \in arrived : p.node \in seen \/ Leads(n + 1, p.node, seen \union {p.node})
        /\ Stood(n)
    BY <2>2 DEF Spread
  <2>4. ASSUME NEW al \in group.alts PROVE al \in Seq(Hop1) /\ Len(al) = 1 /\ Tail(al) = <<>> /\ Head(al) = al[1]
    <3>1. al \in Seq(Hop1) /\ Len(al) = 1
      BY <1>1, InputTypes DEF SingleHops
    <3>2. al # <<>>
      BY InputTypes
    <3>3. Tail(al) \in Seq(Hop1) /\ Len(Tail(al)) = 0
      BY <3>1, <3>2
    <3>4. Tail(al) = <<>>
      BY <3>3, EmptySeq
    <3> QED
      BY <3>1, <3>4
  <2>5. ASSUME NEW g \in hopped
        PROVE  /\ g.rest = <<>>
               /\ g.path.node \in seen \/ Leads(n + 1, g.path.node, seen \union {g.path.node})
    <3>1. PICK f \in flight : \E q \in Hops(f.path, Head(f.rest)) : g = [path |-> q, rest |-> Tail(f.rest)]
      OBVIOUS
    <3>2. PICK q \in Hops(f.path, Head(f.rest)) : g = [path |-> q, rest |-> Tail(f.rest)]
      BY <3>1
    <3>3. f.path \in frontier /\ f.rest \in group.alts
      BY <2>3
    <3>4. Len(f.rest) = 1 /\ Tail(f.rest) = <<>> /\ Head(f.rest) = f.rest[1]
      BY <2>4, <3>3
    <3>5. PICK e \in graph : /\ e.from = f.path.node /\ Crosses(f.rest[1], e.label)
                             /\ q = Extended(f.path, e)
      BY <3>4 DEF Hops, Selected
    <3>6. q.node = e.to
      BY <3>5 DEF Extended
    <3>7. CASE e.to \in seen
      BY <3>2, <3>4, <3>6, <3>7
    <3>8. CASE e.to \notin seen
      <4>1. Leads(n, f.path.node, seen)
        BY <2>3, <3>3 DEF Stood
      <4>2. PICK r \in WalksOf(n) : EndOf(r) = f.path.node /\ Visited(r) \subseteq seen
        BY <4>1 DEF Leads
      <4>3. e.to \notin Visited(r) /\ e.from = EndOf(r) /\ ~Budgeted
        BY <1>1, <3>5, <3>8, <4>2, SetForm
      <4>4. Leads(n + 1, e.to, Visited(r) \union {e.to})
        BY <3>3, <3>4, <3>5, <4>3, OneMore
      <4>5. Leads(n + 1, e.to, seen \union {e.to})
        BY <4>2, <4>4 DEF Leads
      <4> QED
        BY <3>2, <3>4, <3>6, <4>5
    <3> QED
      BY <3>7, <3>8
  <2> HIDE DEF hopped
  <2>6. flight' = {}
    BY <2>1, <2>5
  <2>7. ASSUME NEW p \in arrived' PROVE p.node \in seen \/ Leads(n + 1, p.node, seen \union {p.node})
    <3>1. p \in arrived \/ \E g \in hopped : p = g.path
      BY <2>1
    <3> QED
      BY <2>3, <2>5, <3>1
  <2>8. /\ Levels(n)' /\ Stood(n)' /\ Matched(n)'
    <3>1. Levels(n) /\ Stood(n) /\ Matched(n)
      BY <2>2 DEF Spread
    <3> QED
      BY <1>1, <3>1, SpreadStays
  <2>9. Spread(n)'
    <3>1. \A k, v, S : Leads(k, v, S)' <=> Leads(k, v, S)
      BY <1>1, LevelSteady
    <3>2. \A p \in arrived' : p.node \in seen' \/ Leads(n + 1, p.node, seen \union {p.node})'
      BY <1>1, <2>7, <3>1
    <3> QED
      BY <1>1, <2>6, <2>8, <3>2 DEF Spread, Leads
  <2> QED
    BY <1>1, <2>1, <2>2, <2>9 DEF LevelInv, Answered
<1> QED
  BY <1>2, <1>3

\* What a round more adds to the levels.
LEMMA LevelMore ==
    ASSUME TypeOK, SpreadInv, SetWalk, pc = "hop", flight = {}, NEW n \in Nat, Levels(n)
    PROVE  \A r \in WalksOf(n + 1) : EndOf(r) \in seen \/ \E p \in arrived : p.node = EndOf(r)
<1> SUFFICES ASSUME NEW r \in WalksOf(n + 1)
             PROVE  EndOf(r) \in seen \/ \E p \in arrived : p.node = EndOf(r)
  OBVIOUS
<1>1. PICK q \in WalksOf(n) : \E al \in group.alts : \E s \in Legs(q, al, Len(al)) : r = q \o s
  BY ComesOf
<1>2. PICK al \in group.alts : \E s \in Legs(q, al, Len(al)) : r = q \o s
  BY <1>1
<1>3. PICK s \in Legs(q, al, Len(al)) : r = q \o s
  BY <1>2
<1>4. s \in Avoiding(EndOf(q), al) /\ EndOf(r) = s[Len(al)].to
  BY <1>3, LegsAvoid
<1>5. EndOf(q) \in seen
  BY DEF Levels
<1>6. CASE EndOf(q) \in Holds
  <2>1. Walked(EndOf(q), al, s)
    BY <1>4, <1>6 DEF SpreadInv
  <2> QED
    BY <1>4, <2>1 DEF Walked
<1>7. CASE EndOf(q) \notin Holds
  <2>1. Followed(EndOf(q), seen)
    BY <1>5, <1>7 DEF SpreadInv
  <2> QED
    BY <1>4, <2>1 DEF Followed
<1> QED
  BY <1>6, <1>7

\* The end of a round: one level more.
LEMMA EndRoundLevel ==
    ASSUME TypeOK, TypeOK', LevelInv, SpreadInv, ByLevel, EndRound
    PROVE  LevelInv'
<1>1. /\ graph' = graph /\ group' = group /\ pc = "hop" /\ flight = {} /\ count' = count
      /\ SetWalk /\ SingleHops /\ ~Budgeted /\ ~(Open /\ count > Ceiling)
      /\ group.min \in {0, 1}
  BY SetForm DEF EndRound, inputs, ByLevel
<1>2. PICK n \in Nat : count = n + 1 /\ Spread(n)
  BY <1>1 DEF LevelInv
<1>3. /\ Levels(n) /\ Stood(n) /\ Matched(n)
      /\ \A p \in arrived : p.node \in seen \/ Leads(n + 1, p.node, seen \union {p.node})
  BY <1>2 DEF Spread
<1>4. /\ frontier' \subseteq arrived /\ \A p \in frontier' : p.node \notin seen
      /\ Holds' = {p.node : p \in arrived} \ seen
      /\ seen' = seen \union Holds'
  BY <1>1, HeldOn
<1>5. /\ \A k : WalksOf(k)' = WalksOf(k)
      /\ \A k, v, S : Leads(k, v, S)' <=> Leads(k, v, S)
      /\ \A r : EndOf(r)' = EndOf(r)
  BY <1>1, LevelSteady, RoutesSteady
<1>6. \A k \in Nat : k <= n + 1 => k <= n \/ k = n + 1
  OBVIOUS
<1>7. Levels(n + 1)'
  <2>1. \A r \in WalksOf(n + 1) : EndOf(r) \in seen'
    <3>1. \A r \in WalksOf(n + 1) : EndOf(r) \in seen \/ \E p \in arrived : p.node = EndOf(r)
      BY <1>1, <1>3, LevelMore
    <3> QED
      BY <1>4, <3>1
  <2>2. \A k \in Nat : k <= n => \A r \in WalksOf(k) : EndOf(r) \in seen'
    BY <1>3, <1>4 DEF Levels
  <2>3. \A k \in Nat : k <= n + 1 => \A r \in WalksOf(k) : EndOf(r) \in seen'
    BY <1>6, <2>1, <2>2
  <2> QED
    BY <1>5, <2>3 DEF Levels
<1>8. ASSUME NEW p \in frontier' PROVE Leads(n + 1, p.node, seen')
  <2>1. p \in arrived /\ p.node \notin seen /\ p.node \in Holds'
    BY <1>4
  <2>2. Leads(n + 1, p.node, seen \union {p.node})
    BY <1>3, <2>1
  <2>3. seen \union {p.node} \subseteq seen'
    BY <1>4, <2>1
  <2> QED
    BY <2>2, <2>3 DEF Leads
<1>9. Stood(n + 1)'
  BY <1>5, <1>8 DEF Stood, Leads
<1>10. group.labels = Labels => \A p \in frontier' : Admits(p) <=> p.node \in group.nodes
  <2>1. \A p \in frontier' : p.edge \in Edges \union {None}
    BY DEF TypeOK, PathType
  <2> QED
    BY <2>1, AdmitsNode
<1> DEFINE found == {[path |-> p, round |-> count] : p \in {q \in frontier' : Admits(q)}}
<1>11. ASSUME matches' = matches \union found PROVE Matched(n + 1)'
  <2> HIDE DEF found
  <2> SUFFICES ASSUME group.labels = Labels PROVE Matched(n + 1)'
    BY <1>1 DEF Matched
  <2>1. ASSUME NEW m \in found
        PROVE  m.round = n + 1 /\ m.path \in frontier' /\ m.path.node \in group.nodes
    <3>1. PICK p \in frontier' : Admits(p) /\ m = [path |-> p, round |-> count]
      BY DEF found
    <3> QED
      BY <1>2, <1>10, <3>1
  <2>2. ASSUME NEW m \in matches'
        PROVE  /\ m.round \in Nat /\ group.min <= m.round /\ m.round <= n + 1
               /\ m.path.node \in group.nodes
               /\ \E r \in WalksOf(m.round) : EndOf(r) = m.path.node
    <3>1. CASE m \in matches
      BY <1>1, <1>3, <3>1 DEF Matched
    <3>2. CASE m \in found
      <4>1. m.round = n + 1 /\ m.path \in frontier' /\ m.path.node \in group.nodes
        BY <2>1, <3>2
      <4>2. Leads(n + 1, m.path.node, seen')
        BY <1>8, <4>1
      <4> QED
        BY <1>1, <4>1, <4>2 DEF Leads
    <3> QED
      BY <1>11, <3>1, <3>2
  <2>3. ASSUME NEW v \in seen' \cap group.nodes, v # Start \/ group.min = 0
        PROVE  \E m \in matches' : m.path.node = v
    <3>1. CASE v \in seen
      BY <1>3, <1>11, <2>3, <3>1 DEF Matched
    <3>2. CASE v \notin seen
      <4>1. PICK p \in frontier' : p.node = v
        BY <1>4, <3>2 DEF Holds
      <4>2. PICK m : m = [path |-> p, round |-> count]
        OBVIOUS
      <4>3. m \in found /\ m.path.node = v
        BY <1>10, <4>1, <4>2 DEF found
      <4> QED
        BY <1>11, <4>3
    <3> QED
      BY <3>1, <3>2
  <2>4. ASSUME NEW k \in Nat, group.min <= k, k <= n + 1, NEW r \in WalksOf(k), EndOf(r) \in group.nodes
        PROVE  \E m \in matches' : m.path.node = EndOf(r) /\ m.round <= k
    <3>1. CASE k <= n
      BY <1>3, <1>11, <2>4, <3>1 DEF Matched
    <3>2. CASE k = n + 1
      <4>1. EndOf(r) \in seen'
        BY <1>5, <1>7, <2>4 DEF Levels
      <4>2. EndOf(r) # Start
        BY <3>2, EndsOff
      <4>3. PICK m \in matches' : m.path.node = EndOf(r)
        BY <2>3, <2>4, <4>1, <4>2
      <4> QED
        BY <2>2, <3>2, <4>3
    <3> QED
      BY <1>6, <2>4, <3>1, <3>2
  <2> QED
    BY <1>1, <1>5, <2>2, <2>3, <2>4 DEF Matched
<1>12. \/ pc' = "done" /\ refusal' = "frontier"
       \/ /\ matches' = IF count >= group.min THEN matches \union found ELSE matches
          /\ pc' = IF group.reach = "proximal" /\ count >= group.min /\ found # {}
                   THEN "reach" ELSE NextRound(count, frontier')
  BY <1>1 DEF EndRound
<1> HIDE DEF found
<1>13. CASE pc' = "done" /\ refusal' = "frontier"
  BY <1>13, BoundsAssumption DEF LevelInv, Answered
<1>14. CASE matches' = matches \union found
            /\ pc' = IF group.reach = "proximal" /\ count >= group.min /\ found # {}
                     THEN "reach" ELSE NextRound(count, frontier')
  <2>1. Matched(n + 1)'
    BY <1>11, <1>14
  <2>2. NextRound(count, frontier') = IF frontier' = {} THEN "reach" ELSE "round"
    BY <1>1 DEF NextRound
  <2>3. CASE pc' = "round"
    <3>1. n + 1 \in Nat
      OBVIOUS
    <3> QED
      BY <1>1, <1>2, <1>7, <1>9, <2>1, <2>3, <3>1 DEF LevelInv, Answered
  <2>4. CASE pc' = "reach"
    <3>1. frontier' = {} \/ (group.reach = "proximal" /\ matches' # {})
      BY <1>14, <2>2, <2>4
    <3>2. Ended(n + 1)'
      BY <1>1, <1>7, <2>1, <3>1 DEF Ended
    <3>3. n + 1 \in Nat
      OBVIOUS
    <3> QED
      BY <2>4, <3>2, <3>3 DEF LevelInv, Answered
  <2> QED
    BY <1>14, <2>2, <2>3, <2>4
<1>15. count >= group.min
  BY <1>1, <1>2
<1> QED
  BY <1>12, <1>13, <1>14, <1>15

\* The reach keeps the ends of the walks of its tiers.
LEMMA LevelKept ==
    ASSUME TypeOK, ByLevel, group.labels = Labels, SpreadInv, NEW n \in Nat, Ended(n)
    PROVE  {m.path.node : m \in {x \in matches : Tier(x)}} = {EndOf(r) : r \in Chosen}
<1>1. /\ ~Budgeted /\ ~Lightest /\ group.min \in {0, 1} /\ group.max = None
      /\ group.reach \in {"all", "proximal"} /\ SetWalk
  BY SetForm DEF ByLevel
<1>2. Longest \in Int
  BY NodesAssumption, FS_CardinalityType DEF Longest
<1>3. ASSUME NEW k, NEW r
      PROVE  k \in Tiers /\ r \in FoundAt(k)
               <=> k \in Nat /\ group.min <= k /\ r \in WalksOf(k) /\ EndOf(r) \in group.nodes
  <2>1. r \in FoundAt(k) /\ k \in 0..Longest
          <=> k \in Nat /\ r \in WalksOf(k) /\ Admits(AsPath(r))
    BY <1>2 DEF FoundAt, WalksOf
  <2>2. k \in Nat /\ r \in WalksOf(k) => (Admits(AsPath(r)) <=> EndOf(r) \in group.nodes)
    BY WalkEdge, AdmitsNode
  <2> QED
    BY <1>1, <2>1, <2>2 DEF Tiers
<1>4. \A k \in Tiers : k \in Nat /\ \E r : r \in FoundAt(k)
  BY <1>2 DEF Tiers
<1>5. ASSUME NEW m \in matches
      PROVE  m.round \in Tiers /\ m.round <= n /\ \E r \in FoundAt(m.round) : EndOf(r) = m.path.node
  <2>1. /\ m.round \in Nat /\ group.min <= m.round /\ m.round <= n /\ m.path.node \in group.nodes
        /\ \E r \in WalksOf(m.round) : EndOf(r) = m.path.node
    BY DEF Ended, Matched
  <2> QED
    BY <1>3, <2>1
<1>6. ASSUME NEW k \in Tiers, NEW r \in FoundAt(k), k <= n \/ frontier = {}
      PROVE  \E m \in matches : m.path.node = EndOf(r) /\ m.round <= k
  <2>1. k \in Nat /\ group.min <= k /\ r \in WalksOf(k) /\ EndOf(r) \in group.nodes
    BY <1>3
  <2>2. CASE k <= n
    BY <2>1, <2>2 DEF Ended, Matched
  <2>3. CASE ~(k <= n) /\ frontier = {}
    <3>1. Holds = {}
      BY <2>3 DEF Holds
    <3>2. Start \in seen /\ \A v \in seen : Followed(v, seen)
      BY <1>1, <3>1 DEF SpreadInv
    <3>3. EndOf(r) \in seen
      BY <2>1, <3>2, SeenAll
    <3>4. k # 0
      BY <2>1, <2>3
    <3>5. EndOf(r) # Start
      BY <2>1, <3>4, EndsOff
    <3>6. PICK m \in matches : m.path.node = EndOf(r)
      BY <2>1, <3>3, <3>5 DEF Ended, Matched
    <3>7. m.round <= n /\ m.round \in Nat
      BY <1>4, <1>5
    <3> QED
      BY <2>1, <2>3, <3>6, <3>7
  <2> QED
    BY <1>6, <2>2, <2>3
<1>7. frontier = {} \/ (group.reach = "proximal" /\ matches # {})
  BY DEF Ended
<1>8. \A r : r \in Chosen <=> \E k \in Reached : r \in FoundAt(k)
  BY <1>1 DEF Chosen, Found
<1>9. CASE group.reach = "all"
  <2>1. Reached = Tiers /\ frontier = {} /\ \A m : Tier(m)
    BY <1>7, <1>9 DEF Reached, Tier
  <2>2. \A m \in matches : \E r \in Chosen : m.path.node = EndOf(r)
    BY <1>5, <1>8, <2>1
  <2>3. \A r \in Chosen : \E m \in matches : m.path.node = EndOf(r)
    BY <1>6, <1>8, <2>1
  <2> QED
    BY <2>1, <2>2, <2>3
<1>10. CASE group.reach = "proximal"
  <2>1. /\ \A k : k \in Reached <=> k \in Tiers /\ \A j \in Tiers : k <= j
        /\ \A m : Tier(m) <=> \A x \in matches : m.round <= x.round
    BY <1>1, <1>10 DEF Reached, Tier
  <2>2. ASSUME NEW m \in matches, Tier(m) PROVE \E r \in Chosen : m.path.node = EndOf(r)
    <3>1. m.round \in Tiers /\ m.round <= n /\ \E r \in FoundAt(m.round) : EndOf(r) = m.path.node
      BY <1>5
    <3>2. ASSUME NEW j \in Tiers PROVE m.round <= j
      <4>1. CASE j <= n \/ frontier = {}
        <5>1. PICK r : r \in FoundAt(j)
          BY <1>4
        <5>2. PICK x \in matches : x.round <= j
          BY <1>6, <4>1, <5>1
        <5>3. m.round <= x.round /\ x.round \in Nat /\ j \in Nat
          BY <1>4, <1>5, <2>1, <2>2
        <5>4. m.round \in Nat
          BY <1>4, <3>1
        <5> QED
          BY <5>2, <5>3, <5>4
      <4>2. CASE ~(j <= n)
        BY <1>4, <3>1, <4>2
      <4> QED
        BY <4>1, <4>2
    <3> QED
      BY <1>8, <2>1, <3>1, <3>2
  <2>3. ASSUME NEW r \in Chosen PROVE \E m \in matches : Tier(m) /\ m.path.node = EndOf(r)
    <3>1. PICK k \in Reached : r \in FoundAt(k)
      BY <1>8
    <3>2. k \in Tiers /\ \A j \in Tiers : k <= j
      BY <2>1, <3>1
    <3>3. k <= n \/ frontier = {}
      <4> SUFFICES ASSUME frontier # {} PROVE k <= n
        OBVIOUS
      <4>1. PICK x \in matches : TRUE
        BY <1>7
      <4>2. x.round \in Tiers /\ x.round <= n
        BY <1>5
      <4> QED
        BY <1>4, <3>2, <4>2
    <3>4. PICK m \in matches : m.path.node = EndOf(r) /\ m.round <= k
      BY <1>6, <3>1, <3>2, <3>3
    <3>5. ASSUME NEW x \in matches PROVE m.round <= x.round
      <4>1. x.round \in Tiers /\ m.round \in Tiers
        BY <1>5
      <4> QED
        BY <1>4, <3>2, <3>4, <4>1
    <3> QED
      BY <2>1, <3>4, <3>5
  <2> QED
    BY <2>2, <2>3
<1> QED
  BY <1>1, <1>9, <1>10

\* The reach answers what is complete.
LEMMA ReachLevel ==
    ASSUME TypeOK, LevelInv, SpreadInv, ByLevel, Reach
    PROVE  LevelInv'
<1>1. /\ graph' = graph /\ group' = group /\ pc = "reach" /\ pc' = "done" /\ ~Lightest
  BY SetForm DEF Reach, inputs, ByLevel
<1>2. PICK n \in Nat : Ended(n)
  BY <1>1 DEF LevelInv
<1>3. group.labels = Labels => {m.path.node : m \in answer'} = {EndOf(r) : r \in Chosen}
  BY <1>1, <1>2, ReachNodes, LevelKept
<1>4. {EndOf(r) : r \in Chosen}' = {EndOf(r) : r \in Chosen}
  BY <1>1, GoalSteady, RoutesSteady
<1> QED
  BY <1>1, <1>3, <1>4 DEF LevelInv, Complete

\* A step keeps the levels.
LEMMA LevelStep ==
    ASSUME TypeOK, TypeOK', LevelInv, SpreadInv, [Next]_vars
    PROVE  LevelInv'
<1>1. graph' = graph /\ group' = group
  BY InputsStay
<1>2. ByLevel' <=> ByLevel
  BY <1>1, LevelSteady
<1>3. CASE ~ByLevel
  BY <1>2, <1>3 DEF LevelInv
<1>4. CASE ByLevel
  <2>1. SetWalk /\ ~Lightest /\ pc # "settle"
    BY <1>4, SetForm DEF ByLevel, SpreadInv
  <2>2. CASE Settle \/ Pend \/ Settled
    BY <2>1, <2>2 DEF Settle, Pend, Settled
  <2>3. CASE UNCHANGED vars
    <3>1. UNCHANGED <<pc, count, matches, frontier, flight, arrived, seen, answer, refusal>>
      BY <2>3 DEF vars
    <3>2. \A n : /\ Levels(n)' <=> Levels(n)
                 /\ Stood(n)' <=> Stood(n)
                 /\ Matched(n)' <=> Matched(n)
                 /\ Ended(n)' <=> Ended(n)
                 /\ Spread(n)' <=> Spread(n)
      BY <1>1, <3>1, SpreadStays
    <3>3. Complete' <=> Complete
      BY <1>1, <3>1, GoalSteady, RoutesSteady DEF Complete
    <3> QED
      BY <1>1, <1>2, <1>4, <3>1, <3>2, <3>3 DEF LevelInv, Answered
  <2> QED
    BY <1>4, <2>2, <2>3, EntryLevel, RoundLevel, HopLevel, EndRoundLevel, ReachLevel
    DEF Next, Terminated
<1> QED
  BY <1>3, <1>4

\* ... in every reachable state.
LEMMA LevelAlways == Spec => [](TypeOK /\ LevelInv)
<1>1. Init => LevelInv
  BY DEF Init, LevelInv, Answered
<1>2. TypeOK /\ TypeOK' /\ SpreadInv /\ LevelInv /\ [Next]_vars => LevelInv'
  BY LevelStep
<1> QED
  BY <1>1, <1>2, SpreadAlways, PTL DEF Spec

\* A walk that is not refused answers the nodes the acyclic walks of its tiers end at: one
\* by history or by position, and one by node of single hops.
THEOREM NothingMissed == Spec => []CompleteOrRefused
<1>1. TypeOK /\ WaveInv /\ LevelInv => CompleteOrRefused
  <2> SUFFICES ASSUME TypeOK, WaveInv, LevelInv,
                      Answered, ~Lightest, Budgeted => TotalsAgree,
                      SetWalk => group.labels = Labels /\ SingleHops,
                      NodeLevel /\ ~SetWalk /\ ~Budgeted => alive \/ MergesTell
               PROVE  Complete
    BY DEF CompleteOrRefused
  <2>1. CASE SetWalk
    BY <2>1 DEF LevelInv, ByLevel
  <2>2. CASE ~SetWalk
    <3>1. Told
      BY <2>2 DEF Told, Merging
    <3> QED
      BY <3>1 DEF WaveInv, Fulfilled
  <2> QED
    BY <2>1, <2>2
<1> QED
  BY <1>1, WaveAlways, LevelAlways, PTL

-----------------------------------------------------------------------------
(***************************************************************************)
(* Refusals: whatever is held has a walk of its own.                       *)
(***************************************************************************)

\* The routes of so many edges are finitely many,
LEMMA RoutesFinite ==
    ASSUME TypeOK
    PROVE  \A n \in Nat : IsFiniteSet({r \in Seq(graph) : Len(r) <= n})
<1> DEFINE U(n) == {r \in Seq(graph) : Len(r) <= n}
           S == {n \in Nat : IsFiniteSet(U(n))}
<1>1. 0 \in S
  <2>1. U(0) \subseteq {<<>>}
    <3> SUFFICES ASSUME NEW r \in U(0) PROVE r = <<>>
      OBVIOUS
    <3>1. r \in Seq(graph) /\ Len(r) = 0
      OBVIOUS
    <3> QED
      BY <3>1, EmptySeq
  <2>2. IsFiniteSet({<<>>})
    BY FS_Singleton
  <2> QED
    BY <2>1, <2>2, FS_Subset
<1>2. ASSUME NEW n \in Nat, n \in S PROVE n + 1 \in S
  <2>1. IsFiniteSet(U(n)) /\ IsFiniteSet(graph)
    BY <1>2, InputsAssumption DEF TypeOK
  <2> DEFINE P == U(n) \X graph
             A == {Append(x[1], x[2]) : x \in P}
             f == [x \in P |-> Append(x[1], x[2])]
  <2>2. IsFiniteSet(P)
    BY <2>1, FS_Product
  <2>3. f \in Surjection(P, A)
    BY DEF Surjection
  <2>4. IsFiniteSet(A)
    <3> HIDE DEF P, A, f
    <3> QED
      BY <2>2, <2>3, FS_Surjection
  <2>5. U(n + 1) \subseteq A \union {<<>>}
    <3> SUFFICES ASSUME NEW r \in U(n + 1), r # <<>> PROVE r \in A
      OBVIOUS
    <3>1. r \in Seq(graph) /\ Len(r) <= n + 1
      OBVIOUS
    <3>2. PICK q \in Seq(graph), e \in graph : r = Append(q, e)
      BY <3>1, SequenceEmptyOrAppend
    <3>3. Len(r) = Len(q) + 1 /\ Len(q) \in Nat
      BY <3>2, RouteOn
    <3>4. q \in U(n)
      BY <3>1, <3>3
    <3>5. <<q, e>> \in P /\ r = Append(<<q, e>>[1], <<q, e>>[2])
      BY <3>2, <3>4
    <3> QED
      BY <3>5
  <2>6. IsFiniteSet(A \union {<<>>})
    <3> HIDE DEF A
    <3> QED
      BY <2>4, FS_AddElement
  <2>7. IsFiniteSet(U(n + 1))
    <3> HIDE DEF A, U
    <3> QED
      BY <2>5, <2>6, FS_Subset
  <2> QED
    BY <2>7
<1> HIDE DEF S
<1>3. \A n \in Nat : n \in S
  BY <1>1, <1>2, Naturally
<1> QED
  BY <1>3 DEF S

\* A walk is one of the walks of its rounds.
LEMMA SomeRounds ==
    ASSUME TypeOK
    PROVE  \A r : r \in AllWalks <=> \E k \in Nat : r \in WalksOf(k)
<1>1. Longest \in Int
  BY NodesAssumption, FS_CardinalityType DEF Longest
<1>2. \A k : k \in 0..Longest => k \in Nat
  BY <1>1
<1> QED
  BY <1>2 DEF AllWalks, WalksOf

\* ... so the walks are.
LEMMA WalksFinite ==
    ASSUME TypeOK
    PROVE  IsFiniteSet(AllWalks) /\ \A k \in Nat : IsFiniteSet(WalksOf(k))
<1>1. AllWalks \subseteq {r \in Seq(graph) : Len(r) <= Longest}
  <2> SUFFICES ASSUME NEW r \in AllWalks PROVE r \in Seq(graph) /\ Len(r) <= Longest
    OBVIOUS
  <2>1. PICK k \in Nat : r \in WalksOf(k)
    BY SomeRounds
  <2>2. r \in Seq(graph) /\ Acyclic(r)
    BY <2>1, WalkIs
  <2> QED
    BY <2>2, ShortRoute
<1>2. Longest \in Nat
  <2>1. <<>> \in Seq(graph) /\ Acyclic(<<>>)
    BY DEF Acyclic
  <2> QED
    BY <2>1, ShortRoute
<1>3. IsFiniteSet({r \in Seq(graph) : Len(r) <= Longest})
  BY <1>2, RoutesFinite
<1>4. IsFiniteSet(AllWalks)
  BY <1>1, <1>3, FS_Subset
<1>5. \A k \in Nat : WalksOf(k) \subseteq AllWalks
  BY SomeRounds
<1> QED
  BY <1>4, <1>5, FS_Subset

\* What has a walk each of its own is no more than the walks.
LEMMA Counted ==
    ASSUME NEW F, NEW W, IsFiniteSet(W), NEW f \in [F -> W], \A p, q \in F : f[p] = f[q] => p = q
    PROVE  IsFiniteSet(F) /\ Cardinality(F) <= Cardinality(W)
<1>1. f \in Injection(F, W)
  BY DEF Injection, IsInjective
<1> QED
  BY <1>1, FS_Injection

\* ... as the paths of walks are,
LEMMA CountedPaths ==
    ASSUME NEW F, NEW W, IsFiniteSet(W), \A p \in F : \E r \in W : AsPath(r) = p
    PROVE  IsFiniteSet(F) /\ Cardinality(F) <= Cardinality(W)
<1> DEFINE f == [p \in F |-> CHOOSE r \in W : AsPath(r) = p]
<1>1. \A p \in F : f[p] \in W /\ AsPath(f[p]) = p
  OBVIOUS
<1>2. f \in [F -> W]
  BY <1>1
<1> HIDE DEF f
<1>3. \A p, q \in F : f[p] = f[q] => p = q
  BY <1>1
<1> QED
  BY <1>2, <1>3, Counted

\* ... and their nodes, one path for each.
LEMMA CountedNodes ==
    ASSUME NEW F, NEW W, IsFiniteSet(W), \A p \in F : \E r \in W : EndOf(r) = p.node,
           \A p, q \in F : p.node = q.node => p = q
    PROVE  IsFiniteSet(F) /\ Cardinality(F) <= Cardinality(W)
<1> DEFINE f == [p \in F |-> CHOOSE r \in W : EndOf(r) = p.node]
<1>1. \A p \in F : f[p] \in W /\ EndOf(f[p]) = p.node
  OBVIOUS
<1>2. f \in [F -> W]
  BY <1>1
<1> HIDE DEF f
<1>3. \A p, q \in F : f[p] = f[q] => p = q
  BY <1>1
<1> QED
  BY <1>2, <1>3, Counted

-----------------------------------------------------------------------------
\* The walk r stands at the path p: it ends where the path does, by the same edge and with
\* the same total, on nodes the path blocks, which are its own unless walks are merged.
Stands(r, p) == /\ AsPath(r).node = p.node /\ AsPath(r).edge = p.edge /\ AsPath(r).total = p.total
                /\ Visited(r) \subseteq p.ground
                /\ ~Merging => Visited(r) = p.ground

\* Where a promise is read from single hops, a walk whose last edge is promised crosses
\* promised edges alone.
Kept(r) == \A i \in DOMAIN r : r[i].label \in Promised
Reading == SingleHops /\ alive /\ ~Lightest
Promises(p) == p.edge # None => p.edge.label \in Promised
Keeps(r, p) == Reading /\ Promises(p) => Kept(r)

\* After n rounds a path is backed by walks of as many, one for every node it blocks; the
\* loop of the lightest walks has no rounds.
After(n) == IF Lightest THEN Nat ELSE {n}
Backs(n, p, v) == \E k \in After(n) : \E r \in WalksOf(k) : Stands(r, p) /\ v \in Visited(r) /\ Keeps(r, p)
Backed(n, p) == \A v \in p.ground \union {p.node} : Backs(n, p, v)

\* ... within a round, by legs on from them.
Bears(f, v, q, al, j, s) == /\ j < Len(al) /\ f.rest = SubSeq(al, j + 1, Len(al))
                            /\ Stands(q \o s, f.path) /\ v \in Visited(q \o s) /\ Keeps(q \o s, f.path)
Borne(n, f, v) ==
    \E k \in After(n) : \E q \in WalksOf(k) : \E al \in group.alts : \E j \in Nat :
       \E s \in Legs(q, al, j) : Bears(f, v, q, al, j, s)
Aloft(n, f) == \A v \in f.path.ground \union {f.path.node} : Borne(n, f, v)

\* Over single hops every path held has a walk of its own, even where walks are merged.
Owned(own) == /\ \A p \in frontier : Stands(own[p], p)
              /\ \A p, q \in frontier : own[p] = own[q] => p = q
Parted(n) == Merging /\ SingleHops => \E own \in [frontier -> WalksOf(n)] : Owned(own)

\* There every path that arrives comes of a path held.
Follows(p, q, e) == /\ e.from = q.node /\ e.to \notin q.ground /\ Affords(q, e)
                    /\ \E al \in group.alts : Crosses(al[1], e.label)
                    /\ p = Extended(q, e)
Comes(p) == \E q \in frontier : \E e \in graph : Follows(p, q, e)

\* What an exact walk, and the loop of the lightest, holds after n rounds, and within the
\* next.
Stock(n) == /\ \A p \in frontier : Backed(n, p)
            /\ Reading => \A p \in frontier : Promises(p)
            /\ Parted(n)
Course(n) == /\ ~Lightest => InBounds(n) /\ count = n + 1
             /\ \A f \in flight : Aloft(n, f)
             /\ \A p \in arrived : Backed(n + 1, p)
             /\ SingleHops /\ ~Lightest => /\ \A f \in flight : f.path \in frontier /\ f.rest \in group.alts
                                           /\ \A p \in arrived : Comes(p)
AtRound(n) == /\ Stock(n)
              /\ pc = "entry" => n = 0 /\ count = 0 /\ frontier = {Anchor} /\ arrived = {}
              /\ pc = "round" => n = count /\ InBounds(n)
              /\ pc = "hop" => Course(n)
StandInv ==
    ~SetWalk /\ pc # "done" =>
      /\ IF Lightest THEN promise <=> ExactPromise ELSE promise => alive
      /\ pc = "settle" => Lightest
      /\ pc = "round" => ~Lightest
      /\ pc # "reach" => \E n \in Nat : AtRound(n)

\* The lightest walks are neither by node nor merged, and go by single hops.
LEMMA LightestForm ==
    ASSUME TypeOK, Lightest
    PROVE  ~SetWalk /\ ~Merging /\ SingleHops /\ ~Reading
<1>1. Budgeted
  BY DEF Lightest
<1>2. SingleHops
  BY <1>1, InputsAssumption DEF TypeOK, SingleHops, Budgeted
<1> QED
  BY <1>1, <1>2 DEF SetWalk, Merging, Reading

\* The anchor's walk is of no hops.
LEMMA AnchorStands ==
    ASSUME TypeOK
    PROVE  /\ <<>> \in WalksOf(0) /\ Stands(<<>>, Anchor) /\ Kept(<<>>) /\ Visited(<<>>) = {Start}
           /\ Anchor.ground = {Start} /\ Anchor.node = Start
<1>1. WalksOf(0) = {<<>>} /\ AsPath(<<>>) = Anchor
  BY WalksGoOn, NoHops
<1>2. Visited(<<>>) = {Start} /\ Anchor.ground = {Start} /\ Anchor.node = Start
  BY DEF Visited, Anchor
<1> QED
  BY <1>1, <1>2 DEF Stands, Kept

\* ... so the anchor is backed.
LEMMA AnchorBacked ==
    ASSUME TypeOK
    PROVE  Backed(0, Anchor)
<1> SUFFICES ASSUME NEW v \in Anchor.ground \union {Anchor.node} PROVE Backs(0, Anchor, v)
  BY DEF Backed
<1>1. <<>> \in WalksOf(0) /\ Stands(<<>>, Anchor) /\ Kept(<<>>) /\ v \in Visited(<<>>)
  BY AnchorStands
<1>2. 0 \in After(0)
  BY DEF After
<1> QED
  BY <1>1, <1>2 DEF Backs, Keeps

\* Nothing of this is lost while the inputs do not change and no promise comes back.
LEMMA StandSteady ==
    ASSUME graph' = graph, group' = group, alive' => alive, NEW n
    PROVE  /\ \A p : Backed(n, p) => Backed(n, p)'
           /\ \A f : Aloft(n, f) => Aloft(n, f)'
           /\ \A own : frontier' = frontier => (Owned(own)' <=> Owned(own))
           /\ frontier' = frontier => (Parted(n) => Parted(n)')
           /\ \A p : frontier' = frontier => (Comes(p) => Comes(p)')
           /\ frontier' = frontier => (Stock(n) => Stock(n)')
<1>1. /\ (Merging' <=> Merging) /\ (Lightest' <=> Lightest) /\ (SingleHops' <=> SingleHops)
  BY GoalSteady DEF SingleHops, Lightest, Budgeted
<1>2. \A k : WalksOf(k)' = WalksOf(k)
  BY WaveSteady
<1>3. \A r, p : Stands(r, p)' <=> Stands(r, p)
  BY <1>1, RoutesSteady DEF Stands
<1>4. Reading' => Reading
  BY <1>1 DEF Reading
<1>5. \A r, p : Keeps(r, p) => Keeps(r, p)'
  BY <1>4 DEF Keeps, Kept, Promises
<1>6. After(n)' = After(n)
  BY <1>1 DEF After
<1>7. \A q, al, i : Legs(q, al, i)' = Legs(q, al, i)
  BY RoutesSteady DEF Legs, Crosses
<1>8. \A p, v : Backs(n, p, v) => Backs(n, p, v)'
  BY <1>2, <1>3, <1>5, <1>6, RoutesSteady DEF Backs
<1>9. \A f, v : Borne(n, f, v) => Borne(n, f, v)'
  <2>1. \A f, v, q, al, j, s : Bears(f, v, q, al, j, s) => Bears(f, v, q, al, j, s)'
    BY <1>3, <1>5, RoutesSteady DEF Bears
  <2> QED
    BY <1>2, <1>6, <1>7, <2>1 DEF Borne
<1>10. \A p : Backed(n, p) => Backed(n, p)'
  BY <1>8 DEF Backed
<1>11. \A f : Aloft(n, f) => Aloft(n, f)'
  BY <1>9 DEF Aloft
<1>12. \A own : frontier' = frontier => (Owned(own)' <=> Owned(own))
  BY <1>3 DEF Owned
<1>13. frontier' = frontier => (Parted(n) => Parted(n)')
  BY <1>1, <1>2, <1>12 DEF Parted
<1>14. \A p : frontier' = frontier => (Comes(p) => Comes(p)')
  <2>1. \A q, e : /\ Affords(q, e)' <=> Affords(q, e)
                  /\ Extended(q, e)' = Extended(q, e)
    BY DEF Affords, Extended, SetWalk, NodeLevel, Budgeted, Adds
  <2>2. \A e : (\E al \in group.alts : Crosses(al[1], e.label))'
                <=> \E al \in group.alts : Crosses(al[1], e.label)
    BY DEF Crosses
  <2>3. \A p, q, e : Follows(p, q, e)' <=> Follows(p, q, e)
    BY <2>1, <2>2 DEF Follows
  <2> QED
    BY <2>3 DEF Comes
<1>15. frontier' = frontier => (Stock(n) => Stock(n)')
  BY <1>4, <1>10, <1>13 DEF Stock, Promises
<1> QED
  BY <1>10, <1>11, <1>12, <1>13, <1>14, <1>15

\* The rounds a path's walks can be of.
LEMMA AfterRounds ==
    ASSUME NEW n \in Nat, NEW k \in After(n)
    PROVE  k \in Nat /\ k + 1 \in After(n + 1)
BY DEF After

\* A path that sets out on an alternative is aloft.
LEMMA Begins ==
    ASSUME TypeOK, NEW n \in Nat, NEW p, Backed(n, p), NEW al \in group.alts,
           NEW f, f = [path |-> p, rest |-> al]
    PROVE  Aloft(n, f)
<1>1. f.path = p /\ f.rest = al
  OBVIOUS
<1> SUFFICES ASSUME NEW v \in p.ground \union {p.node} PROVE Borne(n, f, v)
  BY <1>1 DEF Aloft
<1>2. Backs(n, p, v)
  BY DEF Backed
<1>3. PICK k \in After(n) : \E r \in WalksOf(k) : Stands(r, p) /\ v \in Visited(r) /\ Keeps(r, p)
  BY <1>2 DEF Backs
<1>4. PICK r \in WalksOf(k) : Stands(r, p) /\ v \in Visited(r) /\ Keeps(r, p)
  BY <1>3
<1>5. k \in Nat
  BY <1>3, AfterRounds
<1>6. /\ Legs(r, al, 0) = {<<>>} /\ SubSeq(al, 0 + 1, Len(al)) = al /\ 0 < Len(al)
      /\ r \o <<>> = r
  BY <1>4, <1>5, FirstLeg
<1>7. PICK j \in Nat : j = 0
  OBVIOUS
<1>8. PICK s : s = <<>>
  OBVIOUS
<1>9. s \in Legs(r, al, j) /\ SubSeq(al, j + 1, Len(al)) = al /\ j < Len(al) /\ r \o s = r
  BY <1>6, <1>7, <1>8
<1> QED
  BY <1>1, <1>3, <1>4, <1>9 DEF Borne, Bears

\* A walk goes on where the path does.
LEMMA LegStands ==
    ASSUME TypeOK, ~SetWalk, NEW p \in PathType, NEW r \in Seq(graph), NEW e \in graph, Stands(r, p)
    PROVE  Stands(Append(r, e), Extended(p, e)) /\ Visited(Append(r, e)) = Visited(r) \union {e.to}
<1>1. AsPath(Append(r, e)) = Extended(AsPath(r), e)
  BY PathOn
<1>2. /\ Extended(p, e).node = e.to /\ Extended(p, e).edge = e
      /\ Extended(p, e).ground = p.ground \union {e.to} /\ Extended(p, e).total = p.total + Adds(e)
  BY DEF Extended
<1>3. /\ Extended(AsPath(r), e).node = e.to /\ Extended(AsPath(r), e).edge = e
      /\ Extended(AsPath(r), e).ground = AsPath(r).ground \union {e.to}
      /\ Extended(AsPath(r), e).total = AsPath(r).total + Adds(e)
  BY DEF Extended
<1>4. AsPath(r).ground = Visited(r) /\ AsPath(Append(r, e)).ground = Visited(Append(r, e))
  BY DEF AsPath
<1>5. Visited(Append(r, e)) = Visited(r) \union {e.to}
  BY <1>1, <1>3, <1>4
<1>6. AsPath(r).total = p.total /\ Visited(r) \subseteq p.ground /\ (~Merging => Visited(r) = p.ground)
  BY DEF Stands
<1> QED
  BY <1>1, <1>2, <1>3, <1>5, <1>6 DEF Stands

\* ... and as acyclically, for it blocks no node the path does not.
LEMMA LegFollows ==
    ASSUME TypeOK, ~SetWalk, NEW k \in Nat, NEW q \in WalksOf(k), NEW al \in group.alts, NEW j \in Nat,
           j < Len(al), NEW s \in Legs(q, al, j), NEW p, Stands(q \o s, p),
           NEW e \in Selected(p, al[j + 1]), e.to \notin p.ground, Affords(p, e)
    PROVE  /\ Append(s, e) \in Legs(q, al, j + 1) /\ q \o Append(s, e) = Append(q \o s, e)
           /\ q \o s \in Seq(graph) /\ e \in graph
<1>1. e \in graph /\ e.from = p.node /\ Crosses(al[j + 1], e.label)
  BY DEF Selected
<1>2. /\ AsPath(q \o s).node = p.node /\ AsPath(q \o s).total = p.total
      /\ Visited(q \o s) \subseteq p.ground /\ AsPath(q \o s).ground = Visited(q \o s)
  BY DEF Stands, AsPath
<1>3. e \in Selected(AsPath(q \o s), al[j + 1])
  BY <1>1, <1>2 DEF Selected
<1>4. e.to \notin AsPath(q \o s).ground /\ Affords(AsPath(q \o s), e)
  BY <1>2 DEF Affords
<1> QED
  BY <1>1, <1>3, <1>4, LegMore

\* A hop leaves what it hops with aloft, or arrived with a round more.
LEMMA HopOn ==
    ASSUME TypeOK, ~SetWalk, NEW n \in Nat, NEW f \in flight, Aloft(n, f), Reading => Promises(f.path),
           NEW p \in Hops(f.path, Head(f.rest)), NEW g, g = [path |-> p, rest |-> Tail(f.rest)]
    PROVE  /\ g.rest # <<>> => Aloft(n, g)
           /\ g.rest = <<>> => Backed(n + 1, p)
<1>1. f.path \in PathType
  BY DEF TypeOK
<1>2. PICK e \in Selected(f.path, Head(f.rest)) :
        e.to \notin f.path.ground /\ Affords(f.path, e) /\ p = Extended(f.path, e)
  BY DEF Hops
<1>3. /\ p.ground = f.path.ground \union {e.to} /\ p.node = e.to /\ p.edge = e
  BY <1>2 DEF Extended
<1>4. g.path = p /\ g.rest = Tail(f.rest)
  OBVIOUS
<1>5. ASSUME NEW v \in p.ground \union {p.node}
      PROVE  /\ g.rest # <<>> => Borne(n, g, v)
             /\ g.rest = <<>> => Backs(n + 1, p, v)
  <2>1. PICK u \in f.path.ground \union {f.path.node} : v = e.to \/ v = u
    BY <1>3, <1>5
  <2>2. Borne(n, f, u)
    BY DEF Aloft
  <2>3. PICK k \in After(n) : \E q \in WalksOf(k) : \E al \in group.alts : \E j \in Nat :
          \E s \in Legs(q, al, j) : Bears(f, u, q, al, j, s)
    BY <2>2 DEF Borne
  <2>4. PICK q \in WalksOf(k) : \E al \in group.alts : \E j \in Nat :
          \E s \in Legs(q, al, j) : Bears(f, u, q, al, j, s)
    BY <2>3
  <2>5. PICK al \in group.alts : \E j \in Nat : \E s \in Legs(q, al, j) : Bears(f, u, q, al, j, s)
    BY <2>4
  <2>6. PICK j \in Nat : \E s \in Legs(q, al, j) : Bears(f, u, q, al, j, s)
    BY <2>5
  <2>7. PICK s \in Legs(q, al, j) :
          /\ j < Len(al) /\ f.rest = SubSeq(al, j + 1, Len(al))
          /\ Stands(q \o s, f.path) /\ u \in Visited(q \o s) /\ Keeps(q \o s, f.path)
    BY <2>6 DEF Bears
  <2>8. k \in Nat /\ k + 1 \in After(n + 1)
    BY <2>3, AfterRounds
  <2>9. al \in Seq(Hop1) /\ Len(al) \in Nat
    BY InputTypes
  <2>10. /\ Head(f.rest) = al[j + 1] /\ g.rest = SubSeq(al, j + 2, Len(al))
         /\ g.rest = <<>> <=> Len(al) <= j + 1
    BY <1>4, <2>7, <2>9, RestOf
  <2>11. /\ Append(s, e) \in Legs(q, al, j + 1) /\ q \o Append(s, e) = Append(q \o s, e)
         /\ q \o s \in Seq(graph) /\ e \in graph
    <3>1. e \in Selected(f.path, al[j + 1])
      BY <1>2, <2>10
    <3>2. e.to \notin f.path.ground /\ Affords(f.path, e)
      BY <1>2
    <3>3. j < Len(al) /\ Stands(q \o s, f.path) /\ k \in Nat
      BY <2>7, <2>8
    <3> QED
      BY <3>1, <3>2, <3>3, LegFollows
  <2>12. /\ Stands(q \o Append(s, e), p)
         /\ Visited(q \o Append(s, e)) = Visited(q \o s) \union {e.to}
    <3>1. Stands(q \o s, f.path)
      BY <2>7
    <3>2. q \o s \in Seq(graph) /\ e \in graph
      BY <2>11
    <3>3. /\ Stands(Append(q \o s, e), Extended(f.path, e))
          /\ Visited(Append(q \o s, e)) = Visited(q \o s) \union {e.to}
      BY <1>1, <3>1, <3>2, LegStands
    <3> QED
      BY <1>2, <2>11, <3>3
  <2>13. v \in Visited(q \o Append(s, e))
    BY <2>1, <2>7, <2>12
  <2>14. Keeps(q \o Append(s, e), p)
    <3> SUFFICES ASSUME Reading, Promises(p) PROVE Kept(q \o Append(s, e))
      BY DEF Keeps
    <3>1. Kept(q \o s)
      BY <2>7 DEF Keeps
    <3>2. e.label \in Promised
      <4>1. None \notin Edges /\ e \in Edges
        BY <2>11, InputTypes, BoundsAssumption
      <4> QED
        BY <1>3, <4>1 DEF Promises
    <3>3. PICK t \in Seq(graph) : t = q \o s
      BY <2>11
    <3>4. /\ DOMAIN t = 1..Len(t) /\ Len(t) \in Nat /\ DOMAIN Append(t, e) = 1..Len(t) + 1
          /\ \A i \in 1..Len(t) : Append(t, e)[i] = t[i]
          /\ Append(t, e)[Len(t) + 1] = e
      BY <2>11, RouteOn
    <3>5. \A i \in 1..Len(t) : t[i].label \in Promised
      BY <3>1, <3>3, <3>4 DEF Kept
    <3>6. Kept(Append(t, e))
      BY <3>2, <3>4, <3>5 DEF Kept
    <3> QED
      BY <2>11, <3>3, <3>6
  <2>15. ASSUME g.rest # <<>> PROVE Borne(n, g, v)
    <3>1. PICK i \in Nat : i = j + 1
      OBVIOUS
    <3>2. i < Len(al) /\ g.rest = SubSeq(al, i + 1, Len(al))
      <4>1. ~(Len(al) <= j + 1) /\ g.rest = SubSeq(al, j + 2, Len(al))
        BY <2>10, <2>15
      <4>2. i + 1 = j + 2 /\ i < Len(al)
        BY <2>9, <3>1, <4>1
      <4> QED
        BY <4>1, <4>2
    <3>3. Append(s, e) \in Legs(q, al, i)
      BY <2>11, <3>1
    <3> QED
      <4>1. Bears(g, v, q, al, i, Append(s, e))
        BY <1>4, <2>12, <2>13, <2>14, <3>2 DEF Bears
      <4> QED
        BY <2>3, <3>3, <4>1 DEF Borne
  <2>16. ASSUME g.rest = <<>> PROVE Backs(n + 1, p, v)
    <3>1. Len(al) = j + 1
      BY <2>7, <2>9, <2>10, <2>16
    <3>2. Append(s, e) \in Legs(q, al, Len(al))
      BY <2>11, <3>1
    <3>3. q \o Append(s, e) \in WalksOf(k + 1)
      BY <2>8, <3>2, Arrives
    <3> QED
      BY <2>8, <2>12, <2>13, <2>14, <3>3 DEF Backs
  <2> QED
    BY <2>15, <2>16
<1> QED
  BY <1>4, <1>5 DEF Aloft, Backed

\* The forms and the goods of a step that changes neither inputs nor promises.
LEMMA StandKept ==
    ASSUME graph' = graph, group' = group, promise' = promise, alive' = alive
    PROVE  /\ (SetWalk' <=> SetWalk) /\ (Lightest' <=> Lightest)
           /\ (SingleHops' <=> SingleHops) /\ (Reading' <=> Reading)
           /\ (promise' <=> ExactPromise') <=> (promise <=> ExactPromise)
           /\ (promise' => alive') <=> (promise => alive)
           /\ \A n : InBounds(n)' <=> InBounds(n)
           /\ (Merging' <=> Merging)
<1>1. /\ (Merging' <=> Merging) /\ (ExactPromise' <=> ExactPromise)
      /\ Ceiling' = Ceiling /\ (Open' <=> Open)
  BY GoalSteady
<1>2. /\ (SetWalk' <=> SetWalk) /\ (Lightest' <=> Lightest) /\ (SingleHops' <=> SingleHops)
  BY DEF SetWalk, NodeLevel, Lightest, Budgeted, SingleHops
<1> QED
  BY <1>1, <1>2 DEF Reading, InBounds

\* The lightest walks hold what so many rounds back, however many.
LEMMA AnyRounds ==
    ASSUME Lightest, NEW n, NEW i
    PROVE  /\ \A p : Backed(n, p) <=> Backed(i, p)
           /\ \A f : Aloft(n, f) <=> Aloft(i, f)
<1>1. After(n) = After(i)
  BY DEF After
<1> QED
  BY <1>1 DEF Backed, Backs, Aloft, Borne

\* The walks set out with the anchor.
LEMMA EntryStands ==
    ASSUME TypeOK, ~SetWalk, StandInv, Entry
    PROVE  StandInv'
<1>1. PICK n \in Nat : AtRound(n)
  BY DEF StandInv, Entry
<1>2. n = 0 /\ count = 0 /\ frontier = {Anchor} /\ arrived = {} /\ Stock(n)
  BY <1>1 DEF AtRound, Entry
<1>3. UNCHANGED <<graph, group, count, arrived, promise, alive>>
  BY DEF Entry, inputs
<1>4. IF Lightest THEN promise <=> ExactPromise ELSE promise => alive
  BY DEF StandInv, Entry
<1>5. CASE pc' \in {"done", "reach"}
  BY <1>3, <1>4, <1>5, StandKept DEF StandInv
<1>6. CASE ~Lightest /\ pc' = "round"
  <2>1. frontier' = frontier /\ InBounds(0)
    BY <1>2, <1>6 DEF Entry, NextRound, InBounds
  <2>2. Stock(n)'
    BY <1>2, <1>3, <2>1, StandSteady
  <2>3. AtRound(n)'
    BY <1>2, <1>3, <1>6, <2>1, <2>2, StandKept DEF AtRound
  <2> QED
    BY <1>3, <1>4, <1>6, <2>3, StandKept DEF StandInv
<1>7. CASE Lightest /\ pc' = "hop"
  <2>1. frontier' = {} /\ flight' = Into({Anchor})
    BY <1>7 DEF Entry
  <2>2. ~Merging' /\ Lightest'
    BY <1>3, <1>7, LightestForm, StandKept
  <2>3. Stock(n)'
    BY <2>1, <2>2 DEF Stock, Parted
  <2>4. \A f \in flight' : Aloft(n, f)'
    <3> SUFFICES ASSUME NEW f \in flight' PROVE Aloft(n, f)'
      OBVIOUS
    <3>1. PICK al \in group.alts : f = [path |-> Anchor, rest |-> al]
      BY <2>1 DEF Into
    <3>2. Backed(n, Anchor)
      BY <1>2, AnchorBacked
    <3>3. Aloft(n, f)
      BY <3>1, <3>2, Begins
    <3> QED
      BY <1>3, <3>3, StandSteady
  <2>5. Course(n)'
    BY <1>2, <1>3, <2>2, <2>4 DEF Course
  <2>6. AtRound(n)'
    BY <1>7, <2>3, <2>5 DEF AtRound
  <2> QED
    BY <1>3, <1>4, <1>7, <2>6, StandKept DEF StandInv
<1>8. pc' \in {"done", "reach"} \/ (~Lightest /\ pc' = "round") \/ (Lightest /\ pc' = "hop")
  BY NextRoundType DEF Entry
<1> QED
  BY <1>5, <1>6, <1>7, <1>8

\* A round takes what is held into every alternative.
LEMMA RoundStands ==
    ASSUME TypeOK, ~SetWalk, StandInv, Round
    PROVE  StandInv'
<1>1. PICK n \in Nat : AtRound(n)
  BY DEF StandInv, Round
<1>2. ~Lightest /\ Stock(n) /\ n = count /\ InBounds(n)
  BY <1>1 DEF AtRound, StandInv, Round
<1>3. /\ UNCHANGED <<graph, group, frontier, promise, alive>> /\ pc' = "hop"
      /\ count' = n + 1 /\ flight' = Into(frontier) /\ arrived' = {}
  BY <1>2 DEF Round, inputs
<1>4. promise => alive
  BY <1>2 DEF StandInv, Round
<1>5. Stock(n)'
  BY <1>2, <1>3, StandSteady
<1>6. ASSUME NEW f \in flight' PROVE Aloft(n, f)' /\ f.path \in frontier' /\ f.rest \in group'.alts
  <2>1. PICK p \in frontier, al \in group.alts : f = [path |-> p, rest |-> al]
    BY <1>3 DEF Into
  <2>2. Backed(n, p)
    BY <1>2 DEF Stock
  <2>3. Aloft(n, f)
    BY <2>1, <2>2, Begins
  <2> QED
    BY <1>3, <2>1, <2>3, StandSteady
<1>7. Course(n)'
  BY <1>2, <1>3, <1>6, StandKept DEF Course
<1>8. AtRound(n)'
  BY <1>3, <1>5, <1>7 DEF AtRound
<1> QED
  BY <1>2, <1>3, <1>4, <1>8, StandKept DEF StandInv

\* A hop takes what is under way one leg on.
LEMMA HopStands ==
    ASSUME TypeOK, ~SetWalk, StandInv, Hop
    PROVE  StandInv'
<1>1. PICK n \in Nat : AtRound(n)
  BY DEF StandInv, Hop
<1>2. Stock(n) /\ Course(n)
  BY <1>1 DEF AtRound, Hop
<1>3. UNCHANGED <<graph, group, count, frontier, promise, alive>>
  BY DEF Hop, inputs
<1>4. IF Lightest THEN promise <=> ExactPromise ELSE promise => alive
  BY DEF StandInv, Hop
<1>5. CASE Refusals # {}
  <2>1. pc' = "done"
    BY <1>5 DEF Hop
  <2> QED
    BY <2>1 DEF StandInv
<1>6. CASE Refusals = {}
  <2>1. PICK hopped : hopped = UNION {{[path |-> q, rest |-> Tail(f.rest)] :
                                 q \in Hops(f.path, Head(f.rest))} : f \in flight}
    OBVIOUS
  <2>2. /\ flight' = {f \in hopped : f.rest # <<>>}
        /\ arrived' = arrived \union {f.path : f \in {g \in hopped : g.rest = <<>>}}
        /\ pc' = "hop"
    BY <1>6, <2>1 DEF Hop
  <2>3. ASSUME NEW g \in hopped
        PROVE  /\ g.rest # <<>> => Aloft(n, g)
               /\ g.rest = <<>> => Backed(n + 1, g.path)
               /\ SingleHops /\ ~Lightest => g.rest = <<>> /\ Comes(g.path)
    <3>1. PICK f \in flight : \E q \in Hops(f.path, Head(f.rest)) : g = [path |-> q, rest |-> Tail(f.rest)]
      BY <2>1
    <3>2. PICK p \in Hops(f.path, Head(f.rest)) : g = [path |-> p, rest |-> Tail(f.rest)]
      BY <3>1
    <3>3. g.path = p /\ g.rest = Tail(f.rest)
      BY <3>2
    <3>4. Aloft(n, f) /\ (Reading => Promises(f.path))
      BY <1>2 DEF Course, Stock, Reading
    <3>5. /\ g.rest # <<>> => Aloft(n, g)
          /\ g.rest = <<>> => Backed(n + 1, p)
      BY <3>2, <3>4, HopOn
    <3>6. ASSUME SingleHops, ~Lightest PROVE g.rest = <<>> /\ Comes(p)
      <4>1. f.path \in frontier /\ f.rest \in group.alts
        BY <1>2, <3>6 DEF Course
      <4>2. Len(f.rest) = 1 /\ f.rest \in Seq(Hop1)
        BY <3>6, <4>1, InputTypes DEF SingleHops
      <4>3. Tail(f.rest) = <<>> /\ Head(f.rest) = f.rest[1]
        <5>1. f.rest # <<>> /\ Head(f.rest) = f.rest[1]
          BY <4>2
        <5>2. Tail(f.rest) \in Seq(Hop1) /\ Len(Tail(f.rest)) = 0
          BY <4>2, <5>1
        <5> QED
          BY <5>1, <5>2, EmptySeq
      <4>4. PICK e \in Selected(f.path, Head(f.rest)) :
              e.to \notin f.path.ground /\ Affords(f.path, e) /\ p = Extended(f.path, e)
        BY <3>2 DEF Hops
      <4>5. e \in graph /\ e.from = f.path.node /\ Crosses(f.rest[1], e.label)
        BY <4>3, <4>4 DEF Selected
      <4>6. Follows(p, f.path, e)
        BY <4>1, <4>4, <4>5 DEF Follows
      <4> QED
        BY <3>3, <4>1, <4>3, <4>5, <4>6 DEF Comes
    <3> QED
      BY <3>3, <3>5, <3>6
  <2>4. Stock(n)'
    BY <1>2, <1>3, StandSteady
  <2>5. \A f \in flight' : Aloft(n, f)'
    BY <1>3, <2>2, <2>3, StandSteady
  <2>6. \A p \in arrived' : p \in arrived \/ \E g \in hopped : g.rest = <<>> /\ p = g.path
    BY <2>2
  <2>7. \A p \in arrived' : Backed(n + 1, p)
    BY <1>2, <2>3, <2>6 DEF Course
  <2>8. \A p \in arrived' : Backed(n + 1, p)'
    BY <1>3, <2>7, StandSteady
  <2>9. SingleHops /\ ~Lightest => flight' = {} /\ \A p \in arrived' : Comes(p)
    BY <1>2, <2>2, <2>3, <2>6 DEF Course
  <2>10. SingleHops /\ ~Lightest => flight' = {} /\ \A p \in arrived' : Comes(p)'
    BY <1>3, <2>9, StandSteady
  <2>11. ~Lightest => InBounds(n) /\ count = n + 1
    BY <1>2 DEF Course
  <2>12. Course(n)'
    BY <1>3, <2>5, <2>8, <2>10, <2>11, StandKept DEF Course
  <2>13. AtRound(n)'
    BY <2>2, <2>4, <2>12 DEF AtRound
  <2> QED
    BY <1>3, <1>4, <2>2, <2>13, StandKept DEF StandInv
<1> QED
  BY <1>5, <1>6

\* A pending path is settled, and hops on from there.
LEMMA SettleStands ==
    ASSUME TypeOK, ~SetWalk, StandInv, Settle
    PROVE  StandInv'
<1>1. PICK n \in Nat : AtRound(n)
  BY DEF StandInv, Settle
<1>2. Stock(n) /\ Lightest /\ (promise <=> ExactPromise)
  BY <1>1 DEF AtRound, StandInv, Settle
<1>3. UNCHANGED <<graph, group, promise, alive>>
  BY DEF Settle, inputs
<1>4. Lightest' /\ (promise' <=> ExactPromise') /\ ~Merging' /\ ~Reading'
  BY <1>2, <1>3, LightestForm, StandKept
<1>5. CASE pc' \in {"done", "reach"}
  BY <1>4, <1>5 DEF StandInv
<1>6. CASE ~(pc' \in {"done", "reach"})
  <2>1. PICK p \in Least(frontier) :
          /\ frontier' = frontier \ {p} /\ arrived' = {}
          /\ flight' = {} \/ flight' = Into({p})
          /\ pc' \in {"hop", "settle"}
    BY <1>6 DEF Settle
  <2>2. p \in frontier
    BY DEF Least
  <2>3. \A q \in frontier' : Backed(n, q)'
    BY <1>2, <1>3, <2>1, StandSteady DEF Stock
  <2>4. Stock(n)'
    BY <1>4, <2>3 DEF Stock, Parted
  <2>5. \A f \in flight' : Aloft(n, f)'
    <3> SUFFICES ASSUME NEW f \in flight' PROVE Aloft(n, f)'
      OBVIOUS
    <3>1. PICK al \in group.alts : f = [path |-> p, rest |-> al]
      BY <2>1 DEF Into
    <3>2. Backed(n, p)
      BY <1>2, <2>2 DEF Stock
    <3>3. Aloft(n, f)
      BY <3>1, <3>2, Begins
    <3> QED
      BY <1>3, <3>3, StandSteady
  <2>6. Course(n)'
    BY <1>4, <2>1, <2>5 DEF Course
  <2>7. AtRound(n)'
    BY <2>1, <2>4, <2>6 DEF AtRound
  <2> QED
    BY <1>4, <2>1, <2>7 DEF StandInv
<1> QED
  BY <1>5, <1>6

\* What arrived joins what is pending.
LEMMA PendStands ==
    ASSUME TypeOK, ~SetWalk, StandInv, Pend
    PROVE  StandInv'
<1>1. PICK n \in Nat : AtRound(n)
  BY DEF StandInv, Pend
<1>2. Stock(n) /\ Course(n) /\ Lightest /\ (promise <=> ExactPromise)
  BY <1>1 DEF AtRound, StandInv, Pend
<1>3. /\ UNCHANGED <<graph, group, promise, alive>> /\ pc' \in {"done", "settle"}
      /\ frontier' \subseteq frontier \union arrived
  BY DEF Pend, inputs
<1>4. Lightest' /\ (promise' <=> ExactPromise') /\ ~Merging' /\ ~Reading'
  BY <1>2, <1>3, LightestForm, StandKept
<1>5. \A p \in arrived : Backed(n, p)
  BY <1>2, AnyRounds DEF Course
<1>6. \A p \in frontier' : Backed(n, p)
  BY <1>2, <1>3, <1>5 DEF Stock
<1>7. \A p \in frontier' : Backed(n, p)'
  BY <1>3, <1>6, StandSteady
<1>8. Stock(n)'
  BY <1>4, <1>7 DEF Stock, Parted
<1>9. AtRound(n)'
  BY <1>3, <1>8 DEF AtRound
<1> QED
  BY <1>3, <1>4, <1>9 DEF StandInv

\* A walk goes on by an edge that the group crosses to a node it has not visited.
LEMMA WalkMore ==
    ASSUME TypeOK, NEW k \in Nat, NEW r \in WalksOf(k), NEW al \in group.alts, Len(al) = 1,
           NEW e \in graph, e.from = EndOf(r), Crosses(al[1], e.label), e.to \notin Visited(r),
           Affords(AsPath(r), e)
    PROVE  Append(r, e) \in WalksOf(k + 1)
<1>1. PICK j \in Nat : j = 0
  OBVIOUS
<1>2. PICK s : s = <<>>
  OBVIOUS
<1>3. Legs(r, al, 0) = {<<>>} /\ r \o <<>> = r
  BY FirstLeg
<1>4. s \in Legs(r, al, j) /\ r \o s = r /\ j < Len(al) /\ j + 1 = 1 /\ j + 1 = Len(al)
  BY <1>1, <1>2, <1>3
<1>5. AsPath(r).node = EndOf(r) /\ AsPath(r).ground = Visited(r)
  BY DEF AsPath
<1>6. e \in Selected(AsPath(r \o s), al[j + 1]) /\ e.to \notin AsPath(r \o s).ground
      /\ Affords(AsPath(r \o s), e)
  BY <1>4, <1>5 DEF Selected
<1>7. Append(s, e) \in Legs(r, al, j + 1) /\ r \o Append(s, e) = Append(r \o s, e)
  <2>1. s \in Legs(r, al, j) /\ j < Len(al)
    BY <1>4
  <2> QED
    BY <1>6, <2>1, LegMore
<1>8. PICK t : t = Append(s, e)
  OBVIOUS
<1>9. t \in Legs(r, al, Len(al)) /\ r \o t = Append(r, e)
  BY <1>4, <1>7, <1>8
<1>10. r \o t \in WalksOf(k + 1)
  BY <1>9, Arrives
<1> QED
  BY <1>9, <1>10

\* What the end of a round makes of an arrival: the same path, or the one of its position.
MadeOf(p, x) == /\ p.node = x.node /\ p.edge = x.edge /\ p.total = x.total /\ x.ground \subseteq p.ground
                /\ ~Merging => p = x
                /\ \A v \in p.ground : \E y \in arrived :
                      y.node = x.node /\ y.edge = x.edge /\ v \in y.ground /\ y.ground \subseteq p.ground
MakesOf(M) == \A p \in frontier' : \E x \in arrived : p = M[x] /\ MadeOf(p, x)

\* The end of a round makes one path of each arrival, or none.
LEMMA MergesInto ==
    ASSUME TypeOK, ~SetWalk, EndRound
    PROVE  \E M : MakesOf(M)
<1>1. PICK S \in OnePerKey(arrived) :
        frontier' = IF Merging /\ alive' /\ promise' THEN MergeByPosition(S) ELSE S
  <2>1. frontier' \in {IF NodeLevel /\ ~Budgeted /\ alive' /\ promise'
                       THEN MergeByPosition(S) ELSE S : S \in OnePerKey(arrived)}
    BY DEF EndRound
  <2>2. PICK S \in OnePerKey(arrived) :
        frontier' = IF NodeLevel /\ ~Budgeted /\ alive' /\ promise' THEN MergeByPosition(S) ELSE S
    BY <2>1
  <2> QED
    BY <2>2 DEF Merging
<1>2. S \subseteq arrived /\ S \subseteq PathType
  BY OnePerKeyType DEF TypeOK
<1>3. CASE ~(Merging /\ alive' /\ promise')
  <2> DEFINE M == [x \in arrived |-> x]
  <2>1. \A x \in arrived : M[x] = x
    OBVIOUS
  <2>2. frontier' = S
    BY <1>1, <1>3
  <2> HIDE DEF M
  <2>3. ASSUME NEW x \in arrived PROVE MadeOf(M[x], x)
    BY <2>1 DEF MadeOf
  <2>4. MakesOf(M)
    BY <1>2, <2>1, <2>2, <2>3 DEF MakesOf
  <2> QED
    BY <2>4
<1>4. CASE Merging /\ alive' /\ promise'
  <2> DEFINE G(x) == UNION {q.ground : q \in {r \in S : r.node = x.node /\ r.edge = x.edge}}
             M == [x \in arrived |-> [node |-> x.node, ground |-> G(x), edge |-> x.edge, total |-> x.total]]
  <2>1. \A x \in arrived : /\ M[x].node = x.node /\ M[x].ground = G(x) /\ M[x].edge = x.edge
                           /\ M[x].total = x.total
    OBVIOUS
  <2>2. frontier' = {[p EXCEPT !.ground = G(p)] : p \in S}
    BY <1>1, <1>4 DEF MergeByPosition
  <2>3. \A p \in S : [p EXCEPT !.ground = G(p)] = M[p]
    <3> SUFFICES ASSUME NEW p \in S PROVE [p EXCEPT !.ground = G(p)] = M[p]
      OBVIOUS
    <3>1. p \in PathType /\ p \in arrived
      BY <1>2
    <3>2. M[p] = [node |-> p.node, ground |-> G(p), edge |-> p.edge, total |-> p.total]
      BY <3>1
    <3> HIDE DEF M, G
    <3> QED
      BY <3>1, <3>2 DEF PathType
  <2>4. \A p \in frontier' : \E x \in S : p = M[x]
    <3> SUFFICES ASSUME NEW p \in frontier' PROVE \E x \in S : p = M[x]
      OBVIOUS
    <3> HIDE DEF M, G
    <3>1. PICK x \in S : p = [x EXCEPT !.ground = G(x)]
      BY <2>2
    <3> QED
      BY <2>3, <3>1
  <2>5. \A x \in arrived : \A v \in G(x) : \E y \in arrived :
          y.node = x.node /\ y.edge = x.edge /\ v \in y.ground /\ y.ground \subseteq G(x)
    BY <1>2
  <2>6. \A x \in S : x.ground \subseteq G(x)
    OBVIOUS
  <2> HIDE DEF M, G
  <2>7. ASSUME NEW x \in S PROVE MadeOf(M[x], x)
    BY <1>2, <1>4, <2>1, <2>5, <2>6 DEF MadeOf
  <2> QED
    BY <1>2, <2>4, <2>7 DEF MakesOf
<1> QED
  BY <1>3, <1>4

\* What the arrivals are backed by, so is what is made of them: without a budget the walks
\* weigh nothing.
LEMMA MadeBacked ==
    ASSUME TypeOK, NEW n \in Nat, \A y \in arrived : Backed(n, y), NEW x \in arrived, NEW p, MadeOf(p, x)
    PROVE  Backed(n, p)
<1>1. CASE ~Merging
  BY <1>1 DEF MadeOf
<1>2. CASE Merging
  <2>1. ~Budgeted
    BY <1>2 DEF Merging
  <2>2. \A k \in Nat : \A r \in WalksOf(k) : AsPath(r).total = 0
    <3> SUFFICES ASSUME NEW k \in Nat, NEW r \in WalksOf(k) PROVE AsPath(r).total = 0
      OBVIOUS
    <3>1. r \in Seq(graph)
      BY WalkIs
    <3>2. TotalOf(r) = 0
      BY <2>1, <3>1, Unweighed
    <3> QED
      BY <3>2 DEF AsPath
  <2>3. \A y \in arrived : \A v : Backs(n, y, v) => y.total = 0
    BY <2>2, AfterRounds DEF Backs, Stands
  <2>4. p.node = x.node /\ p.edge = x.edge /\ p.total = 0
    BY <2>3 DEF MadeOf, Backed
  <2> SUFFICES ASSUME NEW v \in p.ground \union {p.node} PROVE Backs(n, p, v)
    BY DEF Backed
  <2>5. PICK y \in arrived : /\ y.node = x.node /\ y.edge = x.edge /\ y.ground \subseteq p.ground
                             /\ v \in y.ground \union {y.node}
    BY <2>4 DEF MadeOf
  <2>6. Backs(n, y, v)
    BY <2>5 DEF Backed
  <2>7. PICK k \in After(n) : \E r \in WalksOf(k) : Stands(r, y) /\ v \in Visited(r) /\ Keeps(r, y)
    BY <2>6 DEF Backs
  <2>8. PICK r \in WalksOf(k) : Stands(r, y) /\ v \in Visited(r) /\ Keeps(r, y)
    BY <2>7
  <2>9. Stands(r, p)
    BY <1>2, <2>3, <2>4, <2>5, <2>6, <2>8 DEF Stands
  <2>10. Keeps(r, p)
    BY <2>4, <2>5, <2>8 DEF Keeps, Promises
  <2> QED
    BY <2>7, <2>8, <2>9, <2>10 DEF Backs
<1> QED
  BY <1>1, <1>2

\* Sequences that end alike are alike.
LEMMA EndAlike ==
    ASSUME NEW q \in Seq(graph), NEW r \in Seq(graph), NEW e \in graph, NEW g \in graph,
           Append(q, e) = Append(r, g)
    PROVE  q = r /\ e = g
<1>1. /\ Len(q) \in Nat /\ Len(r) \in Nat /\ Len(Append(q, e)) = Len(q) + 1 /\ Len(Append(r, g)) = Len(r) + 1
      /\ Append(q, e)[Len(q) + 1] = e /\ Append(r, g)[Len(r) + 1] = g
      /\ \A i \in 1..Len(q) : Append(q, e)[i] = q[i]
      /\ \A i \in 1..Len(r) : Append(r, g)[i] = r[i]
  BY RouteOn
<1>2. Len(q) = Len(r) /\ \A i \in 1..Len(q) : q[i] = r[i]
  BY <1>1
<1> QED
  BY <1>1, <1>2, SeqEqual

\* Where every path held had a walk of its own and what arrived comes of those, what is made
\* of it has.
Parts(n, own) == /\ own \in [frontier' -> WalksOf(n)]
                 /\ \A p \in frontier' : Stands(own[p], p)
                 /\ \A p, q \in frontier' : own[p] = own[q] => p = q
\* The walks of what is made are found by the hops its paths came by.
LEMMA PartedOn ==
    ASSUME TypeOK, ~SetWalk, NEW n \in Nat, Merging, SingleHops,
           NEW own \in [frontier -> WalksOf(n)], Owned(own),
           \A x \in arrived : Comes(x), NEW M, MakesOf(M)
    PROVE  \E own2 : Parts(n + 1, own2)
<1> DEFINE X(p) == CHOOSE x \in arrived : p = M[x] /\ MadeOf(p, x)
           Q(p) == CHOOSE q \in frontier : \E e \in graph : Follows(X(p), q, e)
           E(p) == CHOOSE e \in graph : Follows(X(p), Q(p), e)
           own2 == [p \in frontier' |-> Append(own[Q(p)], E(p))]
<1>1. \A p \in frontier' : X(p) \in arrived /\ p = M[X(p)] /\ MadeOf(p, X(p))
  BY DEF MakesOf
<1> HIDE DEF X
<1>2. \A p \in frontier' : Q(p) \in frontier /\ \E e \in graph : Follows(X(p), Q(p), e)
  BY <1>1 DEF Comes
<1> HIDE DEF Q
<1>3. \A p \in frontier' : E(p) \in graph /\ Follows(X(p), Q(p), E(p))
  BY <1>2
<1> HIDE DEF E
<1>4. \A p \in frontier' : own2[p] = Append(own[Q(p)], E(p))
  OBVIOUS
<1>5. ASSUME NEW p \in frontier' PROVE own2[p] \in WalksOf(n + 1) /\ Stands(own2[p], p)
  <2>1. PICK q \in frontier : q = Q(p)
    BY <1>2
  <2>2. PICK e \in graph : e = E(p)
    BY <1>3
  <2>3. PICK r \in WalksOf(n) : r = own[q]
    OBVIOUS
  <2>4. own2[p] = Append(r, e)
    BY <1>4, <2>1, <2>2, <2>3
  <2>5. Stands(r, q) /\ q \in PathType /\ r \in Seq(graph)
    BY <2>3, WalkIs DEF Owned, TypeOK
  <2>6. /\ e.from = q.node /\ e.to \notin q.ground /\ Affords(q, e) /\ X(p) = Extended(q, e)
        /\ \E al \in group.alts : Crosses(al[1], e.label)
    BY <1>3, <2>1, <2>2 DEF Follows
  <2>7. PICK al \in group.alts : Crosses(al[1], e.label)
    BY <2>6
  <2>8. /\ AsPath(r).node = EndOf(r) /\ AsPath(r).node = q.node /\ AsPath(r).total = q.total
        /\ Visited(r) \subseteq q.ground
    BY <2>5 DEF AsPath, Stands
  <2>9. e.from = EndOf(r) /\ e.to \notin Visited(r) /\ Affords(AsPath(r), e)
    BY <2>6, <2>8 DEF Affords
  <2>10. Len(al) = 1
    BY DEF SingleHops
  <2>11. Append(r, e) \in WalksOf(n + 1)
    BY <2>7, <2>9, <2>10, WalkMore
  <2>12. Stands(Append(r, e), X(p))
    BY <2>5, <2>6, LegStands
  <2>13. Stands(Append(r, e), p)
    BY <1>1, <2>12 DEF Stands, MadeOf
  <2> QED
    BY <2>4, <2>11, <2>13
<1>6. ASSUME NEW p \in frontier', NEW z \in frontier', own2[p] = own2[z] PROVE p = z
  <2>1. /\ own[Q(p)] \in Seq(graph) /\ own[Q(z)] \in Seq(graph) /\ E(p) \in graph /\ E(z) \in graph
        /\ Append(own[Q(p)], E(p)) = Append(own[Q(z)], E(z))
    BY <1>2, <1>3, <1>4, <1>6, WalkIs
  <2>2. own[Q(p)] = own[Q(z)] /\ E(p) = E(z)
    <3>1. PICK a \in Seq(graph) : a = own[Q(p)]
      BY <2>1
    <3>2. PICK b \in Seq(graph) : b = own[Q(z)]
      BY <2>1
    <3>3. PICK e \in graph : e = E(p)
      BY <2>1
    <3>4. PICK g \in graph : g = E(z)
      BY <2>1
    <3>5. Append(a, e) = Append(b, g)
      BY <2>1, <3>1, <3>2, <3>3, <3>4
    <3>6. a = b /\ e = g
      BY <3>5, EndAlike
    <3> QED
      BY <3>1, <3>2, <3>3, <3>4, <3>6
  <2>3. Q(p) = Q(z)
    BY <1>2, <2>2 DEF Owned
  <2>4. X(p) = X(z)
    BY <1>3, <2>2, <2>3 DEF Follows
  <2> QED
    BY <1>1, <2>4
<1>7. own2 \in [frontier' -> WalksOf(n + 1)]
  BY <1>5
<1> HIDE DEF own2
<1>8. Parts(n + 1, own2)
  BY <1>5, <1>6, <1>7 DEF Parts
<1> QED
  BY <1>8

\* The end of a round.
LEMMA EndRoundStands ==
    ASSUME TypeOK, ~SetWalk, StandInv, EndRound
    PROVE  StandInv'
<1>1. PICK n \in Nat : AtRound(n)
  BY DEF StandInv, EndRound
<1>2. ~Lightest /\ Stock(n) /\ Course(n) /\ (promise => alive)
  BY <1>1 DEF AtRound, StandInv, EndRound
<1>3. /\ UNCHANGED <<graph, group, count>> /\ alive' = (alive /\ Held)
      /\ promise' = IF alive THEN Held /\ (promise \/ arrived # {}) ELSE promise
      /\ pc' \in {"done", "reach", "round"}
      /\ pc' = "round" => pc' = NextRound(count, frontier')
  BY NextRoundType DEF EndRound, inputs
<1>4. alive' => alive /\ Held
  BY <1>3
<1>5. promise' => alive'
  <2>1. CASE alive
    BY <1>3, <2>1
  <2>2. CASE ~alive
    BY <1>2, <1>3, <2>2
  <2> QED
    BY <2>1, <2>2
<1>6. /\ (SetWalk' <=> SetWalk) /\ (Lightest' <=> Lightest) /\ (SingleHops' <=> SingleHops)
      /\ (Merging' <=> Merging) /\ Ceiling' = Ceiling /\ (Open' <=> Open)
  BY <1>3, GoalSteady DEF SetWalk, NodeLevel, Lightest, Budgeted, SingleHops
<1>7. PICK M : MakesOf(M)
  BY MergesInto
<1>8. \A p \in frontier' : Backed(n + 1, p)'
  <2>1. \A y \in arrived : Backed(n + 1, y)
    BY <1>2 DEF Course
  <2>2. \A p \in frontier' : \E x \in arrived : MadeOf(p, x)
    BY <1>7 DEF MakesOf
  <2>3. \A p \in frontier' : Backed(n + 1, p)
    BY <2>1, <2>2, MadeBacked
  <2> QED
    BY <1>3, <1>4, <2>3, StandSteady
<1>9. Reading' => \A p \in frontier' : Promises(p)'
  <2>1. Reading' => Held
    BY <1>4 DEF Reading
  <2>2. \A p \in frontier' : \E x \in arrived : p.edge = x.edge
    BY <1>7 DEF MakesOf, MadeOf
  <2> QED
    BY <2>1, <2>2 DEF Promises, Held
<1>10. Parted(n + 1)'
  <2> SUFFICES ASSUME Merging', SingleHops' PROVE \E own \in [frontier -> WalksOf(n + 1)]' : Owned(own)'
    BY DEF Parted
  <2>1. Merging /\ SingleHops
    BY <1>6
  <2>2. PICK own \in [frontier -> WalksOf(n)] : Owned(own)
    BY <1>2, <2>1 DEF Stock, Parted
  <2>3. \A x \in arrived : Comes(x)
    BY <1>2, <2>1 DEF Course
  <2>4. PICK own2 : Parts(n + 1, own2)
    BY <1>7, <2>1, <2>2, <2>3, PartedOn
  <2>5. WalksOf(n + 1)' = WalksOf(n + 1)
    BY <1>3, WaveSteady
  <2>6. \A r, p : Stands(r, p)' <=> Stands(r, p)
    BY <1>3, <1>6, RoutesSteady DEF Stands
  <2>7. own2 \in [frontier -> WalksOf(n + 1)]' /\ Owned(own2)'
    BY <2>4, <2>5, <2>6 DEF Parts, Owned
  <2> QED
    BY <2>7
<1>11. Stock(n + 1)'
  BY <1>8, <1>9, <1>10 DEF Stock
<1>12. CASE pc' = "round"
  <2>1. count' = n + 1 /\ n + 1 \in Nat
    BY <1>2, <1>3 DEF Course
  <2>2. InBounds(n + 1)'
    BY <1>2, <1>3, <1>6, <1>12, <2>1 DEF NextRound, InBounds
  <2>3. AtRound(n + 1)'
    BY <1>11, <1>12, <2>1, <2>2 DEF AtRound
  <2> QED
    BY <1>2, <1>5, <1>6, <1>12, <2>1, <2>3 DEF StandInv
<1> QED
  BY <1>2, <1>3, <1>5, <1>6, <1>12 DEF StandInv

\* The anchor stands before the first round.
LEMMA StartStands ==
    ASSUME TypeOK, Init
    PROVE  StandInv
<1>1. /\ pc = "entry" /\ count = 0 /\ frontier = {Anchor} /\ arrived = {}
      /\ (promise <=> ExactPromise) /\ (alive <=> ~SetWalk)
  BY DEF Init
<1> SUFFICES ASSUME ~SetWalk PROVE \E n \in Nat : AtRound(n)
  BY <1>1 DEF StandInv
<1>2. PICK n \in Nat : n = 0
  OBVIOUS
<1>3. \A p \in frontier : Backed(n, p)
  BY <1>1, <1>2, AnchorBacked
<1>4. \A p \in frontier : Promises(p)
  BY <1>1 DEF Promises, Anchor
<1>5. Parted(n)
  <2> DEFINE own == [p \in frontier |-> <<>>]
  <2>1. \A p \in frontier : p = Anchor /\ own[p] = <<>>
    BY <1>1
  <2>2. own \in [frontier -> WalksOf(n)]
    BY <1>2, AnchorStands
  <2> HIDE DEF own
  <2>3. Owned(own)
    BY <2>1, AnchorStands DEF Owned
  <2> QED
    BY <2>2, <2>3 DEF Parted
<1>6. Stock(n)
  BY <1>3, <1>4, <1>5 DEF Stock
<1> QED
  BY <1>1, <1>2, <1>6 DEF AtRound

\* Nothing that does not happen takes it away.
LEMMA StillStands ==
    ASSUME TypeOK, StandInv, UNCHANGED vars
    PROVE  StandInv'
<1>1. UNCHANGED <<graph, group, pc, count, frontier, flight, arrived, promise, alive>>
  BY DEF vars, inputs
<1>2. \A n : Stock(n) => Stock(n)'
  BY <1>1, StandSteady
<1>3. /\ (SetWalk' <=> SetWalk) /\ (Lightest' <=> Lightest) /\ (SingleHops' <=> SingleHops)
      /\ \A n : InBounds(n)' <=> InBounds(n)
      /\ (promise' <=> ExactPromise') <=> (promise <=> ExactPromise)
      /\ (promise' => alive') <=> (promise => alive)
  BY <1>1, StandKept
<1>4. \A n : Course(n) => Course(n)'
  <2> SUFFICES ASSUME NEW n, Course(n) PROVE Course(n)'
    OBVIOUS
  <2>1. \A f \in flight : Aloft(n, f)'
    BY <1>1, StandSteady DEF Course
  <2>2. \A p \in arrived : Backed(n + 1, p)'
    BY <1>1, StandSteady DEF Course
  <2>3. SingleHops /\ ~Lightest => \A p \in arrived : Comes(p)'
    BY <1>1, StandSteady DEF Course
  <2> QED
    BY <1>1, <1>3, <2>1, <2>2, <2>3 DEF Course
<1>5. \A n : AtRound(n) => AtRound(n)'
  BY <1>1, <1>2, <1>3, <1>4 DEF AtRound
<1> QED
  BY <1>1, <1>3, <1>5 DEF StandInv

\* Every step keeps what is held backed.
LEMMA StandStep ==
    ASSUME TypeOK, StandInv, [Next]_vars
    PROVE  StandInv'
<1>1. graph' = graph /\ group' = group
  BY InputsStay
<1>2. SetWalk' <=> SetWalk
  BY <1>1 DEF SetWalk, NodeLevel, Budgeted
<1>3. CASE SetWalk
  BY <1>2, <1>3 DEF StandInv
<1>4. CASE ~SetWalk
  <2>1. CASE Reach
    BY <2>1 DEF Reach, StandInv
  <2>2. CASE Settled
    <3>1. pc' = "reach" /\ UNCHANGED <<promise, alive>> /\ pc = "settle"
      BY <2>2 DEF Settled
    <3>2. IF Lightest THEN promise <=> ExactPromise ELSE promise => alive
      BY <1>4, <3>1 DEF StandInv
    <3>3. IF Lightest' THEN promise' <=> ExactPromise' ELSE promise' => alive'
      BY <1>1, <3>1, <3>2, StandKept
    <3> QED
      BY <3>1, <3>3 DEF StandInv
  <2>3. CASE Terminated \/ UNCHANGED vars
    BY <2>3, StillStands DEF Terminated
  <2> QED
    BY <1>4, <2>1, <2>2, <2>3, EntryStands, RoundStands, HopStands, EndRoundStands, SettleStands,
       PendStands DEF Next
<1> QED
  BY <1>3, <1>4

\* ... in every reachable state.
LEMMA StandAlways == Spec => [](TypeOK /\ StandInv)
<1>1. TypeOK /\ Init => StandInv
  BY StartStands
<1>2. TypeOK /\ StandInv /\ [Next]_vars => StandInv'
  BY StandStep
<1> QED
  BY <1>1, <1>2, TypeCorrect, PTL DEF Spec

-----------------------------------------------------------------------------
\* What sets out over single hops has a walk for every node it blocks.
LEMMA AloftBacked ==
    ASSUME TypeOK, SingleHops, NEW n \in Nat, NEW f, Aloft(n, f)
    PROVE  /\ Backed(n, f.path)
           /\ f.rest \in group.alts /\ Len(f.rest) = 1 /\ Head(f.rest) = f.rest[1]
<1>1. ASSUME NEW v \in f.path.ground \union {f.path.node}
      PROVE  Backs(n, f.path, v) /\ f.rest \in group.alts
  <2>1. PICK k \in After(n) : \E q \in WalksOf(k) : \E al \in group.alts : \E j \in Nat :
          \E s \in Legs(q, al, j) : Bears(f, v, q, al, j, s)
    BY DEF Aloft, Borne
  <2>2. PICK q \in WalksOf(k) : \E al \in group.alts : \E j \in Nat :
          \E s \in Legs(q, al, j) : Bears(f, v, q, al, j, s)
    BY <2>1
  <2>3. PICK al \in group.alts : \E j \in Nat : \E s \in Legs(q, al, j) : Bears(f, v, q, al, j, s)
    BY <2>2
  <2>4. PICK j \in Nat : \E s \in Legs(q, al, j) : Bears(f, v, q, al, j, s)
    BY <2>3
  <2>5. PICK s \in Legs(q, al, j) :
          /\ j < Len(al) /\ f.rest = SubSeq(al, j + 1, Len(al))
          /\ Stands(q \o s, f.path) /\ v \in Visited(q \o s) /\ Keeps(q \o s, f.path)
    BY <2>4 DEF Bears
  <2>6. k \in Nat
    BY <2>1, AfterRounds
  <2>7. Legs(q, al, 0) = {<<>>} /\ SubSeq(al, 0 + 1, Len(al)) = al /\ q \o <<>> = q
    BY <2>2, <2>6, FirstLeg
  <2>8. j = 0
    <3>1. Len(al) = 1
      BY DEF SingleHops
    <3>2. j < Len(al)
      BY <2>5
    <3> QED
      BY <3>1, <3>2
  <2>9. s = <<>> /\ f.rest = al
    BY <2>5, <2>7, <2>8
  <2>10. q \o s = q
    BY <2>7, <2>9
  <2> QED
    BY <2>1, <2>5, <2>9, <2>10 DEF Backs
<1>2. f.rest \in group.alts
  BY <1>1
<1>3. Len(f.rest) = 1 /\ f.rest \in Seq(Hop1)
  BY <1>2, InputTypes DEF SingleHops
<1> QED
  BY <1>1, <1>2, <1>3 DEF Backed

\* A walk for a node of a path.
Backer(n, p, v, k, r) == /\ Stands(r, p) /\ v \in Visited(r) /\ Keeps(r, p)
                         /\ EndOf(r) = p.node /\ r \in AllWalks
                         /\ ~Lightest => k = n
\* It is the walk that backs it.
LEMMA BackedBy ==
    ASSUME TypeOK, NEW n \in Nat, NEW p, Backed(n, p), NEW v, v \in p.ground \union {p.node}
    PROVE  \E k \in Nat : \E r \in WalksOf(k) : Backer(n, p, v, k, r)
<1>1. PICK k \in After(n) : \E r \in WalksOf(k) : Stands(r, p) /\ v \in Visited(r) /\ Keeps(r, p)
  BY DEF Backed, Backs
<1>2. PICK r \in WalksOf(k) : Stands(r, p) /\ v \in Visited(r) /\ Keeps(r, p)
  BY <1>1
<1>3. k \in Nat /\ (~Lightest => k = n)
  BY <1>1, AfterRounds DEF After
<1>4. EndOf(r) = p.node
  BY <1>2 DEF Stands, AsPath
<1>5. r \in AllWalks
  BY <1>2, <1>3, SomeRounds
<1> QED
  BY <1>2, <1>3, <1>4, <1>5 DEF Backer

\* Hops by promised labels alone make walks of promised edges alone.
LEMMA ExactKept ==
    ASSUME TypeOK, SingleHops, ExactPromise
    PROVE  \A k \in Nat : \A r \in WalksOf(k) : Kept(r)
<1> DEFINE S == {k \in Nat : \A r \in WalksOf(k) : Kept(r)}
<1>1. 0 \in S
  <2>1. \A r \in WalksOf(0) : r = <<>>
    BY WalksGoOn
  <2> QED
    BY <2>1 DEF Kept
<1>2. ASSUME NEW k \in Nat, k \in S PROVE k + 1 \in S
  <2> SUFFICES ASSUME NEW r \in WalksOf(k + 1) PROVE Kept(r)
    OBVIOUS
  <2>1. PICK q \in WalksOf(k) : \E al \in group.alts : \E s \in Legs(q, al, Len(al)) : r = q \o s
    BY ComesOf
  <2>2. PICK al \in group.alts : \E s \in Legs(q, al, Len(al)) : r = q \o s
    BY <2>1
  <2>3. PICK s \in Legs(q, al, Len(al)) : r = q \o s
    BY <2>2
  <2>4. q \in Seq(graph) /\ s \in Seq(graph) /\ Len(s) = Len(al)
    BY <2>3, Arrives
  <2>5. Len(al) = 1 /\ al \in Seq(Hop1)
    BY InputTypes DEF SingleHops
  <2>6. Kept(q)
    BY <1>2
  <2>7. s[1].label \in Promised
    <3>1. Crosses(al[1], s[1].label)
      BY <2>3, <2>5 DEF Legs
    <3>2. 1 \in DOMAIN al
      BY <2>5
    <3>3. al[1] \in Promised
      BY <3>2 DEF ExactPromise
    <3>4. Star \notin Promised
      BY NodesAssumption, BoundsAssumption
    <3> QED
      BY <3>1, <3>3, <3>4 DEF Crosses
  <2>8. /\ Len(r) = Len(q) + 1 /\ Len(q) \in Nat /\ r \in Seq(graph)
        /\ \A i \in 1..Len(q) + 1 : r[i] = IF i <= Len(q) THEN q[i] ELSE s[i - Len(q)]
    <3>1. /\ q \o s \in Seq(graph) /\ Len(q \o s) = Len(q) + Len(s) /\ Len(q) \in Nat
          /\ \A i \in 1..Len(q) + Len(s) : (q \o s)[i] = IF i <= Len(q) THEN q[i] ELSE s[i - Len(q)]
      BY <2>4, Joined
    <3>2. Len(s) = 1
      BY <2>4, <2>5
    <3> QED
      BY <2>3, <3>1, <3>2
  <2>9. \A i \in 1..Len(q) : q[i].label \in Promised
    BY <2>4, <2>6 DEF Kept
  <2> SUFFICES ASSUME NEW i \in DOMAIN r PROVE r[i].label \in Promised
    BY DEF Kept
  <2>10. i \in 1..Len(q) + 1
    BY <2>8
  <2>11. CASE i <= Len(q)
    BY <2>8, <2>9, <2>10, <2>11
  <2>12. CASE ~(i <= Len(q))
    <3>1. i - Len(q) = 1
      BY <2>8, <2>10, <2>12
    <3> QED
      BY <2>7, <2>8, <2>10, <2>12, <3>1
  <2> QED
    BY <2>11, <2>12
<1> HIDE DEF S
<1>3. \A k \in Nat : k \in S
  BY <1>1, <1>2, Naturally
<1> QED
  BY <1>3 DEF S

\* A hop of a group under an exact promise crosses a promised edge.
LEMMA ExactHop ==
    ASSUME TypeOK, SingleHops, ExactPromise, NEW al \in group.alts, NEW l, Crosses(al[1], l)
    PROVE  l \in Promised
<1>1. Len(al) = 1 /\ al \in Seq(Hop1)
  BY InputTypes DEF SingleHops
<1>2. al[1] \in Promised
  BY <1>1 DEF ExactPromise
<1>3. Star \notin Promised
  BY NodesAssumption, BoundsAssumption
<1> QED
  BY <1>2, <1>3 DEF Crosses

\* A return is one of a walk of promised edges, over a promised one where all hops are.
LEMMA CycleCause ==
    ASSUME TypeOK, StandInv, SpreadInv, LevelInv, SingleHops, pc = "hop", promise,
           NEW f \in flight, Returns(f.path, Head(f.rest))
    PROVE  \E r \in AllWalks : Closes(r, IF ExactPromise THEN Promised ELSE Labels)
<1>1. PICK e \in graph : /\ e.from = f.path.node /\ Crosses(Head(f.rest), e.label)
                         /\ e.to \in f.path.ground
  BY DEF Returns, Selected
<1>2. e.label \in Labels
  BY InputTypes DEF Edges
<1>3. ASSUME NEW r \in AllWalks, f.rest \in group.alts, EndOf(r) = f.path.node, Kept(r), e.to \in Visited(r)
      PROVE  Closes(r, IF ExactPromise THEN Promised ELSE Labels)
  <2>1. f.rest[1] = Head(f.rest)
    BY <1>3, InputTypes
  <2>2. e \in NextEdges(r)
    BY <1>1, <1>3, <2>1 DEF NextEdges
  <2>3. e.label \in IF ExactPromise THEN Promised ELSE Labels
    BY <1>1, <1>2, <1>3, <2>1, ExactHop
  <2>4. \/ e.to = Start
        \/ \E i \in DOMAIN r : r[i].to = e.to
    BY <1>3 DEF Visited
  <2> QED
    BY <1>3, <2>2, <2>3, <2>4 DEF Closes, Kept
<1>4. CASE SetWalk
  <2>1. ExactPromise /\ f.path.ground = {Start}
    BY <1>4 DEF SpreadInv, UnderWay
  <2>2. PICK n \in Nat : Spread(n)
    BY <1>4 DEF LevelInv, ByLevel
  <2>3. f.path \in frontier /\ f.rest \in group.alts
    BY <2>2 DEF Spread
  <2>4. PICK r \in WalksOf(n) : EndOf(r) = f.path.node
    BY <2>2, <2>3 DEF Spread, Stood, Leads
  <2>5. r \in AllWalks /\ Kept(r) /\ Start \in Visited(r)
    BY <2>1, <2>4, SomeRounds, ExactKept DEF Visited
  <2> QED
    BY <1>1, <1>3, <2>1, <2>3, <2>4, <2>5
<1>5. CASE ~SetWalk
  <2>1. PICK n \in Nat : AtRound(n)
    BY <1>5 DEF StandInv
  <2>2. Stock(n) /\ Course(n)
    BY <2>1 DEF AtRound
  <2>3. Aloft(n, f)
    BY <2>2 DEF Course
  <2>4. Backed(n, f.path) /\ f.rest \in group.alts
    BY <2>3, AloftBacked
  <2>5. e.to \in f.path.ground \union {f.path.node} /\ Backed(n, f.path)
    BY <1>1, <2>4
  <2>6. PICK r \in AllWalks :
          Stands(r, f.path) /\ e.to \in Visited(r) /\ Keeps(r, f.path) /\ EndOf(r) = f.path.node
    <3>1. \E k \in Nat : \E r \in WalksOf(k) : Backer(n, f.path, e.to, k, r)
      BY <2>5, BackedBy
    <3> QED
      BY <3>1 DEF Backer
  <2>7. Kept(r)
    <3>1. CASE Lightest
      BY <1>5, <3>1, ExactKept, SomeRounds DEF StandInv
    <3>2. CASE ~Lightest
      <4>1. Reading
        BY <1>5, <3>2 DEF StandInv, Reading
      <4>2. f.path \in frontier
        BY <2>2, <3>2 DEF Course
      <4>3. Promises(f.path)
        BY <2>2, <4>1, <4>2 DEF Stock
      <4> QED
        BY <2>6, <4>1, <4>3 DEF Keeps
    <3> QED
      BY <3>1, <3>2
  <2> QED
    BY <1>3, <2>4, <2>6, <2>7
<1> QED
  BY <1>4, <1>5

\* An edge that weighs twice, or less than nothing, is one from the end of a walk.
LEMMA WeightCause ==
    ASSUME TypeOK, StandInv, pc = "hop", NEW f \in flight, IllWeighed(f.path, Head(f.rest))
    PROVE  \E r \in AllWalks : \E e \in graph :
              e.from = EndOf(r) /\ (Len(Weight[e.label]) > 1 \/ Adds(e) < 0)
<1>1. Budgeted
  BY DEF IllWeighed
<1>2. ~SetWalk /\ SingleHops
  BY <1>1, BudgetedForm DEF SingleHops
<1>3. PICK n \in Nat : AtRound(n)
  BY <1>2 DEF StandInv
<1>4. Aloft(n, f)
  BY <1>3 DEF AtRound, Course
<1>5. Backed(n, f.path)
  BY <1>2, <1>4, AloftBacked
<1>6. PICK r \in AllWalks : EndOf(r) = f.path.node
  <2>1. f.path.node \in f.path.ground \union {f.path.node}
    OBVIOUS
  <2>2. \E k \in Nat : \E r \in WalksOf(k) : Backer(n, f.path, f.path.node, k, r)
    BY <1>5, <2>1, BackedBy
  <2> QED
    BY <2>2 DEF Backer
<1>7. PICK e \in graph : e.from = f.path.node /\ (Len(Weight[e.label]) > 1 \/ Adds(e) < 0)
  BY DEF IllWeighed, Selected
<1> QED
  BY <1>6, <1>7

\* The probe finds a path only where a walk is longer than the bound.
LEMMA OpenCause ==
    ASSUME TypeOK, StandInv, EndRound, Open, count > Ceiling, frontier' # {}
    PROVE  Longest > QuantifierBound /\ Walks[QuantifierBound + 1] # {}
<1>1. ~SetWalk /\ ~Lightest /\ group.max = None /\ Ceiling = QuantifierBound
  BY DEF Open, Ceiling, EndRound
<1>2. PICK n \in Nat : AtRound(n)
  BY <1>1 DEF StandInv, EndRound
<1>3. Course(n) /\ count = n + 1 /\ InBounds(n)
  BY <1>1, <1>2 DEF AtRound, Course, EndRound
<1>4. n = QuantifierBound
  BY <1>1, <1>3, BoundsAssumption DEF InBounds
<1>5. PICK M : MakesOf(M)
  BY <1>1, MergesInto
<1>6. PICK x \in arrived : TRUE
  BY <1>5 DEF MakesOf
<1>7. Backed(n + 1, x) /\ n + 1 \in Nat
  BY <1>3 DEF Course
<1>8. x.node \in x.ground \union {x.node}
  OBVIOUS
<1>9. \E k \in Nat : \E r \in WalksOf(k) : Backer(n + 1, x, x.node, k, r)
  BY <1>7, <1>8, BackedBy
<1>10. WalksOf(n + 1) # {}
  BY <1>1, <1>9 DEF Backer
<1>11. n + 1 \in 0..Longest /\ Walks[n + 1] # {}
  BY <1>10 DEF WalksOf
<1>12. Longest \in Int
  BY NodesAssumption, FS_CardinalityType DEF Longest
<1> QED
  BY <1>4, <1>11, <1>12

\* The end of a round holds no more paths than there are walks of as many rounds, where a
\* path has one of its own.
LEMMA RoundCount ==
    ASSUME TypeOK, StandInv, SpreadInv, LevelInv, EndRound, NodeLevel /\ ~Budgeted => SingleHops
    PROVE  IsFiniteSet(frontier') /\ Cardinality(frontier') <= Cardinality(WalksOf(count))
<1>1. count \in Nat /\ IsFiniteSet(WalksOf(count))
  BY WalksFinite DEF TypeOK
<1>2. CASE SetWalk
  <2>1. ByLevel
    BY <1>2, SetForm DEF ByLevel, SetWalk, NodeLevel
  <2>2. PICK n \in Nat : count = n + 1 /\ Spread(n)
    BY <2>1 DEF LevelInv, EndRound
  <2>3. /\ \A p \in frontier' : p \in arrived /\ p.node \notin seen
        /\ \A p, q \in frontier' : p.node = q.node => p = q
    BY <1>2, HeldOn
  <2>4. \A p \in frontier' : \E r \in WalksOf(count) : EndOf(r) = p.node
    BY <2>2, <2>3 DEF Spread, Leads
  <2> QED
    BY <1>1, <2>3, <2>4, CountedNodes
<1>3. CASE ~SetWalk
  <2>1. PICK n \in Nat : AtRound(n)
    BY <1>3 DEF StandInv, EndRound
  <2>2. ~Lightest /\ Stock(n) /\ Course(n) /\ count = n + 1
    BY <2>1 DEF AtRound, Course, EndRound
  <2>3. PICK M : MakesOf(M)
    BY <1>3, MergesInto
  <2>4. CASE Merging
    <3>1. SingleHops
      BY <2>4 DEF Merging
    <3>2. PICK own \in [frontier -> WalksOf(n)] : Owned(own)
      BY <2>2, <2>4, <3>1 DEF Stock, Parted
    <3>3. \A x \in arrived : Comes(x)
      BY <2>2, <3>1 DEF Course
    <3>4. PICK own2 : Parts(n + 1, own2)
      BY <1>3, <2>3, <2>4, <3>1, <3>2, <3>3, PartedOn
    <3>5. own2 \in [frontier' -> WalksOf(count)] /\ \A p, q \in frontier' : own2[p] = own2[q] => p = q
      BY <2>2, <3>4 DEF Parts
    <3> QED
      BY <1>1, <3>5, Counted
  <2>5. CASE ~Merging
    <3>1. \A p \in frontier' : p \in arrived
      BY <2>3, <2>5 DEF MakesOf, MadeOf
    <3>2. \A p \in frontier' : \E r \in WalksOf(count) : AsPath(r) = p
      <4> SUFFICES ASSUME NEW p \in frontier' PROVE \E r \in WalksOf(count) : AsPath(r) = p
        OBVIOUS
      <4>1. Backed(n + 1, p) /\ n + 1 \in Nat /\ p \in PathType /\ p.node \in p.ground \union {p.node}
        BY <2>2, <3>1 DEF Course, TypeOK
      <4>2. \E k \in Nat : \E r \in WalksOf(k) : Backer(n + 1, p, p.node, k, r)
        BY <4>1, BackedBy
      <4>3. PICK r \in WalksOf(count) : Stands(r, p)
        BY <2>2, <4>2 DEF Backer
      <4>4. AsPath(r) = p
        BY <2>5, <4>1, <4>3 DEF Stands, AsPath, PathType
      <4> QED
        BY <4>4
    <3> QED
      BY <1>1, <3>2, CountedPaths
  <2> QED
    BY <2>4, <2>5
<1> QED
  BY <1>2, <1>3

\* What is pending of the lightest walks is no more than the walks.
LEMMA PendCount ==
    ASSUME TypeOK, StandInv, Pend
    PROVE  IsFiniteSet(frontier') /\ Cardinality(frontier') <= Cardinality(AllWalks)
<1>1. Lightest /\ frontier' \subseteq frontier \union arrived
  BY DEF Pend
<1>2. ~SetWalk /\ ~Merging
  BY <1>1, LightestForm
<1>3. PICK n \in Nat : AtRound(n)
  BY <1>2 DEF StandInv, Pend
<1>4. Stock(n) /\ Course(n)
  BY <1>3 DEF AtRound, Pend
<1>5. \A p \in frontier' : Backed(n, p) /\ p \in PathType
  BY <1>1, <1>4, AnyRounds DEF Stock, Course, TypeOK
<1>6. \A p \in frontier' : \E r \in AllWalks : AsPath(r) = p
  <2> SUFFICES ASSUME NEW p \in frontier' PROVE \E r \in AllWalks : AsPath(r) = p
    OBVIOUS
  <2>1. Backed(n, p) /\ p \in PathType /\ p.node \in p.ground \union {p.node}
    BY <1>5
  <2>2. \E k \in Nat : \E r \in WalksOf(k) : Backer(n, p, p.node, k, r)
    BY <2>1, BackedBy
  <2>3. PICK r \in AllWalks : Stands(r, p)
    BY <2>2 DEF Backer
  <2>4. AsPath(r) = p
    BY <1>2, <2>1, <2>3 DEF Stands, AsPath, PathType
  <2> QED
    BY <2>4
<1> QED
  BY <1>6, WalksFinite, CountedPaths

-----------------------------------------------------------------------------
\* The causes are of the inputs.
LEMMA CauseSteady ==
    ASSUME graph' = graph, group' = group
    PROVE  /\ AllWalks' = AllWalks /\ Walks' = Walks /\ Longest' = Longest
           /\ \A r : EndOf(r)' = EndOf(r)
           /\ \A e : Adds(e)' = Adds(e)
           /\ \A r, l : Closes(r, l)' <=> Closes(r, l)
           /\ (SingleHops' <=> SingleHops) /\ (ExactPromise' <=> ExactPromise)
           /\ (NodeLevel' <=> NodeLevel) /\ (Budgeted' <=> Budgeted) /\ (Lightest' <=> Lightest)
<1>1. Walks' = Walks /\ Longest' = Longest
  BY WalksSteady
<1>2. AllWalks' = AllWalks
  BY <1>1 DEF AllWalks
<1>3. \A r : EndOf(r)' = EndOf(r)
  BY RoutesSteady
<1>4. \A r : NextEdges(r)' = NextEdges(r)
  BY <1>3 DEF NextEdges, Crosses
<1>5. \A r, l : Closes(r, l)' <=> Closes(r, l)
  BY <1>4 DEF Closes
<1>6. \A e : Adds(e)' = Adds(e)
  BY DEF Adds, Budgeted
<1>7. /\ (SingleHops' <=> SingleHops) /\ (ExactPromise' <=> ExactPromise)
      /\ (NodeLevel' <=> NodeLevel) /\ (Budgeted' <=> Budgeted) /\ (Lightest' <=> Lightest)
  BY GoalSteady DEF SingleHops, NodeLevel, Budgeted, Lightest
<1> QED
  BY <1>1, <1>2, <1>3, <1>5, <1>6, <1>7

\* A walk is refused when it is done, for a cause.
CauseInv == (refusal # None => pc = "done") /\ RefusedForCause

\* Where there is no refusal, or one of a bound, there is nothing to say.
LEMMA NoCause ==
    ASSUME refusal \in {None, "bound"}
    PROVE  RefusedForCause
BY BoundsAssumption DEF RefusedForCause

\* A hop is refused for a cause.
LEMMA HopCause ==
    ASSUME TypeOK, StandInv, SpreadInv, LevelInv, Hop, refusal' # refusal
    PROVE  pc' = "done" /\ RefusedForCause'
<1>1. Refusals # {} /\ refusal' \in Refusals /\ pc' = "done" /\ graph' = graph /\ group' = group
      /\ pc = "hop"
  BY DEF Hop, inputs
<1>2. PICK f \in flight : \/ refusal' = "cycle" /\ promise /\ Returns(f.path, Head(f.rest))
                          \/ refusal' = "weight" /\ IllWeighed(f.path, Head(f.rest))
  BY <1>1 DEF Refusals
<1>3. CASE refusal' = "cycle" /\ promise /\ Returns(f.path, Head(f.rest))
  <2>1. SingleHops => \E r \in AllWalks : Closes(r, IF ExactPromise THEN Promised ELSE Labels)
    BY <1>1, <1>3, CycleCause
  <2> QED
    BY <1>1, <1>3, <2>1, CauseSteady DEF RefusedForCause
<1>4. CASE refusal' = "weight" /\ IllWeighed(f.path, Head(f.rest))
  <2>1. \E r \in AllWalks : \E e \in graph : e.from = EndOf(r) /\ (Len(Weight[e.label]) > 1 \/ Adds(e) < 0)
    BY <1>1, <1>4, WeightCause
  <2>2. \E r \in AllWalks' : \E e \in graph' : e.from = EndOf(r)' /\ (Len(Weight[e.label]) > 1 \/ Adds(e)' < 0)
    BY <1>1, <2>1, CauseSteady
  <2> QED
    BY <1>1, <1>4, <2>2 DEF RefusedForCause
<1> QED
  BY <1>2, <1>3, <1>4

\* ... and a round,
LEMMA RoundCause ==
    ASSUME TypeOK, StandInv, SpreadInv, LevelInv, EndRound, refusal' # refusal
    PROVE  pc' = "done" /\ RefusedForCause'
<1>1. graph' = graph /\ group' = group /\ count' = count /\ ~Lightest
  BY DEF EndRound, inputs
<1>2. CASE refusal' = "open"
  <2>1. Open /\ count > Ceiling /\ frontier' # {} /\ pc' = "done"
    BY <1>2 DEF EndRound
  <2>2. Longest > QuantifierBound /\ Walks[QuantifierBound + 1] # {}
    BY <2>1, OpenCause
  <2> QED
    BY <1>1, <1>2, <2>1, <2>2, CauseSteady DEF RefusedForCause
<1>3. CASE refusal' = "frontier"
  <2>1. Cardinality(frontier') > FrontierBound /\ pc' = "done"
    BY <1>3 DEF EndRound
  <2>2. ASSUME NodeLevel /\ ~Budgeted => SingleHops PROVE FrontierBound < Cardinality(Walks[count])
    <3>1. IsFiniteSet(frontier') /\ Cardinality(frontier') <= Cardinality(WalksOf(count))
      BY <2>2, RoundCount
    <3>2. count \in Nat /\ IsFiniteSet(WalksOf(count))
      BY WalksFinite DEF TypeOK
    <3>3. Cardinality(frontier') \in Nat /\ Cardinality(WalksOf(count)) \in Nat
      BY <3>1, <3>2, FS_CardinalityType
    <3>4. FrontierBound < Cardinality(WalksOf(count))
      BY <2>1, <3>1, <3>3, BoundsAssumption
    <3>5. Cardinality({}) = 0
      BY FS_EmptySet
    <3>6. WalksOf(count) # {}
      BY <3>4, <3>5, BoundsAssumption
    <3>7. WalksOf(count) = Walks[count]
      BY <3>6 DEF WalksOf
    <3> QED
      BY <3>4, <3>7
  <2> QED
    BY <1>1, <1>3, <2>1, <2>2, CauseSteady DEF RefusedForCause
<1> QED
  BY <1>2, <1>3 DEF EndRound

\* ... and what is pending.
LEMMA PendCause ==
    ASSUME TypeOK, StandInv, Pend, refusal' # refusal
    PROVE  pc' = "done" /\ RefusedForCause'
<1>1. /\ graph' = graph /\ group' = group /\ Lightest
      /\ refusal' = "frontier" /\ pc' = "done" /\ Cardinality(frontier') > FrontierBound
  BY DEF Pend, inputs
<1>2. IsFiniteSet(frontier') /\ Cardinality(frontier') <= Cardinality(AllWalks) /\ IsFiniteSet(AllWalks)
  BY PendCount, WalksFinite
<1>3. Cardinality(frontier') \in Nat /\ Cardinality(AllWalks) \in Nat
  BY <1>2, FS_CardinalityType
<1>4. FrontierBound < Cardinality(AllWalks)
  BY <1>1, <1>2, <1>3, BoundsAssumption
<1> QED
  BY <1>1, <1>4, CauseSteady DEF RefusedForCause

\* Every refusal has its cause.
LEMMA CauseStep ==
    ASSUME TypeOK, StandInv, SpreadInv, LevelInv, CauseInv, [Next]_vars
    PROVE  CauseInv'
<1>1. CASE pc = "done" /\ UNCHANGED vars
  <2>1. graph' = graph /\ group' = group /\ count' = count /\ refusal' = refusal /\ pc' = pc
    BY <1>1 DEF vars, inputs
  <2>2. RefusedForCause'
    BY <2>1, CauseSteady DEF CauseInv, RefusedForCause
  <2> QED
    BY <1>1, <2>1, <2>2 DEF CauseInv
<1>2. CASE pc # "done"
  <2>1. refusal = None
    BY <1>2 DEF CauseInv
  <2>2. CASE refusal' = refusal
    BY <2>1, <2>2, BoundsAssumption DEF CauseInv, RefusedForCause
  <2>3. CASE Entry /\ refusal' # refusal
    BY <2>3, BoundsAssumption DEF Entry, CauseInv, RefusedForCause
  <2>4. CASE refusal' # refusal /\ ~Entry
    <3>1. Hop \/ EndRound \/ Pend
      BY <2>4 DEF Next, Round, Settle, Settled, Reach, Terminated, vars
    <3>2. pc' = "done" /\ RefusedForCause'
      BY <2>4, <3>1, HopCause, RoundCause, PendCause
    <3> QED
      BY <3>2 DEF CauseInv
  <2> QED
    BY <2>2, <2>3, <2>4
<1>3. pc # "done" \/ UNCHANGED vars
  BY DEF Next, Entry, Round, Hop, EndRound, Settle, Pend, Settled, Reach, Terminated
<1> QED
  BY <1>1, <1>2, <1>3

\* A refusal has its cause in the data, for every graph, group, weight and bound: more walks
\* than the frontier bound, a walk longer than the quantifier bound, an edge of two weights or
\* of one less than nothing, a cycle of promised links.
THEOREM EveryRefusalHasCause == Spec => []RefusedForCause
<1>1. Init => CauseInv
  BY NoCause DEF Init, CauseInv
<1>2. TypeOK /\ StandInv /\ SpreadInv /\ LevelInv /\ CauseInv /\ [Next]_vars => CauseInv'
  BY CauseStep
<1>3. CauseInv => RefusedForCause
  BY DEF CauseInv
<1> QED
  BY <1>1, <1>2, <1>3, StandAlways, SpreadAlways, LevelAlways, PTL DEF Spec

-----------------------------------------------------------------------------
(***************************************************************************)
(* The lightest walks: whatever comes to a node that is not spent, a       *)
(* pending path before it is no heavier, while no edge weighs less than    *)
(* nothing.                                                                *)
(***************************************************************************)

\* The walk r is q and one hop more, by e.
HopOff(q, e, r) == /\ r = Append(q, e) /\ e.from = EndOf(q) /\ e.to \notin Visited(q)
                   /\ Affords(AsPath(q), e)
                   /\ \E al \in group.alts : Crosses(al[1], e.label)

\* Every walk of single hops is one of a round less, and a hop.
LEMMA LastHop ==
    ASSUME TypeOK, SingleHops, NEW k \in Nat, NEW r \in WalksOf(k + 1)
    PROVE  \E q \in WalksOf(k) : \E e \in graph : HopOff(q, e, r)
<1>1. PICK q \in WalksOf(k) : \E al \in group.alts : \E s \in Legs(q, al, Len(al)) : r = q \o s
  BY ComesOf
<1>2. PICK al \in group.alts : \E s \in Legs(q, al, Len(al)) : r = q \o s
  BY <1>1
<1>3. PICK t \in Legs(q, al, Len(al)) : r = q \o t
  BY <1>2
<1>4. Len(al) = 1 /\ al \in Seq(Hop1) /\ q \in Seq(graph)
  BY InputTypes, WalkIs DEF SingleHops
<1>5. PICK j \in Nat : j = 0
  OBVIOUS
<1>6. t \in Legs(q, al, j + 1) /\ j < Len(al)
  BY <1>4, <1>5
<1>7. PICK s \in Legs(q, al, j) : \E e \in graph : t = Append(s, e)
  BY <1>4, <1>6, LegBack
<1>8. PICK e \in graph : t = Append(s, e)
  BY <1>7
<1>9. Legs(q, al, 0) = {<<>>} /\ q \o <<>> = q
  BY FirstLeg
<1>10. s = <<>> /\ q \o s = q
  BY <1>5, <1>9
<1>11. q \in Seq(graph) /\ al \in Seq(Hop1) /\ j \in Nat /\ j < Len(al) /\ s \in Legs(q, al, j) /\ e \in graph
  BY <1>4, <1>6
<1>12. /\ q \o Append(s, e) = Append(q \o s, e)
       /\ Append(s, e) \in Legs(q, al, j + 1) =>
             /\ e.from = EndOf(q \o s) /\ Crosses(al[j + 1], e.label)
             /\ e.to \notin Visited(q \o s) /\ Affords(AsPath(q \o s), e)
  BY <1>11, LegOn
<1>13. Append(s, e) \in Legs(q, al, j + 1) /\ j + 1 = 1
  BY <1>5, <1>6, <1>8
<1>14. /\ r = Append(q, e) /\ e.from = EndOf(q) /\ Crosses(al[1], e.label)
       /\ e.to \notin Visited(q) /\ Affords(AsPath(q), e)
  BY <1>3, <1>8, <1>10, <1>12, <1>13
<1> QED
  BY <1>14 DEF HopOff

\* ... that its last edge is of.
LEMMA HopOfWalk ==
    ASSUME TypeOK, SingleHops, NEW r \in AllWalks, NEW e \in graph, Append(r, e) \in AllWalks
    PROVE  HopOff(r, e, Append(r, e)) /\ r \in Seq(graph)
<1>1. PICK m \in Nat : r \in WalksOf(m)
  BY SomeRounds
<1>2. r \in Seq(graph)
  BY <1>1, WalkIs
<1>3. PICK i \in Nat : Append(r, e) \in WalksOf(i)
  BY SomeRounds
<1>4. i # 0
  <2>1. Append(r, e) # <<>>
    BY <1>2, RouteOn
  <2> QED
    BY <1>3, <2>1, WalksGoOn
<1>5. PICK k \in Nat : i = k + 1
  BY <1>4
<1>6. PICK q \in WalksOf(k) : \E g \in graph : HopOff(q, g, Append(r, e))
  BY <1>3, <1>5, LastHop
<1>7. PICK g \in graph : HopOff(q, g, Append(r, e))
  BY <1>6
<1>8. q \in Seq(graph) /\ Append(q, g) = Append(r, e)
  BY <1>7, WalkIs DEF HopOff
<1>9. q = r /\ g = e
  BY <1>2, <1>8, EndAlike
<1> QED
  BY <1>2, <1>7, <1>9

\* ... and with whichever hop a walk makes another.
LEMMA HopMakes ==
    ASSUME TypeOK, SingleHops, NEW k \in Nat, NEW q \in WalksOf(k), NEW e \in graph,
           HopOff(q, e, Append(q, e))
    PROVE  Append(q, e) \in WalksOf(k + 1) /\ Append(q, e) \in AllWalks
<1>1. PICK al \in group.alts : Crosses(al[1], e.label)
  BY DEF HopOff
<1>2. Len(al) = 1
  BY DEF SingleHops
<1>3. e.from = EndOf(q) /\ e.to \notin Visited(q) /\ Affords(AsPath(q), e)
  BY DEF HopOff
<1>4. Append(q, e) \in WalksOf(k + 1)
  BY <1>1, <1>2, <1>3, WalkMore
<1> QED
  BY <1>4, SomeRounds

-----------------------------------------------------------------------------
\* The lightest walks, unhindered: no predicate asks for the walk, the bound on hops ends none,
\* and no edge crossed weighs less than nothing.
Unhindered ==
    /\ Lightest /\ group.budget.floor = 0 /\ group.labels = Labels
    /\ \A r \in AllWalks : Len(r) <= QuantifierBound /\ \A i \in DOMAIN r : Adds(r[i]) >= 0

\* Their totals are numbers, and not below nothing; they visit a node a hop.
WalkTells(r) == /\ r \in Seq(graph) /\ TotalOf(r) \in Int /\ 0 <= TotalOf(r) /\ Len(r) \in Nat
                /\ IsFiniteSet(Visited(r)) /\ Cardinality(Visited(r)) \in Nat
                /\ Cardinality(Visited(r)) <= Len(r) + 1

\* ... and a hop adds its own weight.
LEMMA HopTells ==
    ASSUME TypeOK, Unhindered, NEW q \in AllWalks, WalkTells(q), NEW e \in graph,
           Append(q, e) \in AllWalks
    PROVE  /\ WalkTells(Append(q, e)) /\ TotalOf(Append(q, e)) = TotalOf(q) + Adds(e)
           /\ Adds(e) \in Int /\ Adds(e) >= 0 /\ EndOf(Append(q, e)) = e.to
<1>1. ~SetWalk /\ SingleHops /\ Budgeted
  BY LightestForm DEF Unhindered, Lightest
<1>2. HopOff(q, e, Append(q, e)) /\ q \in Seq(graph)
  BY <1>1, HopOfWalk
<1>3. /\ Append(q, e) \in Seq(graph) /\ Len(Append(q, e)) = Len(q) + 1 /\ Len(q) \in Nat
      /\ DOMAIN Append(q, e) = 1..Len(q) + 1 /\ Append(q, e)[Len(q) + 1] = e
  BY <1>2, RouteOn
<1>4. Adds(e) >= 0
  <2>1. Len(q) + 1 \in DOMAIN Append(q, e)
    BY <1>3
  <2>2. \A i \in DOMAIN Append(q, e) : Adds(Append(q, e)[i]) >= 0
    BY DEF Unhindered
  <2>3. Adds(Append(q, e)[Len(q) + 1]) >= 0
    BY <2>1, <2>2
  <2> QED
    BY <1>3, <2>3
<1>5. Adds(e) \in Int
  <2>1. e \in Edges /\ Len(Weight[e.label]) = 1
    BY <1>1, <1>2, InputTypes DEF HopOff, Affords
  <2> QED
    BY <2>1, AddsType
<1>6. TotalOf(Append(q, e)) = TotalOf(q) + Adds(e)
  BY <1>2, TotalOn
<1>7. Visited(Append(q, e)) = Visited(q) \union {e.to}
  <2>1. AsPath(Append(q, e)) = Extended(AsPath(q), e)
    BY <1>1, <1>2, PathOn
  <2>2. Extended(AsPath(q), e).ground = AsPath(q).ground \union {e.to}
    BY <1>1 DEF Extended
  <2>3. AsPath(q).ground = Visited(q) /\ AsPath(Append(q, e)).ground = Visited(Append(q, e))
    BY DEF AsPath
  <2> QED
    BY <2>1, <2>2, <2>3
<1>8. /\ IsFiniteSet(Visited(q) \union {e.to})
      /\ Cardinality(Visited(q) \union {e.to}) \in Nat
      /\ Cardinality(Visited(q) \union {e.to}) <= Cardinality(Visited(q)) + 1
  <2>1. /\ IsFiniteSet(Visited(q) \union {e.to})
        /\ Cardinality(Visited(q) \union {e.to})
             = IF e.to \in Visited(q) THEN Cardinality(Visited(q)) ELSE Cardinality(Visited(q)) + 1
    BY FS_AddElement DEF WalkTells
  <2> QED
    BY <2>1 DEF WalkTells
<1>9. WalkTells(Append(q, e))
  BY <1>3, <1>4, <1>5, <1>6, <1>7, <1>8 DEF WalkTells
<1>10. EndOf(Append(q, e)) = e.to
  <2>1. AsPath(Append(q, e)).node = Extended(AsPath(q), e).node
    BY <1>1, <1>2, PathOn
  <2> QED
    BY <2>1 DEF AsPath, Extended
<1> QED
  BY <1>4, <1>5, <1>6, <1>9, <1>10

\* So it is with every walk.
LEMMA TotalsTell ==
    ASSUME TypeOK, Unhindered
    PROVE  \A r \in AllWalks : WalkTells(r)
<1>1. SingleHops
  BY LightestForm DEF Unhindered
<1> DEFINE S == {k \in Nat : \A r \in WalksOf(k) : WalkTells(r)}
<1>2. 0 \in S
  <2>1. \A r \in WalksOf(0) : r = <<>>
    BY WalksGoOn
  <2>2. WalkTells(<<>>)
    <3>1. TotalOf(<<>>) = 0
      BY NoHops DEF AsPath, Anchor
    <3>2. Visited(<<>>) = {Start}
      BY AnchorStands
    <3>3. IsFiniteSet({Start}) /\ Cardinality({Start}) = 1
      BY FS_Singleton
    <3> QED
      BY <3>1, <3>2, <3>3 DEF WalkTells
  <2> QED
    BY <2>1, <2>2
<1>3. ASSUME NEW k \in Nat, k \in S PROVE k + 1 \in S
  <2> SUFFICES ASSUME NEW r \in WalksOf(k + 1) PROVE WalkTells(r)
    OBVIOUS
  <2>1. PICK q \in WalksOf(k) : \E e \in graph : HopOff(q, e, r)
    BY <1>1, LastHop
  <2>2. PICK e \in graph : HopOff(q, e, r)
    BY <2>1
  <2>3. r = Append(q, e)
    BY <2>2 DEF HopOff
  <2>4. q \in AllWalks /\ Append(q, e) \in AllWalks /\ WalkTells(q)
    BY <1>3, <2>3, SomeRounds
  <2> QED
    BY <2>3, <2>4, HopTells
<1> HIDE DEF S
<1>4. \A k \in Nat : k \in S
  BY <1>2, <1>3, Naturally
<1> QED
  BY <1>4, SomeRounds DEF S

(***************************************************************************)
(* What the loop of the lightest walks keeps, of the paths S still         *)
(* pending and the nodes U spent.                                          *)
(***************************************************************************)
\* No walk to v weighs less than t; and one weighs as much.
Best(v, t) == \A o \in AllWalks : EndOf(o) = v => t <= TotalOf(o)
LeastAt(v, t) == /\ \E r \in AllWalks : EndOf(r) = v /\ TotalOf(r) = t
                 /\ Best(v, t)

\* The walk r ends at v and a hop by e takes it to a node that is not spent; a
\* path to that node is pending that is no heavier.
Leaves(v, U, r, e) == EndOf(r) = v /\ Append(r, e) \in AllWalks /\ e.to \notin U
Ahead(S, r, e) == \E p \in S : p.node = e.to /\ p.total <= TotalOf(r) + Adds(e)
Opened(v, S, U) == \A r \in AllWalks, e \in graph : Leaves(v, U, r, e) => Ahead(S, r, e)

\* Every node spent has been opened, and a pending path has come over spent nodes.
Stemmed(S, U) == \A p \in S : p.ground \ {p.node} \subseteq U
Rested(S, U) == Stemmed(S, U) /\ \A v \in U : Opened(v, S, U)

\* ... all but the one the path p, no heavier than any walk there, is at.
Going(p, S, U) == /\ Stemmed(S, U) /\ p.ground \subseteq U /\ p.node \in U
                  /\ Best(p.node, p.total)
                  /\ \A v \in U \ {p.node} : Opened(v, S, U)

\* What is matched so far: the spent nodes that are admitted, with their least totals.
Noted(M, U) == /\ \A m \in M : /\ m.path.node \in U \intersect group.nodes
                               /\ LeastAt(m.path.node, m.path.total)
               /\ \A v \in U \intersect group.nodes : \E m \in M : m.path.node = v

AllSeen(U) == \A r \in AllWalks : EndOf(r) \in U
InRounds == count <= QuantifierBound * FrontierBound
Lightly(A) == {<<m.path.node, m.path.total>> : m \in A} =
                {<<EndOf(r), TotalOf(r)>> : r \in {q \in Found : \A o \in AllWalks :
                    EndOf(o) = EndOf(q) => TotalOf(q) <= TotalOf(o)}}

\* Dijkstra's invariant: the nodes spent have been left by their lightest walks,
\* so that whatever walk comes to a node not spent, a pending path is no heavier.
LightInv ==
    Unhindered =>
      /\ Start \in seen
      /\ pc = "entry" => seen = {Start} /\ matches = {} /\ arrived = {}
      /\ pc # "entry" => Noted(matches, seen)
      /\ pc = "settle" => Rested(frontier, seen)
      /\ pc = "hop" => \/ flight = {} /\ Rested(frontier \union arrived, seen)
                       \/ \E p \in PathType : /\ flight = Into({p}) /\ arrived = {}
                                              /\ Going(p, frontier, seen)
      /\ pc = "reach" /\ InRounds => AllSeen(seen)
      /\ Answered /\ InRounds => Lightly(answer)

-----------------------------------------------------------------------------
\* Where the spent nodes are opened, a walk to another has a pending path before it.
Meets(r, S, U) == EndOf(r) \notin U => \E p \in S : p.node \notin U /\ p.total <= TotalOf(r)

\* By the first of its hops that leaves what is spent, or an earlier walk's.
LEMMA Crossing ==
    ASSUME TypeOK, Unhindered, NEW S \in SUBSET PathType, NEW U, Start \in U,
           \A v \in U : Opened(v, S, U)
    PROVE  \A r \in AllWalks : Meets(r, S, U)
<1>1. SingleHops
  BY LightestForm DEF Unhindered
<1> DEFINE K == {k \in Nat : \A r \in WalksOf(k) : Meets(r, S, U)}
<1>2. 0 \in K
  <2>1. \A r \in WalksOf(0) : r = <<>>
    BY WalksGoOn
  <2>2. EndOf(<<>>) = Start
    BY DEF EndOf
  <2> QED
    BY <2>1, <2>2 DEF Meets
<1>3. ASSUME NEW k \in Nat, k \in K PROVE k + 1 \in K
  <2> SUFFICES ASSUME NEW r \in WalksOf(k + 1) PROVE Meets(r, S, U)
    OBVIOUS
  <2>1. PICK q \in WalksOf(k) : \E e \in graph : HopOff(q, e, r)
    BY <1>1, LastHop
  <2>2. PICK e \in graph : HopOff(q, e, r)
    BY <2>1
  <2>3. r = Append(q, e)
    BY <2>2 DEF HopOff
  <2>4. q \in AllWalks /\ Append(q, e) \in AllWalks /\ Meets(q, S, U)
    BY <1>3, <2>3, SomeRounds
  <2>5. WalkTells(q)
    BY <2>4, TotalsTell
  <2>6. /\ TotalOf(Append(q, e)) = TotalOf(q) + Adds(e) /\ TotalOf(q) \in Int
        /\ Adds(e) \in Int /\ Adds(e) >= 0 /\ EndOf(Append(q, e)) = e.to
    BY <2>4, <2>5, HopTells DEF WalkTells
  <2>7. SUFFICES ASSUME e.to \notin U
                 PROVE  \E p \in S : p.node \notin U /\ p.total <= TotalOf(q) + Adds(e)
    BY <2>3, <2>6 DEF Meets
  <2>8. CASE EndOf(q) \in U
    <3>1. Leaves(EndOf(q), U, q, e)
      BY <2>4, <2>7 DEF Leaves
    <3>2. Ahead(S, q, e)
      BY <2>4, <2>8, <3>1 DEF Opened
    <3> QED
      BY <2>7, <3>2 DEF Ahead
  <2>9. CASE EndOf(q) \notin U
    <3>1. PICK p \in S : p.node \notin U /\ p.total <= TotalOf(q)
      BY <2>4, <2>9 DEF Meets
    <3>2. p.total \in Int
      BY DEF PathType
    <3>3. p.total <= TotalOf(q) + Adds(e)
      BY <2>6, <3>1, <3>2
    <3> QED
      BY <3>1, <3>3
  <2> QED
    BY <2>8, <2>9
<1> HIDE DEF K
<1>4. \A k \in Nat : k \in K
  BY <1>2, <1>3, Naturally
<1> QED
  BY <1>4, SomeRounds DEF K

\* A path that stands for walks, and is merged of none, is a walk's.
IsOf(r, p) == AsPath(r) = p /\ EndOf(r) = p.node /\ TotalOf(r) = p.total /\ Visited(r) = p.ground

\* The walk is the one that backs the path at its own node.
LEMMA PathOfWalk ==
    ASSUME TypeOK, Lightest, NEW n \in Nat, NEW p \in PathType, Backed(n, p)
    PROVE  \E r \in AllWalks : IsOf(r, p)
<1>1. ~Merging
  BY LightestForm
<1>2. p.node \in p.ground \union {p.node}
  OBVIOUS
<1>3. PICK v : v = p.node
  OBVIOUS
<1>4. v \in p.ground \union {p.node}
  BY <1>3
<1>5. PICK k \in Nat : \E r \in WalksOf(k) : Backer(n, p, v, k, r)
  BY <1>4, BackedBy
<1>6. PICK r \in WalksOf(k) : Backer(n, p, v, k, r)
  BY <1>5
<1>7. /\ AsPath(r).node = p.node /\ AsPath(r).edge = p.edge /\ AsPath(r).total = p.total
      /\ Visited(r) = p.ground /\ r \in AllWalks
  BY <1>1, <1>6 DEF Backer, Stands
<1>8. AsPath(r) = p
  BY <1>7 DEF AsPath, PathType
<1>9. EndOf(r) = p.node /\ TotalOf(r) = p.total
  BY <1>7 DEF AsPath
<1> QED
  BY <1>7, <1>8, <1>9 DEF IsOf

\* A walk that is no heavier than another to its end can take the other's hop.
LEMMA Reopens ==
    ASSUME TypeOK, Unhindered, NEW r \in AllWalks, NEW o \in AllWalks, NEW e \in graph,
           EndOf(o) = EndOf(r), TotalOf(r) <= TotalOf(o), Append(o, e) \in AllWalks,
           e.to \notin Visited(r)
    PROVE  HopOff(r, e, Append(r, e)) /\ Append(r, e) \in AllWalks
<1>1. SingleHops /\ Budgeted
  BY LightestForm DEF Unhindered, Lightest
<1>2. HopOff(o, e, Append(o, e))
  BY <1>1, HopOfWalk
<1>3. WalkTells(o) /\ WalkTells(r)
  BY TotalsTell
<1>4. Adds(e) \in Int
  BY <1>3, HopTells
<1>5. TotalOf(r) \in Int /\ TotalOf(o) \in Int
  BY <1>3 DEF WalkTells
<1>6. AsPath(r).total = TotalOf(r) /\ AsPath(o).total = TotalOf(o)
  BY DEF AsPath
<1>7. Affords(AsPath(r), e)
  <2>1. group.budget.ceiling # None => group.budget.ceiling \in Nat
    BY <1>1, InputTypes DEF GroupType, BudgetType, Budgeted
  <2>2. /\ Len(Weight[e.label]) = 1
        /\ group.budget.ceiling # None => TotalOf(o) + Adds(e) <= group.budget.ceiling
    BY <1>1, <1>2, <1>6 DEF HopOff, Affords
  <2>3. group.budget.ceiling # None => TotalOf(r) + Adds(e) <= group.budget.ceiling
    BY <1>4, <1>5, <2>1, <2>2
  <2> QED
    BY <1>6, <2>2, <2>3 DEF Affords
<1>8. HopOff(r, e, Append(r, e))
  BY <1>2, <1>7 DEF HopOff
<1>9. PICK k \in Nat : r \in WalksOf(k)
  BY SomeRounds
<1>10. Append(r, e) \in AllWalks
  BY <1>1, <1>8, <1>9, HopMakes
<1> QED
  BY <1>8, <1>10

\* Opened as it is of more pending paths, and of fewer where those gone are at
\* nodes spent.
LEMMA OpenedMore ==
    ASSUME NEW v, NEW S, NEW T, NEW U, NEW V, Opened(v, S, U), U \subseteq V,
           \A p \in S : p.node \notin V => p \in T
    PROVE  Opened(v, T, V)
<1> SUFFICES ASSUME NEW r \in AllWalks, NEW e \in graph, Leaves(v, V, r, e)
             PROVE  Ahead(T, r, e)
  BY DEF Opened
<1>1. Leaves(v, U, r, e) /\ e.to \notin V
  BY DEF Leaves
<1>2. Ahead(S, r, e)
  BY <1>1 DEF Opened
<1>3. PICK p \in S : p.node = e.to /\ p.total <= TotalOf(r) + Adds(e)
  BY <1>2 DEF Ahead
<1>4. p \in T
  BY <1>1, <1>3
<1> QED
  BY <1>3, <1>4 DEF Ahead

\* The path taken from those pending, when it is at a new node, is as light as
\* any walk there; its node is then the one to open.
LEMMA Taking ==
    ASSUME TypeOK, Unhindered, NEW S \in SUBSET PathType, NEW U, Start \in U, Rested(S, U),
           NEW p \in Least(S), NEW r \in AllWalks, IsOf(r, p)
    PROVE  /\ p.node \in U => Rested(S \ {p}, U)
           /\ p.node \notin U => /\ Going(p, S \ {p}, U \union {p.node})
                                 /\ LeastAt(p.node, p.total)
                                 /\ ~(Taken(p) < QuantifierBound) =>
                                       Rested(S \ {p}, U \union {p.node})
<1>1. p \in S /\ p \in PathType /\ \A q \in S : p.total <= q.total
  BY DEF Least
<1>2. Stemmed(S \ {p}, U) /\ Stemmed(S \ {p}, U \union {p.node})
  BY DEF Rested, Stemmed
<1>3. ASSUME p.node \in U PROVE Rested(S \ {p}, U)
  <2>1. \A v \in U : Opened(v, S \ {p}, U)
    <3> SUFFICES ASSUME NEW v \in U PROVE Opened(v, S \ {p}, U)
      OBVIOUS
    <3>1. Opened(v, S, U)
      BY DEF Rested
    <3>2. \A q \in S : q.node \notin U => q \in S \ {p}
      BY <1>3
    <3> QED
      BY <3>1, <3>2, OpenedMore
  <2> QED
    BY <1>2, <2>1 DEF Rested
<1>4. ASSUME p.node \notin U
      PROVE  /\ Going(p, S \ {p}, U \union {p.node}) /\ LeastAt(p.node, p.total)
             /\ ~(Taken(p) < QuantifierBound) => Rested(S \ {p}, U \union {p.node})
  <2> DEFINE V == U \union {p.node}
  <2>1. \A v \in U : Opened(v, S \ {p}, V)
    <3> SUFFICES ASSUME NEW v \in U PROVE Opened(v, S \ {p}, V)
      OBVIOUS
    <3>1. Opened(v, S, U)
      BY DEF Rested
    <3>2. \A q \in S : q.node \notin V => q \in S \ {p}
      OBVIOUS
    <3>3. U \subseteq V
      OBVIOUS
    <3> HIDE DEF V
    <3> QED
      BY <3>1, <3>2, <3>3, OpenedMore
  <2>2. Best(p.node, p.total)
    <3> SUFFICES ASSUME NEW o \in AllWalks, EndOf(o) = p.node PROVE p.total <= TotalOf(o)
      BY DEF Best
    <3>1. Meets(o, S, U)
      BY Crossing DEF Rested
    <3>2. PICK q \in S : q.total <= TotalOf(o)
      BY <1>4, <3>1 DEF Meets
    <3>3. p.total \in Int /\ q.total \in Int /\ p.total <= q.total
      BY <1>1 DEF PathType
    <3>4. TotalOf(o) \in Int
      BY TotalsTell DEF WalkTells
    <3> QED
      BY <3>2, <3>3, <3>4
  <2>3. EndOf(r) = p.node /\ TotalOf(r) = p.total /\ Visited(r) = p.ground
    BY DEF IsOf
  <2>4. LeastAt(p.node, p.total)
    BY <2>2, <2>3 DEF LeastAt
  <2>5. p.ground \subseteq V
    BY <1>1 DEF Rested, Stemmed
  <2>6. Going(p, S \ {p}, V)
    BY <1>2, <2>1, <2>2, <2>5 DEF Going
  <2>7. ASSUME ~(Taken(p) < QuantifierBound) PROVE Rested(S \ {p}, V)
    <3>1. QuantifierBound <= Len(r)
      <4>1. /\ Cardinality(Visited(r)) \in Nat /\ Len(r) \in Nat
            /\ Cardinality(Visited(r)) <= Len(r) + 1
        BY TotalsTell DEF WalkTells
      <4>2. Taken(p) = Cardinality(Visited(r)) - 1
        BY <2>3 DEF Taken
      <4> QED
        BY <2>7, <4>1, <4>2, BoundsAssumption
    <3>2. Opened(p.node, S \ {p}, V)
      <4> SUFFICES ASSUME NEW o \in AllWalks, NEW e \in graph, Leaves(p.node, V, o, e)
                   PROVE  FALSE
        BY DEF Opened
      <4>1. EndOf(o) = EndOf(r) /\ Append(o, e) \in AllWalks /\ e.to \notin Visited(r)
        BY <2>3, <2>5 DEF Leaves
      <4>2. TotalOf(r) <= TotalOf(o)
        BY <2>2, <2>3, <4>1 DEF Best
      <4>3. Append(r, e) \in AllWalks
        BY <4>1, <4>2, Reopens
      <4>4. r \in Seq(graph)
        BY TotalsTell DEF WalkTells
      <4>5. Len(Append(r, e)) = Len(r) + 1 /\ Len(r) \in Nat
        BY <4>4, RouteOn
      <4>6. Len(Append(r, e)) <= QuantifierBound
        BY <4>3 DEF Unhindered
      <4> QED
        BY <3>1, <4>5, <4>6, BoundsAssumption
    <3> QED
      BY <1>2, <2>1, <3>2 DEF Rested
  <2> QED
    BY <2>4, <2>6, <2>7
<1> QED
  BY <1>3, <1>4

\* The hops of the path under way open its node.
HopsOf(p) == UNION {Hops(p, al[1]) : al \in group.alts}

\* A walk to that node is left by the path's own walk as well.
LEMMA Opens ==
    ASSUME TypeOK, Unhindered, NEW p \in PathType, NEW S, NEW U, Going(p, S, U),
           NEW r \in AllWalks, IsOf(r, p), NEW A, A = HopsOf(p)
    PROVE  Rested(S \union A, U)
<1>1. ~SetWalk
  BY LightestForm DEF Unhindered
<1>2. EndOf(r) = p.node /\ TotalOf(r) = p.total /\ Visited(r) = p.ground /\ AsPath(r) = p
  BY DEF IsOf
<1>3. Stemmed(A, U)
  <2> SUFFICES ASSUME NEW q \in A PROVE q.ground \ {q.node} \subseteq U
    BY DEF Stemmed
  <2>1. PICK al \in group.alts : q \in Hops(p, al[1])
    BY DEF HopsOf
  <2>2. PICK e \in Edges : q = Extended(p, e)
    BY <2>1, HopOf
  <2>3. q.ground = p.ground \union {e.to} /\ q.node = e.to
    BY <1>1, <2>2 DEF Extended
  <2> QED
    BY <2>3 DEF Going
<1>4. Stemmed(S \union A, U)
  BY <1>3 DEF Going, Stemmed
<1>5. \A v \in U \ {p.node} : Opened(v, S \union A, U)
  <2> SUFFICES ASSUME NEW v \in U \ {p.node} PROVE Opened(v, S \union A, U)
    OBVIOUS
  <2>1. Opened(v, S, U)
    BY DEF Going
  <2>2. U \subseteq U /\ \A q \in S : q.node \notin U => q \in S \union A
    OBVIOUS
  <2> QED
    BY <2>1, <2>2, OpenedMore
<1>6. Opened(p.node, S \union A, U)
  <2> SUFFICES ASSUME NEW o \in AllWalks, NEW e \in graph, Leaves(p.node, U, o, e)
               PROVE  Ahead(S \union A, o, e)
    BY DEF Opened
  <2>1. EndOf(o) = EndOf(r) /\ Append(o, e) \in AllWalks /\ e.to \notin Visited(r)
    BY <1>2 DEF Leaves, Going
  <2>2. TotalOf(r) <= TotalOf(o)
    BY <1>2, <2>1 DEF Going, Best
  <2>3. HopOff(r, e, Append(r, e))
    BY <2>1, <2>2, Reopens
  <2>4. PICK al \in group.alts : Crosses(al[1], e.label)
    BY <2>3 DEF HopOff
  <2>5. e.from = p.node /\ e.to \notin p.ground /\ Affords(p, e)
    BY <1>2, <2>3 DEF HopOff
  <2>6. e \in Selected(p, al[1])
    BY <2>4, <2>5 DEF Selected
  <2>7. Extended(p, e) \in Hops(p, al[1])
    BY <2>5, <2>6 DEF Hops
  <2>8. PICK q : q = Extended(p, e)
    OBVIOUS
  <2>9. q \in A /\ q.node = e.to /\ q.total = p.total + Adds(e)
    BY <2>7, <2>8 DEF HopsOf, Extended
  <2>10. WalkTells(o) /\ WalkTells(r)
    BY TotalsTell
  <2>11. Adds(e) \in Int /\ TotalOf(o) \in Int /\ TotalOf(r) \in Int
    BY <2>1, <2>10, HopTells DEF WalkTells
  <2>12. q.total <= TotalOf(o) + Adds(e)
    BY <1>2, <2>2, <2>9, <2>11
  <2> QED
    BY <2>9, <2>12 DEF Ahead
<1> QED
  BY <1>4, <1>5, <1>6 DEF Rested

\* A path is admitted by its node alone.
LEMMA AdmitsLight ==
    ASSUME TypeOK, Unhindered, NEW p \in PathType, 0 <= p.total
    PROVE  Admits(p) <=> p.node \in group.nodes
<1>1. p.edge # None => p.edge.label \in Labels
  BY DEF PathType, Edges
<1> QED
  BY <1>1 DEF Admits, Unhindered

\* What is found is what ends at an admitted node.
LEMMA FoundLight ==
    ASSUME TypeOK, Unhindered
    PROVE  \A r : r \in Found <=> r \in AllWalks /\ EndOf(r) \in group.nodes
<1>1. Budgeted /\ group.min = 0 /\ group.max = None
  BY InputsAssumption DEF Unhindered, Lightest, Budgeted, TypeOK
<1>2. \A r \in AllWalks : Admits(AsPath(r)) <=> EndOf(r) \in group.nodes
  <2> SUFFICES ASSUME NEW r \in AllWalks PROVE Admits(AsPath(r)) <=> EndOf(r) \in group.nodes
    OBVIOUS
  <2>1. WalkTells(r)
    BY TotalsTell
  <2>2. AsPath(r).total = TotalOf(r) /\ AsPath(r).node = EndOf(r)
        /\ AsPath(r).edge = IF r = <<>> THEN None ELSE r[Len(r)]
    BY DEF AsPath
  <2>3. r # <<>> => r[Len(r)] \in Edges
    <3>1. graph \subseteq Edges
      BY InputTypes
    <3>2. r \in Seq(graph)
      BY <2>1 DEF WalkTells
    <3> QED
      BY <3>1, <3>2
  <2>4. AsPath(r).edge # None => AsPath(r).edge.label \in Labels
    BY <2>2, <2>3 DEF Edges
  <2> QED
    BY <2>1, <2>2, <2>4 DEF Admits, Unhindered, WalkTells
<1>3. \A k \in 0..Longest : k \in Reached <=> FoundAt(k) # {}
  BY <1>1 DEF Reached, Tiers
<1>4. \A r : r \in Found <=> \E k \in 0..Longest : r \in FoundAt(k)
  <2>1. Reached \subseteq 0..Longest
    BY DEF Reached, Tiers
  <2> QED
    BY <1>3, <2>1 DEF Found
<1>5. \A r : r \in Found <=> \E k \in 0..Longest : r \in Walks[k] /\ Admits(AsPath(r))
  BY <1>4 DEF FoundAt
<1>6. \A r : r \in AllWalks <=> \E k \in 0..Longest : r \in Walks[k]
  BY DEF AllWalks
<1> QED
  BY <1>2, <1>5, <1>6

\* What is said of the walks in the next state is said of the same walks.
LEMMA LightSteady ==
    ASSUME graph' = graph, group' = group
    PROVE  /\ Unhindered' <=> Unhindered
           /\ Noted(matches, seen)' <=> Noted(matches', seen')
           /\ Rested(frontier, seen)' <=> Rested(frontier', seen')
           /\ Rested(frontier \union arrived, seen)' <=> Rested(frontier' \union arrived', seen')
           /\ \A p : Going(p, frontier, seen)' <=> Going(p, frontier', seen')
           /\ AllSeen(seen)' <=> AllSeen(seen')
           /\ Lightly(answer)' <=> Lightly(answer')
           /\ \A p : Into({p})' = Into({p})
<1>1. AllWalks' = AllWalks /\ (Lightest' <=> Lightest) /\ \A e : Adds(e)' = Adds(e)
  BY CauseSteady
<1>2. \A r : EndOf(r)' = EndOf(r) /\ TotalOf(r)' = TotalOf(r)
  BY RoutesSteady
<1>3. Unhindered' <=> Unhindered
  BY <1>1 DEF Unhindered
<1>4. \A v, t : Best(v, t)' <=> Best(v, t)
  BY <1>1, <1>2 DEF Best
<1>5. \A v, t : LeastAt(v, t)' <=> LeastAt(v, t)
  BY <1>1, <1>2, <1>4 DEF LeastAt
<1>6. Noted(matches, seen)' <=> Noted(matches', seen')
  BY <1>5 DEF Noted
<1>7. \A v, S, U : Opened(v, S, U)' <=> Opened(v, S, U)
  BY <1>1, <1>2 DEF Opened, Leaves, Ahead
<1>8. \A v : Opened(v, frontier, seen)' <=> Opened(v, frontier', seen')
  BY <1>1, <1>2 DEF Opened, Leaves, Ahead
<1>9. \A v : Opened(v, frontier \union arrived, seen)' <=> Opened(v, frontier' \union arrived', seen')
  BY <1>1, <1>2 DEF Opened, Leaves, Ahead
<1>10. Rested(frontier, seen)' <=> Rested(frontier', seen')
  BY <1>8 DEF Rested, Stemmed
<1>11. Rested(frontier \union arrived, seen)' <=> Rested(frontier' \union arrived', seen')
  BY <1>9 DEF Rested, Stemmed
<1>12. \A p : Going(p, frontier, seen)' <=> Going(p, frontier', seen')
  BY <1>4, <1>8 DEF Going, Stemmed
<1>13. AllSeen(seen)' <=> AllSeen(seen')
  BY <1>1, <1>2 DEF AllSeen
<1>14. Lightly(answer)' <=> Lightly(answer')
  <2>1. Found' = Found
    <3>1. Walks' = Walks /\ Longest' = Longest
      BY WalksSteady
    <3>2. \A r : Admits(AsPath(r))' <=> Admits(AsPath(r))
      BY RoutesSteady
    <3>3. \A k : FoundAt(k)' = FoundAt(k)
      BY <3>1, <3>2 DEF FoundAt
    <3>4. Tiers' = Tiers
      BY <3>1, <3>3 DEF Tiers
    <3>5. Reached' = Reached
      BY <3>4 DEF Reached, Budgeted
    <3> QED
      BY <3>3, <3>5 DEF Found
  <2> QED
    BY <1>1, <1>2, <2>1 DEF Lightly
<1>15. \A p : Into({p})' = Into({p})
  BY DEF Into
<1> QED
  BY <1>3, <1>6, <1>10, <1>11, <1>12, <1>13, <1>14, <1>15

-----------------------------------------------------------------------------
\* The walk of a path that is held, pending or under way.
LEMMA HeldWalks ==
    ASSUME TypeOK, StandInv, Lightest, pc \in {"hop", "settle"}
    PROVE  /\ \A p \in frontier : \E r \in AllWalks : IsOf(r, p)
           /\ \A f \in flight : pc = "hop" => \E r \in AllWalks : IsOf(r, f.path)
<1>1. ~SetWalk /\ SingleHops
  BY LightestForm
<1>2. PICK n \in Nat : AtRound(n)
  BY <1>1 DEF StandInv
<1>3. Stock(n) /\ (pc = "hop" => Course(n))
  BY <1>2 DEF AtRound
<1>4. ASSUME NEW p \in frontier PROVE \E r \in AllWalks : IsOf(r, p)
  <2>1. Backed(n, p) /\ p \in PathType
    BY <1>3 DEF Stock, TypeOK
  <2> QED
    BY <2>1, PathOfWalk
<1>5. ASSUME NEW f \in flight, pc = "hop" PROVE \E r \in AllWalks : IsOf(r, f.path)
  <2>1. Aloft(n, f)
    BY <1>3, <1>5 DEF Course
  <2>2. PICK p : p = f.path
    OBVIOUS
  <2>3. Backed(n, p) /\ p \in PathType
    BY <1>1, <2>1, <2>2, AloftBacked DEF TypeOK
  <2> QED
    BY <2>2, <2>3, PathOfWalk
<1> QED
  BY <1>4, <1>5

\* What is noted grows with the node spent.
LEMMA NotesOn ==
    ASSUME TypeOK, Unhindered, NEW M, NEW U, Noted(M, U), NEW p \in PathType, 0 <= p.total,
           LeastAt(p.node, p.total), NEW m, m.path = p, NEW N,
           N = IF Admits(p) THEN M \union {m} ELSE M
    PROVE  Noted(N, U \union {p.node})
<1>1. Admits(p) <=> p.node \in group.nodes
  BY AdmitsLight
<1>2. \A n \in N : n \in M \/ (n = m /\ p.node \in group.nodes)
  BY <1>1
<1>3. M \subseteq N /\ (p.node \in group.nodes => m \in N)
  BY <1>1
<1>4. ASSUME NEW n \in N
      PROVE  /\ n.path.node \in (U \union {p.node}) \intersect group.nodes
             /\ LeastAt(n.path.node, n.path.total)
  <2>1. CASE n \in M
    BY <2>1 DEF Noted
  <2>2. CASE n = m /\ p.node \in group.nodes
    BY <2>2
  <2> QED
    BY <1>2, <2>1, <2>2
<1>5. ASSUME NEW v \in (U \union {p.node}) \intersect group.nodes
      PROVE  \E n \in N : n.path.node = v
  <2>1. CASE v \in U
    <3>1. PICK n \in M : n.path.node = v
      BY <2>1 DEF Noted
    <3> QED
      BY <1>3, <3>1
  <2>2. CASE v = p.node
    BY <1>3, <2>2
  <2> QED
    BY <2>1, <2>2
<1> QED
  BY <1>4, <1>5 DEF Noted

\* A walk weighs no less than nothing, and none weighs anything to the anchor.
LEMMA AnchorLight ==
    ASSUME TypeOK, Unhindered
    PROVE  /\ \E r \in AllWalks : IsOf(r, Anchor)
           /\ LeastAt(Start, 0)
           /\ Noted({}, {})
<1>1. PICK r : r = <<>>
  OBVIOUS
<1>2. r \in AllWalks
  BY <1>1, AnchorStands, SomeRounds
<1>3. AsPath(r) = Anchor
  BY <1>1, NoHops
<1>4. EndOf(r) = Start /\ TotalOf(r) = 0 /\ Visited(r) = {Start}
  BY <1>3 DEF AsPath, Anchor
<1>5. IsOf(r, Anchor)
  BY <1>3, <1>4 DEF IsOf, Anchor
<1>6. \A o \in AllWalks : 0 <= TotalOf(o)
  BY TotalsTell DEF WalkTells
<1> QED
  BY <1>2, <1>4, <1>5, <1>6 DEF LeastAt, Best, Noted

\* The anchor is spent first, and is the path to open.
LEMMA EntryLight ==
    ASSUME TypeOK, StandInv, LightInv, Unhindered, Entry
    PROVE  LightInv'
<1>1. /\ UNCHANGED <<graph, group, seen, arrived, answer>>
      /\ seen = {Start} /\ matches = {} /\ arrived = {} /\ Lightest /\ group.min = 0
  BY InputsAssumption DEF Entry, inputs, LightInv, Unhindered, Lightest, Budgeted, TypeOK
<1>2. \/ refusal' = "bound" /\ pc' = "done" /\ UNCHANGED <<matches, frontier, flight>>
      \/ /\ matches' = IF Admits(Anchor) THEN matches \union {[path |-> Anchor, round |-> 0]} ELSE matches
         /\ frontier' = {} /\ flight' = Into({Anchor}) /\ pc' = "hop"
  BY <1>1 DEF Entry
<1>3. Anchor \in PathType /\ Anchor.node = Start /\ Anchor.total = 0 /\ Anchor.ground = {Start}
  BY AnchorType DEF Anchor
<1>4. LeastAt(Start, 0) /\ Noted({}, {})
  BY AnchorLight
<1>5. Beyond => refusal' = "bound" /\ pc' = "done"
  BY DEF Entry
<1>6. ~Beyond
  BY <1>1, BoundsAssumption, InputsAssumption DEF Beyond, Lightest, Budgeted, TypeOK
<1>7. /\ matches' = IF Admits(Anchor) THEN matches \union {[path |-> Anchor, round |-> 0]} ELSE matches
      /\ frontier' = {} /\ flight' = Into({Anchor}) /\ pc' = "hop"
  BY <1>1, <1>6 DEF Entry
<1>8. Noted(matches', seen')
  <2>1. PICK m : m = [path |-> Anchor, round |-> 0]
    OBVIOUS
  <2>2. m.path = Anchor /\ matches' = IF Admits(Anchor) THEN matches \union {m} ELSE matches
    BY <1>7, <2>1
  <2>3. Noted(matches, {}) /\ 0 <= Anchor.total /\ LeastAt(Anchor.node, Anchor.total)
    BY <1>1, <1>3, <1>4
  <2>4. Noted(matches', {} \union {Anchor.node})
    BY <1>3, <2>2, <2>3, NotesOn
  <2> QED
    BY <1>1, <1>3, <2>4
<1>9. Going(Anchor, frontier', seen')
  <2>1. \A v \in seen' \ {Anchor.node} : Opened(v, frontier', seen')
    BY <1>1, <1>3
  <2> QED
    BY <1>1, <1>3, <1>4, <1>7, <2>1 DEF Going, Stemmed, LeastAt
<1>10. flight' = Into({Anchor})'
  BY <1>1, <1>7, LightSteady
<1>11. Noted(matches, seen)' /\ Going(Anchor, frontier, seen)'
  BY <1>1, <1>8, <1>9, LightSteady
<1>12. Answered' = FALSE
  BY <1>7 DEF Answered
<1> QED
  BY <1>1, <1>3, <1>7, <1>10, <1>11, <1>12 DEF LightInv

\* The hops open the node the path under way is at.
LEMMA HopLight ==
    ASSUME TypeOK, StandInv, LightInv, Unhindered, Hop
    PROVE  LightInv'
<1>1. /\ UNCHANGED <<graph, group, frontier, seen, matches, answer>>
      /\ pc = "hop" /\ flight # {} /\ Lightest
  BY DEF Hop, inputs, Unhindered
<1>2. Noted(matches, seen)' /\ Start \in seen'
  BY <1>1, LightSteady DEF LightInv
<1>3. CASE Refusals # {}
  <2>1. pc' = "done" /\ refusal' # None
    BY <1>3, BoundsAssumption DEF Hop, Refusals
  <2> QED
    BY <1>2, <2>1 DEF LightInv, Answered
<1>4. CASE Refusals = {}
  <2>1. PICK p \in PathType : flight = Into({p}) /\ arrived = {} /\ Going(p, frontier, seen)
    BY <1>1 DEF LightInv
  <2>2. PICK hopped : hopped = UNION {{[path |-> q, rest |-> Tail(f.rest)] :
                                 q \in Hops(f.path, Head(f.rest))} : f \in flight}
    OBVIOUS
  <2>3. /\ flight' = {f \in hopped : f.rest # <<>>}
        /\ arrived' = {f.path : f \in {g \in hopped : g.rest = <<>>}}
        /\ pc' = "hop"
    BY <1>4, <2>1, <2>2 DEF Hop
  <2>4. ASSUME NEW al \in group.alts
        PROVE  Tail(al) = <<>> /\ Head(al) = al[1] /\ [path |-> p, rest |-> al] \in flight
    <3>1. Len(al) = 1 /\ al \in Seq(Hop1) /\ al # <<>>
      BY <1>1, InputTypes, LightestForm DEF SingleHops
    <3>2. Head(al) = al[1] /\ Tail(al) \in Seq(Hop1) /\ Len(Tail(al)) = 0
      BY <3>1
    <3>3. [path |-> p, rest |-> al] \in Into({p})
      BY DEF Into
    <3> QED
      BY <2>1, <3>2, <3>3, EmptySeq
  <2>5. \A g : g \in hopped <=> \E al \in group.alts : \E q \in Hops(p, al[1]) : g = [path |-> q, rest |-> <<>>]
    <3>1. \A f : f \in flight <=> \E al \in group.alts : f = [path |-> p, rest |-> al]
      BY <2>1 DEF Into
    <3>2. ASSUME NEW g \in hopped
          PROVE  \E al \in group.alts : \E q \in Hops(p, al[1]) : g = [path |-> q, rest |-> <<>>]
      <4>1. PICK f \in flight : \E q \in Hops(f.path, Head(f.rest)) : g = [path |-> q, rest |-> Tail(f.rest)]
        BY <2>2
      <4>2. PICK al \in group.alts : f = [path |-> p, rest |-> al]
        BY <3>1
      <4>3. f.path = p /\ f.rest = al
        BY <4>2
      <4> QED
        BY <2>4, <4>1, <4>3
    <3>3. ASSUME NEW al \in group.alts, NEW q \in Hops(p, al[1])
          PROVE  [path |-> q, rest |-> <<>>] \in hopped
      <4>1. PICK f : f = [path |-> p, rest |-> al]
        OBVIOUS
      <4>2. f \in flight /\ f.path = p /\ Head(f.rest) = al[1] /\ Tail(f.rest) = <<>>
        BY <2>4, <4>1
      <4>3. PICK g : g = [path |-> q, rest |-> <<>>]
        OBVIOUS
      <4>4. q \in Hops(f.path, Head(f.rest)) /\ g = [path |-> q, rest |-> Tail(f.rest)]
        BY <4>2, <4>3
      <4>5. g \in {[path |-> x, rest |-> Tail(f.rest)] : x \in Hops(f.path, Head(f.rest))}
        BY <4>4
      <4>6. g \in hopped
        BY <2>2, <4>2, <4>5
      <4> QED
        BY <4>3, <4>6
    <3> QED
      BY <3>2, <3>3
  <2>6. \A g \in hopped : g.rest = <<>>
    BY <2>5
  <2>7. flight' = {}
    BY <2>3, <2>6
  <2>8. arrived' = HopsOf(p)
    <3>1. \A x : x \in arrived' <=> \E g \in hopped : x = g.path
      BY <2>3, <2>6
    <3>2. ASSUME NEW x \in arrived' PROVE \E al \in group.alts : x \in Hops(p, al[1])
      <4>1. PICK g \in hopped : x = g.path
        BY <3>1
      <4>2. PICK al \in group.alts : \E q \in Hops(p, al[1]) : g = [path |-> q, rest |-> <<>>]
        BY <2>5
      <4> QED
        BY <4>1, <4>2
    <3>3. ASSUME NEW al \in group.alts, NEW x \in Hops(p, al[1]) PROVE x \in arrived'
      <4>1. PICK g : g = [path |-> x, rest |-> <<>>]
        OBVIOUS
      <4>2. g \in hopped /\ x = g.path
        BY <2>5, <4>1
      <4> QED
        BY <3>1, <4>2
    <3> QED
      BY <3>2, <3>3 DEF HopsOf
  <2>9. \E r \in AllWalks : IsOf(r, p)
    <3>1. PICK al \in group.alts : TRUE
      BY InputsAssumption DEF TypeOK
    <3>2. PICK f : f = [path |-> p, rest |-> al]
      OBVIOUS
    <3>3. f \in flight /\ f.path = p
      BY <2>4, <3>2
    <3> QED
      BY <1>1, <3>3, HeldWalks
  <2>10. Rested(frontier \union arrived', seen)
    <3>1. PICK r \in AllWalks : IsOf(r, p)
      BY <2>9
    <3>2. PICK A : A = HopsOf(p)
      OBVIOUS
    <3>3. Rested(frontier \union A, seen)
      BY <2>1, <3>1, <3>2, Opens
    <3> QED
      BY <2>8, <3>2, <3>3
  <2>11. Rested(frontier \union arrived, seen)'
    BY <1>1, <2>10, LightSteady
  <2> QED
    BY <1>2, <2>3, <2>7, <2>11 DEF LightInv, Answered
<1> QED
  BY <1>3, <1>4

\* The lightest pending path is taken: its node is spent, and noted.
LEMMA SettleLight ==
    ASSUME TypeOK, StandInv, LightInv, Unhindered, Settle
    PROVE  LightInv'
<1>1. /\ UNCHANGED <<graph, group, refusal, answer>>
      /\ pc = "settle" /\ count' = count + 1 /\ Lightest
      /\ Start \in seen /\ Noted(matches, seen) /\ Rested(frontier, seen)
  BY DEF Settle, inputs, Unhindered, LightInv
<1>2. CASE count' > QuantifierBound * FrontierBound
  <2>1. pc' = "reach" /\ UNCHANGED <<frontier, seen, matches>>
    BY <1>2 DEF Settle
  <2>2. Noted(matches, seen)'
    BY <1>1, <2>1, LightSteady
  <2>3. ~InRounds'
    <3>1. QuantifierBound * FrontierBound \in Int
      BY BoundsAssumption
    <3>2. count' \in Int
      BY <1>1 DEF TypeOK
    <3> QED
      BY <1>2, <3>1, <3>2 DEF InRounds
  <2> QED
    BY <1>1, <2>1, <2>2, <2>3 DEF LightInv, Answered
<1>3. CASE ~(count' > QuantifierBound * FrontierBound)
  <2>1. PICK p \in Least(frontier) :
          LET new == p.node \notin seen
              on == new /\ Taken(p) < QuantifierBound
          IN /\ frontier' = frontier \ {p}
             /\ seen' = seen \union {p.node}
             /\ matches' = IF new /\ Admits(p) THEN matches \union {[path |-> p, round |-> 0]}
                                              ELSE matches
             /\ flight' = IF on THEN Into({p}) ELSE {}
             /\ arrived' = {}
             /\ pc' = IF on THEN "hop" ELSE "settle"
    BY <1>3 DEF Settle
  <2>2. p \in frontier /\ p \in PathType
    BY DEF Least, TypeOK
  <2>3. PICK r \in AllWalks : IsOf(r, p)
    BY <1>1, <2>2, HeldWalks
  <2>4. frontier \in SUBSET PathType
    BY DEF TypeOK
  <2>5. 0 <= p.total
    BY <2>3, TotalsTell DEF IsOf, WalkTells
  <2>6. CASE p.node \in seen
    <3>1. /\ frontier' = frontier \ {p} /\ seen' = seen /\ matches' = matches
          /\ arrived' = {} /\ pc' = "settle"
      BY <2>1, <2>6
    <3>2. Rested(frontier \ {p}, seen)
      BY <1>1, <2>3, <2>4, <2>6, Taking
    <3>3. Rested(frontier', seen') /\ Noted(matches', seen')
      BY <1>1, <3>1, <3>2
    <3>4. Rested(frontier, seen)' /\ Noted(matches, seen)'
      BY <1>1, <3>3, LightSteady
    <3> QED
      BY <1>1, <3>1, <3>4 DEF LightInv, Answered
  <2>7. CASE p.node \notin seen
    <3>1. PICK m : m = [path |-> p, round |-> 0]
      OBVIOUS
    <3>2. /\ frontier' = frontier \ {p} /\ seen' = seen \union {p.node}
          /\ matches' = IF Admits(p) THEN matches \union {m} ELSE matches
          /\ arrived' = {} /\ m.path = p
      BY <2>1, <2>7, <3>1
    <3>3. /\ Going(p, frontier \ {p}, seen \union {p.node}) /\ LeastAt(p.node, p.total)
          /\ ~(Taken(p) < QuantifierBound) => Rested(frontier \ {p}, seen \union {p.node})
      BY <1>1, <2>3, <2>4, <2>7, Taking
    <3>4. Noted(matches', seen \union {p.node})
      BY <1>1, <2>2, <2>5, <3>2, <3>3, NotesOn
    <3>5. Noted(matches, seen)' /\ Start \in seen'
      BY <1>1, <3>2, <3>4, LightSteady
    <3>6. CASE Taken(p) < QuantifierBound
      <4>1. flight' = Into({p}) /\ pc' = "hop"
        BY <2>1, <2>7, <3>6
      <4>2. flight' = Into({p})' /\ Going(p, frontier, seen)'
        BY <1>1, <3>2, <3>3, <4>1, LightSteady
      <4> QED
        BY <2>2, <3>2, <3>5, <4>1, <4>2 DEF LightInv, Answered
    <3>7. CASE ~(Taken(p) < QuantifierBound)
      <4>1. pc' = "settle"
        BY <2>1, <3>7
      <4>2. Rested(frontier, seen)'
        BY <1>1, <3>2, <3>3, <3>7, LightSteady
      <4> QED
        BY <3>5, <4>1, <4>2 DEF LightInv, Answered
    <3> QED
      BY <3>6, <3>7
  <2> QED
    BY <2>6, <2>7
<1> QED
  BY <1>2, <1>3

\* What arrived is pending.
LEMMA PendLight ==
    ASSUME TypeOK, StandInv, LightInv, Unhindered, Pend
    PROVE  LightInv'
<1>1. /\ UNCHANGED <<graph, group, seen, matches, answer>>
      /\ pc = "hop" /\ flight = {} /\ Start \in seen /\ Noted(matches, seen)
      /\ frontier' = frontier \union {p \in arrived : p.node \notin seen}
      /\ (refusal' = "frontier" /\ pc' = "done") \/ pc' = "settle"
  BY DEF Pend, inputs, LightInv
<1>2. Noted(matches, seen)' /\ Start \in seen'
  BY <1>1, LightSteady
<1>3. \A p : Into({p}) # {}
  <2>1. PICK al \in group.alts : TRUE
    BY InputsAssumption DEF TypeOK
  <2>2. \A p : [path |-> p, rest |-> al] \in Into({p})
    BY DEF Into
  <2> QED
    BY <2>2
<1>4. Rested(frontier \union arrived, seen)
  BY <1>1, <1>3 DEF LightInv
<1>5. Rested(frontier', seen)
  <2>1. Stemmed(frontier', seen)
    BY <1>1, <1>4 DEF Rested, Stemmed
  <2>2. ASSUME NEW v \in seen PROVE Opened(v, frontier', seen)
    <3>1. PICK S : S = frontier \union arrived
      OBVIOUS
    <3>2. PICK T : T = frontier'
      OBVIOUS
    <3>3. PICK U : U = seen
      OBVIOUS
    <3>4. Opened(v, S, U)
      BY <1>4, <3>1, <3>3 DEF Rested
    <3>5. U \subseteq U /\ \A p \in S : p.node \notin U => p \in T
      BY <1>1, <3>1, <3>2, <3>3
    <3>6. Opened(v, T, U)
      BY <3>4, <3>5, OpenedMore
    <3> QED
      BY <3>2, <3>3, <3>6
  <2> QED
    BY <2>1, <2>2 DEF Rested
<1>6. Rested(frontier, seen)'
  BY <1>1, <1>5, LightSteady
<1> QED
  BY <1>1, <1>2, <1>6, BoundsAssumption DEF LightInv, Answered

\* Nothing is pending: every node a walk ends at is spent.
LEMMA SettledLight ==
    ASSUME TypeOK, LightInv, Unhindered, Settled
    PROVE  LightInv'
<1>1. /\ UNCHANGED <<graph, group, seen, matches, answer>>
      /\ pc' = "reach" /\ frontier = {} /\ Start \in seen
      /\ Noted(matches, seen) /\ Rested(frontier, seen)
  BY DEF Settled, inputs, LightInv
<1>2. \A v \in seen : Opened(v, frontier, seen)
  BY <1>1 DEF Rested
<1>3. \A r \in AllWalks : Meets(r, frontier, seen)
  <2>1. frontier \in SUBSET PathType
    BY DEF TypeOK
  <2> QED
    BY <1>1, <1>2, <2>1, Crossing
<1>4. AllSeen(seen)
  BY <1>1, <1>3 DEF AllSeen, Meets
<1>5. AllSeen(seen)' /\ Noted(matches, seen)' /\ Start \in seen'
  BY <1>1, <1>4, LightSteady
<1> QED
  BY <1>1, <1>5 DEF LightInv, Answered

\* The matches are the lightest walks to the admitted nodes some walk ends at.
LEMMA NotedAll ==
    ASSUME TypeOK, Unhindered, NEW M, NEW U, Noted(M, U), AllSeen(U)
    PROVE  Lightly(M)
<1>1. \A r \in AllWalks : TotalOf(r) \in Int
  BY TotalsTell DEF WalkTells
<1>2. ASSUME NEW m \in M
      PROVE  \E r \in Found : /\ EndOf(r) = m.path.node /\ TotalOf(r) = m.path.total
                              /\ \A o \in AllWalks : EndOf(o) = EndOf(r) => TotalOf(r) <= TotalOf(o)
  <2>1. m.path.node \in group.nodes /\ LeastAt(m.path.node, m.path.total)
    BY DEF Noted
  <2>2. PICK r \in AllWalks : EndOf(r) = m.path.node /\ TotalOf(r) = m.path.total
    BY <2>1 DEF LeastAt
  <2>3. r \in Found
    BY <2>1, <2>2, FoundLight
  <2> QED
    BY <2>1, <2>2, <2>3 DEF LeastAt, Best
<1>3. ASSUME NEW r \in Found, \A o \in AllWalks : EndOf(o) = EndOf(r) => TotalOf(r) <= TotalOf(o)
      PROVE  \E m \in M : m.path.node = EndOf(r) /\ m.path.total = TotalOf(r)
  <2>1. r \in AllWalks /\ EndOf(r) \in group.nodes
    BY FoundLight
  <2>2. EndOf(r) \in U
    BY <2>1 DEF AllSeen
  <2>3. PICK m \in M : m.path.node = EndOf(r)
    BY <2>1, <2>2 DEF Noted
  <2>4. LeastAt(EndOf(r), m.path.total)
    BY <2>3 DEF Noted
  <2>5. PICK o \in AllWalks : EndOf(o) = EndOf(r) /\ TotalOf(o) = m.path.total
    BY <2>4 DEF LeastAt
  <2>6. m.path.total <= TotalOf(r) /\ TotalOf(r) <= m.path.total
    BY <1>3, <2>1, <2>4, <2>5 DEF LeastAt, Best
  <2>7. m.path.total = TotalOf(r)
    BY <1>1, <2>1, <2>5, <2>6
  <2> QED
    BY <2>3, <2>7
<1>4. PICK Q : Q = {q \in Found : \A o \in AllWalks : EndOf(o) = EndOf(q) => TotalOf(q) <= TotalOf(o)}
  OBVIOUS
<1>5. /\ \A m \in M : \E r \in Q : EndOf(r) = m.path.node /\ TotalOf(r) = m.path.total
      /\ \A r \in Q : \E m \in M : m.path.node = EndOf(r) /\ m.path.total = TotalOf(r)
  BY <1>2, <1>3, <1>4
<1>6. {<<m.path.node, m.path.total>> : m \in M} = {<<EndOf(r), TotalOf(r)>> : r \in Q}
  BY <1>5
<1> QED
  BY <1>4, <1>6 DEF Lightly

\* All the matches are answered.
LEMMA ReachLight ==
    ASSUME TypeOK, LightInv, Unhindered, Reach
    PROVE  LightInv'
<1>1. /\ UNCHANGED <<graph, group, seen, matches, count>>
      /\ pc = "reach" /\ pc' = "done" /\ Start \in seen /\ Noted(matches, seen)
      /\ Lightest
  BY DEF Reach, inputs, LightInv, Unhindered
<1>2. answer' = matches
  BY <1>1 DEF Reach, Tier
<1>3. Noted(matches, seen)'
  BY <1>1, LightSteady
<1>4. InRounds' <=> InRounds
  BY <1>1 DEF InRounds
<1>5. InRounds => Lightly(answer)'
  <2> SUFFICES ASSUME InRounds PROVE Lightly(answer)'
    OBVIOUS
  <2>1. AllSeen(seen)
    BY <1>1 DEF LightInv
  <2>2. Lightly(matches)
    BY <1>1, <2>1, NotedAll
  <2> QED
    BY <1>1, <1>2, <2>2, LightSteady
<1> QED
  BY <1>1, <1>3, <1>4, <1>5 DEF LightInv

\* Every step keeps it.
LEMMA LightStep ==
    ASSUME TypeOK, StandInv, LightInv, [Next]_vars
    PROVE  LightInv'
<1> SUFFICES ASSUME Unhindered' PROVE LightInv'
  BY DEF LightInv
<1>1. graph' = graph /\ group' = group
  BY DEF Next, Entry, Round, Hop, EndRound, Settle, Pend, Settled, Reach, Terminated, vars, inputs
<1>2. Unhindered
  BY <1>1, LightSteady
<1>3. CASE UNCHANGED vars
  <2>1. UNCHANGED <<graph, group, pc, count, frontier, flight, arrived, seen, matches, refusal, answer>>
    BY <1>3 DEF vars, inputs
  <2>2. Answered' <=> Answered
    BY <2>1 DEF Answered
  <2>3. InRounds' <=> InRounds
    BY <2>1 DEF InRounds
  <2> QED
    BY <1>2, <2>1, <2>2, <2>3, LightSteady DEF LightInv
<1>4. ~Round /\ ~EndRound
  BY <1>2, LightestForm DEF Unhindered, Round, EndRound, StandInv
<1> QED
  BY <1>2, <1>3, <1>4, EntryLight, HopLight, SettleLight, PendLight, SettledLight, ReachLight
     DEF Next, Terminated

\* The lightest walks answer every node within the budget, once, with its least total, for every
\* graph, weight, ceiling and bound: what Dijkstra's argument says of the loop over the heap.
THEOREM LightestByLeastTotal == Spec => []LightestAnswered
<1>1. Init => LightInv
  <2> SUFFICES ASSUME Init PROVE LightInv
    OBVIOUS
  <2> QED
    BY DEF Init, LightInv, Answered
<1>2. TypeOK /\ StandInv /\ LightInv /\ [Next]_vars => LightInv'
  BY LightStep
<1>3. LightInv => LightestAnswered
  BY DEF LightInv, LightestAnswered, Unhindered, InRounds, Lightly
<1> QED
  BY <1>1, <1>2, <1>3, StandAlways, PTL DEF Spec
=============================================================================
