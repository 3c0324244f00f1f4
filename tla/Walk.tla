-------------------------------- MODULE Walk --------------------------------
(***************************************************************************)
(* The quantified walk of the engine (quarb/src/graph/steps.rs): one call  *)
(* of expand_group, from one anchor, for a group of link hops without a    *)
(* push, a mark or a group inside it.  A round takes every path in flight  *)
(* through every alternative, hop by hop.  An EXACT walk keeps one path    *)
(* per ground covered and arriving edge; a SET walk keeps one per node;    *)
(* under an acyclic promise the exact walk merges by position.  Under a    *)
(* BUDGET the edges weigh, and the proximal reach settles the nodes by     *)
(* their least total.                                                      *)
(***************************************************************************)
EXTENDS Integers, Sequences, FiniteSets

CONSTANTS Nodes, Start,     \* the nodes, and the anchor among them
          Labels, Star,      \* the link labels, and the wildcard hop ->*
          Graphs, Groups,   \* the graphs and the groups considered
          Promised,         \* the labels promised acyclic
          Weight,           \* what the edges of a label carry in the budget's dimension
          QuantifierBound,  \* N_max
          FrontierBound,    \* f_max
          None

Edges == [from : Nodes, label : Labels, to : Nodes]

\* {floor;ceiling} in the base unit of one dimension; an absent floor is zero.  A
\* group with a budget is considered over single hops alone.
BudgetType == [floor : Nat, ceiling : Nat \union {None}]

\* (alts){min;max} with a reach; the predicates admit by node and, where
\* `labels` is not all of them, by the arriving edge; nodeLevel: what consumes
\* the walk reads nodes alone.
GroupType == [alts : SUBSET Seq(Labels \union {Star}), min : Nat, max : Nat \union {None},
              reach : {"all", "proximal", "distal"}, nodeLevel : BOOLEAN,
              nodes : SUBSET Nodes, labels : SUBSET Labels,
              budget : BudgetType \union {None}]

ASSUME NodesAssumption == IsFiniteSet(Nodes) /\ Start \in Nodes /\ Promised \subseteq Labels
ASSUME InputsAssumption ==
    /\ Graphs \subseteq SUBSET Edges /\ \A g \in Graphs : IsFiniteSet(g)
    /\ Groups \subseteq GroupType
    /\ \A g \in Groups : /\ g.alts # {} /\ <<>> \notin g.alts
                         /\ g.budget # None => /\ g.min = 0 /\ g.max = None
                                              /\ \A al \in g.alts : Len(al) = 1
ASSUME BoundsAssumption == QuantifierBound \in Nat /\ FrontierBound \in Nat
                           /\ None \notin Nat /\ None \notin Edges /\ Star \notin Labels
                           /\ None \notin {"bound", "cycle", "weight", "frontier", "open"}
ASSUME WeightAssumption == Weight \in [Labels -> Seq(Int)] /\ None \notin BudgetType

VARIABLES graph, group,  \* the inputs
          pc,            \* where expand_group is
          count,         \* the round
          frontier,      \* the paths at the start of the round, or pending
          flight,        \* the paths within it: [path, rest of the alternative]
          arrived,       \* those that came to the end of their alternative
          seen,          \* the positions spent, or settled
          matches,       \* [path, round]
          promise,       \* an acyclic promise is in force
          alive,         \* the promise is read from the edges crossed
          refusal, answer

inputs == <<graph, group>>
vars == <<graph, group, pc, count, frontier, flight, arrived, seen, matches, promise, alive,
          refusal, answer>>

\* GPath: the node, the nodes it blocks, the edge it arrived by, and the weight
\* summed so far.
PathType == [node : Nodes, ground : SUBSET Nodes, edge : Edges \union {None}, total : Int]
Anchor == [node |-> Start, ground |-> {Start}, edge |-> None, total |-> 0]

-----------------------------------------------------------------------------
(***************************************************************************)
(* The form of the group.                                                  *)
(***************************************************************************)
NodeLevel == group.nodeLevel \/ group.reach # "all"

Budgeted == group.budget # None

\* set_form and the mode it allows.
SetWalk == /\ group.min <= 1 /\ group.max = None /\ group.reach # "distal"
           /\ group.reach = "proximal" \/ NodeLevel
           /\ ~Budgeted

\* The lightest walks under a budget have a loop of their own.
Lightest == Budgeted /\ group.reach = "proximal"

\* hi, of an exact walk
Ceiling == IF group.max = None THEN QuantifierBound ELSE group.max
Open == ~SetWalk /\ group.max = None

\* group_promise: every hop by an exact label that is promised.
ExactPromise == \A a \in group.alts : \A i \in DOMAIN a : a[i] \in Promised

\* group_admits: the anchor has no arriving edge for a predicate on edges.
Admits(p) == /\ p.node \in group.nodes
             /\ Budgeted => group.budget.floor <= p.total
             /\ IF p.edge = None THEN group.labels = Labels ELSE p.edge.label \in group.labels

Crosses(h, l) == h = Star \/ h = l

\* The edges a hop selects at a path's node.
Selected(p, h) == {e \in graph : e.from = p.node /\ Crosses(h, e.label)}

\* What an edge adds to the total: a weight, where it carries just one.
Adds(e) == IF Budgeted THEN Weight[e.label][1] ELSE 0

\* Mutant: the ground keeps the node left, not the node reached.
MutExtended(p, e) ==
    [node |-> e.to, ground |-> IF SetWalk THEN p.ground ELSE p.ground \union {e.from},
     edge |-> e, total |-> p.total + Adds(e)]

\* GPath::with: a set walk keeps the anchor's ground.
Extended(p, e) == [node |-> e.to, ground |-> IF SetWalk THEN p.ground ELSE p.ground \union {e.to},
                   edge |-> e, total |-> p.total + Adds(e)]

\* Under a budget an edge is crossed with its weight, or not at all, and no path
\* goes past the ceiling.
Affords(p, e) ==
    Budgeted => /\ Len(Weight[e.label]) = 1
                /\ group.budget.ceiling # None => p.total + Adds(e) <= group.budget.ceiling

\* The hops a path takes: never to a node it blocks.
Hops(p, h) == {Extended(p, e) :
                 e \in {s \in Selected(p, h) : s.to \notin p.ground /\ Affords(p, s)}}

\* Mutant: a negative weight is a weight.
MutIllWeighed(p, h) ==
    Budgeted /\ \E e \in Selected(p, h) : e.to \notin p.ground /\ Len(Weight[e.label]) > 1

\* A hop to a node it does not block by an edge of two weights, or a negative
\* one.
IllWeighed(p, h) ==
    Budgeted /\ \E e \in Selected(p, h) : /\ e.to \notin p.ground
                                         /\ \/ Len(Weight[e.label]) > 1
                                            \/ Len(Weight[e.label]) = 1 /\ Adds(e) < 0

\* Mutant: a return is not refused under a promise.
MutReturns(p, h) == FALSE

\* The hop leads back to a node the path blocks.
Returns(p, h) == \E e \in Selected(p, h) : e.to \in p.ground

-----------------------------------------------------------------------------
Init ==
    /\ graph \in Graphs /\ group \in Groups
    /\ pc = "entry" /\ count = 0
    /\ frontier = {Anchor} /\ flight = {} /\ arrived = {}
    /\ seen = {Start}
    /\ matches = {}
    /\ promise = ExactPromise /\ alive = ~SetWalk
    /\ refusal = None /\ answer = {}

\* An explicit ceiling, or a minimum, beyond the quantifier bound.
Beyond == \/ group.max # None /\ group.max > QuantifierBound
          \/ group.max = None /\ group.min > QuantifierBound

\* Mutant: an open walk stops at the quantifier bound without a probe.
MutNextRoundSilent(c, front) ==
    IF front = {} THEN "reach"
    ELSE IF SetWalk \/ c < Ceiling THEN "round" ELSE "reach"

\* Mutant: an empty frontier does not end the loop.
MutNextRoundOn(c, front) ==
    IF SetWalk \/ c < Ceiling \/ (Open /\ c = Ceiling)
    THEN IF front = {} THEN "hop" ELSE "round"
    ELSE "reach"

\* The loop goes on to another round.
NextRound(c, front) ==
    IF front = {} THEN "reach"
    ELSE IF SetWalk \/ c < Ceiling \/ (Open /\ c = Ceiling) THEN "round" ELSE "reach"

Into(S) == {[path |-> p, rest |-> a] : p \in S, a \in group.alts}

Entry ==
    /\ pc = "entry"
    /\ IF Beyond THEN /\ refusal' = "bound" /\ pc' = "done"
                      /\ UNCHANGED <<matches, frontier, flight>>
                 ELSE /\ matches' = IF group.min = 0 /\ Admits(Anchor)
                                    THEN {[path |-> Anchor, round |-> 0]} ELSE {}
                      /\ IF Lightest
                         THEN frontier' = {} /\ flight' = Into({Anchor}) /\ pc' = "hop"
                         ELSE UNCHANGED <<frontier, flight>> /\ pc' = NextRound(0, frontier)
                      /\ UNCHANGED refusal
    /\ UNCHANGED <<inputs, count, arrived, seen, promise, alive, answer>>

\* advance: every path into every alternative.  The round past the ceiling of
\* an open exact walk is the probe.
Round ==
    /\ pc = "round"
    /\ count' = count + 1
    /\ flight' = Into(frontier)
    /\ arrived' = {}
    /\ pc' = "hop"
    /\ UNCHANGED <<inputs, frontier, seen, matches, promise, alive, refusal, answer>>

\* The refusals a hop can meet; the adapter's order says which is first.
Refusals == {r \in {"cycle", "weight"} : \E f \in flight :
               \/ r = "cycle" /\ promise /\ Returns(f.path, Head(f.rest))
               \/ r = "weight" /\ IllWeighed(f.path, Head(f.rest))}

\* expand_elems, a hop of all alternatives; a return to a blocked node is
\* dropped, or refused under a promise.
Hop ==
    /\ pc = "hop" /\ flight # {}
    /\ IF Refusals # {}
       THEN /\ refusal' \in Refusals /\ pc' = "done"
            /\ UNCHANGED <<flight, arrived>>
       ELSE LET hopped == UNION {{[path |-> q, rest |-> Tail(f.rest)] :
                                    q \in Hops(f.path, Head(f.rest))} : f \in flight}
            IN /\ flight' = {f \in hopped : f.rest # <<>>}
               /\ arrived' = arrived \union {f.path : f \in {g \in hopped : g.rest = <<>>}}
               /\ UNCHANGED <<refusal, pc>>
    /\ UNCHANGED <<inputs, count, frontier, seen, matches, promise, alive, answer>>

\* merge_by_position: one path per node and arriving edge, grounds united.
MergeByPosition(S) ==
    {[p EXCEPT !.ground = UNION {q.ground : q \in {r \in S : r.node = p.node /\ r.edge = p.edge}}] :
        p \in S}

\* One path of S for each node outside `spent`: the first in the adapter's
\* order, which is any.
OnePerNode(S, spent) ==
    LET new == {p.node : p \in S} \ spent
    IN {{pick[n] : n \in new} :
          pick \in {f \in [new -> S] : \A n \in new : f[n].node = n}}

\* dedup_paths: one path per node, ground and arriving edge, the first in the
\* adapter's order.  The key has no total.
KeyOf(p) == <<p.node, p.ground, p.edge>>
OnePerKey(S) ==
    LET twins == {p \in S : \E q \in S : q # p /\ KeyOf(q) = KeyOf(p)}
    IN {(S \ twins) \union T : T \in {U \in SUBSET twins :
          \A p \in twins : \E q \in U : {r \in U : KeyOf(r) = KeyOf(p)} = {q}}}

\* Mutant: the promise is kept whatever is crossed.
MutHeld == TRUE

\* The promise is kept while every edge crossed is promised, and lapses with
\* the first that is not.
Held == \A p \in arrived : p.edge.label \in Promised

\* The end of a round: the promise, the merge, the bounds, the matches.
EndRound ==
    /\ pc = "hop" /\ flight = {} /\ ~Lightest
    /\ alive' = (alive /\ Held)
    /\ promise' = IF alive THEN Held /\ (promise \/ arrived # {}) ELSE promise
    /\ frontier' \in IF SetWalk THEN OnePerNode(arrived, seen)
                     ELSE {IF NodeLevel /\ ~Budgeted /\ alive' /\ promise'
                           THEN MergeByPosition(S) ELSE S : S \in OnePerKey(arrived)}
    /\ seen' = IF SetWalk THEN seen \union {p.node : p \in frontier'} ELSE seen
    /\ LET found == {[path |-> p, round |-> count] : p \in {q \in frontier' : Admits(q)}}
           tooMany == Cardinality(frontier') > FrontierBound
           probed == Open /\ count > Ceiling
       IN \/ /\ probed /\ frontier' # {}
             /\ refusal' = "open" /\ pc' = "done"
             /\ UNCHANGED matches
          \/ /\ probed /\ frontier' = {}
             /\ pc' = "reach"
             /\ UNCHANGED <<matches, refusal>>
          \/ /\ ~probed /\ tooMany
             /\ refusal' = "frontier" /\ pc' = "done"
             /\ UNCHANGED matches
          \/ /\ ~probed /\ ~tooMany
             /\ matches' = IF count >= group.min THEN matches \union found ELSE matches
             /\ pc' = IF group.reach = "proximal" /\ count >= group.min /\ found # {}
                      THEN "reach" ELSE NextRound(count, frontier')
             /\ UNCHANGED refusal
    /\ UNCHANGED <<inputs, count, flight, arrived, answer>>

\* The hops a path of an exact walk has taken.
Taken(p) == Cardinality(p.ground) - 1

\* Mutant: the pending paths are taken in any order.
MutLeast(S) == S

Least(S) == {p \in S : \A q \in S : p.total <= q.total}

\* The loop of the lightest walks: the least total first; a node is settled once,
\* and matches or not then; the walk stops at the bound on hops, and with the
\* bound on rounds.
Settle ==
    /\ pc = "settle" /\ frontier # {}
    /\ count' = count + 1
    /\ IF count' > QuantifierBound * FrontierBound
       THEN pc' = "reach" /\ UNCHANGED <<frontier, flight, arrived, seen, matches>>
       ELSE \E p \in Least(frontier) :
              LET new == p.node \notin seen
                  on == new /\ Taken(p) < QuantifierBound
              IN /\ frontier' = frontier \ {p}
                 /\ seen' = seen \union {p.node}
                 /\ matches' = IF new /\ Admits(p) THEN matches \union {[path |-> p, round |-> 0]}
                                                  ELSE matches
                 /\ flight' = IF on THEN Into({p}) ELSE {}
                 /\ arrived' = {}
                 /\ pc' = IF on THEN "hop" ELSE "settle"
    /\ UNCHANGED <<inputs, promise, alive, refusal, answer>>

\* What was reached joins the pending paths, unless it is settled already.
Pend ==
    /\ pc = "hop" /\ flight = {} /\ Lightest
    /\ frontier' = frontier \union {p \in arrived : p.node \notin seen}
    /\ IF count > 0 /\ Cardinality(frontier') > FrontierBound
       THEN refusal' = "frontier" /\ pc' = "done"
       ELSE pc' = "settle" /\ UNCHANGED refusal
    /\ UNCHANGED <<inputs, count, flight, arrived, seen, matches, promise, alive, answer>>

\* Nothing is pending.
Settled ==
    /\ pc = "settle" /\ frontier = {}
    /\ pc' = "reach"
    /\ UNCHANGED <<inputs, count, frontier, flight, arrived, seen, matches, promise, alive,
                   refusal, answer>>

\* The reach: all matches, or those of the first or the last round that has a
\* match; under a budget every node settled, or those of the greatest total.
Tier(m) == \/ group.reach = "all" \/ Lightest
           \/ group.reach = "proximal" /\ \A n \in matches : m.round <= n.round
           \/ group.reach = "distal" /\ \A n \in matches :
                IF Budgeted THEN n.path.total <= m.path.total ELSE n.round <= m.round

\* Mutant: a marker answers every walk of its round.
MutReach ==
    /\ pc = "reach"
    /\ answer' = {m \in matches : Tier(m)}
    /\ pc' = "done"
    /\ UNCHANGED <<inputs, count, frontier, flight, arrived, seen, matches, promise, alive, refusal>>

Reach ==
    /\ pc = "reach"
    /\ LET kept == {m \in matches : Tier(m)}
       IN IF group.reach = "all" \/ Lightest THEN answer' = kept
          ELSE \E once \in OnePerNode({m.path : m \in kept}, {}) :
                 answer' = {m \in kept : m.path \in once}
    /\ pc' = "done"
    /\ UNCHANGED <<inputs, count, frontier, flight, arrived, seen, matches, promise, alive, refusal>>

Terminated == pc = "done" /\ UNCHANGED vars

Next == Entry \/ Round \/ Hop \/ EndRound \/ Settle \/ Pend \/ Settled \/ Reach \/ Terminated

Spec == Init /\ [][Next]_vars
LiveSpec == Spec /\ WF_vars(Next)

-----------------------------------------------------------------------------
(***************************************************************************)
(* What a walk answers, defined on routes: the acyclic walks of the graph  *)
(* that the group matches in k rounds.                                     *)
(***************************************************************************)
EndOf(r) == IF r = <<>> THEN Start ELSE r[Len(r)].to
Visited(r) == {Start} \union {r[i].to : i \in DOMAIN r}
Acyclic(r) == /\ \A i, j \in DOMAIN r : r[i].to = r[j].to => i = j
              /\ \A i \in DOMAIN r : r[i].to # Start

\* The routes through an alternative from a node.
Through(n, a) == {r \in [1..Len(a) -> graph] :
                    /\ r[1].from = n
                    /\ \A i \in DOMAIN a : Crosses(a[i], r[i].label)
                    /\ \A i \in 1..(Len(a) - 1) : r[i + 1].from = r[i].to}

\* The weight of a route, and whether every walk up to its end is within the
\* budget.
TotalOf(r) ==
    LET sum[i \in 0..Len(r)] == IF i = 0 THEN 0 ELSE sum[i - 1] + Adds(r[i]) IN sum[Len(r)]
Within(r) ==
    Budgeted => /\ \A i \in DOMAIN r : Len(Weight[r[i].label]) = 1
                /\ group.budget.ceiling # None =>
                     \A i \in DOMAIN r : TotalOf(SubSeq(r, 1, i)) <= group.budget.ceiling

Longest == Cardinality(Nodes) - 1
Walks[k \in 0..Longest] ==
    IF k = 0 THEN {<<>>}
    ELSE {r \in UNION {{q \o s : s \in UNION {Through(EndOf(q), a) : a \in group.alts}} :
                         q \in Walks[k - 1]} : Acyclic(r) /\ Within(r)}

AsPath(r) == [node |-> EndOf(r), ground |-> Visited(r),
              edge |-> IF r = <<>> THEN None ELSE r[Len(r)], total |-> TotalOf(r)]
AllWalks == UNION {Walks[k] : k \in 0..Longest}
FoundAt(k) == {r \in Walks[k] : Admits(AsPath(r))}
Tiers == {k \in 0..Longest : /\ group.min <= k /\ (group.max # None => k <= group.max)
                             /\ FoundAt(k) # {}}
Reached == {k \in Tiers : \/ group.reach = "all" \/ Budgeted
                          \/ group.reach = "proximal" /\ \A j \in Tiers : k <= j
                          \/ group.reach = "distal" /\ \A j \in Tiers : j <= k}
Found == UNION {FoundAt(k) : k \in Reached}

\* The distal reach under a budget is the heaviest.
Chosen == IF Budgeted /\ group.reach = "distal"
          THEN {r \in Found : \A q \in Found : TotalOf(q) <= TotalOf(r)} ELSE Found
Answered == pc = "done" /\ refusal = None

\* Walks of one ground and arriving edge weigh the same.
TotalsAgree == \A q, r \in AllWalks :
    KeyOf(AsPath(q)) = KeyOf(AsPath(r)) => TotalOf(q) = TotalOf(r)

\* Where walks meet under a promise they have visited the same nodes, so that
\* uniting their grounds tells nothing less; the promise is read from the edges
\* the rounds so far arrived by.
ArrivesPromised(k) == \A j \in 1..k : \A r \in Walks[j] : r[Len(r)].label \in Promised
MergesTell == \A k \in 0..Longest : ArrivesPromised(k) =>
    \A q, r \in Walks[k] : AsPath(q).node = AsPath(r).node /\ AsPath(q).edge = AsPath(r).edge
                           => Visited(q) = Visited(r)

SingleHops == \A al \in group.alts : Len(al) = 1

-----------------------------------------------------------------------------
\* Types of the state; nothing is answered before the walk is done.
TypeOK ==
    /\ graph \in Graphs /\ group \in Groups
    /\ pc \in {"entry", "round", "hop", "settle", "reach", "done"} /\ count \in Nat
    /\ frontier \subseteq PathType /\ arrived \subseteq PathType
    /\ flight \subseteq [path : PathType, rest : Seq(Labels \union {Star}) \ {<<>>}]
    /\ seen \subseteq Nodes
    /\ matches \subseteq [path : PathType, round : Nat]
    /\ answer \subseteq matches /\ (pc # "done" => answer = {})
    /\ promise \in BOOLEAN /\ alive \in BOOLEAN
    /\ refusal \in {None, "bound", "cycle", "weight", "frontier", "open"}

\* A walk that is not refused answers the nodes the acyclic walks of its tiers
\* end at, however it was expanded: by history, by node or by position, with
\* or without a promise, and however many rounds the bound allows.  A walk by
\* node does so when a round is one hop and no predicate asks for the edge; a
\* budgeted one when no two of its walks differ in their totals alone; one that
\* merges by position when the promise it merged under never lapses, or the
\* merges united nothing.
Complete == {m.path.node : m \in answer} = {EndOf(r) : r \in Chosen}
CompleteOrRefused ==
    (/\ Answered /\ ~Lightest
     /\ Budgeted => TotalsAgree
     /\ SetWalk => group.labels = Labels /\ SingleHops
     /\ NodeLevel /\ ~SetWalk /\ ~Budgeted => alive \/ MergesTell) => Complete

\* An exact walk for all matches answers one path for every ground, arriving
\* edge and round of an acyclic walk.
GroundsAnswered ==
    (Answered /\ group.reach = "all" /\ ~NodeLevel /\ (Budgeted => TotalsAgree)) =>
        answer = UNION {{[path |-> AsPath(r), round |-> k] : r \in FoundAt(k)} : k \in Reached}

\* A marker answers each node once, all of them from one round, or of one total
\* where a budget asks for the heaviest.
EquidistantOnce ==
    (Answered /\ group.reach # "all") =>
        \A m, n \in answer : /\ m.path.node = n.path.node => m = n
                             /\ ~Budgeted => m.round = n.round
                             /\ Budgeted /\ ~Lightest => m.path.total = n.path.total

\* "each node settled once, at its least total": the lightest walks answer every
\* node within the budget, once, with the least total of the walks that end
\* there, where no predicate asks for the walk (an edge, a floor), the bounds on
\* hops and rounds end nothing, and no walk crosses an edge of negative weight:
\* one that leads back to a node of the settled walk is not refused.
LightestAnswered ==
    (/\ Answered /\ Lightest
     /\ group.budget.floor = 0 /\ group.labels = Labels
     /\ \A r \in AllWalks : Len(r) <= QuantifierBound /\ \A i \in DOMAIN r : Adds(r[i]) >= 0
     /\ count <= QuantifierBound * FrontierBound) =>
        {<<m.path.node, m.path.total>> : m \in answer} =
            {<<EndOf(r), TotalOf(r)>> : r \in {q \in Found : \A o \in AllWalks :
                EndOf(o) = EndOf(q) => TotalOf(q) <= TotalOf(o)}}

\* The nodes are settled by their totals: whatever is pending or under way is no
\* lighter than what was answered, so no later walk improves on it.
UnderWay == frontier \union arrived \union {f.path : f \in flight}
SettledInOrder ==
    (Lightest /\ pc \in {"hop", "settle"}) =>
        \A m \in matches, p \in UnderWay : m.path.total <= p.total

\* The walk r closes a cycle of promised edges with a further one of some label.
NextEdges(r) == {e \in graph : e.from = EndOf(r) /\ \E al \in group.alts : Crosses(al[1], e.label)}
Closes(r, last) == \E e \in NextEdges(r) :
    /\ e.label \in last
    /\ \/ e.to = Start /\ \A i \in DOMAIN r : r[i].label \in Promised
       \/ \E i \in DOMAIN r : /\ r[i].to = e.to
                              /\ \A j \in DOMAIN r : j > i => r[j].label \in Promised

\* A refusal has its cause in the data: more walks than the frontier bound, where
\* a path has one of its own (every merged walk is of single hops); a walk longer
\* than the quantifier bound; an edge that weighs twice or less than nothing; and,
\* where a round is one hop, a cycle of promised links, the last of which may be
\* another where the group names other links, or none.
RefusedForCause ==
    /\ refusal = "frontier" /\ (NodeLevel /\ ~Budgeted => SingleHops) =>
         FrontierBound < Cardinality(IF Lightest THEN AllWalks ELSE Walks[count])
    /\ refusal = "weight" => \E r \in AllWalks : \E e \in graph :
         e.from = EndOf(r) /\ (Len(Weight[e.label]) > 1 \/ Adds(e) < 0)
    /\ refusal = "open" => Longest > QuantifierBound /\ Walks[QuantifierBound + 1] # {}
    /\ refusal = "cycle" /\ SingleHops => \E r \in AllWalks :
         Closes(r, IF ExactPromise THEN Promised ELSE Labels)

\* "no bound ends such a walk silently": an open walk for all matches that
\* answers under a promise met no cycle of promised links, where it is exact,
\* and none through the anchor, where it goes by node.
CyclesRefused ==
    (/\ Answered /\ group.reach = "all" /\ group.max = None /\ ExactPromise
     /\ Budgeted => TotalsAgree) =>
        \A r \in AllWalks : IF SetWalk THEN \A e \in NextEdges(r) : e.to # Start
                                       ELSE ~Closes(r, Promised)

\* No walk by rounds takes more of them than the graph has nodes, whatever its
\* cycles and however high the bounds: a set walk has no other bound.
RoundsBounded == ~Lightest => count <= Cardinality(Nodes)

\* Why, inductively: every round spends a position of a set walk, and adds to
\* the ground of every path of an exact one.
Covered(S, n) == \A p \in S : n <= Cardinality(p.ground)
MeasureInv ==
    ~Lightest =>
      /\ pc # "settle"
      /\ count <= Cardinality(Nodes)
      /\ pc = "round" => frontier # {}
      /\ pc = "entry" => count = 0 /\ frontier = {Anchor} /\ seen = {Start}
      /\ SetWalk => /\ pc = "round" => count < Cardinality(seen)
                    /\ pc = "hop" => count <= Cardinality(seen)
      /\ ~SetWalk => /\ pc = "round" => Covered(frontier, count + 1)
                     /\ pc = "hop" => /\ Covered({f.path : f \in flight}, count)
                                      /\ Covered(arrived, count + 1)

\* expand_group returns.
Ends == <>(pc = "done")

(***************************************************************************)
(* What the code's comments say, and runs of the model refute.             *)
(***************************************************************************)

\* "the forms whose answer the distance expansion gives exactly, since the nodes
\* some acyclic walk reaches are the nodes a shortest walk reaches": whatever
\* its alternatives and predicates, a walk by node is complete.
DistanceIsExact == Answered /\ SetWalk => Complete

\* "The promise changes no answer": "it merges the histories only where nothing
\* read could tell them apart".
PromiseChangesNoAnswer == (Answered /\ NodeLevel /\ ~SetWalk /\ ~Budgeted) => Complete
=============================================================================
