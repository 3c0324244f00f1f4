------------------------------- MODULE MCWalk -------------------------------
(***************************************************************************)
(* Instances of Walk for TLC: every graph over a few nodes, walked by      *)
(* groups of every form.                                                   *)
(***************************************************************************)
EXTENDS Walk, TLC

CONSTANTS a, b, c, d, x, y

Arc(n, l, m) == [from |-> n, label |-> l, to |-> m]
Group(alts, min, max, reach, level, nodes, labels) ==
    [alts |-> alts, min |-> min, max |-> max, reach |-> reach, nodeLevel |-> level,
     nodes |-> nodes, labels |-> labels, budget |-> None]

\* One edge weighs 1, another 3; a label that weighs nothing in the dimension, one
\* with two properties of it, and a negative one.
Weights == [l \in Labels |-> CASE l = "e" -> <<1>> [] l = "f" -> <<3>> [] l = "none" -> <<>>
                              [] l = "two" -> <<1, 2>> [] l = "less" -> <<-2>>]

\* Every graph of e-links between distinct nodes; a link back to the anchor is
\* never taken.
FourNodes == Nodes \ {x, y}
Plain == IF "f" \in Labels THEN "f" ELSE "e"
PlainGraphs == SUBSET {[from |-> p[1], label |-> Plain, to |-> p[2]] :
                        p \in {q \in FourNodes \X (FourNodes \ {Start}) : q[1] # q[2]}}
E1 == {<<Plain>>}

\* The groups over one hop ->e: open and closed, for every reach, with a
\* predicate that one node alone passes, and one that all pass.
Forms == {<<0, None>>, <<1, None>>, <<2, None>>, <<0, 2>>, <<2, 2>>, <<1, 3>>}
Reaches == {"all", "proximal", "distal"}
PlainGroups == {Group(E1, f[1], f[2], r, l, n, Labels) :
                  f \in Forms, r \in Reaches, l \in BOOLEAN, n \in {Nodes, {b}}}

\* Five nodes in which two routes meet before a last edge, with or without
\* cycles, of the promised label e; f closes a cycle and is not promised, and is
\* crossed from the first round on, or later, or never.
MeetArcs == {Arc(a, "e", b), Arc(a, "e", c), Arc(b, "e", c), Arc(b, "e", d), Arc(c, "e", d),
             Arc(d, "e", x), Arc(x, "e", b), Arc(x, "e", c), Arc(c, "e", a)}
Unpromised == {{Arc(a, "f", b), Arc(b, "f", c), Arc(c, "f", b)}, {Arc(c, "f", b)}, {Arc(x, "f", b)}}
MeetGraphs == {S \union T : S \in SUBSET MeetArcs, T \in Unpromised}
MeetGroups == {Group({<<l>>}, f[1], f[2], r, v, Nodes, Labels) :
                 l \in {"e", "f"}, f \in {<<0, None>>, <<1, None>>, <<2, None>>, <<2, 3>>},
                 r \in Reaches, v \in BOOLEAN} \union
              {Group(h, 0, None, r, v, Nodes, Labels) :
                 h \in {{<<Star>>}, {<<"e">>, <<"f">>}}, r \in Reaches, v \in BOOLEAN}

\* A promise that lapses: two routes meet, go on by a promised edge and then by
\* another, from which the way leads back to one of them.
LapseGraphs == {S \union {Arc(x, "f", y), Arc(y, "f", b)} :
                  S \in SUBSET {Arc(a, "e", b), Arc(a, "e", c), Arc(b, "e", d), Arc(c, "e", d),
                                Arc(d, "e", x)}}
LapseGroups == {Group({<<Star>>}, m, None, "all", TRUE, Nodes, Labels) : m \in {1, 2}}

\* Alternatives of two hops, and of one or two.
HopGroups == {Group(h, f[1], f[2], r, l, Nodes, Labels) :
                h \in {{<<Plain, Plain>>}, {<<Plain>>, <<Plain, Plain>>}},
                f \in {<<0, None>>, <<2, None>>, <<1, 2>>}, r \in Reaches, l \in BOOLEAN}

AllGroups == PlainGroups \union HopGroups

\* (->e->e)+ read by node.
TwoHops == {Group({<<Plain, Plain>>}, 1, None, "all", TRUE, Nodes, Labels)}

\* Roads: two ways round a diamond and on, of different weights, with or without
\* an edge that has no weight, two of them, or a negative one.
Roads == {Arc(a, "e", b), Arc(a, "f", c), Arc(b, "f", c), Arc(c, "e", b), Arc(b, "f", d),
          Arc(c, "e", d), Arc(d, "e", x)}
RoadGraphs == {S \union T : S \in SUBSET Roads,
                 T \in {{}, {Arc(d, "less", c)}} \union {{Arc(c, l, x)} : l \in {"none", "two", "less"}}}
Budgets == {[floor |-> 0, ceiling |-> None], [floor |-> 0, ceiling |-> 4],
            [floor |-> 4, ceiling |-> 6]}
RoadGroups == {[Group({<<Star>>}, 0, None, r, FALSE, w[1], w[2]) EXCEPT !.budget = bu] :
                 r \in Reaches, bu \in Budgets,
                 w \in {<<Nodes, Labels>>, <<{d, x}, Labels>>, <<Nodes, {"e"}>>}}

\* The families at once: a graph with the groups that are asked of it.
AllGraphs == PlainGraphs \union MeetGraphs \union RoadGraphs
AskedGroups == AllGroups \union MeetGroups \union RoadGroups
AskedInit == /\ \/ graph \in PlainGraphs /\ group \in AllGroups
                \/ graph \in MeetGraphs /\ group \in MeetGroups
                \/ graph \in RoadGraphs /\ group \in RoadGroups
             /\ Init
AskedSpec == AskedInit /\ [][Next]_vars /\ WF_vars(Next)
=============================================================================
