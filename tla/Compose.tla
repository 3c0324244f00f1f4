------------------------------ MODULE Compose ------------------------------
(***************************************************************************)
(* The composing layer over one source (quarb-compose/src/lib.rs): a leaf  *)
(* whose text is a document in a notation it is declared in has that       *)
(* document's nodes beneath it, read when the leaf is first touched and    *)
(* kept; a hop <NOTATION> asks for a reading of its own.  The root of a    *)
(* document is the leaf itself; its other nodes get ids from an intern     *)
(* table.  The operators give, of a layer, the layer after a question and  *)
(* the nodes that answer it.                                               *)
(*                                                                         *)
(* A source's nodes are its root 0 and its leaves 1..n.  A layer is        *)
(*   grafts  the documents read, in order: the leaf a document stands at   *)
(*           (or, of a text grafted on demand, its own id), what it was    *)
(*           read as, and whether it is such a free one                    *)
(*   probed  the leaves tried: the graft of each, or Nothing               *)
(*   table   the intern table: document and node within it                 *)
(*   whole   whether the source was told to list whole tables              *)
(***************************************************************************)
EXTENDS Naturals, Sequences, FiniteSets

CONSTANTS None,      \* no notation
          Notations, \* what a hop may name
          Readings,  \* those, and the readings a host makes by itself
          Doc,       \* of each reading, a document: the children of each node, the root being 0
          Graft      \* GRAFT_BIT: an id from here on indexes the table

ASSUME ReadingsAssumption == Notations \subseteq Readings /\ None \notin Readings
ASSUME GraftAssumption == Graft \in Nat \ {0}
ASSUME DocAssumption ==
    \A r \in Readings :
      /\ 0 \in DOMAIN Doc[r] /\ DOMAIN Doc[r] \subseteq Nat /\ IsFiniteSet(DOMAIN Doc[r])
      /\ \A i \in DOMAIN Doc[r] : Doc[r][i] \subseteq DOMAIN Doc[r] \ {0}
\* A document is a tree: its reader gives each node the one parent that lists it.
ASSUME TreeAssumption ==
    \A r \in Readings : \A i, j \in DOMAIN Doc[r] : Doc[r][i] \cap Doc[r][j] # {} => i = j

Nothing == 0
Probes == UNION {[leaves -> Nat] : leaves \in SUBSET Nat}
Layers == [grafts : Seq([at : Nat, reading : Readings, free : BOOLEAN]),
           probed : Probes,
           table : Seq(Nat \X Nat),
           whole : BOOLEAN]
Fresh == [grafts |-> <<>>, probed |-> <<>>, table |-> <<>>, whole |-> FALSE]
\* whole_listings, as far as this layer is told.
Told(layer, told) == [grafts |-> layer.grafts, probed |-> layer.probed, table |-> layer.table,
                      whole |-> told]

\* What a leaf's text is parsed as, when a hop asks for a notation (or None): the
\* host's own reading first; else the notation asked for, declared (by the column, by
\* ?format=, by the extension), or said by the text itself, which of a leaf with an
\* extension no reader takes is not looked at.
ReadAs(leaf, asked) ==
    LET stated == IF asked # None THEN asked ELSE leaf.declared
        notation == IF stated # None THEN stated
                    ELSE IF leaf.opaque THEN None ELSE leaf.says
    IN IF leaf.host # None THEN leaf.host ELSE IF notation \in leaf.parses THEN notation ELSE None

Marked(probed, k, g) == [l \in DOMAIN probed \union {k} |-> IF l = k THEN g ELSE probed[l]]

\* graft_probe: once per leaf, and in a layer that grafts on demand only never unasked.
Probe(source, layer, k, asked) ==
    IF (source.onDemand /\ asked = None) \/ k \in DOMAIN layer.probed THEN layer
    ELSE LET reading == ReadAs(source.leaves[k], asked)
         IN IF reading = None
            THEN [grafts |-> layer.grafts, probed |-> Marked(layer.probed, k, Nothing),
                  table |-> layer.table, whole |-> layer.whole]
            ELSE [grafts |-> Append(layer.grafts, [at |-> k, reading |-> reading, free |-> FALSE]),
                  probed |-> Marked(layer.probed, k, Len(layer.grafts) + 1),
                  table |-> layer.table, whole |-> layer.whole]

\* The document at a leaf, as any question but a hop's is answered from it.
GraftAt(source, layer, k) ==
    IF source.onDemand THEN Nothing ELSE Probe(source, layer, k, None).probed[k]

\* graft_as: what a leaf is read as stays; a leaf that read as nothing is tried again.
Forget(layer, k) ==
    [grafts |-> layer.grafts, probed |-> [l \in DOMAIN layer.probed \ {k} |-> layer.probed[l]],
     table |-> layer.table, whole |-> layer.whole]
\* Mutant: the leaf is read anew for each notation asked of it.
MutGraftAs(source, layer, k, asked) == Probe(source, Forget(layer, k), k, asked)
\* Mutant: a leaf that read as nothing is not tried again.
MutGraftAsOnce(source, layer, k, asked) == Probe(source, layer, k, asked)
GraftAs(source, layer, k, asked) ==
    IF k \in DOMAIN layer.probed /\ layer.probed[k] # Nothing THEN layer
    ELSE Probe(source, Forget(layer, k), k, asked)

-----------------------------------------------------------------------------
\* split: the node behind an id of the table.
Interned(layer, id) == id >= Graft /\ id - Graft < Len(layer.table)
Split(layer, id) == layer.table[id - Graft + 1]
InTable(layer) == {layer.table[k] : k \in DOMAIN layer.table}

\* intern, of nodes in any order.
Numbered(S) == CHOOSE f \in [1..Cardinality(S) -> S] :
                 \A x \in S : \E k \in 1..Cardinality(S) : f[k] = x
Intern(layer, S) ==
    [grafts |-> layer.grafts, probed |-> layer.probed,
     table |-> layer.table \o Numbered(S \ InTable(layer)), whole |-> layer.whole]
IdOf(layer, g, i) == Graft + (CHOOSE k \in DOMAIN layer.table : layer.table[k] = <<g, i>>) - 1

\* wrap: the root of a document is the leaf it stands at.
Wrap(layer, g, i) == IF i = 0 THEN layer.grafts[g].at ELSE IdOf(layer, g, i)

\* Nodes of the document g, as the layer answers them.
\* Mutant: the root of a document is a node of its own.
MutShow(layer, g, nodes) ==
    LET after == Intern(layer, {<<g, i>> : i \in nodes})
    IN [layer |-> after, ids |-> {IdOf(after, g, i) : i \in nodes}]
Show(layer, g, nodes) ==
    LET after == Intern(layer, {<<g, i>> : i \in nodes \ {0}})
    IN [layer |-> after, ids |-> {Wrap(after, g, i) : i \in nodes}]

Document(layer, g) == Doc[layer.grafts[g].reading]

\* The leaves the source lists: all, once it was told to (whole_listings).
Listed(source, layer) ==
    {k \in DOMAIN source.leaves : layer.whole \/ ~source.leaves[k].narrowed}

ChildrenOf(source, layer, id) ==
    IF Interned(layer, id)
    THEN Show(layer, Split(layer, id)[1], Document(layer, Split(layer, id)[1])[Split(layer, id)[2]])
    ELSE IF id \notin DOMAIN source.leaves THEN [layer |-> layer, ids |-> Listed(source, layer)]
    ELSE LET after == Probe(source, layer, id, None)
             g == GraftAt(source, layer, id)
         IN IF g = Nothing THEN [layer |-> after, ids |-> {}]
            ELSE Show(after, g, Document(after, g)[0])

\* The node t of the document that a node or leaf belongs to: a child by name, a
\* parent, the end of a link or a reference, the bearer of a fragment.
FollowTo(source, layer, id, t) ==
    IF Interned(layer, id) THEN Show(layer, Split(layer, id)[1], {t})
    ELSE LET after == Probe(source, layer, id, None)
             g == GraftAt(source, layer, id)
         IN IF g = Nothing THEN [layer |-> after, ids |-> {}] ELSE Show(after, g, {t})

\* The nodes it may be: those of the document, as it is after the leaf was read.
Reachable(source, layer, id) ==
    IF Interned(layer, id) THEN DOMAIN Document(layer, Split(layer, id)[1])
    ELSE LET after == Probe(source, layer, id, None)
             g == GraftAt(source, layer, id)
         IN IF g = Nothing THEN {0} ELSE DOMAIN Document(after, g)

\* parent: of a document's node within the document, of a leaf the root; none above.
ParentOf(layer, id) ==
    IF ~Interned(layer, id) THEN [layer |-> layer, ids |-> IF id = 0 THEN {} ELSE {0}]
    ELSE LET g == Split(layer, id)[1]
         IN Show(layer, g, {p \in DOMAIN Document(layer, g) : Split(layer, id)[2] \in Document(layer, g)[p]})

\* graft_text: a document with no leaf, whose root stands for itself.
GraftText(layer, reading) ==
    LET g == Len(layer.grafts) + 1
    IN [grafts |-> Append(layer.grafts, [at |-> Graft + Len(layer.table), reading |-> reading, free |-> TRUE]),
        probed |-> layer.probed, table |-> Append(layer.table, <<g, 0>>), whole |-> layer.whole]
=============================================================================
