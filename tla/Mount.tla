------------------------------- MODULE Mount -------------------------------
(***************************************************************************)
(* A table of mounted sources (quarb-mount/src/lib.rs), each under its     *)
(* composing layer, asked by the queries of a session.  A mount that was   *)
(* declared is latent until a question reaches it; its opener runs then,   *)
(* once, and when it fails the query is refused and the mount stands       *)
(* empty.  An id packs the mount and the node within it.                   *)
(***************************************************************************)
EXTENDS Compose

CONSTANTS Source,    \* of each mount name, the source behind it
          Documents, \* the identities a leaf may be served under
          MaxMounts, \* MAX_MOUNTS
          MaxTexts,  \* bound: texts grafted on demand, in all
          MaxTests,  \* bound: leaves and notations tested, in all
          MaxIds     \* bound: ids interned, in all

RootAlias == 2 * Graft - 1  \* ROOT_ALIAS: all the bits of an inner id
NoSource == [onDemand |-> FALSE, broken |-> FALSE, leaves |-> <<>>]

Wellformed(leaf) == /\ leaf.host \in Readings \union {None}
                    /\ leaf.declared \in Notations \union {None}
                    /\ leaf.says \in Notations \union {None}
                    /\ leaf.parses \subseteq Notations
                    /\ leaf.opaque \in BOOLEAN /\ leaf.narrowed \in BOOLEAN
ASSUME SourceAssumption ==
    \A n \in DOMAIN Source :
      /\ Source[n].onDemand \in BOOLEAN /\ Source[n].broken \in BOOLEAN
      /\ DOMAIN Source[n].leaves = 1..Len(Source[n].leaves) /\ Len(Source[n].leaves) \in 0..Graft - 1
      /\ \A k \in DOMAIN Source[n].leaves : Wellformed(Source[n].leaves[k])
ASSUME BoundsAssumption ==
    MaxMounts \in Nat /\ MaxTexts \in Nat /\ MaxTests \in Nat /\ MaxIds \in Nat /\ MaxIds < Graft

VARIABLES mounts,   \* the table: name, declared or pushed, cell, composing layer
          whole,    \* whether the engine asked for whole listings
          refusals, \* the mounts whose opener failed in the query that runs
          tested    \* history: the notations hops named of leaves

vars == <<mounts, whole, refusals, tested>>

Names == DOMAIN Source

TypeOK == /\ mounts \in Seq([name : Names, declared : BOOLEAN, cell : {"latent", "open", "empty"},
                             layer : Layers])
          /\ whole \in BOOLEAN /\ refusals \subseteq Nat
          /\ tested \subseteq Nat \X Nat \X Notations

Init == mounts = <<>> /\ whole = FALSE /\ refusals = {} /\ tested = {}

-----------------------------------------------------------------------------
\* An id is the mount and the id within it (encode, decode); 0 is the root of the
\* table.  A stand-in root is the root.
Root == <<0, 0>>
Inner(id) == IF id[2] = RootAlias THEN 0 ELSE id[2]
Encode(m, ids) == {<<m, i>> : i \in ids}

\* The entry once its opener has run.
\* Mutant: a mount opened later is not told to list whole tables.
MutOpened(entry) ==
    IF entry.cell # "latent" THEN entry
    ELSE [name |-> entry.name, declared |-> entry.declared,
          cell |-> IF Source[entry.name].broken THEN "empty" ELSE "open", layer |-> Fresh]
Opened(entry) ==
    IF entry.cell # "latent" THEN entry
    ELSE [name |-> entry.name, declared |-> entry.declared,
          cell |-> IF Source[entry.name].broken THEN "empty" ELSE "open",
          layer |-> Told(Fresh, whole /\ ~Source[entry.name].broken)]
WithLayer(entry, layer) ==
    [name |-> entry.name, declared |-> entry.declared, cell |-> entry.cell, layer |-> layer]
SourceOf(entry) == IF entry.cell = "open" THEN Source[entry.name] ELSE NoSource

\* The table after a question that reached the mounts of `reached`.
OpenAll(reached) ==
    [m \in DOMAIN mounts |-> IF m \in reached THEN Opened(mounts[m]) ELSE mounts[m]]
\* The table in which the layer of m, opened, is another.
Relayered(m, layer) ==
    [n \in DOMAIN mounts |-> IF n = m THEN WithLayer(Opened(mounts[m]), layer) ELSE mounts[n]]

\* record_refusal, by the openers that failed.
Failed(table) == {m \in DOMAIN mounts : mounts[m].cell = "latent" /\ table[m].cell = "empty"}
InternedIn(table) == UNION {{m} \X DOMAIN table[m].layer.table : m \in DOMAIN table}
Become(table) == /\ Cardinality(InternedIn(table)) <= MaxIds
                 /\ mounts' = table /\ refusals' = refusals \union Failed(table)

-----------------------------------------------------------------------------
Admits(name) == /\ Len(mounts) < MaxMounts
                /\ \A m \in DOMAIN mounts : mounts[m].name # name

\* An opened mount is added; a mount whose opener has to run first is declared.
Push(name) == /\ Admits(name) /\ ~Source[name].broken
              /\ mounts' = Append(mounts, [name |-> name, declared |-> FALSE, cell |-> "open",
                                           layer |-> Fresh])
              /\ UNCHANGED <<whole, refusals, tested>>
Declare(name) == /\ Admits(name)
                 /\ mounts' = Append(mounts, [name |-> name, declared |-> TRUE, cell |-> "latent",
                                              layer |-> Fresh])
                 /\ UNCHANGED <<whole, refusals, tested>>

\* The ids the table may have handed out: of a declared mount the stand-in, of an
\* open one its root, its leaves and the nodes in its intern table.
InnerIds(entry) ==
    (IF entry.cell = "latent" THEN {} ELSE {0}) \union DOMAIN SourceOf(entry).leaves \union
    {Graft + k - 1 : k \in DOMAIN entry.layer.table}
HeldOf(m) == Encode(m, InnerIds(mounts[m]) \union (IF mounts[m].declared THEN {RootAlias} ELSE {}))
Held == {Root} \union UNION {HeldOf(m) : m \in DOMAIN mounts}

\* children of the root of the table: every mount opens.
ListRoot == Become(OpenAll(DOMAIN mounts)) /\ UNCHANGED <<whole, tested>>

\* children_named of it: that mount alone.
HopByName(name) == /\ Become(OpenAll({m \in DOMAIN mounts : mounts[m].name = name}))
                   /\ UNCHANGED <<whole, tested>>

Children(m, id) ==
    LET e == Opened(mounts[m])
    IN /\ Become(Relayered(m, ChildrenOf(SourceOf(e), e.layer, Inner(id)).layer))
       /\ UNCHANGED <<whole, tested>>

IsLeaf(entry, id) == Inner(id) \in DOMAIN SourceOf(entry).leaves

\* traits, a property, metadata: what the source cannot say the document may.
Touch(m, id) == /\ IsLeaf(mounts[m], id)
                /\ Become(Relayered(m, Probe(SourceOf(mounts[m]), mounts[m].layer, Inner(id), None)))
                /\ UNCHANGED <<whole, tested>>

\* has_trait, of a leaf and a notation.
Test(m, id, notation) ==
    /\ IsLeaf(mounts[m], id) /\ Cardinality(tested) < MaxTests
    /\ Become(Relayered(m, GraftAs(SourceOf(mounts[m]), mounts[m].layer, Inner(id), notation)))
    /\ tested' = tested \union {<<m, Inner(id), notation>>}
    /\ UNCHANGED whole

Follow(m, id) ==
    LET e == mounts[m]
    IN /\ IsLeaf(e, id) \/ Interned(e.layer, Inner(id))
       /\ \E t \in Reachable(SourceOf(e), e.layer, Inner(id)) :
            Become(Relayered(m, FollowTo(SourceOf(e), e.layer, Inner(id), t).layer))
       /\ UNCHANGED <<whole, tested>>

\* document_by_ref: the first open mount that serves it; its leaf is read.
Serves(m, d) == {k \in DOMAIN SourceOf(mounts[m]).leaves : SourceOf(mounts[m]).leaves[k].serves = d}
First(S) == CHOOSE m \in S : \A o \in S : m <= o
Fetch(d) ==
    LET serving == {m \in DOMAIN mounts : Serves(m, d) # {}}
        m == First(serving)
    IN /\ serving # {}
       /\ Become(Relayered(m, Probe(SourceOf(mounts[m]), mounts[m].layer, First(Serves(m, d)), None)))
       /\ UNCHANGED <<whole, tested>>

\* graft_text: in the first open mount (grafting_mount), or else the latent ones open
\* in order up to one that does open; the text may fail to parse.
Texts == {p \in (1..MaxMounts) \X (1..MaxIds) :
            /\ p[1] \in DOMAIN mounts /\ p[2] \in DOMAIN mounts[p[1]].layer.grafts
            /\ mounts[p[1]].layer.grafts[p[2]].free}
OpenMounts == {m \in DOMAIN mounts : mounts[m].cell = "open"}
Openable == {m \in DOMAIN mounts : mounts[m].cell = "latent" /\ ~Source[mounts[m].name].broken}
GraftOnDemand(notation) ==
    LET candidates == IF OpenMounts # {} THEN OpenMounts ELSE Openable
        table == OpenAll(IF OpenMounts # {} THEN {}
                         ELSE IF Openable # {} THEN 1..First(Openable) ELSE DOMAIN mounts)
    IN /\ \/ Become(table)
          \/ /\ candidates # {} /\ Cardinality(Texts) < MaxTexts
             /\ LET m == First(candidates)
                IN Become([n \in DOMAIN mounts |->
                             IF n = m THEN WithLayer(table[m], GraftText(table[m].layer, notation))
                             ELSE table[n]])
       /\ UNCHANGED <<whole, tested>>

\* whole_listings: every open mount is told.
WholeListings ==
    /\ whole' = TRUE
    /\ mounts' = [m \in DOMAIN mounts |->
                    IF mounts[m].cell = "open" THEN WithLayer(mounts[m], Told(mounts[m].layer, TRUE))
                    ELSE mounts[m]]
    /\ UNCHANGED <<refusals, tested>>

\* The query ends, refused or not; the next one starts with no refusal.
EndQuery == refusals # {} /\ refusals' = {} /\ UNCHANGED <<mounts, whole, tested>>

AskNode(m) == \E id \in HeldOf(m) : \/ Children(m, id) \/ Touch(m, id) \/ Follow(m, id)
                                     \/ \E n \in Notations : Test(m, id, n)

Next == \/ \E name \in Names : Push(name) \/ Declare(name) \/ HopByName(name)
        \/ ListRoot \/ WholeListings \/ EndQuery
        \/ \E m \in DOMAIN mounts : AskNode(m)
        \/ \E d \in Documents : Fetch(d)
        \/ \E n \in Notations : GraftOnDemand(n)

Spec == Init /\ [][Next]_vars
-----------------------------------------------------------------------------
\* What a leaf shows, if it was read; the node an id stands for.
ReadingAt(entry, k) ==
    IF k \in DOMAIN entry.layer.probed /\ entry.layer.probed[k] # Nothing
    THEN entry.layer.grafts[entry.layer.probed[k]].reading ELSE None
Meaning(entry, i) ==
    IF Interned(entry.layer, i)
    THEN LET graft == entry.layer.grafts[Split(entry.layer, i)[1]]
         IN <<graft.at, graft.reading, Split(entry.layer, i)[2]>>
    ELSE <<i, ReadingAt(entry, i), 0>>

\* The nodes of a document have ids for the life of the table: whatever is asked
\* afterwards, of this mount or another, an id stands for the node it was given to,
\* and a leaf that shows a document shows it for good (intern, graft_as, push).
IdsKeep ==
    [][\A m \in DOMAIN mounts : \A i \in InnerIds(mounts[m]) :
         Meaning(mounts[m], i)[2] # None => Meaning(mounts'[m], i) = Meaning(mounts[m], i)]_vars

\* The engine tells nodes apart by their ids: within a mount no two ids stand for one
\* node, the root of a document and the leaf it stands at included (wrap, intern).
OneIdPerNode ==
    \A m \in DOMAIN mounts : \A i, j \in InnerIds(mounts[m]) :
      Meaning(mounts[m], i) = Meaning(mounts[m], j) => i = j

\* Up undoes down: the parent of every node a listing gives is the node listed, over
\* the edge of a document too, and a node held is listed by its parent, unless its
\* source lists a part and the engine did not ask for the whole (children, parent,
\* whole_listings; a mount declared hears it when it opens, one pushed later never).
TreeAgrees ==
    \A m \in OpenMounts : \A i \in InnerIds(mounts[m]) :
      LET source == SourceOf(mounts[m])
          layer == mounts[m].layer
          down == ChildrenOf(source, layer, i)
          up == ParentOf(layer, i)
      IN /\ \A c \in down.ids : ParentOf(down.layer, c).ids = {i}
         /\ \A p \in up.ids :
              \/ i \in ChildrenOf(source, up.layer, p).ids
              \/ /\ i \in DOMAIN source.leaves /\ source.leaves[i].narrowed
                 /\ ~layer.whole /\ (mounts[m].declared => ~whole)

\* What a leaf shows comes from itself and the hops that named it alone: what its host
\* or its declaration says, or a notation a hop named that it parses as; nothing only
\* when it parses as none of those, a declaration excepted that a hop was before.
ReadsAsAsked ==
    \A m \in OpenMounts : \A k \in DOMAIN mounts[m].layer.probed :
      LET source == SourceOf(mounts[m])
          own == ReadAs(source.leaves[k], None)
          hops == {n \in Notations : <<m, k, n>> \in tested}
          shown == ReadingAt(mounts[m], k)
          takes == hops \intersect source.leaves[k].parses
      IN IF shown = None THEN takes = {} /\ (own # None => hops # {})
         ELSE \/ shown \in takes
              \/ shown = own /\ (source.onDemand => source.leaves[k].host # None)
=============================================================================
