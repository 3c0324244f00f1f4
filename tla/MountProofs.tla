---------------------------- MODULE MountProofs ----------------------------
(***************************************************************************)
(* Proofs about a table of mounts and their composing layers (Mount), for  *)
(* any sources, documents and bounds: the ids handed out keep standing for *)
(* the nodes they were given to, one each, what a leaf shows comes from    *)
(* itself and the hops that named it, and up undoes down.                  *)
(*                                                                         *)
(* Every operation of a layer keeps a layer sound (LayerOK: what the       *)
(* tables say of each other) and only adds to it (Grows).  That up undoes  *)
(* down holds of sound layers (GoingDown, GoingUp), but for two things the *)
(* steps must also keep (TreeInv): where documents are grafted on demand   *)
(* alone, no node of a document at a leaf is interned, for its parent's    *)
(* listing would not show it; and a declared mount lists whole tables once *)
(* the engine asked.                                                       *)
(***************************************************************************)
EXTENDS Mount, FiniteSetTheorems, SequenceTheorems, TLAPS, WellFoundedInduction

GraftSet == [at : Nat, reading : Readings, free : BOOLEAN]

\* The leaf tried points to the document that stands at it, and back; of the nodes in
\* the intern table none is there twice, and only free documents have their root in it.
LayerOK(source, l) ==
    /\ l \in Layers
    /\ \A k \in DOMAIN l.probed :
         /\ k \in DOMAIN source.leaves
         /\ l.probed[k] # Nothing => /\ l.probed[k] \in DOMAIN l.grafts
                                    /\ l.grafts[l.probed[k]].at = k
                                    /\ ~l.grafts[l.probed[k]].free
    /\ \A g \in DOMAIN l.grafts :
         IF l.grafts[g].free
         THEN /\ l.grafts[g].at - Graft + 1 \in DOMAIN l.table
              /\ l.table[l.grafts[g].at - Graft + 1] = <<g, 0>>
         ELSE l.grafts[g].at \in DOMAIN l.probed /\ l.probed[l.grafts[g].at] = g
    /\ \A k \in DOMAIN l.table :
         /\ l.table[k][1] \in DOMAIN l.grafts
         /\ l.table[k][2] \in DOMAIN Doc[l.grafts[l.table[k][1]].reading]
         /\ l.table[k][2] = 0 => l.grafts[l.table[k][1]].free
    /\ \A k, j \in DOMAIN l.table : l.table[k] = l.table[j] => k = j

\* What a layer held it holds: documents, nodes interned, leaves read as something.
Grows(l, n) ==
    /\ \A g \in DOMAIN l.grafts : g \in DOMAIN n.grafts /\ n.grafts[g] = l.grafts[g]
    /\ \A k \in DOMAIN l.table : k \in DOMAIN n.table /\ n.table[k] = l.table[k]
    /\ \A k \in DOMAIN l.probed :
         l.probed[k] # Nothing => k \in DOMAIN n.probed /\ n.probed[k] = l.probed[k]

\* Growth is transitive.
LEMMA GrowsOn == ASSUME NEW l, NEW m, NEW n, Grows(l, m), Grows(m, n) PROVE Grows(l, n)
<1> QED
  BY DEF Grows

\* A layer goes on from itself.
LEMMA GrowsSelf == ASSUME NEW l PROVE Grows(l, l)
<1> QED
  BY DEF Grows

\* A fresh layer is sound.
LEMMA FreshIsOK ==
    ASSUME NEW source, NEW told \in BOOLEAN
    PROVE  LayerOK(source, Fresh) /\ LayerOK(source, Told(Fresh, told))
<1>1. <<>> \in Probes
  <2>1. <<>> = [x \in {} |-> 0]
    OBVIOUS
  <2>2. <<>> \in [{} -> Nat]
    BY <2>1
  <2> QED
    BY <2>2 DEF Probes
<1>2. <<>> \in Seq([at : Nat, reading : Readings, free : BOOLEAN]) /\ <<>> \in Seq(Nat \X Nat)
  OBVIOUS
<1> QED
  BY <1>1, <1>2 DEF LayerOK, Fresh, Told, Layers

\* Whole listings leave the layer sound.
LEMMA ToldIsOK ==
    ASSUME NEW source, NEW l, LayerOK(source, l), NEW told \in BOOLEAN
    PROVE  LayerOK(source, Told(l, told)) /\ Grows(l, Told(l, told))
<1>1. Told(l, told) \in Layers
  BY DEF LayerOK, Told, Layers
<1> QED
  BY <1>1 DEF LayerOK, Told, Grows

\* What is said of a leaf, as SourceAssumption says it of the leaves of a source.
Sourced(source) == /\ DOMAIN source.leaves \subseteq 1..Graft - 1
                   /\ \A k \in DOMAIN source.leaves : Wellformed(source.leaves[k])

\* What a leaf is read as is a reading, or None.
LEMMA ReadingIsReading ==
    ASSUME NEW source, Sourced(source), NEW k \in DOMAIN source.leaves, NEW asked
    PROVE  ReadAs(source.leaves[k], asked) \in Readings \union {None}
<1> QED
  BY ReadingsAssumption DEF Sourced, Wellformed, ReadAs

\* The function probed, changed at a leaf.
LEMMA MarkedIsProbes ==
    ASSUME NEW f \in Probes, NEW k \in Nat, NEW g \in Nat PROVE Marked(f, k, g) \in Probes
<1>1. PICK leaves \in SUBSET Nat : f \in [leaves -> Nat]
  BY DEF Probes
<1>2. Marked(f, k, g) \in [leaves \union {k} -> Nat] /\ leaves \union {k} \in SUBSET Nat
  BY <1>1 DEF Marked
<1> QED
  BY <1>2 DEF Probes

\* Reading a leaf that was not read keeps the layer sound, and adds to it.
LEMMA ProbeIsOK ==
    ASSUME NEW source, Sourced(source), NEW l, LayerOK(source, l),
           NEW k \in DOMAIN source.leaves, NEW asked
    PROVE  LayerOK(source, Probe(source, l, k, asked)) /\ Grows(l, Probe(source, l, k, asked))
<1> DEFINE n == Probe(source, l, k, asked)
           reading == ReadAs(source.leaves[k], asked)
<1>1. CASE (source.onDemand /\ asked = None) \/ k \in DOMAIN l.probed
  BY <1>1, GrowsSelf DEF Probe
<1>2. CASE ~((source.onDemand /\ asked = None) \/ k \in DOMAIN l.probed)
  <2>0. k \in Nat /\ k \notin DOMAIN l.probed /\ l \in Layers /\ l.probed \in Probes
    BY <1>2, GraftAssumption DEF Sourced, LayerOK, Layers
  <2>1. CASE reading = None
    <3>1. n = [grafts |-> l.grafts, probed |-> Marked(l.probed, k, Nothing),
               table |-> l.table, whole |-> l.whole]
      BY <1>2, <2>1 DEF Probe
    <3>2. /\ Marked(l.probed, k, Nothing) \in Probes
          /\ DOMAIN Marked(l.probed, k, Nothing) = DOMAIN l.probed \union {k}
          /\ Marked(l.probed, k, Nothing)[k] = Nothing
          /\ \A j \in DOMAIN l.probed : j # k => Marked(l.probed, k, Nothing)[j] = l.probed[j]
      <4>1. Marked(l.probed, k, Nothing) \in Probes
        BY <2>0, MarkedIsProbes DEF Nothing
      <4> QED
        BY <4>1 DEF Marked
    <3> HIDE DEF n
    <3>3. n \in Layers
      BY <2>0, <3>1, <3>2 DEF Layers
    <3>4. LayerOK(source, n)
      BY <2>0, <3>1, <3>2, <3>3 DEF LayerOK
    <3>5. Grows(l, n)
      BY <2>0, <3>1, <3>2 DEF Grows
    <3> QED
      BY <3>4, <3>5 DEF n
  <2>2. CASE reading # None
    <3> DEFINE graft == [at |-> k, reading |-> reading, free |-> FALSE]
               size == Len(l.grafts)
    <3>1. n = [grafts |-> Append(l.grafts, graft), probed |-> Marked(l.probed, k, size + 1),
               table |-> l.table, whole |-> l.whole]
      BY <1>2, <2>2 DEF Probe
    <3>2. l.grafts \in Seq(GraftSet) /\ size \in Nat /\ DOMAIN l.grafts = 1..size
      BY <2>0 DEF Layers, GraftSet
    <3>3. /\ Marked(l.probed, k, size + 1) \in Probes
          /\ DOMAIN Marked(l.probed, k, size + 1) = DOMAIN l.probed \union {k}
          /\ Marked(l.probed, k, size + 1)[k] = size + 1
          /\ \A j \in DOMAIN l.probed : j # k => Marked(l.probed, k, size + 1)[j] = l.probed[j]
      <4>1. size + 1 \in Nat
        BY <3>2
      <4> HIDE DEF size
      <4>2. Marked(l.probed, k, size + 1) \in Probes
        BY <2>0, <4>1, MarkedIsProbes
      <4> QED
        BY <4>2 DEF Marked
    <3>4. reading \in Readings
      BY <2>2, ReadingIsReading
    <3>5. graft \in GraftSet
      BY <2>0, <3>4 DEF GraftSet
    <3>6. /\ Append(l.grafts, graft) \in Seq(GraftSet)
          /\ DOMAIN Append(l.grafts, graft) = 1..size + 1
          /\ \A i \in 1..size : Append(l.grafts, graft)[i] = l.grafts[i]
          /\ Append(l.grafts, graft)[size + 1] = graft
      <4> HIDE DEF graft, size
      <4>1. /\ Append(l.grafts, graft) \in Seq(GraftSet)
            /\ Len(Append(l.grafts, graft)) = Len(l.grafts) + 1
            /\ \A i \in 1..Len(l.grafts) : Append(l.grafts, graft)[i] = l.grafts[i]
            /\ Append(l.grafts, graft)[Len(l.grafts) + 1] = graft
        BY <3>2, <3>5, AppendProperties
      <4> QED
        BY <3>2, <4>1 DEF size
    <3>7. /\ n.grafts = Append(l.grafts, graft) /\ n.probed = Marked(l.probed, k, size + 1)
          /\ n.table = l.table /\ n.whole = l.whole
      BY <3>1
    <3>8. n \in Layers
      BY <2>0, <3>1, <3>3, <3>6 DEF Layers, GraftSet
    <3>9. graft.at = k /\ graft.free = FALSE
      OBVIOUS
    <3> HIDE DEF n, graft, size
    <3>10. Grows(l, n)
      BY <2>0, <3>2, <3>3, <3>6, <3>7 DEF Grows
    <3>11. \A j \in DOMAIN n.probed :
             /\ j \in DOMAIN source.leaves
             /\ n.probed[j] # Nothing => /\ n.probed[j] \in DOMAIN n.grafts
                                        /\ n.grafts[n.probed[j]].at = j
                                        /\ ~n.grafts[n.probed[j]].free
      <4> SUFFICES ASSUME NEW j \in DOMAIN n.probed
                   PROVE  /\ j \in DOMAIN source.leaves
                          /\ n.probed[j] # Nothing => /\ n.probed[j] \in DOMAIN n.grafts
                                                     /\ n.grafts[n.probed[j]].at = j
                                                     /\ ~n.grafts[n.probed[j]].free
        OBVIOUS
      <4>1. CASE j = k
        BY <4>1, <3>2, <3>3, <3>6, <3>7, <3>9
      <4>2. CASE j # k
        BY <4>2, <3>2, <3>3, <3>6, <3>7 DEF LayerOK
      <4> QED
        BY <4>1, <4>2
    <3>12. \A g \in DOMAIN n.grafts :
             IF n.grafts[g].free
             THEN /\ n.grafts[g].at - Graft + 1 \in DOMAIN n.table
                  /\ n.table[n.grafts[g].at - Graft + 1] = <<g, 0>>
             ELSE n.grafts[g].at \in DOMAIN n.probed /\ n.probed[n.grafts[g].at] = g
      <4> SUFFICES ASSUME NEW g \in DOMAIN n.grafts
                   PROVE  IF n.grafts[g].free
                          THEN /\ n.grafts[g].at - Graft + 1 \in DOMAIN n.table
                               /\ n.table[n.grafts[g].at - Graft + 1] = <<g, 0>>
                          ELSE n.grafts[g].at \in DOMAIN n.probed /\ n.probed[n.grafts[g].at] = g
        OBVIOUS
      <4>1. CASE g = size + 1
        BY <4>1, <3>2, <3>3, <3>6, <3>7, <3>9
      <4>2. CASE g # size + 1
        <5>1. g \in DOMAIN l.grafts /\ n.grafts[g] = l.grafts[g]
          BY <4>2, <3>2, <3>6, <3>7
        <5>2. CASE l.grafts[g].free
          BY <5>1, <5>2, <3>7 DEF LayerOK
        <5>3. CASE ~l.grafts[g].free
          <6>1. l.grafts[g].at \in DOMAIN l.probed /\ l.probed[l.grafts[g].at] = g
            BY <5>1, <5>3 DEF LayerOK
          <6>2. l.grafts[g].at # k
            BY <2>0, <6>1
          <6> QED
            BY <5>1, <5>3, <6>1, <6>2, <3>3, <3>7
        <5> QED
          BY <5>2, <5>3
      <4> QED
        BY <4>1, <4>2
    <3>13. \A j \in DOMAIN n.table :
             /\ n.table[j][1] \in DOMAIN n.grafts
             /\ n.table[j][2] \in DOMAIN Doc[n.grafts[n.table[j][1]].reading]
             /\ n.table[j][2] = 0 => n.grafts[n.table[j][1]].free
      BY <3>10, <3>7 DEF LayerOK, Grows
    <3>14. \A i, j \in DOMAIN n.table : n.table[i] = n.table[j] => i = j
      BY <3>7 DEF LayerOK
    <3> QED
      BY <3>8, <3>10, <3>11, <3>12, <3>13, <3>14 DEF LayerOK, n
  <2> QED
    BY <2>1, <2>2
<1> QED
  BY <1>1, <1>2

\* graft_as keeps the layer sound, and adds to it: what it forgets had read as nothing.
LEMMA GraftAsIsOK ==
    ASSUME NEW source, Sourced(source), NEW l, LayerOK(source, l),
           NEW k \in DOMAIN source.leaves, NEW asked
    PROVE  LayerOK(source, GraftAs(source, l, k, asked)) /\ Grows(l, GraftAs(source, l, k, asked))
<1>1. CASE k \in DOMAIN l.probed /\ l.probed[k] # Nothing
  BY <1>1, GrowsSelf DEF GraftAs
<1>2. CASE ~(k \in DOMAIN l.probed /\ l.probed[k] # Nothing)
  <2> DEFINE f == Forget(l, k)
  <2>1. GraftAs(source, l, k, asked) = Probe(source, f, k, asked)
    BY <1>2 DEF GraftAs
  <2>2. /\ f.grafts = l.grafts /\ f.table = l.table /\ f.whole = l.whole
        /\ f.probed = [j \in DOMAIN l.probed \ {k} |-> l.probed[j]]
    BY DEF Forget
  <2>3. f.probed \in Probes
    <3>1. PICK leaves \in SUBSET Nat : l.probed \in [leaves -> Nat]
      BY DEF LayerOK, Layers, Probes
    <3>2. f.probed \in [leaves \ {k} -> Nat] /\ leaves \ {k} \in SUBSET Nat
      BY <2>2, <3>1
    <3> QED
      BY <3>2 DEF Probes
  <2>4. f \in Layers
    BY <2>3 DEF LayerOK, Layers, Forget
  <2> HIDE DEF f
  <2>5. Grows(l, f)
    BY <1>2, <2>2 DEF Grows
  <2>6. LayerOK(source, f)
    <3>1. \A j \in DOMAIN f.probed : j \in DOMAIN l.probed /\ f.probed[j] = l.probed[j]
      BY <2>2
    <3>2. \A g \in DOMAIN f.grafts :
            IF f.grafts[g].free
            THEN /\ f.grafts[g].at - Graft + 1 \in DOMAIN f.table
                 /\ f.table[f.grafts[g].at - Graft + 1] = <<g, 0>>
            ELSE f.grafts[g].at \in DOMAIN f.probed /\ f.probed[f.grafts[g].at] = g
      <4>1. \A g \in DOMAIN l.grafts : g # Nothing
        BY DEF LayerOK, Layers, Nothing
      <4>2. SUFFICES ASSUME NEW g \in DOMAIN l.grafts
                     PROVE  IF l.grafts[g].free
                            THEN /\ l.grafts[g].at - Graft + 1 \in DOMAIN l.table
                                 /\ l.table[l.grafts[g].at - Graft + 1] = <<g, 0>>
                            ELSE l.grafts[g].at \in DOMAIN f.probed /\ f.probed[l.grafts[g].at] = g
        BY <2>2
      <4>3. IF l.grafts[g].free
            THEN /\ l.grafts[g].at - Graft + 1 \in DOMAIN l.table
                 /\ l.table[l.grafts[g].at - Graft + 1] = <<g, 0>>
            ELSE l.grafts[g].at \in DOMAIN l.probed /\ l.probed[l.grafts[g].at] = g
        BY DEF LayerOK
      <4>4. CASE l.grafts[g].free
        BY <4>3, <4>4
      <4>5. CASE ~l.grafts[g].free
        <5>1. l.grafts[g].at \in DOMAIN l.probed /\ l.probed[l.grafts[g].at] = g
          BY <4>3, <4>5
        <5>2. l.grafts[g].at # k
          BY <4>1, <5>1, <1>2
        <5> QED
          BY <4>5, <5>1, <5>2, <2>2
      <4> QED
        BY <4>4, <4>5
    <3>3. \A j \in DOMAIN f.probed :
            /\ j \in DOMAIN source.leaves
            /\ f.probed[j] # Nothing => /\ f.probed[j] \in DOMAIN f.grafts
                                       /\ f.grafts[f.probed[j]].at = j
                                       /\ ~f.grafts[f.probed[j]].free
      BY <2>2, <3>1 DEF LayerOK
    <3>4. \A j \in DOMAIN f.table :
            /\ f.table[j][1] \in DOMAIN f.grafts
            /\ f.table[j][2] \in DOMAIN Doc[f.grafts[f.table[j][1]].reading]
            /\ f.table[j][2] = 0 => f.grafts[f.table[j][1]].free
      BY <2>2 DEF LayerOK
    <3>5. \A i, j \in DOMAIN f.table : f.table[i] = f.table[j] => i = j
      BY <2>2 DEF LayerOK
    <3> QED
      BY <2>4, <3>2, <3>3, <3>4, <3>5 DEF LayerOK
  <2>7. LayerOK(source, Probe(source, f, k, asked)) /\ Grows(f, Probe(source, f, k, asked))
    BY <2>6, ProbeIsOK
  <2> QED
    BY <2>1, <2>5, <2>7, GrowsOn
<1> QED
  BY <1>1, <1>2

\* Numbered lists a finite set, each member once.
LEMMA NumberedIs ==
    ASSUME NEW T, NEW S \in SUBSET T, IsFiniteSet(S)
    PROVE  /\ Numbered(S) \in Seq(T) /\ Numbered(S) \in [1..Cardinality(S) -> S]
           /\ Cardinality(S) \in Nat
           /\ \A i, j \in 1..Cardinality(S) : Numbered(S)[i] = Numbered(S)[j] => i = j
           /\ \A x \in S : \E i \in 1..Cardinality(S) : Numbered(S)[i] = x
<1> DEFINE n == Cardinality(S)
           P(f) == \A x \in S : \E k \in 1..n : f[k] = x
<1>1. n \in Nat /\ ExistsBijection(1..n, S)
  BY FS_CardinalityType
<1>2. PICK f \in [1..n -> S] : P(f)
  BY <1>1 DEF ExistsBijection, Bijection, Injection, Surjection
<1>3. Numbered(S) = CHOOSE g \in [1..n -> S] : P(g)
  BY DEF Numbered
<1>4. Numbered(S) \in [1..n -> S] /\ P(Numbered(S))
  BY <1>2, <1>3
<1>5. Numbered(S) \in Surjection(1..n, S)
  BY <1>4 DEF Surjection
<1>6. IsFiniteSet(1..n) /\ Cardinality(1..n) = n
  BY <1>1, FS_Interval
<1>7. Numbered(S) \in Injection(1..n, S)
  BY <1>5, <1>6, FS_SurjSameCardinalityImpliesInj
<1>8. \A i, j \in 1..n : Numbered(S)[i] = Numbered(S)[j] => i = j
  BY <1>7 DEF Injection, IsInjective
<1>9. Numbered(S) \in Seq(T)
  <2>1. Numbered(S) \in [1..n -> T]
    BY <1>4
  <2> QED
    BY <1>1, <2>1
<1> QED
  BY <1>1, <1>4, <1>8, <1>9

\* Answering with nodes of a document keeps the layer sound, and adds to it.
LEMMA ShowIsOK ==
    ASSUME NEW source, NEW l, LayerOK(source, l), NEW g \in DOMAIN l.grafts,
           NEW nodes \in SUBSET DOMAIN Document(l, g)
    PROVE  LayerOK(source, Show(l, g, nodes).layer) /\ Grows(l, Show(l, g, nodes).layer)
<1> DEFINE some == nodes \ {0}
           wanted == {<<g, i>> : i \in some}
           new == wanted \ InTable(l)
           num == Numbered(new)
           size == Len(l.table)
           c == Cardinality(new)
           n == Show(l, g, nodes).layer
<1>1. /\ l.grafts \in Seq(GraftSet) /\ l.probed \in Probes /\ l.whole \in BOOLEAN
      /\ l.table \in Seq(Nat \X Nat) /\ l \in Layers
  BY DEF LayerOK, Layers, GraftSet
<1>2. g \in Nat /\ l.grafts[g].reading \in Readings
  <2>1. g \in 1..Len(l.grafts) /\ l.grafts[g] \in GraftSet
    BY <1>1
  <2> QED
    BY <2>1 DEF GraftSet
<1>3. /\ IsFiniteSet(some) /\ some \subseteq Nat
      /\ \A i \in some : i \in DOMAIN Doc[l.grafts[g].reading] /\ i # 0
  <2>1. IsFiniteSet(DOMAIN Doc[l.grafts[g].reading]) /\ DOMAIN Doc[l.grafts[g].reading] \subseteq Nat
    BY <1>2, DocAssumption
  <2>2. some \in SUBSET DOMAIN Doc[l.grafts[g].reading]
    BY DEF Document
  <2> QED
    BY <2>1, <2>2, FS_Subset
<1>4. IsFiniteSet(new)
  <2> DEFINE f == [i \in some |-> <<g, i>>]
  <2>1. f \in Surjection(some, wanted)
    BY DEF Surjection
  <2> HIDE DEF f, some, wanted
  <2>2. IsFiniteSet(wanted)
    BY <1>3, <2>1, FS_Surjection
  <2> QED
    BY <2>2, FS_Difference
<1>5. new \in SUBSET (Nat \X Nat)
  BY <1>2, <1>3
<1>6. \A x \in new : x[1] = g /\ x[2] \in DOMAIN Doc[l.grafts[g].reading] /\ x[2] # 0 /\ x \notin InTable(l)
  BY <1>3
<1>7. n = [grafts |-> l.grafts, probed |-> l.probed, table |-> l.table \o num, whole |-> l.whole]
  BY DEF Show, Intern
<1> HIDE DEF n, new
<1>8. /\ num \in Seq(Nat \X Nat) /\ num \in [1..c -> new] /\ c \in Nat
      /\ \A i, j \in 1..c : num[i] = num[j] => i = j
  BY <1>4, <1>5, NumberedIs
<1> HIDE DEF num
<1>9. Len(num) = c
  BY <1>8
<1>10. /\ l.table \o num \in Seq(Nat \X Nat) /\ Len(l.table \o num) = size + c
       /\ \A i \in 1..size + c : (l.table \o num)[i] = IF i <= size THEN l.table[i] ELSE num[i - size]
  <2>1. /\ l.table \o num \in Seq(Nat \X Nat) /\ Len(l.table \o num) = Len(l.table) + Len(num)
        /\ \A i \in 1..Len(l.table) + Len(num) :
             (l.table \o num)[i] = IF i <= Len(l.table) THEN l.table[i] ELSE num[i - Len(l.table)]
    BY <1>1, <1>8, ConcatProperties
  <2> QED
    BY <2>1, <1>9
<1>11. n.grafts = l.grafts /\ n.probed = l.probed /\ n.table = l.table \o num /\ n.whole = l.whole
  BY <1>7
<1>12. n \in Layers
  BY <1>1, <1>7, <1>10 DEF Layers, GraftSet
<1>13. size \in Nat /\ DOMAIN l.table = 1..size /\ DOMAIN n.table = 1..size + c
  BY <1>1, <1>8, <1>10, <1>11
<1>14. /\ \A i \in 1..size : n.table[i] = l.table[i]
       /\ \A i \in size + 1..size + c : n.table[i] \in new /\ i - size \in 1..c /\ n.table[i] = num[i - size]
  <2> HIDE DEF size, c
  <2>1. \A i \in size + 1..size + c : i - size \in 1..c /\ ~(i <= size) /\ i \in 1..size + c
    BY <1>8, <1>13
  <2>2. \A i \in 1..size : i <= size /\ i \in 1..size + c
    BY <1>8, <1>13
  <2>3. \A i \in size + 1..size + c : n.table[i] = num[i - size]
    BY <2>1, <1>10, <1>11
  <2> QED
    BY <2>1, <2>2, <2>3, <1>8, <1>10, <1>11
<1> HIDE DEF size, c
<1>15. Grows(l, n)
  BY <1>8, <1>11, <1>13, <1>14 DEF Grows
<1>16. \A k \in DOMAIN n.table :
         /\ n.table[k][1] \in DOMAIN n.grafts
         /\ n.table[k][2] \in DOMAIN Doc[n.grafts[n.table[k][1]].reading]
         /\ n.table[k][2] = 0 => n.grafts[n.table[k][1]].free
  <2> SUFFICES ASSUME NEW k \in DOMAIN n.table
               PROVE  /\ n.table[k][1] \in DOMAIN n.grafts
                      /\ n.table[k][2] \in DOMAIN Doc[n.grafts[n.table[k][1]].reading]
                      /\ n.table[k][2] = 0 => n.grafts[n.table[k][1]].free
    OBVIOUS
  <2>1. CASE k \in 1..size
    BY <2>1, <1>11, <1>13, <1>14 DEF LayerOK
  <2>2. CASE k \in size + 1..size + c
    BY <2>2, <1>6, <1>11, <1>14
  <2> QED
    BY <2>1, <2>2, <1>8, <1>13
<1>17. \A i, j \in DOMAIN n.table : n.table[i] = n.table[j] => i = j
  <2> SUFFICES ASSUME NEW i \in DOMAIN n.table, NEW j \in DOMAIN n.table, n.table[i] = n.table[j]
               PROVE  i = j
    OBVIOUS
  <2>1. \A k \in 1..size : l.table[k] \in InTable(l)
    BY <1>13 DEF InTable
  <2>2. CASE i \in 1..size /\ j \in 1..size
    BY <2>2, <1>13, <1>14 DEF LayerOK
  <2>3. CASE i \in size + 1..size + c /\ j \in size + 1..size + c
    <3>1. i - size = j - size
      BY <2>3, <1>8, <1>14
    <3> QED
      BY <2>3, <3>1, <1>8, <1>13
  <2>4. ~(i \in 1..size /\ j \in size + 1..size + c)
    BY <2>1, <1>6, <1>14
  <2>5. ~(j \in 1..size /\ i \in size + 1..size + c)
    BY <2>1, <1>6, <1>14
  <2> QED
    BY <2>2, <2>3, <2>4, <2>5, <1>8, <1>13
<1>18. \A a \in DOMAIN n.grafts :
         IF n.grafts[a].free
         THEN /\ n.grafts[a].at - Graft + 1 \in DOMAIN n.table
              /\ n.table[n.grafts[a].at - Graft + 1] = <<a, 0>>
         ELSE n.grafts[a].at \in DOMAIN n.probed /\ n.probed[n.grafts[a].at] = a
  <2> SUFFICES ASSUME NEW a \in DOMAIN l.grafts
               PROVE  IF l.grafts[a].free
                      THEN /\ l.grafts[a].at - Graft + 1 \in DOMAIN n.table
                           /\ n.table[l.grafts[a].at - Graft + 1] = <<a, 0>>
                      ELSE l.grafts[a].at \in DOMAIN l.probed /\ l.probed[l.grafts[a].at] = a
    BY <1>11
  <2>1. IF l.grafts[a].free
        THEN /\ l.grafts[a].at - Graft + 1 \in DOMAIN l.table
             /\ l.table[l.grafts[a].at - Graft + 1] = <<a, 0>>
        ELSE l.grafts[a].at \in DOMAIN l.probed /\ l.probed[l.grafts[a].at] = a
    BY DEF LayerOK
  <2> QED
    BY <2>1, <1>15 DEF Grows
<1>19. \A k \in DOMAIN n.probed :
         /\ k \in DOMAIN source.leaves
         /\ n.probed[k] # Nothing => /\ n.probed[k] \in DOMAIN n.grafts
                                    /\ n.grafts[n.probed[k]].at = k
                                    /\ ~n.grafts[n.probed[k]].free
  BY <1>11 DEF LayerOK
<1>20. LayerOK(source, n)
  BY <1>12, <1>16, <1>17, <1>18, <1>19 DEF LayerOK
<1> QED
  BY <1>15, <1>20 DEF n

-----------------------------------------------------------------------------
\* What the leaves of a layer show, as ReadsAsAsked says it of a mount m.
LayerReads(source, l, m, T) ==
    \A k \in DOMAIN l.probed :
      LET own == ReadAs(source.leaves[k], None)
          hops == {n \in Notations : <<m, k, n>> \in T}
          shown == IF l.probed[k] # Nothing THEN l.grafts[l.probed[k]].reading ELSE None
          takes == hops \intersect source.leaves[k].parses
      IN IF shown = None THEN takes = {} /\ (own # None => hops # {})
         ELSE \/ shown \in takes
              \/ shown = own /\ (source.onDemand => source.leaves[k].host # None)

\* A sound layer of the mount m after the tests T: what was tested was tried.
Sound(source, l, m, T) ==
    /\ LayerOK(source, l)
    /\ LayerReads(source, l, m, T)
    /\ \A k, n : <<m, k, n>> \in T => k \in DOMAIN l.probed

\* A step that tries no leaf leaves what they show.
LEMMA ReadsKept ==
    ASSUME NEW source, NEW l, NEW m, NEW T, Sound(source, l, m, T),
           NEW n, LayerOK(source, n), Grows(l, n), n.probed = l.probed
    PROVE  Sound(source, n, m, T)
<1>1. \A k \in DOMAIN l.probed :
        l.probed[k] # Nothing => n.grafts[l.probed[k]].reading = l.grafts[l.probed[k]].reading
  BY DEF Sound, LayerOK, Grows
<1>2. LayerReads(source, n, m, T)
  <2> SUFFICES ASSUME NEW k \in DOMAIN l.probed
               PROVE  LET own == ReadAs(source.leaves[k], None)
                          hops == {i \in Notations : <<m, k, i>> \in T}
                          shown == IF l.probed[k] # Nothing THEN n.grafts[l.probed[k]].reading ELSE None
                          takes == hops \intersect source.leaves[k].parses
                      IN IF shown = None THEN takes = {} /\ (own # None => hops # {})
                         ELSE \/ shown \in takes
                              \/ shown = own /\ (source.onDemand => source.leaves[k].host # None)
    BY DEF LayerReads
  <2>1. (IF l.probed[k] # Nothing THEN n.grafts[l.probed[k]].reading ELSE None)
          = (IF l.probed[k] # Nothing THEN l.grafts[l.probed[k]].reading ELSE None)
    BY <1>1
  <2> QED
    BY <2>1 DEF Sound, LayerReads
<1> QED
  BY <1>2 DEF Sound

\* Trying a leaf unasked: it was not tested before, and shows what it says itself.
LEMMA ProbeGoesOn ==
    ASSUME NEW source, Sourced(source), NEW l, NEW m, NEW T, Sound(source, l, m, T),
           NEW k \in DOMAIN source.leaves
    PROVE  Sound(source, Probe(source, l, k, None), m, T) /\ Grows(l, Probe(source, l, k, None))
<1> DEFINE n == Probe(source, l, k, None)
           own == ReadAs(source.leaves[k], None)
<1>1. LayerOK(source, n) /\ Grows(l, n)
  BY ProbeIsOK DEF Sound
<1>2. CASE source.onDemand \/ k \in DOMAIN l.probed
  BY <1>1, <1>2 DEF Probe
<1>3. CASE ~(source.onDemand \/ k \in DOMAIN l.probed)
  <2>1. /\ DOMAIN n.probed = DOMAIN l.probed \union {k}
        /\ \A j \in DOMAIN l.probed : n.probed[j] = l.probed[j]
    BY <1>3 DEF Probe, Marked
  <2>2. (IF n.probed[k] # Nothing THEN n.grafts[n.probed[k]].reading ELSE None) = own
    <3>1. CASE own = None
      BY <3>1, <1>3 DEF Probe, Marked
    <3>2. CASE own # None
      <4> DEFINE graft == [at |-> k, reading |-> own, free |-> FALSE]
      <4>1. /\ n.grafts = Append(l.grafts, graft)
            /\ n.probed[k] = Len(l.grafts) + 1
        BY <3>2, <1>3 DEF Probe, Marked
      <4>2. l.grafts \in Seq(GraftSet) /\ Len(l.grafts) \in Nat
        BY DEF Sound, LayerOK, Layers, GraftSet
      <4>3. Append(l.grafts, graft)[Len(l.grafts) + 1] = graft
        BY <4>2
      <4>4. Len(l.grafts) + 1 # Nothing
        BY <4>2 DEF Nothing
      <4> QED
        BY <4>1, <4>3, <4>4
    <3> QED
      BY <3>1, <3>2
  <2>3. \A j \in DOMAIN l.probed :
          l.probed[j] # Nothing => n.grafts[l.probed[j]].reading = l.grafts[l.probed[j]].reading
    BY <1>1 DEF Sound, LayerOK, Grows
  <2>4. \A i : <<m, k, i>> \notin T
    BY <1>3 DEF Sound
  <2>5. LayerReads(source, n, m, T)
    <3> SUFFICES ASSUME NEW j \in DOMAIN n.probed
                 PROVE  LET o == ReadAs(source.leaves[j], None)
                            hops == {i \in Notations : <<m, j, i>> \in T}
                            shown == IF n.probed[j] # Nothing THEN n.grafts[n.probed[j]].reading ELSE None
                            takes == hops \intersect source.leaves[j].parses
                        IN IF shown = None THEN takes = {} /\ (o # None => hops # {})
                           ELSE \/ shown \in takes
                                \/ shown = o /\ (source.onDemand => source.leaves[j].host # None)
      BY DEF LayerReads
    <3> HIDE DEF n
    <3>1. CASE j \in DOMAIN l.probed
      <4>1. (IF n.probed[j] # Nothing THEN n.grafts[n.probed[j]].reading ELSE None)
              = (IF l.probed[j] # Nothing THEN l.grafts[l.probed[j]].reading ELSE None)
        BY <3>1, <2>1, <2>3
      <4> QED
        BY <3>1, <4>1 DEF Sound, LayerReads
    <3>2. CASE j = k
      BY <3>2, <2>2, <2>4, <1>3
    <3> QED
      BY <3>1, <3>2, <2>1
  <2> QED
    BY <1>1, <2>1, <2>5 DEF Sound
<1> QED
  BY <1>1, <1>2, <1>3

\* Testing a leaf for a notation: it shows what it did, or the notation, or nothing
\* because it does not parse as it.
LEMMA TestGoesOn ==
    ASSUME NEW source, Sourced(source), NEW l, NEW m, NEW T, Sound(source, l, m, T),
           NEW k \in DOMAIN source.leaves, NEW a \in Notations
    PROVE  /\ Sound(source, GraftAs(source, l, k, a), m, T \union {<<m, k, a>>})
           /\ Grows(l, GraftAs(source, l, k, a))
<1> DEFINE n == GraftAs(source, l, k, a)
           U == T \union {<<m, k, a>>}
           reading == ReadAs(source.leaves[k], a)
           own == ReadAs(source.leaves[k], None)
<1>1. LayerOK(source, n) /\ Grows(l, n)
  BY GraftAsIsOK DEF Sound
<1>2. a # None
  BY ReadingsAssumption
<1>3. \A j \in DOMAIN l.probed :
        l.probed[j] # Nothing => n.grafts[l.probed[j]].reading = l.grafts[l.probed[j]].reading
  BY <1>1 DEF Sound, LayerOK, Grows
<1>4. \A j, i : j # k => (<<m, j, i>> \in U <=> <<m, j, i>> \in T)
  OBVIOUS
<1>5. \A i : <<m, k, i>> \in U <=> i = a \/ <<m, k, i>> \in T
  OBVIOUS
<1>6. /\ DOMAIN n.probed = DOMAIN l.probed \union {k}
      /\ \A j \in DOMAIN l.probed : j # k => n.probed[j] = l.probed[j]
  <2>1. CASE k \in DOMAIN l.probed /\ l.probed[k] # Nothing
    BY <2>1 DEF GraftAs
  <2>2. CASE ~(k \in DOMAIN l.probed /\ l.probed[k] # Nothing)
    <3> DEFINE f == Forget(l, k)
    <3>1. f.probed = [j \in DOMAIN l.probed \ {k} |-> l.probed[j]]
      BY DEF Forget
    <3>2. n = Probe(source, f, k, a)
      BY <2>2 DEF GraftAs
    <3>3. k \notin DOMAIN f.probed
      BY <3>1
    <3> HIDE DEF f
    <3>4. n.probed = Marked(f.probed, k, Nothing) \/ n.probed = Marked(f.probed, k, Len(f.grafts) + 1)
      BY <3>2, <3>3, <1>2 DEF Probe
    <3> QED
      BY <3>1, <3>4 DEF Marked
  <2> QED
    BY <2>1, <2>2
<1>7. CASE k \in DOMAIN l.probed /\ l.probed[k] # Nothing
  <2>1. n = l
    BY <1>7 DEF GraftAs
  <2>2. LayerReads(source, l, m, U)
    <3> SUFFICES ASSUME NEW j \in DOMAIN l.probed
                 PROVE  LET o == ReadAs(source.leaves[j], None)
                            hops == {i \in Notations : <<m, j, i>> \in U}
                            shown == IF l.probed[j] # Nothing THEN l.grafts[l.probed[j]].reading ELSE None
                            takes == hops \intersect source.leaves[j].parses
                        IN IF shown = None THEN takes = {} /\ (o # None => hops # {})
                           ELSE \/ shown \in takes
                                \/ shown = o /\ (source.onDemand => source.leaves[j].host # None)
      BY DEF LayerReads
    <3> HIDE DEF U
    <3>1. CASE j = k
      <4>1. l.grafts[l.probed[k]].reading # None
        <5>1. l.probed[k] \in DOMAIN l.grafts /\ l.grafts \in Seq(GraftSet)
          BY <1>7 DEF Sound, LayerOK, Layers, GraftSet
        <5>2. l.grafts[l.probed[k]] \in GraftSet
          BY <5>1
        <5> QED
          BY <5>2, ReadingsAssumption DEF GraftSet
      <4> QED
        BY <3>1, <4>1, <1>5, <1>7 DEF Sound, LayerReads
    <3>2. CASE j # k
      BY <3>2, <1>4 DEF Sound, LayerReads
    <3> QED
      BY <3>1, <3>2
  <2> QED
    BY <2>1, <2>2, <1>1, <1>6 DEF Sound
<1>8. CASE ~(k \in DOMAIN l.probed /\ l.probed[k] # Nothing)
  <2> DEFINE f == Forget(l, k)
  <2>1. n = Probe(source, f, k, a) /\ k \notin DOMAIN f.probed /\ f.grafts = l.grafts
    BY <1>8 DEF GraftAs, Forget
  <2> HIDE DEF f
  <2>2. (IF n.probed[k] # Nothing THEN n.grafts[n.probed[k]].reading ELSE None) = reading
    <3>1. CASE reading = None
      BY <3>1, <2>1, <1>2 DEF Probe, Marked
    <3>2. CASE reading # None
      <4> DEFINE graft == [at |-> k, reading |-> reading, free |-> FALSE]
      <4>1. /\ n.grafts = Append(l.grafts, graft)
            /\ n.probed[k] = Len(l.grafts) + 1
        BY <3>2, <2>1, <1>2 DEF Probe, Marked
      <4>2. l.grafts \in Seq(GraftSet) /\ Len(l.grafts) \in Nat
        BY DEF Sound, LayerOK, Layers, GraftSet
      <4>3. Append(l.grafts, graft)[Len(l.grafts) + 1] = graft
        BY <4>2
      <4>4. Len(l.grafts) + 1 # Nothing
        BY <4>2 DEF Nothing
      <4> QED
        BY <4>1, <4>3, <4>4
    <3> QED
      BY <3>1, <3>2
  <2>3. {i \in Notations : <<m, k, i>> \in T} \intersect source.leaves[k].parses = {}
    BY <1>8 DEF Sound, LayerReads
  <2>4. \/ reading = own /\ source.leaves[k].host # None /\ reading # None
        \/ reading = a /\ a \in source.leaves[k].parses /\ reading # None
        \/ reading = None /\ a \notin source.leaves[k].parses
    BY <1>2 DEF ReadAs
  <2>5. LayerReads(source, n, m, U)
    <3> SUFFICES ASSUME NEW j \in DOMAIN n.probed
                 PROVE  LET o == ReadAs(source.leaves[j], None)
                            hops == {i \in Notations : <<m, j, i>> \in U}
                            shown == IF n.probed[j] # Nothing THEN n.grafts[n.probed[j]].reading ELSE None
                            takes == hops \intersect source.leaves[j].parses
                        IN IF shown = None THEN takes = {} /\ (o # None => hops # {})
                           ELSE \/ shown \in takes
                                \/ shown = o /\ (source.onDemand => source.leaves[j].host # None)
      BY DEF LayerReads
    <3> HIDE DEF n, U
    <3>1. CASE j # k
      <4>1. (IF n.probed[j] # Nothing THEN n.grafts[n.probed[j]].reading ELSE None)
              = (IF l.probed[j] # Nothing THEN l.grafts[l.probed[j]].reading ELSE None)
        BY <3>1, <1>3, <1>6
      <4> QED
        BY <3>1, <4>1, <1>4, <1>6 DEF Sound, LayerReads
    <3>2. CASE j = k
      <4>1. a \in {i \in Notations : <<m, k, i>> \in U}
        BY <1>5
      <4>2. {i \in Notations : <<m, k, i>> \in U} \intersect source.leaves[k].parses
              = IF a \in source.leaves[k].parses THEN {a} ELSE {}
        BY <1>5, <2>3
      <4> HIDE DEF reading, own
      <4>3. CASE reading = own /\ source.leaves[k].host # None /\ reading # None
        BY <3>2, <4>3, <2>2 DEF own
      <4>4. CASE reading = a /\ a \in source.leaves[k].parses /\ reading # None
        BY <3>2, <4>1, <4>4, <2>2
      <4>5. CASE reading = None /\ a \notin source.leaves[k].parses
        BY <3>2, <4>1, <4>2, <4>5, <2>2
      <4> QED
        BY <2>4, <4>3, <4>4, <4>5
    <3> QED
      BY <3>1, <3>2
  <2> QED
    BY <1>1, <1>6, <2>5 DEF Sound
<1> QED
  BY <1>1, <1>7, <1>8

\* Answering with nodes of a document tries no leaf.
LEMMA ShowGoesOn ==
    ASSUME NEW source, NEW l, NEW m, NEW T, Sound(source, l, m, T), NEW g \in DOMAIN l.grafts,
           NEW nodes \in SUBSET DOMAIN Document(l, g)
    PROVE  Sound(source, Show(l, g, nodes).layer, m, T) /\ Grows(l, Show(l, g, nodes).layer)
<1> DEFINE n == Show(l, g, nodes).layer
<1>1. LayerOK(source, n) /\ Grows(l, n)
  BY ShowIsOK DEF Sound
<1>2. n.probed = l.probed
  BY DEF Show, Intern
<1> HIDE DEF n
<1>3. Sound(source, n, m, T)
  BY <1>1, <1>2, ReadsKept
<1> QED
  BY <1>1, <1>3 DEF n

\* A document found at a leaf is one of the layer's.
LEMMA GraftAtIs ==
    ASSUME NEW source, Sourced(source), NEW l, LayerOK(source, l), NEW k \in DOMAIN source.leaves,
           GraftAt(source, l, k) # Nothing
    PROVE  GraftAt(source, l, k) \in DOMAIN Probe(source, l, k, None).grafts
<1> DEFINE n == Probe(source, l, k, None)
<1>1. LayerOK(source, n)
  BY ProbeIsOK
<1>2. ~source.onDemand /\ GraftAt(source, l, k) = n.probed[k]
  BY DEF GraftAt
<1>3. k \in DOMAIN n.probed
  BY <1>2 DEF Probe, Marked
<1> QED
  BY <1>1, <1>2, <1>3 DEF LayerOK

\* A document of the layer has its root, and of its nodes the children.
LEMMA DocumentHas ==
    ASSUME NEW source, NEW l, LayerOK(source, l), NEW g \in DOMAIN l.grafts
    PROVE  /\ 0 \in DOMAIN Document(l, g)
           /\ \A i \in DOMAIN Document(l, g) : Document(l, g)[i] \in SUBSET DOMAIN Document(l, g)
<1>1. l.grafts \in Seq(GraftSet)
  BY DEF LayerOK, Layers, GraftSet
<1>2. l.grafts[g].reading \in Readings
  <2>1. l.grafts[g] \in GraftSet
    BY <1>1
  <2> QED
    BY <2>1 DEF GraftSet
<1> QED
  BY <1>2, DocAssumption DEF Document

\* The node behind an id of the table.
LEMMA SplitIs ==
    ASSUME NEW source, NEW l, LayerOK(source, l), NEW id \in Nat, Interned(l, id)
    PROVE  /\ id - Graft + 1 \in DOMAIN l.table
           /\ Split(l, id)[1] \in DOMAIN l.grafts
           /\ Split(l, id)[2] \in DOMAIN Document(l, Split(l, id)[1])
<1>1. l.table \in Seq(Nat \X Nat)
  BY DEF LayerOK, Layers
<1>2. id - Graft + 1 \in DOMAIN l.table
  BY <1>1, GraftAssumption DEF Interned
<1> QED
  BY <1>2 DEF LayerOK, Split, Document

\* Listing children keeps the layer sound, and adds to it.
LEMMA ChildrenGoOn ==
    ASSUME NEW source, Sourced(source), NEW l, NEW m, NEW T, Sound(source, l, m, T), NEW id \in Nat
    PROVE  /\ Sound(source, ChildrenOf(source, l, id).layer, m, T)
           /\ Grows(l, ChildrenOf(source, l, id).layer)
<1>1. CASE Interned(l, id)
  <2>1. /\ Split(l, id)[1] \in DOMAIN l.grafts
        /\ Split(l, id)[2] \in DOMAIN Document(l, Split(l, id)[1])
    BY <1>1, SplitIs DEF Sound
  <2>2. Document(l, Split(l, id)[1])[Split(l, id)[2]] \in SUBSET DOMAIN Document(l, Split(l, id)[1])
    BY <2>1, DocumentHas DEF Sound
  <2>3. ChildrenOf(source, l, id)
          = Show(l, Split(l, id)[1], Document(l, Split(l, id)[1])[Split(l, id)[2]])
    BY <1>1 DEF ChildrenOf
  <2> QED
    BY <2>1, <2>2, <2>3, ShowGoesOn
<1>2. CASE ~Interned(l, id) /\ id \notin DOMAIN source.leaves
  BY <1>2, GrowsSelf DEF ChildrenOf
<1>3. CASE ~Interned(l, id) /\ id \in DOMAIN source.leaves
  <2> DEFINE n == Probe(source, l, id, None)
             g == GraftAt(source, l, id)
  <2>1. Sound(source, n, m, T) /\ Grows(l, n)
    BY <1>3, ProbeGoesOn
  <2>2. CASE g = Nothing
    BY <1>3, <2>1, <2>2 DEF ChildrenOf
  <2>3. CASE g # Nothing
    <3>1. g \in DOMAIN n.grafts
      BY <1>3, <2>3, GraftAtIs DEF Sound
    <3>2. ChildrenOf(source, l, id) = Show(n, g, Document(n, g)[0])
      BY <1>3, <2>3 DEF ChildrenOf
    <3> HIDE DEF n, g
    <3>3. Document(n, g)[0] \in SUBSET DOMAIN Document(n, g)
      BY <2>1, <3>1, DocumentHas DEF Sound
    <3>4. Sound(source, Show(n, g, Document(n, g)[0]).layer, m, T)
          /\ Grows(n, Show(n, g, Document(n, g)[0]).layer)
      BY <2>1, <3>1, <3>3, ShowGoesOn
    <3> QED
      BY <2>1, <3>2, <3>4, GrowsOn
  <2> QED
    BY <2>2, <2>3
<1> QED
  BY <1>1, <1>2, <1>3

\* Following to a node of the document keeps the layer sound, and adds to it.
LEMMA FollowGoesOn ==
    ASSUME NEW source, Sourced(source), NEW l, NEW m, NEW T, Sound(source, l, m, T), NEW id \in Nat,
           id \in DOMAIN source.leaves \/ Interned(l, id), NEW t \in Reachable(source, l, id)
    PROVE  /\ Sound(source, FollowTo(source, l, id, t).layer, m, T)
           /\ Grows(l, FollowTo(source, l, id, t).layer)
<1>1. CASE Interned(l, id)
  <2>1. Split(l, id)[1] \in DOMAIN l.grafts
    BY <1>1, SplitIs DEF Sound
  <2>2. {t} \in SUBSET DOMAIN Document(l, Split(l, id)[1])
    BY <1>1 DEF Reachable
  <2>3. FollowTo(source, l, id, t) = Show(l, Split(l, id)[1], {t})
    BY <1>1 DEF FollowTo
  <2> QED
    BY <2>1, <2>2, <2>3, ShowGoesOn
<1>2. CASE ~Interned(l, id)
  <2> DEFINE n == Probe(source, l, id, None)
             g == GraftAt(source, l, id)
  <2>1. Sound(source, n, m, T) /\ Grows(l, n)
    BY <1>2, ProbeGoesOn
  <2>2. CASE g = Nothing
    BY <1>2, <2>1, <2>2 DEF FollowTo
  <2>3. CASE g # Nothing
    <3>1. g \in DOMAIN n.grafts
      BY <1>2, <2>3, GraftAtIs DEF Sound
    <3>2. FollowTo(source, l, id, t) = Show(n, g, {t})
      BY <1>2, <2>3 DEF FollowTo
    <3>3. {t} \in SUBSET DOMAIN Document(n, g)
      BY <1>2, <2>3 DEF Reachable
    <3> HIDE DEF n, g
    <3>4. Sound(source, Show(n, g, {t}).layer, m, T) /\ Grows(n, Show(n, g, {t}).layer)
      BY <2>1, <3>1, <3>3, ShowGoesOn
    <3> QED
      BY <2>1, <3>2, <3>4, GrowsOn
  <2> QED
    BY <2>2, <2>3
<1> QED
  BY <1>1, <1>2

\* Grafting a text keeps the layer sound, and adds to it: its root is its own node.
LEMMA TextGoesOn ==
    ASSUME NEW source, NEW l, NEW m, NEW T, Sound(source, l, m, T), NEW a \in Notations
    PROVE  Sound(source, GraftText(l, a), m, T) /\ Grows(l, GraftText(l, a))
<1> DEFINE size == Len(l.table)
           docs == Len(l.grafts)
           graft == [at |-> Graft + size, reading |-> a, free |-> TRUE]
           n == GraftText(l, a)
<1>1. /\ l.grafts \in Seq(GraftSet) /\ l.table \in Seq(Nat \X Nat)
      /\ l.probed \in Probes /\ l.whole \in BOOLEAN
  BY DEF Sound, LayerOK, Layers, GraftSet
<1>2. /\ size \in Nat /\ docs \in Nat /\ DOMAIN l.table = 1..size /\ DOMAIN l.grafts = 1..docs
  BY <1>1
<1>3. graft \in GraftSet /\ <<docs + 1, 0>> \in Nat \X Nat
  BY <1>2, GraftAssumption, ReadingsAssumption DEF GraftSet
<1>4. /\ n.grafts = Append(l.grafts, graft) /\ n.table = Append(l.table, <<docs + 1, 0>>)
      /\ n.probed = l.probed /\ n.whole = l.whole
  BY DEF GraftText
<1>5. /\ Append(l.grafts, graft) \in Seq(GraftSet)
      /\ DOMAIN Append(l.grafts, graft) = 1..docs + 1
      /\ \A i \in 1..docs : Append(l.grafts, graft)[i] = l.grafts[i]
      /\ Append(l.grafts, graft)[docs + 1] = graft
  <2> HIDE DEF graft, docs
  <2>1. /\ Append(l.grafts, graft) \in Seq(GraftSet)
        /\ Len(Append(l.grafts, graft)) = Len(l.grafts) + 1
        /\ \A i \in 1..Len(l.grafts) : Append(l.grafts, graft)[i] = l.grafts[i]
        /\ Append(l.grafts, graft)[Len(l.grafts) + 1] = graft
    BY <1>1, <1>3, AppendProperties
  <2> QED
    BY <1>1, <2>1 DEF docs
<1>6. /\ n.table \in Seq(Nat \X Nat) /\ DOMAIN n.table = 1..size + 1
      /\ \A i \in 1..size : n.table[i] = l.table[i]
      /\ n.table[size + 1] = <<docs + 1, 0>>
  <2> DEFINE last == <<docs + 1, 0>>
  <2> HIDE DEF last, size
  <2>1. last \in Nat \X Nat
    BY <1>3 DEF last
  <2>2. /\ Append(l.table, last) \in Seq(Nat \X Nat)
        /\ Len(Append(l.table, last)) = Len(l.table) + 1
        /\ \A i \in 1..Len(l.table) : Append(l.table, last)[i] = l.table[i]
        /\ Append(l.table, last)[Len(l.table) + 1] = last
    BY <1>1, <2>1, AppendProperties
  <2>3. n.table = Append(l.table, last)
    BY <1>4 DEF last
  <2> QED
    BY <1>1, <2>2, <2>3 DEF last, size
<1>7. n \in Layers
  <2>1. n = [grafts |-> n.grafts, probed |-> n.probed, table |-> n.table, whole |-> n.whole]
    BY DEF GraftText
  <2> HIDE DEF n
  <2>2. n.grafts \in Seq(GraftSet)
    BY <1>4, <1>5
  <2> QED
    BY <2>1, <2>2, <1>1, <1>4, <1>6 DEF Layers, GraftSet
<1>8. graft.at - Graft + 1 = size + 1 /\ graft.free = TRUE /\ graft.reading \in Readings
  BY <1>2, GraftAssumption, ReadingsAssumption
<1> HIDE DEF n, graft, size, docs
<1>9. Grows(l, n)
  BY <1>2, <1>4, <1>5, <1>6 DEF Grows
<1>10. LayerOK(source, l)
  BY DEF Sound
<1>11. \A k \in DOMAIN n.probed :
         /\ k \in DOMAIN source.leaves
         /\ n.probed[k] # Nothing => /\ n.probed[k] \in DOMAIN n.grafts
                                    /\ n.grafts[n.probed[k]].at = k
                                    /\ ~n.grafts[n.probed[k]].free
  BY <1>2, <1>4, <1>5, <1>10 DEF LayerOK
<1>12. \A g \in DOMAIN n.grafts :
         IF n.grafts[g].free
         THEN /\ n.grafts[g].at - Graft + 1 \in DOMAIN n.table
              /\ n.table[n.grafts[g].at - Graft + 1] = <<g, 0>>
         ELSE n.grafts[g].at \in DOMAIN n.probed /\ n.probed[n.grafts[g].at] = g
  <2> SUFFICES ASSUME NEW g \in DOMAIN n.grafts
               PROVE  IF n.grafts[g].free
                      THEN /\ n.grafts[g].at - Graft + 1 \in DOMAIN n.table
                           /\ n.table[n.grafts[g].at - Graft + 1] = <<g, 0>>
                      ELSE n.grafts[g].at \in DOMAIN n.probed /\ n.probed[n.grafts[g].at] = g
    OBVIOUS
  <2>1. CASE g = docs + 1
    BY <2>1, <1>2, <1>4, <1>5, <1>6, <1>8
  <2>2. CASE g # docs + 1
    <3>1. g \in DOMAIN l.grafts /\ n.grafts[g] = l.grafts[g]
      BY <2>2, <1>2, <1>4, <1>5
    <3>2. IF l.grafts[g].free
          THEN /\ l.grafts[g].at - Graft + 1 \in DOMAIN l.table
               /\ l.table[l.grafts[g].at - Graft + 1] = <<g, 0>>
          ELSE l.grafts[g].at \in DOMAIN l.probed /\ l.probed[l.grafts[g].at] = g
      BY <3>1, <1>10 DEF LayerOK
    <3> QED
      BY <3>1, <3>2, <1>4, <1>9 DEF Grows
  <2> QED
    BY <2>1, <2>2
<1>13. \A k \in DOMAIN n.table :
         /\ n.table[k][1] \in DOMAIN n.grafts
         /\ n.table[k][2] \in DOMAIN Doc[n.grafts[n.table[k][1]].reading]
         /\ n.table[k][2] = 0 => n.grafts[n.table[k][1]].free
  <2> SUFFICES ASSUME NEW k \in DOMAIN n.table
               PROVE  /\ n.table[k][1] \in DOMAIN n.grafts
                      /\ n.table[k][2] \in DOMAIN Doc[n.grafts[n.table[k][1]].reading]
                      /\ n.table[k][2] = 0 => n.grafts[n.table[k][1]].free
    OBVIOUS
  <2>1. CASE k = size + 1
    <3>1. 0 \in DOMAIN Doc[graft.reading]
      BY <1>8, DocAssumption
    <3> QED
      BY <3>1, <2>1, <1>2, <1>4, <1>5, <1>6, <1>8
  <2>2. CASE k # size + 1
    <3>1. k \in DOMAIN l.table /\ n.table[k] = l.table[k]
      <4> HIDE DEF n, size, docs, graft
      <4>1. k \in 1..size
        BY <2>2, <1>2, <1>6
      <4> QED
        BY <4>1, <1>2, <1>6
    <3>2. /\ l.table[k][1] \in DOMAIN l.grafts
          /\ l.table[k][2] \in DOMAIN Doc[l.grafts[l.table[k][1]].reading]
          /\ l.table[k][2] = 0 => l.grafts[l.table[k][1]].free
      BY <3>1, <1>10 DEF LayerOK
    <3> QED
      BY <3>1, <3>2, <1>9 DEF Grows
  <2> QED
    BY <2>1, <2>2
<1>14. \A i, j \in DOMAIN n.table : n.table[i] = n.table[j] => i = j
  <2>1. \A i \in 1..size : n.table[i] # n.table[size + 1]
    <3> SUFFICES ASSUME NEW i \in 1..size PROVE n.table[i] # n.table[size + 1]
      OBVIOUS
    <3>1. l.table[i][1] \in 1..docs
      BY <1>2, <1>10 DEF LayerOK
    <3>2. n.table[i] = l.table[i] /\ n.table[size + 1] = <<docs + 1, 0>>
      BY <1>6
    <3>3. <<docs + 1, 0>>[1] = docs + 1 /\ docs + 1 \notin 1..docs
      BY <1>2
    <3> QED
      BY <3>1, <3>2, <3>3
  <2>2. \A i, j \in 1..size : n.table[i] = n.table[j] => i = j
    <3>1. \A i, j \in DOMAIN l.table : l.table[i] = l.table[j] => i = j
      BY <1>10 DEF LayerOK
    <3>2. \A i, j \in 1..size : l.table[i] = l.table[j] => i = j
      BY <3>1, <1>2
    <3>3. \A i \in 1..size : n.table[i] = l.table[i]
      BY <1>6
    <3> QED
      BY <3>2, <3>3
  <2>3. \A i \in 1..size + 1 : i \in 1..size \/ i = size + 1
    BY <1>2
  <2> QED
    BY <2>1, <2>2, <2>3, <1>6
<1>15. LayerOK(source, n)
  BY <1>7, <1>11, <1>12, <1>13, <1>14 DEF LayerOK
<1>16. Sound(source, n, m, T)
  BY <1>4, <1>9, <1>15, ReadsKept
<1> QED
  BY <1>9, <1>16 DEF n

\* Being told to list whole tables tries no leaf.
LEMMA ToldGoesOn ==
    ASSUME NEW source, NEW l, NEW m, NEW T, Sound(source, l, m, T), NEW told \in BOOLEAN
    PROVE  Sound(source, Told(l, told), m, T) /\ Grows(l, Told(l, told))
<1>1. LayerOK(source, Told(l, told)) /\ Grows(l, Told(l, told))
  BY ToldIsOK DEF Sound
<1>2. Told(l, told).probed = l.probed
  BY DEF Told
<1> QED
  BY <1>1, <1>2, ReadsKept

\* A fresh layer of a mount no leaf of which was tested.
LEMMA FreshIsSound ==
    ASSUME NEW source, NEW m, NEW T, NEW told \in BOOLEAN, \A k, n : <<m, k, n>> \notin T
    PROVE  Sound(source, Fresh, m, T) /\ Sound(source, Told(Fresh, told), m, T)
<1>1. LayerOK(source, Fresh) /\ LayerOK(source, Told(Fresh, told))
  BY FreshIsOK
<1>2. DOMAIN Fresh.probed = {} /\ DOMAIN Told(Fresh, told).probed = {}
  BY DEF Fresh, Told
<1> QED
  BY <1>1, <1>2 DEF Sound, LayerReads

-----------------------------------------------------------------------------
EntrySet == [name : Names, declared : BOOLEAN, cell : {"latent", "open", "empty"}, layer : Layers]

\* Every layer is sound for the source that stands behind it, a latent mount's fresh.
TableOK(table, T) ==
    /\ table \in Seq(EntrySet)
    /\ \A m \in DOMAIN table : /\ Sound(SourceOf(table[m]), table[m].layer, m, T)
                               /\ table[m].cell = "latent" => table[m].layer = Fresh

IInv == /\ TableOK(mounts, tested)
        /\ whole \in BOOLEAN /\ refusals \subseteq Nat
        /\ tested \subseteq Nat \X Nat \X Notations
        /\ \A m, k, n : <<m, k, n>> \in tested => m \in DOMAIN mounts

\* No mount goes, and its layer grows.
Keeps(t, u) == /\ DOMAIN t \subseteq DOMAIN u
               /\ \A m \in DOMAIN t : Grows(t[m].layer, u[m].layer)

\* A table that keeps another keeps what that one kept.
LEMMA KeepsOn == ASSUME NEW t, NEW u, NEW v, Keeps(t, u), Keeps(u, v) PROVE Keeps(t, v)
<1> QED
  BY GrowsOn DEF Keeps

\* The source behind an entry.
LEMMA SourcedOf == ASSUME NEW e \in EntrySet PROVE Sourced(SourceOf(e))
<1>1. CASE e.cell = "open"
  <2>1. e.name \in DOMAIN Source
    BY DEF EntrySet, Names
  <2>2. /\ DOMAIN Source[e.name].leaves = 1..Len(Source[e.name].leaves)
        /\ Len(Source[e.name].leaves) \in 0..Graft - 1
        /\ \A k \in DOMAIN Source[e.name].leaves : Wellformed(Source[e.name].leaves[k])
    BY <2>1, SourceAssumption
  <2>3. DOMAIN Source[e.name].leaves \subseteq 1..Graft - 1
    BY <2>2, GraftAssumption
  <2> QED
    BY <1>1, <2>2, <2>3 DEF Sourced, SourceOf
<1>2. CASE e.cell # "open"
  <2>1. SourceOf(e).leaves = <<>> /\ DOMAIN SourceOf(e).leaves = {}
    BY <1>2 DEF SourceOf, NoSource
  <2> QED
    BY <2>1 DEF Sourced
<1> QED
  BY <1>1, <1>2

\* The layer of a mount is as sound after tests of other mounts.
LEMMA SoundElsewhere ==
    ASSUME NEW source, NEW l, NEW m, NEW T, NEW U, Sound(source, l, m, T),
           \A k, a : <<m, k, a>> \in U <=> <<m, k, a>> \in T
    PROVE  Sound(source, l, m, U)
<1>1. \A k : {a \in Notations : <<m, k, a>> \in U} = {a \in Notations : <<m, k, a>> \in T}
  OBVIOUS
<1>2. LayerReads(source, l, m, U)
  BY <1>1 DEF Sound, LayerReads
<1> QED
  BY <1>2 DEF Sound

\* A table in which the layer of one mount is another that goes on from it.
LEMMA AnotherLayer ==
    ASSUME NEW t, NEW T, TableOK(t, T), NEW m \in DOMAIN t, t[m].cell # "latent",
           NEW U, \A n, k, a : n # m => (<<n, k, a>> \in U <=> <<n, k, a>> \in T),
           NEW l, Sound(SourceOf(t[m]), l, m, U), Grows(t[m].layer, l)
    PROVE  LET u == [n \in DOMAIN t |-> IF n = m THEN WithLayer(t[m], l) ELSE t[n]]
           IN TableOK(u, U) /\ Keeps(t, u)
<1> DEFINE e == WithLayer(t[m], l)
           u == [n \in DOMAIN t |-> IF n = m THEN e ELSE t[n]]
<1>1. t \in Seq(EntrySet) /\ \A n \in DOMAIN t : t[n] \in EntrySet
  <2>1. t \in Seq(EntrySet)
    BY DEF TableOK
  <2> QED
    BY <2>1
<1>2. l \in Layers
  BY DEF Sound, LayerOK
<1>3. /\ e.name = t[m].name /\ e.declared = t[m].declared /\ e.cell = t[m].cell /\ e.layer = l
      /\ e \in EntrySet
  <2>1. t[m] \in EntrySet
    BY <1>1
  <2> QED
    BY <1>2, <2>1 DEF WithLayer, EntrySet
<1>4. SourceOf(e) = SourceOf(t[m])
  BY <1>3 DEF SourceOf
<1> HIDE DEF e
<1>5. u \in Seq(EntrySet)
  <2>1. Len(t) \in Nat /\ DOMAIN t = 1..Len(t)
    BY <1>1
  <2>2. u \in [1..Len(t) -> EntrySet]
    BY <1>1, <1>3, <2>1
  <2> QED
    BY <2>1, <2>2
<1>6. \A n \in DOMAIN u : /\ Sound(SourceOf(u[n]), u[n].layer, n, U)
                          /\ u[n].cell = "latent" => u[n].layer = Fresh
  <2> SUFFICES ASSUME NEW n \in DOMAIN t
               PROVE  /\ Sound(SourceOf(u[n]), u[n].layer, n, U)
                      /\ u[n].cell = "latent" => u[n].layer = Fresh
    OBVIOUS
  <2>1. CASE n = m
    BY <2>1, <1>3, <1>4
  <2>2. CASE n # m
    <3>1. Sound(SourceOf(t[n]), t[n].layer, n, T) /\ (t[n].cell = "latent" => t[n].layer = Fresh)
      BY DEF TableOK
    <3>2. Sound(SourceOf(t[n]), t[n].layer, n, U)
      BY <2>2, <3>1, SoundElsewhere
    <3> QED
      BY <2>2, <3>1, <3>2
  <2> QED
    BY <2>1, <2>2
<1>7. Keeps(t, u)
  <2>1. \A n \in DOMAIN t : Grows(t[n].layer, u[n].layer)
    BY <1>3, GrowsSelf
  <2> QED
    BY <2>1 DEF Keeps
<1> QED
  BY <1>5, <1>6, <1>7 DEF TableOK, e

\* An opened entry: no leaf of a latent mount was tested.
LEMMA OpenedIs ==
    ASSUME IInv, NEW m \in DOMAIN mounts
    PROVE  /\ Opened(mounts[m]) \in EntrySet /\ Opened(mounts[m]).cell # "latent"
           /\ Sound(SourceOf(Opened(mounts[m])), Opened(mounts[m]).layer, m, tested)
           /\ Grows(mounts[m].layer, Opened(mounts[m]).layer)
<1> DEFINE o == Opened(mounts[m])
<1>1. mounts[m] \in EntrySet
  <2>1. mounts \in Seq(EntrySet)
    BY DEF IInv, TableOK
  <2> QED
    BY <2>1
<1>2. /\ Sound(SourceOf(mounts[m]), mounts[m].layer, m, tested)
      /\ mounts[m].cell = "latent" => mounts[m].layer = Fresh
  BY DEF IInv, TableOK
<1>3. CASE mounts[m].cell # "latent"
  BY <1>1, <1>2, <1>3, GrowsSelf DEF Opened
<1>4. CASE mounts[m].cell = "latent"
  <2> DEFINE told == whole /\ ~Source[mounts[m].name].broken
             cell == IF Source[mounts[m].name].broken THEN "empty" ELSE "open"
  <2>1. told \in BOOLEAN /\ cell \in {"empty", "open"}
    OBVIOUS
  <2>2. o = [name |-> mounts[m].name, declared |-> mounts[m].declared, cell |-> cell,
             layer |-> Told(Fresh, told)]
    BY <1>4 DEF Opened
  <2>3. \A k, n : <<m, k, n>> \notin tested
    BY <1>2, <1>4 DEF Sound, Fresh
  <2> HIDE DEF told, cell
  <2>4. Sound(SourceOf(o), Told(Fresh, told), m, tested)
    BY <2>1, <2>3, FreshIsSound
  <2>5. Told(Fresh, told) \in Layers
    BY <2>4 DEF Sound, LayerOK
  <2>6. Grows(Fresh, Told(Fresh, told))
    BY DEF Grows, Told
  <2>7. o \in EntrySet
    BY <1>1, <2>1, <2>2, <2>5 DEF EntrySet
  <2> QED
    BY <1>2, <1>4, <2>1, <2>2, <2>4, <2>6, <2>7
<1> QED
  BY <1>3, <1>4

\* Opening mounts keeps the table.
LEMMA OpenAllIsOK ==
    ASSUME IInv, NEW reached
    PROVE  TableOK(OpenAll(reached), tested) /\ Keeps(mounts, OpenAll(reached))
<1> DEFINE t == OpenAll(reached)
<1>1. mounts \in Seq(EntrySet) /\ Len(mounts) \in Nat /\ DOMAIN mounts = 1..Len(mounts)
  <2>1. mounts \in Seq(EntrySet)
    BY DEF IInv, TableOK
  <2> QED
    BY <2>1
<1>2. DOMAIN t = DOMAIN mounts
      /\ \A m \in DOMAIN mounts : t[m] = IF m \in reached THEN Opened(mounts[m]) ELSE mounts[m]
  BY DEF OpenAll
<1>3. t = [m \in DOMAIN mounts |-> t[m]]
  BY DEF OpenAll
<1> HIDE DEF t
<1>4. \A m \in DOMAIN mounts : /\ t[m] \in EntrySet
                               /\ Sound(SourceOf(t[m]), t[m].layer, m, tested)
                               /\ t[m].cell = "latent" => t[m].layer = Fresh
                               /\ Grows(mounts[m].layer, t[m].layer)
  <2> SUFFICES ASSUME NEW m \in DOMAIN mounts
               PROVE  /\ t[m] \in EntrySet
                      /\ Sound(SourceOf(t[m]), t[m].layer, m, tested)
                      /\ t[m].cell = "latent" => t[m].layer = Fresh
                      /\ Grows(mounts[m].layer, t[m].layer)
    OBVIOUS
  <2>1. CASE m \in reached
    <3>1. t[m] = Opened(mounts[m])
      BY <1>2, <2>1
    <3> QED
      BY <3>1, OpenedIs
  <2>2. CASE m \notin reached
    <3>1. t[m] = mounts[m] /\ mounts[m] \in EntrySet
      BY <1>1, <1>2, <2>2
    <3> QED
      BY <3>1, GrowsSelf DEF IInv, TableOK
  <2> QED
    BY <2>1, <2>2
<1>5. t \in Seq(EntrySet)
  <2>1. t \in [1..Len(mounts) -> EntrySet]
    BY <1>1, <1>3, <1>4
  <2> QED
    BY <1>1, <2>1
<1> QED
  BY <1>2, <1>4, <1>5 DEF TableOK, Keeps, t

\* A question that reached one mount, whose layer goes on from where it opened.
LEMMA RelayeredIsOK ==
    ASSUME IInv, NEW m \in DOMAIN mounts,
           NEW U, \A n, k, a : n # m => (<<n, k, a>> \in U <=> <<n, k, a>> \in tested),
           NEW l, Sound(SourceOf(Opened(mounts[m])), l, m, U), Grows(Opened(mounts[m]).layer, l)
    PROVE  TableOK(Relayered(m, l), U) /\ Keeps(mounts, Relayered(m, l))
<1> DEFINE t == OpenAll({m})
           u == [n \in DOMAIN t |-> IF n = m THEN WithLayer(t[m], l) ELSE t[n]]
<1>1. TableOK(t, tested) /\ Keeps(mounts, t)
  BY OpenAllIsOK
<1>2. DOMAIN t = DOMAIN mounts /\ t[m] = Opened(mounts[m])
      /\ \A n \in DOMAIN mounts : n # m => t[n] = mounts[n]
  BY DEF OpenAll
<1>3. u = Relayered(m, l)
  BY <1>2 DEF Relayered
<1>4. t[m].cell # "latent" /\ Sound(SourceOf(t[m]), l, m, U) /\ Grows(t[m].layer, l)
  BY <1>2, OpenedIs
<1> HIDE DEF t
<1>5. TableOK(u, U) /\ Keeps(t, u)
  BY <1>1, <1>2, <1>4, AnotherLayer
<1> QED
  BY <1>1, <1>3, <1>5, KeepsOn

\* The first of some numbers is one of them.
LEMMA FirstIs == ASSUME NEW S \in SUBSET Nat, S # {} PROVE First(S) \in S
<1>1. IsWellFoundedOn(OpToRel(<, Nat), Nat)
  BY NatLessThanWellFounded, Zenon
<1>2. PICK x \in S : \A y \in S : ~ (<<y, x>> \in OpToRel(<, Nat))
  BY <1>1, WFMin, Zenon
<1>3. \A y \in S : ~(y < x)
  BY <1>2, Zenon DEF OpToRel
<1>4. \A y \in S : x <= y
  BY <1>3
<1> QED
  BY <1>4 DEF First

\* The table as it becomes.
LEMMA BecomeIsOK ==
    ASSUME IInv, NEW table, Become(table), tested' = tested, whole' = whole,
           TableOK(table, tested), Keeps(mounts, table)
    PROVE  IInv' /\ Keeps(mounts, mounts')
<1>1. mounts' = table /\ refusals' \subseteq Nat
  <2>1. DOMAIN mounts \subseteq Nat
    BY DEF IInv, TableOK
  <2> QED
    BY <2>1 DEF Become, Failed, IInv
<1>2. TableOK(mounts', tested')
  BY <1>1
<1>3. /\ tested' \subseteq Nat \X Nat \X Notations
      /\ \A m, k, n : <<m, k, n>> \in tested' => m \in DOMAIN mounts'
  BY <1>1 DEF Keeps, IInv
<1> QED
  BY <1>1, <1>2, <1>3 DEF IInv

\* A mount added.
LEMMA AddedIsOK ==
    ASSUME IInv, NEW name \in Names, NEW declared \in BOOLEAN, NEW cell \in {"latent", "open"},
           mounts' = Append(mounts, [name |-> name, declared |-> declared, cell |-> cell,
                                     layer |-> Fresh]),
           UNCHANGED <<whole, refusals, tested>>
    PROVE  IInv' /\ Keeps(mounts, mounts')
<1> DEFINE e == [name |-> name, declared |-> declared, cell |-> cell, layer |-> Fresh]
           size == Len(mounts)
<1>1. mounts \in Seq(EntrySet) /\ size \in Nat /\ DOMAIN mounts = 1..size
  <2>1. mounts \in Seq(EntrySet)
    BY DEF IInv, TableOK
  <2> QED
    BY <2>1
<1>2. \A k, n : <<size + 1, k, n>> \notin tested
  <2> SUFFICES ASSUME NEW k, NEW n, <<size + 1, k, n>> \in tested PROVE FALSE
    OBVIOUS
  <2>1. size + 1 \in DOMAIN mounts
    BY DEF IInv
  <2> QED
    BY <1>1, <2>1
<1>3. Sound(SourceOf(e), Fresh, size + 1, tested)
  BY <1>2, FreshIsSound
<1>4. e \in EntrySet
  BY <1>3 DEF EntrySet, Sound, LayerOK
<1>5. e.layer = Fresh
  OBVIOUS
<1> HIDE DEF e
<1>6. /\ Append(mounts, e) \in Seq(EntrySet)
      /\ Len(Append(mounts, e)) = Len(mounts) + 1
      /\ \A i \in 1..Len(mounts) : Append(mounts, e)[i] = mounts[i]
      /\ Append(mounts, e)[Len(mounts) + 1] = e
  BY <1>1, <1>4, AppendProperties
<1>7. mounts' = Append(mounts, e)
  BY DEF e
<1>8. /\ mounts' \in Seq(EntrySet) /\ DOMAIN mounts' = 1..size + 1
      /\ \A i \in 1..size : mounts'[i] = mounts[i]
      /\ mounts'[size + 1] = e
  BY <1>6, <1>7
<1> HIDE DEF size
<1>9. TableOK(mounts', tested)
  <2>1. \A m \in 1..size : /\ Sound(SourceOf(mounts'[m]), mounts'[m].layer, m, tested)
                           /\ mounts'[m].cell = "latent" => mounts'[m].layer = Fresh
    BY <1>1, <1>8 DEF IInv, TableOK
  <2>2. /\ Sound(SourceOf(mounts'[size + 1]), mounts'[size + 1].layer, size + 1, tested)
        /\ mounts'[size + 1].cell = "latent" => mounts'[size + 1].layer = Fresh
    BY <1>3, <1>5, <1>8
  <2>3. \A m \in 1..size + 1 : m \in 1..size \/ m = size + 1
    BY <1>1
  <2> QED
    BY <1>8, <2>1, <2>2, <2>3 DEF TableOK
<1>10. TableOK(mounts', tested')
  BY <1>9
<1>11. Keeps(mounts, mounts')
  <2>1. DOMAIN mounts \subseteq DOMAIN mounts'
    BY <1>1, <1>8
  <2>2. \A m \in DOMAIN mounts : Grows(mounts[m].layer, mounts'[m].layer)
    BY <1>1, <1>8, GrowsSelf
  <2> QED
    BY <2>1, <2>2 DEF Keeps
<1>12. /\ tested' \subseteq Nat \X Nat \X Notations
       /\ \A m, k, n : <<m, k, n>> \in tested' => m \in DOMAIN mounts'
  BY <1>11 DEF Keeps, IInv
<1> QED
  BY <1>10, <1>11, <1>12 DEF IInv

\* An id handed out is a number, and a leaf belongs to an open mount.
LEMMA HeldIs ==
    ASSUME IInv, NEW m \in DOMAIN mounts, NEW id \in HeldOf(m)
    PROVE  Inner(id) \in Nat
<1>1. mounts[m] \in EntrySet
  <2>1. mounts \in Seq(EntrySet)
    BY DEF IInv, TableOK
  <2> QED
    BY <2>1
<1>2. DOMAIN SourceOf(mounts[m]).leaves \subseteq Nat
  BY <1>1, SourcedOf, GraftAssumption DEF Sourced
<1>3. \A k \in DOMAIN mounts[m].layer.table : k \in Nat /\ Graft + k - 1 \in Nat
  <2>1. mounts[m].layer.table \in Seq(Nat \X Nat)
    BY <1>1 DEF EntrySet, Layers
  <2>2. \A k \in DOMAIN mounts[m].layer.table : k \in Nat /\ k >= 1
    BY <2>1
  <2> QED
    BY <2>2, GraftAssumption
<1>4. PICK i \in InnerIds(mounts[m]) \union {RootAlias} : id = <<m, i>>
  BY DEF HeldOf, Encode
<1>5. i \in Nat \/ i = RootAlias
  BY <1>2, <1>3, <1>4 DEF InnerIds
<1> QED
  BY <1>4, <1>5, GraftAssumption DEF Inner

\* A mount whose leaf is at hand is open, and opening it again changes nothing.
LEMMA LeafIsOpen ==
    ASSUME NEW e, NEW k \in DOMAIN SourceOf(e).leaves
    PROVE  Opened(e) = e
<1>1. e.cell = "open"
  BY DEF SourceOf, NoSource
<1> QED
  BY <1>1 DEF Opened

\* Listing children.
LEMMA ChildrenIsOK ==
    ASSUME IInv, NEW m \in DOMAIN mounts, NEW id \in HeldOf(m), Children(m, id)
    PROVE  IInv' /\ Keeps(mounts, mounts')
<1> DEFINE e == Opened(mounts[m])
           l == ChildrenOf(SourceOf(e), e.layer, Inner(id)).layer
<1>1. Become(Relayered(m, l)) /\ tested' = tested /\ whole' = whole
  BY DEF Children
<1>2. e \in EntrySet /\ Sound(SourceOf(e), e.layer, m, tested)
  BY OpenedIs
<1>3. Sourced(SourceOf(e)) /\ Inner(id) \in Nat
  BY <1>2, SourcedOf, HeldIs
<1>4. Sound(SourceOf(e), l, m, tested) /\ Grows(e.layer, l)
  BY <1>2, <1>3, ChildrenGoOn
<1>5. TableOK(Relayered(m, l), tested) /\ Keeps(mounts, Relayered(m, l))
  BY <1>4, RelayeredIsOK
<1> QED
  BY <1>1, <1>5, BecomeIsOK

\* Touching a leaf.
LEMMA TouchIsOK ==
    ASSUME IInv, NEW m \in DOMAIN mounts, NEW id \in HeldOf(m), Touch(m, id)
    PROVE  IInv' /\ Keeps(mounts, mounts')
<1> DEFINE e == mounts[m]
           l == Probe(SourceOf(e), e.layer, Inner(id), None)
<1>1. /\ Become(Relayered(m, l)) /\ tested' = tested /\ whole' = whole
      /\ Inner(id) \in DOMAIN SourceOf(e).leaves
  BY DEF Touch, IsLeaf
<1>2. Opened(e) = e
  BY <1>1, LeafIsOpen
<1>3. e \in EntrySet /\ Sound(SourceOf(e), e.layer, m, tested)
  BY <1>2, OpenedIs
<1>4. Sourced(SourceOf(e))
  BY <1>3, SourcedOf
<1>5. Sound(SourceOf(e), l, m, tested) /\ Grows(e.layer, l)
  BY <1>1, <1>3, <1>4, ProbeGoesOn
<1>6. TableOK(Relayered(m, l), tested) /\ Keeps(mounts, Relayered(m, l))
  BY <1>2, <1>5, RelayeredIsOK
<1> QED
  BY <1>1, <1>6, BecomeIsOK

\* Following within a document.
LEMMA FollowIsOK ==
    ASSUME IInv, NEW m \in DOMAIN mounts, NEW id \in HeldOf(m), Follow(m, id)
    PROVE  IInv' /\ Keeps(mounts, mounts')
<1> DEFINE e == mounts[m]
<1>1. PICK t \in Reachable(SourceOf(e), e.layer, Inner(id)) :
        Become(Relayered(m, FollowTo(SourceOf(e), e.layer, Inner(id), t).layer))
  BY DEF Follow
<1>2. /\ tested' = tested /\ whole' = whole
      /\ Inner(id) \in DOMAIN SourceOf(e).leaves \/ Interned(e.layer, Inner(id))
  BY DEF Follow, IsLeaf
<1> DEFINE l == FollowTo(SourceOf(e), e.layer, Inner(id), t).layer
<1>3. e \in EntrySet /\ Sound(SourceOf(e), e.layer, m, tested)
  <2>1. mounts \in Seq(EntrySet) /\ Sound(SourceOf(e), e.layer, m, tested)
    BY DEF IInv, TableOK
  <2> QED
    BY <2>1
<1>4. Sourced(SourceOf(e)) /\ Inner(id) \in Nat
  BY <1>3, SourcedOf, HeldIs
<1>5. Sound(SourceOf(e), l, m, tested) /\ Grows(e.layer, l)
  BY <1>1, <1>2, <1>3, <1>4, FollowGoesOn
<1>6. Opened(e) = e
  <2>1. CASE Inner(id) \in DOMAIN SourceOf(e).leaves
    BY <2>1, LeafIsOpen
  <2>2. CASE Interned(e.layer, Inner(id))
    <3>1. e.layer # Fresh
      BY <2>2, <1>4, GraftAssumption DEF Interned, Fresh
    <3>2. e.cell # "latent"
      BY <3>1 DEF IInv, TableOK
    <3> QED
      BY <3>2 DEF Opened
  <2> QED
    BY <1>2, <2>1, <2>2
<1> HIDE DEF l
<1>7. TableOK(Relayered(m, l), tested) /\ Keeps(mounts, Relayered(m, l))
  BY <1>5, <1>6, RelayeredIsOK
<1> QED
  BY <1>1, <1>2, <1>7, BecomeIsOK DEF l

\* Testing a leaf for a notation: the test is recorded with what the leaf shows.
LEMMA TestIsOK ==
    ASSUME IInv, NEW m \in DOMAIN mounts, NEW id \in HeldOf(m), NEW a \in Notations,
           Test(m, id, a)
    PROVE  IInv' /\ Keeps(mounts, mounts')
<1> DEFINE e == mounts[m]
           k == Inner(id)
           l == GraftAs(SourceOf(e), e.layer, k, a)
           U == tested \union {<<m, k, a>>}
<1>1. /\ Become(Relayered(m, l)) /\ tested' = U /\ whole' = whole
      /\ k \in DOMAIN SourceOf(e).leaves
  BY DEF Test, IsLeaf
<1>2. Opened(e) = e
  BY <1>1, LeafIsOpen
<1>3. e \in EntrySet /\ Sound(SourceOf(e), e.layer, m, tested)
  BY <1>2, OpenedIs
<1>4. Sourced(SourceOf(e)) /\ k \in Nat
  BY <1>3, SourcedOf, HeldIs
<1>5. Sound(SourceOf(e), l, m, U) /\ Grows(e.layer, l)
  BY <1>1, <1>3, <1>4, TestGoesOn
<1>6. \A n, j, b : n # m => (<<n, j, b>> \in U <=> <<n, j, b>> \in tested)
  OBVIOUS
<1>7. mounts' = Relayered(m, l) /\ refusals' \subseteq Nat
  <2>1. DOMAIN mounts \subseteq Nat
    BY DEF IInv, TableOK
  <2> QED
    BY <1>1, <2>1 DEF Become, Failed, IInv
<1> HIDE DEF l, U, k
<1>8. TableOK(Relayered(m, l), U) /\ Keeps(mounts, Relayered(m, l))
  BY <1>2, <1>5, <1>6, RelayeredIsOK
<1>9. /\ tested' \subseteq Nat \X Nat \X Notations
      /\ \A i, j, b : <<i, j, b>> \in tested' => i \in DOMAIN mounts'
  <2>1. m \in Nat /\ k \in Nat
    BY <1>4 DEF IInv, TableOK
  <2>2. <<m, k, a>> \in Nat \X Nat \X Notations
    BY <2>1
  <2>3. U \subseteq Nat \X Nat \X Notations
    BY <2>2 DEF U, IInv
  <2>4. \A i, j, b : <<i, j, b>> \in U => i \in DOMAIN mounts
    BY DEF U, IInv
  <2>5. DOMAIN mounts \subseteq DOMAIN mounts'
    BY <1>7, <1>8 DEF Keeps
  <2> QED
    BY <1>1, <2>3, <2>4, <2>5
<1>10. TableOK(mounts', tested')
  BY <1>1, <1>7, <1>8
<1> QED
  BY <1>1, <1>7, <1>8, <1>9, <1>10 DEF IInv

\* An entry of the table, as IInv has it.
LEMMA EntryIs ==
    ASSUME IInv, NEW m \in DOMAIN mounts
    PROVE  /\ m \in Nat /\ mounts[m] \in EntrySet
           /\ Sourced(SourceOf(mounts[m])) /\ DOMAIN SourceOf(mounts[m]).leaves \subseteq Nat
           /\ Sound(SourceOf(mounts[m]), mounts[m].layer, m, tested)
<1>1. mounts \in Seq(EntrySet) /\ Sound(SourceOf(mounts[m]), mounts[m].layer, m, tested)
  BY DEF IInv, TableOK
<1>2. m \in Nat /\ mounts[m] \in EntrySet
  BY <1>1
<1>3. Sourced(SourceOf(mounts[m]))
  BY <1>2, SourcedOf
<1> QED
  BY <1>1, <1>2, <1>3, GraftAssumption DEF Sourced

\* A document by its identity.
LEMMA FetchIsOK ==
    ASSUME IInv, NEW d \in Documents, Fetch(d)
    PROVE  IInv' /\ Keeps(mounts, mounts')
<1> DEFINE serving == {m \in DOMAIN mounts : Serves(m, d) # {}}
           m == First(serving)
           e == mounts[m]
           k == First(Serves(m, d))
           l == Probe(SourceOf(e), e.layer, k, None)
<1>1. /\ serving # {} /\ Become(Relayered(m, l)) /\ tested' = tested /\ whole' = whole
  BY DEF Fetch
<1>2. m \in DOMAIN mounts /\ Serves(m, d) # {}
  <2>1. serving \in SUBSET Nat
    BY EntryIs
  <2>2. m \in serving
    BY <1>1, <2>1, FirstIs
  <2> QED
    BY <2>2
<1> HIDE DEF m
<1>3. /\ Sourced(SourceOf(e)) /\ DOMAIN SourceOf(e).leaves \subseteq Nat
      /\ Sound(SourceOf(e), e.layer, m, tested)
  BY <1>2, EntryIs
<1>4. k \in DOMAIN SourceOf(e).leaves
  <2>1. Serves(m, d) \in SUBSET Nat /\ Serves(m, d) \subseteq DOMAIN SourceOf(e).leaves
    BY <1>3 DEF Serves
  <2>2. k \in Serves(m, d)
    BY <1>2, <2>1, FirstIs
  <2> QED
    BY <2>1, <2>2
<1> HIDE DEF k
<1>5. Opened(e) = e
  BY <1>4, LeafIsOpen
<1>6. Sound(SourceOf(e), l, m, tested) /\ Grows(e.layer, l)
  BY <1>3, <1>4, ProbeGoesOn
<1> HIDE DEF l
<1>7. TableOK(Relayered(m, l), tested) /\ Keeps(mounts, Relayered(m, l))
  BY <1>2, <1>5, <1>6, RelayeredIsOK
<1> QED
  BY <1>1, <1>7, BecomeIsOK

\* A text grafted on demand, in the first mount that is open or opens.
LEMMA GraftOnDemandIsOK ==
    ASSUME IInv, NEW a \in Notations, GraftOnDemand(a)
    PROVE  IInv' /\ Keeps(mounts, mounts')
<1> DEFINE candidates == IF OpenMounts # {} THEN OpenMounts ELSE Openable
           reached == IF OpenMounts # {} THEN {}
                      ELSE IF Openable # {} THEN 1..First(Openable) ELSE DOMAIN mounts
           table == OpenAll(reached)
           m == First(candidates)
           u == [n \in DOMAIN mounts |->
                   IF n = m THEN WithLayer(table[m], GraftText(table[m].layer, a)) ELSE table[n]]
<1>1. tested' = tested /\ whole' = whole
  BY DEF GraftOnDemand
<1>2. Become(table) \/ (candidates # {} /\ Become(u))
  BY DEF GraftOnDemand
<1>3. TableOK(table, tested) /\ Keeps(mounts, table) /\ DOMAIN table = DOMAIN mounts
  <2>1. DOMAIN table = DOMAIN mounts
    BY DEF OpenAll
  <2> QED
    BY <2>1, OpenAllIsOK
<1>4. CASE Become(table)
  BY <1>1, <1>3, <1>4, BecomeIsOK
<1>5. CASE candidates # {} /\ Become(u)
  <2>1. candidates \in SUBSET Nat /\ candidates \subseteq DOMAIN mounts
    <3>1. candidates \subseteq DOMAIN mounts
      BY DEF OpenMounts, Openable
    <3> QED
      BY <3>1, EntryIs
  <2>2. m \in candidates /\ m \in DOMAIN mounts /\ m \in Nat
    BY <1>5, <2>1, FirstIs
  <2>3. table[m].cell # "latent"
    <3>1. CASE OpenMounts # {}
      <4>1. mounts[m].cell = "open"
        BY <2>2, <3>1 DEF OpenMounts
      <4>2. table[m] = mounts[m]
        BY <2>2, <3>1 DEF OpenAll
      <4> QED
        BY <4>1, <4>2
    <3>2. CASE OpenMounts = {}
      <4>1. m = First(Openable) /\ Openable # {}
        BY <1>5, <3>2
      <4>2. 1 <= m
        BY <2>2 DEF IInv, TableOK
      <4>3. m \in reached
        BY <2>2, <3>2, <4>1, <4>2
      <4>4. table[m] = Opened(mounts[m])
        BY <2>2, <4>3 DEF OpenAll
      <4> QED
        BY <2>2, <4>4, OpenedIs
    <3> QED
      BY <3>1, <3>2
  <2> HIDE DEF m, table, candidates
  <2>4. Sound(SourceOf(table[m]), table[m].layer, m, tested)
    BY <1>3, <2>2 DEF TableOK
  <2>5. /\ Sound(SourceOf(table[m]), GraftText(table[m].layer, a), m, tested)
        /\ Grows(table[m].layer, GraftText(table[m].layer, a))
    BY <2>4, TextGoesOn
  <2>6. TableOK(u, tested) /\ Keeps(table, u)
    BY <1>3, <2>2, <2>3, <2>5, AnotherLayer
  <2>7. Keeps(mounts, u)
    BY <1>3, <2>6, KeepsOn
  <2> HIDE DEF u
  <2> QED
    BY <1>1, <1>5, <2>6, <2>7, BecomeIsOK
<1> QED
  BY <1>2, <1>4, <1>5

\* Every open mount is told to list whole tables.
LEMMA WholeListingsIsOK ==
    ASSUME IInv, WholeListings
    PROVE  IInv' /\ Keeps(mounts, mounts')
<1> DEFINE told == [m \in DOMAIN mounts |-> WithLayer(mounts[m], Told(mounts[m].layer, TRUE))]
<1>1. /\ whole' = TRUE /\ refusals' = refusals /\ tested' = tested
      /\ mounts' = [m \in DOMAIN mounts |-> IF mounts[m].cell = "open" THEN told[m] ELSE mounts[m]]
  BY DEF WholeListings
<1>2. \A m \in DOMAIN mounts : mounts[m].cell = "open" =>
        /\ told[m] \in EntrySet /\ told[m].cell = "open"
        /\ SourceOf(told[m]) = SourceOf(mounts[m])
        /\ Sound(SourceOf(told[m]), told[m].layer, m, tested)
        /\ Grows(mounts[m].layer, told[m].layer)
  <2> SUFFICES ASSUME NEW m \in DOMAIN mounts, mounts[m].cell = "open"
               PROVE  /\ told[m] \in EntrySet /\ told[m].cell = "open"
                      /\ SourceOf(told[m]) = SourceOf(mounts[m])
                      /\ Sound(SourceOf(told[m]), told[m].layer, m, tested)
                      /\ Grows(mounts[m].layer, told[m].layer)
    OBVIOUS
  <2> DEFINE n == Told(mounts[m].layer, TRUE)
  <2>1. mounts[m] \in EntrySet /\ Sound(SourceOf(mounts[m]), mounts[m].layer, m, tested)
    BY EntryIs
  <2>2. Sound(SourceOf(mounts[m]), n, m, tested) /\ Grows(mounts[m].layer, n)
    BY <2>1, ToldGoesOn
  <2> HIDE DEF n
  <2>3. n \in Layers
    BY <2>2 DEF Sound, LayerOK
  <2>4. /\ told[m].name = mounts[m].name /\ told[m].cell = "open" /\ told[m].layer = n
        /\ told[m].declared = mounts[m].declared
    BY DEF WithLayer, n
  <2>5. told[m] \in EntrySet
    BY <2>1, <2>3 DEF WithLayer, EntrySet, n
  <2>6. SourceOf(told[m]) = SourceOf(mounts[m])
    BY <2>4 DEF SourceOf
  <2> HIDE DEF told
  <2> QED
    BY <2>2, <2>4, <2>5, <2>6
<1> HIDE DEF told
<1>3. mounts \in Seq(EntrySet) /\ Len(mounts) \in Nat /\ DOMAIN mounts = 1..Len(mounts)
  <2>1. mounts \in Seq(EntrySet)
    BY DEF IInv, TableOK
  <2> QED
    BY <2>1
<1>4. mounts' \in Seq(EntrySet)
  <2>1. mounts' \in [1..Len(mounts) -> EntrySet]
    BY <1>1, <1>2, <1>3, EntryIs
  <2> QED
    BY <1>3, <2>1
<1>5. TableOK(mounts', tested)
  <2> SUFFICES ASSUME NEW m \in DOMAIN mounts'
               PROVE  /\ Sound(SourceOf(mounts'[m]), mounts'[m].layer, m, tested)
                      /\ mounts'[m].cell = "latent" => mounts'[m].layer = Fresh
    BY <1>4 DEF TableOK
  <2>1. m \in DOMAIN mounts
    BY <1>1
  <2>2. CASE mounts[m].cell = "open"
    BY <1>1, <1>2, <2>1, <2>2
  <2>3. CASE mounts[m].cell # "open"
    <3>1. mounts'[m] = mounts[m]
      BY <1>1, <2>1, <2>3
    <3> QED
      BY <2>1, <3>1 DEF IInv, TableOK
  <2> QED
    BY <2>2, <2>3
<1>6. Keeps(mounts, mounts')
  <2>1. \A m \in DOMAIN mounts : Grows(mounts[m].layer, mounts'[m].layer)
    BY <1>1, <1>2, GrowsSelf
  <2> QED
    BY <1>1, <2>1 DEF Keeps
<1>7. TableOK(mounts', tested')
  BY <1>1, <1>5
<1> QED
  BY <1>1, <1>6, <1>7 DEF IInv, Keeps

\* The query ends; only the refusals go.
LEMMA EndQueryIsOK ==
    ASSUME IInv, UNCHANGED <<mounts, whole, tested>>, refusals' \subseteq Nat
    PROVE  IInv' /\ Keeps(mounts, mounts')
<1>1. Keeps(mounts, mounts')
  BY GrowsSelf DEF Keeps
<1>2. TableOK(mounts', tested')
  BY DEF IInv
<1> QED
  BY <1>1, <1>2 DEF IInv

\* Every step keeps the invariant, and what the table holds.
LEMMA StepIsOK == ASSUME IInv, [Next]_vars PROVE IInv' /\ Keeps(mounts, mounts')
<1>1. CASE \E name \in Names : Push(name)
  <2>1. PICK name \in Names : Push(name)
    BY <1>1
  <2> QED
    BY <2>1, AddedIsOK DEF Push
<1>2. CASE \E name \in Names : Declare(name)
  <2>1. PICK name \in Names : Declare(name)
    BY <1>2
  <2> QED
    BY <2>1, AddedIsOK DEF Declare
<1>3. CASE \E name \in Names : HopByName(name)
  <2>1. PICK name \in Names : HopByName(name)
    BY <1>3
  <2> DEFINE table == OpenAll({m \in DOMAIN mounts : mounts[m].name = name})
  <2>2. Become(table) /\ tested' = tested /\ whole' = whole
    BY <2>1 DEF HopByName
  <2>3. TableOK(table, tested) /\ Keeps(mounts, table)
    BY OpenAllIsOK
  <2> QED
    BY <2>2, <2>3, BecomeIsOK
<1>4. CASE ListRoot
  <2>1. Become(OpenAll(DOMAIN mounts)) /\ tested' = tested /\ whole' = whole
    BY <1>4 DEF ListRoot
  <2>2. TableOK(OpenAll(DOMAIN mounts), tested) /\ Keeps(mounts, OpenAll(DOMAIN mounts))
    BY OpenAllIsOK
  <2> QED
    BY <2>1, <2>2, BecomeIsOK
<1>5. CASE WholeListings
  BY <1>5, WholeListingsIsOK
<1>6. CASE EndQuery
  BY <1>6, EndQueryIsOK DEF EndQuery
<1>7. CASE \E m \in DOMAIN mounts : AskNode(m)
  <2>1. PICK m \in DOMAIN mounts : AskNode(m)
    BY <1>7
  <2>2. PICK id \in HeldOf(m) :
          Children(m, id) \/ Touch(m, id) \/ Follow(m, id) \/ \E n \in Notations : Test(m, id, n)
    BY <2>1 DEF AskNode
  <2> QED
    BY <2>2, ChildrenIsOK, TouchIsOK, FollowIsOK, TestIsOK
<1>8. CASE \E d \in Documents : Fetch(d)
  BY <1>8, FetchIsOK
<1>9. CASE \E n \in Notations : GraftOnDemand(n)
  BY <1>9, GraftOnDemandIsOK
<1>10. CASE UNCHANGED vars
  <2>1. UNCHANGED <<mounts, whole, tested>> /\ refusals' = refusals
    BY <1>10 DEF vars
  <2>2. refusals' \subseteq Nat
    BY <2>1 DEF IInv
  <2> QED
    BY <2>1, <2>2, EndQueryIsOK
<1> QED
  BY <1>1, <1>2, <1>3, <1>4, <1>5, <1>6, <1>7, <1>8, <1>9, <1>10 DEF Next

\* The empty table.
LEMMA InitIsOK == ASSUME Init PROVE IInv
<1>1. mounts = <<>> /\ whole = FALSE /\ refusals = {} /\ tested = {}
  BY DEF Init
<1>2. mounts \in Seq(EntrySet) /\ DOMAIN mounts = {}
  BY <1>1
<1>3. TableOK(mounts, tested)
  BY <1>2 DEF TableOK
<1> QED
  BY <1>1, <1>3 DEF IInv

\* The table is sound in every state: its layers, the ids in them, and what their
\* leaves were read as.
THEOREM Invariance == Spec => []IInv
<1>1. Init => IInv
  BY InitIsOK
<1>2. IInv /\ [Next]_vars => IInv'
  BY StepIsOK
<1> QED
  BY <1>1, <1>2, PTL DEF Spec

\* The table is typed, whatever is asked of it.
THEOREM TypeCorrect == Spec => []TypeOK
<1>1. IInv => TypeOK
  BY DEF IInv, TableOK, EntrySet, TypeOK
<1> QED
  BY <1>1, Invariance, PTL

\* The ids of an entry are numbers: its root, its leaves, and after them its table's.
LEMMA InnerIdIs ==
    ASSUME IInv, NEW m \in DOMAIN mounts, NEW i \in InnerIds(mounts[m])
    PROVE  /\ i \in Nat
           /\ \/ i < Graft /\ ~Interned(mounts[m].layer, i)
              \/ /\ Interned(mounts[m].layer, i) /\ i - Graft + 1 \in DOMAIN mounts[m].layer.table
                 /\ Split(mounts[m].layer, i) = mounts[m].layer.table[i - Graft + 1]
<1> DEFINE e == mounts[m]
<1>1. Sourced(SourceOf(e)) /\ Sound(SourceOf(e), e.layer, m, tested)
  BY EntryIs
<1>2. e.layer.table \in Seq(Nat \X Nat)
  BY <1>1 DEF Sound, LayerOK, Layers
<1>3. CASE i = 0 \/ i \in DOMAIN SourceOf(e).leaves
  <2>1. i \in 0..Graft - 1
    BY <1>1, <1>3, GraftAssumption DEF Sourced
  <2> QED
    BY <2>1, GraftAssumption DEF Interned
<1>4. CASE \E k \in DOMAIN e.layer.table : i = Graft + k - 1
  <2>1. PICK k \in DOMAIN e.layer.table : i = Graft + k - 1
    BY <1>4
  <2>2. k \in 1..Len(e.layer.table) /\ Len(e.layer.table) \in Nat
    BY <1>2, <2>1
  <2>3. i \in Nat /\ i >= Graft /\ i - Graft < Len(e.layer.table) /\ i - Graft + 1 = k
    BY <2>1, <2>2, GraftAssumption
  <2> QED
    BY <2>1, <2>3 DEF Interned, Split
<1> QED
  BY <1>3, <1>4 DEF InnerIds

\* Within a mount an id stands for one node, and a node has one id.
LEMMA OneId ==
    ASSUME IInv, NEW m \in DOMAIN mounts,
           NEW i \in InnerIds(mounts[m]), NEW j \in InnerIds(mounts[m]),
           Meaning(mounts[m], i) = Meaning(mounts[m], j)
    PROVE  i = j
<1> DEFINE l == mounts[m].layer
           source == SourceOf(mounts[m])
<1>1. LayerOK(source, l) /\ Sourced(source)
  BY EntryIs DEF Sound
<1>2. l.grafts \in Seq(GraftSet)
  BY <1>1 DEF LayerOK, Layers, GraftSet
<1>3. \A k \in DOMAIN l.table :
        /\ l.table[k][1] \in DOMAIN l.grafts
        /\ l.table[k][2] = 0 => l.grafts[l.table[k][1]].free
  BY <1>1 DEF LayerOK
<1>4. \A g \in DOMAIN l.grafts : l.grafts[g].free =>
        /\ l.grafts[g].at \in Nat /\ l.grafts[g].at - Graft + 1 \in DOMAIN l.table
        /\ l.table[l.grafts[g].at - Graft + 1] = <<g, 0>>
  <2>1. \A g \in DOMAIN l.grafts : l.grafts[g] \in GraftSet
    BY <1>2
  <2> QED
    BY <1>1, <2>1 DEF LayerOK, GraftSet
<1>5. \A g \in DOMAIN l.grafts : ~l.grafts[g].free =>
        l.grafts[g].at \in DOMAIN source.leaves /\ l.probed[l.grafts[g].at] = g
  BY <1>1 DEF LayerOK
<1>6. \A g \in DOMAIN l.grafts : l.grafts[g].free => Interned(l, l.grafts[g].at)
  <2>1. l.table \in Seq(Nat \X Nat)
    BY <1>1 DEF LayerOK, Layers
  <2>2. Len(l.table) \in Nat /\ DOMAIN l.table = 1..Len(l.table)
    BY <2>1
  <2>3. \A a \in Nat : a - Graft + 1 \in DOMAIN l.table => a >= Graft /\ a - Graft < Len(l.table)
    BY <2>2, GraftAssumption
  <2> QED
    BY <1>4, <2>3 DEF Interned
<1>7. \A g \in DOMAIN l.grafts : ~l.grafts[g].free => l.grafts[g].at < Graft
  BY <1>1, <1>5, GraftAssumption DEF Sourced
<1>8. \A g, h \in DOMAIN l.grafts : l.grafts[g].at = l.grafts[h].at => g = h
  <2> SUFFICES ASSUME NEW g \in DOMAIN l.grafts, NEW h \in DOMAIN l.grafts,
                      l.grafts[g].at = l.grafts[h].at
               PROVE  g = h
    OBVIOUS
  <2>1. CASE l.grafts[g].free /\ l.grafts[h].free
    <3>1. <<g, 0>> = <<h, 0>>
      BY <2>1, <1>4
    <3> QED
      BY <3>1
  <2>2. CASE ~l.grafts[g].free /\ ~l.grafts[h].free
    BY <2>2, <1>5
  <2>3. ~(l.grafts[g].free /\ ~l.grafts[h].free) /\ ~(~l.grafts[g].free /\ l.grafts[h].free)
    BY <1>4, <1>6, <1>7, GraftAssumption DEF Interned
  <2> QED
    BY <2>1, <2>2, <2>3
<1>9. /\ i \in Nat /\ j \in Nat
      /\ Interned(l, i) => /\ i - Graft + 1 \in DOMAIN l.table
                           /\ Split(l, i) = l.table[i - Graft + 1]
      /\ Interned(l, j) => /\ j - Graft + 1 \in DOMAIN l.table
                           /\ Split(l, j) = l.table[j - Graft + 1]
  BY InnerIdIs
<1>10. CASE Interned(l, i) /\ Interned(l, j)
  <2> DEFINE p == i - Graft + 1
             q == j - Graft + 1
  <2>1. /\ l.grafts[l.table[p][1]].at = l.grafts[l.table[q][1]].at
        /\ l.table[p][2] = l.table[q][2]
    BY <1>9, <1>10 DEF Meaning
  <2>2. p \in DOMAIN l.table /\ q \in DOMAIN l.table
    BY <1>9, <1>10
  <2> HIDE DEF p, q
  <2>3. l.table[p][1] = l.table[q][1]
    BY <1>3, <1>8, <2>1, <2>2
  <2>4. l.table[p] \in Nat \X Nat /\ l.table[q] \in Nat \X Nat
    <3>1. l.table \in Seq(Nat \X Nat)
      BY <1>1 DEF LayerOK, Layers
    <3> QED
      BY <2>2, <3>1
  <2>5. l.table[p] = l.table[q]
    BY <2>1, <2>3, <2>4
  <2>6. p = q
    BY <1>1, <2>2, <2>5 DEF LayerOK
  <2> QED
    BY <1>9, <2>6, GraftAssumption DEF p, q
<1>11. \A a, b \in Nat : Interned(l, a) /\ ~Interned(l, b)
         /\ (Interned(l, a) => /\ a - Graft + 1 \in DOMAIN l.table
                               /\ Split(l, a) = l.table[a - Graft + 1])
           => Meaning(mounts[m], a) # Meaning(mounts[m], b)
  <2> SUFFICES ASSUME NEW a \in Nat, NEW b \in Nat, Interned(l, a), ~Interned(l, b),
                      a - Graft + 1 \in DOMAIN l.table, Split(l, a) = l.table[a - Graft + 1],
                      Meaning(mounts[m], a) = Meaning(mounts[m], b)
               PROVE  FALSE
    OBVIOUS
  <2> DEFINE g == l.table[a - Graft + 1][1]
  <2>1. l.grafts[g].at = b /\ l.table[a - Graft + 1][2] = 0
    BY DEF Meaning
  <2>2. g \in DOMAIN l.grafts /\ l.grafts[g].free
    BY <1>3, <2>1
  <2> QED
    BY <1>6, <2>1, <2>2
<1>12. CASE ~Interned(l, i) /\ ~Interned(l, j)
  BY <1>12 DEF Meaning
<1> QED
  BY <1>9, <1>10, <1>11, <1>12

\* The engine tells nodes apart by their ids: no two stand for one node of a mount.
THEOREM OneIdEach == Spec => []OneIdPerNode
<1>1. IInv => OneIdPerNode
  BY OneId DEF OneIdPerNode
<1> QED
  BY <1>1, Invariance, PTL

\* What a leaf shows is a reading; a layer that holds it shows it on.
LEMMA MeaningKept ==
    ASSUME IInv, IInv', Keeps(mounts, mounts'), NEW m \in DOMAIN mounts,
           NEW i \in InnerIds(mounts[m]), Meaning(mounts[m], i)[2] # None
    PROVE  Meaning(mounts'[m], i) = Meaning(mounts[m], i)
<1> DEFINE l == mounts[m].layer
           n == mounts'[m].layer
           source == SourceOf(mounts[m])
<1>1. Sourced(source) /\ LayerOK(source, l)
  BY EntryIs DEF Sound
<1>2. m \in DOMAIN mounts' /\ Grows(l, n)
  BY DEF Keeps
<1>3. n.table \in Seq(Nat \X Nat) /\ Len(n.table) \in Nat /\ DOMAIN n.table = 1..Len(n.table)
  <2>1. TableOK(mounts', tested')
    BY DEF IInv
  <2>2. n.table \in Seq(Nat \X Nat)
    BY <1>2, <2>1 DEF TableOK, Sound, LayerOK, Layers
  <2> QED
    BY <2>2
<1>4. /\ i \in Nat
      /\ \/ i < Graft /\ ~Interned(l, i)
         \/ /\ Interned(l, i) /\ i - Graft + 1 \in DOMAIN l.table
            /\ Split(l, i) = l.table[i - Graft + 1]
  BY InnerIdIs
<1>5. CASE i < Graft /\ ~Interned(l, i)
  <2>1. ~Interned(n, i)
    BY <1>4, <1>5, GraftAssumption DEF Interned
  <2>2. /\ Meaning(mounts[m], i) = <<i, ReadingAt(mounts[m], i), 0>>
        /\ Meaning(mounts'[m], i) = <<i, ReadingAt(mounts'[m], i), 0>>
    BY <1>5, <2>1 DEF Meaning
  <2>3. i \in DOMAIN l.probed /\ l.probed[i] # Nothing
    BY <2>2 DEF ReadingAt
  <2>4. l.probed[i] \in DOMAIN l.grafts
    BY <1>1, <2>3 DEF LayerOK
  <2>5. /\ i \in DOMAIN n.probed /\ n.probed[i] = l.probed[i]
        /\ n.grafts[l.probed[i]] = l.grafts[l.probed[i]]
    BY <1>2, <2>3, <2>4 DEF Grows
  <2>6. ReadingAt(mounts'[m], i) = ReadingAt(mounts[m], i)
    BY <2>3, <2>5 DEF ReadingAt
  <2> QED
    BY <2>2, <2>6
<1>6. CASE Interned(l, i)
  <2> DEFINE p == i - Graft + 1
  <2>1. p \in DOMAIN l.table /\ Split(l, i) = l.table[p] /\ i >= Graft
    BY <1>4, <1>6 DEF Interned
  <2>2. p \in DOMAIN n.table /\ n.table[p] = l.table[p]
    BY <1>2, <2>1 DEF Grows
  <2>3. i - Graft < Len(n.table)
    BY <1>3, <1>4, <2>1, <2>2, GraftAssumption
  <2>4. Interned(n, i) /\ Split(n, i) = Split(l, i)
    BY <2>1, <2>2, <2>3 DEF Interned, Split
  <2>5. Split(l, i)[1] \in DOMAIN l.grafts
    BY <1>1, <2>1 DEF LayerOK
  <2>6. n.grafts[Split(l, i)[1]] = l.grafts[Split(l, i)[1]]
    BY <1>2, <2>5 DEF Grows
  <2> QED
    BY <1>6, <2>4, <2>6 DEF Meaning
<1> QED
  BY <1>4, <1>5, <1>6

\* Whatever is asked, an id stands on for the node it was given to.
THEOREM IdsAreKept == Spec => IdsKeep
<1> DEFINE Kept == \A m \in DOMAIN mounts : \A i \in InnerIds(mounts[m]) :
                     Meaning(mounts[m], i)[2] # None => Meaning(mounts'[m], i) = Meaning(mounts[m], i)
<1>1. IInv /\ [Next]_vars => Kept
  <2> SUFFICES ASSUME IInv, [Next]_vars PROVE Kept
    OBVIOUS
  <2>1. IInv' /\ Keeps(mounts, mounts')
    BY StepIsOK
  <2> QED
    BY <2>1, MeaningKept
<1>2. IInv /\ [Next]_vars => [Kept]_vars
  BY <1>1
<1> HIDE DEF Kept
<1>3. Spec => [][Kept]_vars
  BY <1>2, Invariance, PTL DEF Spec
<1> QED
  BY <1>3 DEF IdsKeep, Kept

\* What a leaf shows comes from itself and the hops that named it.
THEOREM ReadAsItWasAsked == Spec => []ReadsAsAsked
<1>1. IInv => ReadsAsAsked
  <2> SUFFICES ASSUME IInv, NEW m \in OpenMounts, NEW k \in DOMAIN mounts[m].layer.probed
               PROVE  LET source == SourceOf(mounts[m])
                          own == ReadAs(source.leaves[k], None)
                          hops == {n \in Notations : <<m, k, n>> \in tested}
                          shown == ReadingAt(mounts[m], k)
                          takes == hops \intersect source.leaves[k].parses
                      IN IF shown = None THEN takes = {} /\ (own # None => hops # {})
                         ELSE \/ shown \in takes
                              \/ shown = own /\ (source.onDemand => source.leaves[k].host # None)
    BY DEF ReadsAsAsked
  <2>1. m \in DOMAIN mounts
    BY DEF OpenMounts
  <2>2. LayerReads(SourceOf(mounts[m]), mounts[m].layer, m, tested)
    BY <2>1, EntryIs DEF Sound
  <2>3. ReadingAt(mounts[m], k)
          = IF mounts[m].layer.probed[k] # Nothing
            THEN mounts[m].layer.grafts[mounts[m].layer.probed[k]].reading ELSE None
    BY DEF ReadingAt
  <2> QED
    BY <2>2, <2>3 DEF LayerReads
<1> QED
  BY <1>1, Invariance, PTL

-----------------------------------------------------------------------------
\* The id of a node in the table, and the node behind it.
LEMMA IdOfIs ==
    ASSUME NEW source, NEW l, LayerOK(source, l), NEW k \in DOMAIN l.table, NEW g, NEW i,
           l.table[k] = <<g, i>>
    PROVE  /\ IdOf(l, g, i) \in Nat /\ IdOf(l, g, i) - Graft + 1 = k
           /\ Interned(l, IdOf(l, g, i)) /\ Split(l, IdOf(l, g, i)) = <<g, i>>
<1>1. l.table \in Seq(Nat \X Nat)
  BY DEF LayerOK, Layers
<1>2. Len(l.table) \in Nat /\ DOMAIN l.table = 1..Len(l.table) /\ k \in 1..Len(l.table)
  BY <1>1
<1> DEFINE c == CHOOSE j \in DOMAIN l.table : l.table[j] = <<g, i>>
<1>3. c \in DOMAIN l.table /\ l.table[c] = <<g, i>>
  OBVIOUS
<1>4. c = k
  BY <1>3 DEF LayerOK
<1>5. IdOf(l, g, i) = Graft + c - 1
  BY DEF IdOf
<1> DEFINE id == IdOf(l, g, i)
<1> HIDE DEF c, id
<1>6. id = Graft + k - 1
  BY <1>4, <1>5 DEF id
<1>7. id \in Nat /\ id >= Graft /\ id - Graft + 1 = k /\ id - Graft < Len(l.table)
  BY <1>2, <1>6, GraftAssumption
<1> QED
  BY <1>7 DEF Interned, Split, id

\* A node interned is found again, by the id it has, in the layer and in those that
\* go on from it.
LEMMA WrapBack ==
    ASSUME NEW source, NEW l, LayerOK(source, l), NEW n, LayerOK(source, n), Grows(l, n),
           NEW i \in Nat, Interned(l, i)
    PROVE  Wrap(n, Split(l, i)[1], Split(l, i)[2]) = i
<1> DEFINE k == i - Graft + 1
           g == l.table[k][1]
           x == l.table[k][2]
<1>1. k \in DOMAIN l.table /\ Split(l, i) = l.table[k] /\ l.table[k] = <<g, x>>
  <2>1. k \in DOMAIN l.table
    BY SplitIs
  <2>2. l.table \in Seq(Nat \X Nat)
    BY DEF LayerOK, Layers
  <2>3. l.table[k] \in Nat \X Nat
    BY <2>1, <2>2
  <2> QED
    BY <2>1, <2>3 DEF Split
<1>2. g \in DOMAIN l.grafts /\ (x = 0 => l.grafts[g].free) /\ n.grafts[g] = l.grafts[g]
  BY <1>1 DEF LayerOK, Grows
<1>3. k \in DOMAIN n.table /\ n.table[k] = <<g, x>>
  BY <1>1 DEF Grows
<1>4. CASE x = 0
  <2>1. l.grafts[g].at \in Nat
    <3>1. l.grafts \in Seq(GraftSet)
      BY DEF LayerOK, Layers, GraftSet
    <3>2. l.grafts[g] \in GraftSet
      BY <1>2, <3>1
    <3> QED
      BY <3>2 DEF GraftSet
  <2>2. /\ l.grafts[g].at - Graft + 1 \in DOMAIN l.table
        /\ l.table[l.grafts[g].at - Graft + 1] = <<g, 0>>
    BY <1>2, <1>4 DEF LayerOK
  <2>3. \A a, b \in DOMAIN l.table : l.table[a] = l.table[b] => a = b
    BY DEF LayerOK
  <2>4. l.grafts[g].at - Graft + 1 = i - Graft + 1
    <3> HIDE DEF g, x
    <3> QED
      BY <1>1, <1>4, <2>2, <2>3
  <2>5. l.grafts[g].at = i
    BY <2>1, <2>4, GraftAssumption
  <2> QED
    BY <1>1, <1>2, <1>4, <2>5 DEF Wrap
<1>5. CASE x # 0
  <2>1. IdOf(n, g, x) \in Nat /\ IdOf(n, g, x) - Graft + 1 = i - Graft + 1
    BY <1>3, IdOfIs
  <2>2. IdOf(n, g, x) = i
    BY <2>1, GraftAssumption
  <2> QED
    BY <1>1, <1>5, <2>2 DEF Wrap
<1> QED
  BY <1>4, <1>5

\* What answers a question are the ids of the nodes; no leaf is tried for it.
LEMMA ShowHas ==
    ASSUME NEW l, NEW g, NEW nodes
    PROVE  /\ Show(l, g, nodes).layer.grafts = l.grafts /\ Show(l, g, nodes).layer.probed = l.probed
           /\ Show(l, g, nodes).layer.whole = l.whole
           /\ \A c \in Show(l, g, nodes).ids : \E i \in nodes : c = Wrap(Show(l, g, nodes).layer, g, i)
           /\ \A i \in nodes : Wrap(Show(l, g, nodes).layer, g, i) \in Show(l, g, nodes).ids
BY DEF Show, Intern

\* They are in the table after it, the roots apart, and nothing else comes to it.
LEMMA ShowInterns ==
    ASSUME NEW source, NEW l, LayerOK(source, l), NEW g \in DOMAIN l.grafts,
           NEW nodes \in SUBSET DOMAIN Document(l, g)
    PROVE  /\ \A i \in nodes \ {0} : <<g, i>> \in InTable(Show(l, g, nodes).layer)
           /\ \A k \in DOMAIN Show(l, g, nodes).layer.table :
                k \in DOMAIN l.table \/ Show(l, g, nodes).layer.table[k][1] = g
<1> DEFINE some == nodes \ {0}
           wanted == {<<g, y>> : y \in some}
           new == wanted \ InTable(l)
           num == Numbered(new)
           c == Cardinality(new)
           n == Show(l, g, nodes).layer
<1>1. l.table \in Seq(Nat \X Nat) /\ g \in Nat /\ l.grafts[g].reading \in Readings
  <2>1. l.grafts \in Seq(GraftSet) /\ l.table \in Seq(Nat \X Nat)
    BY DEF LayerOK, Layers, GraftSet
  <2>2. g \in 1..Len(l.grafts) /\ l.grafts[g] \in GraftSet
    BY <2>1
  <2> QED
    BY <2>1, <2>2 DEF GraftSet
<1>2. IsFiniteSet(some) /\ some \subseteq Nat
  <2>1. IsFiniteSet(DOMAIN Doc[l.grafts[g].reading]) /\ DOMAIN Doc[l.grafts[g].reading] \subseteq Nat
    BY <1>1, DocAssumption
  <2>2. some \in SUBSET DOMAIN Doc[l.grafts[g].reading]
    BY DEF Document
  <2> QED
    BY <2>1, <2>2, FS_Subset
<1>3. IsFiniteSet(new) /\ new \in SUBSET (Nat \X Nat)
  <2> DEFINE f == [y \in some |-> <<g, y>>]
  <2>1. f \in Surjection(some, wanted)
    BY DEF Surjection
  <2>2. new \in SUBSET (Nat \X Nat)
    BY <1>1, <1>2
  <2> HIDE DEF f, some, wanted
  <2>3. IsFiniteSet(wanted)
    BY <1>2, <2>1, FS_Surjection
  <2> QED
    BY <2>2, <2>3, FS_Difference
<1>4. /\ num \in Seq(Nat \X Nat) /\ num \in [1..c -> new] /\ c \in Nat
      /\ \A x \in new : \E k \in 1..c : num[k] = x
  <2> HIDE DEF new
  <2> QED
    BY <1>3, NumberedIs
<1>5. n.table = l.table \o num
  BY DEF Show, Intern
<1> HIDE DEF n, num, new, c
<1>6. /\ Len(num) = c /\ Len(l.table) \in Nat /\ DOMAIN l.table = 1..Len(l.table)
  BY <1>1, <1>4
<1>7. /\ DOMAIN n.table = 1..Len(l.table) + c
      /\ \A k \in 1..Len(l.table) + c :
           n.table[k] = IF k <= Len(l.table) THEN l.table[k] ELSE num[k - Len(l.table)]
  <2>1. /\ l.table \o num \in Seq(Nat \X Nat) /\ Len(l.table \o num) = Len(l.table) + Len(num)
        /\ \A k \in 1..Len(l.table) + Len(num) :
             (l.table \o num)[k] = IF k <= Len(l.table) THEN l.table[k] ELSE num[k - Len(l.table)]
    BY <1>1, <1>4, ConcatProperties
  <2> QED
    BY <2>1, <1>5, <1>6
<1>8. ASSUME NEW i \in nodes \ {0} PROVE \E k \in DOMAIN n.table : n.table[k] = <<g, i>>
  <2>1. CASE <<g, i>> \in InTable(l)
    <3>1. PICK k \in DOMAIN l.table : l.table[k] = <<g, i>>
      BY <2>1 DEF InTable
    <3>2. k \in 1..Len(l.table) + c /\ k <= Len(l.table)
      BY <3>1, <1>4, <1>6
    <3> QED
      BY <3>1, <3>2, <1>7
  <2>2. CASE <<g, i>> \notin InTable(l)
    <3>1. <<g, i>> \in new
      BY <2>2 DEF new
    <3>2. PICK k \in 1..c : num[k] = <<g, i>>
      BY <3>1, <1>4
    <3>3. Len(l.table) + k \in 1..Len(l.table) + c /\ ~(Len(l.table) + k <= Len(l.table))
          /\ Len(l.table) + k - Len(l.table) = k
      BY <1>4, <1>6
    <3>4. n.table[Len(l.table) + k] = <<g, i>>
      BY <3>2, <3>3, <1>7
    <3> QED
      BY <3>3, <3>4, <1>7
  <2> QED
    BY <2>1, <2>2
<1>9. ASSUME NEW k \in DOMAIN n.table PROVE k \in DOMAIN l.table \/ n.table[k][1] = g
  <2>1. CASE k <= Len(l.table)
    <3>1. k \in 1..Len(l.table) + c
      BY <1>7
    <3> QED
      BY <2>1, <3>1, <1>4, <1>6
  <2>2. CASE ~(k <= Len(l.table))
    <3>1. k \in 1..Len(l.table) + c
      BY <1>7
    <3>2. k - Len(l.table) \in 1..c
      BY <2>2, <3>1, <1>4, <1>6
    <3>3. num[k - Len(l.table)] \in new
      BY <3>2, <1>4
    <3>4. n.table[k] \in new
      BY <2>2, <3>1, <3>3, <1>7
    <3> QED
      BY <3>4 DEF new
  <2> QED
    BY <2>1, <2>2
<1> QED
  BY <1>8, <1>9 DEF n, InTable

\* In a layer that grafts on demand, only free documents have nodes in the table.
FreeOnly(l) == \A k \in DOMAIN l.table : l.grafts[l.table[k][1]].free

\* The id i stands for the node x of the document g, in every layer that goes on from l.
StandsFor(source, l, g, x, i) ==
    \A n \in Layers : LayerOK(source, n) /\ Grows(l, n) => Wrap(n, g, x) = i

\* Down and up of one layer, as TreeAgrees says them of a mount.
DownAgrees(source, l, i) ==
    LET down == ChildrenOf(source, l, i)
    IN \A c \in down.ids : ParentOf(down.layer, c).ids = {i}
ShownAgrees(l, g, x, i) ==
    LET below == Show(l, g, Document(l, g)[x])
    IN \A c \in below.ids : ParentOf(below.layer, c).ids = {i}
UpAgrees(source, l, i) ==
    LET up == ParentOf(l, i)
    IN \A p \in up.ids : \/ i \in ChildrenOf(source, up.layer, p).ids
                         \/ /\ i \in DOMAIN source.leaves /\ source.leaves[i].narrowed
                            /\ ~l.whole

\* A document read stays as it is in a layer that goes on.
LEMMA DocumentKept ==
    ASSUME NEW l, NEW n, Grows(l, n), NEW g \in DOMAIN l.grafts
    PROVE  g \in DOMAIN n.grafts /\ Document(n, g) = Document(l, g)
BY DEF Grows, Document

\* A node of a document is listed by one other, and that one is its parent.
LEMMA OneParent ==
    ASSUME NEW source, NEW l, LayerOK(source, l), NEW g \in DOMAIN l.grafts,
           NEW x \in DOMAIN Document(l, g), NEW y \in Document(l, g)[x]
    PROVE  /\ y \in DOMAIN Document(l, g) /\ y # 0
           /\ {p \in DOMAIN Document(l, g) : y \in Document(l, g)[p]} = {x}
<1>1. l.grafts[g].reading \in Readings
  <2>1. l.grafts \in Seq(GraftSet)
    BY DEF LayerOK, Layers, GraftSet
  <2>2. l.grafts[g] \in GraftSet
    BY <2>1
  <2> QED
    BY <2>2 DEF GraftSet
<1>2. \A p, q \in DOMAIN Document(l, g) : Document(l, g)[p] \cap Document(l, g)[q] # {} => p = q
  BY <1>1, TreeAssumption DEF Document
<1>3. Document(l, g)[x] \subseteq DOMAIN Document(l, g) \ {0}
  BY <1>1, DocAssumption DEF Document
<1> QED
  BY <1>2, <1>3

\* The children of a node in the table, and of the leaf a document stands at.
LEMMA ListedBelow ==
    ASSUME NEW source, Sourced(source), NEW l, LayerOK(source, l), NEW g \in DOMAIN l.grafts,
           NEW p \in Nat,
           \/ Interned(l, p) /\ Split(l, p)[1] = g
           \/ /\ p \in DOMAIN source.leaves /\ ~source.onDemand
              /\ p \in DOMAIN l.probed /\ l.probed[p] = g,
           NEW x, x = IF Interned(l, p) THEN Split(l, p)[2] ELSE 0
    PROVE  ChildrenOf(source, l, p) = Show(l, g, Document(l, g)[x])
<1>1. CASE Interned(l, p)
  <2>1. Split(l, p)[1] = g
    <3>1. ~(p \in DOMAIN source.leaves)
      BY <1>1, GraftAssumption DEF Interned, Sourced
    <3> QED
      BY <3>1
  <2> QED
    BY <1>1, <2>1 DEF ChildrenOf
<1>2. CASE ~Interned(l, p)
  <2>1. Probe(source, l, p, None) = l
    BY <1>2 DEF Probe
  <2>2. GraftAt(source, l, p) = g
    BY <1>2, <2>1 DEF GraftAt
  <2>3. g # Nothing
    BY DEF LayerOK, Layers, Nothing
  <2> QED
    BY <1>2, <2>1, <2>2, <2>3 DEF ChildrenOf
<1> QED
  BY <1>1, <1>2

\* The children that a document gives have the node as their parent.
LEMMA ShownDown ==
    ASSUME NEW source, Sourced(source), NEW l, LayerOK(source, l), NEW g \in DOMAIN l.grafts,
           NEW i \in Nat, NEW x \in DOMAIN Document(l, g),
           StandsFor(source, l, g, x, i)
    PROVE  ShownAgrees(l, g, x, i)
<1> SUFFICES ASSUME NEW c \in Show(l, g, Document(l, g)[x]).ids
             PROVE  ParentOf(Show(l, g, Document(l, g)[x]).layer, c).ids = {i}
  BY DEF ShownAgrees
<1> DEFINE below == Document(l, g)[x]
           n == Show(l, g, below).layer
<1>1. below \in SUBSET DOMAIN Document(l, g)
  BY DocumentHas
<1>2. LayerOK(source, n) /\ Grows(l, n)
  BY <1>1, ShowIsOK
<1>3. /\ \A z \in Show(l, g, below).ids : \E y \in below : z = Wrap(n, g, y)
      /\ \A y \in below \ {0} : <<g, y>> \in InTable(n)
  <2> HIDE DEF below
  <2>1. \A z \in Show(l, g, below).ids : \E y \in below : z = Wrap(n, g, y)
    BY ShowHas
  <2>2. \A y \in below \ {0} : <<g, y>> \in InTable(n)
    BY <1>1, ShowInterns
  <2> QED
    BY <2>1, <2>2
<1> HIDE DEF n
<1>4. PICK y \in below : c = Wrap(n, g, y)
  BY <1>3
<1>5. y # 0 /\ {p \in DOMAIN Document(l, g) : y \in Document(l, g)[p]} = {x}
  BY OneParent
<1>6. PICK k \in DOMAIN n.table : n.table[k] = <<g, y>>
  BY <1>3, <1>5 DEF InTable
<1>7. c = IdOf(n, g, y)
  BY <1>4, <1>5 DEF Wrap
<1>8. Interned(n, c) /\ Split(n, c) = <<g, y>>
  BY <1>2, <1>6, <1>7, IdOfIs
<1>9. g \in DOMAIN n.grafts /\ Document(n, g) = Document(l, g)
  BY <1>2, DocumentKept
<1>10. ParentOf(n, c) = Show(n, g, {x})
  <2>1. Split(n, c)[1] = g /\ Split(n, c)[2] = y
    BY <1>8
  <2>2. ParentOf(n, c) = Show(n, Split(n, c)[1], {p \in DOMAIN Document(n, Split(n, c)[1]) :
                                                    Split(n, c)[2] \in Document(n, Split(n, c)[1])[p]})
    BY <1>8 DEF ParentOf
  <2> QED
    BY <1>5, <1>9, <2>1, <2>2
<1>11. {x} \in SUBSET DOMAIN Document(n, g)
  BY <1>9
<1> DEFINE n2 == Show(n, g, {x}).layer
<1>12. LayerOK(source, n2) /\ Grows(n, n2) /\ Show(n, g, {x}).ids = {Wrap(n2, g, x)}
  <2>1. LayerOK(source, n2) /\ Grows(n, n2)
    BY <1>2, <1>9, <1>11, ShowIsOK
  <2>2. /\ \A a \in Show(n, g, {x}).ids : \E z \in {x} : a = Wrap(n2, g, z)
        /\ \A z \in {x} : Wrap(n2, g, z) \in Show(n, g, {x}).ids
    BY ShowHas
  <2> HIDE DEF n2
  <2> QED
    BY <2>1, <2>2
<1>13. Grows(l, n2)
  BY <1>2, <1>12, GrowsOn
<1>14. Wrap(n2, g, x) = i
  <2>1. n2 \in Layers
    BY <1>12 DEF LayerOK
  <2> HIDE DEF n2
  <2> QED
    BY <1>12, <1>13, <2>1 DEF StandsFor
<1> HIDE DEF n2
<1>15. ParentOf(n, c).ids = {i}
  BY <1>10, <1>12, <1>14
<1> QED
  BY <1>15 DEF n

\* What is listed below a node has it above.
LEMMA GoingDown ==
    ASSUME NEW source, Sourced(source), NEW l, LayerOK(source, l),
           NEW i \in Nat, i = 0 \/ i \in DOMAIN source.leaves \/ Interned(l, i)
    PROVE  DownAgrees(source, l, i)
<1> SUFFICES ASSUME NEW c \in ChildrenOf(source, l, i).ids
             PROVE  ParentOf(ChildrenOf(source, l, i).layer, c).ids = {i}
  BY DEF DownAgrees
<1>1. CASE Interned(l, i)
  <2> DEFINE g == Split(l, i)[1]
             x == Split(l, i)[2]
  <2>1. g \in DOMAIN l.grafts /\ x \in DOMAIN Document(l, g)
    BY <1>1, SplitIs
  <2>2. ChildrenOf(source, l, i) = Show(l, g, Document(l, g)[x])
    BY <1>1 DEF ChildrenOf
  <2>3. StandsFor(source, l, g, x, i)
    BY <1>1, WrapBack DEF StandsFor
  <2> HIDE DEF g, x
  <2>4. ShownAgrees(l, g, x, i)
    BY <2>1, <2>3, ShownDown
  <2> QED
    BY <2>2, <2>4 DEF ShownAgrees
<1>2. CASE ~Interned(l, i) /\ i \notin DOMAIN source.leaves
  <2>1. i = 0 /\ ChildrenOf(source, l, i) = [layer |-> l, ids |-> Listed(source, l)]
    BY <1>2 DEF ChildrenOf
  <2>2. c \in DOMAIN source.leaves /\ ChildrenOf(source, l, i).layer = l
    BY <2>1 DEF Listed
  <2>3. c \in 1..Graft - 1
    BY <2>2 DEF Sourced
  <2>4. ~Interned(l, c) /\ c # 0
    BY <2>3, GraftAssumption DEF Interned
  <2> QED
    BY <2>1, <2>2, <2>4 DEF ParentOf
<1>3. CASE ~Interned(l, i) /\ i \in DOMAIN source.leaves
  <2> DEFINE after == Probe(source, l, i, None)
             g == GraftAt(source, l, i)
  <2>1. LayerOK(source, after) /\ Grows(l, after)
    BY <1>3, ProbeIsOK
  <2>2. CASE g = Nothing
    <3>1. ChildrenOf(source, l, i).ids = {}
      BY <1>3, <2>2 DEF ChildrenOf
    <3> QED
      BY <3>1
  <2>3. CASE g # Nothing
    <3>1. g \in DOMAIN after.grafts
      BY <1>3, <2>3, GraftAtIs
    <3>2. ChildrenOf(source, l, i) = Show(after, g, Document(after, g)[0])
      BY <1>3, <2>3 DEF ChildrenOf
    <3>3. g = after.probed[i]
      BY <2>3 DEF GraftAt
    <3> HIDE DEF after, g
    <3>4. 0 \in DOMAIN Document(after, g)
      BY <2>1, <3>1, DocumentHas
    <3>5. after.grafts[g].at = i
      <4>1. i \in DOMAIN after.probed
        BY <1>3, <2>3 DEF Probe, Marked, GraftAt, after, g
      <4> QED
        BY <2>1, <2>3, <3>3, <4>1 DEF LayerOK
    <3>6. StandsFor(source, after, g, 0, i)
      BY <3>1, <3>5 DEF Grows, Wrap, StandsFor
    <3>7. ShownAgrees(after, g, 0, i)
      BY <2>1, <3>1, <3>4, <3>6, ShownDown
    <3> QED
      BY <3>2, <3>7 DEF ShownAgrees
  <2> QED
    BY <2>2, <2>3
<1> QED
  BY <1>1, <1>2, <1>3

\* What stands above a node lists it.
LEMMA GoingUp ==
    ASSUME NEW source, Sourced(source), NEW l, LayerOK(source, l), source.onDemand => FreeOnly(l),
           NEW i \in Nat, i = 0 \/ i \in DOMAIN source.leaves \/ Interned(l, i)
    PROVE  UpAgrees(source, l, i)
<1> SUFFICES ASSUME NEW p \in ParentOf(l, i).ids
             PROVE  \/ i \in ChildrenOf(source, ParentOf(l, i).layer, p).ids
                    \/ /\ i \in DOMAIN source.leaves /\ source.leaves[i].narrowed
                       /\ ~l.whole
  BY DEF UpAgrees
<1>1. CASE ~Interned(l, i)
  <2>1. ParentOf(l, i) = [layer |-> l, ids |-> IF i = 0 THEN {} ELSE {0}]
    BY <1>1 DEF ParentOf
  <2>2. i # 0 /\ p = 0 /\ i \in DOMAIN source.leaves /\ ParentOf(l, i).layer = l
    BY <1>1, <2>1
  <2>3. ~Interned(l, 0) /\ 0 \notin DOMAIN source.leaves
    BY GraftAssumption DEF Interned, Sourced
  <2>4. ChildrenOf(source, l, 0).ids = Listed(source, l)
    BY <2>3 DEF ChildrenOf
  <2> QED
    BY <2>2, <2>4 DEF Listed
<1>2. CASE Interned(l, i)
  <2> DEFINE g == Split(l, i)[1]
             y == Split(l, i)[2]
             above == {q \in DOMAIN Document(l, g) : y \in Document(l, g)[q]}
             n == Show(l, g, above).layer
  <2>1. /\ i - Graft + 1 \in DOMAIN l.table /\ Split(l, i) = l.table[i - Graft + 1]
        /\ g \in DOMAIN l.grafts
    BY <1>2, SplitIs DEF Split
  <2>2. ParentOf(l, i) = Show(l, g, above)
    BY <1>2 DEF ParentOf
  <2>3. above \in SUBSET DOMAIN Document(l, g)
    OBVIOUS
  <2>4. LayerOK(source, n) /\ Grows(l, n)
    BY <2>1, <2>3, ShowIsOK
  <2>5. /\ \A z \in Show(l, g, above).ids : \E q \in above : z = Wrap(n, g, q)
        /\ \A q \in above \ {0} : <<g, q>> \in InTable(n)
        /\ n.probed = l.probed
    <3> HIDE DEF above, g
    <3>1. \A z \in Show(l, g, above).ids : \E q \in above : z = Wrap(n, g, q)
      BY ShowHas
    <3>2. \A q \in above \ {0} : <<g, q>> \in InTable(n)
      BY <2>1, <2>3, ShowInterns
    <3>3. n.probed = l.probed
      BY ShowHas
    <3> QED
      BY <3>1, <3>2, <3>3
  <2>6. StandsFor(source, l, g, y, i)
    BY <1>2, WrapBack DEF StandsFor
  <2>7. source.onDemand => l.grafts[g].free
    BY <2>1 DEF FreeOnly
  <2> HIDE DEF n, g, y
  <2>8. PICK x \in above : p = Wrap(n, g, x)
    BY <2>2, <2>5
  <2>9. x \in DOMAIN Document(l, g) /\ y \in Document(l, g)[x]
    BY <2>8
  <2>10. g \in DOMAIN n.grafts /\ n.grafts[g] = l.grafts[g] /\ Document(n, g) = Document(l, g)
    <3>1. g \in DOMAIN n.grafts /\ n.grafts[g] = l.grafts[g]
      BY <2>1, <2>4 DEF Grows
    <3> QED
      BY <3>1 DEF Document
  <2>11. ChildrenOf(source, n, p) = Show(n, g, Document(n, g)[x])
    <3>1. CASE x # 0
      <4>1. PICK k \in DOMAIN n.table : n.table[k] = <<g, x>>
        BY <2>5, <2>8, <3>1 DEF InTable
      <4>2. p = IdOf(n, g, x)
        BY <2>8, <3>1 DEF Wrap
      <4>3. p \in Nat /\ Interned(n, p) /\ Split(n, p) = <<g, x>>
        BY <2>4, <4>1, <4>2, IdOfIs
      <4> QED
        BY <2>4, <2>10, <4>3, ListedBelow
    <3>2. CASE x = 0 /\ n.grafts[g].free
      <4>1. p = n.grafts[g].at
        BY <2>8, <3>2 DEF Wrap
      <4>2. p \in Nat
        <5>1. n.grafts \in Seq(GraftSet)
          BY <2>4 DEF LayerOK, Layers, GraftSet
        <5>2. n.grafts[g] \in GraftSet
          BY <2>10, <5>1
        <5> QED
          BY <4>1, <5>2 DEF GraftSet
      <4>3. p - Graft + 1 \in DOMAIN n.table /\ n.table[p - Graft + 1] = <<g, 0>>
        BY <2>4, <2>10, <3>2, <4>1 DEF LayerOK
      <4>4. Interned(n, p)
        <5>1. n.table \in Seq(Nat \X Nat)
          BY <2>4 DEF LayerOK, Layers
        <5>2. Len(n.table) \in Nat /\ DOMAIN n.table = 1..Len(n.table)
          BY <5>1
        <5> QED
          BY <4>2, <4>3, <5>2, GraftAssumption DEF Interned
      <4>5. Split(n, p) = <<g, 0>>
        BY <4>3 DEF Split
      <4> QED
        BY <2>4, <2>10, <3>2, <4>2, <4>4, <4>5, ListedBelow
    <3>3. CASE x = 0 /\ ~n.grafts[g].free
      <4>1. p = n.grafts[g].at
        BY <2>8, <3>3 DEF Wrap
      <4>2. p \in DOMAIN n.probed /\ n.probed[p] = g /\ p \in DOMAIN source.leaves
        BY <2>4, <2>10, <3>3, <4>1 DEF LayerOK
      <4>3. p \in Nat /\ ~Interned(n, p)
        BY <4>2, GraftAssumption DEF Sourced, Interned
      <4>4. ~source.onDemand
        BY <2>7, <2>10, <3>3
      <4> QED
        BY <2>4, <2>10, <3>3, <4>2, <4>3, <4>4, ListedBelow
    <3> QED
      BY <3>1, <3>2, <3>3
  <2>12. Document(n, g)[x] \in SUBSET DOMAIN Document(n, g)
    BY <2>4, <2>9, <2>10, DocumentHas
  <2> DEFINE n2 == Show(n, g, Document(n, g)[x]).layer
  <2>13. /\ LayerOK(source, n2) /\ Grows(n, n2)
         /\ \A z \in Document(n, g)[x] : Wrap(n2, g, z) \in Show(n, g, Document(n, g)[x]).ids
    BY <2>4, <2>10, <2>12, ShowIsOK, ShowHas
  <2>14. Wrap(n2, g, y) = i
    <3>1. n2 \in Layers
      BY <2>13 DEF LayerOK
    <3> HIDE DEF n2
    <3>2. Grows(l, n2)
      BY <2>4, <2>13, GrowsOn
    <3> QED
      BY <2>6, <2>13, <3>1, <3>2 DEF StandsFor
  <2>15. i \in ChildrenOf(source, n, p).ids
    <3> HIDE DEF n2
    <3> QED
      BY <2>9, <2>10, <2>11, <2>13, <2>14
  <2>16. ParentOf(l, i).layer = n
    BY <2>2 DEF n
  <2> QED
    BY <2>15, <2>16
<1> QED
  BY <1>1, <1>2

\* What a question leaves of a layer: it lists as much as before, and in a source that
\* is grafted on demand no node of a document at a leaf comes into the table.
Steady(source, l, n) == /\ n.whole = l.whole
                        /\ source.onDemand /\ FreeOnly(l) => FreeOnly(n)

\* A table that is not touched.
LEMMA SameTable ==
    ASSUME NEW source, NEW l, LayerOK(source, l), NEW n, Grows(l, n), n.table = l.table, n.whole = l.whole
    PROVE  Steady(source, l, n)
<1>1. \A k \in DOMAIN l.table : l.table[k][1] \in DOMAIN l.grafts
  BY DEF LayerOK
<1> QED
  BY <1>1 DEF Steady, FreeOnly, Grows

\* Reading a leaf interns nothing.
LEMMA ProbeSteady ==
    ASSUME NEW source, Sourced(source), NEW l, LayerOK(source, l),
           NEW k \in DOMAIN source.leaves, NEW asked
    PROVE  Steady(source, l, Probe(source, l, k, asked))
<1> DEFINE n == Probe(source, l, k, asked)
<1>1. n.table = l.table /\ n.whole = l.whole
  BY DEF Probe
<1>2. Grows(l, n)
  BY ProbeIsOK
<1> QED
  BY <1>1, <1>2, SameTable

\* Nor does reading it as a hop asks.
LEMMA GraftAsSteady ==
    ASSUME NEW source, Sourced(source), NEW l, LayerOK(source, l),
           NEW k \in DOMAIN source.leaves, NEW asked
    PROVE  Steady(source, l, GraftAs(source, l, k, asked))
<1> DEFINE n == GraftAs(source, l, k, asked)
<1>1. n.table = l.table /\ n.whole = l.whole
  BY DEF GraftAs, Probe, Forget
<1>2. Grows(l, n)
  BY GraftAsIsOK
<1> QED
  BY <1>1, <1>2, SameTable

\* The nodes of a free document are of a free document.
LEMMA ShowSteady ==
    ASSUME NEW source, NEW l, LayerOK(source, l), NEW g \in DOMAIN l.grafts,
           ~source.onDemand \/ (FreeOnly(l) => l.grafts[g].free),
           NEW nodes \in SUBSET DOMAIN Document(l, g)
    PROVE  Steady(source, l, Show(l, g, nodes).layer)
<1> DEFINE n == Show(l, g, nodes).layer
<1>1. Grows(l, n) /\ n.grafts = l.grafts /\ n.whole = l.whole
  BY ShowIsOK, ShowHas
<1>2. \A k \in DOMAIN n.table : k \in DOMAIN l.table \/ n.table[k][1] = g
  BY ShowInterns
<1> HIDE DEF n
<1>3. ASSUME source.onDemand, FreeOnly(l) PROVE FreeOnly(n)
  <2> SUFFICES ASSUME NEW k \in DOMAIN n.table PROVE n.grafts[n.table[k][1]].free
    BY DEF FreeOnly
  <2>1. CASE k \in DOMAIN l.table
    BY <2>1, <1>1, <1>3 DEF FreeOnly, Grows
  <2>2. CASE n.table[k][1] = g
    BY <2>2, <1>1, <1>3
  <2> QED
    BY <2>1, <2>2, <1>2
<1> QED
  BY <1>1, <1>3 DEF Steady, n

\* The document behind an id of such a table is free.
LEMMA SplitFree ==
    ASSUME NEW source, NEW l, LayerOK(source, l), NEW id \in Nat, Interned(l, id), FreeOnly(l)
    PROVE  l.grafts[Split(l, id)[1]].free
<1>1. id - Graft + 1 \in DOMAIN l.table
  BY SplitIs
<1> QED
  BY <1>1 DEF FreeOnly, Split

\* Listing children.
LEMMA ChildrenSteady ==
    ASSUME NEW source, Sourced(source), NEW l, LayerOK(source, l), NEW id \in Nat
    PROVE  Steady(source, l, ChildrenOf(source, l, id).layer)
<1>1. CASE Interned(l, id)
  <2>1. /\ Split(l, id)[1] \in DOMAIN l.grafts
        /\ Split(l, id)[2] \in DOMAIN Document(l, Split(l, id)[1])
    BY <1>1, SplitIs
  <2>2. Document(l, Split(l, id)[1])[Split(l, id)[2]] \in SUBSET DOMAIN Document(l, Split(l, id)[1])
    BY <2>1, DocumentHas
  <2>3. ChildrenOf(source, l, id)
          = Show(l, Split(l, id)[1], Document(l, Split(l, id)[1])[Split(l, id)[2]])
    BY <1>1 DEF ChildrenOf
  <2>4. FreeOnly(l) => l.grafts[Split(l, id)[1]].free
    BY <1>1, SplitFree
  <2> QED
    BY <2>1, <2>2, <2>3, <2>4, ShowSteady
<1>2. CASE ~Interned(l, id) /\ id \notin DOMAIN source.leaves
  BY <1>2 DEF ChildrenOf, Steady
<1>3. CASE ~Interned(l, id) /\ id \in DOMAIN source.leaves
  <2> DEFINE n == Probe(source, l, id, None)
             g == GraftAt(source, l, id)
  <2>1. LayerOK(source, n) /\ Steady(source, l, n)
    BY <1>3, ProbeIsOK, ProbeSteady
  <2>2. CASE g = Nothing
    BY <1>3, <2>1, <2>2 DEF ChildrenOf
  <2>3. CASE g # Nothing
    <3>1. g \in DOMAIN n.grafts
      BY <1>3, <2>3, GraftAtIs
    <3>2. ChildrenOf(source, l, id) = Show(n, g, Document(n, g)[0])
      BY <1>3, <2>3 DEF ChildrenOf
    <3>3. ~source.onDemand
      BY <2>3 DEF GraftAt
    <3> HIDE DEF n, g
    <3>4. Document(n, g)[0] \in SUBSET DOMAIN Document(n, g)
      BY <2>1, <3>1, DocumentHas
    <3>5. Show(n, g, Document(n, g)[0]).layer.whole = n.whole
      BY ShowHas
    <3> QED
      BY <2>1, <3>2, <3>3, <3>5 DEF Steady
  <2> QED
    BY <2>2, <2>3
<1> QED
  BY <1>1, <1>2, <1>3

\* Following to a node of the document.
LEMMA FollowSteady ==
    ASSUME NEW source, Sourced(source), NEW l, LayerOK(source, l), NEW id \in Nat,
           id \in DOMAIN source.leaves \/ Interned(l, id), NEW t \in Reachable(source, l, id)
    PROVE  Steady(source, l, FollowTo(source, l, id, t).layer)
<1>1. CASE Interned(l, id)
  <2>1. Split(l, id)[1] \in DOMAIN l.grafts
    BY <1>1, SplitIs
  <2>2. {t} \in SUBSET DOMAIN Document(l, Split(l, id)[1])
    BY <1>1 DEF Reachable
  <2>3. FollowTo(source, l, id, t) = Show(l, Split(l, id)[1], {t})
    BY <1>1 DEF FollowTo
  <2>4. FreeOnly(l) => l.grafts[Split(l, id)[1]].free
    BY <1>1, SplitFree
  <2> QED
    BY <2>1, <2>2, <2>3, <2>4, ShowSteady
<1>2. CASE ~Interned(l, id)
  <2> DEFINE n == Probe(source, l, id, None)
             g == GraftAt(source, l, id)
  <2>1. Steady(source, l, n)
    BY <1>2, ProbeSteady
  <2>2. CASE g = Nothing
    BY <1>2, <2>1, <2>2 DEF FollowTo
  <2>3. CASE g # Nothing
    <3>1. FollowTo(source, l, id, t) = Show(n, g, {t})
      BY <1>2, <2>3 DEF FollowTo
    <3>2. ~source.onDemand
      BY <2>3 DEF GraftAt
    <3> HIDE DEF n, g
    <3>3. Show(n, g, {t}).layer.whole = n.whole
      BY ShowHas
    <3> QED
      BY <2>1, <3>1, <3>2, <3>3 DEF Steady
  <2> QED
    BY <2>2, <2>3
<1> QED
  BY <1>1, <1>2

\* A text grafted is a free document.
LEMMA TextSteady ==
    ASSUME NEW source, NEW l, LayerOK(source, l), NEW a \in Notations, Grows(l, GraftText(l, a))
    PROVE  Steady(source, l, GraftText(l, a))
<1> DEFINE n == GraftText(l, a)
           graft == [at |-> Graft + Len(l.table), reading |-> a, free |-> TRUE]
           docs == Len(l.grafts)
           size == Len(l.table)
<1>1. l.grafts \in Seq(GraftSet) /\ l.table \in Seq(Nat \X Nat) /\ docs \in Nat /\ size \in Nat
  BY DEF LayerOK, Layers, GraftSet
<1>2. /\ n.grafts = Append(l.grafts, graft) /\ n.table = Append(l.table, <<docs + 1, 0>>)
      /\ n.whole = l.whole
  BY DEF GraftText
<1>3. graft.free /\ graft \in GraftSet
  BY <1>1, GraftAssumption, ReadingsAssumption DEF GraftSet
<1>4. DOMAIN l.table = 1..size /\ DOMAIN l.grafts = 1..docs
  BY <1>1
<1> HIDE DEF n, graft
<1>5. n.grafts[docs + 1] = graft
  BY <1>1, <1>2, <1>3
<1>6. <<docs + 1, 0>> \in Nat \X Nat
  BY <1>1
<1>7. DOMAIN n.table = 1..size + 1 /\ n.table[size + 1] = <<docs + 1, 0>>
  BY <1>1, <1>2, <1>6, AppendProperties
<1> HIDE DEF docs, size
<1>8. \A k \in DOMAIN n.table : k \in DOMAIN l.table \/ k = size + 1
  BY <1>1, <1>4, <1>7
<1>9. Grows(l, n)
  BY DEF n
<1>10. ASSUME FreeOnly(l) PROVE FreeOnly(n)
  <2> SUFFICES ASSUME NEW k \in DOMAIN n.table PROVE n.grafts[n.table[k][1]].free
    BY DEF FreeOnly
  <2>1. CASE k \in DOMAIN l.table
    <3>1. l.table[k][1] \in DOMAIN l.grafts
      BY <2>1 DEF LayerOK
    <3> QED
      BY <2>1, <3>1, <1>9, <1>10 DEF FreeOnly, Grows
  <2>2. CASE k = size + 1
    BY <2>2, <1>3, <1>5, <1>7
  <2> QED
    BY <2>1, <2>2, <1>8
<1> QED
  BY <1>2, <1>10 DEF Steady, n

\* A mount whose source is grafted on demand holds the nodes of free documents alone,
\* and a mount that was declared lists whole tables once the engine asked for them.
EntrySteady(e, asked) == /\ SourceOf(e).onDemand => FreeOnly(e.layer)
                         /\ e.declared /\ e.cell = "open" /\ asked => e.layer.whole
TableSteady(table, asked) == \A m \in DOMAIN table : EntrySteady(table[m], asked)
TreeInv == IInv /\ TableSteady(mounts, whole)

\* A mount that opens is told what the engine asked for.
LEMMA OpenedSteady ==
    ASSUME NEW e, EntrySteady(e, whole)
    PROVE  EntrySteady(Opened(e), whole)
<1>1. CASE e.cell # "latent"
  BY <1>1 DEF Opened
<1>2. CASE e.cell = "latent"
  <2> DEFINE o == Opened(e)
             told == whole /\ ~Source[e.name].broken
  <2>1. /\ o.layer.table = <<>> /\ (o.layer.whole <=> told)
        /\ o.cell = "open" => ~Source[e.name].broken
    BY <1>2 DEF Opened, Told, Fresh
  <2>2. FreeOnly(o.layer)
    BY <2>1 DEF FreeOnly
  <2> QED
    BY <2>1, <2>2 DEF EntrySteady
<1> QED
  BY <1>1, <1>2

\* An entry whose layer goes on from a question.
LEMMA LayeredSteady ==
    ASSUME NEW e, NEW asked, EntrySteady(e, asked), NEW l, Steady(SourceOf(e), e.layer, l)
    PROVE  EntrySteady(WithLayer(e, l), asked)
<1> DEFINE n == WithLayer(e, l)
<1>1. n.name = e.name /\ n.declared = e.declared /\ n.cell = e.cell /\ n.layer = l
  BY DEF WithLayer
<1> HIDE DEF n
<1>2. SourceOf(n) = SourceOf(e)
  BY <1>1 DEF SourceOf
<1> QED
  BY <1>1, <1>2 DEF EntrySteady, Steady, n

\* A question that opens mounts.
LEMMA OpenAllSteady ==
    ASSUME TableSteady(mounts, whole), NEW reached
    PROVE  TableSteady(OpenAll(reached), whole)
<1> SUFFICES ASSUME NEW m \in DOMAIN mounts PROVE EntrySteady(OpenAll(reached)[m], whole)
  BY DEF TableSteady, OpenAll
<1>1. EntrySteady(mounts[m], whole)
  BY DEF TableSteady
<1>2. OpenAll(reached)[m] = IF m \in reached THEN Opened(mounts[m]) ELSE mounts[m]
  BY DEF OpenAll
<1> QED
  BY <1>1, <1>2, OpenedSteady

\* A question that reached one mount.
LEMMA RelayeredSteady ==
    ASSUME TableSteady(mounts, whole), NEW m \in DOMAIN mounts,
           NEW l, Steady(SourceOf(Opened(mounts[m])), Opened(mounts[m]).layer, l)
    PROVE  TableSteady(Relayered(m, l), whole)
<1> SUFFICES ASSUME NEW n \in DOMAIN mounts PROVE EntrySteady(Relayered(m, l)[n], whole)
  BY DEF TableSteady, Relayered
<1>1. EntrySteady(mounts[n], whole)
  BY DEF TableSteady
<1>2. Relayered(m, l)[n] = IF n = m THEN WithLayer(Opened(mounts[m]), l) ELSE mounts[n]
  BY DEF Relayered
<1>3. CASE n = m
  BY <1>1, <1>2, <1>3, OpenedSteady, LayeredSteady
<1>4. CASE n # m
  BY <1>1, <1>2, <1>4
<1> QED
  BY <1>3, <1>4

\* A mount added, with a fresh layer: pushed open, or declared and latent.
LEMMA AddedSteady ==
    ASSUME IInv, TableSteady(mounts, whole), NEW e, e.layer = Fresh, ~(e.declared /\ e.cell = "open"),
           mounts' = Append(mounts, e), IInv'
    PROVE  TableSteady(mounts', whole)
<1> DEFINE size == Len(mounts)
<1>1. mounts \in Seq(EntrySet) /\ size \in Nat /\ DOMAIN mounts = 1..size
  <2>1. mounts \in Seq(EntrySet)
    BY DEF IInv, TableOK
  <2> QED
    BY <2>1
<1>2. /\ DOMAIN mounts' = 1..size + 1 /\ mounts'[size + 1] = e
      /\ \A i \in 1..size : mounts'[i] = mounts[i]
  BY <1>1
<1>3. EntrySteady(e, whole)
  <2>1. e.layer.table = <<>>
    BY DEF Fresh
  <2>2. FreeOnly(e.layer)
    BY <2>1 DEF FreeOnly
  <2> QED
    BY <2>2 DEF EntrySteady
<1> HIDE DEF size
<1> SUFFICES ASSUME NEW m \in DOMAIN mounts' PROVE EntrySteady(mounts'[m], whole)
  BY DEF TableSteady
<1>4. CASE m \in 1..size
  BY <1>4, <1>1, <1>2 DEF TableSteady
<1>5. CASE m = size + 1
  BY <1>5, <1>2, <1>3
<1> QED
  BY <1>1, <1>2, <1>4, <1>5

\* A question to a node.
LEMMA AskSteady ==
    ASSUME IInv, TableSteady(mounts, whole), NEW m \in DOMAIN mounts, AskNode(m)
    PROVE  TableSteady(mounts', whole) /\ whole' = whole
<1> DEFINE e == mounts[m]
           o == Opened(e)
<1>1. PICK id \in HeldOf(m) :
        Children(m, id) \/ Touch(m, id) \/ Follow(m, id) \/ \E n \in Notations : Test(m, id, n)
  BY DEF AskNode
<1>2. o \in EntrySet /\ LayerOK(SourceOf(o), o.layer)
  BY OpenedIs DEF Sound
<1>3. Sourced(SourceOf(o)) /\ Inner(id) \in Nat
  BY <1>2, SourcedOf, HeldIs
<1>4. CASE Children(m, id)
  <2> DEFINE l == ChildrenOf(SourceOf(o), o.layer, Inner(id)).layer
  <2>1. mounts' = Relayered(m, l) /\ whole' = whole
    BY <1>4 DEF Children, Become
  <2>2. Steady(SourceOf(o), o.layer, l)
    BY <1>2, <1>3, ChildrenSteady
  <2> HIDE DEF l
  <2> QED
    BY <2>1, <2>2, RelayeredSteady
<1>5. CASE Touch(m, id)
  <2> DEFINE l == Probe(SourceOf(e), e.layer, Inner(id), None)
  <2>1. /\ mounts' = Relayered(m, l) /\ whole' = whole
        /\ Inner(id) \in DOMAIN SourceOf(e).leaves
    BY <1>5 DEF Touch, IsLeaf, Become
  <2>2. o = e
    BY <2>1, LeafIsOpen
  <2>3. Steady(SourceOf(o), o.layer, l)
    BY <1>2, <1>3, <2>1, <2>2, ProbeSteady
  <2> HIDE DEF l
  <2> QED
    BY <2>1, <2>3, RelayeredSteady
<1>6. CASE Follow(m, id)
  <2>1. /\ whole' = whole
        /\ Inner(id) \in DOMAIN SourceOf(e).leaves \/ Interned(e.layer, Inner(id))
    BY <1>6 DEF Follow, IsLeaf
  <2>2. PICK t \in Reachable(SourceOf(e), e.layer, Inner(id)) :
          mounts' = Relayered(m, FollowTo(SourceOf(e), e.layer, Inner(id), t).layer)
    BY <1>6 DEF Follow, Become
  <2> DEFINE l == FollowTo(SourceOf(e), e.layer, Inner(id), t).layer
  <2>3. o = e
    <3>1. CASE Inner(id) \in DOMAIN SourceOf(e).leaves
      BY <3>1, LeafIsOpen
    <3>2. CASE Interned(e.layer, Inner(id))
      <4>1. e.layer # Fresh
        BY <3>2, <1>3, GraftAssumption DEF Interned, Fresh
      <4>2. e.cell # "latent"
        BY <4>1 DEF IInv, TableOK
      <4> QED
        BY <4>2 DEF Opened
    <3> QED
      BY <2>1, <3>1, <3>2
  <2>4. Steady(SourceOf(o), o.layer, l)
    BY <1>2, <1>3, <2>1, <2>2, <2>3, FollowSteady
  <2>5. mounts' = Relayered(m, l)
    BY <2>2
  <2> HIDE DEF l
  <2> QED
    BY <2>1, <2>4, <2>5, RelayeredSteady
<1>7. CASE \E n \in Notations : Test(m, id, n)
  <2>1. PICK n \in Notations : Test(m, id, n)
    BY <1>7
  <2> DEFINE l == GraftAs(SourceOf(e), e.layer, Inner(id), n)
  <2>2. /\ mounts' = Relayered(m, l) /\ whole' = whole
        /\ Inner(id) \in DOMAIN SourceOf(e).leaves
    BY <2>1 DEF Test, IsLeaf, Become
  <2>3. o = e
    BY <2>2, LeafIsOpen
  <2>4. Steady(SourceOf(o), o.layer, l)
    BY <1>2, <1>3, <2>2, <2>3, GraftAsSteady
  <2> HIDE DEF l
  <2> QED
    BY <2>2, <2>4, RelayeredSteady
<1> QED
  BY <1>1, <1>4, <1>5, <1>6, <1>7

\* A document by its identity.
LEMMA FetchSteady ==
    ASSUME IInv, TableSteady(mounts, whole), NEW d \in Documents, Fetch(d)
    PROVE  TableSteady(mounts', whole) /\ whole' = whole
<1> DEFINE serving == {m \in DOMAIN mounts : Serves(m, d) # {}}
           m == First(serving)
           e == mounts[m]
           k == First(Serves(m, d))
           l == Probe(SourceOf(e), e.layer, k, None)
<1>1. /\ serving # {} /\ mounts' = Relayered(m, l) /\ whole' = whole
  BY DEF Fetch, Become
<1>2. m \in DOMAIN mounts /\ Serves(m, d) # {}
  <2>1. serving \in SUBSET Nat
    BY EntryIs
  <2>2. m \in serving
    BY <1>1, <2>1, FirstIs
  <2> QED
    BY <2>2
<1> HIDE DEF m
<1>3. /\ Sourced(SourceOf(e)) /\ DOMAIN SourceOf(e).leaves \subseteq Nat
      /\ LayerOK(SourceOf(e), e.layer)
  BY <1>2, EntryIs DEF Sound
<1>4. k \in DOMAIN SourceOf(e).leaves
  <2>1. Serves(m, d) \in SUBSET Nat /\ Serves(m, d) \subseteq DOMAIN SourceOf(e).leaves
    BY <1>3 DEF Serves
  <2>2. k \in Serves(m, d)
    BY <1>2, <2>1, FirstIs
  <2> QED
    BY <2>1, <2>2
<1> HIDE DEF k
<1>5. Opened(e) = e
  BY <1>4, LeafIsOpen
<1>6. Steady(SourceOf(e), e.layer, l)
  BY <1>3, <1>4, ProbeSteady
<1> HIDE DEF l
<1> QED
  BY <1>1, <1>2, <1>5, <1>6, RelayeredSteady

\* A text grafted on demand.
LEMMA GraftOnDemandSteady ==
    ASSUME IInv, TableSteady(mounts, whole), NEW a \in Notations, GraftOnDemand(a)
    PROVE  TableSteady(mounts', whole) /\ whole' = whole
<1> DEFINE candidates == IF OpenMounts # {} THEN OpenMounts ELSE Openable
           reached == IF OpenMounts # {} THEN {}
                      ELSE IF Openable # {} THEN 1..First(Openable) ELSE DOMAIN mounts
           table == OpenAll(reached)
           m == First(candidates)
           u == [n \in DOMAIN mounts |->
                   IF n = m THEN WithLayer(table[m], GraftText(table[m].layer, a)) ELSE table[n]]
<1>1. whole' = whole
  BY DEF GraftOnDemand
<1>2. mounts' = table \/ (candidates # {} /\ mounts' = u)
  BY DEF GraftOnDemand, Become
<1>3. TableSteady(table, whole) /\ TableOK(table, tested) /\ DOMAIN table = DOMAIN mounts
  <2>1. DOMAIN table = DOMAIN mounts
    BY DEF OpenAll
  <2> QED
    BY <2>1, OpenAllIsOK, OpenAllSteady
<1>4. CASE candidates # {} /\ mounts' = u
  <2>1. candidates \in SUBSET Nat /\ candidates \subseteq DOMAIN mounts
    <3>1. candidates \subseteq DOMAIN mounts
      BY DEF OpenMounts, Openable
    <3> QED
      BY <3>1, EntryIs
  <2>2. m \in DOMAIN mounts
    BY <1>4, <2>1, FirstIs
  <2> HIDE DEF m, table, candidates
  <2> SUFFICES ASSUME NEW n \in DOMAIN mounts PROVE EntrySteady(u[n], whole)
    BY <1>1, <1>4 DEF TableSteady
  <2>3. EntrySteady(table[n], whole)
    BY <1>3 DEF TableSteady
  <2>4. CASE n = m
    <3> DEFINE l == GraftText(table[m].layer, a)
    <3>1. Sound(SourceOf(table[m]), table[m].layer, m, tested)
      BY <1>3, <2>2 DEF TableOK
    <3>2. Steady(SourceOf(table[m]), table[m].layer, l)
      BY <3>1, TextGoesOn, TextSteady DEF Sound
    <3>3. u[n] = WithLayer(table[m], l)
      BY <2>4
    <3> HIDE DEF l, u
    <3> QED
      BY <2>3, <2>4, <3>2, <3>3, LayeredSteady
  <2>5. CASE n # m
    BY <2>3, <2>5
  <2> QED
    BY <2>4, <2>5
<1> QED
  BY <1>1, <1>2, <1>3, <1>4

\* Every open mount is told: those declared list whole tables from now on.
LEMMA WholeSteady ==
    ASSUME IInv, TableSteady(mounts, whole), WholeListings
    PROVE  TableSteady(mounts', whole')
<1>1. /\ whole' = TRUE
      /\ mounts' = [m \in DOMAIN mounts |->
                      IF mounts[m].cell = "open" THEN WithLayer(mounts[m], Told(mounts[m].layer, TRUE))
                      ELSE mounts[m]]
  BY DEF WholeListings
<1> SUFFICES ASSUME NEW m \in DOMAIN mounts PROVE EntrySteady(mounts'[m], TRUE)
  BY <1>1 DEF TableSteady
<1>2. EntrySteady(mounts[m], whole)
  BY DEF TableSteady
<1>3. CASE mounts[m].cell = "open"
  <2> DEFINE n == Told(mounts[m].layer, TRUE)
             e == WithLayer(mounts[m], n)
  <2>1. n.grafts = mounts[m].layer.grafts /\ n.table = mounts[m].layer.table /\ n.whole = TRUE
    BY DEF Told
  <2>2. mounts'[m] = e
    BY <1>1, <1>3
  <2> HIDE DEF n
  <2>3. e.name = mounts[m].name /\ e.cell = mounts[m].cell /\ e.layer = n
    BY DEF WithLayer
  <2> HIDE DEF e
  <2>4. SourceOf(e) = SourceOf(mounts[m])
    BY <2>3 DEF SourceOf
  <2> QED
    BY <1>2, <2>1, <2>2, <2>3, <2>4 DEF EntrySteady, FreeOnly
<1>4. CASE mounts[m].cell # "open"
  <2>1. mounts'[m] = mounts[m]
    BY <1>1, <1>4
  <2> QED
    BY <1>2, <1>4, <2>1 DEF EntrySteady
<1> QED
  BY <1>3, <1>4

\* Every step keeps it.
LEMMA StepSteady == ASSUME TreeInv, [Next]_vars PROVE TreeInv'
<1>1. IInv /\ TableSteady(mounts, whole) /\ IInv'
  BY StepIsOK DEF TreeInv
<1>2. CASE \E name \in Names : Push(name)
  <2>1. PICK name \in Names : Push(name)
    BY <1>2
  <2> DEFINE e == [name |-> name, declared |-> FALSE, cell |-> "open", layer |-> Fresh]
  <2>2. mounts' = Append(mounts, e) /\ whole' = whole /\ e.layer = Fresh /\ ~e.declared
    BY <2>1 DEF Push
  <2> HIDE DEF e
  <2> QED
    BY <1>1, <2>2, AddedSteady DEF TreeInv
<1>3. CASE \E name \in Names : Declare(name)
  <2>1. PICK name \in Names : Declare(name)
    BY <1>3
  <2> DEFINE e == [name |-> name, declared |-> TRUE, cell |-> "latent", layer |-> Fresh]
  <2>2. mounts' = Append(mounts, e) /\ whole' = whole /\ e.layer = Fresh /\ e.cell # "open"
    BY <2>1 DEF Declare
  <2> HIDE DEF e
  <2> QED
    BY <1>1, <2>2, AddedSteady DEF TreeInv
<1>4. CASE \E name \in Names : HopByName(name)
  <2>1. \E reached : mounts' = OpenAll(reached) /\ whole' = whole
    BY <1>4 DEF HopByName, Become
  <2> QED
    BY <1>1, <2>1, OpenAllSteady DEF TreeInv
<1>5. CASE ListRoot
  <2>1. mounts' = OpenAll(DOMAIN mounts) /\ whole' = whole
    BY <1>5 DEF ListRoot, Become
  <2> QED
    BY <1>1, <2>1, OpenAllSteady DEF TreeInv
<1>6. CASE WholeListings
  BY <1>1, <1>6, WholeSteady DEF TreeInv
<1>7. CASE EndQuery \/ UNCHANGED vars
  <2>1. mounts' = mounts /\ whole' = whole
    BY <1>7 DEF EndQuery, vars
  <2> QED
    BY <1>1, <2>1 DEF TreeInv
<1>8. CASE \E m \in DOMAIN mounts : AskNode(m)
  BY <1>1, <1>8, AskSteady DEF TreeInv
<1>9. CASE \E d \in Documents : Fetch(d)
  BY <1>1, <1>9, FetchSteady DEF TreeInv
<1>10. CASE \E n \in Notations : GraftOnDemand(n)
  BY <1>1, <1>10, GraftOnDemandSteady DEF TreeInv
<1> QED
  BY <1>2, <1>3, <1>4, <1>5, <1>6, <1>7, <1>8, <1>9, <1>10 DEF Next

\* In a sound table up undoes down, at every id an open mount handed out.
LEMMA TreeHolds == ASSUME TreeInv PROVE TreeAgrees
<1> SUFFICES ASSUME NEW m \in OpenMounts, NEW i \in InnerIds(mounts[m])
             PROVE  LET source == SourceOf(mounts[m])
                        layer == mounts[m].layer
                        down == ChildrenOf(source, layer, i)
                        up == ParentOf(layer, i)
                    IN /\ \A c \in down.ids : ParentOf(down.layer, c).ids = {i}
                       /\ \A p \in up.ids :
                            \/ i \in ChildrenOf(source, up.layer, p).ids
                            \/ /\ i \in DOMAIN source.leaves /\ source.leaves[i].narrowed
                               /\ ~layer.whole /\ (mounts[m].declared => ~whole)
  BY DEF TreeAgrees
<1> DEFINE source == SourceOf(mounts[m])
           l == mounts[m].layer
<1>1. m \in DOMAIN mounts /\ mounts[m].cell = "open"
  BY DEF OpenMounts
<1>2. IInv /\ EntrySteady(mounts[m], whole)
  BY <1>1 DEF TreeInv, TableSteady
<1>3. Sourced(source) /\ LayerOK(source, l)
  BY <1>1, <1>2, EntryIs DEF Sound
<1>4. source.onDemand => FreeOnly(l)
  BY <1>2 DEF EntrySteady
<1>5. ~l.whole => (mounts[m].declared => ~whole)
  BY <1>1, <1>2 DEF EntrySteady
<1>6. i \in Nat /\ (i = 0 \/ i \in DOMAIN source.leaves \/ Interned(l, i))
  <2>1. i \in Nat /\ (i < Graft \/ Interned(l, i))
    BY <1>1, <1>2, InnerIdIs
  <2>2. CASE \E k \in DOMAIN l.table : i = Graft + k - 1
    <3>1. PICK k \in DOMAIN l.table : i = Graft + k - 1
      BY <2>2
    <3>2. l.table \in Seq(Nat \X Nat)
      BY <1>3 DEF LayerOK, Layers
    <3>3. k \in Nat /\ k >= 1
      BY <3>1, <3>2
    <3>4. ~(i < Graft)
      BY <3>1, <3>3, GraftAssumption
    <3> QED
      BY <2>1, <3>4
  <2>3. CASE i = 0 \/ i \in DOMAIN source.leaves
    BY <2>1, <2>3
  <2> QED
    BY <2>2, <2>3 DEF InnerIds
<1> HIDE DEF source, l
<1>7. DownAgrees(source, l, i) /\ UpAgrees(source, l, i)
  BY <1>3, <1>4, <1>6, GoingDown, GoingUp
<1>8. \A c \in ChildrenOf(source, l, i).ids : ParentOf(ChildrenOf(source, l, i).layer, c).ids = {i}
  BY <1>7 DEF DownAgrees
<1>9. \A p \in ParentOf(l, i).ids :
        \/ i \in ChildrenOf(source, ParentOf(l, i).layer, p).ids
        \/ /\ i \in DOMAIN source.leaves /\ source.leaves[i].narrowed
           /\ ~l.whole /\ (mounts[m].declared => ~whole)
  BY <1>5, <1>7 DEF UpAgrees
<1> QED
  BY <1>8, <1>9 DEF source, l

\* Up undoes down: whatever is asked of the table, the parent of what a listing gives is
\* what was listed, and what stands above a node lists it.
THEOREM UpUndoesDown == Spec => []TreeAgrees
<1>1. Init => TreeInv
  <2>1. Init => DOMAIN mounts = {}
    BY DEF Init
  <2> QED
    BY <2>1, InitIsOK DEF TreeInv, TableSteady
<1>2. TreeInv /\ [Next]_vars => TreeInv'
  BY StepSteady
<1>3. TreeInv => TreeAgrees
  BY TreeHolds
<1> QED
  BY <1>1, <1>2, <1>3, PTL DEF Spec
=============================================================================
