----------------------------- MODULE MCAstCache -----------------------------
(* Two builds whose digests agree in eight digits, two texts, two processes. *)
EXTENDS AstCache

CONSTANTS g, h, c, d

MCDirectory == [x \in Grammars |-> "rust-0"]
MCLength == [x \in Contents |-> IF x = c THEN 2 ELSE 3]
N(kind, field, parent, start, end, line, endLine) ==
    [kind |-> kind, field |-> field, parent |-> parent,
     start |-> start, end |-> end, line |-> line, endLine |-> endLine]
Root == N("file", None, None, 0, 2, 1, 2)

\* Trees of three nodes over two bytes and two lines, one whose last node starts
\* before the node that precedes it, one of a kind that the tables do not give back.
Spans == {<<0, 0>>, <<0, 1>>, <<1, 2>>}
Three == {<<Root, N("item", "name", 1, s[1], s[2], 1, 2), N("item", None, p, 2, 2, 2, 2)>> :
            s \in Spans, p \in 1..2}
Backward == <<Root, N("item", None, 1, 1, 2, 2, 2), N("item", None, 1, 0, 1, 2, 2)>>
Aliased == <<Root, N("alias", None, 1, 0, 1, 1, 1)>>
Two == <<Root, N("item", None, 1, 1, 2, 1, 2)>>
MCTrees == Three \union {<<Root>>, Two, Backward, Aliased}

\* What one build makes of one text varies; the rest is told apart.
MCParses == {[k \in Grammars \X Contents |-> IF k = <<g, c>> THEN t
                                            ELSE IF k = <<h, c>> THEN Two ELSE <<Root>>] : t \in MCTrees}
=============================================================================
