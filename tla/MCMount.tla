------------------------------ MODULE MCMount ------------------------------
(***************************************************************************)
(* An instance of Mount for TLC: a file, a note, a database over which     *)
(* nothing is grafted unasked, a source whose host reads its leaf, and     *)
(* one that does not open.                                                 *)
(***************************************************************************)
EXTENDS Mount

CONSTANTS j, t, read, d, dir, note, db, web, gone

Leaf(host, declared, opaque, says, parses, serves, narrowed) ==
    [host |-> host, declared |-> declared, opaque |-> opaque, says |-> says,
     parses |-> parses, serves |-> serves, narrowed |-> narrowed]

\* What j reads has a node with a child, what t reads and the host's reading one node.
MCDoc == [r \in Readings |-> IF r = j THEN [i \in 0..2 |-> IF i = 2 THEN {} ELSE {i + 1}]
                             ELSE [i \in 0..1 |-> IF i = 1 THEN {} ELSE {1}]]

\* A file declared j, that does not parse as t; a file that says it is a t; two cells,
\* one of a column a listing may leave out; a page its host reads.
Files == <<Leaf(None, j, FALSE, None, {j}, None, FALSE)>>
Notes == <<Leaf(None, None, FALSE, t, {t}, None, FALSE)>>
Cells == <<Leaf(None, None, FALSE, t, {j}, None, TRUE), Leaf(None, t, FALSE, None, {t}, None, FALSE)>>
Pages == <<Leaf(read, None, TRUE, None, {t}, d, FALSE)>>

MCSource == [n \in {dir, note, db, web, gone} |->
               [onDemand |-> n = db, broken |-> n = gone,
                leaves |-> CASE n = dir -> Files [] n = note -> Notes [] n = db -> Cells
                             [] n = web -> Pages [] n = gone -> Files]]
=============================================================================
