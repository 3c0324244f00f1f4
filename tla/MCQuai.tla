------------------------------- MODULE MCQuai -------------------------------
(* Two sessions over one file, or one in the process: three texts, one fragment. *)
EXTENDS Quai, TLC

CONSTANTS frag, first, second, third, bare, page, url

Def(name, uses) == [name |-> name, uses |-> uses, text |-> first]
Library == <<Def(frag, None)>>
MCStarts == {<<>>, <<Library, Library>>}
MCDefs == {Def(frag, 1), Def(2, None)}
MCCellDefs == {<<>>, Library, <<Def(frag, 1)>>}
MCAsks == {first}
MCMoved == [t \in Texts |-> IF t = first THEN second ELSE t]
MCSchemed == {url}
MCPageNames == {page}
Sessions2 == Permutations(Procs)
=============================================================================
