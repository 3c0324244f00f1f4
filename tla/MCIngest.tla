------------------------------ MODULE MCIngest ------------------------------
(***************************************************************************)
(* Instances of Ingest for TLC: small dumps with a bad first record, a     *)
(* page that comes twice, categories named by pages, by one another and by *)
(* nobody, and a category page that was renamed.                           *)
(***************************************************************************)
EXTENDS Ingest

Bad == [kind |-> "bad", id |-> 1, title |-> "A", cats |-> <<>>, modified |-> 0]
Page(i, cats) == [kind |-> "page", id |-> i, title |-> "A", cats |-> cats, modified |-> 0]
Category(i, t, cats, m) == [kind |-> "category", id |-> i, title |-> t, cats |-> cats, modified |-> m]

\* Two files, within each of which the records race: a page that comes twice,
\* a bad first record, and category 5 in three records, the latest in between.
TwoFiles == <<<<Bad, Page(1, <<"B", "A", "B">>), Page(1, <<"C">>), Category(5, "A", <<"D">>, 1)>>,
              <<Category(5, "A", <<"A", "C">>, 3), Category(5, "A", <<>>, 2),
                Category(6, "C", <<"A">>, 1)>>>>

\* The category page 5 was moved from A to B, and page 1 still names A.
Renamed == <<<<Page(1, <<"A">>), Category(5, "A", <<>>, 1), Category(5, "B", <<>>, 2)>>>>
=============================================================================
