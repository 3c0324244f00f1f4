----------------------------- MODULE MCResident -----------------------------
(***************************************************************************)
(* Instances of Resident for TLC.                                          *)
(***************************************************************************)
EXTENDS Resident, TLC

Plain == [form |-> "text", notes |-> FALSE, sets |-> FALSE, fate |-> "answers"]

\* The lifecycle of the socket: every client asks the same.
PlainRequests == {Plain}

\* What the queries do to one another, and two sessions side by side.
MixedRequests == {Plain,
                  [Plain EXCEPT !.form = "json"],
                  [Plain EXCEPT !.fate = "refuses", !.notes = TRUE],
                  [Plain EXCEPT !.fate = "rejected"],
                  [Plain EXCEPT !.sets = TRUE]}

ClientSymmetry == Permutations(Clients)
=============================================================================
