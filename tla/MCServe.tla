------------------------------- MODULE MCServe -------------------------------
(***************************************************************************)
(* Instances of Serve for TLC: the asking side of today and an old one,    *)
(* with the signal of a broken pipe ignored or not; a tool that runs       *)
(* `serve`, an older one, and foreign ones.                                *)
(***************************************************************************)
EXTENDS Serve

CONSTANTS children, links

Own == [serve |-> TRUE, typed |-> TRUE, daiv |-> TRUE, grants |-> "ok", knows |-> Requests]
SomeTools == {Own,
              [Own EXCEPT !.typed = FALSE, !.knows = {children}],
              [Own EXCEPT !.daiv = FALSE, !.grants = "error", !.typed = FALSE],
              [Own EXCEPT !.grants = "no"],
              [Own EXCEPT !.grants = "error"],
              [Own EXCEPT !.serve = FALSE]}
SomeAskers == {[typed |-> TRUE, daiv |-> TRUE, sigpipe |-> "ignored"],
               [typed |-> TRUE, daiv |-> TRUE, sigpipe |-> "default"],
               [typed |-> FALSE, daiv |-> FALSE, sigpipe |-> "ignored"]}
=============================================================================
