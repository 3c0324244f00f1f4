---------------------------- MODULE ServePromise ----------------------------
(***************************************************************************)
(* What a served source promises the engine that asks it: every question   *)
(* gets the source's own answer, as of some moment during the call, in the *)
(* rendering both sides understand; the first answer to a question stands  *)
(* for the session; and nothing but the loss of the source, or a question  *)
(* it does not know, leaves a question without one, or with half of one.   *)
(***************************************************************************)
EXTENDS Naturals

CONSTANTS Requests, None, Nothing

VARIABLES phase,    \* "opening", "open", "refused", "closed" or "killed"
          proper,   \* the source is one the session can be opened with
          known,    \* the questions it knows
          typed,    \* both sides understand typed values
          version,  \* of the source's data
          pending,  \* the question being asked, and the version it was asked at
          told,     \* the last answer to every question
          lost      \* the source is gone

vars == <<phase, proper, known, typed, version, pending, told, lost>>

Answer == [of : Requests, at : Nat, typed : BOOLEAN, whole : BOOLEAN]

Init ==
    /\ phase = "opening" /\ proper \in BOOLEAN /\ known \in SUBSET Requests /\ typed \in BOOLEAN
    /\ version = 0 /\ pending = None /\ lost = FALSE
    /\ told = [r \in Requests |-> None]

\* The session is opened with a source it can be opened with.
Open == /\ phase = "opening" /\ proper /\ phase' = "open"
        /\ UNCHANGED <<proper, known, typed, version, pending, told, lost>>

\* It is refused for cause, and its source is let go.
Refuse == /\ phase = "opening" /\ (lost \/ ~proper)
          /\ phase' = "refused" /\ lost' = TRUE
          /\ UNCHANGED <<proper, known, typed, version, pending, told>>

\* The data change under the session.
Edit == /\ version' = version + 1
        /\ UNCHANGED <<phase, proper, known, typed, pending, told, lost>>

Lose == /\ lost' = TRUE
        /\ UNCHANGED <<phase, proper, known, typed, version, pending, told>>

Ask(r) == /\ phase = "open" /\ pending = None
          /\ pending' = [req |-> r, since |-> version]
          /\ UNCHANGED <<phase, proper, known, typed, version, told, lost>>

\* An answer once given is given again.
Repeat == /\ pending # None /\ told[pending.req] \in Answer
          /\ pending' = None
          /\ UNCHANGED <<phase, proper, known, typed, version, told, lost>>

\* A first answer is the source's, of a version it had during the call; it is
\* whole unless the source was lost while it gave it.
Tell == /\ pending # None /\ told[pending.req] \notin Answer
        /\ \E v \in pending.since..version, whole \in BOOLEAN :
              /\ whole => pending.req \in known
              /\ ~whole => lost
              /\ told' = [told EXCEPT ![pending.req] = [of |-> pending.req, at |-> v,
                                                        typed |-> typed, whole |-> whole]]
        /\ pending' = None
        /\ UNCHANGED <<phase, proper, known, typed, version, lost>>

\* No answer, for cause.
Fail == /\ pending # None /\ told[pending.req] \notin Answer
        /\ lost \/ pending.req \notin known
        /\ told' = [told EXCEPT ![pending.req] = Nothing]
        /\ pending' = None
        /\ UNCHANGED <<phase, proper, known, typed, version, lost>>

\* The engine lets go of the session, and with it of the source.
Close == /\ phase = "open" /\ pending = None
         /\ phase' = "closed" /\ lost' = TRUE
         /\ UNCHANGED <<proper, known, typed, version, pending, told>>

\* The asking process is killed, by asking a source that is gone.
Killed == /\ lost /\ phase \in {"opening", "open"}
          /\ phase' = "killed" /\ pending' = None
          /\ UNCHANGED <<proper, known, typed, version, told, lost>>

Next == \/ Open \/ Refuse \/ Edit \/ Lose
        \/ \E r \in Requests : Ask(r)
        \/ Repeat \/ Tell \/ Fail \/ Close \/ Killed

Spec == Init /\ [][Next]_vars
=============================================================================
