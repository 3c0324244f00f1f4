-------------------------------- MODULE Serve --------------------------------
(***************************************************************************)
(* The serve protocol (quarb-serve/src/lib.rs): ServeAdapter spawns a tool *)
(* and asks it over its standard input and output, one request and one     *)
(* response at a time.  The handshake settles typed values and the wire,   *)
(* JSON lines or daiv frames; responses are cached by request and carry no *)
(* mark of the request they answer.                                        *)
(*                                                                         *)
(* The tool is a child running `serve`, or a foreign one: what it supports *)
(* is an input.                                                            *)
(***************************************************************************)
EXTENDS Naturals, Sequences

CONSTANTS Requests,       \* the questions of the engine
          Askers,         \* what the asking side understands
          Tools,          \* what the tool supports
          MaxEdits,       \* changes of the tool's data
          None, Nothing, Bad

\* An old asking side asks for no typed values and no other wire.
AskerType == [typed : BOOLEAN, daiv : BOOLEAN, sigpipe : {"ignored", "default"}]

\* serve: the hello names the protocol; daiv: it offers the wire; grants: the
\* response to the switch; knows: the questions it has an operation for.
ToolType == [serve : BOOLEAN, typed : BOOLEAN, daiv : BOOLEAN,
             grants : {"ok", "no", "error"}, knows : SUBSET Requests]

ASSUME KindsAssumption == Askers \subseteq AskerType /\ Tools \subseteq ToolType
ASSUME EditsAssumption == MaxEdits \in Nat

\* What an answer carries, and the messages of the two sides.
Value == [of : Requests, at : Nat, typed : BOOLEAN, whole : BOOLEAN]
RequestBody == [op : {"hello"}, typed : BOOLEAN] \union [op : {"format"}]
               \union [op : {"ask"}, of : Requests]
ReplyBody == [op : {"hello"}, serve : BOOLEAN, daiv : BOOLEAN] \union [op : {"ack"}, ok : BOOLEAN]
             \union [op : {"answer"}, value : Value] \union [op : {"error"}]

\* A call under way, as the promise sees it.
Call == [req : Requests, since : Nat]

ASSUME NamesAssumption == /\ None \notin Requests /\ None # Nothing /\ None # Bad
                          /\ None \notin Call /\ None \notin Value /\ Nothing \notin Value
                          /\ None \notin RequestBody /\ Bad \notin RequestBody
                          /\ Bad \notin ReplyBody

VARIABLES asker, tool,   \* the inputs
          cpc,           \* where the asking side is
          cwire,         \* its wire
          want, since,   \* the question in hand, and the version at its asking
          cache,         \* the responses kept
          told,          \* history: the last outcome of every question
          requests,      \* the tool's standard input
          responses,     \* the tool's standard output
          alive,         \* the tool runs
          hand,          \* the request it is answering
          swire, typed,  \* its wire, and whether it writes typed values
          version        \* of its data

inputs == <<asker, tool>>
askerVars == <<cpc, cwire, want, since, cache, told>>
toolVars == <<alive, hand, swire, typed>>
vars == <<asker, tool, cpc, cwire, want, since, cache, told, requests, responses,
          alive, hand, swire, typed, version>>

Init ==
    /\ asker \in Askers /\ tool \in Tools
    /\ cpc = "hello" /\ cwire = "json" /\ want = None /\ since = 0
    /\ cache = [r \in Requests |-> None] /\ told = [r \in Requests |-> None]
    /\ requests = <<>> /\ responses = <<>>
    /\ alive = TRUE /\ hand = None /\ swire = "json" /\ typed = FALSE
    /\ version = 0

-----------------------------------------------------------------------------
(***************************************************************************)
(* The asking side.                                                        *)
(***************************************************************************)

Sent == {"helloSent", "formatSent", "callSent"}

\* call: the request goes out, on the wire of the session.
Write(from, body, to) ==
    /\ cpc = from /\ alive
    /\ requests' = Append(requests, [wire |-> cwire, body |-> body])
    /\ cpc' = to
    /\ UNCHANGED <<inputs, cwire, want, since, cache, told, responses, toolVars, version>>

SayHello == Write("hello", [op |-> "hello", typed |-> asker.typed], "helloSent")
SayFormat == Write("format", [op |-> "format"], "formatSent")
SayCall == cpc = "call" /\ cache[want] = None /\ Write("call", [op |-> "ask", of |-> want], "callSent")

\* The engine asks.
Ask(r) ==
    /\ cpc = "idle" /\ cpc' = "call"
    /\ want' = r /\ since' = version
    /\ UNCHANGED <<inputs, cwire, cache, told, requests, responses, toolVars, version>>

\* call: a response is kept for this very request.
Recall ==
    /\ cpc = "call" /\ cache[want] # None
    /\ told' = [told EXCEPT ![want] = cache[want]]
    /\ cpc' = "idle" /\ want' = None
    /\ UNCHANGED <<inputs, cwire, since, cache, requests, responses, toolVars, version>>

\* An error of call.  In the handshake spawn returns it, and the adapter that
\* drops kills the tool; later call_ok makes it an empty answer.
Error ==
    IF cpc \in {"call", "callSent"}
    THEN /\ told' = [told EXCEPT ![want] = Nothing]
         /\ cpc' = "idle" /\ want' = None
         /\ UNCHANGED alive
    ELSE /\ cpc' = "refused" /\ alive' = FALSE
         /\ UNCHANGED <<want, told>>

\* The pipe has no reader: an error, unless the write's signal kills.
BrokenPipe ==
    /\ \/ cpc \in {"hello", "format"}
       \/ cpc = "call" /\ cache[want] = None
    /\ ~alive
    /\ IF asker.sigpipe = "ignored" THEN Error
       ELSE /\ cpc' = "killed" /\ want' = None
            /\ UNCHANGED <<told, alive>>
    /\ UNCHANGED <<inputs, cwire, since, cache, requests, responses, hand, swire, typed, version>>

\* Mutant: a stream without a response is read again, closed or not.
MutEndOfStream == cpc \in Sent /\ responses = <<>> /\ ~alive /\ UNCHANGED vars

\* The tool closed the stream with no response left in it.
EndOfStream ==
    /\ cpc \in Sent /\ responses = <<>> /\ ~alive
    /\ Error
    /\ UNCHANGED <<inputs, cwire, since, cache, requests, responses, hand, swire, typed, version>>

\* read_msg of the asking side.
Decoded(m) == IF m.wire = cwire THEN m.body ELSE Bad

\* Not a response the request in hand can have.
Fails(b, op) == b = Bad \/ b.op # op

\* spawn, with the response to hello in hand.
Greeted(b) ==
    IF Fails(b, "hello") \/ ~b.serve
    THEN Error /\ UNCHANGED <<cwire, cache>>
    ELSE /\ cpc' = IF b.daiv /\ asker.daiv THEN "format" ELSE "idle"
         /\ UNCHANGED <<cwire, want, cache, told, alive>>

\* spawn, with the response to the switch in hand.
Switched(b) ==
    IF Fails(b, "ack")
    THEN Error /\ UNCHANGED <<cwire, cache>>
    ELSE /\ cwire' = IF b.ok THEN "daiv" ELSE cwire
         /\ cpc' = "idle"
         /\ UNCHANGED <<want, cache, told, alive>>

\* Mutant: answers are not kept.
MutForgotten(b) ==
    IF Fails(b, "answer")
    THEN Error /\ UNCHANGED <<cwire, cache>>
    ELSE /\ told' = [told EXCEPT ![want] = b.value]
         /\ cpc' = "idle" /\ want' = None
         /\ UNCHANGED <<cwire, cache, alive>>

\* call, with the response to a question in hand: errors are not kept.
Answered(b) ==
    IF Fails(b, "answer")
    THEN Error /\ UNCHANGED <<cwire, cache>>
    ELSE /\ cache' = [cache EXCEPT ![want] = b.value]
         /\ told' = [told EXCEPT ![want] = b.value]
         /\ cpc' = "idle" /\ want' = None
         /\ UNCHANGED <<cwire, alive>>

Read ==
    /\ cpc \in Sent /\ responses # <<>>
    /\ responses' = Tail(responses)
    /\ LET b == Decoded(Head(responses))
       IN \/ cpc = "helloSent" /\ Greeted(b)
          \/ cpc = "formatSent" /\ Switched(b)
          \/ cpc = "callSent" /\ Answered(b)
    /\ UNCHANGED <<inputs, since, requests, hand, swire, typed, version>>

\* The adapter is dropped: the tool is killed.
Close ==
    /\ cpc = "idle" /\ cpc' = "closed" /\ alive' = FALSE
    /\ UNCHANGED <<inputs, cwire, want, since, cache, told, requests, responses, hand, swire,
                   typed, version>>

-----------------------------------------------------------------------------
(***************************************************************************)
(* The tool: the loop of serve.                                            *)
(***************************************************************************)

\* read_msg of the tool.
Receive ==
    /\ alive /\ hand = None /\ requests # <<>>
    /\ hand' = IF Head(requests).wire = swire THEN Head(requests).body ELSE Bad
    /\ requests' = Tail(requests)
    /\ UNCHANGED <<inputs, askerVars, responses, alive, swire, typed, version>>

Reply(body) == responses' = Append(responses, [wire |-> swire, body |-> body])

Failure == [op |-> "error"]

\* An answer of the data as they are, whole or cut short.
Answer(r, whole) ==
    [op |-> "answer", value |-> [of |-> r, at |-> version, typed |-> typed, whole |-> whole]]

Asked(op) == hand \notin {None, Bad} /\ hand.op = op

AnswerHello ==
    /\ alive /\ Asked("hello")
    /\ typed' = (tool.typed /\ hand.typed)
    /\ Reply([op |-> "hello", serve |-> tool.serve, daiv |-> tool.daiv])
    /\ hand' = None
    /\ UNCHANGED <<inputs, askerVars, requests, alive, swire, version>>

\* Mutant: the switch is acknowledged on the new wire.
MutAnswerFormat ==
    /\ alive /\ Asked("format")
    /\ responses' = Append(responses, [wire |-> "daiv", body |-> [op |-> "ack", ok |-> TRUE]])
    /\ swire' = "daiv" /\ hand' = None
    /\ UNCHANGED <<inputs, askerVars, requests, alive, typed, version>>

\* The switch is acknowledged on the old wire.
AnswerFormat ==
    /\ alive /\ Asked("format")
    /\ Reply(IF tool.grants = "error" THEN Failure
             ELSE [op |-> "ack", ok |-> tool.grants = "ok"])
    /\ swire' = IF tool.grants = "ok" THEN "daiv" ELSE swire
    /\ hand' = None
    /\ UNCHANGED <<inputs, askerVars, requests, alive, typed, version>>

\* respond; a message that does not parse and an operation the tool does not
\* know are answered with an error.
AnswerAsk ==
    /\ alive /\ (hand = Bad \/ Asked("ask"))
    /\ Reply(IF hand # Bad /\ hand.of \in tool.knows
             THEN Answer(hand.of, TRUE)
             ELSE Failure)
    /\ hand' = None
    /\ UNCHANGED <<inputs, askerVars, requests, alive, swire, typed, version>>

\* What read_msg makes of the beginning of a message at the end of the stream:
\* half a line is no JSON, half a frame can be a message with fewer fields.
Torn(r) == IF swire = "json" THEN {Bad} ELSE {Bad, Failure, Answer(r, FALSE)}

\* The tool ends in the middle of writing a response.
Tear ==
    /\ alive /\ hand \notin {None, Bad} /\ alive' = FALSE /\ hand' = None
    /\ \E b \in IF hand.op = "ask" THEN Torn(hand.of) ELSE {Bad} :
          responses' = Append(responses, [wire |-> swire, body |-> b])
    /\ UNCHANGED <<inputs, askerVars, requests, swire, typed, version>>

\* The tool ends, by itself or killed; what it wrote can still be read.
Crash ==
    /\ alive /\ alive' = FALSE
    /\ UNCHANGED <<inputs, askerVars, requests, responses, hand, swire, typed, version>>

\* The tool's data change.
Edit ==
    /\ alive /\ version < MaxEdits /\ version' = version + 1
    /\ UNCHANGED <<inputs, askerVars, requests, responses, toolVars>>

Asking == SayHello \/ SayFormat \/ SayCall \/ Recall \/ BrokenPipe \/ EndOfStream \/ Read
Serving == Receive \/ AnswerHello \/ AnswerFormat \/ AnswerAsk

Terminated == cpc \in {"refused", "closed", "killed"} /\ UNCHANGED vars

Next == \/ Asking \/ Serving \/ Tear \/ Crash \/ Edit \/ Close \/ Terminated
        \/ \E r \in Requests : Ask(r)

Spec == Init /\ [][Next]_vars

\* Both processes run; the tool answers what it has read.
LiveSpec == Spec /\ WF_vars(Asking) /\ WF_vars(Serving)

-----------------------------------------------------------------------------
Wires == {"json", "daiv"}

\* Types of the state; a question is in hand exactly during a call.
TypeOK ==
    /\ asker \in Askers /\ tool \in Tools
    /\ cpc \in Sent \union {"hello", "format", "idle", "call", "refused", "closed", "killed"}
    /\ cwire \in Wires /\ since \in Nat /\ version \in Nat
    /\ want \in Requests \union {None} /\ (want # None <=> cpc \in {"call", "callSent"})
    /\ cache \in [Requests -> Value \union {None}]
    /\ told \in [Requests -> Value \union {None, Nothing}]
    /\ requests \in Seq([wire : Wires, body : RequestBody])
    /\ responses \in Seq([wire : Wires, body : ReplyBody \union {Bad}])
    /\ alive \in BOOLEAN /\ swire \in Wires /\ typed \in BOOLEAN
    /\ hand \in RequestBody \union {None, Bad}

\* One message at most is under way, and none between two calls: no response
\* is ever taken for another request's, though it does not name it, and the
\* two sides never wait on each other's full pipe.
InStep ==
    Len(requests) + Len(responses) + (IF hand = None THEN 0 ELSE 1)
        <= IF cpc \in Sent THEN 1 ELSE IF alive THEN 0 ELSE 1

\* Every message is read on the wire it was written on, also around the switch,
\* which is asked for and acknowledged on the old one.
WiresAgree ==
    /\ \A i \in DOMAIN requests : alive => requests[i].wire = swire
    /\ \A i \in DOMAIN responses : responses[i].wire = cwire
    /\ hand # Bad
    /\ alive /\ cpc \in {"idle", "call"} => cwire = swire

\* Why, inductively: what is under way is the question of the state the asking
\* side is in, or a response that is the question's own.
Understood == tool.typed /\ asker.typed
Proper == tool.serve /\ (tool.daiv /\ asker.daiv => tool.grants # "error")
Question == IF cpc = "helloSent" THEN [op |-> "hello", typed |-> asker.typed]
            ELSE IF cpc = "formatSent" THEN [op |-> "format"]
            ELSE [op |-> "ask", of |-> want]
HelloReply == [op |-> "hello", serve |-> tool.serve, daiv |-> tool.daiv]
FormatReply == IF tool.grants = "error" THEN Failure ELSE [op |-> "ack", ok |-> tool.grants = "ok"]
Answers(whole) == {[op |-> "answer", value |-> [of |-> want, at |-> v, typed |-> Understood,
                                                whole |-> whole]] : v \in since..version}
Rightful == IF cpc = "helloSent" THEN {HelloReply}
            ELSE IF cpc = "formatSent" THEN {FormatReply}
            ELSE IF want \in tool.knows THEN Answers(TRUE) ELSE {Failure}
Remains == IF cpc = "callSent" /\ cwire = "daiv"
           THEN {Bad, Failure} \union Answers(FALSE)
           ELSE {Bad}
UnderWay ==
    \/ /\ requests = <<[wire |-> cwire, body |-> Question]>> /\ hand = None /\ responses = <<>>
    \/ /\ requests = <<>> /\ hand = Question /\ responses = <<>>
    \/ /\ requests = <<>> /\ hand = None
       /\ \E b \in Rightful \union (IF alive THEN {} ELSE Remains) :
             responses = <<[wire |-> cwire, body |-> b]>>
Quiet == /\ responses = <<>>
         /\ alive => requests = <<>> /\ hand = None
         /\ \/ requests = <<>> /\ hand # Bad
            \/ Len(requests) = 1 /\ hand = None
FlightInv == IF cpc \in Sent THEN UnderWay ELSE Quiet

Opened == {"idle", "call", "callSent"}
SettledInv ==
    /\ cpc \in Opened \union {"format", "formatSent"} \/ (cpc = "helloSent" /\ responses # <<>> /\ Head(responses).body # Bad)
         => typed = Understood
    /\ cpc \in {"format", "formatSent"} => tool.serve /\ tool.daiv /\ asker.daiv
    /\ cpc \in Opened => Proper
    /\ cpc \in {"hello", "helloSent", "format", "formatSent"} => cwire = "json"
    /\ alive => swire = IF cpc = "formatSent" /\ responses # <<>> /\ tool.grants = "ok"
                        THEN "daiv" ELSE cwire
    /\ since <= version
KeptInv == /\ \A r \in Requests : IF cache[r] = None THEN told[r] \in {None, Nothing}
                                  ELSE told[r] = cache[r]
           /\ cpc = "callSent" => cache[want] = None
SessionInv == TypeOK /\ FlightInv /\ SettledInv /\ KeptInv

\* The session keeps the promise of a served source.
Phase == IF cpc \in {"hello", "helloSent", "format", "formatSent"} THEN "opening"
         ELSE IF cpc \in Opened THEN "open" ELSE cpc
Promise == INSTANCE ServePromise WITH
    phase <- Phase, proper <- Proper, known <- tool.knows, typed <- Understood,
    pending <- IF want = None THEN None ELSE [req |-> want, since |-> since],
    lost <- ~alive
KeepsPromise == Promise!Spec

\* Every call returns, with an answer or without, and the handshake comes to
\* an end, whatever becomes of the tool.
CallsReturn == \A s \in Sent \union {"hello", "format", "call"} :
                  (cpc = s) ~> (cpc \in {"idle", "refused", "killed"})
=============================================================================
