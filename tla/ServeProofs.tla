----------------------------- MODULE ServeProofs -----------------------------
(***************************************************************************)
(* Proof that a served session stays in step, keeps to one wire, and       *)
(* implements the promise of a served source, for any questions, tools and *)
(* asking sides.  SessionInv says what is under way: the question in hand, *)
(* or a response that is this question's own, or its remains.              *)
(***************************************************************************)
EXTENDS Serve, TLAPS, SequenceTheorems

\* A pipe that holds one message.
LEMMA Single ==
    ASSUME NEW S, NEW m \in S
    PROVE  /\ <<m>> \in Seq(S) /\ <<m>> # <<>> /\ Len(<<m>>) = 1
           /\ Head(<<m>>) = m /\ Tail(<<m>>) = <<>> /\ Append(<<>>, m) = <<m>>
<1>1. <<m>> \in Seq(S) /\ Len(<<m>>) = 1 /\ <<m>>[1] = m
  OBVIOUS
<1>2. <<m>> # <<>> /\ Head(<<m>>) = m
  OBVIOUS
<1>3. Append(<<>>, m) = <<m>>
  OBVIOUS
<1>4. Tail(<<m>>) = <<>>
  BY <1>1, <1>2, EmptySeq, HeadTailProperties
<1> QED
  BY <1>1, <1>2, <1>3, <1>4

Request == [wire : Wires, body : RequestBody]
Response == [wire : Wires, body : ReplyBody \union {Bad}]

\* The inputs are of their kinds.
LEMMA InputsType ==
    ASSUME TypeOK
    PROVE  /\ asker.typed \in BOOLEAN /\ asker.daiv \in BOOLEAN
           /\ tool.serve \in BOOLEAN /\ tool.typed \in BOOLEAN /\ tool.daiv \in BOOLEAN
           /\ tool.grants \in {"ok", "no", "error"} /\ tool.knows \subseteq Requests
           /\ Understood \in BOOLEAN
BY KindsAssumption DEF TypeOK, AskerType, ToolType, Understood

\* An answer carries a value of the question's.
LEMMA AnswersType ==
    ASSUME TypeOK, want \in Requests, NEW whole \in BOOLEAN
    PROVE  /\ Answers(whole) \subseteq ReplyBody
           /\ \A b \in Answers(whole) : /\ b.op = "answer" /\ b.value \in Value
                                        /\ b # Bad
<1>1. \A v \in since..version : [of |-> want, at |-> v, typed |-> Understood, whole |-> whole] \in Value
  BY InputsType DEF TypeOK, Value
<1>2. \A x \in Value : [op |-> "answer", value |-> x] \in ReplyBody
  BY DEF ReplyBody
<1> QED
  BY <1>1, <1>2, NamesAssumption DEF Answers

\* What the asking side waits for is a question, and has replies.
LEMMA QuestionType ==
    ASSUME TypeOK, cpc \in Sent
    PROVE  /\ Question \in RequestBody /\ Question # None /\ Question # Bad
           /\ Rightful \subseteq ReplyBody
           /\ Remains \subseteq ReplyBody \union {Bad}
<1>0. cpc = "callSent" => want \in Requests
  BY DEF TypeOK
<1>1. Question \in RequestBody
  BY <1>0, InputsType DEF Question, RequestBody, Sent
<1>2. Failure \in ReplyBody /\ HelloReply \in ReplyBody /\ FormatReply \in ReplyBody
  BY InputsType DEF Failure, HelloReply, FormatReply, ReplyBody
<1>3. cpc = "callSent" => Answers(TRUE) \subseteq ReplyBody /\ Answers(FALSE) \subseteq ReplyBody
  BY <1>0, AnswersType
<1>4. Rightful \subseteq ReplyBody
  BY <1>2, <1>3 DEF Rightful, Sent
<1>5. Remains \subseteq ReplyBody \union {Bad}
  BY <1>2, <1>3 DEF Remains
<1> QED
  BY <1>1, <1>4, <1>5, NamesAssumption

-----------------------------------------------------------------------------
(***************************************************************************)
(* The asking side's steps keep the invariant.                             *)
(***************************************************************************)

\* A request goes out when nothing is under way.
LEMMA SayKeeps ==
    ASSUME SessionInv, SayHello \/ SayFormat \/ SayCall
    PROVE  SessionInv'
<1> USE DEF SessionInv, inputs, toolVars
<1>1. /\ cpc \in {"hello", "format", "call"} /\ cpc' \in Sent /\ alive
      /\ requests' = Append(requests, [wire |-> cwire, body |-> Question'])
      /\ UNCHANGED <<asker, tool, cwire, want, since, cache, told, responses, alive, hand,
                     swire, typed, version>>
      /\ cpc = "hello" => cpc' = "helloSent"
      /\ cpc = "format" => cpc' = "formatSent"
      /\ cpc = "call" => cpc' = "callSent" /\ cache[want] = None
  BY DEF SayHello, SayFormat, SayCall, Write, Question, Sent
<1>2. requests = <<>> /\ responses = <<>> /\ hand = None
  BY <1>1 DEF FlightInv, Quiet, Sent
<1>3. Question' \in RequestBody
  <2>1. cpc = "call" => want \in Requests
    BY DEF TypeOK
  <2> QED
    BY <1>1, <2>1, InputsType DEF Question, RequestBody
<1>4. requests' = <<[wire |-> cwire, body |-> Question']>> /\ requests' \in Seq(Request)
  <2>1. [wire |-> cwire, body |-> Question'] \in Request
    BY <1>3 DEF TypeOK, Request
  <2> QED
    BY <1>1, <1>2, <2>1, Single
<1>5. TypeOK'
  BY <1>1, <1>4 DEF TypeOK, Sent, Request
<1>6. FlightInv'
  BY <1>1, <1>2, <1>4 DEF FlightInv, UnderWay
<1>7. SettledInv'
  BY <1>1, <1>2 DEF SettledInv, Understood, Proper, Opened, Sent
<1>8. KeptInv'
  BY <1>1 DEF KeptInv
<1> QED
  BY <1>5, <1>6, <1>7, <1>8

\* A question is taken up between two calls.
LEMMA AskKeeps ==
    ASSUME SessionInv, NEW r \in Requests, Ask(r)
    PROVE  SessionInv'
<1> USE DEF SessionInv, Ask, inputs, toolVars
<1>1. TypeOK'
  BY NamesAssumption DEF TypeOK, Sent
<1>2. FlightInv'
  BY DEF FlightInv, Quiet, Sent
<1>3. SettledInv'
  BY DEF SettledInv, Understood, Proper, Opened, TypeOK
<1>4. KeptInv'
  BY DEF KeptInv
<1> QED
  BY <1>1, <1>2, <1>3, <1>4

\* A kept answer is the one that was told.
LEMMA RecallKeeps ==
    ASSUME SessionInv, Recall
    PROVE  SessionInv' /\ told' = told
<1> USE DEF SessionInv, Recall, inputs, toolVars
<1>1. want \in Requests
  BY DEF TypeOK
<1>2. told' = told
  BY <1>1 DEF KeptInv, TypeOK
<1>3. TypeOK'
  BY <1>2 DEF TypeOK, Sent
<1>4. FlightInv'
  BY DEF FlightInv, Quiet, Sent
<1>5. SettledInv'
  BY DEF SettledInv, Understood, Proper, Opened
<1>6. KeptInv'
  BY <1>2 DEF KeptInv
<1> QED
  BY <1>2, <1>3, <1>4, <1>5, <1>6

\* What an error leaves: no call, and only a question without a kept answer
\* has been told nothing.
LEMMA ErrorKeeps ==
    ASSUME SessionInv, Error, cpc \in Sent \union {"hello", "format", "call"},
           cpc = "call" => cache[want] = None,
           UNCHANGED <<asker, tool, cwire, since, cache, requests, hand, swire, typed, version>>,
           responses' = <<>>, requests = <<>> \/ (Len(requests) = 1 /\ ~alive),
           hand = None \/ ~alive, requests = <<>> \/ hand = None, hand # Bad
    PROVE  SessionInv'
<1> USE DEF SessionInv, Error
<1>1. want \in Requests => cache[want] = None
  BY NamesAssumption DEF TypeOK, KeptInv, Sent
<1>2. TypeOK'
  <2>1. told' \in [Requests -> Value \union {None, Nothing}]
    BY DEF TypeOK
  <2>2. responses' \in Seq(Response)
    BY EmptySeq
  <2>3. want' \in Requests \union {None} /\ (want' # None <=> cpc' \in {"call", "callSent"})
    BY DEF TypeOK, Sent
  <2> QED
    BY <2>1, <2>2, <2>3 DEF TypeOK, Sent, Response
<1>3. FlightInv'
  BY DEF FlightInv, Quiet, Sent, TypeOK
<1>4. SettledInv'
  BY DEF SettledInv, Understood, Proper, Opened, Sent, TypeOK
<1>5. KeptInv'
  BY <1>1 DEF KeptInv, TypeOK, Sent
<1> QED
  BY <1>2, <1>3, <1>4, <1>5

\* Writing to a tool that is gone.
LEMMA BrokenPipeKeeps ==
    ASSUME SessionInv, BrokenPipe
    PROVE  SessionInv'
<1> USE DEF SessionInv, BrokenPipe, inputs
<1>1. /\ responses = <<>> /\ (requests = <<>> \/ Len(requests) = 1)
      /\ hand # Bad /\ (requests = <<>> \/ hand = None)
  BY NamesAssumption DEF FlightInv, Quiet, Sent
<1>2. CASE Error
  BY <1>1, <1>2, ErrorKeeps DEF Sent
<1>3. CASE ~Error
  <2>1. /\ cpc' = "killed" /\ want' = None
        /\ UNCHANGED <<asker, tool, told, alive, cwire, since, cache, requests, responses, hand,
                       swire, typed, version>>
    BY <1>3
  <2>2. TypeOK'
    BY <2>1 DEF TypeOK
  <2>3. FlightInv'
    BY <2>1 DEF FlightInv, Quiet, Sent
  <2>4. SettledInv'
    BY <2>1 DEF SettledInv, Understood, Proper, Opened
  <2>5. KeptInv'
    BY <2>1 DEF KeptInv
  <2> QED
    BY <2>2, <2>3, <2>4, <2>5
<1> QED
  BY <1>2, <1>3

\* Reading from a tool that is gone.
LEMMA EndOfStreamKeeps ==
    ASSUME SessionInv, EndOfStream
    PROVE  SessionInv'
<1> USE DEF SessionInv, EndOfStream, inputs
<1>1. hand # Bad /\ (requests = <<>> \/ hand = None)
  BY NamesAssumption, QuestionType DEF FlightInv, UnderWay
<1>2. requests = <<>> \/ Len(requests) = 1
  BY DEF FlightInv, UnderWay
<1> QED
  BY <1>1, <1>2, ErrorKeeps DEF Sent

\* A response is read on the wire it was written on, and is one of the
\* question's own or the remains of one.
LEMMA ReadDecodes ==
    ASSUME SessionInv, Read
    PROVE  /\ Decoded(Head(responses)) = Head(responses).body
           /\ Head(responses).body \in Rightful \union (IF alive THEN {} ELSE Remains)
           /\ requests = <<>> /\ hand = None /\ responses' = <<>>
<1> USE DEF SessionInv
<1>1. PICK b \in Rightful \union (IF alive THEN {} ELSE Remains) :
        responses = <<[wire |-> cwire, body |-> b]>> /\ requests = <<>> /\ hand = None
  BY DEF Read, FlightInv, UnderWay
<1>2. Head(responses) = [wire |-> cwire, body |-> b] /\ Tail(responses) = <<>>
  BY <1>1, Single
<1> QED
  BY <1>1, <1>2 DEF Read, Decoded

\* What fails in the handshake or in a call has no rightful reply in it, or
\* is a failure of the tool's.
LEMMA ReadKeeps ==
    ASSUME SessionInv, Read
    PROVE  SessionInv'
<1> USE DEF SessionInv
<1> DEFINE b == Head(responses).body
<1>1. /\ b \in Rightful \union (IF alive THEN {} ELSE Remains)
      /\ requests = <<>> /\ hand = None /\ responses' = <<>> /\ responses # <<>>
      /\ \/ cpc = "helloSent" /\ Greeted(b)
         \/ cpc = "formatSent" /\ Switched(b)
         \/ cpc = "callSent" /\ Answered(b)
      /\ UNCHANGED <<asker, tool, since, requests, hand, swire, typed, version>>
  BY ReadDecodes DEF Read, inputs
<1> HIDE DEF b
<1>2. b \in ReplyBody \union {Bad}
  BY <1>1, QuestionType DEF Sent
<1>3. responses' \in Seq(Response)
  BY <1>1, EmptySeq
<1>4. CASE Error /\ UNCHANGED <<cwire, cache>>
  BY <1>1, <1>4, ErrorKeeps, NamesAssumption DEF Sent
<1>5. CASE cpc = "helloSent" /\ ~Fails(b, "hello") /\ b.serve /\ Greeted(b)
  <2>1. b = HelloReply
    BY <1>1, <1>5 DEF Rightful, Remains, Fails
  <2>2. /\ cpc' = (IF tool.daiv /\ asker.daiv THEN "format" ELSE "idle")
        /\ tool.serve /\ UNCHANGED <<cwire, want, cache, told, alive>>
    BY <1>5, <2>1 DEF Greeted, HelloReply
  <2>3. want = None
    BY <1>5 DEF TypeOK
  <2>4. typed = Understood /\ cwire = "json" /\ (alive => swire = cwire) /\ since <= version
    BY <1>1, <1>2, <1>5 DEF SettledInv, Fails, b
  <2>5. TypeOK'
    BY <1>1, <1>3, <2>2, <2>3 DEF TypeOK, Response
  <2>6. FlightInv'
    BY <1>1, <2>2, NamesAssumption DEF FlightInv, Quiet, Sent
  <2>7. SettledInv'
    BY <1>1, <2>2, <2>4, InputsType DEF SettledInv, Understood, Proper, Opened
  <2>8. KeptInv'
    BY <2>2 DEF KeptInv
  <2> QED
    BY <2>5, <2>6, <2>7, <2>8
<1>6. CASE cpc = "formatSent" /\ ~Fails(b, "ack") /\ Switched(b)
  <2>1. b = FormatReply /\ tool.grants # "error" /\ b.ok = (tool.grants = "ok")
    BY <1>1, <1>6 DEF Rightful, Remains, Fails, FormatReply, Failure
  <2>2. /\ cwire' = (IF tool.grants = "ok" THEN "daiv" ELSE cwire) /\ cpc' = "idle"
        /\ UNCHANGED <<want, cache, told, alive>>
    BY <1>6, <2>1 DEF Switched
  <2>3. want = None
    BY <1>6 DEF TypeOK
  <2>4. /\ typed = Understood /\ cwire = "json" /\ tool.serve /\ since <= version
        /\ alive => swire = IF tool.grants = "ok" THEN "daiv" ELSE cwire
    BY <1>1, <1>6 DEF SettledInv
  <2>5. TypeOK'
    BY <1>1, <1>3, <2>2, <2>3 DEF TypeOK, Response, Wires
  <2>6. FlightInv'
    BY <1>1, <2>2, NamesAssumption DEF FlightInv, Quiet, Sent
  <2>7. SettledInv'
    BY <1>1, <2>1, <2>2, <2>4 DEF SettledInv, Understood, Proper, Opened
  <2>8. KeptInv'
    BY <2>2 DEF KeptInv
  <2> QED
    BY <2>5, <2>6, <2>7, <2>8
<1>7. CASE cpc = "callSent" /\ ~Fails(b, "answer") /\ Answered(b)
  <2>1. want \in Requests
    BY <1>7 DEF TypeOK
  <2>2. b.value \in Value
    <3>1. b # Bad /\ b # Failure
      BY <1>7 DEF Fails, Failure
    <3>2. b \in Answers(TRUE) \/ b \in Answers(FALSE)
      BY <1>1, <1>7, <3>1 DEF Rightful, Remains
    <3> QED
      BY <2>1, <3>2, AnswersType
  <2>3. /\ cache' = [cache EXCEPT ![want] = b.value] /\ told' = [told EXCEPT ![want] = b.value]
        /\ cpc' = "idle" /\ want' = None /\ UNCHANGED <<cwire, alive>>
    BY <1>7 DEF Answered
  <2>4. cache' \in [Requests -> Value \union {None}] /\ told' \in [Requests -> Value \union {None, Nothing}]
    BY <2>1, <2>2, <2>3 DEF TypeOK
  <2>5. TypeOK'
    BY <1>1, <1>3, <2>3, <2>4 DEF TypeOK, Response
  <2>6. FlightInv'
    BY <1>1, <2>3, NamesAssumption DEF FlightInv, Quiet, Sent
  <2>7. SettledInv'
    BY <1>1, <1>7, <2>3 DEF SettledInv, Understood, Proper, Opened
  <2>8. KeptInv'
    BY <2>1, <2>2, <2>3, NamesAssumption DEF KeptInv, TypeOK
  <2> QED
    BY <2>5, <2>6, <2>7, <2>8
<1> QED
  BY <1>1, <1>4, <1>5, <1>6, <1>7 DEF Greeted, Switched, Answered

\* The adapter is dropped between two calls.
LEMMA CloseKeeps ==
    ASSUME SessionInv, Close
    PROVE  SessionInv'
<1> USE DEF SessionInv, Close, inputs
<1>1. TypeOK'
  BY DEF TypeOK
<1>2. FlightInv'
  BY DEF FlightInv, Quiet, Sent
<1>3. SettledInv'
  BY DEF SettledInv, Understood, Proper, Opened
<1>4. KeptInv'
  BY DEF KeptInv
<1> QED
  BY <1>1, <1>2, <1>3, <1>4

-----------------------------------------------------------------------------
(***************************************************************************)
(* The tool's steps keep the invariant.                                    *)
(***************************************************************************)

\* What is not under way between two calls is under way in one.
LEMMA Receiving ==
    ASSUME SessionInv, alive, requests # <<>> \/ hand # None
    PROVE  /\ cpc \in Sent /\ UnderWay /\ responses = <<>>
           /\ requests # <<>> => requests = <<[wire |-> cwire, body |-> Question]>> /\ hand = None
           /\ hand # None => requests = <<>> /\ hand = Question
BY QuestionType DEF SessionInv, FlightInv, Quiet, UnderWay

\* The request is read on the wire it was written on.
LEMMA ReceiveKeeps ==
    ASSUME SessionInv, Receive
    PROVE  SessionInv'
<1> USE DEF SessionInv, inputs, askerVars
<1>1. /\ cpc \in Sent /\ requests = <<[wire |-> cwire, body |-> Question]>> /\ responses = <<>>
      /\ alive /\ Question \in RequestBody
  BY Receiving, QuestionType DEF Receive
<1>2. cwire = swire
  BY <1>1 DEF SettledInv
<1>3. Head(requests) = [wire |-> cwire, body |-> Question] /\ Tail(requests) = <<>>
  BY <1>1, Single
<1>4. requests' = <<>> /\ hand' = Question
      /\ UNCHANGED <<asker, tool, cpc, cwire, want, since, cache, told, responses, alive, swire,
                     typed, version>>
  BY <1>2, <1>3 DEF Receive
<1>5. requests' \in Seq(Request)
  BY <1>4, EmptySeq
<1>6. TypeOK'
  BY <1>1, <1>4, <1>5 DEF TypeOK, Request, Sent
<1>7. FlightInv'
  BY <1>1, <1>4 DEF FlightInv, UnderWay, Question
<1>8. SettledInv'
  BY <1>4 DEF SettledInv, Understood, Proper, Opened
<1>9. KeptInv'
  BY <1>4 DEF KeptInv
<1> QED
  BY <1>6, <1>7, <1>8, <1>9

\* A reply, or the remains of one, is written on the asking side's wire.
LEMMA ReplyKeeps ==
    ASSUME SessionInv, alive, hand # None, alive' \in BOOLEAN,
           NEW b \in Rightful \union (IF alive' THEN {} ELSE Remains), Reply(b),
           hand' = None,
           UNCHANGED <<asker, tool, cpc, cwire, want, since, cache, told, requests, version>>
    PROVE  /\ cpc \in Sent /\ responses' = <<[wire |-> cwire, body |-> b]>>
           /\ responses' \in Seq(Response) /\ FlightInv' /\ KeptInv'
<1> USE DEF SessionInv
<1>1. cpc \in Sent /\ responses = <<>> /\ requests = <<>>
  BY Receiving
<1>2. cwire = swire
  BY <1>1 DEF SettledInv
<1>3. [wire |-> cwire, body |-> b] \in Response
  BY <1>1, QuestionType DEF Response, TypeOK
<1>4. responses' = <<[wire |-> cwire, body |-> b]>> /\ responses' \in Seq(Response)
  BY <1>1, <1>2, <1>3, Single DEF Reply
<1>5. b \in Rightful' \union (IF alive' THEN {} ELSE Remains')
  BY DEF Rightful, Remains, HelloReply, FormatReply, Answers, Understood
<1>6. FlightInv'
  BY <1>1, <1>4, <1>5 DEF FlightInv, UnderWay
<1> QED
  BY <1>1, <1>4, <1>6 DEF KeptInv

\* The reply to hello settles the values.
LEMMA AnswerHelloKeeps ==
    ASSUME SessionInv, AnswerHello
    PROVE  SessionInv'
<1> USE DEF SessionInv, inputs, askerVars
<1>1. alive /\ hand # None /\ hand # Bad /\ hand.op = "hello"
  BY DEF AnswerHello, Asked
<1>2. cpc \in Sent /\ hand = Question
  BY <1>1, Receiving
<1>3. cpc = "helloSent" /\ hand.typed = asker.typed
  BY <1>1, <1>2 DEF Question, Sent
<1>4. /\ Reply(HelloReply) /\ hand' = None /\ typed' = Understood /\ alive'
      /\ UNCHANGED <<asker, tool, cpc, cwire, want, since, cache, told, requests, swire, version>>
  BY <1>1, <1>3 DEF AnswerHello, HelloReply, Understood
<1>5. HelloReply \in Rightful
  BY <1>3 DEF Rightful
<1>6. responses' \in Seq(Response) /\ FlightInv' /\ KeptInv'
  BY <1>1, <1>4, <1>5, ReplyKeeps
<1>7. TypeOK'
  BY <1>1, <1>4, <1>6, InputsType DEF TypeOK, Response
<1>8. SettledInv'
  BY <1>1, <1>3, <1>4 DEF SettledInv, Understood, Proper, Opened
<1> QED
  BY <1>6, <1>7, <1>8

\* The switch is acknowledged on the old wire.
LEMMA AnswerFormatKeeps ==
    ASSUME SessionInv, AnswerFormat
    PROVE  SessionInv'
<1> USE DEF SessionInv, inputs, askerVars
<1>1. alive /\ hand # None /\ hand # Bad /\ hand.op = "format"
  BY DEF AnswerFormat, Asked
<1>2. cpc \in Sent /\ hand = Question /\ responses = <<>>
  BY <1>1, Receiving
<1>3. cpc = "formatSent"
  BY <1>1, <1>2 DEF Question, Sent
<1>4. /\ Reply(FormatReply) /\ hand' = None /\ alive'
      /\ swire' = IF tool.grants = "ok" THEN "daiv" ELSE swire
      /\ UNCHANGED <<asker, tool, cpc, cwire, want, since, cache, told, requests, typed, version>>
  BY <1>1 DEF AnswerFormat, FormatReply
<1>5. FormatReply \in Rightful
  BY <1>3 DEF Rightful
<1>6. /\ responses' \in Seq(Response) /\ FlightInv' /\ KeptInv'
      /\ responses' = <<[wire |-> cwire, body |-> FormatReply]>>
  BY <1>1, <1>4, <1>5, ReplyKeeps
<1>7. TypeOK'
  BY <1>1, <1>4, <1>6 DEF TypeOK, Response, Wires
<1>8. SettledInv'
  BY <1>1, <1>2, <1>3, <1>4, <1>6 DEF SettledInv, Understood, Proper, Opened
<1> QED
  BY <1>6, <1>7, <1>8

\* In a call the tool's rendering is the agreed one, and the version is one of
\* the call's.
LEMMA AnswersNow ==
    ASSUME SessionInv, cpc = "callSent", NEW whole \in BOOLEAN
    PROVE  Answer(want, whole) \in Answers(whole)
<1>1. typed = Understood /\ version \in since..version
  BY DEF SessionInv, SettledInv, Opened, TypeOK
<1> QED
  BY <1>1 DEF Answer, Answers

\* A question is answered with its own answer.
LEMMA AnswerAskKeeps ==
    ASSUME SessionInv, AnswerAsk
    PROVE  SessionInv'
<1> USE DEF SessionInv, inputs, askerVars
<1>1. alive /\ hand # None
  BY NamesAssumption DEF AnswerAsk, Asked
<1>2. cpc \in Sent /\ hand = Question /\ responses = <<>> /\ hand # Bad
  BY <1>1, Receiving, QuestionType
<1>3. cpc = "callSent" /\ hand.of = want
  BY <1>2 DEF Question, Sent, AnswerAsk, Asked
<1>4. PICK b \in Rightful : Reply(b)
  BY <1>2, <1>3, AnswersNow DEF AnswerAsk, Rightful
<1>5. /\ hand' = None /\ alive'
      /\ UNCHANGED <<asker, tool, cpc, cwire, want, since, cache, told, requests, swire, typed, version>>
  BY <1>1 DEF AnswerAsk
<1>6. responses' \in Seq(Response) /\ FlightInv' /\ KeptInv'
  BY <1>1, <1>4, <1>5, ReplyKeeps
<1>7. TypeOK'
  BY <1>1, <1>5, <1>6 DEF TypeOK, Response
<1>8. SettledInv'
  BY <1>1, <1>3, <1>5 DEF SettledInv, Understood, Proper, Opened
<1> QED
  BY <1>6, <1>7, <1>8

\* Half a response reads as nothing, or as less than the answer.
LEMMA TearKeeps ==
    ASSUME SessionInv, Tear
    PROVE  SessionInv'
<1> USE DEF SessionInv, inputs, askerVars
<1>1. alive /\ hand # None /\ hand # Bad
  BY DEF Tear
<1>2. cpc \in Sent /\ hand = Question
  BY <1>1, Receiving
<1>3. hand.op = "ask" => cpc = "callSent" /\ hand.of = want
  BY <1>2 DEF Question, Sent
<1>4. cwire = swire \/ cpc = "formatSent"
  BY <1>1 DEF SettledInv
<1>5. PICK b \in IF hand.op = "ask" THEN Torn(hand.of) ELSE {Bad} : Reply(b)
  BY DEF Tear, Reply
<1>6. b \in Remains
  BY <1>3, <1>4, <1>5, AnswersNow DEF Torn, Remains, TypeOK, Wires
<1>7. /\ hand' = None /\ alive' = FALSE
      /\ UNCHANGED <<asker, tool, cpc, cwire, want, since, cache, told, requests, swire, typed, version>>
  BY DEF Tear
<1>8. /\ responses' \in Seq(Response) /\ FlightInv' /\ KeptInv'
      /\ responses' = <<[wire |-> cwire, body |-> b]>>
  BY <1>1, <1>5, <1>6, <1>7, ReplyKeeps
<1>9. TypeOK'
  BY <1>7, <1>8 DEF TypeOK, Response
<1>10. cpc = "helloSent" => Head(responses').body = Bad
  <2>1. cpc = "helloSent" => b = Bad
    BY <1>6 DEF Remains
  <2>2. Head(responses') = [wire |-> cwire, body |-> b]
    BY <1>8, Single
  <2> QED
    BY <2>1, <2>2
<1>11. SettledInv'
  BY <1>7, <1>10 DEF SettledInv, Understood, Proper, Opened
<1> QED
  BY <1>8, <1>9, <1>11

\* The tool ends between two messages.
LEMMA CrashKeeps ==
    ASSUME SessionInv, Crash
    PROVE  SessionInv'
<1> USE DEF SessionInv, Crash, inputs, askerVars
<1>1. TypeOK'
  BY DEF TypeOK
<1>2. FlightInv'
  BY DEF FlightInv, Quiet, UnderWay, Question, Rightful, HelloReply, FormatReply, Answers, Understood
<1>3. SettledInv'
  BY DEF SettledInv, Understood, Proper, Opened
<1>4. KeptInv'
  BY DEF KeptInv
<1> QED
  BY <1>1, <1>2, <1>3, <1>4

\* New versions leave room for older answers.
LEMMA EditKeeps ==
    ASSUME SessionInv, Edit
    PROVE  SessionInv'
<1> USE DEF SessionInv, Edit, inputs, askerVars, toolVars
<1>1. TypeOK'
  BY DEF TypeOK
<1>2. \A whole \in BOOLEAN : Answers(whole) \subseteq Answers(whole)'
  BY DEF Answers, TypeOK, Understood
<1>3. Rightful \subseteq Rightful'
  BY <1>2 DEF Rightful, HelloReply, FormatReply
<1>4. FlightInv'
  BY <1>3 DEF FlightInv, Quiet, UnderWay, Question
<1>5. SettledInv'
  BY DEF SettledInv, Understood, Proper, Opened, TypeOK
<1>6. KeptInv'
  BY DEF KeptInv
<1> QED
  BY <1>1, <1>4, <1>5, <1>6

-----------------------------------------------------------------------------
\* No session has begun.
LEMMA SessionInit == Init => SessionInv
<1> SUFFICES ASSUME Init PROVE SessionInv
  OBVIOUS
<1> USE DEF Init
<1>1. TypeOK
  BY EmptySeq DEF TypeOK, Wires, Sent
<1>2. FlightInv
  BY NamesAssumption DEF FlightInv, Quiet, Sent
<1>3. SettledInv
  BY DEF SettledInv, Opened
<1>4. KeptInv
  BY DEF KeptInv
<1> QED
  BY <1>1, <1>2, <1>3, <1>4 DEF SessionInv

\* A step without an action changes nothing.
LEMMA StutterKeeps ==
    ASSUME SessionInv, UNCHANGED vars
    PROVE  SessionInv'
BY DEF vars, SessionInv, TypeOK, FlightInv, UnderWay, Quiet, Question, Rightful, HelloReply,
       FormatReply, Answers, Remains, SettledInv, KeptInv, Understood, Proper, Opened

\* Every step keeps the invariant.
LEMMA SessionNext == SessionInv /\ [Next]_vars => SessionInv'
<1> SUFFICES ASSUME SessionInv, [Next]_vars PROVE SessionInv'
  OBVIOUS
<1>1. CASE Asking
  BY <1>1, SayKeeps, RecallKeeps, BrokenPipeKeeps, EndOfStreamKeeps, ReadKeeps DEF Asking
<1>2. CASE Serving
  BY <1>2, ReceiveKeeps, AnswerHelloKeeps, AnswerFormatKeeps, AnswerAskKeeps DEF Serving
<1>3. CASE Tear \/ Crash \/ Edit \/ Close
  BY <1>3, TearKeeps, CrashKeeps, EditKeeps, CloseKeeps
<1>4. CASE \E r \in Requests : Ask(r)
  BY <1>4, AskKeeps
<1>5. CASE Terminated \/ UNCHANGED vars
  BY <1>5, StutterKeeps DEF Terminated
<1> QED
  BY <1>1, <1>2, <1>3, <1>4, <1>5 DEF Next

\* What is under way is the question in hand, or a response of its own: the
\* invariant of the session.
THEOREM SessionCorrect == Spec => []SessionInv
<1>1. Init => SessionInv
  BY SessionInit
<1>2. SessionInv /\ [Next]_vars => SessionInv'
  BY SessionNext
<1> QED
  BY <1>1, <1>2, PTL DEF Spec

\* The state has its types, and a question is in hand exactly during a call,
\* for any questions, tools and askers.
THEOREM TypeCorrect == Spec => []TypeOK
<1>1. SessionInv => TypeOK
  BY DEF SessionInv
<1> QED
  BY <1>1, SessionCorrect, PTL

\* The responses, which do not name their request, are never out of step with
\* the calls.
THEOREM StepCorrect == Spec => []InStep
<1>1. SessionInv => InStep
  <2> SUFFICES ASSUME SessionInv PROVE InStep
    OBVIOUS
  <2>1. CASE cpc \in Sent
    <3>1. UnderWay
      BY <2>1 DEF SessionInv, FlightInv
    <3>2. Len(requests) + Len(responses) + (IF hand = None THEN 0 ELSE 1) = 1
      <4>1. Question # None
        BY <2>1, QuestionType DEF SessionInv
      <4>2. CASE requests # <<>>
        <5>1. PICK m : requests = <<m>>
          BY <3>1, <4>2 DEF UnderWay
        <5> QED
          BY <3>1, <4>2, <5>1 DEF UnderWay
      <4>3. CASE hand # None
        BY <3>1, <4>3 DEF UnderWay
      <4>4. CASE responses # <<>>
        <5>1. PICK b : responses = <<[wire |-> cwire, body |-> b]>>
          BY <3>1, <4>4 DEF UnderWay
        <5> QED
          BY <3>1, <4>4, <5>1 DEF UnderWay
      <4> QED
        BY <3>1, <4>1, <4>2, <4>3, <4>4 DEF UnderWay
    <3> QED
      BY <2>1, <3>2 DEF InStep
  <2>2. CASE cpc \notin Sent
    BY <2>2 DEF SessionInv, FlightInv, Quiet, InStep
  <2> QED
    BY <2>1, <2>2
<1> QED
  BY <1>1, SessionCorrect, PTL

\* Every message is read on the wire it was written on, also around the switch.
THEOREM WiresCorrect == Spec => []WiresAgree
<1>1. SessionInv => WiresAgree
  <2> SUFFICES ASSUME SessionInv PROVE WiresAgree
    OBVIOUS
  <2>1. hand # Bad
    BY NamesAssumption, QuestionType DEF SessionInv, FlightInv, Quiet, UnderWay
  <2>2. \A i \in DOMAIN responses : responses[i].wire = cwire
    BY DEF SessionInv, FlightInv, Quiet, UnderWay
  <2>3. \A i \in DOMAIN requests : alive => requests[i].wire = swire
    BY Receiving DEF SessionInv, SettledInv
  <2>4. alive /\ cpc \in {"idle", "call"} => cwire = swire
    BY DEF SessionInv, SettledInv
  <2> QED
    BY <2>1, <2>2, <2>3, <2>4 DEF WiresAgree
<1> QED
  BY <1>1, SessionCorrect, PTL

-----------------------------------------------------------------------------
(***************************************************************************)
(* The session keeps the promise of a served source.                       *)
(***************************************************************************)

Pending == IF want = None THEN None ELSE [req |-> want, since |-> since]

\* The promise's variables, as the session's.
LEMMA Mapping ==
    Promise!vars = <<Phase, Proper, tool.knows, Understood, version, Pending, told, ~alive>>
BY DEF Promise!vars, Pending

\* A session begins as a promise does.
LEMMA PromiseInit == Init => Promise!Init
<1> SUFFICES ASSUME Init PROVE Promise!Init
  OBVIOUS
<1>1. TypeOK
  BY SessionInit DEF SessionInv
<1> QED
  BY <1>1, InputsType DEF Init, Promise!Init, Phase, Proper, Pending

\* A question in hand is pending, and only a kept answer makes it a repeat.
LEMMA PendingIs ==
    ASSUME SessionInv, cpc \in {"call", "callSent"}
    PROVE  /\ want \in Requests /\ Pending # None
           /\ Pending = [req |-> want, since |-> since]
           /\ Promise!Answer = Value
           /\ cache[want] = None => told[want] \notin Promise!Answer
           /\ cache[want] # None => told[want] \in Promise!Answer
           /\ Phase = "open"
<1>1. want \in Requests
  BY DEF SessionInv, TypeOK
<1>2. Promise!Answer = Value
  BY DEF Promise!Answer, Value
<1>3. [req |-> want, since |-> since] \in Call
  BY <1>1 DEF SessionInv, TypeOK, Call
<1>4. Pending = [req |-> want, since |-> since] /\ Pending # None
  BY <1>1, <1>3, NamesAssumption DEF Pending
<1>5. IF cache[want] = None THEN told[want] \in {None, Nothing} ELSE told[want] = cache[want]
  BY <1>1 DEF SessionInv, KeptInv
<1>6. cache[want] \in Value \union {None}
  BY <1>1 DEF SessionInv, TypeOK
<1> QED
  BY <1>1, <1>2, <1>4, <1>5, <1>6, NamesAssumption DEF Phase, Opened

\* Nothing the promise speaks of has changed.
LEMMA Stutters ==
    ASSUME Phase' = Phase, UNCHANGED <<asker, tool, want, since, version, told, alive>>
    PROVE  UNCHANGED Promise!vars
BY Mapping DEF Promise!vars, Pending, Proper, Understood

\* An error is for cause: a refusal of the handshake, or a failure of a call.
LEMMA ErrorPromised ==
    ASSUME SessionInv, Error, cpc \in Sent \union {"hello", "format", "call"},
           UNCHANGED <<asker, tool, since, version>>,
           cpc \in {"call", "callSent"} => (/\ cache[want] = None
                                            /\ ~alive \/ want \notin tool.knows),
           cpc \notin {"call", "callSent"} => ~alive \/ ~Proper
    PROVE  Promise!Refuse \/ Promise!Fail
<1>1. CASE cpc \in {"call", "callSent"}
  <2>1. told' = [told EXCEPT ![want] = Nothing] /\ cpc' = "idle" /\ want' = None /\ alive' = alive
    BY <1>1 DEF Error
  <2>2. /\ Pending' = None /\ Phase' = "open"
        /\ UNCHANGED <<Proper, tool.knows, Understood, version, ~alive>>
    BY <2>1 DEF Pending, Phase, Opened, Proper, Understood
  <2>3. Pending.req = want
    BY <1>1, PendingIs
  <2> QED
    BY <1>1, <2>1, <2>2, <2>3, PendingIs DEF Promise!Fail, Pending
<1>2. CASE cpc \notin {"call", "callSent"}
  <2>1. cpc' = "refused" /\ alive' = FALSE /\ UNCHANGED <<want, told>>
    BY <1>2 DEF Error
  <2>2. /\ Phase = "opening" /\ Phase' = "refused" /\ Pending' = Pending
        /\ UNCHANGED <<Proper, tool.knows, Understood, version>>
    BY <1>2, <2>1 DEF Pending, Phase, Opened, Proper, Understood, Sent
  <2> QED
    BY <1>2, <2>1, <2>2 DEF Promise!Refuse, Pending
<1> QED
  BY <1>1, <1>2

\* Asking is the promise's.
LEMMA AskPromised ==
    ASSUME SessionInv, NEW r \in Requests, Ask(r)
    PROVE  Promise!Ask(r)
<1>1. want = None /\ r # None
  BY NamesAssumption DEF SessionInv, TypeOK, Ask, Sent
<1>2. /\ Phase = "open" /\ Pending = None
      /\ Phase' = "open" /\ Pending' = [req |-> r, since |-> version]
      /\ UNCHANGED <<Proper, tool.knows, Understood, version, told, ~alive>>
  BY <1>1 DEF Ask, inputs, toolVars, Phase, Opened, Pending, Proper, Understood
<1> QED
  BY <1>2 DEF Promise!Ask, Pending

\* A kept answer is told again.
LEMMA RecallPromised ==
    ASSUME SessionInv, Recall
    PROVE  Promise!Repeat
<1>1. told' = told
  BY RecallKeeps
<1>2. /\ Phase' = "open" /\ Pending' = None
      /\ UNCHANGED <<Proper, tool.knows, Understood, version, ~alive>>
  BY DEF Recall, inputs, toolVars, Phase, Opened, Pending, Proper, Understood
<1> QED
  BY <1>1, <1>2, PendingIs DEF Recall, Promise!Repeat, Pending

\* A broken pipe and the end of the stream are losses of the source.
LEMMA LossPromised ==
    ASSUME SessionInv, BrokenPipe \/ EndOfStream
    PROVE  Promise!Refuse \/ Promise!Fail \/ Promise!Killed
<1>1. CASE Error
  <2>1. cpc \in Sent \union {"hello", "format", "call"} /\ ~alive
        /\ UNCHANGED <<asker, tool, since, version>>
    BY DEF BrokenPipe, EndOfStream, Sent, inputs
  <2>2. cpc \in {"call", "callSent"} => cache[want] = None
    BY DEF BrokenPipe, EndOfStream, Sent, SessionInv, KeptInv
  <2> QED
    BY <1>1, <2>1, <2>2, ErrorPromised
<1>2. CASE ~Error
  <2>1. /\ ~alive /\ cpc \in {"hello", "format", "call"} /\ cpc' = "killed" /\ want' = None
        /\ UNCHANGED <<asker, tool, told, alive, version>>
    BY <1>2 DEF BrokenPipe, EndOfStream, inputs
  <2>2. /\ Phase \in {"opening", "open"} /\ Phase' = "killed" /\ Pending' = None
        /\ UNCHANGED <<Proper, tool.knows, Understood, version, told, ~alive>>
    BY <2>1 DEF Phase, Opened, Pending, Proper, Understood
  <2> QED
    BY <2>1, <2>2 DEF Promise!Killed, Pending
<1> QED
  BY <1>1, <1>2

\* A response that is read opens the session, refuses it, or answers the call.
LEMMA ReadPromised ==
    ASSUME SessionInv, Read
    PROVE  [Promise!Next]_(Promise!vars)
<1> DEFINE b == Head(responses).body
<1>1. /\ b \in Rightful \union (IF alive THEN {} ELSE Remains)
      /\ \/ cpc = "helloSent" /\ Greeted(b)
         \/ cpc = "formatSent" /\ Switched(b)
         \/ cpc = "callSent" /\ Answered(b)
      /\ UNCHANGED <<asker, tool, since, version>>
  BY ReadDecodes DEF Read, inputs
<1> HIDE DEF b
<1>2. CASE cpc = "helloSent" /\ Greeted(b)
  <2>1. b \in {HelloReply, Bad} /\ (alive => b = HelloReply)
    BY <1>1, <1>2 DEF Rightful, Remains
  <2>2. CASE Fails(b, "hello") \/ ~b.serve
    <3>1. Error
      BY <1>2, <2>2 DEF Greeted
    <3>2. ~alive \/ ~Proper
      BY <2>1, <2>2, NamesAssumption, QuestionType, <1>2 DEF HelloReply, Fails, Proper, Rightful, Sent, SessionInv
    <3>3. Promise!Refuse \/ Promise!Fail
      BY <1>1, <1>2, <3>1, <3>2, ErrorPromised DEF Sent
    <3> QED
      BY <3>3 DEF Promise!Next
  <2>3. CASE ~Fails(b, "hello") /\ b.serve
    <3>1. tool.serve /\ cpc' = (IF tool.daiv /\ asker.daiv THEN "format" ELSE "idle")
          /\ UNCHANGED <<want, told, alive>>
      BY <1>2, <2>1, <2>3 DEF Greeted, HelloReply, Fails
    <3>2. Phase = "opening" /\ UNCHANGED <<Pending, Proper, tool.knows, Understood, version>>
      BY <1>1, <1>2, <3>1 DEF Phase, Pending, Proper, Understood
    <3>3. CASE tool.daiv /\ asker.daiv
      BY <1>1, <3>1, <3>2, <3>3, Stutters DEF Phase
    <3>4. CASE ~(tool.daiv /\ asker.daiv)
      <4>1. Phase' = "open" /\ Proper
        BY <3>1, <3>4 DEF Phase, Opened, Proper
      <4>2. Promise!Open
        BY <3>1, <3>2, <4>1 DEF Promise!Open, Pending
      <4> QED
        BY <4>2 DEF Promise!Next
    <3> QED
      BY <3>3, <3>4
  <2> QED
    BY <2>2, <2>3
<1>3. CASE cpc = "formatSent" /\ Switched(b)
  <2>1. b \in {FormatReply, Bad} /\ (alive => b = FormatReply)
    BY <1>1, <1>3 DEF Rightful, Remains
  <2>2. tool.serve /\ tool.daiv /\ asker.daiv
    BY <1>3 DEF SessionInv, SettledInv
  <2>3. CASE Fails(b, "ack")
    <3>1. Error
      BY <1>3, <2>3 DEF Switched
    <3>2. FormatReply # Bad
      BY <1>3, QuestionType, NamesAssumption DEF Rightful, Sent, SessionInv
    <3>3. ~alive \/ ~Proper
      BY <2>1, <2>2, <2>3, <3>2 DEF FormatReply, Fails, Proper
    <3>4. Promise!Refuse \/ Promise!Fail
      BY <1>1, <1>3, <3>1, <3>3, ErrorPromised DEF Sent
    <3> QED
      BY <3>4 DEF Promise!Next
  <2>4. CASE ~Fails(b, "ack")
    <3>1. cpc' = "idle" /\ UNCHANGED <<want, told, alive>>
      BY <1>3, <2>4 DEF Switched
    <3>2. Proper
      BY <2>1, <2>2, <2>4 DEF FormatReply, Fails, Failure, Proper
    <3>3. /\ Phase = "opening" /\ Phase' = "open"
          /\ UNCHANGED <<Pending, Proper, tool.knows, Understood, version>>
      BY <1>1, <1>3, <3>1 DEF Phase, Opened, Pending, Proper, Understood
    <3>4. Promise!Open
      BY <3>1, <3>2, <3>3 DEF Promise!Open, Pending
    <3> QED
      BY <3>4 DEF Promise!Next
  <2> QED
    BY <2>3, <2>4
<1>4. CASE cpc = "callSent" /\ Answered(b)
  <2>1. cache[want] = None
    BY <1>4 DEF SessionInv, KeptInv
  <2>2. CASE Fails(b, "answer")
    <3>1. Error
      BY <1>4, <2>2 DEF Answered
    <3>2. ~alive \/ want \notin tool.knows
      BY <1>1, <1>4, <2>2, AnswersType, PendingIs DEF Rightful, Fails, SessionInv
    <3>3. Promise!Refuse \/ Promise!Fail
      BY <1>1, <1>4, <2>1, <3>1, <3>2, ErrorPromised DEF Sent
    <3> QED
      BY <3>3 DEF Promise!Next
  <2>3. CASE ~Fails(b, "answer")
    <3>1. /\ told' = [told EXCEPT ![want] = b.value] /\ cpc' = "idle" /\ want' = None
          /\ alive' = alive
      BY <1>4, <2>3 DEF Answered
    <3>2. b # Bad /\ b # Failure
      BY <2>3 DEF Fails, Failure
    <3>3. PICK v \in since..version, whole \in BOOLEAN :
            /\ b.value = [of |-> want, at |-> v, typed |-> Understood, whole |-> whole]
            /\ whole => want \in tool.knows
            /\ ~whole => ~alive
      <4>1. \/ b \in Answers(TRUE) /\ want \in tool.knows
            \/ b \in Answers(FALSE) /\ ~alive
        BY <1>1, <1>4, <3>2 DEF Rightful, Remains
      <4>2. CASE b \in Answers(TRUE) /\ want \in tool.knows
        <5>1. PICK v \in since..version :
                b = [op |-> "answer", value |-> [of |-> want, at |-> v, typed |-> Understood,
                                                 whole |-> TRUE]]
          BY <4>2 DEF Answers
        <5>2. b.value = [of |-> want, at |-> v, typed |-> Understood, whole |-> TRUE]
          BY <5>1
        <5> QED
          BY <4>2, <5>2
      <4>3. CASE b \in Answers(FALSE) /\ ~alive
        <5>1. PICK v \in since..version :
                b = [op |-> "answer", value |-> [of |-> want, at |-> v, typed |-> Understood,
                                                 whole |-> FALSE]]
          BY <4>3 DEF Answers
        <5>2. b.value = [of |-> want, at |-> v, typed |-> Understood, whole |-> FALSE]
          BY <5>1
        <5> QED
          BY <4>3, <5>2
      <4> QED
        BY <4>1, <4>2, <4>3
    <3>4. /\ Pending' = None /\ Phase' = "open" /\ Phase = "open"
          /\ UNCHANGED <<Proper, tool.knows, Understood, version, ~alive>>
      BY <1>1, <1>4, <3>1 DEF Pending, Phase, Opened, Proper, Understood
    <3>5. /\ Pending # None /\ Pending.req = want /\ Pending.since = since
          /\ told[Pending.req] \notin Promise!Answer
      BY <1>4, <2>1, PendingIs
    <3>6. Promise!Tell
      BY <3>1, <3>3, <3>4, <3>5 DEF Promise!Tell, Pending
    <3> QED
      BY <3>6 DEF Promise!Next
  <2> QED
    BY <2>2, <2>3
<1> QED
  BY <1>1, <1>2, <1>3, <1>4

\* The tool answers, dies and changes its data within the promise.
LEMMA ServingPromised ==
    ASSUME SessionInv, Serving \/ Tear \/ Crash \/ Edit \/ Close
    PROVE  [Promise!Next]_(Promise!vars)
<1>1. CASE Serving
  <2>1. UNCHANGED <<asker, tool, cpc, want, since, version, told, alive>>
    BY <1>1 DEF Serving, Receive, AnswerHello, AnswerFormat, AnswerAsk, inputs, askerVars
  <2> QED
    BY <2>1, Stutters DEF Phase
<1>2. CASE Tear \/ Crash
  <2>1. alive' = FALSE /\ UNCHANGED <<asker, tool, cpc, want, since, version, told>>
    BY <1>2 DEF Tear, Crash, inputs, askerVars
  <2>2. UNCHANGED <<Phase, Proper, tool.knows, Understood, version, Pending, told>>
    BY <2>1 DEF Phase, Proper, Understood, Pending
  <2>3. Promise!Lose
    BY <2>1, <2>2 DEF Promise!Lose, Pending
  <2> QED
    BY <2>3 DEF Promise!Next
<1>3. CASE Edit
  <2>1. version' = version + 1 /\ UNCHANGED <<asker, tool, cpc, want, since, told, alive>>
    BY <1>3 DEF Edit, inputs, askerVars, toolVars
  <2>2. UNCHANGED <<Phase, Proper, tool.knows, Understood, Pending, told, ~alive>>
    BY <2>1 DEF Phase, Proper, Understood, Pending
  <2>3. Promise!Edit
    BY <2>1, <2>2 DEF Promise!Edit, Pending
  <2> QED
    BY <2>3 DEF Promise!Next
<1>4. CASE Close
  <2>1. /\ cpc = "idle" /\ cpc' = "closed" /\ alive' = FALSE
        /\ UNCHANGED <<asker, tool, want, since, version, told>>
    BY <1>4 DEF Close, inputs
  <2>2. want = None
    BY <2>1 DEF SessionInv, TypeOK
  <2>3. /\ Phase = "open" /\ Phase' = "closed" /\ Pending = None
        /\ UNCHANGED <<Proper, tool.knows, Understood, version, Pending, told>>
    BY <2>1, <2>2 DEF Phase, Opened, Proper, Understood, Pending
  <2>4. Promise!Close
    BY <2>1, <2>3 DEF Promise!Close, Pending
  <2> QED
    BY <2>4 DEF Promise!Next
<1> QED
  BY <1>1, <1>2, <1>3, <1>4

\* Every step is a step of the promise, or none.
LEMMA PromiseNext == SessionInv /\ [Next]_vars => [Promise!Next]_(Promise!vars)
<1> SUFFICES ASSUME SessionInv, [Next]_vars PROVE [Promise!Next]_(Promise!vars)
  OBVIOUS
<1>1. CASE SayHello \/ SayFormat \/ SayCall
  <2>1. UNCHANGED <<asker, tool, want, since, version, told, alive>> /\ Phase' = Phase
    BY <1>1 DEF SayHello, SayFormat, SayCall, Write, inputs, toolVars, Phase, Opened
  <2> QED
    BY <2>1, Stutters
<1>2. CASE Recall
  BY <1>2, RecallPromised DEF Promise!Next
<1>3. CASE BrokenPipe \/ EndOfStream
  BY <1>3, LossPromised DEF Promise!Next
<1>4. CASE Read
  BY <1>4, ReadPromised
<1>5. CASE \E r \in Requests : Ask(r)
  BY <1>5, AskPromised DEF Promise!Next
<1>6. CASE Serving \/ Tear \/ Crash \/ Edit \/ Close
  BY <1>6, ServingPromised
<1>7. CASE Terminated \/ UNCHANGED vars
  <2>1. UNCHANGED <<asker, tool, cpc, want, since, version, told, alive>>
    BY <1>7 DEF Terminated, vars
  <2> QED
    BY <2>1, Stutters DEF Phase
<1> QED
  BY <1>1, <1>2, <1>3, <1>4, <1>5, <1>6, <1>7 DEF Next, Asking

\* The session implements the promise: for any questions, tools and askers, an
\* answer is the source's own, of a version it had during the call, and stands.
THEOREM PromiseKept == Spec => KeepsPromise
<1>1. Init => Promise!Init
  BY PromiseInit
<1>2. SessionInv /\ [Next]_vars => [Promise!Next]_(Promise!vars)
  BY PromiseNext
<1> QED
  BY <1>1, <1>2, SessionCorrect, PTL DEF Spec, KeepsPromise, Promise!Spec
=============================================================================
