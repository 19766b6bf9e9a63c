--------------------- MODULE FlashcardGenerationProofs ----------------------
(***************************************************************************)
(* Proof, for every number of cards, workers and attempts, that one        *)
(* generation asks the model at most 2 * (NCards + 1) times, accounts for  *)
(* each of those requests once, and completes only with every card valid   *)
(* and scanned; and that the client and the tracker are told what became    *)
(* of it.                                                                  *)
(*                                                                         *)
(* RequestsBounded is not inductive: what bounds the requests of an answer *)
(* is that its cards are repaired from the first to the last, each at most *)
(* once.  Requested says how many requests the steps so far can have made: *)
(* those of the first answer if this is the second, the request of the set *)
(* itself, and one for each card in front of which nothing is left to      *)
(* repair.  What the tracker may show is the stages that are open at each   *)
(* await (StagesFollow), what the client may read the lines that have to be *)
(* there by then (StreamFollows).                                          *)
(***************************************************************************)
EXTENDS FlashcardGeneration, FiniteSetTheorems, TLAPS

Before == {"validateRequest", "analyse", "select", "reselect"}
Behind == {"refine", "images", "assemble", "render"}

\* No request is made before there is a template, and an inner request only
\* inside the validation of an outer one.
Nesting ==
    /\ pc \in Before => requests = 0 /\ attempt = 1
    /\ repairing # 0 => pc \in {"prompt", "call", "validate", "record", "catch"}

\* Requests of the answers before the current one.
Earlier == IF attempt = 1 THEN 0 ELSE NCards + 1

\* The cards up to k need no further repair.
RepairedUpTo(k) == \A c \in 1..k : cards[c] # "invalid"

Requested ==
    /\ requests <= 2 * (NCards + 1)
    /\ pc = "prompt" /\ repairing = 0 => requests <= Earlier
    /\ pc = "call" /\ repairing = 0 => requests <= Earlier + 1
    /\ pc = "validate" /\ repairing = 0 =>
          \E k \in 0..NCards : RepairedUpTo(k) /\ requests <= Earlier + 1 + k
    /\ pc = "prompt" /\ repairing # 0 =>
          RepairedUpTo(repairing - 1) /\ requests <= Earlier + repairing
    /\ pc \in {"call", "validate", "record"} /\ repairing # 0 =>
          RepairedUpTo(repairing - 1) /\ requests <= Earlier + 1 + repairing
    /\ pc \in {"catch", "record"} => requests <= Earlier + 1 + NCards

\* What an answer has been found to be.
Answered ==
    /\ pc \in {"validate", "record"} \/ repairing # 0 =>
          \A c \in Cards : cards[c] # "none"
    /\ pc = "record" => \A c \in Asked : cards[c] = "good"
    /\ pc \in Behind \/ outcome = "completed" => \A c \in Cards : cards[c] = "good"
    /\ pc \in {"assemble", "render"} \/ outcome = "completed" => assembled = Cards
    /\ pc # "done" => outcome = "running"

IInv == TypeOK /\ Nesting /\ Requested /\ Answered /\ OneRowPerRequest

---------------------------------------------------------------------------
\* A generation starts without a request.
LEMMA GenerationInit == Init => IInv
<1> SUFFICES ASSUME Init PROVE IInv
  OBVIOUS
<1> USE GenerationAssumption DEF Init
<1>1. TypeOK
  <2>1. pc \in Steps /\ cards \in [Cards -> Qualities] /\ err \in Errors
    BY DEF Steps, Qualities, Errors
  <2>2. repairing \in 0..NCards /\ tries \in 0..MaxRefineAttempts - 1
    OBVIOUS
  <2>3. open \in [Stages -> Nat] /\ stream \in Seq(StreamEvents)
    OBVIOUS
  <2>4. {requests, usage, lost} \subseteq Nat /\ assembled \subseteq Cards /\ tainted \subseteq Cards
    OBVIOUS
  <2>5. /\ attempt \in {1, 2} /\ gone \in BOOLEAN
        /\ outcome \in {"running", "completed", "failed"}
    OBVIOUS
  <2> HIDE DEF Init
  <2> QED BY <2>1, <2>2, <2>3, <2>4, <2>5 DEF TypeOK
<1>2. Nesting
  BY DEF Nesting, Before
<1>3. Requested
  BY DEF Requested, Earlier
<1>4. Answered
  BY DEF Answered, Behind
<1>5. OneRowPerRequest
  BY DEF OneRowPerRequest, InFlight
<1> QED BY <1>1, <1>2, <1>3, <1>4, <1>5 DEF IInv

---------------------------------------------------------------------------
(* Types *)

\* Opening and closing the run of a stage are operations on counts.
LEMMA OpenTypes ==
    ASSUME NEW o \in [Stages -> Nat], NEW stage \in Stages
    PROVE  Begun(o, stage) \in [Stages -> Nat] /\ Closed(o, stage) \in [Stages -> Nat]
BY DEF Begun, Closed

\* The client receives events.
LEMMA WriteTypes ==
    ASSUME TypeOK, NEW type \in {"meta", "card", "done", "error"}, NEW card \in 0..NCards,
           Write(type, card)
    PROVE  stream' \in Seq(StreamEvents)
<1>1. [type |-> type, card |-> card] \in StreamEvents
  BY DEF StreamEvents
<1>2. stream \in Seq(StreamEvents)
  BY DEF TypeOK
<1> QED BY <1>1, <1>2 DEF Write

\* A failure ends the execution.
LEMMA GiveUpTypes ==
    ASSUME TypeOK, NEW o \in [Stages -> Nat], GiveUp(o)
    PROVE  /\ open' \in [Stages -> Nat] /\ stream' \in Seq(StreamEvents)
           /\ outcome' = "failed" /\ pc' = "done"
<1>1. 0 \in 0..NCards
  BY GenerationAssumption
<1>2. Write("error", 0) /\ open' = o /\ outcome' = "failed" /\ pc' = "done"
  BY DEF GiveUp
<1> QED BY <1>1, <1>2, WriteTypes

\* So does a chosen template lead on to the content.
LEMMA SelectedTypes ==
    ASSUME TypeOK, NEW o \in [Stages -> Nat], Selected(o)
    PROVE  /\ open' \in [Stages -> Nat] /\ stream' \in Seq(StreamEvents)
           /\ outcome' = outcome /\ pc' = "prompt"
<1>1. 0 \in 0..NCards
  BY GenerationAssumption
<1>2. Write("meta", 0) /\ outcome' = outcome /\ pc' = "prompt"
      /\ open' = Begun(o, "LLM_CONTENT_GENERATION")
  BY DEF Selected
<1>3. "LLM_CONTENT_GENERATION" \in Stages
  BY DEF Stages
<1> QED BY <1>1, <1>2, <1>3, WriteTypes, OpenTypes

\* An inner request that throws leaves the outer one failing.
LEMMA RepairFailsTypes ==
    ASSUME TypeOK, NEW o \in [Stages -> Nat], NEW e \in Errors, RepairFails(o, e)
    PROVE  /\ open' \in [Stages -> Nat] /\ UNCHANGED <<stream, outcome>>
           /\ repairing' = 0 /\ err' = e /\ pc' = "catch"
BY OpenTypes DEF RepairFails, Stages

\* The set is asked for once more, or the execution fails.
LEMMA RequestFailsTypes ==
    ASSUME TypeOK, NEW o \in [Stages -> Nat], RequestFails(o)
    PROVE  /\ open' \in [Stages -> Nat] /\ stream' \in Seq(StreamEvents)
           /\ \/ attempt = 1 /\ attempt' = 2 /\ pc' = "prompt" /\ outcome' = outcome
              \/ attempt' = attempt /\ pc' = "done" /\ outcome' = "failed"
<1>1. CASE /\ attempt = 1 /\ attempt' = 2 /\ open' = o /\ pc' = "prompt"
           /\ UNCHANGED <<stream, outcome>>
  BY <1>1 DEF TypeOK
<1>2. CASE GiveUp(Closed(o, "LLM_CONTENT_GENERATION")) /\ attempt' = attempt
  <2>1. Closed(o, "LLM_CONTENT_GENERATION") \in [Stages -> Nat]
    BY OpenTypes DEF Stages
  <2> QED BY <1>2, <2>1, GiveUpTypes
<1> QED BY <1>1, <1>2 DEF RequestFails

---------------------------------------------------------------------------
(* Steps towards the template *)

\* They lead on to the content or to a failure and touch nothing of the answer.
LEMMA ChoosingEffect ==
    ASSUME TypeOK, Choosing
    PROVE  /\ pc \in Before
           /\ UNCHANGED <<content, delivery, gone>>
           /\ open' \in [Stages -> Nat] /\ stream' \in Seq(StreamEvents)
           /\ \/ pc' \in Before \cup {"prompt"} /\ outcome' = outcome
              \/ pc' = "done" /\ outcome' = "failed"
<1>0. open \in [Stages -> Nat] /\ stream \in Seq(StreamEvents)
  BY DEF TypeOK
<1>1. CASE ValidateRequest
  BY <1>0, <1>1, GiveUpTypes DEF ValidateRequest, Before
<1>2. CASE AnalyseRequest
  BY <1>0, <1>2, GiveUpTypes DEF AnalyseRequest, Before
<1>3. CASE LoadExplicitTemplate
  BY <1>0, <1>3, GiveUpTypes, SelectedTypes DEF LoadExplicitTemplate, Before
<1>4. CASE SelectTemplate
  <2>1. "TEMPLATE_SELECTION" \in Stages
    BY DEF Stages
  <2>2. Begun(open, "TEMPLATE_SELECTION") \in [Stages -> Nat]
    BY <1>0, <2>1, OpenTypes
  <2> QED BY <1>0, <1>4, <2>2, GiveUpTypes, SelectedTypes DEF SelectTemplate, Before
<1>5. CASE SelectTemplateAgain
  <2>1. "TEMPLATE_SELECTION" \in Stages
    BY DEF Stages
  <2>2. Closed(open, "TEMPLATE_SELECTION") \in [Stages -> Nat]
    BY <1>0, <2>1, OpenTypes
  <2> QED BY <1>5, <2>2, GiveUpTypes, SelectedTypes DEF SelectTemplateAgain, Before
<1> QED BY <1>1, <1>2, <1>3, <1>4, <1>5 DEF Choosing

\* They make no request.
LEMMA ChoosingKeeps ==
    ASSUME IInv, Choosing
    PROVE  IInv'
<1> USE GenerationAssumption DEF IInv
<1>1. /\ pc \in Before
      /\ UNCHANGED <<attempt, repairing, cards, err, requests, usage, lost, tries,
                     tainted, assembled, gone>>
      /\ open' \in [Stages -> Nat] /\ stream' \in Seq(StreamEvents)
      /\ \/ pc' \in Before \cup {"prompt"} /\ outcome' = outcome
         \/ pc' = "done" /\ outcome' = "failed"
  BY ChoosingEffect DEF content, delivery
<1>2. requests = 0 /\ attempt = 1 /\ repairing = 0 /\ outcome # "completed"
  BY <1>1 DEF Nesting, Before, Answered
<1>3. TypeOK'
  <2>1. pc' \in Steps /\ outcome' \in {"running", "completed", "failed"}
    BY <1>1 DEF Before, Steps, TypeOK
  <2> QED BY <1>1, <2>1 DEF TypeOK
<1>4. Nesting'
  BY <1>1, <1>2 DEF Nesting
<1>5. Requested'
  BY <1>1, <1>2 DEF Requested, Before, Earlier
<1>6. Answered'
  BY <1>1, <1>2 DEF Answered, Before, Behind
<1>7. OneRowPerRequest'
  BY <1>1, <1>2 DEF OneRowPerRequest, InFlight, Before
<1> QED BY <1>3, <1>4, <1>5, <1>6, <1>7

---------------------------------------------------------------------------
(* Steps of requestContent *)

\* Without a client or with a forbidden prompt nothing is requested.
LEMMA PromptFails ==
    ASSUME IInv, ClientMissing \/ PromptRefused
    PROVE  IInv'
<1> USE GenerationAssumption DEF IInv
<1>1. {"PROMPT_GENERATION", "LLM_CONTENT_GENERATION"} \subseteq Stages
  BY DEF Stages
<1>2. pc = "prompt" /\ outcome # "completed"
  BY DEF ClientMissing, PromptRefused, Answered
<1>3. /\ UNCHANGED <<attempt, cards, requests, usage, lost, tries, tainted, assembled, gone>>
      /\ open' \in [Stages -> Nat] /\ stream' \in Seq(StreamEvents)
      /\ \/ /\ repairing = 0 /\ UNCHANGED <<repairing, err>>
            /\ pc' = "done" /\ outcome' = "failed"
         \/ /\ repairing # 0 /\ repairing' = 0 /\ err' = "refused"
            /\ pc' = "catch" /\ outcome' = outcome
  <2>0. open \in [Stages -> Nat] /\ stream \in Seq(StreamEvents)
    BY DEF TypeOK
  <2>1. CASE ClientMissing
    <3>1. Closed(open, "LLM_CONTENT_GENERATION") \in [Stages -> Nat]
      BY <1>1, <2>0, OpenTypes
    <3> QED BY <2>1, <3>1, GiveUpTypes DEF ClientMissing, content, delivery
  <2>2. CASE PromptRefused
    <3> DEFINE o == Begun(open, "PROMPT_GENERATION")
    <3>1. o \in [Stages -> Nat]
      BY <1>1, <2>0, OpenTypes
    <3>2. Closed(o, "LLM_CONTENT_GENERATION") \in [Stages -> Nat]
      BY <1>1, <3>1, OpenTypes
    <3>3. CASE repairing = 0
      BY <2>2, <3>2, <3>3, GiveUpTypes DEF PromptRefused, delivery
    <3>4. CASE repairing # 0
      <4>1. RepairFails(o, "refused") /\ "refused" \in Errors
        BY <2>2, <3>4 DEF PromptRefused, Errors
      <4> HIDE DEF o
      <4>2. /\ open' \in [Stages -> Nat] /\ UNCHANGED <<stream, outcome>>
            /\ repairing' = 0 /\ err' = "refused" /\ pc' = "catch"
        BY <3>1, <4>1, RepairFailsTypes
      <4> QED BY <2>0, <2>2, <3>4, <4>2 DEF PromptRefused, delivery
    <3> QED BY <3>3, <3>4
  <2> QED BY <2>1, <2>2
<1>4. TypeOK'
  BY <1>3 DEF TypeOK, Steps, Errors
<1>5. Nesting'
  BY <1>2, <1>3 DEF Nesting, Before
<1>6. Requested'
  <2>1. repairing # 0 => requests <= Earlier + 1 + NCards
    BY <1>2 DEF Requested, TypeOK, Earlier
  <2> QED BY <1>3, <2>1 DEF Requested, Earlier
<1>7. Answered'
  BY <1>2, <1>3 DEF Answered, Behind
<1>8. OneRowPerRequest'
  BY <1>2, <1>3 DEF OneRowPerRequest, InFlight
<1> QED BY <1>4, <1>5, <1>6, <1>7, <1>8

\* The only step that makes a request.
LEMMA RequestIsCounted ==
    ASSUME IInv, BuildPrompt
    PROVE  IInv'
<1> USE GenerationAssumption DEF IInv
<1>1. /\ pc = "prompt" /\ pc' = "call" /\ requests' = requests + 1
      /\ UNCHANGED <<attempt, repairing, cards, err, usage, lost, tries, tainted, assembled,
                     stream, gone, outcome>>
  BY DEF BuildPrompt, delivery
<1>2. outcome # "completed"
  BY <1>1 DEF Answered
<1>3. open' \in [Stages -> Nat]
  BY OpenTypes DEF BuildPrompt, TypeOK, Stages
<1>4. TypeOK'
  BY <1>1, <1>3 DEF TypeOK, Steps
<1>5. Nesting'
  BY <1>1 DEF Nesting, Before
<1>6. Requested'
  <2>1. requests \in Nat /\ attempt \in {1, 2} /\ repairing \in 0..NCards
    BY DEF TypeOK
  <2>2. CASE repairing = 0
    BY <1>1, <2>1, <2>2 DEF Requested, Earlier
  <2>3. CASE repairing # 0
    BY <1>1, <2>1, <2>3 DEF Requested, Earlier, RepairedUpTo
  <2> QED BY <2>2, <2>3
<1>7. Answered'
  BY <1>1, <1>2 DEF Answered, Behind
<1>8. OneRowPerRequest'
  BY <1>1 DEF OneRowPerRequest, InFlight, TypeOK
<1> QED BY <1>4, <1>5, <1>6, <1>7, <1>8

\* A request that fails goes to its catch with the cards as they were.
LEMMA RequestThrows ==
    ASSUME IInv, CallFails \/ RejectInvalid \/ RejectForbidden
    PROVE  IInv'
<1> USE GenerationAssumption DEF IInv
<1>1. /\ pc \in {"call", "validate"} /\ pc' = "catch" /\ err' \in {"invalid", "timeout"}
      /\ UNCHANGED <<attempt, repairing, cards, requests, usage, lost, tries, tainted, assembled,
                     stream, gone, outcome>>
  BY DEF CallFails, RejectInvalid, RejectForbidden, delivery
<1>2. open' \in [Stages -> Nat]
  BY OpenTypes DEF CallFails, RejectInvalid, RejectForbidden, TypeOK, Stages
<1>3. TypeOK'
  BY <1>1, <1>2 DEF TypeOK, Steps, Errors
<1>4. Nesting'
  BY <1>1 DEF Nesting, Before
<1>5. Requested'
  <2>1. requests \in Nat /\ attempt \in {1, 2} /\ repairing \in 0..NCards
    BY DEF TypeOK
  <2>2. requests <= Earlier + 1 + NCards
    BY <1>1, <2>1 DEF Requested, Earlier
  <2> QED BY <1>1, <2>2 DEF Requested, Earlier
<1>6. Answered'
  BY <1>1 DEF Answered, Behind
<1>7. OneRowPerRequest'
  BY <1>1 DEF OneRowPerRequest, InFlight
<1> QED BY <1>3, <1>4, <1>5, <1>6, <1>7

\* An answer changes the cards that were asked for and no other.
LEMMA AnswerChanges ==
    ASSUME TypeOK, Answer
    PROVE  /\ pc = "call" /\ pc' \in {"catch", "validate"}
           /\ UNCHANGED <<attempt, repairing, requests, usage, lost, tries, tainted, assembled,
                          stream, gone, outcome>>
           /\ open' \in [Stages -> Nat] /\ err' \in Errors
           /\ cards' \in [Cards -> Qualities]
           /\ \A c \in Cards \ Asked : cards'[c] = cards[c]
           /\ pc' = "validate" => \A c \in Asked : cards'[c] # "none"
<1> DEFINE o == Begun(Closed(open, "LLM_REQUEST"), "CONTENT_VALIDATION")
<1>1. o \in [Stages -> Nat] /\ Closed(o, "CONTENT_VALIDATION") \in [Stages -> Nat]
  <2>1. open \in [Stages -> Nat] /\ {"LLM_REQUEST", "CONTENT_VALIDATION"} \subseteq Stages
    BY DEF TypeOK, Stages
  <2>2. Closed(open, "LLM_REQUEST") \in [Stages -> Nat]
    BY <2>1, OpenTypes
  <2>3. o \in [Stages -> Nat]
    BY <2>1, <2>2, OpenTypes
  <2> QED BY <2>1, <2>3, OpenTypes
<1>2. /\ pc = "call"
      /\ UNCHANGED <<attempt, repairing, requests, usage, lost, tries, tainted, assembled,
                     stream, gone, outcome>>
  BY DEF Answer, delivery
<1> HIDE DEF o
<1>3. CASE open' = Closed(o, "CONTENT_VALIDATION") /\ err' = "invalid" /\ pc' = "catch"
           /\ cards' = cards
  BY <1>1, <1>2, <1>3 DEF TypeOK, Errors
<1>4. CASE /\ open' = o /\ pc' = "validate" /\ err' = err
           /\ \E new \in [Asked -> Qualities \ {"none"}] :
                 cards' = [c \in Cards |-> IF c \in Asked THEN new[c] ELSE cards[c]]
  <2>1. PICK new \in [Asked -> Qualities \ {"none"}] :
            cards' = [c \in Cards |-> IF c \in Asked THEN new[c] ELSE cards[c]]
    BY <1>4
  <2>2. Asked \subseteq Cards
    BY DEF Asked, Cards, TypeOK
  <2>3. cards' \in [Cards -> Qualities]
    BY <2>1, <2>2 DEF TypeOK
  <2>4. \A c \in Cards \ Asked : cards'[c] = cards[c]
    BY <2>1
  <2>5. \A c \in Asked : cards'[c] # "none"
    BY <2>1, <2>2
  <2> QED BY <1>1, <1>2, <1>4, <2>3, <2>4, <2>5 DEF TypeOK
<1> QED BY <1>3, <1>4 DEF Answer, o

\* A repaired card leaves the ones in front of it as they were.
LEMMA AnswerKeeps ==
    ASSUME IInv, Answer
    PROVE  IInv'
<1> USE GenerationAssumption DEF IInv
<1>1. /\ pc = "call" /\ pc' \in {"catch", "validate"}
      /\ UNCHANGED <<attempt, repairing, requests, usage, lost, tries, tainted, assembled,
                     stream, gone, outcome>>
      /\ open' \in [Stages -> Nat] /\ err' \in Errors
      /\ cards' \in [Cards -> Qualities]
      /\ \A c \in Cards \ Asked : cards'[c] = cards[c]
      /\ pc' = "validate" => \A c \in Asked : cards'[c] # "none"
  BY AnswerChanges
<1>2. requests \in Nat /\ attempt \in {1, 2} /\ repairing \in 0..NCards
  BY DEF TypeOK
<1>3. TypeOK'
  BY <1>1 DEF TypeOK, Steps
<1>4. Nesting'
  BY <1>1 DEF Nesting, Before
<1>5. Requested'
  <2>1. CASE repairing = 0
    <3>1. requests <= Earlier + 1
      BY <1>1, <2>1 DEF Requested
    <3>2. 0 \in 0..NCards /\ RepairedUpTo(0)'
      BY DEF RepairedUpTo
    <3>3. requests <= Earlier + 1 + 0 /\ requests <= Earlier + 1 + NCards
      BY <1>2, <3>1 DEF Earlier
    <3> QED BY <1>1, <2>1, <3>2, <3>3 DEF Requested, Earlier
  <2>2. CASE repairing # 0
    <3>1. RepairedUpTo(repairing - 1) /\ requests <= Earlier + 1 + repairing
      BY <1>1, <2>2 DEF Requested
    <3>2. \A c \in 1..repairing - 1 : c \in Cards \ Asked
      BY <1>2, <2>2 DEF Cards, Asked
    <3>3. RepairedUpTo(repairing - 1)'
      BY <1>1, <3>1, <3>2 DEF RepairedUpTo
    <3>4. requests <= Earlier + 1 + NCards
      BY <1>2, <3>1 DEF Earlier
    <3> QED BY <1>1, <2>2, <3>1, <3>3, <3>4 DEF Requested, Earlier
  <2> QED BY <2>1, <2>2
<1>6. Answered'
  <2>1. outcome # "completed"
    BY <1>1 DEF Answered
  <2>2. pc' = "validate" \/ repairing # 0 => \A c \in Cards : cards'[c] # "none"
    <3>1. CASE pc' = "validate"
      <4>1. \A c \in Cards \ Asked : cards[c] # "none"
        BY DEF Answered, Asked
      <4> QED BY <1>1, <3>1, <4>1
    <3>2. CASE pc' = "catch"
      BY <1>1, <3>2 DEF Answer, Answered
    <3> QED BY <1>1, <3>1, <3>2
  <2> QED BY <1>1, <2>1, <2>2 DEF Answered, Behind
<1>7. OneRowPerRequest'
  BY <1>1 DEF OneRowPerRequest, InFlight
<1> QED BY <1>3, <1>4, <1>5, <1>6, <1>7

\* Only the first card that breaks the template is regenerated, and only by an
\* outer request.
LEMMA RegenerationKeeps ==
    ASSUME IInv, RegenerateCard
    PROVE  IInv'
<1> USE GenerationAssumption DEF IInv
<1>1. repairing = 0
  <2>1. CASE repairing # 0
    <3>1. Cardinality({repairing}) = 1
      BY FS_Singleton
    <3> QED BY <2>1, <3>1 DEF RegenerateCard, Asked
  <2> QED BY <2>1
<1>2. /\ pc = "validate" /\ pc' = "prompt"
      /\ UNCHANGED <<attempt, cards, err, requests, usage, lost, tries, tainted, assembled, open,
                     stream, gone, outcome>>
  BY DEF RegenerateCard, delivery
<1>3. /\ repairing' \in 1..NCards
      /\ cards[repairing'] = "invalid" /\ RepairedUpTo(repairing' - 1)
  <2>1. PICK c \in Invalid : (\A d \in Invalid : c <= d) /\ repairing' = c
    BY DEF RegenerateCard
  <2>2. c \in Cards /\ cards[c] = "invalid" /\ \A d \in Cards : cards[d] = "invalid" => c <= d
    BY <1>1, <2>1 DEF Invalid, Asked
  <2> QED BY <2>1, <2>2 DEF Cards, RepairedUpTo
<1>4. TypeOK'
  BY <1>2, <1>3 DEF TypeOK, Steps
<1>5. Nesting'
  BY <1>2 DEF Nesting, Before
<1>6. Requested'
  <2>1. PICK k \in 0..NCards : RepairedUpTo(k) /\ requests <= Earlier + 1 + k
    BY <1>1, <1>2 DEF Requested
  <2>2. k < repairing'
    BY <1>3, <2>1 DEF RepairedUpTo
  <2>3. requests <= Earlier + repairing'
    BY <1>3, <2>1, <2>2 DEF Earlier, TypeOK
  <2>4. \A c \in 1..repairing' - 1 : cards'[c] # "invalid"
    BY <1>2, <1>3 DEF RepairedUpTo
  <2>5. requests' <= Earlier' + repairing' /\ requests' <= 2 * (NCards + 1)
    BY <1>2, <2>3 DEF Requested, Earlier
  <2>6. pc' = "prompt" /\ repairing' # 0
    BY <1>2, <1>3
  <2>7. RepairedUpTo(repairing - 1)'
    BY <2>4 DEF RepairedUpTo
  <2> QED BY <2>5, <2>6, <2>7 DEF Requested
<1>7. Answered'
  BY <1>2 DEF Answered, Behind
<1>8. OneRowPerRequest'
  BY <1>1, <1>2, <1>3 DEF OneRowPerRequest, InFlight
<1> QED BY <1>4, <1>5, <1>6, <1>7, <1>8

\* What is accepted neither breaks the template nor has a forbidden term.
LEMMA AcceptKeeps ==
    ASSUME IInv, Accept
    PROVE  IInv'
<1> USE GenerationAssumption DEF IInv
<1>1. /\ pc = "validate" /\ pc' = "record"
      /\ UNCHANGED <<attempt, repairing, cards, err, requests, usage, lost, tries,
                     tainted, assembled, stream, gone, outcome>>
  BY DEF Accept, content, delivery
<1>2. open' \in [Stages -> Nat]
  BY OpenTypes DEF Accept, TypeOK, Stages
<1>3. requests \in Nat /\ attempt \in {1, 2} /\ repairing \in 0..NCards
  BY DEF TypeOK
<1>4. TypeOK'
  BY <1>1, <1>2 DEF TypeOK, Steps
<1>5. Nesting'
  BY <1>1 DEF Nesting, Before
<1>6. Requested'
  <2>1. requests <= Earlier + 1 + NCards
    BY <1>1, <1>3 DEF Requested, Earlier
  <2> QED BY <1>1, <2>1 DEF Requested, Earlier, RepairedUpTo
<1>7. Answered'
  <2>0. Asked \subseteq Cards
    BY <1>3 DEF Asked, Cards
  <2>1. \A c \in Asked : cards[c] \in Qualities /\ cards[c] # "none"
    BY <1>1, <2>0 DEF Answered, TypeOK
  <2>2. \A c \in Asked : cards[c] = "good"
    BY <2>1 DEF Accept, Invalid, Forbidden, Qualities
  <2>3. Asked' = Asked
    BY <1>1 DEF Asked
  <2> QED BY <1>1, <2>2, <2>3 DEF Answered, Behind
<1>8. OneRowPerRequest'
  BY <1>1 DEF OneRowPerRequest, InFlight
<1> QED BY <1>4, <1>5, <1>6, <1>7, <1>8

\* A request that has succeeded hands its cards over; a repaired card needs no
\* further repair.
LEMMA RecordKeeps ==
    ASSUME IInv, RecordSuccess
    PROVE  IInv'
<1> USE GenerationAssumption DEF IInv
<1>1. /\ pc = "record"
      /\ UNCHANGED <<attempt, cards, requests, lost, tries, tainted, assembled, stream, gone,
                     outcome>>
  BY DEF RecordSuccess, delivery
<1>2. /\ requests \in Nat /\ usage \in Nat /\ attempt \in {1, 2}
      /\ repairing \in 0..NCards /\ outcome # "completed"
  BY <1>1 DEF TypeOK, Answered
<1>3. CASE usage' = usage + 1 /\ repairing = 0 /\ pc' = "refine" /\ UNCHANGED <<repairing, err>>
           /\ open' = Closed(open, "LLM_CONTENT_GENERATION")
  <2>1. open' \in [Stages -> Nat]
    BY <1>3, OpenTypes DEF TypeOK, Stages
  <2>2. TypeOK'
    BY <1>1, <1>3, <2>1 DEF TypeOK, Steps
  <2>3. Nesting' /\ Requested'
    BY <1>1, <1>3 DEF Nesting, Before, Requested
  <2>4. Answered'
    BY <1>1, <1>2, <1>3 DEF Answered, Asked, Behind
  <2>5. OneRowPerRequest'
    BY <1>1, <1>3 DEF OneRowPerRequest, InFlight, TypeOK
  <2> QED BY <2>2, <2>3, <2>4, <2>5
<1>4. CASE usage' = usage + 1 /\ repairing # 0 /\ repairing' = 0 /\ pc' = "validate"
           /\ UNCHANGED <<err, open>>
  <2>1. TypeOK'
    BY <1>1, <1>4 DEF TypeOK, Steps
  <2>2. Nesting'
    BY <1>1, <1>4 DEF Nesting, Before
  <2>3. Requested'
    <3>1. cards[repairing] = "good"
      BY <1>1, <1>4 DEF Answered, Asked
    <3>2. RepairedUpTo(repairing - 1) /\ requests <= Earlier + 1 + repairing
      BY <1>1, <1>4 DEF Requested
    <3>3. RepairedUpTo(repairing)
      BY <1>2, <3>1, <3>2 DEF RepairedUpTo
    <3>4. \E k \in 0..NCards : RepairedUpTo(k)' /\ requests' <= Earlier' + 1 + k
      <4>1. \A c \in 1..repairing : cards'[c] # "invalid"
        BY <1>1, <3>3 DEF RepairedUpTo
      <4>2. \E k \in 0..NCards : (\A c \in 1..k : cards'[c] # "invalid")
                                  /\ requests' <= Earlier' + 1 + k
        BY <1>1, <1>2, <3>2, <4>1 DEF Earlier
      <4> QED BY <4>2 DEF RepairedUpTo
    <3> QED BY <1>1, <1>4, <3>4 DEF Requested
  <2>4. Answered'
    BY <1>1, <1>2, <1>4 DEF Answered, Behind
  <2>5. OneRowPerRequest'
    BY <1>1, <1>4 DEF OneRowPerRequest, InFlight, TypeOK
  <2> QED BY <2>1, <2>2, <2>3, <2>4, <2>5
<1>5. CASE err' \in {"invalid", "timeout"} /\ pc' = "catch" /\ UNCHANGED <<repairing, open, usage>>
  <2>1. TypeOK'
    BY <1>1, <1>5 DEF TypeOK, Steps, Errors
  <2>2. Nesting'
    BY <1>1, <1>5 DEF Nesting, Before
  <2>3. Requested'
    BY <1>1, <1>5 DEF Requested, Earlier
  <2>4. Answered'
    BY <1>1, <1>2, <1>5 DEF Answered, Behind
  <2>5. OneRowPerRequest'
    BY <1>1, <1>5 DEF OneRowPerRequest, InFlight
  <2> QED BY <2>1, <2>2, <2>3, <2>4, <2>5
<1> QED BY <1>3, <1>4, <1>5 DEF RecordSuccess

\* What a catch leads to: the outer catch, the second request of the set, or the
\* end of the execution.
LEMMA CatchEffect ==
    ASSUME TypeOK, Catch \/ CatchFails
    PROVE  /\ pc = "catch" /\ UNCHANGED <<cards, requests, tries, tainted, assembled, gone>>
           /\ \/ usage' = usage + 1 /\ lost' = lost
              \/ usage' = usage /\ lost' = lost + 1
           /\ open' \in [Stages -> Nat] /\ stream' \in Seq(StreamEvents) /\ err' \in Errors
           /\ \/ /\ repairing # 0 /\ repairing' = 0 /\ pc' = "catch"
                 /\ attempt' = attempt /\ outcome' = outcome
              \/ /\ repairing = 0 /\ repairing' = 0 /\ pc' = "prompt"
                 /\ attempt = 1 /\ attempt' = 2 /\ outcome' = outcome
              \/ /\ repairing = 0 /\ repairing' = 0 /\ pc' = "done"
                 /\ attempt' = attempt /\ outcome' = "failed"
<1>0. /\ open \in [Stages -> Nat] /\ stream \in Seq(StreamEvents) /\ err \in Errors
      /\ {"LLM_REQUEST", "LLM_CONTENT_GENERATION"} \subseteq Stages
  BY DEF TypeOK, Stages
<1>1. /\ Closed(open, "LLM_REQUEST") \in [Stages -> Nat]
      /\ Closed(open, "LLM_CONTENT_GENERATION") \in [Stages -> Nat]
  BY <1>0, OpenTypes
<1>2. CASE Catch
  <2>1. CASE repairing = 0
    <3>1. RequestFails(Closed(open, "LLM_REQUEST")) /\ UNCHANGED <<repairing, err>>
      BY <1>2, <2>1 DEF Catch
    <3>2. /\ open' \in [Stages -> Nat] /\ stream' \in Seq(StreamEvents)
          /\ \/ attempt = 1 /\ attempt' = 2 /\ pc' = "prompt" /\ outcome' = outcome
             \/ attempt' = attempt /\ pc' = "done" /\ outcome' = "failed"
      BY <1>1, <3>1, RequestFailsTypes
    <3> QED BY <1>0, <1>2, <2>1, <3>1, <3>2 DEF Catch, delivery
  <2>2. CASE repairing # 0
    <3>1. RepairFails(Closed(open, "LLM_REQUEST"), err) /\ attempt' = attempt
      BY <1>2, <2>2 DEF Catch
    <3>2. /\ open' \in [Stages -> Nat] /\ UNCHANGED <<stream, outcome>>
          /\ repairing' = 0 /\ err' = err /\ pc' = "catch"
      BY <1>0, <1>1, <3>1, RepairFailsTypes
    <3> QED BY <1>0, <1>2, <2>2, <3>1, <3>2 DEF Catch, delivery
  <2> QED BY <2>1, <2>2
<1>3. CASE CatchFails
  <2>1. CASE repairing = 0
    <3>1. GiveUp(Closed(open, "LLM_CONTENT_GENERATION")) /\ UNCHANGED <<repairing, err>>
      BY <1>3, <2>1 DEF CatchFails
    <3>2. /\ open' \in [Stages -> Nat] /\ stream' \in Seq(StreamEvents)
          /\ outcome' = "failed" /\ pc' = "done"
      BY <1>1, <3>1, GiveUpTypes
    <3> QED BY <1>0, <1>3, <2>1, <3>1, <3>2 DEF CatchFails, delivery
  <2>2. CASE repairing # 0
    <3>1. PICK e \in {"invalid", "timeout"} : RepairFails(open, e)
      BY <1>3, <2>2 DEF CatchFails
    <3>2. e \in Errors
      BY DEF Errors
    <3>3. /\ open' \in [Stages -> Nat] /\ UNCHANGED <<stream, outcome>>
          /\ repairing' = 0 /\ err' = e /\ pc' = "catch"
      BY <1>0, <3>1, <3>2, RepairFailsTypes
    <3> QED BY <1>0, <1>3, <2>2, <3>2, <3>3 DEF CatchFails, delivery
  <2> QED BY <2>1, <2>2
<1> QED BY <1>2, <1>3

\* Each failed request is accounted for once, and the second answer starts with
\* what the first can have cost.
LEMMA CatchKeeps ==
    ASSUME IInv, Catch \/ CatchFails
    PROVE  IInv'
<1> USE GenerationAssumption DEF IInv
<1>1. /\ pc = "catch" /\ UNCHANGED <<cards, requests, tries, tainted, assembled, gone>>
      /\ \/ usage' = usage + 1 /\ lost' = lost
         \/ usage' = usage /\ lost' = lost + 1
      /\ open' \in [Stages -> Nat] /\ stream' \in Seq(StreamEvents) /\ err' \in Errors
      /\ \/ /\ repairing # 0 /\ repairing' = 0 /\ pc' = "catch"
            /\ attempt' = attempt /\ outcome' = outcome
         \/ /\ repairing = 0 /\ repairing' = 0 /\ pc' = "prompt"
            /\ attempt = 1 /\ attempt' = 2 /\ outcome' = outcome
         \/ /\ repairing = 0 /\ repairing' = 0 /\ pc' = "done"
            /\ attempt' = attempt /\ outcome' = "failed"
  BY CatchEffect
<1>2. /\ requests \in Nat /\ requests' = requests
      /\ usage \in Nat /\ lost \in Nat /\ outcome # "completed"
  BY <1>1 DEF TypeOK, Answered
<1>3. TypeOK'
  <2>1. usage' \in Nat /\ lost' \in Nat /\ requests' \in Nat
    BY <1>1, <1>2
  <2>2. pc' \in Steps /\ attempt' \in {1, 2} /\ repairing' \in 0..NCards
        /\ outcome' \in {"running", "completed", "failed"}
    BY <1>1 DEF TypeOK, Steps
  <2> QED BY <1>1, <2>1, <2>2 DEF TypeOK
<1>4. Nesting'
  BY <1>1 DEF Nesting, Before
<1>5. Requested'
  <2>1. requests <= Earlier + 1 + NCards /\ requests <= 2 * (NCards + 1)
    BY <1>1 DEF Requested
  <2>2. CASE pc' = "prompt"
    <3>1. requests' <= Earlier' /\ repairing' = 0
      BY <1>1, <1>2, <2>1, <2>2 DEF Earlier
    <3> QED BY <1>1, <2>1, <2>2, <3>1 DEF Requested
  <2>3. CASE pc' = "catch"
    BY <1>1, <2>1, <2>3 DEF Requested, Earlier
  <2>4. CASE pc' = "done"
    BY <1>1, <2>1, <2>4 DEF Requested
  <2> QED BY <1>1, <2>2, <2>3, <2>4
<1>6. Answered'
  BY <1>1, <1>2 DEF Answered, Behind
<1>7. OneRowPerRequest'
  <2>1. InFlight \in {1, 2} /\ InFlight' = InFlight - 1
    BY <1>1 DEF InFlight
  <2>2. CASE usage' = usage + 1 /\ lost' = lost
    BY <1>2, <2>1, <2>2 DEF OneRowPerRequest
  <2>3. CASE usage' = usage /\ lost' = lost + 1
    BY <1>2, <2>1, <2>3 DEF OneRowPerRequest
  <2> QED BY <1>1, <2>2, <2>3
<1> QED BY <1>3, <1>4, <1>5, <1>6, <1>7

---------------------------------------------------------------------------
(* Steps behind the content, and the client *)

\* They change neither cards nor requests, and leave the stages behind the
\* content only with a success.
LEMMA DeliveringEffect ==
    ASSUME IInv, Delivering \/ ClientLeaves
    PROVE  /\ UNCHANGED content
           /\ open' \in [Stages -> Nat] /\ stream' \in Seq(StreamEvents) /\ gone' \in BOOLEAN
           /\ tries' \in 0..MaxRefineAttempts - 1 /\ {assembled', tainted'} \subseteq SUBSET Cards
           /\ \/ pc' = pc /\ outcome' = outcome /\ (assembled' = assembled \/ pc = "images")
              \/ /\ pc \in {"refine", "images"} /\ pc' = "images" /\ outcome' = outcome
              \/ /\ pc = "images" /\ pc' = "assemble" /\ outcome' = outcome
                 /\ assembled' = Cards
              \/ /\ pc = "assemble" /\ pc' = "render" /\ outcome' = outcome
                 /\ assembled' = assembled
              \/ /\ pc = "render" /\ pc' = "done" /\ outcome' = "completed"
                 /\ assembled' = assembled
<1> USE GenerationAssumption DEF IInv
<1>0. /\ open \in [Stages -> Nat] /\ stream \in Seq(StreamEvents) /\ gone \in BOOLEAN
      /\ tries \in 0..MaxRefineAttempts - 1 /\ {assembled, tainted} \subseteq SUBSET Cards
      /\ {"IMAGE_QUERY_REFINEMENT", "IMAGE_RETRIEVAL"} \subseteq Stages
  BY DEF TypeOK, Stages
<1>1. CASE RefineNothing
  BY <1>0, <1>1, OpenTypes DEF RefineNothing, Retrieving
<1>2. CASE RefineQueries
  <2>1. Refining \in [Stages -> Nat]
    BY <1>0, OpenTypes DEF Refining
  <2>2. Closed(Refining, "IMAGE_QUERY_REFINEMENT") \in [Stages -> Nat]
    BY <1>0, <2>1, OpenTypes
  <2>3. Begun(Closed(Refining, "IMAGE_QUERY_REFINEMENT"), "IMAGE_RETRIEVAL") \in [Stages -> Nat]
    BY <1>0, <2>2, OpenTypes
  <2>4. /\ pc = "refine"
        /\ UNCHANGED <<content, assembled, stream, gone, outcome>>
    BY <1>2 DEF RefineQueries
  <2>5. CASE /\ Retrieving(Closed(Refining, "IMAGE_QUERY_REFINEMENT"))
             /\ tainted' \in SUBSET Cards
    BY <1>0, <2>3, <2>4, <2>5 DEF Retrieving
  <2>6. CASE /\ tries + 1 < MaxRefineAttempts /\ tries' = tries + 1
             /\ open' = Refining /\ UNCHANGED <<pc, tainted>>
    BY <1>0, <2>1, <2>4, <2>6
  <2> QED BY <1>2, <2>5, <2>6 DEF RefineQueries, ApplyRefinements
<1>3. ASSUME NEW c \in Cards, AssembleCard(c)
      PROVE  /\ UNCHANGED <<content, tries, tainted, open, gone, outcome>>
             /\ stream' \in Seq(StreamEvents) /\ assembled' \subseteq Cards
             /\ pc = "images"
             /\ pc' = "images" \/ (pc' = "assemble" /\ assembled' = Cards)
  <2>1. c \in 0..NCards /\ Write("card", c)
    BY <1>3 DEF Cards, AssembleCard
  <2>2. stream' \in Seq(StreamEvents)
    BY <2>1, WriteTypes
  <2> QED BY <1>0, <1>3, <2>2 DEF AssembleCard
<1>4. CASE Assemble
  <2>1. assembled = Cards /\ \A c \in Cards : cards[c] # "invalid"
    BY <1>4 DEF Assemble, Answered, Behind
  <2>2. open' \in [Stages -> Nat]
    BY <1>0, <1>4, <2>1, OpenTypes DEF Assemble
  <2> QED BY <1>0, <1>4, <2>1, <2>2 DEF Assemble, delivery
<1>5. CASE RenderAndReturn
  <2>1. stream' \in Seq(StreamEvents)
    BY <1>5, WriteTypes DEF RenderAndReturn
  <2> QED BY <1>0, <1>5, <2>1 DEF RenderAndReturn, delivery
<1>6. CASE ClientLeaves
  BY <1>0, <1>6 DEF ClientLeaves, delivery
<1> QED BY <1>0, <1>1, <1>2, <1>3, <1>4, <1>5, <1>6 DEF Delivering

\* So the answer stays what it was found to be.
LEMMA DeliveringKeeps ==
    ASSUME IInv, Delivering \/ ClientLeaves
    PROVE  IInv'
<1> USE GenerationAssumption DEF IInv
<1>1. /\ UNCHANGED <<attempt, repairing, cards, err, requests, usage, lost>>
      /\ open' \in [Stages -> Nat] /\ stream' \in Seq(StreamEvents) /\ gone' \in BOOLEAN
      /\ tries' \in 0..MaxRefineAttempts - 1 /\ {assembled', tainted'} \subseteq SUBSET Cards
      /\ \/ pc' = pc /\ outcome' = outcome /\ (assembled' = assembled \/ pc = "images")
         \/ /\ pc \in {"refine", "images"} /\ pc' = "images" /\ outcome' = outcome
         \/ /\ pc = "images" /\ pc' = "assemble" /\ outcome' = outcome
            /\ assembled' = Cards
         \/ /\ pc = "assemble" /\ pc' = "render" /\ outcome' = outcome
            /\ assembled' = assembled
         \/ /\ pc = "render" /\ pc' = "done" /\ outcome' = "completed"
            /\ assembled' = assembled
  BY DeliveringEffect DEF content
<1>2. TypeOK'
  <2>1. pc' \in Steps /\ outcome' \in {"running", "completed", "failed"}
    BY <1>1 DEF TypeOK, Steps
  <2> QED BY <1>1, <2>1 DEF TypeOK
<1>3. Nesting'
  BY <1>1 DEF Nesting, Before
<1>4. Requested'
  BY <1>1 DEF Requested, Earlier, RepairedUpTo
<1>5. Answered'
  <2>1. Asked' = Asked
    BY <1>1 DEF Asked
  <2>2. CASE pc' = pc /\ outcome' = outcome
    BY <1>1, <2>1, <2>2 DEF Answered, Behind
  <2>3. CASE pc \in Behind /\ repairing = 0 /\ pc' # pc
    BY <1>1, <2>3 DEF Answered, Behind
  <2> QED BY <1>1, <2>2, <2>3 DEF Nesting, Behind
<1>6. OneRowPerRequest'
  BY <1>1 DEF OneRowPerRequest, InFlight
<1> QED BY <1>2, <1>3, <1>4, <1>5, <1>6

---------------------------------------------------------------------------
\* Every step keeps the invariant.
LEMMA GenerationNext == IInv /\ [Next]_vars => IInv'
<1> SUFFICES ASSUME IInv, [Next]_vars PROVE IInv'
  OBVIOUS
<1>1. CASE Choosing
  BY <1>1, ChoosingKeeps
<1>2. CASE RequestContent
  <2>1. CASE ClientMissing \/ PromptRefused
    BY <2>1, PromptFails
  <2>2. CASE BuildPrompt
    BY <2>2, RequestIsCounted
  <2>3. CASE CallFails \/ RejectInvalid \/ RejectForbidden
    BY <2>3, RequestThrows
  <2>4. CASE Answer
    BY <2>4, AnswerKeeps
  <2>5. CASE RegenerateCard
    BY <2>5, RegenerationKeeps
  <2>6. CASE Accept
    BY <2>6, AcceptKeeps
  <2>7. CASE RecordSuccess
    BY <2>7, RecordKeeps
  <2>8. CASE Catch \/ CatchFails
    BY <2>8, CatchKeeps
  <2> QED BY <1>2, <2>1, <2>2, <2>3, <2>4, <2>5, <2>6, <2>7, <2>8 DEF RequestContent
<1>3. CASE Delivering \/ ClientLeaves
  BY <1>3, DeliveringKeeps
<1>4. CASE UNCHANGED vars
  <2> USE <1>4 DEF vars, content, delivery, IInv
  <2>1. TypeOK' /\ Nesting'
    BY DEF TypeOK, Nesting
  <2>2. Requested'
    BY DEF Requested, Earlier, RepairedUpTo
  <2>3. Answered' /\ OneRowPerRequest'
    BY DEF Answered, Asked, OneRowPerRequest, InFlight
  <2> QED BY <2>1, <2>2, <2>3
<1> QED BY <1>1, <1>2, <1>3, <1>4 DEF Next, Work

\* The invariant of a generation holds for every number of cards, workers and
\* attempts.
THEOREM GenerationInvariance == Spec => []IInv
<1>1. Init => IInv
  BY GenerationInit
<1>2. IInv /\ [Next]_vars => IInv'
  BY GenerationNext
<1> QED BY <1>1, <1>2, PTL DEF Spec

\* Every variable keeps its type.
THEOREM TypeCorrect == Spec => []TypeOK
<1>1. IInv => TypeOK
  BY DEF IInv
<1> QED BY <1>1, GenerationInvariance, PTL

\* A completed generation has every card once, from content that was found valid and
\* free of forbidden terms when it was accepted, from whichever answer.  It says
\* nothing of the image queries, which are refined after that scan.
THEOREM AnswerAlwaysWhole == Spec => []AnswerIsWhole
<1>1. IInv => AnswerIsWhole
  BY DEF IInv, Answered, AnswerIsWhole
<1> QED BY <1>1, GenerationInvariance, PTL

\* Whatever the model answers, each request leaves one usage row, nested and
\* repeated ones included, and there are at most 2 * (NCards + 1): repairs are
\* not repaired and the retry of the set is not retried.
THEOREM EveryRequestAccounted == Spec => []RequestsAccounted
<1>1. IInv => RequestsAccounted
  BY DEF IInv, Requested, RequestsBounded, RequestsAccounted
<1> QED BY <1>1, GenerationInvariance, PTL

\* A repair changes no other card.
THEOREM RepairIsLocal == Spec => RepairKeepsTheRest
<1>1. IInv /\ [Next]_vars => [repairing # 0 =>
          \A c \in Cards \ {repairing} : (cards'[c] = cards[c])]_vars
  <2> SUFFICES ASSUME IInv, Next, repairing # 0, NEW c \in Cards \ {repairing}
               PROVE  cards'[c] = cards[c]
    OBVIOUS
  <2>1. CASE Answer
    <3>1. c \in Cards \ Asked
      BY DEF Asked
    <3> QED BY <2>1, <3>1, AnswerChanges DEF IInv
  <2>2. CASE Next /\ ~ Answer
    <3>1. cards' = cards
      BY <2>2 DEF Next, Work, Choosing, RequestContent, Delivering, ClientLeaves,
         ValidateRequest, AnalyseRequest, LoadExplicitTemplate, SelectTemplate,
         SelectTemplateAgain, ClientMissing, PromptRefused, BuildPrompt, CallFails,
         RejectInvalid, RegenerateCard, RejectForbidden, Accept, RecordSuccess, Catch,
         CatchFails, RefineNothing, RefineQueries, AssembleCard, Assemble,
         RenderAndReturn, content
    <3> QED BY <3>1
  <2> QED BY <2>1, <2>2
<1> QED BY <1>1, GenerationInvariance, PTL DEF Spec, RepairKeepsTheRest

\* Nothing behind the acceptance of the content fails a generation.
THEOREM ContentIsDelivered == Spec => AcceptedContentCompletes
<1>1. IInv /\ [Next]_vars => [(pc \in {"refine", "images", "assemble", "render"}) =>
          (outcome' # "failed")]_vars
  <2> SUFFICES ASSUME IInv, Next, pc \in Behind
               PROVE  outcome' # "failed"
    BY DEF Behind
  <2>0. outcome = "running"
    BY DEF IInv, Answered, Behind
  <2>1. CASE Delivering \/ ClientLeaves
    BY <2>0, <2>1, DeliveringEffect
  <2>2. CASE Choosing
    BY <2>2, ChoosingEffect DEF IInv, Before, Behind
  <2>3. CASE RequestContent
    BY <2>3 DEF RequestContent, Behind, ClientMissing, PromptRefused, BuildPrompt, CallFails,
       Answer, RejectInvalid, RegenerateCard, RejectForbidden, Accept, RecordSuccess, Catch,
       CatchFails
  <2> QED BY <2>1, <2>2, <2>3 DEF Next, Work
<1> QED BY <1>1, GenerationInvariance, PTL DEF Spec, AcceptedContentCompletes

---------------------------------------------------------------------------
(* What the observers are told *)

\* The steps of requestContent; the truth of a condition as a count.
Content == {"prompt", "call", "validate", "record", "catch"}
One(b) == IF b THEN 1 ELSE 0

\* The validations that are under way, or were left open by a forbidden term.
Validations ==
    CASE pc \in {"prompt", "call", "record"} -> One(repairing # 0)
      [] pc \in {"validate", "catch"} -> 1 + One(repairing # 0)
      [] pc = "done" -> One(outcome # "completed")
      [] OTHER -> 0

\* At each await the stages are open whose run it is part of.
ChoiceFollows ==
    /\ open["TEMPLATE_SELECTION"] = One(pc = "reselect")
    /\ open["IMAGE_QUERY_REFINEMENT"] = One(pc = "refine" /\ tries > 0)
    /\ open["IMAGE_RETRIEVAL"] = One(pc \in {"images", "assemble"})
    /\ pc \in Before \cup Content => tries = 0
\* A refused prompt and a lost row leave theirs open, a rejected answer its
\* validation.
ContentFollows ==
    /\ open["LLM_CONTENT_GENERATION"] = One(pc \in Content)
    /\ open["PROMPT_GENERATION"] > 0 =>
          (pc = "catch" /\ repairing = 0 /\ err = "refused") \/ outcome = "failed"
    /\ lost = 0 => open["LLM_REQUEST"] <= One(pc \in {"call", "catch"})
    /\ open["CONTENT_VALIDATION"] <= attempt - 1 + Validations
StagesFollow == ChoiceFollows /\ ContentFollows

\* At the start no stage is open.
LEMMA StagesInit == Init => StagesFollow
BY GenerationAssumption
   DEF Init, StagesFollow, ChoiceFollows, ContentFollows, Stages, One, Content, Before, Validations

\* The choice of a template opens and closes its own stage.
LEMMA StagesChoosing ==
    ASSUME IInv, StagesFollow, Choosing
    PROVE  StagesFollow'
<1> USE DEF Stages, StagesFollow, ChoiceFollows, ContentFollows, One, Content, Before, Validations,
        IInv, TypeOK, content, delivery, Begun, Closed, Selected, GiveUp, Nesting
<1>1. CASE ValidateRequest
  BY <1>1 DEF ValidateRequest
<1>2. CASE AnalyseRequest
  BY <1>2 DEF AnalyseRequest
<1>3. CASE LoadExplicitTemplate
  BY <1>3 DEF LoadExplicitTemplate
<1>4. CASE SelectTemplate
  BY <1>4 DEF SelectTemplate
<1>5. CASE SelectTemplateAgain
  BY <1>5 DEF SelectTemplateAgain
<1> QED BY <1>1, <1>2, <1>3, <1>4, <1>5 DEF Choosing

\* Every way a request goes ends what it has begun, but for the refusals.
LEMMA StagesContent ==
    ASSUME IInv, StagesFollow, RequestContent
    PROVE  StagesFollow'
<1> USE DEF Stages, StagesFollow, ChoiceFollows, ContentFollows, One, Content, Before, Validations,
        IInv, TypeOK, content, delivery, Begun, Closed, GiveUp, RepairFails, Nesting
<1>1. CASE ClientMissing
  BY <1>1 DEF ClientMissing
<1>2. CASE PromptRefused
  <2>1. CASE repairing = 0
    BY <1>2, <2>1 DEF PromptRefused
  <2>2. CASE repairing # 0
    BY <1>2, <2>2 DEF PromptRefused
  <2> QED BY <2>1, <2>2
<1>3. CASE BuildPrompt
  BY <1>3 DEF BuildPrompt
<1>4. CASE CallFails
  BY <1>4 DEF CallFails
<1>5. CASE Answer
  BY <1>5 DEF Answer
<1>6. CASE RejectInvalid
  BY <1>6 DEF RejectInvalid
<1>7. CASE RegenerateCard
  <2>1. repairing = 0
    <3>1. CASE repairing # 0
      <4>1. Cardinality({repairing}) = 1
        BY FS_Singleton
      <4> QED BY <1>7, <3>1, <4>1 DEF RegenerateCard, Asked
    <3> QED BY <3>1
  <2>2. repairing' # 0
    BY <1>7, <2>1 DEF RegenerateCard, Invalid, Asked, Cards
  <2> QED BY <1>7, <2>1, <2>2 DEF RegenerateCard
<1>8. CASE RejectForbidden
  BY <1>8 DEF RejectForbidden
<1>9. CASE Accept
  BY <1>9 DEF Accept
<1>10. CASE RecordSuccess
  BY <1>10 DEF RecordSuccess
<1>11. CASE Catch
  <2>1. outcome = "running" /\ pc = "catch"
    BY <1>11 DEF Catch, Answered
  <2>2. CASE repairing = 0
    BY <1>11, <2>1, <2>2 DEF Catch, RequestFails
  <2>3. CASE repairing # 0
    BY <1>11, <2>1, <2>3 DEF Catch
  <2> QED BY <2>2, <2>3
<1>12. CASE CatchFails
  <2>1. outcome = "running" /\ pc = "catch"
    BY <1>12 DEF CatchFails, Answered
  <2>2. CASE repairing = 0
    BY <1>12, <2>1, <2>2 DEF CatchFails
  <2>3. CASE repairing # 0
    BY <1>12, <2>1, <2>3 DEF CatchFails
  <2> QED BY <2>2, <2>3
<1> QED
  BY <1>1, <1>2, <1>3, <1>4, <1>5, <1>6, <1>7, <1>8, <1>9, <1>10, <1>11, <1>12 DEF RequestContent

\* The refinement and the retrieval follow one another.
LEMMA StagesDelivering ==
    ASSUME IInv, StagesFollow, Delivering
    PROVE  StagesFollow'
<1> USE DEF Stages, StagesFollow, ChoiceFollows, ContentFollows, One, Content, Before, Validations,
        IInv, TypeOK, content, delivery, Begun, Closed, GiveUp, Retrieving, Refining, Nesting
<1>1. CASE RefineNothing
  BY <1>1 DEF RefineNothing
<1>2. CASE RefineQueries
  <2>1. tries \in Nat
    BY GenerationAssumption
  <2>2. CASE tries = 0
    BY <1>2, <2>1, <2>2 DEF RefineQueries
  <2>3. CASE tries > 0
    BY <1>2, <2>1, <2>3 DEF RefineQueries
  <2> QED BY <2>1, <2>2, <2>3
<1>3. ASSUME NEW c \in Cards, AssembleCard(c) PROVE StagesFollow'
  BY <1>3 DEF AssembleCard
<1>4. CASE Assemble
  BY <1>4 DEF Assemble
<1>5. CASE RenderAndReturn
  BY <1>5 DEF RenderAndReturn, Answered
<1> QED BY <1>1, <1>2, <1>3, <1>4, <1>5 DEF Delivering

\* So does every step.
LEMMA StagesNext == IInv /\ StagesFollow /\ [Next]_vars => StagesFollow'
<1> SUFFICES ASSUME IInv, StagesFollow, [Next]_vars PROVE StagesFollow'
  OBVIOUS
<1>1. CASE ClientLeaves
  BY <1>1 DEF ClientLeaves, StagesFollow, ChoiceFollows, ContentFollows, One, Validations,
     content, delivery
<1>2. CASE UNCHANGED vars
  BY <1>2 DEF vars, StagesFollow, ChoiceFollows, ContentFollows, One, Validations, content, delivery
<1> QED
  BY <1>1, <1>2, StagesChoosing, StagesContent, StagesDelivering DEF Next, Work

\* At the end of an execution nothing else is left open.
LEMMA StagesAreClosed == IInv /\ StagesFollow => StagesEnd
<1> SUFFICES ASSUME IInv, StagesFollow, pc = "done" PROVE StagesEnd
  BY DEF StagesEnd
<1>1. open \in [Stages -> Nat] /\ lost \in Nat /\ attempt \in {1, 2}
  BY DEF IInv, TypeOK
<1>2. \A stage \in Stages \ {"PROMPT_GENERATION", "LLM_REQUEST", "CONTENT_VALIDATION"} :
         open[stage] = 0
  BY DEF Stages, StagesFollow, ChoiceFollows, ContentFollows, One, Content
<1>3. open["PROMPT_GENERATION"] > 0 => outcome = "failed"
  BY DEF StagesFollow, ContentFollows
<1>4. open["LLM_REQUEST"] > 0 => lost > 0
  BY <1>1 DEF Stages, StagesFollow, ContentFollows, One
<1>5. open["CONTENT_VALIDATION"] <= (IF outcome = "completed" THEN attempt - 1 ELSE attempt)
  BY <1>1 DEF Stages, StagesFollow, ContentFollows, One, Validations
<1> QED BY <1>2, <1>3, <1>4, <1>5 DEF StagesEnd

---------------------------------------------------------------------------
(* The stream *)

\* Where the stream has lines of a type, and the cards it has shown.
Written(type) == {i \in DOMAIN stream : stream[i].type = type}
CardsWritten == {stream[i].card : i \in Written("card")}

\* What the client has read, and that it has the layout before anything else.
StreamFollows ==
    ~ gone =>
        /\ CardsWritten = assembled
        /\ IsFiniteSet(Written("card"))
        /\ Cardinality(Written("card")) = Cardinality(assembled)
        /\ \A i \in Written("card") : \E j \in Written("meta") : j < i
        /\ pc \notin Before \cup {"done"} => Written("meta") # {}
        /\ Written("done") # {} <=> outcome = "completed"
        /\ Written("error") # {} <=> outcome = "failed"

\* A line is added behind the others.
LEMMA LineAdded ==
    ASSUME TypeOK, ~ gone, NEW type \in {"meta", "card", "done", "error"}, NEW card \in 0..NCards,
           Write(type, card)
    PROVE  \E n \in Nat :
             /\ DOMAIN stream = 1..n /\ DOMAIN stream' = 1..n + 1
             /\ \A i \in 1..n : stream'[i] = stream[i]
             /\ stream'[n + 1] = [type |-> type, card |-> card]
             /\ n + 1 \notin Written(type) /\ Written(type)' = Written(type) \cup {n + 1}
             /\ \A t : t # type => Written(t)' = Written(t)
             /\ \A t : \A i \in Written(t) : i < n + 1 /\ i \in 1..n
<1> DEFINE line == [type |-> type, card |-> card]
<1>1. line \in StreamEvents /\ stream \in Seq(StreamEvents)
  BY DEF StreamEvents, TypeOK
<1>2. stream' = Append(stream, line)
  BY DEF Write
<1>3. PICK n \in Nat : n = Len(stream)
  BY <1>1
<1>4. DOMAIN stream = 1..n /\ DOMAIN stream' = 1..n + 1
  BY <1>1, <1>2, <1>3
<1>5. (\A i \in 1..n : stream'[i] = stream[i]) /\ stream'[n + 1] = line
  BY <1>1, <1>2, <1>3
<1>6. \A t : Written(t)' = {i \in 1..n : stream[i].type = t}
                             \cup (IF t = type THEN {n + 1} ELSE {})
  BY <1>4, <1>5 DEF Written
<1>7. \A t : Written(t) = {i \in 1..n : stream[i].type = t}
  BY <1>4 DEF Written
<1>8. \A t : \A i \in Written(t) : i \in 1..n
  BY <1>7
<1>9. \A i \in 1..n : i < n + 1 /\ i # n + 1
  OBVIOUS
<1>10. Written(type)' = Written(type) \cup {n + 1} /\ \A t : t # type => Written(t)' = Written(t)
  BY <1>6, <1>7
<1> QED BY <1>3, <1>4, <1>5, <1>8, <1>9, <1>10

\* How a step writes to a client that is there.
Silent ==
    /\ UNCHANGED <<stream, assembled, outcome, gone>>
    /\ pc # "done" /\ (pc \in Before => pc' \in Before \cup {"done"})
Meta ==
    /\ Write("meta", 0) /\ pc' = "prompt" /\ UNCHANGED <<assembled, outcome, gone>>
CardReady(c) ==
    /\ Write("card", c) /\ pc \notin Before \cup {"done"} /\ c \notin assembled
    /\ assembled' = assembled \cup {c} /\ UNCHANGED <<outcome, gone>>
Ended ==
    /\ pc' = "done" /\ outcome = "running" /\ UNCHANGED <<assembled, gone>>
    /\ \/ Write("error", 0) /\ outcome' = "failed"
       \/ Write("done", 0) /\ outcome' = "completed"

\* Every step writes in one of these ways, or there is no client.
LEMMA StepWrites ==
    ASSUME IInv, Next
    PROVE  gone' \/ Silent \/ Meta \/ (\E c \in Cards : CardReady(c)) \/ Ended
<1> USE DEF content, delivery, Silent, Meta, Ended, GiveUp, IInv, Answered
<1>1. CASE Choosing
  <2> USE DEF Selected, Before
  <2>1. CASE ValidateRequest
    BY <2>1 DEF ValidateRequest
  <2>2. CASE AnalyseRequest
    BY <2>2 DEF AnalyseRequest
  <2>3. CASE LoadExplicitTemplate
    BY <2>3 DEF LoadExplicitTemplate
  <2>4. CASE SelectTemplate
    BY <2>4 DEF SelectTemplate
  <2>5. CASE SelectTemplateAgain
    BY <2>5 DEF SelectTemplateAgain
  <2> QED BY <1>1, <2>1, <2>2, <2>3, <2>4, <2>5 DEF Choosing
<1>2. CASE RequestContent
  <2>1. pc \notin Before
    BY <1>2 DEF RequestContent, Before, ClientMissing, PromptRefused, BuildPrompt, CallFails,
       Answer, RejectInvalid, RegenerateCard, RejectForbidden, Accept, RecordSuccess, Catch,
       CatchFails
  <2>2. CASE ClientMissing \/ PromptRefused \/ Catch \/ CatchFails
    BY <2>1, <2>2 DEF ClientMissing, PromptRefused, Catch, CatchFails, RequestFails, RepairFails
  <2> QED BY <1>2, <2>1, <2>2 DEF RequestContent, BuildPrompt, CallFails, Answer, RejectInvalid,
             RegenerateCard, RejectForbidden, Accept, RecordSuccess
<1>3. CASE Delivering
  <2>1. pc \notin Before
    BY <1>3 DEF Delivering, Before, RefineNothing, RefineQueries, AssembleCard, Assemble,
       RenderAndReturn
  <2>2. CASE RefineNothing \/ RefineQueries
    BY <2>1, <2>2 DEF RefineNothing, RefineQueries, Retrieving
  <2>3. ASSUME NEW c \in Cards, AssembleCard(c) PROVE CardReady(c)
    BY <2>1, <2>3 DEF AssembleCard, CardReady
  <2>4. CASE Assemble
    BY <2>1, <2>4 DEF Assemble
  <2>5. CASE RenderAndReturn
    BY <2>5 DEF RenderAndReturn
  <2> QED BY <1>3, <2>2, <2>3, <2>4, <2>5 DEF Delivering
<1>4. CASE ClientLeaves
  BY <1>4 DEF ClientLeaves
<1> QED BY <1>1, <1>2, <1>3, <1>4 DEF Next, Work

\* Each of them keeps what the client has read true.
LEMMA StreamNext == IInv /\ StreamFollows /\ [Next]_vars => StreamFollows'
<1> SUFFICES ASSUME IInv, StreamFollows, [Next]_vars, ~ gone' PROVE StreamFollows'
  BY DEF StreamFollows
<1>1. CASE UNCHANGED vars
  BY <1>1 DEF vars, delivery, StreamFollows, Written, CardsWritten
<1>2. CASE Next
  <2>1. TypeOK /\ ~ gone
    BY <1>2 DEF IInv, Next, Work, Choosing, RequestContent, Delivering, ClientLeaves,
         ValidateRequest, AnalyseRequest, LoadExplicitTemplate, SelectTemplate,
         SelectTemplateAgain, ClientMissing, PromptRefused, BuildPrompt, CallFails, Answer,
         RejectInvalid, RegenerateCard, RejectForbidden, Accept, RecordSuccess, Catch,
         CatchFails, RefineNothing, RefineQueries, AssembleCard, Assemble, RenderAndReturn
  <2>2. 0 \in 0..NCards
    BY GenerationAssumption
  <2>3. CASE Silent
    BY <2>1, <2>3 DEF StreamFollows, Written, CardsWritten, Silent
  <2>4. CASE Meta
    <3>1. PICK n \in Nat :
             /\ \A i \in 1..n : stream'[i] = stream[i]
             /\ Written("meta")' = Written("meta") \cup {n + 1}
             /\ \A t : t # "meta" => Written(t)' = Written(t)
             /\ \A t : \A i \in Written(t) : i < n + 1 /\ i \in 1..n
      BY <2>1, <2>2, <2>4, LineAdded DEF Meta
    <3>2. CardsWritten' = CardsWritten
      BY <3>1 DEF CardsWritten
    <3> QED BY <2>1, <2>4, <3>1, <3>2 DEF StreamFollows, Meta, Before
  <2>5. ASSUME NEW c \in Cards, CardReady(c) PROVE StreamFollows'
    <3>1. PICK n \in Nat :
             /\ \A i \in 1..n : stream'[i] = stream[i]
             /\ stream'[n + 1] = [type |-> "card", card |-> c]
             /\ n + 1 \notin Written("card") /\ Written("card")' = Written("card") \cup {n + 1}
             /\ \A t : t # "card" => Written(t)' = Written(t)
             /\ \A t : \A i \in Written(t) : i < n + 1 /\ i \in 1..n
      <4>1. c \in 0..NCards /\ Write("card", c)
        BY <2>5 DEF Cards, CardReady
      <4> QED BY <2>1, <4>1, LineAdded
    <3>2. CardsWritten' = CardsWritten \cup {c}
      BY <3>1 DEF CardsWritten
    <3>3. /\ IsFiniteSet(Written("card")')
          /\ Cardinality(Written("card")') = Cardinality(assembled')
      <4>1. IsFiniteSet(Cards)
        BY GenerationAssumption, FS_Interval DEF Cards
      <4>2. IsFiniteSet(assembled)
        BY <2>1, <4>1, FS_Subset DEF TypeOK
      <4>3. Cardinality(assembled \cup {c}) = Cardinality(assembled) + 1
        BY <2>5, <4>2, FS_AddElement DEF CardReady
      <4>4. IsFiniteSet(Written("card")) /\ Cardinality(Written("card")) = Cardinality(assembled)
        BY <2>1 DEF StreamFollows
      <4>5. /\ IsFiniteSet(Written("card") \cup {n + 1})
            /\ Cardinality(Written("card") \cup {n + 1}) = Cardinality(Written("card")) + 1
        BY <3>1, <4>4, FS_AddElement
      <4> QED BY <2>5, <3>1, <4>3, <4>4, <4>5 DEF CardReady
    <3>4. \A i \in Written("card")' : \E j \in Written("meta")' : j < i
      BY <2>1, <2>5, <3>1 DEF StreamFollows, CardReady
    <3> QED BY <2>1, <2>5, <3>1, <3>2, <3>3, <3>4 DEF StreamFollows, CardReady
  <2>6. CASE Ended
    <3>1. PICK type \in {"error", "done"} :
             /\ Write(type, 0)
             /\ outcome' = IF type = "error" THEN "failed" ELSE "completed"
      BY <2>6 DEF Ended
    <3>2. PICK n \in Nat :
             /\ \A i \in 1..n : stream'[i] = stream[i]
             /\ Written(type)' = Written(type) \cup {n + 1}
             /\ \A t : t # type => Written(t)' = Written(t)
             /\ \A t : \A i \in Written(t) : i < n + 1 /\ i \in 1..n
      <4>1. type \in {"meta", "card", "done", "error"}
        BY <3>1
      <4>2. Write(type, 0)
        BY <3>1
      <4> QED BY <2>1, <2>2, <4>1, <4>2, LineAdded
    <3>3. CardsWritten' = CardsWritten
      BY <3>1, <3>2 DEF CardsWritten
    <3> QED BY <2>1, <2>6, <3>1, <3>2, <3>3 DEF StreamFollows, Ended
  <2> QED BY <1>2, <2>3, <2>4, <2>5, <2>6, StepWrites
<1> QED BY <1>1, <1>2

\* At the start nothing is written.
LEMMA StreamInit == Init => StreamFollows
<1> SUFFICES ASSUME Init PROVE StreamFollows
  OBVIOUS
<1>1. \A t : Written(t) = {}
  BY DEF Init, Written
<1>2. CardsWritten = {} /\ assembled = {}
  BY <1>1 DEF CardsWritten, Init
<1> QED BY <1>1, <1>2, FS_EmptySet DEF StreamFollows, Init, Before

\* That is what the stream should tell.
LEMMA StreamIsTrue == IInv /\ StreamFollows => StreamTellsTheTruth
BY DEF IInv, Answered, StreamFollows, StreamTellsTheTruth, Written, CardsWritten

\* Neither the client nor the tracker is told of a generation that did not
\* happen: the stream has the layout before the first card, every card that is
\* ready once, and one last word that is the outcome; and the stages of an
\* execution that has ended have ended, but for the refused and the lost.
THEOREM ObserversKnow == Spec => []ObserversAreToldTheTruth
<1>1. Init => IInv /\ StagesFollow /\ StreamFollows
  BY GenerationInit, StagesInit, StreamInit
<1>2. IInv /\ StagesFollow /\ StreamFollows /\ [Next]_vars
        => (IInv /\ StagesFollow /\ StreamFollows)'
  BY GenerationNext, StagesNext, StreamNext
<1>3. IInv /\ StagesFollow /\ StreamFollows => ObserversAreToldTheTruth
  BY StagesAreClosed, StreamIsTrue DEF ObserversAreToldTheTruth
<1> QED BY <1>1, <1>2, <1>3, PTL DEF Spec
=============================================================================
