------------------------ MODULE FlashcardGeneration ------------------------
(***************************************************************************)
(* One flashcard generation, from the request to the end of its stream:    *)
(* checks, template selection, the request to the language model with the  *)
(* repair of single cards and one full retry, the refinement of the image  *)
(* queries, the assembly of the cards, rendering, and the events the       *)
(* pipeline tracker and a streaming client are told.                       *)
(*                                                                         *)
(* requestContent calls itself for one card while it validates a set:      *)
(* repairing is 0 in the outer call and names the card in the inner one.   *)
(* The breaker, the limiter and the provider are what they look like from  *)
(* here, a call that answers or throws; ProviderCalls models them.  The    *)
(* slots of a card are one step; ImageRetrieval models them.               *)
(***************************************************************************)
EXTENDS Integers, Sequences, FiniteSets

CONSTANTS
    NCards,             \* the count asked for
    CardConcurrency,    \* flashcards.cardConcurrency
    MaxRefineAttempts   \* attempts of the query refinement

ASSUME GenerationAssumption ==
    {NCards, CardConcurrency, MaxRefineAttempts} \subseteq Nat \ {0}

Cards == 1..NCards

VARIABLES
    pc,         \* where the generation is
    attempt,    \* the full request, 1 or 2
    repairing,  \* the card an inner request is for, 0 in the outer one
    cards,      \* the cards of the last answer, as the validators see them
    err,        \* the error on its way up
    requests,   \* requests to the model so far
    usage,      \* usage rows written
    lost,       \* usage rows that could not be written
    tries,      \* attempts at refining the queries
    tainted,    \* cards whose queries the refinement gave a forbidden term
    assembled,  \* cards with their images
    open,       \* the runs of a stage that have begun and not ended
    stream,     \* what was written to the client
    gone,       \* the client has closed the connection
    outcome     \* of the execution

content == <<attempt, repairing, cards, err, requests, usage, lost>>
delivery == <<tries, tainted, assembled>>
vars == <<pc, content, delivery, open, stream, gone, outcome>>

Steps == {"validateRequest", "analyse", "select", "reselect", "prompt", "call",
          "validate", "record", "catch", "refine", "images", "assemble",
          "render", "done"}
\* A card breaks the template, has a forbidden term, or passes.
Qualities == {"none", "invalid", "forbidden", "good"}
\* INVALID_LLM_OUTPUT, LLM_TIMEOUT, CONTENT_NOT_ALLOWED.
Errors == {"none", "invalid", "timeout", "refused"}
\* The stages whose start and end an await or an inner request separates.
Stages == {"TEMPLATE_SELECTION", "LLM_CONTENT_GENERATION", "PROMPT_GENERATION",
           "LLM_REQUEST", "CONTENT_VALIDATION", "IMAGE_QUERY_REFINEMENT",
           "IMAGE_RETRIEVAL"}
StreamEvents == [type : {"meta", "card", "done", "error"}, card : 0..NCards]

TypeOK ==
    /\ pc \in Steps
    /\ attempt \in {1, 2}
    /\ repairing \in 0..NCards
    /\ cards \in [Cards -> Qualities]
    /\ err \in Errors
    /\ {requests, usage, lost} \subseteq Nat
    /\ tries \in 0..MaxRefineAttempts - 1
    /\ tainted \subseteq Cards
    /\ assembled \subseteq Cards
    /\ open \in [Stages -> Nat]
    /\ stream \in Seq(StreamEvents)
    /\ gone \in BOOLEAN
    /\ outcome \in {"running", "completed", "failed"}

Init ==
    /\ pc = "validateRequest"
    /\ attempt = 1 /\ repairing = 0 /\ err = "none"
    /\ cards = [c \in Cards |-> "none"]
    /\ requests = 0 /\ usage = 0 /\ lost = 0
    /\ tries = 0 /\ tainted = {} /\ assembled = {}
    /\ open = [stage \in Stages |-> 0] /\ stream = <<>> /\ gone = FALSE
    /\ outcome = "running"

---------------------------------------------------------------------------
(* Events *)

\* Stage events, as far as the tracker's rows stay open: an end closes a run of
\* its stage, and without one it is a row of its own.  A run without an await
\* between its start and its end, and a stage that is skipped, leave no trace.
Begun(o, stage) == [o EXCEPT ![stage] = @ + 1]
Closed(o, stage) == [o EXCEPT ![stage] = IF @ = 0 THEN 0 ELSE @ - 1]

\* The controller's write: nothing once the client is gone.
Write(type, card) ==
    stream' = IF gone THEN stream
              ELSE Append(stream, [type |-> type, card |-> card])

\* generate's catch and the controller's: the execution fails.
GiveUp(o) ==
    /\ open' = o
    /\ outcome' = "failed"
    /\ pc' = "done"
    /\ Write("error", 0)

---------------------------------------------------------------------------
(* The request and its template *)

ValidateRequest ==
    /\ pc = "validateRequest"
    /\ \/ pc' = "analyse" /\ UNCHANGED <<open, stream, outcome>>
       \/ GiveUp(open)
    /\ UNCHANGED <<content, delivery, gone>>

\* The rule signals cannot be read, or the request names a forbidden topic.
AnalyseRequest ==
    /\ pc = "analyse"
    /\ \/ pc' = "select" /\ UNCHANGED <<open, stream, outcome>>
       \/ GiveUp(open)
    /\ UNCHANGED <<content, delivery, gone>>

\* The client is told the layout before the model is asked.
Selected(o) ==
    /\ open' = Begun(o, "LLM_CONTENT_GENERATION")
    /\ pc' = "prompt"
    /\ Write("meta", 0)
    /\ UNCHANGED outcome

\* Both selection stages are skipped.
LoadExplicitTemplate ==
    /\ pc = "select"
    /\ Selected(open) \/ GiveUp(open)
    /\ UNCHANGED <<content, delivery, gone>>

\* One more try when the chosen template has become inactive.
SelectTemplate ==
    /\ pc = "select"
    /\ \/ Selected(open)
       \/ GiveUp(open)
       \/ /\ open' = Begun(open, "TEMPLATE_SELECTION")
          /\ pc' = "reselect"
          /\ UNCHANGED <<stream, outcome>>
    /\ UNCHANGED <<content, delivery, gone>>

SelectTemplateAgain ==
    /\ pc = "reselect"
    /\ \/ Selected(Closed(open, "TEMPLATE_SELECTION"))
       \/ GiveUp(Closed(open, "TEMPLATE_SELECTION"))
    /\ UNCHANGED <<content, delivery, gone>>
---------------------------------------------------------------------------
(* requestContent *)

\* The cards the running request asked for.
Asked == IF repairing = 0 THEN Cards ELSE {repairing}
Invalid == {c \in Asked : cards[c] = "invalid"}
Forbidden == {c \in Asked : cards[c] = "forbidden"}

\* The inner request has thrown e, which fails the validation of the outer one.
RepairFails(o, e) ==
    /\ open' = Closed(o, "CONTENT_VALIDATION")
    /\ repairing' = 0
    /\ err' = e
    /\ pc' = "catch"
    /\ UNCHANGED <<stream, outcome>>

\* No client for the provider: thrown before the first event.
ClientMissing ==
    /\ pc = "prompt" /\ attempt = 1 /\ repairing = 0
    /\ GiveUp(Closed(open, "LLM_CONTENT_GENERATION"))
    /\ UNCHANGED <<content, delivery, gone>>

\* A forbidden term in the prompt's inputs.  The list may have been reloaded
\* since the request was analysed.
PromptRefused ==
    LET o == Begun(open, "PROMPT_GENERATION")
    IN  /\ pc = "prompt"
        /\ \/ /\ repairing = 0
              /\ GiveUp(Closed(o, "LLM_CONTENT_GENERATION"))
              /\ UNCHANGED <<repairing, err>>
           \/ /\ repairing # 0
              /\ RepairFails(o, "refused")
        /\ UNCHANGED <<attempt, cards, requests, usage, lost, delivery, gone>>

BuildPrompt ==
    /\ pc = "prompt"
    /\ open' = Begun(open, "LLM_REQUEST")
    /\ requests' = requests + 1
    /\ pc' = "call"
    /\ UNCHANGED <<attempt, repairing, cards, err, usage, lost, delivery, stream,
                   gone, outcome>>

\* Rejected by the breaker, failed, timed out, empty or not JSON.
CallFails ==
    /\ pc = "call"
    /\ err' \in {"invalid", "timeout"}
    /\ pc' = "catch"
    /\ UNCHANGED <<attempt, repairing, cards, requests, usage, lost, delivery,
                   open, stream, gone, outcome>>

\* Mutant: the corrected card is taken for the first one of the set.
AnswerFirst ==
    LET o == Begun(Closed(open, "LLM_REQUEST"), "CONTENT_VALIDATION")
    IN  /\ pc = "call"
        /\ open' = o
        /\ \E new \in [1..Cardinality(Asked) -> Qualities \ {"none"}] :
              cards' = [c \in Cards |-> IF c \in DOMAIN new THEN new[c]
                                        ELSE cards[c]]
        /\ pc' = "validate"
        /\ UNCHANGED <<attempt, repairing, err, requests, usage, lost, delivery,
                       stream, gone, outcome>>

\* An answer: not a list of the right length, or a list of cards.
Answer ==
    LET o == Begun(Closed(open, "LLM_REQUEST"), "CONTENT_VALIDATION")
    IN  /\ pc = "call"
        /\ \/ /\ open' = Closed(o, "CONTENT_VALIDATION")
              /\ err' = "invalid"
              /\ pc' = "catch"
              /\ UNCHANGED cards
           \/ /\ open' = o
              /\ \E new \in [Asked -> Qualities \ {"none"}] :
                    cards' = [c \in Cards |-> IF c \in Asked THEN new[c]
                                              ELSE cards[c]]
              /\ pc' = "validate"
              /\ UNCHANGED err
        /\ UNCHANGED <<attempt, repairing, requests, usage, lost, delivery,
                       stream, gone, outcome>>

\* A single card cannot be repaired.
RejectInvalid ==
    /\ pc = "validate"
    /\ Invalid # {} /\ Cardinality(Asked) = 1
    /\ open' = Closed(open, "CONTENT_VALIDATION")
    /\ err' = "invalid"
    /\ pc' = "catch"
    /\ UNCHANGED <<attempt, repairing, cards, requests, usage, lost, delivery,
                   stream, gone, outcome>>

\* regenerateCard, for the next card that is invalid.
RegenerateCard ==
    /\ pc = "validate"
    /\ Cardinality(Asked) > 1
    /\ \E c \in Invalid :
          /\ \A d \in Invalid : c <= d
          /\ repairing' = c
    /\ pc' = "prompt"
    /\ UNCHANGED <<attempt, cards, err, requests, usage, lost, delivery, open,
                   stream, gone, outcome>>

\* scanCardsForForbiddenContent, behind the validation's own try.
RejectForbidden ==
    /\ pc = "validate"
    /\ Invalid = {} /\ Forbidden # {}
    /\ err' = "invalid"
    /\ pc' = "catch"
    /\ UNCHANGED <<attempt, repairing, cards, requests, usage, lost, delivery,
                   open, stream, gone, outcome>>

\* Mutant: the scan for forbidden terms is left out.
AcceptUnscanned ==
    /\ pc = "validate"
    /\ Invalid = {}
    /\ open' = Closed(open, "CONTENT_VALIDATION")
    /\ pc' = "record"
    /\ UNCHANGED <<content, delivery, stream, gone, outcome>>

Accept ==
    /\ pc = "validate"
    /\ Invalid = {} /\ Forbidden = {}
    /\ open' = Closed(open, "CONTENT_VALIDATION")
    /\ pc' = "record"
    /\ UNCHANGED <<content, delivery, stream, gone, outcome>>

\* Mutant: what fails behind the row of a success writes another one.
RecordTwice ==
    /\ pc = "record"
    /\ usage' = usage + 1
    /\ err' \in {"invalid", "timeout"}
    /\ pc' = "catch"
    /\ UNCHANGED <<attempt, repairing, cards, requests, lost, delivery, open,
                   stream, gone, outcome>>

\* The usage row of a success is written inside the try: if that fails the
\* request has failed.
RecordSuccess ==
    /\ pc = "record"
    /\ \/ /\ usage' = usage + 1
          /\ repairing = 0
          /\ open' = Closed(open, "LLM_CONTENT_GENERATION")
          /\ pc' = "refine"
          /\ UNCHANGED <<repairing, err>>
       \/ /\ usage' = usage + 1
          /\ repairing # 0
          /\ repairing' = 0
          /\ pc' = "validate"
          /\ UNCHANGED <<err, open>>
       \/ /\ err' \in {"invalid", "timeout"}
          /\ pc' = "catch"
          /\ UNCHANGED <<repairing, open, usage>>
    /\ UNCHANGED <<attempt, cards, requests, lost, delivery, stream, gone, outcome>>

\* generateContent: one full retry, after INVALID_LLM_OUTPUT only.
RequestFails(o) ==
    \/ /\ err = "invalid" /\ attempt = 1
       /\ attempt' = 2
       /\ open' = o
       /\ pc' = "prompt"
       /\ UNCHANGED <<stream, outcome>>
    \/ /\ ~ (err = "invalid" /\ attempt = 1)
       /\ GiveUp(Closed(o, "LLM_CONTENT_GENERATION"))
       /\ UNCHANGED attempt

\* The catch of requestContent: usage row, LLM_REQUEST failed, rethrow.
Catch ==
    /\ pc = "catch"
    /\ usage' = usage + 1
    /\ \/ /\ repairing = 0
          /\ RequestFails(Closed(open, "LLM_REQUEST"))
          /\ UNCHANGED <<repairing, err>>
       \/ /\ repairing # 0
          /\ RepairFails(Closed(open, "LLM_REQUEST"), err)
          /\ UNCHANGED attempt
    /\ UNCHANGED <<cards, requests, lost, delivery, gone>>

\* The usage row cannot be written: that error goes up instead, and only an
\* outer catch gives it a code.
CatchFails ==
    /\ pc = "catch"
    /\ lost' = lost + 1
    /\ \/ /\ repairing = 0
          /\ GiveUp(Closed(open, "LLM_CONTENT_GENERATION"))
          /\ UNCHANGED <<repairing, err>>
       \/ /\ repairing # 0
          /\ \E e \in {"invalid", "timeout"} : RepairFails(open, e)
    /\ UNCHANGED <<attempt, cards, requests, usage, delivery, gone>>

---------------------------------------------------------------------------
(* refineQueries *)

Refining == IF tries = 0 THEN Begun(open, "IMAGE_QUERY_REFINEMENT") ELSE open

Retrieving(o) ==
    /\ open' = Begun(o, "IMAGE_RETRIEVAL")
    /\ pc' = "images"
    /\ UNCHANGED tries

\* Disabled, without a client or without a slot: no stage, no call.
RefineNothing ==
    /\ pc = "refine" /\ tries = 0
    /\ Retrieving(open)
    /\ UNCHANGED <<content, tainted, assembled, stream, gone, outcome>>

\* applyRefinements writes the model's queries over those of the scanned cards, and
\* nothing scans them again.
ApplyRefinements == tainted' \in SUBSET Cards
\* Every error leaves the original queries; a client error and an empty answer are
\* not tried again.
RefineQueries ==
    /\ pc = "refine"
    /\ \/ /\ Retrieving(Closed(Refining, "IMAGE_QUERY_REFINEMENT"))
          /\ ApplyRefinements
       \/ /\ tries + 1 < MaxRefineAttempts
          /\ tries' = tries + 1
          /\ open' = Refining
          /\ UNCHANGED <<pc, tainted>>
    /\ UNCHANGED <<content, assembled, stream, gone, outcome>>

---------------------------------------------------------------------------
(* Assembly, rendering, return *)

\* Mutant: the client is told the slot by arrival.
AssembleAsNext(c) ==
    /\ pc = "images"
    /\ c \notin assembled
    /\ c <= Cardinality(assembled) + CardConcurrency
    /\ assembled' = assembled \cup {c}
    /\ Write("card", Cardinality(assembled'))
    /\ pc' = IF assembled' = Cards THEN "assemble" ELSE "images"
    /\ UNCHANGED <<content, tries, tainted, open, gone, outcome>>

\* Mutant: a worker takes one card.
AssembleOnce(c) ==
    /\ pc = "images"
    /\ c \notin assembled
    /\ c <= CardConcurrency
    /\ assembled' = assembled \cup {c}
    /\ Write("card", c)
    /\ pc' = IF assembled' = Cards THEN "assemble" ELSE "images"
    /\ UNCHANGED <<content, tries, tainted, open, gone, outcome>>

\* A pool of CardConcurrency workers takes the cards in order; a card is sent
\* as soon as its images are there.
AssembleCard(c) ==
    /\ pc = "images"
    /\ c \notin assembled
    /\ c <= Cardinality(assembled) + CardConcurrency
    /\ assembled' = assembled \cup {c}
    /\ Write("card", c)
    /\ pc' = IF assembled' = Cards THEN "assemble" ELSE "images"
    /\ UNCHANGED <<content, tries, tainted, open, gone, outcome>>

\* assertFinalResponse: every card once, made as its template says.
Assemble ==
    LET o == Closed(open, "IMAGE_RETRIEVAL")
    IN  /\ pc = "assemble"
        /\ IF assembled = Cards /\ \A c \in Cards : cards[c] # "invalid"
           THEN /\ open' = o
                /\ pc' = "render"
                /\ UNCHANGED <<stream, outcome>>
           ELSE GiveUp(o)
        /\ UNCHANGED <<content, delivery, gone>>

\* runRenderingStage catches what render throws.
RenderAndReturn ==
    /\ pc = "render"
    /\ outcome' = "completed"
    /\ pc' = "done"
    /\ Write("done", 0)
    /\ UNCHANGED <<content, delivery, open, gone>>

ClientLeaves ==
    /\ ~ gone /\ pc # "done"
    /\ gone' = TRUE
    /\ UNCHANGED <<pc, content, delivery, open, stream, outcome>>

---------------------------------------------------------------------------
Choosing == ValidateRequest \/ AnalyseRequest \/ LoadExplicitTemplate
            \/ SelectTemplate \/ SelectTemplateAgain
RequestContent == ClientMissing \/ PromptRefused \/ BuildPrompt \/ CallFails
                  \/ Answer \/ RejectInvalid \/ RegenerateCard \/ RejectForbidden
                  \/ Accept \/ RecordSuccess \/ Catch \/ CatchFails
Delivering == RefineNothing \/ RefineQueries
              \/ (\E c \in Cards : AssembleCard(c)) \/ Assemble \/ RenderAndReturn

Work == Choosing \/ RequestContent \/ Delivering
Next == Work \/ ClientLeaves
Spec == Init /\ [][Next]_vars
\* Every await returns or throws.
FairSpec == Spec /\ WF_vars(Work)
---------------------------------------------------------------------------
(* Properties *)

\* A completed generation returns every card once, each of them made from
\* content that was found valid and free of forbidden terms, whichever request,
\* repair or retry it comes from.  That is the content the model was asked for:
\* the image queries are refined after the scan (NothingForbiddenReturned).
AnswerIsWhole ==
    outcome = "completed" =>
        assembled = Cards /\ \A c \in Cards : cards[c] = "good"

\* A generation asks the model at most twice for the set and, for each answer,
\* once for each of its cards: repairs are not repaired, retries not retried.
RequestsBounded == requests <= 2 * (NCards + 1)

\* The requests that have begun and have not returned or thrown.
InFlight ==
    (IF pc \in {"call", "validate", "record", "catch"} THEN 1 ELSE 0)
    + (IF repairing # 0 THEN 1 ELSE 0)

\* Every request to the model leaves one usage row, whether it succeeds, fails,
\* or fails because its own success could not be recorded; the only rows
\* missing are those of failures that could not be written.
OneRowPerRequest == usage + lost + InFlight = requests

\* No request to the model is free and none is endless.
RequestsAccounted == OneRowPerRequest /\ RequestsBounded

\* When the execution has ended its stages have, but for a prompt that was
\* refused, a request whose usage row was lost, and one validation for each of
\* the full answers that were rejected.
StagesEnd ==
    pc = "done" =>
        /\ \A stage \in Stages :
              open[stage] > 0 =>
                  \/ stage = "PROMPT_GENERATION" /\ outcome = "failed"
                  \/ stage = "LLM_REQUEST" /\ lost > 0
                  \/ stage = "CONTENT_VALIDATION"
        /\ open["CONTENT_VALIDATION"]
              <= (IF outcome = "completed" THEN attempt - 1 ELSE attempt)

\* What the client reads is what happened: the layout before the first card, no
\* card twice, "done" only behind all cards, "error" only for a failure.
StreamTellsTheTruth ==
    LET Sent(type) == {i \in DOMAIN stream : stream[i].type = type}
        SentCards == {stream[i].card : i \in Sent("card")}
    IN  ~ gone =>
        /\ SentCards = assembled /\ Cardinality(Sent("card")) = Cardinality(assembled)
        /\ \A i \in Sent("card") : \E j \in Sent("meta") : j < i
        /\ Sent("done") # {} <=> outcome = "completed"
        /\ Sent("error") # {} <=> outcome = "failed"
        /\ Sent("done") # {} => SentCards = Cards

\* Neither the client's stream nor the pipeline tracker shows a generation that
\* did not happen.
ObserversAreToldTheTruth == StreamTellsTheTruth /\ StagesEnd

\* A repair changes the card it is for and no other.
RepairKeepsTheRest ==
    [][repairing # 0 =>
        \A c \in Cards \ {repairing} : (cards'[c] = cards[c])]_vars

\* Content that was accepted reaches the client: neither the queries, nor the
\* images, the final validation or the rendering fail the generation any more.
AcceptedContentCompletes ==
    [][(pc \in {"refine", "images", "assemble", "render"}) =>
        (outcome' # "failed")]_vars

\* Every generation ends.
EveryGenerationEnds == <>(pc = "done")

\* Statements of the documents that the code does not keep.

\* The output guard: no card a completed generation returns has a forbidden
\* term that the model has slipped in, neither in its content nor in the image
\* queries it goes by, which an asset reference names (queryUsed).
NothingForbiddenReturned ==
    outcome = "completed" => \A c \in Cards : cards[c] = "good" /\ c \notin tainted

\* "Never regenerate the complete flashcard set" for cards that fail.
NeverRegeneratesTheSet ==
    [][(\E c \in Cards : cards[c] = "good") => (attempt' = attempt)]_vars

\* An execution shown as completed has no stage shown as running.
NoStageLeftRunning ==
    outcome = "completed" => \A stage \in Stages : open[stage] = 0
=============================================================================
