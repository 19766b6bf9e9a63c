------------------------ MODULE WorksheetGeneration ------------------------
(***************************************************************************)
(* The generation of a set of worksheets and the stream it is answered on: *)
(* the checks of the request, the choice of a template, one call for the   *)
(* contents of all sheets, one search for all their pictures, and the HTML *)
(* of each.  The sheets are not stored: their ids are temporary.           *)
(***************************************************************************)
EXTENDS WorksheetSelection, WorksheetStructure, Lists

CONSTANTS
    Payloads,       \* documents the model may answer with, some to each order
    Found,          \* assets the search may find
    DefaultCount, MaxCount,     \* worksheets.generateCount...
    SearchAttempts  \* embeddingMaxAttempts

ASSUME GenerationAssumption ==
    /\ DefaultCount \in Nat \ {0} /\ MaxCount \in Nat /\ DefaultCount <= MaxCount
    /\ SearchAttempts \in Nat \ {0} /\ Found \subseteq Assets
    /\ \A t \in Payloads : IsTree(t)

VARIABLES
    payload,    \* what the model answered with
    sheets,     \* the worksheets of each request
    tried,      \* failed attempts at its search
    composed,   \* sheets whose HTML has been made, or has failed
    open,       \* stages that have begun and not ended
    sent,       \* the lines of its stream
    gone        \* its client has closed the connection

stream == <<sent, gone>>
batch == <<payload, sheets, tried, composed>>
sheetVars == <<sheetSelectionVars, batch, open, stream>>

\* What is not JSON comes to the same as a text.
Unreadable == Leaf("")
Stages == {"TEMPLATE_SELECTION", "LLM_CONTENT_GENERATION", "LLM_REQUEST", "IMAGE_RETRIEVAL"}
Line(type, n) == [type |-> type, n |-> n]

SheetTypeOK ==
    /\ step \in [Orders -> SelectionSteps \cup {"validate", "picked", "request", "content",
                     "contentRow", "contentCatch", "search", "compose", "drain", "refused",
                     "done", "failed"}]
    /\ \A g \in Orders : picked[g] \in DOMAIN Library \cup {None} /\ open[g] \subseteq Stages
    /\ \A g \in Orders : picked[g] = None =>
           step[g] \in SelectionSteps \cup {"validate", "refused", "done", "failed"}
    /\ \A g \in Orders, c \in Calls : told[g][c] \in Seq(BOOLEAN) /\ billed[g][c] \in Seq(BOOLEAN)
    /\ \A b \in DOMAIN tripped : tripped[b] \in 0..SheetThreshold
    /\ \A g \in Orders : \A i \in DOMAIN sheets[g] : IsTree(sheets[g][i])
    /\ \A g \in Orders : composed[g] \in 0..Len(sheets[g]) /\ tried[g] \in 0..SearchAttempts

SheetInit ==
    /\ step = [g \in Orders |-> IF order[g].idle THEN "done" ELSE "validate"]
    /\ fitting = [g \in Orders |-> {}]
    /\ hints = [g \in Orders |-> Empty(order[g])]
    /\ answer = [g \in Orders |-> NoAnswer] /\ picked = [g \in Orders |-> None]
    /\ told = [g \in Orders |-> [c \in Calls |-> <<>>]] /\ billed = told
    /\ tripped = [b \in {"selection", "content"} |-> 0]
    /\ library = Released
    /\ payload = [g \in Orders |-> Unreadable] /\ sheets = [g \in Orders |-> <<>>]
    /\ tried = [g \in Orders |-> 0] /\ composed = [g \in Orders |-> 0]
    /\ open = [g \in Orders |-> {}]
    /\ sent = [g \in Orders |-> <<>>] /\ gone = [g \in Orders |-> FALSE]

-----------------------------------------------------------------------------
(* What of a payload is a worksheet.                                       *)

Holder(t) == \E k \in {"items", "pairs", "questions"} : IsArray(t, <<k>>)
looksLikeSentenceRow(t) == IsRecord(t, <<>>) /\ IsText(Field(t, <<>>, "sentence"))
looksLikeActivityItem(t) ==
    /\ IsRecord(t, <<>>) /\ ~Holder(t)
    /\ \/ IsText(Field(t, <<>>, "label")) \/ IsText(Field(t, <<>>, "imageQuery"))
       \/ Field(t, <<>>, "is_correct") \in {"true", "false"}
looksLikeWorksheetStructure(t) ==
    /\ IsRecord(t, <<>>)
    /\ \/ Holder(t)
       \/ \E k \in {"instruction", "instruction_text", "topic", "worksheet_type"} :
              IsText(Field(t, <<>>, k))

\* A list without its root, under a key of a new worksheet.
Wrapped(t, p, key) ==
    Put(Put(Leaf("{}"), <<key>>, Leaf("[]")), <<key>>, Subtree(t, p))
Listed(t, p) == [i \in 1..Cardinality(Elements(t, p)) |-> Subtree(t, Append(p, Indices[i]))]
FirstOf(s, n) == SubSeq(s, 1, IF n < Len(s) THEN n ELSE Len(s))
\* The items of one sheet, written without their sheet, are one sheet.
takeWorksheets(t, p, limit) ==
    LET all == Listed(t, p)
        sheet == Only(all, {w \in Members(all) : looksLikeWorksheetStructure(w)})
    IN  IF all = <<>> THEN <<>>
        ELSE IF \A i \in DOMAIN all : looksLikeActivityItem(all[i])
             THEN <<Wrapped(t, p, "items")>>
        ELSE IF \A i \in DOMAIN all : looksLikeSentenceRow(all[i])
             THEN <<Wrapped(t, p, "rows")>>
        ELSE FirstOf(IF sheet = <<>> THEN all ELSE sheet, limit)
normalizeLlmWorksheetPayload(t, limit) ==
    IF IsArray(t, <<>>) THEN takeWorksheets(t, <<>>, limit)
    ELSE IF ~IsRecord(t, <<>>) THEN <<>>
    ELSE IF IsArray(t, <<"worksheets">>) THEN takeWorksheets(t, <<"worksheets">>, limit)
    ELSE <<t>>

-----------------------------------------------------------------------------
(* The steps of a request.                                                 *)

\* normalizeCount; 0 stands for a count that is not given.
Least(a, b) == IF a < b THEN a ELSE b
Count(g) == IF order[g].count = 0 THEN DefaultCount ELSE Least(order[g].count, MaxCount)

\* A line is dropped when nobody listens any more.
Send(g, line) == sent' = IF gone[g] THEN sent ELSE [sent EXCEPT ![g] = Append(@, line)]
Begin(g, stage) == open' = [open EXCEPT ![g] = @ \cup {stage}]
End(g, stage) == open' = [open EXCEPT ![g] = @ \ {stage}]

\* REQUEST_VALIDATION and REQUEST_ANALYSIS.
CheckRequest(g) ==
    /\ step[g] = "validate"
    /\ IF /\ order[g].query # "" \/ order[g].topic # "" \/ order[g].template # None
          /\ ~order[g].forbidden
       THEN Goto(g, "begin") /\ Begin(g, "TEMPLATE_SELECTION")
       ELSE Goto(g, "refused") /\ UNCHANGED open
    /\ UNCHANGED <<order, outcome, calls, library, batch, stream>>

\* The stages that runTrackedStage ends when the exception passes it.
Tracked == Stages \ {"LLM_REQUEST"}
EndWithError(g) ==
    /\ step[g] \in {"refused", "drain"} /\ Goto(g, "failed")
    /\ Send(g, Line("error", 0)) /\ open' = [open EXCEPT ![g] = @ \ Tracked]
    /\ UNCHANGED <<order, outcome, calls, library, batch, gone>>

StartContent(g) ==
    /\ step[g] = "picked" /\ Goto(g, "request")
    /\ Send(g, Line("meta", Count(g)))
    /\ open' = [open EXCEPT ![g] = {"LLM_CONTENT_GENERATION"}]
    /\ UNCHANGED <<order, outcome, calls, library, batch, gone>>
\* LLM_REQUEST begins before the circuit breaker is asked, outside of the try.
RequestContent(g) ==
    /\ step[g] = "request"
    /\ IF ~order[g].client THEN Goto(g, "refused") /\ UNCHANGED open
       ELSE /\ Begin(g, "LLM_REQUEST")
            /\ \/ Goto(g, "content")
               \/ MayRefuse("content") /\ Goto(g, "refused")
    /\ UNCHANGED <<order, outcome, calls, library, batch, stream>>
ContentAnswers(g) ==
    /\ step[g] = "content" /\ Goto(g, "contentRow")
    /\ \E p \in order[g].answers \cup {Unreadable} : payload' = [payload EXCEPT ![g] = p]
    /\ UNCHANGED <<order, outcome, calls, library, sheets, tried, composed, open, stream>>

\* The row of the call, then the breaker, then the text; of the sheets in it
\* those the template accepts are kept.
SchemaOf(g) == Library[picked[g]]
Usable(g, t) == Accepts(Validated(t, SchemaOf(g).lineart), SchemaOf(g), TRUE)
Kept(g) ==
    LET raw == normalizeLlmWorksheetPayload(payload[g], Count(g))
        good == Only(raw, {w \in Members(raw) : IsRecord(w, <<>>) /\ Usable(g, w)})
    IN  [i \in DOMAIN good |-> Validated(good[i], SchemaOf(g).lineart)]
ReadContent(g) ==
    /\ step[g] = "contentRow"
    /\ Bill(g, "content", TRUE) /\ Report(g, "content", TRUE)
    /\ LET kept == Kept(g)
       IN  /\ sheets' = [sheets EXCEPT ![g] = kept]
           /\ IF kept = <<>> THEN Goto(g, "refused") /\ End(g, "LLM_REQUEST")
              ELSE Goto(g, "search") /\ open' = [open EXCEPT ![g] = {"IMAGE_RETRIEVAL"}]
    /\ UNCHANGED <<order, outcome, library, payload, tried, composed, stream>>
\* The call fails, or its row cannot be written.
ContentFails(g) ==
    /\ step[g] \in {"content", "contentRow"} /\ Goto(g, "contentCatch")
    /\ Report(g, "content", FALSE) /\ End(g, "LLM_REQUEST")
    /\ UNCHANGED <<order, outcome, billed, library, batch, stream>>
ContentCatch(g) ==
    /\ step[g] = "contentCatch" /\ Goto(g, "refused")
    /\ Bill(g, "content", FALSE) \/ UNCHANGED billed
    /\ UNCHANGED <<order, outcome, told, tripped, library, batch, open, stream>>

\* attachAssetsBatch and the validation of what it returns.  A sheet with a
\* query nobody can search for, or one no longer accepted, ends the request.
Prepared(g, t) == Validated(Normalise(t), SchemaOf(g).lineart)
Pictures(g, found) ==
    [i \in DOMAIN sheets[g] |-> Pictured(Prepared(g, sheets[g][i]), found, SchemaOf(g).lineart)]
Unattachable(g, found) ==
    \E i \in DOMAIN sheets[g] :
        LosesPicture(Prepared(g, sheets[g][i]), found, SchemaOf(g).lineart)
Queried(g) ==
    UNION {Wanted(Prepared(g, sheets[g][i]), SchemaOf(g).lineart) : i \in DOMAIN sheets[g]}
\* Mutant: a sheet that is no longer accepted is answered with.
AttachUnchecked(g, found) ==
    /\ sheets' = [sheets EXCEPT ![g] = Pictures(g, found)]
    /\ Goto(g, "compose") /\ End(g, "IMAGE_RETRIEVAL")
Attach(g, found) ==
    LET next == Pictures(g, found)
    IN  IF ~Unattachable(g, found) /\ \A i \in DOMAIN next : Usable(g, next[i])
        THEN /\ sheets' = [sheets EXCEPT ![g] =
                    [i \in DOMAIN next |-> Validated(next[i], SchemaOf(g).lineart)]]
             /\ Goto(g, "compose") /\ End(g, "IMAGE_RETRIEVAL")
        ELSE Goto(g, "refused") /\ UNCHANGED <<sheets, open>>
SearchPictures(g) ==
    /\ step[g] = "search"
    /\ IF \E i \in DOMAIN sheets[g] : HasBadQuery(Prepared(g, sheets[g][i]))
       THEN Goto(g, "refused") /\ UNCHANGED <<sheets, open>>
       ELSE \E found \in [Queried(g) -> Found \cup {"null"}] : Attach(g, found)
    /\ UNCHANGED <<order, outcome, calls, library, payload, tried, composed, stream>>
\* After the last attempt every query has found nothing.
SearchFails(g) ==
    /\ step[g] = "search" /\ Queried(g) # {}
    /\ \A i \in DOMAIN sheets[g] : ~HasBadQuery(Prepared(g, sheets[g][i]))
    /\ tried' = [tried EXCEPT ![g] = @ + 1]
    /\ IF tried[g] + 1 < SearchAttempts THEN UNCHANGED <<step, sheets, open>>
       ELSE Attach(g, [q \in Queried(g) |-> "null"])
    /\ UNCHANGED <<order, outcome, calls, library, payload, composed, stream>>

\* Up to three workers take the sheets in order.  When one throws, the others
\* go on while the error makes its way to the controller.
Compose(g) ==
    /\ step[g] \in {"compose", "drain"} /\ composed[g] < Len(sheets[g])
    /\ composed' = [composed EXCEPT ![g] = @ + 1]
    /\ Send(g, Line("item", composed[g] + 1))
    /\ UNCHANGED <<order, step, outcome, calls, library, payload, sheets, tried, open, gone>>
ComposeThrows(g) ==
    /\ step[g] \in {"compose", "drain"} /\ composed[g] < Len(sheets[g]) /\ Goto(g, "drain")
    /\ composed' = [composed EXCEPT ![g] = @ + 1]
    /\ UNCHANGED <<order, outcome, calls, library, payload, sheets, tried, open, stream>>
\* Mutant: the last word does not wait for the last sheet.
FinishEarly(g) ==
    /\ step[g] = "compose" /\ Goto(g, "done")
    /\ Send(g, Line("done", Len(sheets[g])))
    /\ UNCHANGED <<order, outcome, calls, library, batch, open, gone>>
Finish(g) ==
    /\ step[g] = "compose" /\ composed[g] = Len(sheets[g]) /\ Goto(g, "done")
    /\ Send(g, Line("done", Len(sheets[g])))
    /\ UNCHANGED <<order, outcome, calls, library, batch, open, gone>>

ClientLeaves(g) ==
    /\ step[g] \notin {"done", "failed"} /\ ~gone[g] /\ gone' = [gone EXCEPT ![g] = TRUE]
    /\ UNCHANGED <<sheetSelectionVars, batch, open, sent>>

GenerationStep(g) ==
    \/ CheckRequest(g)
    \/ SheetSelectionStep(g) /\ UNCHANGED <<batch, open, stream>>
    \/ StartContent(g) \/ RequestContent(g) \/ ContentAnswers(g) \/ ReadContent(g)
    \/ ContentFails(g) \/ ContentCatch(g) \/ SearchPictures(g) \/ SearchFails(g)
    \/ Compose(g) \/ ComposeThrows(g) \/ Finish(g) \/ EndWithError(g)
SheetStep ==
    \/ \E g \in Orders : GenerationStep(g) \/ ClientLeaves(g)
    \/ \E t \in library : Retire(t) /\ UNCHANGED <<batch, open, stream>>
=============================================================================
