----------------------------- MODULE Generation -----------------------------
(***************************************************************************)
(* Both generators together: the choice of a flashcard template, and the   *)
(* worksheets from the choice of their template to the stream, while       *)
(* administrators add templates and take them out of use.                  *)
(***************************************************************************)
EXTENDS FlashcardSelection, WorksheetTemplates

CONSTANT Scenarios  \* what is asked for: [flash, orders, uploads, drafts, folder]

ASSUME ScenarioAssumption ==
    \A s \in Scenarios :
        /\ \A g \in Orders :
            /\ s.orders[g].answers \subseteq Payloads /\ s.orders[g].count \in Nat
            /\ s.orders[g].age \in Nat \cup {NoAge} /\ s.orders[g].group \in Seq(Nat)
        /\ \A r \in Selections : Requested(s.flash[r]) \in Nat \X Nat
        /\ \A u \in Authors : s.drafts[u].template \in DOMAIN Library \cup {None}
        /\ s.uploads \in [Uploaders -> {"create", "none"}]

flashVars == selectionVars
vars == <<selectionVars, sheetVars, authorVars>>

Init ==
    /\ \E s \in Scenarios :
        /\ request = s.flash /\ order = s.orders /\ upload = s.uploads /\ draft = s.drafts
        /\ folder = s.folder
    /\ SelectionInit /\ SheetInit /\ AuthorInit

Next ==
    \/ \E s \in Selections : SelectionStep(s) /\ UNCHANGED <<sheetVars, authorVars>>
    \/ CatalogStep /\ UNCHANGED <<sheetVars, authorVars>>
    \/ SheetStep /\ UNCHANGED <<flashVars, authorVars>>
    \/ \E u \in Authors : AuthorStep(u)
          /\ UNCHANGED <<flashVars, order, step, outcome, calls, batch, open, stream>>
    \/ FolderStep /\ UNCHANGED <<flashVars, sheetVars>>

Spec == Init /\ [][Next]_vars

TypeOK == SelectionTypeOK /\ SheetTypeOK /\ AuthorTypeOK

-----------------------------------------------------------------------------
(* The choice of a template.                                               *)

FlashChoice(s) ==
    LET r == choice[s]
        q == request[s]
    IN  /\ r \in pool[s]
        /\ Template(r).requiresExplicitRequest => gateKeywordsFor(r) \cap q.words # {}
        /\ Template(r).groups = {} \/ \E g \in Template(r).groups \ {Unread} :
                                          g[1] <= Requested(q)[1]
        /\ r.isFallback => \A other \in pool[s] : other.isFallback
        /\ verdict[s].kind # "ok" \/ at[s] = "row" =>
               \A other \in pool[s] : Tier(other, q) <= Tier(r, q)

\* What is said of ages is about templates whose ages are in order, which
\* nothing checks.
SheetChoice(g) ==
    LET q == order[g]
        ages == Library[picked[g]].ages
        band == resolveAgeBand(q)
    IN  /\ band # NoBand /\ ages[1] <= ages[2] =>
               \E n \in ages[1]..ages[2] : n \in band[1]..band[2]
        /\ picked[g] \in fitting[g]
        /\ Cardinality(fitting[g]) > 1 =>
               \/ \A t \in fitting[g] : score(t, q, hints[g]) <= score(picked[g], q, hints[g])
               \/ /\ answer[g] = [kind |-> "ok", pick |-> picked[g]]
                  /\ \E t \in fitting[g] \ {BestOf(g)} :
                         \/ score(BestOf(g), q, hints[g]) = 0
                         \/ score(BestOf(g), q, hints[g]) - score(t, q, hints[g]) < Margin

\* However the model answers, fails or is refused, the template of a request is
\* one of those its rules allow: an opt-in template only when its words were
\* used, none for older children only, a fallback only when nothing else is
\* left.  Without an answer that counts nobody in the pool fits better, and a
\* decisive score is never overruled.
ChoiceStands ==
    /\ \A s \in Selections : choice[s] # NoRule => FlashChoice(s)
    /\ \A g \in Orders : step[g] = "picked" /\ order[g].template = None => SheetChoice(g)

\* When a call of a model is over, its answer was used exactly if its one row
\* says so, and the last thing the circuit breaker heard of the call is a
\* success only if the model's answer could be read and was allowed.
Account(row, report, used, fine) ==
    /\ Len(row) <= 1 /\ (row = <<TRUE>> <=> used)
    /\ report # <<>> => report[Len(report)] = fine
CallsAccounted ==
    /\ \A s \in Selections :
        at[s] \in {"load", "done", "failed"} /\ reports[s] # <<>> =>
            Account(rows[s], reports[s], verdict[s].kind = "ok",
                    verdict[s].kind \in {"ok", "low_confidence"})
    /\ \A g \in Orders :
        /\ step[g] \notin {"validate", "begin", "classify", "intent", "intentRow", "intentCatch"}
               /\ told[g]["classify"] # <<>> =>
            /\ Len(billed[g]["classify"]) <= 1
            /\ billed[g]["classify"] = <<TRUE>> <=> told[g]["classify"] = <<TRUE>>
        /\ step[g] \notin SelectionSteps \cup {"validate"} =>
            Account(billed[g]["select"], told[g]["select"], answer[g].kind = "ok",
                    answer[g].kind \in {"ok", "low_confidence"})
        /\ step[g] \in {"search", "compose", "drain", "done", "failed"} =>
            /\ Len(billed[g]["content"]) <= 1
            /\ billed[g]["content"] = <<TRUE>> <=> told[g]["content"] = <<TRUE>>

-----------------------------------------------------------------------------
(* The answer.                                                             *)

\* The sheets a request is answered with are no more than it asked for; the
\* template accepts each of them with its pictures in, and no address of an asset
\* is left in one.
AnswerIsUsable ==
    \A g \in Orders : step[g] = "done" /\ ~order[g].idle =>
        /\ Len(sheets[g]) \in 1..Count(g)
        /\ \A i \in DOMAIN sheets[g] :
            /\ Valid(sheets[g][i], SchemaOf(g).schema, TRUE) /\ ~HasBadQuery(sheets[g][i])
            /\ \A p \in DOMAIN sheets[g][i] \ {<<>>} : Key(p) \notin TransientKeys

\* The lines of a stream: what it is about, the sheets in their order, and one
\* last word.  "done" comes when every sheet has been sent.  When a request is
\* over no stage is left open, but for that of a call the circuit breaker
\* refused.
StreamTellsTheTruth ==
    \A g \in Orders :
        LET s == sent[g]
            last == s[Len(s)]
        IN  /\ \A i \in DOMAIN s :
                /\ s[i].type \in {"done", "error"} => i = Len(s)
                /\ s[i].type = "meta" <=> i = 1 /\ s[i].type # "error"
                /\ s[i].type = "item" => \A j \in 1..(i - 1) :
                       s[j].type = "item" => s[j].n < s[i].n
            /\ step[g] = "done" /\ ~gone[g] /\ ~order[g].idle =>
                /\ last = Line("done", Len(sheets[g]))
                /\ \A n \in DOMAIN sheets[g] : \E i \in DOMAIN s : s[i] = Line("item", n)
            /\ step[g] = "failed" /\ ~gone[g] => last.type = "error"
            /\ step[g] \in {"done", "failed"} /\ open[g] # {} =>
                open[g] = {"LLM_REQUEST"} /\ told[g]["content"] = <<>>

-----------------------------------------------------------------------------
(* The templates.                                                          *)

Created(u) == making[u] = "done" /\ draft[u].template # None

\* Administrators create templates at once, with the same images or the same slug,
\* while rows of assets come and go.  Every new template is one author's, who alone
\* is told that it was created, and only after both images were found or stored; who
\* lost an image, the race for its content or the slug has created nothing.
TemplatesAreCreatedWhole ==
    /\ \A t \in rowsMade \ Released : \E u \in Authors : Created(u) /\ draft[u].template = t
    /\ \A u \in Authors : Created(u) =>
           /\ draft[u].template \in rowsMade \ Released /\ draft[u].valid
           /\ \A r \in Roles : r \notin draft[u].spoiled /\ part[u][r] = "ready"
           /\ \A v \in Authors \ {u} : Created(v) => draft[v].template # draft[u].template

-----------------------------------------------------------------------------
(* What is said and not kept.                                              *)

\* WORKSHEET_GENERATION_ARCHITECTURE.md says of the creation of a template: "That
\* uploads both images to S3, creates `Asset` rows, and stores `backgroundAssetId` /
\* `sampleAssetId`."  A row that is found is taken as it is: its file may never have
\* come, and the row itself may be deleted.
TemplateImagesAreStored ==
    \A u \in Authors : Created(u) => \A r \in Roles : Image(u, r) \in stored

\* WORKSHEET_GENERATION_ARCHITECTURE.md: "`assetId` is added after search", so the
\* picture of a sheet is one the search found.
AssetsComeFromSearch ==
    \A g \in Orders : step[g] = "done" =>
        \A i \in DOMAIN sheets[g] : \A p \in DOMAIN sheets[g][i] \ {<<>>} :
            Key(p) = "assetId" => sheets[g][i][p] \in Found

\* The comment on the AI selection: "Returns null result + fallbackReason on any
\* failure so the caller can use deterministic ranking."
AiFailureIsHarmless ==
    [][\A s \in Selections :
           at[s] \in {"snapshot", "build", "store", "call", "row", "catch"} => at'[s] # "failed"]_vars
=============================================================================
