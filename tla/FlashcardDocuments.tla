------------------------ MODULE FlashcardDocuments ------------------------
(***************************************************************************)
(* One stored flashcard set, the requests that save and edit it, and the   *)
(* renders of a deck: a pool of workers captures the cards in Chromium and *)
(* stores each file, then the preview and the PDF.  A request reads the    *)
(* set once and writes its cards back; a render works on what it was sent. *)
(*                                                                         *)
(* A component is named by its card and itself; its picture has an asset   *)
(* or an upload, and while it is in memory a signed address.               *)
(***************************************************************************)
EXTENDS BrowserPool, Sequences, FiniteSets

CONSTANTS
    DeckRequests,   \* requests under way
    FirstDeck,      \* [template, cards] of the row at first
    DeckTemplates,  \* the templates that exist
    LibraryAssets,  \* the assets that exist
    Contents,       \* what the model may answer: texts, or "none" for no text
    ForbiddenTexts, \* instructions the country forbids
    Editable,       \* the components that may be edited
    NPages,         \* the cards of a render
    Concurrency,    \* flashcards.renderer.concurrency
    ByRequest       \* the storage backend keeps the files of generations apart

ASSUME DeckAssumption ==
    /\ NPages \in Nat \ {0} /\ Concurrency \in Nat \ {0}
    /\ ByRequest \in BOOLEAN /\ Editable \subseteq DOMAIN FirstDeck.cards
    /\ FirstDeck.template \in DeckTemplates

VARIABLES
    ask,        \* what each request asks for
    at,         \* where it is
    seen,       \* the deck it read, or was sent
    draft,      \* the cards it will write
    left,       \* the images of a save it still has to look up
    deck,       \* the FlashcardSet row
    created,    \* rows it has created since
    files,      \* the stored files: the request that wrote each key last
    jobs        \* the captures of each render

deckVars == <<ask, at, seen, draft, left, deck, created, files, jobs>>
deckRow == <<deck, created, files>>
drafts == <<ask, seen, draft, left>>

Preview == NPages + 1
Pdf == NPages + 2
Pages == 1..Pdf
JobStates == {"todo", "browser", "newPage", "capture", "holding", "save", "saved", "lost"}
DeckSteps == {"begin", "model", "retrieve", "attach", "template", "upload", "write",
              "rendering", "post", "done", "failed"}
NoPicture == [asset |-> "null", key |-> "null", signed |-> FALSE]
\* Mutant: the request is left out of the key.
FileAtShared(r, page) == <<"renders", "any", page>>
\* The renderer's requestId is the one in the metadata of the deck it was sent,
\* so that all renders of one generation have one place.  The local backend makes
\* it a directory; the S3 backend leaves it out of the key.
FileAt(r, page) == <<"renders", IF ByRequest THEN ask[r].set ELSE "any", page>>

DeckGoto(r, step) == at' = [at EXCEPT ![r] = step]
Asked(r, kind, step) == ask[r].kind = kind /\ at[r] = step
Component(cards, slot) == slot \in DOMAIN cards

DeckTypeOK ==
    /\ at \in [DeckRequests -> DeckSteps]
    /\ jobs \in [DeckRequests -> [Pages -> JobStates]]
    /\ DOMAIN deck = {"template", "cards"} /\ deck.template \in DeckTemplates
    /\ \A d \in created : d.template \in DeckTemplates
    /\ \A r \in DeckRequests : left[r] \subseteq DOMAIN ask[r].images

NoJobs == [p \in Pages |-> "todo"]
DeckInit ==
    /\ at = [r \in DeckRequests |-> IF ask[r].kind = "none" THEN "done" ELSE "begin"]
    /\ seen = [r \in DeckRequests |-> FirstDeck]
    /\ draft = [r \in DeckRequests |-> FirstDeck.cards]
    /\ left = [r \in DeckRequests |-> {}]
    /\ deck = FirstDeck /\ created = {} /\ files = [k \in {} |-> "none"]
    /\ jobs = [r \in DeckRequests |-> NoJobs]

DeckReject(r) == DeckGoto(r, "failed") /\ UNCHANGED <<drafts, deckRow, jobs, pool>>
Proceed(r, step) == DeckGoto(r, step) /\ UNCHANGED <<drafts, deckRow, jobs, pool>>
Draft(r, cards, step) ==
    /\ draft' = [draft EXCEPT ![r] = cards] /\ DeckGoto(r, step)
    /\ UNCHANGED <<ask, seen, left, deckRow, jobs, pool>>
ReadDeck(r, cards, images, step) ==
    /\ seen' = [seen EXCEPT ![r] = deck]
    /\ draft' = [draft EXCEPT ![r] = cards]
    /\ left' = [left EXCEPT ![r] = images]
    /\ DeckGoto(r, step) /\ UNCHANGED <<ask, deckRow, jobs, pool>>

-----------------------------------------------------------------------------
(* Editing.                                                                *)

ReadForEdit(r) ==
    /\ Asked(r, "edit", "begin")
    /\ IF /\ ask[r].text \notin {""} \cup ForbiddenTexts
          /\ Component(deck.cards, ask[r].slot) /\ ask[r].slot \in Editable
       THEN ReadDeck(r, deck.cards, {}, "model") ELSE DeckReject(r)

\* A text component takes a text; for a picture the answer is the query, and
\* without one the query it had.
DeckModel(r) ==
    /\ Asked(r, "edit", "model")
    /\ \E content \in Contents :
        IF draft[r][ask[r].slot].kind = "image" THEN Proceed(r, "retrieve")
        ELSE IF content = "none" THEN DeckReject(r)
        ELSE Draft(r, [draft[r] EXCEPT ![ask[r].slot].content = content], "write")

\* retrieveForCard: an asset with its signed address, or no picture.
Retrieve(r) ==
    /\ Asked(r, "edit", "retrieve")
    /\ \E found \in LibraryAssets \cup {"null"} :
        Draft(r, [draft[r] EXCEPT ![ask[r].slot].content = "none",
                                  ![ask[r].slot].picture =
                      IF found = "null" THEN NoPicture
                      ELSE [asset |-> found, key |-> "null", signed |-> TRUE]], "write")

\* saveEdits: texts first; what is missing is skipped, and so is an entry for
\* the wrong kind of component.
SavedTexts(cards, fields) ==
    [s \in DOMAIN cards |->
        LET given == {i \in DOMAIN fields : fields[i].slot = s /\ fields[i].value # "none"}
            last == CHOOSE i \in given : \A j \in given : j <= i
        IN  IF cards[s].kind = "image" \/ given = {} THEN cards[s]
            ELSE [cards[s] EXCEPT !.content = fields[last].value]]
Pictures(cards, images) ==
    {i \in DOMAIN images : Component(cards, images[i].slot)
                             /\ cards[images[i].slot].kind = "image"}
SaveEdits(r) ==
    /\ Asked(r, "save", "begin")
    /\ LET images == Pictures(deck.cards, ask[r].images)
       IN  ReadDeck(r, SavedTexts(deck.cards, ask[r].fields), images,
                    IF images = {} THEN "write" ELSE "attach")

\* resolveLibraryAsset for one image after the other.
AttachPicture(r) ==
    /\ Asked(r, "save", "attach")
    /\ LET i == CHOOSE j \in left[r] : \A k \in left[r] : j <= k
           image == ask[r].images[i]
           picture == IF image.key # "" THEN [asset |-> "null", key |-> image.key, signed |-> FALSE]
                      ELSE [asset |-> image.asset, key |-> "null", signed |-> FALSE]
       IN  IF image.key = "" /\ image.asset \notin LibraryAssets THEN DeckReject(r)
           ELSE /\ draft' = [draft EXCEPT ![r][image.slot].picture = picture]
                /\ left' = [left EXCEPT ![r] = @ \ {i}]
                /\ DeckGoto(r, IF left[r] = {i} THEN "write" ELSE "attach")
                /\ UNCHANGED <<ask, seen, deckRow, jobs, pool>>

UploadPicture(r) ==
    /\ Asked(r, "uploadPicture", "begin")
    /\ IF Component(deck.cards, ask[r].slot) /\ deck.cards[ask[r].slot].kind = "image"
       THEN Proceed(r, "upload") ELSE DeckReject(r)
StoreUpload(r) ==
    /\ at[r] = "upload"
    /\ files' = [k \in DOMAIN files \cup {<<"upload", r>>} |->
                    IF k = <<"upload", r>> THEN r ELSE files[k]]
    /\ DeckGoto(r, "done") /\ UNCHANGED <<drafts, deck, created, jobs, pool>>

Persistable(cards) == [s \in DOMAIN cards |-> [cards[s] EXCEPT !.picture.signed = FALSE]]
\* Mutant: the whole row is written as it was read.
UpdateRow(r) ==
    /\ at[r] = "write"
    /\ deck' = [seen[r] EXCEPT !.cards = Persistable(draft[r])]
    /\ DeckGoto(r, "done") /\ UNCHANGED <<drafts, created, files, jobs, pool>>
\* updateCards writes the cards and nothing else of the row.
UpdateCards(r) ==
    /\ at[r] = "write"
    /\ deck' = [deck EXCEPT !.cards = Persistable(draft[r])]
    /\ DeckGoto(r, "done") /\ UNCHANGED <<drafts, created, files, jobs, pool>>

\* saveGenerated: the whole row, of a template that exists.
FindDeckTemplate(r) ==
    /\ Asked(r, "saveGenerated", "begin")
    /\ IF ask[r].deck.template \in DeckTemplates /\ ask[r].deck.cards # <<>>
       THEN Proceed(r, "template") ELSE DeckReject(r)
SaveGenerated(r) ==
    /\ at[r] = "template"
    /\ LET saved == [ask[r].deck EXCEPT !.cards = Persistable(@)]
       IN  \/ ask[r].existing /\ deck' = saved /\ UNCHANGED created
           \/ ~ask[r].existing /\ created' = created \cup {saved} /\ UNCHANGED deck
    /\ DeckGoto(r, "done") /\ UNCHANGED <<drafts, files, jobs, pool>>

DeckThrows(r) ==
    /\ at[r] \in {"begin", "model", "attach", "upload", "template", "write", "post"}
    /\ DeckReject(r)

-----------------------------------------------------------------------------
(* Rendering: render, download and render-and-notify.                      *)

Job(r, p, state) == jobs' = [jobs EXCEPT ![r][p] = state]
InState(r, states) == {p \in Pages : jobs[r][p] \in states}
Running == {"browser", "newPage", "capture", "holding", "save"}

\* The cards of a render are a pool of workers, of which one that threw takes
\* no other card; the rest is one after the other.  downloads have one page,
\* render-and-notify one page for each card.
StartRender(r) ==
    /\ at[r] = "begin" /\ ask[r].kind \in {"render", "download", "notify"}
    /\ Proceed(r, "rendering")

\* Nothing is awaited between the taking of a card and getBrowser.
AskPage(r, p) ==
    /\ GetBrowser(<<r, p>>) /\ Job(r, p, "newPage")
    /\ UNCHANGED <<drafts, at, deckRow>>

FirstTodo(r, p) == p \in InState(r, {"todo"}) /\ \A q \in InState(r, {"todo"}) : p <= q
TakeCard(r) ==
    /\ ask[r].kind = "render"
    /\ at[r] = "rendering" \/ (at[r] = "failed" /\ jobs[r] # NoJobs)
    /\ Cardinality(InState(r, Running \cup {"lost"})) < Concurrency
    /\ \E p \in 1..NPages : FirstTodo(r, p) /\ AskPage(r, p)
TakeNext(r) ==
    /\ at[r] = "rendering" /\ InState(r, Running) = {}
    /\ \E p \in Pages :
           /\ FirstTodo(r, p) /\ AskPage(r, p)
           /\ CASE ask[r].kind = "render" -> p > NPages
                [] ask[r].kind = "notify" -> p <= NPages
                [] OTHER -> p = 1
\* The second page of a download, for pdfFromPngs.
AskSecondPage(r, p) == jobs[r][p] = "browser" /\ AskPage(r, p)

OpenCard(r, p) ==
    /\ jobs[r][p] = "newPage" /\ NewPage(<<r, p>>) /\ Job(r, p, "capture")
    /\ UNCHANGED <<drafts, at, deckRow>>

\* The exception of a capture rejects the whole render; the other workers go
\* on with their cards.
Lose(r, p) ==
    /\ jobs' = [jobs EXCEPT ![r] = [q \in Pages |->
                    IF q = p \/ jobs[r][q] = "holding" THEN "lost" ELSE jobs[r][q]]]
    /\ DeckGoto(r, "failed")
    /\ UNCHANGED <<drafts, deckRow>>
Held(r) == {<<r, q>> : q \in InState(r, {"holding"})}
ReleaseAll(C) ==
    /\ client' = [c \in Clients |-> IF c \in C THEN Idle ELSE client[c]]
    /\ UNCHANGED <<browser, promise, launching, live, started>>
\* Mutant: the page is not closed in a finally clause.
CaptureFailsOpen(r, p) ==
    /\ jobs[r][p] \in {"newPage", "capture"} /\ client[<<r, p>>].at \in {"refused", "page"}
    /\ Lose(r, p) /\ UNCHANGED pool
CaptureFails(r, p) ==
    /\ jobs[r][p] \in {"newPage", "capture"}
    /\ client[<<r, p>>].at \in {"refused", "page"}
    /\ ReleaseAll({<<r, p>>} \cup Held(r)) /\ Lose(r, p)
\* A download of a PDF keeps its page open while pdfFromPngs has a second one.
CaptureCard(r, p) ==
    /\ jobs[r][p] = "capture"
    /\ client[<<r, p>>].at = "page" /\ client[<<r, p>>].of \in live
    /\ LET pdf == ask[r].kind = "download" /\ ask[r].format = "pdf" /\ p = 1
       IN  IF pdf THEN /\ jobs' = [jobs EXCEPT ![r][p] = "holding", ![r][Pdf] = "browser"]
                       /\ UNCHANGED pool
           ELSE /\ ReleaseAll({<<r, p>>} \cup Held(r))
                /\ jobs' = [jobs EXCEPT ![r] = [q \in Pages |->
                       IF q = p THEN IF ask[r].kind = "render" THEN "save" ELSE "saved"
                       ELSE IF jobs[r][q] = "holding" THEN "saved" ELSE jobs[r][q]]]
    /\ UNCHANGED <<drafts, at, deckRow>>

SaveFile(r, p) ==
    /\ jobs[r][p] = "save"
    /\ \/ /\ files' = [k \in DOMAIN files \cup {FileAt(r, p)} |->
                          IF k = FileAt(r, p) THEN r ELSE files[k]]
          /\ Job(r, p, "saved") /\ UNCHANGED <<drafts, at, deck, created>>
       \/ Lose(r, p)
    /\ UNCHANGED pool

\* Each picture of render-and-notify is posted before the next is taken; what
\* was posted before a failure stays.
PostFails(r) ==
    /\ ask[r].kind = "notify" /\ at[r] = "rendering" /\ InState(r, Running) = {}
    /\ InState(r, {"saved"}) # {} /\ InState(r, {"todo"}) \cap 1..NPages # {}
    /\ DeckReject(r)

\* Mutant: the preview and the PDF are not waited for.
WholeCards(r) == 1..NPages \subseteq InState(r, {"saved"})
Whole(r) == CASE ask[r].kind = "render" -> InState(r, {"saved"}) = Pages
              [] ask[r].kind = "notify" -> 1..NPages \subseteq InState(r, {"saved"})
              [] OTHER -> IF ask[r].format = "pdf" THEN Pdf \in InState(r, {"saved"})
                          ELSE 1 \in InState(r, {"saved"})
FinishRender(r) ==
    /\ at[r] = "rendering" /\ Whole(r) /\ Proceed(r, "done")

DeckRenderStep(r) ==
    \/ StartRender(r) \/ TakeCard(r) \/ TakeNext(r) \/ PostFails(r) \/ FinishRender(r)
    \/ \E p \in Pages : \/ AskSecondPage(r, p) \/ OpenCard(r, p) \/ CaptureFails(r, p)
                        \/ CaptureCard(r, p) \/ SaveFile(r, p)
DeckStep(r) ==
    \/ ReadForEdit(r) \/ DeckModel(r) \/ Retrieve(r) \/ SaveEdits(r) \/ AttachPicture(r)
    \/ UploadPicture(r) \/ StoreUpload(r) \/ UpdateCards(r) \/ FindDeckTemplate(r)
    \/ SaveGenerated(r) \/ DeckThrows(r) \/ DeckRenderStep(r)
=============================================================================
