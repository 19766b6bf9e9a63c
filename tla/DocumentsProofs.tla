-------------------------- MODULE DocumentsProofs --------------------------
(***************************************************************************)
(* Proofs that the renders of a process share one Chromium, that a file    *)
(* stands behind every answer and that an edit writes only what it was     *)
(* asked for, for any number of requests, workers and launches, and        *)
(* whatever the documents hold.                                            *)
(*                                                                         *)
(* A step of a document asks the pool for the browser, moves its own       *)
(* client, or leaves the pool alone; so it is enough to look at the pool.  *)
(* OneBrowser is not inductive: that no second launch begins rests on the  *)
(* promise being kept exactly as long as a launch is under way or its      *)
(* browser is the one remembered.                                          *)
(*                                                                         *)
(* A file stands because it is stored before a row or an answer names it,  *)
(* and because no other request writes under its key.                      *)
(*                                                                         *)
(* What is written is the copy a request has worked on across its awaits:  *)
(* it is compared with what was read, function by function, with the       *)
(* lemmas on structures.  For an edit that is not enough, as its targets   *)
(* depend on what it writes in the end: the copy in which only the field   *)
(* is new has to be remembered, and the assets written since are shown not *)
(* to change the query of a picture.                                       *)
(*                                                                         *)
(* The copies are structures at every await, and those that are read or    *)
(* stored leave no position of an array out (TreesFit).  What was          *)
(* validated is still sound when it is written, several awaits later       *)
(* (CopiesAreSound): an override writes a text over a field of the root, a *)
(* picture what a schema does not speak of, and neither undoes what was    *)
(* checked elsewhere.                                                      *)
(***************************************************************************)
EXTENDS Documents, StructureProofs, TLAPS

\* What the pool shares between its clients.
shared == <<browser, promise, launching, live, started>>

\* The browser that runs is the one remembered; it is remembered with its
\* promise; a launch is under way exactly while its promise is pending.
PoolInv ==
    /\ started \in Nat
    /\ live \subseteq {browser} \ {0}
    /\ promise.state \in {"none", "pending", "resolved"}
    /\ browser # 0 => promise.state = "resolved"
    /\ launching = IF promise.state = "pending" THEN 1 ELSE 0

---------------------------------------------------------------------------
(* The pool. *)

\* The pool begins empty.
LEMMA PoolStarts == PoolInit => PoolInv
BY DEF PoolInit, PoolInv, NoPromise

\* What the pool remembers rules out a second browser or launch.
LEMMA PoolHasOne == PoolInv => OneBrowser
BY DEF PoolInv, OneBrowser

\* A client that finds no browser and no promise begins the only launch.
LEMMA AskingKeepsPool ==
    ASSUME PoolInv, NEW c, GetBrowser(c)
    PROVE  PoolInv'
<1> USE DEF PoolInv
<1>1. UNCHANGED <<browser, live, started>>
  BY DEF GetBrowser
<1>2. CASE UNCHANGED <<promise, launching>>
  BY <1>1, <1>2
<1>3. CASE /\ promise.state # "resolved"
           /\ promise' = [state |-> "pending", of |-> 0]
           /\ launching' = IF promise.state = "none" THEN launching + 1 ELSE launching
  <2>1. browser = 0 /\ live = {}
    BY <1>3
  <2>2. promise'.state = "pending" /\ launching' = 1
    BY <1>3
  <2> QED BY <1>1, <2>1, <2>2
<1> QED BY <1>2, <1>3 DEF GetBrowser

\* A launch ends, or the browser does.
LEMMA PoolStepKeepsPool ==
    ASSUME PoolInv, PoolStep
    PROVE  PoolInv'
<1> USE DEF PoolInv
<1>1. CASE Launched
  BY <1>1 DEF Launched
<1>2. CASE LaunchFails
  BY <1>2 DEF LaunchFails, NoPromise
<1>3. CASE Disconnect
  BY <1>3 DEF Disconnect
<1>4. CASE Destroy
  BY <1>4 DEF Destroy, NoPromise
<1> QED BY <1>1, <1>2, <1>3, <1>4 DEF PoolStep

---------------------------------------------------------------------------
(* The documents. *)

\* What a client does with the pool.
UsesPool == \E c : GetBrowser(c) \/ NewPage(c) \/ Release(c)

\* What the steps of a worksheet have in common.
LEMMA WorksheetFrames ==
    ASSUME NEW r
    PROVE  /\ \A t, step, paths : Take(r, t, step, paths) => UNCHANGED pool
           /\ Reject(r) => UNCHANGED pool
           /\ \A t : Resolve(r, t) => UNCHANGED pool
           /\ UNCHANGED pool => UNCHANGED shared
BY DEF Take, Reject, Resolve, pool, shared

\* A worksheet's step is one of these or none.
LEMMA WorksheetUsesPool ==
    ASSUME NEW r \in Requests, WorksheetStep(r)
    PROVE  UsesPool \/ UNCHANGED pool
<1> USE WorksheetFrames
<1>1. CASE ReadForModel(r)
  BY <1>1 DEF ReadForModel
<1>2. CASE UpdateField(r)
  BY <1>2 DEF UpdateField
<1>3. CASE ReadForSave(r)
  BY <1>3 DEF ReadForSave
<1>4. CASE ReadForReplace(r) \/ ReadForUpload(r)
  BY <1>4 DEF ReadForReplace, ReadForUpload
<1>5. CASE ModelEdits(r)
  BY <1>5 DEF ModelEdits
<1>6. CASE ModelCorrects(r)
  BY <1>6 DEF ModelCorrects
<1>7. CASE ModelRegenerates(r)
  BY <1>7 DEF ModelRegenerates
<1>8. CASE FindImage(r)
  BY <1>8 DEF FindImage
<1>9. CASE AttachImage(r)
  BY <1>9 DEF AttachImage
<1>10. CASE CheckAsset(r) \/ UploadImage(r) \/ Write(r) \/ Throw(r) \/ ReadForRender(r)
  BY <1>10 DEF CheckAsset, UploadImage, Write, Throw, ReadForRender
<1>11. CASE RenderStep(r)
  <2>1. CASE AskBrowser(r) \/ OpenPage(r) \/ Refused(r) \/ Capture(r)
    BY <2>1 DEF AskBrowser, OpenPage, Refused, Capture, UsesPool
  <2>2. CASE \/ MarkRendering(r) \/ StoreFile(r) \/ RecordOutput(r) \/ Complete(r)
             \/ RenderThrows(r) \/ MarkFailed(r) \/ PostMedia(r)
    BY <2>2 DEF MarkRendering, StoreFile, RecordOutput, Complete, RenderThrows, MarkFailed,
                PostMedia
  <2> QED BY <1>11, <2>1, <2>2 DEF RenderStep
<1> QED
  BY <1>1, <1>2, <1>3, <1>4, <1>5, <1>6, <1>7, <1>8, <1>9, <1>10, <1>11 DEF WorksheetStep

\* What the steps of a deck have in common.
LEMMA DeckFrames ==
    ASSUME NEW r
    PROVE  /\ DeckReject(r) => UNCHANGED pool
           /\ \A step : Proceed(r, step) => UNCHANGED pool
           /\ \A cards, step : Draft(r, cards, step) => UNCHANGED pool
           /\ \A cards, images, step : ReadDeck(r, cards, images, step) => UNCHANGED pool
           /\ UNCHANGED pool => UNCHANGED shared
           /\ \A C : ReleaseAll(C) => UNCHANGED shared
BY DEF DeckReject, Proceed, Draft, ReadDeck, ReleaseAll, pool, shared

\* A deck's step may also close several pages.
LEMMA DeckUsesPool ==
    ASSUME NEW r \in DeckRequests, DeckStep(r)
    PROVE  UsesPool \/ (\E C : ReleaseAll(C)) \/ UNCHANGED pool
<1> USE DeckFrames
<1>1. CASE ReadForEdit(r) \/ DeckModel(r) \/ Retrieve(r)
  BY <1>1 DEF ReadForEdit, DeckModel, Retrieve
<1>2. CASE SaveEdits(r) \/ AttachPicture(r) \/ UploadPicture(r) \/ StoreUpload(r)
  BY <1>2 DEF SaveEdits, AttachPicture, UploadPicture, StoreUpload
<1>3. CASE UpdateCards(r) \/ FindDeckTemplate(r) \/ SaveGenerated(r) \/ DeckThrows(r)
  BY <1>3 DEF UpdateCards, FindDeckTemplate, SaveGenerated, DeckThrows
<1>4. CASE StartRender(r) \/ PostFails(r) \/ FinishRender(r)
  BY <1>4 DEF StartRender, PostFails, FinishRender
<1>5. CASE TakeCard(r) \/ TakeNext(r)
  BY <1>5 DEF TakeCard, TakeNext, AskPage, UsesPool
<1>6. ASSUME NEW p \in Pages,
             AskSecondPage(r, p) \/ OpenCard(r, p) \/ CaptureFails(r, p) \/ CaptureCard(r, p)
               \/ SaveFile(r, p)
      PROVE  UsesPool \/ (\E C : ReleaseAll(C)) \/ UNCHANGED pool
  <2>1. CASE AskSecondPage(r, p) \/ OpenCard(r, p)
    BY <2>1 DEF AskSecondPage, AskPage, OpenCard, UsesPool
  <2>2. CASE CaptureFails(r, p)
    BY <2>2 DEF CaptureFails
  <2>3. CASE CaptureCard(r, p)
    BY <2>3 DEF CaptureCard
  <2>4. CASE SaveFile(r, p)
    BY <2>4 DEF SaveFile
  <2> QED BY <1>6, <2>1, <2>2, <2>3, <2>4
<1> QED BY <1>1, <1>2, <1>3, <1>4, <1>5, <1>6 DEF DeckStep, DeckRenderStep

\* The invariant of the pool is kept by every step of the documents.
LEMMA PoolInvKept == PoolInv /\ [Next]_vars => PoolInv'
<1> SUFFICES ASSUME PoolInv, [Next]_vars PROVE PoolInv'
  OBVIOUS
<1>1. CASE UNCHANGED shared
  BY <1>1 DEF PoolInv, shared
<1>2. CASE \E c : GetBrowser(c)
  BY <1>2, AskingKeepsPool
<1>3. CASE PoolStep
  BY <1>3, PoolStepKeepsPool
<1>4. UNCHANGED vars => UNCHANGED shared
  BY DEF vars, pool, shared
<1>5. \A C : ReleaseAll(C) => UNCHANGED shared
  BY DEF ReleaseAll, shared
<1>6. UsesPool => (\E c : GetBrowser(c)) \/ UNCHANGED shared
  BY DEF UsesPool, NewPage, Release, shared
<1>7. UNCHANGED pool => UNCHANGED shared
  BY DEF pool, shared
<1> QED
  BY <1>1, <1>2, <1>3, <1>4, <1>5, <1>6, <1>7, WorksheetUsesPool, DeckUsesPool DEF Next

---------------------------------------------------------------------------
(* The rows of an output stand for files of S3: a render stores its file   *)
(* before it writes the row, and no file is ever removed.                  *)

OutputsFollow ==
    /\ pc = [r \in Requests |-> pc[r]]
    /\ outputs \subseteq Requests
    /\ \A r \in Requests : pc[r] = "output" => FileKey(op[r].format) \in objects
    /\ \A r \in outputs : FileKey(op[r].format) \in objects

\* A step of a request that is not one of storing.
MovesOn(r) ==
    /\ \E step : step # "output" /\ Goto(r, step)
    /\ UNCHANGED <<op, objects, outputs>>

\* Such a step does not come to the row of an output.
LEMMA MovingOnKeepsOutputs ==
    ASSUME OutputsFollow, NEW r \in Requests, MovesOn(r)
    PROVE  OutputsFollow'
<1>1. PICK step : step # "output" /\ pc' = [pc EXCEPT ![r] = step]
  BY DEF MovesOn, Goto
<1>2. \A q \in Requests : pc'[q] = "output" => pc[q] = "output"
  BY <1>1 DEF OutputsFollow
<1>3. pc' = [q \in Requests |-> pc'[q]]
  BY <1>1 DEF OutputsFollow
<1> QED BY <1>2, <1>3 DEF OutputsFollow, MovesOn, FileKey

\* What the steps of a worksheet have in common, seen from its outputs.
LEMMA OutputFrames ==
    ASSUME NEW r
    PROVE  /\ Reject(r) => MovesOn(r)
           /\ \A t, step, paths : Take(r, t, step, paths) /\ step # "output" => MovesOn(r)
           /\ \A t : Resolve(r, t) => MovesOn(r)
           /\ \A step : Goto(r, step) /\ step # "output" /\ UNCHANGED op
                          /\ UNCHANGED objects /\ UNCHANGED outputs => MovesOn(r)
<1>1. Reject(r) => MovesOn(r)
  BY DEF Reject, MovesOn, copies, document
<1>2. ASSUME NEW t, NEW step, NEW paths, Take(r, t, step, paths), step # "output"
      PROVE  MovesOn(r)
  BY <1>2 DEF Take, MovesOn, document
<1>3. ASSUME NEW t, Resolve(r, t) PROVE MovesOn(r)
  BY <1>3 DEF Resolve, MovesOn, document
<1> QED BY <1>1, <1>2, <1>3 DEF MovesOn

\* Of the steps of a worksheet only these three touch files and outputs.
LEMMA WorksheetMovesOn ==
    ASSUME NEW r \in Requests, WorksheetStep(r)
    PROVE  MovesOn(r) \/ UploadImage(r) \/ StoreFile(r) \/ RecordOutput(r)
<1> USE OutputFrames
<1>1. CASE ReadForModel(r)
  BY <1>1 DEF ReadForModel
<1>2. CASE UpdateField(r)
  BY <1>2 DEF UpdateField
<1>3. CASE ReadForSave(r)
  BY <1>3 DEF ReadForSave
<1>4. CASE ReadForReplace(r) \/ ReadForUpload(r)
  BY <1>4 DEF ReadForReplace, ReadForUpload
<1>5. CASE ModelEdits(r)
  BY <1>5 DEF ModelEdits
<1>6. CASE ModelCorrects(r)
  BY <1>6 DEF ModelCorrects, document
<1>7. CASE ModelRegenerates(r)
  BY <1>7 DEF ModelRegenerates, document
<1>8. CASE FindImage(r)
  BY <1>8 DEF FindImage, document
<1>9. CASE AttachImage(r)
  BY <1>9 DEF AttachImage, document
<1>10. CASE CheckAsset(r)
  BY <1>10 DEF CheckAsset, document
<1>11. CASE Write(r) \/ Throw(r)
  BY <1>11 DEF Write, Throw, copies
<1>12. CASE ReadForRender(r)
  <2>1. \A t, step, paths : Take(r, t, step, paths) /\ step \in {"done", "browser", "mark"}
                              => MovesOn(r)
    OBVIOUS
  <2> QED BY <1>12, <2>1 DEF ReadForRender
<1>13. CASE RenderStep(r)
  <2>1. CASE MarkRendering(r) \/ Complete(r)
    BY <2>1 DEF MarkRendering, Complete, copies
  <2>2. CASE AskBrowser(r) \/ OpenPage(r) \/ Refused(r) \/ Capture(r)
    BY <2>2 DEF AskBrowser, OpenPage, Refused, Capture, copies, document
  <2>3. CASE RenderThrows(r) \/ MarkFailed(r) \/ PostMedia(r)
    BY <2>3 DEF RenderThrows, MarkFailed, PostMedia, copies, document
  <2> QED BY <1>13, <2>1, <2>2, <2>3 DEF RenderStep
<1> QED BY <1>1, <1>2, <1>3, <1>4, <1>5, <1>6, <1>7, <1>8, <1>9, <1>10, <1>11, <1>12, <1>13
        DEF WorksheetStep

\* Files come before the rows that stand for them, and stay.
LEMMA WorksheetKeepsOutputs ==
    ASSUME OutputsFollow, NEW r \in Requests, WorksheetStep(r)
    PROVE  OutputsFollow'
<1>1. CASE MovesOn(r)
  BY <1>1, MovingOnKeepsOutputs
<1>2. CASE UploadImage(r)
  BY <1>2 DEF UploadImage, OutputsFollow, Goto, copies, FileKey
<1>3. CASE StoreFile(r)
  BY <1>3 DEF StoreFile, OutputsFollow, Goto, copies, FileKey
<1>4. CASE RecordOutput(r)
  BY <1>4 DEF RecordOutput, OutputsFollow, Goto, copies, FileKey
<1> QED BY <1>1, <1>2, <1>3, <1>4, WorksheetMovesOn

\* The steps of the decks and of the pool leave them alone.
LEMMA OutputsKept == OutputsFollow /\ [Next]_vars => OutputsFollow'
<1> SUFFICES ASSUME OutputsFollow, [Next]_vars PROVE OutputsFollow'
  OBVIOUS
<1>1. CASE UNCHANGED worksheetVars
  BY <1>1 DEF OutputsFollow, worksheetVars, document, FileKey
<1>2. CASE \E r \in Requests : WorksheetStep(r)
  BY <1>2, WorksheetKeepsOutputs
<1> QED BY <1>1, <1>2 DEF Next, vars

---------------------------------------------------------------------------
(* A page of a render counts as saved once its file is stored.  Renders    *)
(* with the same place replace each other's files, each page by a page     *)
(* that is saved too; nothing takes a file away.                           *)

JobsTyped ==
    /\ at = [r \in DeckRequests |-> at[r]]
    /\ jobs \in [DeckRequests -> [Pages -> JobStates]]
\* The file of the page is there; a render with the same place stored it last.
PlacedBy(q, r, p) ==
    /\ files[FileAt(r, p)] = q /\ ask[q].kind = "render"
    /\ FileAt(q, p) = FileAt(r, p) /\ jobs[q][p] = "saved"
FilePlaced(r, p) ==
    FileAt(r, p) \in DOMAIN files /\ \E q \in DeckRequests : PlacedBy(q, r, p)
RenderFollows(r) ==
    /\ ask[r].kind = "render" =>
        /\ at[r] \in {"begin", "rendering", "done", "failed"}
        /\ \A p \in Pages : jobs[r][p] # "holding" /\ (jobs[r][p] = "saved" => FilePlaced(r, p))
        /\ at[r] = "done" => \A p \in Pages : jobs[r][p] = "saved"
    /\ ask[r].kind # "render" => \A p \in Pages : jobs[r][p] # "save"
FilesFollow == JobsTyped /\ \A r \in DeckRequests : RenderFollows(r)

\* A step that only takes a request to another point.
MovesDeck(r) ==
    /\ \E step : /\ DeckGoto(r, step)
                 /\ ask[r].kind = "render" =>
                        step \in {"rendering", "failed"} \/ (step = "done" /\ Whole(r))
    /\ UNCHANGED <<ask, files, jobs>>

\* A step that takes the capture of one page further.
MovesPage(r) ==
    /\ \E p, state : /\ Job(r, p, state) /\ state \in JobStates \ {"save", "saved", "holding"}
                     /\ jobs[r][p] # "saved"
    /\ at[r] # "done" \/ ask[r].kind # "render"
    /\ UNCHANGED <<ask, at, files>>

\* What a step of one request has to keep: the others keep their files.
LEMMA OthersKeepFiles ==
    ASSUME FilesFollow, NEW r \in DeckRequests, UNCHANGED ask, JobsTyped',
           \A q \in DeckRequests \ {r} : at'[q] = at[q] /\ jobs'[q] = jobs[q],
           \A q \in DeckRequests \ {r}, p \in Pages : FilePlaced(q, p) => FilePlaced(q, p)',
           RenderFollows(r)'
    PROVE  FilesFollow'
BY DEF FilesFollow, RenderFollows

\* Where no file changes, and what is saved stays so, every file keeps its place.
LEMMA FilesStay ==
    ASSUME UNCHANGED <<ask, files>>,
           \A q \in DeckRequests : ask[q].kind = "render" =>
               \A p \in Pages : jobs[q][p] = "saved" => jobs'[q][p] = "saved"
    PROVE  \A q \in DeckRequests, p \in Pages : FilePlaced(q, p) => FilePlaced(q, p)'
<1> SUFFICES ASSUME NEW r \in DeckRequests, NEW p \in Pages, FilePlaced(r, p)
             PROVE  FilePlaced(r, p)'
  OBVIOUS
<1>1. \A q \in DeckRequests : FileAt(q, p)' = FileAt(q, p)
  BY DEF FileAt
<1>2. PICK q \in DeckRequests : PlacedBy(q, r, p)
  BY DEF FilePlaced
<1>3. PlacedBy(q, r, p)'
  BY <1>1, <1>2 DEF PlacedBy
<1> QED BY <1>1, <1>3 DEF FilePlaced

\* No file changes while a request goes on.
LEMMA MovingDeckKeepsFiles ==
    ASSUME FilesFollow, NEW r \in DeckRequests, MovesDeck(r)
    PROVE  FilesFollow'
<1>1. PICK step : /\ at' = [at EXCEPT ![r] = step]
                  /\ ask[r].kind = "render" =>
                        step \in {"rendering", "failed"} \/ (step = "done" /\ Whole(r))
  BY DEF MovesDeck, DeckGoto
<1>2. UNCHANGED <<ask, files, jobs>>
  BY DEF MovesDeck
<1>3. JobsTyped'
  BY <1>1, <1>2 DEF FilesFollow, JobsTyped
<1>4. \A q \in DeckRequests, p \in Pages : FilePlaced(q, p) => FilePlaced(q, p)'
  BY <1>2, FilesStay
<1>5. at'[r] = step /\ \A q \in DeckRequests \ {r} : at'[q] = at[q] /\ jobs'[q] = jobs[q]
  BY <1>1, <1>2 DEF FilesFollow, JobsTyped
<1>6. ask[r].kind = "render" /\ Whole(r) => \A p \in Pages : jobs[r][p] = "saved"
  BY DEF Whole, InState
<1>7. RenderFollows(r)'
  BY <1>1, <1>2, <1>4, <1>5, <1>6 DEF FilesFollow, RenderFollows
<1> QED BY <1>2, <1>3, <1>4, <1>5, <1>7, OthersKeepFiles

\* No page is saved while one is on its way.
LEMMA MovingPageKeepsFiles ==
    ASSUME FilesFollow, NEW r \in DeckRequests, MovesPage(r)
    PROVE  FilesFollow'
<1>1. PICK p, state : /\ jobs' = [jobs EXCEPT ![r][p] = state] /\ jobs[r][p] # "saved"
                      /\ state \in JobStates \ {"save", "saved", "holding"}
  BY DEF MovesPage, Job
<1>2. UNCHANGED <<ask, at, files>>
  BY DEF MovesPage
<1>3. JobsTyped'
  BY <1>1, <1>2 DEF FilesFollow, JobsTyped
<1>4. \A q \in DeckRequests \ {r} : at'[q] = at[q] /\ jobs'[q] = jobs[q]
  BY <1>1, <1>2 DEF FilesFollow, JobsTyped
<1>5. \A x \in Pages :
          \/ jobs'[r][x] = jobs[r][x]
          \/ jobs'[r][x] \notin {"save", "saved", "holding"} /\ jobs[r][x] # "saved"
  BY <1>1 DEF FilesFollow, JobsTyped
<1>6. \A q \in DeckRequests, x \in Pages : FilePlaced(q, x) => FilePlaced(q, x)'
  BY <1>2, <1>4, <1>5, FilesStay
<1>7. RenderFollows(r)'
  BY <1>2, <1>6, <1>5 DEF FilesFollow, RenderFollows, MovesPage
<1> QED BY <1>2, <1>3, <1>6, <1>4, <1>7, OthersKeepFiles

\* A capture that fails leaves those pages of its render saved that were.
LEMMA LosingKeepsFiles ==
    ASSUME FilesFollow, NEW r \in DeckRequests, NEW p \in Pages, Lose(r, p),
           jobs[r][p] # "saved"
    PROVE  FilesFollow'
<1>1. /\ jobs' = [jobs EXCEPT ![r] = [q \in Pages |->
                    IF q = p \/ jobs[r][q] = "holding" THEN "lost" ELSE jobs[r][q]]]
      /\ at' = [at EXCEPT ![r] = "failed"]
      /\ UNCHANGED <<ask, files>>
  BY DEF Lose, DeckGoto, drafts, deckRow
<1>2. JobsTyped'
  BY <1>1 DEF FilesFollow, JobsTyped, JobStates
<1>3. \A q \in DeckRequests \ {r} : at'[q] = at[q] /\ jobs'[q] = jobs[q]
  BY <1>1 DEF FilesFollow, JobsTyped
<1>4. \A x \in Pages : jobs'[r][x] = jobs[r][x]
                         \/ (jobs'[r][x] = "lost" /\ (x = p \/ jobs[r][x] = "holding"))
  BY <1>1 DEF FilesFollow, JobsTyped
<1>5. \A q \in DeckRequests, x \in Pages : FilePlaced(q, x) => FilePlaced(q, x)'
  BY <1>1, <1>3, <1>4, FilesStay
<1>6. at'[r] = "failed"
  BY <1>1 DEF FilesFollow, JobsTyped
<1>7. RenderFollows(r)'
  BY <1>1, <1>5, <1>4, <1>6 DEF FilesFollow, RenderFollows
<1> QED BY <1>1, <1>2, <1>5, <1>3, <1>7, OthersKeepFiles

\* The card of a render is not saved by its capture.
LEMMA CaptureKeepsFiles ==
    ASSUME FilesFollow, NEW r \in DeckRequests, NEW p \in Pages, CaptureCard(r, p)
    PROVE  FilesFollow'
<1>1. jobs[r][p] = "capture" /\ UNCHANGED <<ask, at, files>>
  BY DEF CaptureCard, drafts, deckRow
<1>2. \/ /\ ask[r].kind = "download"
         /\ jobs' = [jobs EXCEPT ![r][p] = "holding", ![r][Pdf] = "browser"]
      \/ jobs' = [jobs EXCEPT ![r] = [q \in Pages |->
                       IF q = p THEN IF ask[r].kind = "render" THEN "save" ELSE "saved"
                       ELSE IF jobs[r][q] = "holding" THEN "saved" ELSE jobs[r][q]]]
  BY DEF CaptureCard
<1>3. JobsTyped'
  <2>1. at' = [q \in DeckRequests |-> at'[q]]
    BY <1>1 DEF FilesFollow, JobsTyped
  <2>2. jobs' \in [DeckRequests -> [Pages -> JobStates]]
    <3>1. /\ jobs \in [DeckRequests -> [Pages -> JobStates]]
          /\ {"holding", "browser", "save", "saved"} \subseteq JobStates
      BY DEF FilesFollow, JobsTyped, JobStates
    <3>2. \A x \in Pages : jobs[r][x] \in JobStates
      BY <3>1
    <3>3. jobs'[r] \in [Pages -> JobStates]
      <4>1. CASE jobs' = [jobs EXCEPT ![r][p] = "holding", ![r][Pdf] = "browser"]
        BY <3>1, <4>1
      <4>2. CASE jobs' = [jobs EXCEPT ![r] = [q \in Pages |->
                       IF q = p THEN IF ask[r].kind = "render" THEN "save" ELSE "saved"
                       ELSE IF jobs[r][q] = "holding" THEN "saved" ELSE jobs[r][q]]]
        BY <3>1, <3>2, <4>2
      <4> QED BY <1>2, <4>1, <4>2
    <3>4. jobs' = [jobs EXCEPT ![r] = jobs'[r]]
      BY <1>2, <3>1
    <3> QED BY <3>1, <3>3, <3>4
  <2> QED BY <2>1, <2>2 DEF JobsTyped
<1>4. \A q \in DeckRequests \ {r} : at'[q] = at[q] /\ jobs'[q] = jobs[q]
  BY <1>1, <1>2 DEF FilesFollow, JobsTyped
<1>5. ask[r].kind = "render" =>
          \A x \in Pages : jobs'[r][x] = jobs[r][x] \/ (x = p /\ jobs'[r][x] = "save")
  BY <1>2 DEF FilesFollow, JobsTyped, RenderFollows
<1>6. \A q \in DeckRequests, x \in Pages : FilePlaced(q, x) => FilePlaced(q, x)'
  BY <1>1, <1>4, <1>5, FilesStay
<1>7. ask[r].kind # "render" =>
          \A x \in Pages : \/ jobs'[r][x] = jobs[r][x]
                           \/ jobs'[r][x] \in {"holding", "browser", "saved"}
  BY <1>2 DEF FilesFollow, JobsTyped
<1>8. RenderFollows(r)'
  BY <1>1, <1>6, <1>5, <1>7 DEF FilesFollow, RenderFollows
<1> QED BY <1>1, <1>3, <1>6, <1>4, <1>8, OthersKeepFiles

\* The file is stored before the card counts as saved; the one it replaces is of
\* the same page of a render with the same place.
LEMMA SavingKeepsFiles ==
    ASSUME FilesFollow, NEW r \in DeckRequests, NEW p \in Pages, SaveFile(r, p)
    PROVE  FilesFollow'
<1>1. jobs[r][p] = "save" /\ ask[r].kind = "render"
  BY DEF SaveFile, FilesFollow, RenderFollows
<1>2. CASE Lose(r, p)
  BY <1>1, <1>2, LosingKeepsFiles
<1>3. CASE /\ files' = [k \in DOMAIN files \cup {FileAt(r, p)} |->
                          IF k = FileAt(r, p) THEN r ELSE files[k]]
           /\ Job(r, p, "saved") /\ UNCHANGED <<drafts, at, deck, created>>
  <2>1. UNCHANGED <<ask, at>>
    BY <1>3 DEF drafts
  <2>2. jobs' = [jobs EXCEPT ![r][p] = "saved"]
    BY <1>3 DEF Job
  <2>3. JobsTyped'
    BY <2>1, <2>2 DEF FilesFollow, JobsTyped, JobStates
  <2>4. \A q \in DeckRequests \ {r} : at'[q] = at[q] /\ jobs'[q] = jobs[q]
    BY <2>1, <2>2 DEF FilesFollow, JobsTyped
  <2>5. jobs'[r][p] = "saved" /\ \A x \in Pages \ {p} : jobs'[r][x] = jobs[r][x]
    BY <2>2 DEF FilesFollow, JobsTyped, JobStates
  <2>6. \A q \in DeckRequests, x \in Pages : FileAt(q, x)' = FileAt(q, x)
    BY <2>1 DEF FileAt
  <2>7. ASSUME NEW q \in DeckRequests, FileAt(q, p) = FileAt(r, p) PROVE FilePlaced(q, p)'
    <3>1. PlacedBy(r, q, p)'
      BY <1>1, <1>3, <2>1, <2>5, <2>6, <2>7 DEF PlacedBy
    <3>2. FileAt(q, p)' \in DOMAIN files'
      BY <1>3, <2>6, <2>7
    <3> QED BY <3>1, <3>2 DEF FilePlaced
  <2>8. FilePlaced(r, p)'
    BY <2>7
  <2>9. \A q \in DeckRequests, x \in Pages : FilePlaced(q, x) => FilePlaced(q, x)'
    <3> SUFFICES ASSUME NEW q \in DeckRequests, NEW x \in Pages, FilePlaced(q, x)
                 PROVE  FilePlaced(q, x)'
      OBVIOUS
    <3>1. CASE FileAt(q, x) = FileAt(r, p)
      <4>1. x = p
        BY <3>1 DEF FileAt
      <4> QED BY <2>7, <3>1, <4>1
    <3>2. CASE FileAt(q, x) # FileAt(r, p)
      <4>1. FileAt(q, x)' \in DOMAIN files' /\ files'[FileAt(q, x)] = files[FileAt(q, x)]
        BY <1>3, <2>6, <3>2 DEF FilePlaced
      <4>2. PICK o \in DeckRequests : PlacedBy(o, q, x)
        BY DEF FilePlaced
      <4>3. jobs'[o][x] = "saved"
        BY <2>4, <2>5, <4>2 DEF PlacedBy
      <4>4. PlacedBy(o, q, x)'
        BY <2>1, <2>6, <4>1, <4>2, <4>3 DEF PlacedBy
      <4> QED BY <4>1, <4>4 DEF FilePlaced
    <3> QED BY <3>1, <3>2
  <2>10. RenderFollows(r)'
    BY <1>1, <2>1, <2>8, <2>9, <2>5 DEF FilesFollow, RenderFollows
  <2> QED BY <2>1, <2>3, <2>9, <2>4, <2>10, OthersKeepFiles
<1> QED BY <1>2, <1>3 DEF SaveFile

\* An upload is stored where no card is.
LEMMA UploadKeepsFiles ==
    ASSUME FilesFollow, NEW r \in DeckRequests, StoreUpload(r)
    PROVE  FilesFollow'
<1>1. /\ at[r] = "upload" /\ at' = [at EXCEPT ![r] = "done"] /\ UNCHANGED <<ask, jobs>>
      /\ files' = [k \in DOMAIN files \cup {<<"upload", r>>} |->
                      IF k = <<"upload", r>> THEN r ELSE files[k]]
  BY DEF StoreUpload, DeckGoto, drafts
<1>2. JobsTyped'
  BY <1>1 DEF FilesFollow, JobsTyped
<1>3. \A q \in DeckRequests, x \in Pages : FilePlaced(q, x) => FilePlaced(q, x)'
  <2> SUFFICES ASSUME NEW q \in DeckRequests, NEW x \in Pages, FilePlaced(q, x)
               PROVE  FilePlaced(q, x)'
    OBVIOUS
  <2>1. FileAt(q, x) # <<"upload", r>>
    BY DEF FileAt
  <2>2. \A o \in DeckRequests : FileAt(o, x)' = FileAt(o, x)
    BY <1>1 DEF FileAt
  <2>3. FileAt(q, x)' \in DOMAIN files' /\ files'[FileAt(q, x)] = files[FileAt(q, x)]
    BY <1>1, <2>1, <2>2 DEF FilePlaced
  <2>4. PICK o \in DeckRequests : PlacedBy(o, q, x)
    BY DEF FilePlaced
  <2>5. PlacedBy(o, q, x)'
    BY <1>1, <2>2, <2>3, <2>4 DEF PlacedBy
  <2> QED BY <2>3, <2>5 DEF FilePlaced
<1>4. \A q \in DeckRequests \ {r} : at'[q] = at[q] /\ jobs'[q] = jobs[q]
  BY <1>1 DEF FilesFollow, JobsTyped
<1>5. RenderFollows(r)'
  BY <1>1 DEF FilesFollow, RenderFollows
<1> QED BY <1>1, <1>2, <1>3, <1>4, <1>5, OthersKeepFiles

\* What the steps of a deck have in common, seen from its files.
LEMMA FileFrames ==
    ASSUME FilesFollow, NEW r \in DeckRequests
    PROVE  /\ DeckReject(r) => MovesDeck(r)
           /\ \A step : Proceed(r, step) /\ ask[r].kind # "render" => MovesDeck(r)
           /\ \A cards, step : Draft(r, cards, step) /\ ask[r].kind # "render" => MovesDeck(r)
           /\ \A cards, images, step :
                ReadDeck(r, cards, images, step) /\ ask[r].kind # "render" => MovesDeck(r)
           /\ at[r] \notin {"begin", "rendering", "done", "failed"} => ask[r].kind # "render"
<1>1. DeckReject(r) => MovesDeck(r)
  BY DEF DeckReject, MovesDeck, drafts, deckRow
<1>2. ASSUME NEW step, Proceed(r, step), ask[r].kind # "render" PROVE MovesDeck(r)
  BY <1>2 DEF Proceed, MovesDeck, drafts, deckRow
<1>3. ASSUME NEW cards, NEW step, Draft(r, cards, step), ask[r].kind # "render"
      PROVE  MovesDeck(r)
  BY <1>3 DEF Draft, MovesDeck, deckRow
<1>4. ASSUME NEW cards, NEW images, NEW step, ReadDeck(r, cards, images, step),
             ask[r].kind # "render"
      PROVE  MovesDeck(r)
  BY <1>4 DEF ReadDeck, MovesDeck, deckRow
<1> QED BY <1>1, <1>2, <1>3, <1>4 DEF FilesFollow, RenderFollows

\* Every step of a deck is of one of these kinds.
LEMMA DeckKeepsFiles ==
    ASSUME FilesFollow, NEW r \in DeckRequests, DeckStep(r)
    PROVE  FilesFollow'
<1> USE FileFrames
<1>1. CASE ReadForEdit(r) \/ DeckModel(r) \/ Retrieve(r)
  <2>1. MovesDeck(r)
    BY <1>1 DEF ReadForEdit, DeckModel, Retrieve, Asked
  <2> QED BY <2>1, MovingDeckKeepsFiles
<1>2. CASE SaveEdits(r) \/ AttachPicture(r) \/ UploadPicture(r)
  <2>1. MovesDeck(r)
    BY <1>2 DEF SaveEdits, AttachPicture, UploadPicture, Asked, MovesDeck, deckRow
  <2> QED BY <2>1, MovingDeckKeepsFiles
<1>3. CASE UpdateCards(r) \/ FindDeckTemplate(r) \/ SaveGenerated(r) \/ DeckThrows(r)
  <2>1. MovesDeck(r)
    BY <1>3 DEF UpdateCards, FindDeckTemplate, SaveGenerated, DeckThrows, Asked, MovesDeck,
                drafts
  <2> QED BY <2>1, MovingDeckKeepsFiles
<1>4. CASE StoreUpload(r)
  BY <1>4, UploadKeepsFiles
<1>5. CASE StartRender(r) \/ PostFails(r) \/ FinishRender(r)
  <2>1. MovesDeck(r)
    BY <1>5 DEF StartRender, PostFails, FinishRender, Proceed, MovesDeck, drafts, deckRow
  <2> QED BY <2>1, MovingDeckKeepsFiles
<1>6. CASE TakeCard(r) \/ TakeNext(r)
  <2>1. MovesPage(r)
    BY <1>6 DEF TakeCard, TakeNext, AskPage, FirstTodo, InState, MovesPage, JobStates, drafts, deckRow
  <2> QED BY <2>1, MovingPageKeepsFiles
<1>7. ASSUME NEW p \in Pages,
             AskSecondPage(r, p) \/ OpenCard(r, p) \/ CaptureFails(r, p) \/ CaptureCard(r, p)
               \/ SaveFile(r, p)
      PROVE  FilesFollow'
  <2>1. CASE AskSecondPage(r, p) \/ OpenCard(r, p)
    <3>1. MovesPage(r)
      BY <2>1 DEF AskSecondPage, AskPage, OpenCard, MovesPage, JobStates, drafts, deckRow,
                  FilesFollow, RenderFollows
    <3> QED BY <3>1, MovingPageKeepsFiles
  <2>2. CASE CaptureFails(r, p)
    BY <2>2, LosingKeepsFiles DEF CaptureFails
  <2>3. CASE CaptureCard(r, p)
    BY <2>3, CaptureKeepsFiles
  <2>4. CASE SaveFile(r, p)
    BY <2>4, SavingKeepsFiles
  <2> QED BY <1>7, <2>1, <2>2, <2>3, <2>4
<1> QED BY <1>1, <1>2, <1>3, <1>4, <1>5, <1>6, <1>7 DEF DeckStep, DeckRenderStep

\* The steps of the worksheet and of the pool leave them alone.
LEMMA FilesKept == FilesFollow /\ [Next]_vars => FilesFollow'
<1> SUFFICES ASSUME FilesFollow, [Next]_vars PROVE FilesFollow'
  OBVIOUS
<1>1. CASE UNCHANGED deckVars
  <2> USE <1>1 DEF deckVars
  <2>1. JobsTyped'
    BY DEF FilesFollow, JobsTyped
  <2>2. \A q \in DeckRequests, p \in Pages : FilePlaced(q, p) => FilePlaced(q, p)'
    BY FilesStay
  <2>3. ASSUME NEW r \in DeckRequests PROVE RenderFollows(r)'
    BY <2>2 DEF FilesFollow, RenderFollows
  <2> QED BY <2>1, <2>3 DEF FilesFollow
<1>2. CASE \E r \in DeckRequests : DeckStep(r)
  BY <1>2, DeckKeepsFiles
<1> QED BY <1>1, <1>2 DEF Next, vars

LEMMA FilesStart == Init => OutputsFollow /\ FilesFollow
<1> SUFFICES ASSUME Init PROVE OutputsFollow /\ FilesFollow
  OBVIOUS
<1>1. OutputsFollow
  BY DEF Init, WorksheetInit, OutputsFollow
<1>2. JobsTyped
  BY DEF Init, DeckInit, JobsTyped, NoJobs, JobStates
<1>3. ASSUME NEW r \in DeckRequests PROVE RenderFollows(r)
  BY DEF Init, DeckInit, RenderFollows, NoJobs
<1> QED BY <1>1, <1>2, <1>3 DEF FilesFollow

\* Every row of an output stands for a file that is there, and so does every page
\* a render answered with, however many renders run at once and whichever of them
\* share a place: the file is of that page and of a render that saved it.
THEOREM FilesAlwaysStand == Spec => []FilesStandBehindAnswers
<1>1. OutputsFollow /\ FilesFollow /\ [Next]_vars => OutputsFollow' /\ FilesFollow'
  BY OutputsKept, FilesKept
<1>2. OutputsFollow /\ FilesFollow => FilesStandBehindAnswers
  BY DEF OutputsFollow, FilesFollow, RenderFollows, FilePlaced, PlacedBy, FilesStandBehindAnswers
<1> QED BY <1>1, <1>2, FilesStart, PTL DEF Spec

\* Where the backend keeps the files of generations apart, as the local one does,
\* a render that was answered keeps files of the generation it was sent, whatever
\* is rendered since.
THEOREM FilesStayGrouped ==
    ASSUME ByRequest
    PROVE  Spec => []FilesAreGroupedByRequest
<1>1. OutputsFollow /\ FilesFollow /\ [Next]_vars => OutputsFollow' /\ FilesFollow'
  BY OutputsKept, FilesKept
<1>2. OutputsFollow /\ FilesFollow => FilesAreGroupedByRequest
  <2> SUFFICES ASSUME FilesFollow, NEW r \in DeckRequests, ask[r].kind = "render",
                      at[r] = "done", NEW p \in Pages
               PROVE  ask[files[FileAt(r, p)]].set = ask[r].set
    BY DEF FilesAreGroupedByRequest
  <2>1. PICK q \in DeckRequests : PlacedBy(q, r, p)
    BY DEF FilesFollow, RenderFollows, FilePlaced
  <2>2. ask[q].set = ask[r].set
    BY <2>1 DEF PlacedBy, FileAt
  <2> QED BY <2>1, <2>2 DEF PlacedBy
<1> QED BY <1>1, <1>2, FilesStart, PTL DEF Spec

\* No two Chromium processes run or are being launched, however many renders
\* ask at once and however often the browser is lost.
THEOREM OneBrowserAlways == Spec => []OneBrowser
<1>1. Init => PoolInv
  BY PoolStarts DEF Init
<1>2. PoolInv /\ [Next]_vars => PoolInv'
  BY PoolInvKept
<1> QED BY <1>1, <1>2, PoolHasOne, PTL DEF Spec

---------------------------------------------------------------------------
(* What an edit writes. *)

\* The field of an edit or of an update, and what a save names.
EditedPath(o, t) == IF o.kind = "edit" THEN FieldPath(t, o.field) ELSE o.field.path
SavedPaths(o) == {o.fields[i].path : i \in DOMAIN o.fields}
                     \cup UNION {PicturePaths(p) : p \in ImagePaths(o)}
\* The ids of the pictures whose query is another.
NewIds(t, n) == {Append(p, "assetId") : p \in Changed(t, n)}

\* Somewhere on the way the copy was the one that was read with the field
\* replaced; since then only pictures that are new in it were given an asset.
EditFits(o, t, w, d) ==
    \E n : /\ Paths(n) /\ Clean(n) /\ SameBut(t, n, {EditedPath(o, t)})
           /\ d \subseteq Changed(t, n) /\ SameBut(n, w, NewIds(t, n))
\* What holds of a request for o that is at p, has read t, made w of it and
\* still has the pictures d to look up.
CopyFits(o, p, t, w, d) ==
    /\ p = "write" => ~o.temp
    /\ p = "images" => o.kind \in {"edit", "update"} /\ d # {}
    /\ p = "attach" => o.kind = "save" /\ d # {} /\ d \subseteq ImagePaths(o)
    /\ p \in {"model", "images", "attach", "check", "write"} /\ ~o.temp =>
           Paths(t) /\ Clean(t) /\ Paths(w)
    /\ p \in {"images", "write"} /\ ~o.temp /\ o.kind \in {"edit", "update"} =>
           EditFits(o, t, w, d)
    /\ p \in {"attach", "write"} /\ o.kind = "save" => SameBut(t, w, SavedPaths(o))
    /\ p = "write" /\ o.kind = "replace" => SameBut(t, w, PicturePaths(o.images[1].path))
RowFits == "structure" \in DOMAIN row /\ Paths(row.structure) /\ Clean(row.structure)
CopyShapes ==
    /\ pc = [r \in Requests |-> pc[r]] /\ base = [r \in Requests |-> base[r]]
    /\ work = [r \in Requests |-> work[r]] /\ todo = [r \in Requests |-> todo[r]]
CopiesFit ==
    /\ CopyShapes /\ RowFits
    /\ \A r \in Requests : WellFormed(op[r]) /\ CopyFits(op[r], pc[r], base[r], work[r], todo[r])

\* A request that is elsewhere has nothing to keep.
LEMMA RestFits ==
    ASSUME NEW o, NEW p, NEW t, NEW w, NEW d,
           p \notin {"model", "images", "attach", "check", "write"}
    PROVE  CopyFits(o, p, t, w, d)
BY DEF CopyFits

\* A step of one request.
CopyMoves(r, p, t, w, d) ==
    /\ pc' = [pc EXCEPT ![r] = p] /\ base' = [base EXCEPT ![r] = t]
    /\ work' = [work EXCEPT ![r] = w] /\ todo' = [todo EXCEPT ![r] = d]
    /\ UNCHANGED op
\* The others keep their copies.
LEMMA MovingKeepsCopies ==
    ASSUME CopiesFit, NEW r \in Requests, NEW p, NEW t, NEW w, NEW d,
           CopyMoves(r, p, t, w, d), CopyFits(op[r], p, t, w, d), RowFits'
    PROVE  CopiesFit'
<1>1. /\ pc'[r] = p /\ base'[r] = t /\ work'[r] = w /\ todo'[r] = d
      /\ \A q \in Requests \ {r} : /\ pc'[q] = pc[q] /\ base'[q] = base[q]
                                   /\ work'[q] = work[q] /\ todo'[q] = todo[q]
  BY DEF CopiesFit, CopyShapes, CopyMoves
<1>2. /\ pc' = [q \in Requests |-> pc'[q]] /\ base' = [q \in Requests |-> base'[q]]
      /\ work' = [q \in Requests |-> work'[q]] /\ todo' = [q \in Requests |-> todo'[q]]
  BY DEF CopiesFit, CopyShapes, CopyMoves
<1>3. op' = op
  BY DEF CopyMoves
<1>4. ASSUME NEW q \in Requests
      PROVE  WellFormed(op[q]) /\ CopyFits(op[q], pc'[q], base'[q], work'[q], todo'[q])
  <2>1. CASE q = r
    BY <1>1, <2>1 DEF CopiesFit
  <2>2. CASE q # r
    BY <1>1, <2>2 DEF CopiesFit
  <2> QED BY <2>1, <2>2
<1> QED BY <1>2, <1>3, <1>4 DEF CopiesFit, CopyShapes

\* The four variables are functions of the requests.
LEMMA CopiesHaveShapes == CopiesFit => CopyShapes
BY DEF CopiesFit
\* The shapes the steps of a request have.
LEMMA CopyFrames ==
    ASSUME CopyShapes, NEW r \in Requests
    PROVE  /\ \A t, step, paths : Take(r, t, step, paths) =>
                  CopyMoves(r, step, Source(r), t, paths) /\ UNCHANGED row
           /\ Reject(r) => CopyMoves(r, "failed", base[r], work[r], todo[r]) /\ UNCHANGED row
           /\ \A step, t : /\ Goto(r, step) /\ work' = [work EXCEPT ![r] = t]
                           /\ UNCHANGED <<op, base, todo>>
                           => CopyMoves(r, step, base[r], t, todo[r])
           /\ \A step : Goto(r, step) /\ UNCHANGED copies
                           => CopyMoves(r, step, base[r], work[r], todo[r])
<1>1. /\ base = [base EXCEPT ![r] = base[r]] /\ work = [work EXCEPT ![r] = work[r]]
      /\ todo = [todo EXCEPT ![r] = todo[r]]
  BY DEF CopyShapes
<1>2. ASSUME NEW t, NEW step, NEW paths, Take(r, t, step, paths)
      PROVE  CopyMoves(r, step, Source(r), t, paths) /\ UNCHANGED row
  BY <1>2 DEF Take, CopyMoves, Source, Goto, document
<1>3. Reject(r) => CopyMoves(r, "failed", base[r], work[r], todo[r]) /\ UNCHANGED row
  BY <1>1 DEF Reject, CopyMoves, Goto, copies, document
<1>4. ASSUME NEW step, NEW t, Goto(r, step), work' = [work EXCEPT ![r] = t],
             UNCHANGED <<op, base, todo>>
      PROVE  CopyMoves(r, step, base[r], t, todo[r])
  BY <1>1, <1>4 DEF CopyMoves, Goto
<1>5. ASSUME NEW step, Goto(r, step), UNCHANGED copies
      PROVE  CopyMoves(r, step, base[r], work[r], todo[r])
  BY <1>1, <1>5 DEF CopyMoves, Goto, copies
<1> QED BY <1>2, <1>3, <1>4, <1>5

\* A request that leaves the places where it works leaves nothing to show.
LEMMA LeavingKeepsCopies ==
    ASSUME CopiesFit, NEW r \in Requests, NEW p, NEW t, NEW w, NEW d,
           CopyMoves(r, p, t, w, d), RowFits',
           p \notin {"model", "images", "attach", "check", "write"}
    PROVE  CopiesFit'
BY RestFits, MovingKeepsCopies
\* The same of one that is refused.
LEMMA RejectKeepsCopies ==
    ASSUME CopiesFit, NEW r \in Requests, Reject(r)
    PROVE  CopiesFit'
<1>1. CopyMoves(r, "failed", base[r], work[r], todo[r]) /\ UNCHANGED row
  BY CopiesHaveShapes, CopyFrames
<1>2. RowFits'
  BY <1>1 DEF CopiesFit, RowFits
<1> QED BY <1>1, <1>2, LeavingKeepsCopies

\* What the DTOs let through of a save,
LEMMA SaveIsWellFormed ==
    ASSUME NEW o, WellFormed(o), o.kind = "save"
    PROVE  /\ ~o.temp /\ IsList(o.fields) /\ IsList(o.images)
           /\ \A i \in DOMAIN o.fields : o.fields[i].path \in Seq(STRING)
           /\ \A i \in DOMAIN o.images : /\ o.images[i].path \in Seq(STRING)
                                        /\ o.images[i].path \in DOMAIN SlotNames
<1>1. /\ ~o.temp /\ IsList(o.fields) /\ IsList(o.images)
      /\ \A i \in DOMAIN o.fields : o.fields[i].path \in Seq(STRING)
      /\ ImagePaths(o) \subseteq Seq(STRING) \cap DOMAIN SlotNames
  BY Zenon DEF WellFormed
<1>2. \A i \in DOMAIN o.images : o.images[i].path \in ImagePaths(o)
  BY DEF ImagePaths
<1> QED BY <1>1, <1>2
\* and of the replacement of a picture.
LEMMA ReplaceIsWellFormed ==
    ASSUME NEW o, WellFormed(o), o.kind = "replace"
    PROVE  /\ ~o.temp /\ o.images[1].path \in Seq(STRING)
           /\ o.images[1].path \in DOMAIN SlotNames
<1>1. /\ ~o.temp /\ 1 \in DOMAIN o.images
      /\ ImagePaths(o) \subseteq Seq(STRING) \cap DOMAIN SlotNames
  BY Zenon DEF WellFormed
<1>2. o.images[1].path \in ImagePaths(o)
  BY <1>1 DEF ImagePaths
<1> QED BY <1>1, <1>2

\* A save sets one field after the other, where there is a place for it.
IsSaved(K, o, t) ==
    K[0] = t /\ \A i \in 1..Len(o.fields) :
        \/ K[i] = K[i - 1]
        \/ /\ CanSet(K[i - 1], o.fields[i].path)
           /\ K[i] = Put(K[i - 1], o.fields[i].path, Leaf(o.fields[i].value))

\* The fields of a save, one after the other: the function SavedUpTo names
\* exists, so it is what its equation says.
LEMMA SavedUnfolds ==
    ASSUME NEW o, NEW t, Len(o.fields) \in Nat PROVE IsSaved(SavedUpTo(o, t), o, t)
<1> DEFINE K == SavedUpTo(o, t)
           Skipped(u, f) ==
               \/ ~CanSet(u, f.path)
               \/ Unlisted(f) /\ ~(Has(u, f.path) /\ IsValue(u, f.path))
           Then(u, i) == IF Skipped(u, o.fields[i]) THEN u
                         ELSE Put(u, o.fields[i].path, Leaf(o.fields[i].value))
           Sets(u, i) == /\ CanSet(u, o.fields[i].path)
                         /\ Then(u, i) = Put(u, o.fields[i].path, Leaf(o.fields[i].value))
           Kept_(f, m) == f = [i \in 0..m |-> IF i = 0 THEN t ELSE Then(f[i - 1], i)]
           T == {m \in Nat : \E f : Kept_(f, m)}
<1>0. SavedUpTo(o, t) = CHOOSE f : Kept_(f, Len(o.fields))
  BY DEF SavedUpTo
<1>8. \A u, i : Then(u, i) = u \/ Sets(u, i)
  OBVIOUS
<1> HIDE DEF Then, K
<1>1. 0 \in T
  <2>1. Kept_([n \in 0..0 |-> t], 0)
    OBVIOUS
  <2> QED BY <2>1
<1>2. ASSUME NEW m \in Nat, m \in T PROVE m + 1 \in T
  <2>1. PICK f : Kept_(f, m)
    BY <1>2
  <2> DEFINE g == [n \in 0..m + 1 |-> IF n <= m THEN f[n] ELSE Then(f[m], m + 1)]
  <2>2. ASSUME NEW n \in 0..m + 1
        PROVE  g[n] = IF n = 0 THEN t ELSE Then(g[n - 1], n)
    <3>1. CASE n = 0
      BY <2>1, <3>1
    <3>2. CASE n \in 1..m
      <4>1. g[n] = f[n] /\ g[n - 1] = f[n - 1]
        BY <3>2
      <4>2. f[n] = Then(f[n - 1], n)
        BY <2>1, <3>2
      <4> QED BY <3>2, <4>1, <4>2
    <3>3. CASE n = m + 1
      <4>1. g[n] = Then(f[m], m + 1) /\ g[n - 1] = f[m] /\ n # 0
        BY <3>3
      <4> QED BY <3>3, <4>1
    <3> QED BY <3>1, <3>2, <3>3
  <2>3. Kept_(g, m + 1)
    BY <2>2
  <2> HIDE DEF g
  <2>4. \E h : Kept_(h, m + 1)
    BY <2>3
  <2> HIDE DEF Kept_
  <2> QED BY <2>4
<1>3. Nat \subseteq T
  BY <1>1, <1>2, InductionOnSets
<1>4. \E f : Kept_(f, Len(o.fields))
  BY <1>3
<1>5. Kept_(K, Len(o.fields))
  BY <1>0, <1>4 DEF K
<1>6. \A i \in 0..Len(o.fields) : K[i] = IF i = 0 THEN t ELSE Then(K[i - 1], i)
  BY <1>5
<1>7. K[0] = t /\ \A i \in 1..Len(o.fields) : K[i] = Then(K[i - 1], i)
  BY <1>6
<1> QED BY <1>7, <1>8 DEF IsSaved, K

\* A save changes the fields it names.
LEMMA SavedChanges ==
    ASSUME NEW o, WellFormed(o), o.kind = "save", NEW t, Paths(t)
    PROVE  Paths(SavedFields(o, t)) /\ SameBut(t, SavedFields(o, t), SavedPaths(o))
<1>0. PICK K : K = SavedUpTo(o, t)
  OBVIOUS
<1> DEFINE Fine(u) == Paths(u) /\ SameBut(t, u, SavedPaths(o))
           T == {n \in Nat : n <= Len(o.fields) => Fine(K[n])}
<1>6. /\ Len(o.fields) \in Nat /\ DOMAIN o.fields = 1..Len(o.fields)
      /\ \A i \in 1..Len(o.fields) : o.fields[i].path \in Seq(STRING)
  <2>1. IsList(o.fields) /\ \A i \in DOMAIN o.fields : o.fields[i].path \in Seq(STRING)
    BY SaveIsWellFormed
  <2>2. Len(o.fields) \in Nat /\ DOMAIN o.fields = 1..Len(o.fields)
    BY <2>1 DEF IsList
  <2> QED BY <2>1, <2>2
<1>1. IsSaved(K, o, t)
  BY <1>0, <1>6, SavedUnfolds
<1>2. SavedFields(o, t) = K[Len(o.fields)]
  BY <1>0 DEF SavedFields
<1>3. 0 \in T
  BY <1>1, SameItself DEF IsSaved
<1>4. ASSUME NEW n \in Nat, n \in T PROVE n + 1 \in T
  <2> SUFFICES ASSUME n + 1 <= Len(o.fields) PROVE Fine(K[n + 1])
    OBVIOUS
  <2> DEFINE f == o.fields[n + 1]
  <2>1. n + 1 \in 1..Len(o.fields) /\ (n + 1) - 1 = n /\ n <= Len(o.fields)
    BY <1>6
  <2>2. Fine(K[n])
    BY <1>4, <2>1
  <2>3. IsPath(f.path) /\ f.path \in SavedPaths(o)
    BY <1>6, <2>1, SequenceIsPath DEF SavedPaths
  <2>4. K[n + 1] = K[n] \/ K[n + 1] = Put(K[n], f.path, Leaf(f.value))
    BY <1>1, <2>1 DEF IsSaved
  <2> HIDE DEF f
  <2>5. Paths(Put(K[n], f.path, Leaf(f.value))) /\ SameBut(K[n], Put(K[n], f.path, Leaf(f.value)), {f.path})
    BY <2>2, <2>3, LeafPaths, PutPaths, PutChanges
  <2>6. SameBut(t, Put(K[n], f.path, Leaf(f.value)), SavedPaths(o) \cup {f.path})
    BY <2>2, <2>5, SameThrough
  <2>7. SavedPaths(o) \cup {f.path} = SavedPaths(o)
    BY <2>3
  <2> QED BY <2>2, <2>4, <2>5, <2>6, <2>7
<1>5. Nat \subseteq T
  BY <1>3, <1>4, InductionOnSets
<1> QED BY <1>2, <1>5, <1>6

\* What a save names are paths.
LEMMA SavedPathsArePaths ==
    ASSUME NEW o, WellFormed(o), o.kind = "save"
    PROVE  \A x \in SavedPaths(o) : IsPath(x)
<1> SUFFICES ASSUME NEW x \in SavedPaths(o) PROVE IsPath(x)
  OBVIOUS
<1>1. CASE x \in {o.fields[k].path : k \in DOMAIN o.fields}
  BY <1>1, SequenceIsPath DEF WellFormed
<1>2. CASE x \in UNION {PicturePaths(q) : q \in ImagePaths(o)}
  <2>1. PICK q \in ImagePaths(o) : x \in PicturePaths(q)
    BY <1>2
  <2>2. IsPath(q)
    BY <2>1, SequenceIsPath DEF ImagePaths, WellFormed
  <2> QED BY <2>1, <2>2, PicturePathsArePaths
<1> QED BY <1>1, <1>2 DEF SavedPaths

\* A tree has paths.
LEMMA TreesHavePaths ==
    ASSUME NEW t, IsTree(t) PROVE Paths(t)
BY SequenceIsPath DEF IsTree, Hangs, Paths
\* Without the words of lineart what is validated stays as it is.
LEMMA ValidatedIsItself ==
    ASSUME ~Template.lineart, NEW t PROVE Validated(t, Template.lineart) = t
BY DEF Validated
\* What is read of a stored document.
LEMMA SourceFits ==
    ASSUME CopiesFit, NEW r \in Requests, ~op[r].temp
    PROVE  Source(r) = row.structure /\ Paths(Source(r)) /\ Clean(Source(r))
BY DEF CopiesFit, RowFits, Source

\* A field was replaced, and the pictures that are new are to be looked up.
LEMMA EditBegins ==
    ASSUME NEW o, o.kind \in {"edit", "update"}, NEW t, NEW n, NEW step,
           ~o.temp => Paths(t) /\ Clean(t) /\ Paths(n) /\ Clean(n) /\ SameBut(t, n, {EditedPath(o, t)}),
           step = IF Changed(t, n) # {} THEN "images" ELSE IF o.temp THEN "done" ELSE "write"
    PROVE  CopyFits(o, step, t, n, Changed(t, n))
<1>1. step \in {"images", "write", "done"} /\ (step = "write" => ~o.temp)
  OBVIOUS
<1>2. step = "images" => Changed(t, n) # {}
  OBVIOUS
<1>3. ~o.temp => EditFits(o, t, n, Changed(t, n))
  BY SameItself DEF EditFits
<1> QED BY <1>1, <1>2, <1>3 DEF CopyFits

\* What the row becomes when it is not written.
LEMMA RowStays == CopiesFit /\ row'.structure = row.structure /\ DOMAIN row' = DOMAIN row => RowFits'
BY DEF CopiesFit, RowFits

\* edit, regenerate and correctGrammar begin.
LEMMA ReadForModelKeepsCopies ==
    ASSUME CopiesFit, NEW r \in Requests, ReadForModel(r)
    PROVE  CopiesFit'
<1>1. CASE Reject(r)
  BY <1>1, RejectKeepsCopies
<1>2. CASE Take(r, Source(r), "model", {})
  <2>1. CopyMoves(r, "model", Source(r), Source(r), {}) /\ RowFits'
    BY <1>2, CopiesHaveShapes, CopyFrames, RowStays
  <2>2. CopyFits(op[r], "model", Source(r), Source(r), {})
    BY SourceFits DEF CopyFits
  <2> QED BY <2>1, <2>2, MovingKeepsCopies
<1> QED BY <1>1, <1>2 DEF ReadForModel

\* updateField replaces a field that is there.
LEMMA UpdateFieldKeepsCopies ==
    ASSUME ~Template.lineart, CopiesFit, NEW r \in Requests, UpdateField(r)
    PROVE  CopiesFit'
<1> DEFINE o == op[r]
           t == row.structure
           p == o.field.path
           n == Put(t, p, Leaf(o.value))
           step == IF Changed(t, n) = {} THEN "write" ELSE "images"
<1>1. o.kind = "update" /\ WellFormed(o)
  BY DEF UpdateField, Is, CopiesFit
<1>2. ~o.temp /\ IsPath(p) /\ EditedPath(o, t) = p
  BY <1>1, SequenceIsPath DEF WellFormed, EditedPath
<1>3. Reject(r) \/ (Has(t, p) /\ Take(r, n, step, Changed(t, n)))
  BY ValidatedIsItself DEF UpdateField
<1>4. CASE Reject(r)
  BY <1>4, RejectKeepsCopies
<1>5. CASE Has(t, p) /\ Take(r, n, step, Changed(t, n))
  <2>1. Source(r) = t /\ Paths(t) /\ Clean(t)
    BY <1>2, SourceFits
  <2>2. Paths(n) /\ Clean(n) /\ SameBut(t, n, {p})
    BY <1>2, <1>5, <2>1, LeafPaths, LeafIsClean, PutPaths, PutChanges
  <2>3. CopyMoves(r, step, t, n, Changed(t, n)) /\ RowFits'
    BY <1>5, <2>1, CopiesHaveShapes, CopyFrames, RowStays
  <2> HIDE DEF n, p
  <2>4. CopyFits(o, step, t, n, Changed(t, n))
    <3>1. step = IF Changed(t, n) # {} THEN "images" ELSE IF o.temp THEN "done" ELSE "write"
      BY <1>2
    <3>2. o.kind \in {"edit", "update"}
      BY <1>1
    <3>3. SameBut(t, n, {EditedPath(o, t)})
      BY <1>2, <2>2
    <3> HIDE DEF step, t
    <3> QED BY <2>1, <2>2, <3>1, <3>2, <3>3, EditBegins
  <2> HIDE DEF step, t
  <2> QED BY <2>3, <2>4, MovingKeepsCopies
<1> QED BY <1>3, <1>4, <1>5

\* A save works on the fields, then on the pictures.
LEMMA ReadForSaveKeepsCopies ==
    ASSUME ~Template.lineart, CopiesFit, NEW r \in Requests, ReadForSave(r)
    PROVE  CopiesFit'
<1> DEFINE o == op[r]
           t == SavedFields(o, row.structure)
<1>1. o.kind = "save" /\ WellFormed(o)
  BY DEF ReadForSave, Is, CopiesFit
<1>2. ~o.temp
  BY <1>1 DEF WellFormed
<1>3. Source(r) = row.structure /\ Paths(row.structure) /\ Clean(row.structure)
  BY <1>2, SourceFits
<1>4. Paths(t) /\ SameBut(row.structure, t, SavedPaths(o))
  BY <1>1, <1>3, SavedChanges
<1>5. \/ Reject(r)
      \/ o.images # <<>> /\ Take(r, t, "attach", ImagePaths(o))
      \/ Take(r, t, "write", {})
  BY ValidatedIsItself DEF ReadForSave
<1> HIDE DEF t
<1>6. CASE Reject(r)
  BY <1>6, RejectKeepsCopies
<1>7. CASE o.images # <<>> /\ Take(r, t, "attach", ImagePaths(o))
  <2>1. CopyMoves(r, "attach", row.structure, t, ImagePaths(o)) /\ RowFits'
    BY <1>3, <1>7, CopiesHaveShapes, CopyFrames, RowStays
  <2>2. ImagePaths(o) # {}
    <3>1. IsList(o.images)
      BY <1>1 DEF WellFormed
    <3>2. o.images \in Seq({o.images[i] : i \in 1..Len(o.images)})
      BY <3>1 DEF IsList
    <3>3. DOMAIN o.images # {}
      BY <1>7, <3>2, EmptySeq
    <3> QED BY <3>3 DEF ImagePaths
  <2>3. CopyFits(o, "attach", row.structure, t, ImagePaths(o))
    BY <1>1, <1>2, <1>3, <1>4, <2>2 DEF CopyFits
  <2> QED BY <2>1, <2>3, MovingKeepsCopies
<1>8. CASE Take(r, t, "write", {})
  <2>1. CopyMoves(r, "write", row.structure, t, {}) /\ RowFits'
    BY <1>3, <1>8, CopiesHaveShapes, CopyFrames, RowStays
  <2>2. CopyFits(o, "write", row.structure, t, {})
    BY <1>1, <1>2, <1>3, <1>4 DEF CopyFits
  <2> QED BY <2>1, <2>2, MovingKeepsCopies
<1> QED BY <1>5, <1>6, <1>7, <1>8

\* The other requests read and wait, or answer.
LEMMA OtherReadsKeepCopies ==
    ASSUME CopiesFit, NEW r \in Requests,
           ReadForReplace(r) \/ ReadForUpload(r) \/ ReadForRender(r)
    PROVE  CopiesFit'
<1>1. CASE Reject(r)
  BY <1>1, RejectKeepsCopies
<1>2. CASE ReadForReplace(r)
  <2>1. CopyMoves(r, "check", Source(r), row.structure, {}) /\ RowFits'
    BY <1>2, CopiesHaveShapes, CopyFrames, RowStays DEF ReadForReplace
  <2>2. op[r].kind = "replace" /\ ~op[r].temp
    BY <1>2 DEF ReadForReplace, Is, CopiesFit, WellFormed
  <2>3. CopyFits(op[r], "check", Source(r), row.structure, {})
    BY <2>2, SourceFits DEF CopyFits
  <2> QED BY <2>1, <2>3, MovingKeepsCopies
<1>3. CASE \E t, step : Take(r, t, step, {}) /\ step \in {"upload", "done", "browser", "mark"}
  <2>1. PICK t, step : Take(r, t, step, {}) /\ step \in {"upload", "done", "browser", "mark"}
    BY <1>3
  <2>2. CopyMoves(r, step, Source(r), t, {}) /\ RowFits'
    BY <2>1, CopiesHaveShapes, CopyFrames, RowStays
  <2> QED BY <2>1, <2>2, LeavingKeepsCopies
<1>4. ReadForUpload(r) => Reject(r) \/ Take(r, row.structure, "upload", {})
  BY DEF ReadForUpload
<1>5. ASSUME ReadForRender(r)
      PROVE  \E step \in {"done", "browser", "mark"} : Take(r, EnrichForRender(Source(r)), step, {})
  BY <1>5 DEF ReadForRender
<1> QED BY <1>1, <1>2, <1>3, <1>4, <1>5

\* The model's edit replaces the field; its value may be wrapped.
LEMMA ModelEditsKeepsCopies ==
    ASSUME ~Template.lineart, CopiesFit, NEW r \in Requests, ModelEdits(r)
    PROVE  CopiesFit'
<1> DEFINE o == op[r]
           t == base[r]
           p == FieldPath(t, o.field)
<1>1. o.kind = "edit" /\ pc[r] = "model" /\ WellFormed(o) /\ CopyFits(o, "model", t, work[r], todo[r])
  BY DEF ModelEdits, Is, CopiesFit
<1>2. IsPath(p) /\ EditedPath(o, t) = p
  BY <1>1, FieldPathIsPath DEF WellFormed, EditedPath
<1>3. ~o.temp => Paths(t) /\ Clean(t)
  BY <1>1 DEF CopyFits
<1>4. PICK v \in Replies : Reject(r) \/ Resolve(r, StripTransient(Put(t, p, Replacement(v))))
  BY ValidatedIsItself DEF ModelEdits
<1> DEFINE n == StripTransient(Put(t, p, Replacement(v)))
           step == IF Changed(t, n) # {} THEN "images" ELSE IF o.temp THEN "done" ELSE "write"
<1>5. CASE Reject(r)
  BY <1>5, RejectKeepsCopies
<1>6. CASE Resolve(r, n)
  <2>1. Paths(Replacement(v))
    <3>1. Paths(v)
      BY DocumentAssumption, TreesHavePaths
    <3>2. <<"value">> \in Seq({"value"})
      OBVIOUS
    <3>3. IsPath(<<"value">>)
      BY <3>2, SequenceIsPath
    <3> QED BY <3>1, <3>3, SubtreePaths DEF Replacement
  <2>2. ASSUME ~o.temp
        PROVE  Paths(n) /\ Clean(n) /\ SameBut(t, n, {EditedPath(o, t)})
    <3> DEFINE u == Put(t, p, Replacement(v))
    <3>1. Paths(u) /\ SameBut(t, u, {p})
      BY <1>2, <1>3, <2>1, <2>2, PutPaths, PutChanges
    <3> HIDE DEF u, p
    <3>2. Paths(StripTransient(u)) /\ Clean(StripTransient(u))
      BY <3>1, StripIsClean
    <3>3. SameBut(t, StripTransient(u), {p})
      BY <1>2, <1>3, <2>2, <3>1, StripChanges
    <3> QED BY <1>2, <3>2, <3>3 DEF u
  <2>3. row' = row /\ CopyMoves(r, step, t, n, Changed(t, n))
    <3> HIDE DEF n
    <3>1. base = [base EXCEPT ![r] = base[r]]
      BY DEF CopiesFit, CopyShapes
    <3> QED BY <1>6, <3>1 DEF Resolve, CopyMoves, Goto, document
  <2> HIDE DEF n
  <2>4. CopyFits(o, step, t, n, Changed(t, n))
    <3> HIDE DEF o, t
    <3>1. o.kind \in {"edit", "update"}
      BY <1>1
    <3>2. PICK s : s = step
      OBVIOUS
    <3>3. s = IF Changed(t, n) # {} THEN "images" ELSE IF o.temp THEN "done" ELSE "write"
      BY <3>2, Zenon
    <3> HIDE DEF step
    <3>4. ~o.temp => /\ Paths(t) /\ Clean(t) /\ Paths(n) /\ Clean(n)
                     /\ SameBut(t, n, {EditedPath(o, t)})
      BY <1>3, <2>2, Zenon
    <3>5. CopyFits(o, s, t, n, Changed(t, n))
      BY <3>1, <3>3, <3>4, EditBegins
    <3> QED BY <3>2, <3>5, Zenon
  <2>5. RowFits'
    BY <2>3, RowStays
  <2> HIDE DEF step, t
  <2> QED BY <2>3, <2>4, <2>5, MovingKeepsCopies DEF t
<1> QED BY <1>4, <1>5, <1>6

\* A correction of the grammar is answered and not written; a regeneration is
\* written as a whole.
LEMMA ModelAnswersKeepCopies ==
    ASSUME CopiesFit, NEW r \in Requests, ModelCorrects(r) \/ ModelRegenerates(r)
    PROVE  CopiesFit'
<1>1. CASE Reject(r)
  BY <1>1, RejectKeepsCopies
<1>2. CASE ModelCorrects(r)
  <2>1. \/ Reject(r)
        \/ \E w : /\ work' = [work EXCEPT ![r] = w] /\ Goto(r, "done")
                  /\ UNCHANGED <<op, base, todo>> /\ UNCHANGED document
    BY <1>2 DEF ModelCorrects
  <2>2. ASSUME NEW w, work' = [work EXCEPT ![r] = w], Goto(r, "done"), UNCHANGED <<op, base, todo>>,
               UNCHANGED document
        PROVE  CopiesFit'
    <3>1. CopyMoves(r, "done", base[r], w, todo[r]) /\ RowFits'
      BY <2>2, CopiesHaveShapes, CopyFrames, RowStays DEF document
    <3> QED BY <3>1, LeavingKeepsCopies
  <2> QED BY <1>1, <2>1, <2>2
<1>3. CASE ModelRegenerates(r)
  <2> DEFINE step == IF op[r].temp THEN "done" ELSE "write"
  <2>1. op[r].kind = "regenerate" /\ pc[r] = "model" /\ CopyFits(op[r], "model", base[r], work[r], todo[r])
    BY <1>3 DEF ModelRegenerates, Is, CopiesFit
  <2>2. \/ Reject(r)
        \/ \E w : /\ Paths(w) /\ work' = [work EXCEPT ![r] = w] /\ Goto(r, step)
                  /\ UNCHANGED <<op, base, todo>> /\ UNCHANGED document
    <3>1. PICK answer \in Answers :
             LET raw == Validated(answer, Template.lineart)
                 t == Validated(Normalise(raw), Template.lineart)
             IN  \/ Reject(r)
                 \/ \E found :
                      /\ work' = [work EXCEPT ![r] =
                                     NumberMatch(Validated(Pictured(t, found, Template.lineart),
                                                           Template.lineart), op[r].fields)]
                      /\ Goto(r, step)
                      /\ UNCHANGED <<op, base, todo>> /\ UNCHANGED document
      BY <1>3 DEF ModelRegenerates
    <3> DEFINE raw == Validated(answer, Template.lineart)
               t == Validated(Normalise(raw), Template.lineart)
    <3>2. Paths(raw)
      BY DocumentAssumption, TreesHavePaths, ValidatedPaths
    <3> HIDE DEF raw
    <3>3. Paths(t)
      BY <3>2, NormalisePaths, ValidatedPaths
    <3> HIDE DEF t
    <3>4. \A found : Paths(NumberMatch(Validated(Pictured(t, found, Template.lineart),
                                                 Template.lineart), op[r].fields))
      BY <3>3, PicturedIsStripped, ValidatedPaths, NumberMatchPaths
    <3>5. \/ Reject(r)
          \/ \E found :
               /\ work' = [work EXCEPT ![r] =
                              NumberMatch(Validated(Pictured(t, found, Template.lineart),
                                                    Template.lineart), op[r].fields)]
               /\ Goto(r, step)
               /\ UNCHANGED <<op, base, todo>> /\ UNCHANGED document
      BY <3>1 DEF t, raw
    <3> QED BY <3>4, <3>5
  <2>3. ASSUME NEW w, Paths(w), work' = [work EXCEPT ![r] = w], Goto(r, step),
               UNCHANGED <<op, base, todo>>, UNCHANGED document
        PROVE  CopiesFit'
    <3>1. CopyMoves(r, step, base[r], w, todo[r]) /\ RowFits'
      BY <2>3, CopiesHaveShapes, CopyFrames, RowStays DEF document
    <3>2. CopyFits(op[r], step, base[r], w, todo[r])
      BY <2>1, <2>3 DEF CopyFits
    <3> QED BY <3>1, <3>2, MovingKeepsCopies
  <2> QED BY <1>1, <2>2, <2>3
<1> QED BY <1>2, <1>3

\* Of some paths one is the shortest.
LEMMA ShortestPath ==
    ASSUME NEW D, D # {}, \A x \in D : IsPath(x)
    PROVE  \E q \in D : \A x \in D : Len(q) <= Len(x)
<1> DEFINE N == {Len(x) : x \in D}
<1>1. N \in SUBSET Nat /\ N # {}
  <2>1. \A x \in D : Len(x) \in Nat
    BY DEF IsPath
  <2> QED BY <2>1
<1> HIDE DEF N
<1>2. \E m \in N : \A n \in N : m <= n
  BY <1>1, LeastNatural
<1> QED BY <1>2 DEF N

\* A picture whose query is new gets the asset that was found, or none.
LEMMA FindImageKeepsCopies ==
    ASSUME CopiesFit, NEW r \in Requests, FindImage(r)
    PROVE  CopiesFit'
<1> DEFINE o == op[r]
           t == base[r]
           w == work[r]
           d == todo[r]
           p == CHOOSE q \in d : \A x \in d : Len(q) <= Len(x)
<1>1. pc[r] = "images" /\ CopyFits(o, "images", t, w, d)
  BY DEF FindImage, CopiesFit
<1>2. o.kind \in {"edit", "update"} /\ d # {}
  BY <1>1 DEF CopyFits
<1>3. ASSUME \A x \in d : IsPath(x) PROVE p \in d
  <2>1. \E q \in d : \A x \in d : Len(q) <= Len(x)
    BY <1>2, <1>3, ShortestPath
  <2> QED BY <2>1
<1> DEFINE step == IF d # {p} THEN "images" ELSE IF o.temp THEN "done" ELSE "write"
           next(found) == ApplySlot(w, p, found)
<1>0. CASE Reject(r)
  BY <1>0, RejectKeepsCopies
<1> SUFFICES ASSUME NEW found, work' = [work EXCEPT ![r] = next(found)],
                    todo' = [todo EXCEPT ![r] = d \ {p}], Goto(r, step),
                    UNCHANGED <<op, base, document>>
             PROVE  CopiesFit'
  <2>1. \/ Reject(r)
        \/ \E found : /\ work' = [work EXCEPT ![r] = next(found)]
                      /\ todo' = [todo EXCEPT ![r] = d \ {p}]
                      /\ Goto(r, step) /\ UNCHANGED <<op, base, document>>
    BY DEF FindImage
  <2> QED BY <1>0, <2>1
<1>5. CopyMoves(r, step, t, next(found), d \ {p}) /\ RowFits'
  <2>1. base = [base EXCEPT ![r] = t]
    BY DEF CopiesFit, CopyShapes
  <2>2. row' = row
    BY DEF document
  <2> QED BY <2>1, <2>2, RowStays DEF CopyMoves, Goto
<1>6. ASSUME ~o.temp
      PROVE  Paths(next(found)) /\ EditFits(o, t, next(found), d \ {p}) /\ Paths(t) /\ Clean(t)
  <2>1. Paths(t) /\ Clean(t) /\ Paths(w)
    BY <1>1, <1>6 DEF CopyFits
  <2>2. EditFits(o, t, w, d)
    BY <1>1, <1>2, <1>6 DEF CopyFits
  <2>3. PICK n : /\ Paths(n) /\ Clean(n) /\ SameBut(t, n, {EditedPath(o, t)})
                 /\ d \subseteq Changed(t, n) /\ SameBut(n, w, NewIds(t, n))
    BY <2>2 DEF EditFits
  <2>4. \A x \in Changed(t, n) : IsPath(x) /\ IsPath(Append(x, "assetId"))
    BY <2>3, AppendIsPath DEF Changed, ImageRecords, Paths
  <2>5. p \in Changed(t, n)
    <3>1. \A x \in d : IsPath(x)
      BY <2>3, <2>4
    <3> QED BY <1>3, <2>3, <3>1
  <2>6. IsPath(p) /\ Append(p, "assetId") \in NewIds(t, n) /\ \A x \in NewIds(t, n) : IsPath(x)
    BY <2>4, <2>5 DEF NewIds
  <2> HIDE DEF p, d, w, t, o
  <2>7. Paths(ApplySlot(w, p, found)) /\ SameBut(n, ApplySlot(w, p, found), NewIds(t, n))
    BY <2>1, <2>3, <2>6, SlotChanges
  <2>8. d \ {p} \subseteq Changed(t, n)
    BY <2>3
  <2> QED BY <2>1, <2>3, <2>7, <2>8 DEF EditFits
<1>7. d # {p} => d \ {p} # {}
  BY <1>2
<1>8. CopyFits(o, step, t, next(found), d \ {p})
  <2> HIDE DEF next, p, d, o, t
  <2> QED BY <1>2, <1>6, <1>7 DEF CopyFits
<1> HIDE DEF step, next, p
<1> QED BY <1>5, <1>8, MovingKeepsCopies

\* The first picture of a save that is still to be attached.
LEMMA FirstImage ==
    ASSUME NEW o, IsList(o.images), NEW d, d # {}, d \subseteq ImagePaths(o), NEW i,
           i = CHOOSE j \in DOMAIN o.images :
                  /\ o.images[j].path \in d
                  /\ \A k \in DOMAIN o.images : o.images[k].path \in d => j <= k
    PROVE  i \in DOMAIN o.images /\ o.images[i].path \in d
<1> DEFINE I == {k \in DOMAIN o.images : o.images[k].path \in d}
           first(j) == /\ o.images[j].path \in d
                       /\ \A k \in DOMAIN o.images : o.images[k].path \in d => j <= k
<1>1. DOMAIN o.images = 1..Len(o.images) /\ Len(o.images) \in Nat
  BY DEF IsList
<1>2. I \in SUBSET Nat
  BY <1>1
<1>3. \E k \in DOMAIN o.images : o.images[k].path \in d
  BY DEF ImagePaths
<1>4. I # {}
  BY <1>3
<1> HIDE DEF I
<1>5. \E k \in I : \A j \in I : k <= j
  BY <1>2, <1>4, LeastNatural
<1>6. \E k \in DOMAIN o.images : first(k)
  BY <1>5 DEF I
<1> QED BY <1>6

\* A picture of a save is attached after its fields were set.
LEMMA AttachImageKeepsCopies ==
    ASSUME ~Template.lineart, CopiesFit, NEW r \in Requests, AttachImage(r)
    PROVE  CopiesFit'
<1> DEFINE o == op[r]
           t == base[r]
           w == work[r]
           d == todo[r]
           first(i) == /\ o.images[i].path \in d
                       /\ \A k \in DOMAIN o.images : o.images[k].path \in d => i <= k
           i == CHOOSE j \in DOMAIN o.images : first(j)
           p == o.images[i].path
           asset == IF o.images[i].key # "" THEN "null" ELSE o.images[i].asset
           next == StripTransient(IndexUpload(PatchImage(w, p, asset, o.images[i].key), p,
                                              o.images[i].key))
           step == IF d = {p} THEN "write" ELSE "attach"
<1>1. pc[r] = "attach" /\ CopyFits(o, "attach", t, w, d) /\ WellFormed(o)
  BY DEF AttachImage, CopiesFit
<1>2. o.kind = "save" /\ d # {} /\ d \subseteq ImagePaths(o) /\ SameBut(t, w, SavedPaths(o))
  BY <1>1 DEF CopyFits
<1>3. ~o.temp /\ IsList(o.images) /\ \A k \in DOMAIN o.images : o.images[k].path \in Seq(STRING)
  BY <1>1, <1>2, SaveIsWellFormed
<1>4. Paths(t) /\ Clean(t) /\ Paths(w)
  BY <1>1, <1>3 DEF CopyFits
<1>5. i \in DOMAIN o.images /\ p \in d
  BY <1>2, <1>3, FirstImage
<1>6. Reject(r) \/ (/\ work' = [work EXCEPT ![r] = next] /\ todo' = [todo EXCEPT ![r] = d \ {p}]
                    /\ Goto(r, step) /\ UNCHANGED <<op, base, document>>)
  <2>1. i = CHOOSE j \in DOMAIN o.images :
               /\ o.images[j].path \in todo[r]
               /\ \A k \in DOMAIN o.images : o.images[k].path \in todo[r] => j <= k
    OBVIOUS
  <2>2. next = IF o.images[i].key # "" THEN ApplyUserUploadedImage(w, p, o.images[i].key)
               ELSE ApplyLibraryImage(w, p, o.images[i].asset)
    <3> HIDE DEF i, p, w
    <3>1. CASE o.images[i].key = ""
      BY <3>1 DEF ApplyLibraryImage
    <3>2. CASE o.images[i].key # ""
      BY <3>2 DEF ApplyUserUploadedImage
    <3> QED BY <3>1, <3>2
  <2>3. (IF d = {p} THEN Validated(next, Template.lineart) ELSE next) = next
    BY ValidatedIsItself
  <2> HIDE DEF i, next
  <2> QED BY <2>1, <2>2, <2>3 DEF AttachImage
<1>7. IsPath(p) /\ PicturePaths(p) \subseteq SavedPaths(o)
  BY <1>3, <1>5, SequenceIsPath DEF SavedPaths, ImagePaths
<1>8. \A x \in SavedPaths(o) : IsPath(x)
  BY <1>1, <1>2, SavedPathsArePaths
<1> HIDE DEF i
<1>9. Paths(next) /\ SameBut(t, next, SavedPaths(o))
  <2> DEFINE T == SavedPaths(o)
             k == o.images[i].key
  <2>1. \A x \in T : IsPath(x)
    BY <1>8
  <2>2. SameBut(t, w, T) /\ PicturePaths(p) \subseteq T
    BY <1>2, <1>7
  <2> HIDE DEF t, w, T, p, asset, k
  <2>3. LET n == StripTransient(IndexUpload(PatchImage(w, p, asset, k), p, k))
        IN  Paths(n) /\ SameBut(t, n, T)
    BY <1>4, <1>7, <2>1, <2>2, PictureChanges
  <2> QED BY <2>3 DEF T, k
<1>10. CASE Reject(r)
  BY <1>10, RejectKeepsCopies
<1>11. CASE /\ work' = [work EXCEPT ![r] = next] /\ todo' = [todo EXCEPT ![r] = d \ {p}]
            /\ Goto(r, step) /\ UNCHANGED <<op, base, document>>
  <2> HIDE DEF next
  <2>1. step \in {"write", "attach"} /\ (step = "attach" => d # {p})
    OBVIOUS
  <2>2. CopyMoves(r, step, t, next, d \ {p}) /\ RowFits'
    <3>1. base = [base EXCEPT ![r] = t]
      BY DEF CopiesFit, CopyShapes
    <3>2. row' = row
      BY <1>11 DEF document
    <3> QED BY <1>11, <3>1, <3>2, RowStays DEF CopyMoves, Goto
  <2>3. step = "attach" => d \ {p} # {}
    BY <1>2, <2>1
  <2> HIDE DEF step, d, p, t, w, o
  <2>4. CopyFits(o, step, t, next, d \ {p})
    BY <1>2, <1>3, <1>4, <1>9, <2>1, <2>3 DEF CopyFits
  <2> QED BY <2>2, <2>4, MovingKeepsCopies DEF o
<1> QED BY <1>6, <1>10, <1>11

\* A picture is replaced by an asset that exists.
LEMMA CheckAssetKeepsCopies ==
    ASSUME CopiesFit, NEW r \in Requests, CheckAsset(r)
    PROVE  CopiesFit'
<1> DEFINE o == op[r]
           t == base[r]
           p == o.images[1].path
           next == StripTransient(IndexUpload(PatchImage(t, p, o.images[1].asset, ""), p, ""))
<1>1. pc[r] = "check" /\ o.kind = "replace" /\ CopyFits(o, "check", t, work[r], todo[r]) /\ WellFormed(o)
  BY DEF CheckAsset, Is, CopiesFit
<1>2. ~o.temp /\ IsPath(p)
  BY <1>1, SequenceIsPath, ReplaceIsWellFormed
<1>3. Paths(t) /\ Clean(t)
  BY <1>1, <1>2 DEF CopyFits
<1>4. Reject(r) \/ (/\ work' = [work EXCEPT ![r] = next] /\ Goto(r, "write")
                    /\ UNCHANGED <<op, base, todo>> /\ UNCHANGED document)
  BY DEF CheckAsset, ApplyLibraryImage
<1>5. Paths(next) /\ SameBut(t, next, PicturePaths(p))
  <2> HIDE DEF t, p
  <2>1. SameBut(t, t, PicturePaths(p)) /\ \A x \in PicturePaths(p) : IsPath(x)
    BY <1>2, SameItself, PicturePathsArePaths
  <2>2. \A asset : LET n == StripTransient(IndexUpload(PatchImage(t, p, asset, ""), p, ""))
                   IN  Paths(n) /\ SameBut(t, n, PicturePaths(p))
    BY <1>2, <1>3, <2>1, PictureChanges
  <2> QED BY <2>2
<1>6. CASE Reject(r)
  BY <1>6, RejectKeepsCopies
<1>7. CASE /\ work' = [work EXCEPT ![r] = next] /\ Goto(r, "write")
           /\ UNCHANGED <<op, base, todo>> /\ UNCHANGED document
  <2> HIDE DEF next
  <2>1. CopyMoves(r, "write", t, next, todo[r]) /\ RowFits'
    BY <1>7, CopiesHaveShapes, CopyFrames, RowStays DEF document
  <2>2. CopyFits(o, "write", t, next, todo[r])
    BY <1>1, <1>2, <1>3, <1>5 DEF CopyFits
  <2> QED BY <2>1, <2>2, MovingKeepsCopies
<1> QED BY <1>4, <1>6, <1>7

\* The write stores what is without addresses.
LEMMA WriteKeepsCopies ==
    ASSUME CopiesFit, NEW r \in Requests, Write(r)
    PROVE  CopiesFit'
<1>1. pc[r] = "write" /\ CopyFits(op[r], "write", base[r], work[r], todo[r])
  BY DEF Write, CopiesFit, CopyShapes
<1>2. Paths(work[r])
  BY <1>1 DEF CopyFits
<1>3. CopyMoves(r, "done", base[r], work[r], todo[r])
  BY CopiesHaveShapes, CopyFrames DEF Write
<1>4. row'.structure = StripTransient(work[r]) /\ "structure" \in DOMAIN row'
  BY DEF Write, CopiesFit, CopyShapes, RowFits
<1>5. RowFits'
  BY <1>2, <1>4, StripIsClean DEF RowFits
<1> QED BY <1>3, <1>5, LeavingKeepsCopies

\* What else a request does changes no structure.
LEMMA OthersKeepCopies ==
    ASSUME CopiesFit, NEW r \in Requests, UploadImage(r) \/ Throw(r) \/ RenderStep(r)
    PROVE  CopiesFit'
<1> DEFINE Elsewhere == \E step : /\ Goto(r, step)
                                  /\ step \notin {"model", "images", "attach", "check", "write"}
                                  /\ UNCHANGED copies
           Stays == row'.structure = row.structure /\ DOMAIN row' = DOMAIN row
<1>1. ASSUME Elsewhere, Stays PROVE CopiesFit'
  <2>1. PICK step : /\ Goto(r, step) /\ UNCHANGED copies
                    /\ step \notin {"model", "images", "attach", "check", "write"}
    BY <1>1
  <2>2. CopyMoves(r, step, base[r], work[r], todo[r])
    BY <2>1, CopiesHaveShapes, CopyFrames
  <2>3. RowFits'
    BY <1>1, RowStays
  <2> QED BY <2>1, <2>2, <2>3, LeavingKeepsCopies
<1>2. CASE UploadImage(r)
  BY <1>1, <1>2 DEF UploadImage
<1>3. CASE Throw(r)
  BY <1>3, RejectKeepsCopies DEF Throw
<1>4. CASE RenderStep(r)
  <2>1. CASE MarkRendering(r) \/ Complete(r)
    <3>1. Elsewhere
      BY <2>1 DEF MarkRendering, Complete
    <3>2. Stays
      BY <2>1 DEF MarkRendering, Complete, SetStatus, CopiesFit, RowFits
    <3> QED BY <1>1, <3>1, <3>2
  <2>2. CASE AskBrowser(r) \/ OpenPage(r) \/ Refused(r) \/ Capture(r)
    <3>1. Elsewhere
      BY <2>2 DEF AskBrowser, OpenPage, Refused, Capture
    <3>2. Stays
      BY <2>2 DEF AskBrowser, OpenPage, Refused, Capture, document
    <3> QED BY <1>1, <3>1, <3>2
  <2>3. CASE StoreFile(r) \/ RecordOutput(r) \/ RenderThrows(r) \/ PostMedia(r)
    <3>1. Elsewhere
      BY <2>3 DEF StoreFile, RecordOutput, RenderThrows, PostMedia
    <3>2. Stays
      BY <2>3 DEF StoreFile, RecordOutput, RenderThrows, PostMedia, document
    <3> QED BY <1>1, <3>1, <3>2
  <2>4. CASE MarkFailed(r)
    <3>1. Elsewhere
      BY <2>4 DEF MarkFailed
    <3>2. Stays
      BY <2>4 DEF MarkFailed, SetStatus, CopiesFit, RowFits
    <3> QED BY <1>1, <3>1, <3>2
  <2> QED BY <1>4, <2>1, <2>2, <2>3, <2>4 DEF RenderStep
<1> QED BY <1>2, <1>3, <1>4

\* Every step keeps what the copies hold.
LEMMA CopiesKept == ~Template.lineart /\ CopiesFit /\ [Next]_vars => CopiesFit'
<1> SUFFICES ASSUME ~Template.lineart, CopiesFit, [Next]_vars PROVE CopiesFit'
  OBVIOUS
<1>1. CASE UNCHANGED worksheetVars
  BY <1>1 DEF CopiesFit, CopyShapes, RowFits, worksheetVars, document
<1>2. ASSUME NEW r \in Requests, WorksheetStep(r) PROVE CopiesFit'
  BY <1>2, ReadForModelKeepsCopies, UpdateFieldKeepsCopies, ReadForSaveKeepsCopies,
     OtherReadsKeepCopies, ModelEditsKeepsCopies, ModelAnswersKeepCopies, FindImageKeepsCopies,
     AttachImageKeepsCopies, CheckAssetKeepsCopies, WriteKeepsCopies, OthersKeepCopies
     DEF WorksheetStep
<1> QED BY <1>1, <1>2 DEF Next, vars

\* The requests begin with nothing read, and the row without addresses.
LEMMA CopiesStart == Init => CopiesFit
<1> SUFFICES ASSUME Init PROVE CopiesFit
  OBVIOUS
<1>1. PICK s \in Scenarios : op = s.worksheet
  BY DEF Init
<1>2. /\ pc = [r \in Requests |-> IF op[r].kind = "none" THEN "done" ELSE "begin"]
      /\ base = [r \in Requests |-> Leaf("{}")] /\ work = base
      /\ todo = [r \in Requests |-> {}]
      /\ row = [structure |-> Stored, request |-> "first", status |-> "GENERATED"]
  BY DEF Init, WorksheetInit
<1>3. RowFits
  BY <1>2, DocumentAssumption, TreesHavePaths DEF RowFits, Clean
<1>4. ASSUME NEW r \in Requests
      PROVE  WellFormed(op[r]) /\ CopyFits(op[r], pc[r], base[r], work[r], todo[r])
  <2>1. WellFormed(op[r])
    BY <1>1, ScenarioAssumption
  <2>2. pc[r] \in {"begin", "done"}
    BY <1>2
  <2> QED BY <2>1, <2>2, RestFits
<1>5. /\ pc = [r \in Requests |-> pc[r]] /\ base = [r \in Requests |-> base[r]]
      /\ work = [r \in Requests |-> work[r]] /\ todo = [r \in Requests |-> todo[r]]
  <2> DEFINE P == [r \in Requests |-> IF op[r].kind = "none" THEN "done" ELSE "begin"]
  <2>1. P = [r \in Requests |-> P[r]]
    OBVIOUS
  <2> HIDE DEF P
  <2>2. pc = P
    BY <1>2 DEF P
  <2> QED BY <1>2, <2>1, <2>2
<1> QED BY <1>3, <1>4, <1>5 DEF CopiesFit, CopyShapes

\* A step of a request takes no other one further.
LEMMA StepsTakeOne ==
    ASSUME NEW r \in Requests, WorksheetStep(r)
    PROVE  \E step : Goto(r, step)
<1>1. MovesOn(r) \/ UploadImage(r) \/ StoreFile(r) \/ RecordOutput(r)
  BY WorksheetMovesOn
<1> QED BY <1>1 DEF MovesOn, UploadImage, StoreFile, RecordOutput

\* Who was about to write and is done has written.
LEMMA DoneHasWritten ==
    ASSUME CopiesFit, [Next]_vars, NEW r \in Requests, pc[r] = "write", pc'[r] = "done"
    PROVE  Write(r)
<1>1. PICK x \in Requests : WorksheetStep(x)
  <2>1. pc' # pc
    OBVIOUS
  <2> QED BY <2>1 DEF Next, vars, worksheetVars
<1>2. x = r
  <2>1. PICK step : pc' = [pc EXCEPT ![x] = step]
    BY <1>1, StepsTakeOne DEF Goto
  <2>2. x # r => pc'[r] = pc[r]
    BY <2>1 DEF CopiesFit, CopyShapes
  <2> QED BY <2>2
<1>3. Throw(r) => pc'[r] = "failed"
  BY DEF Throw, Reject, Goto, CopiesFit, CopyShapes
<1>4. ~(ReadForModel(r) \/ UpdateField(r) \/ ReadForSave(r) \/ ReadForReplace(r) \/ ReadForUpload(r))
  BY DEF ReadForModel, UpdateField, ReadForSave, ReadForReplace, ReadForUpload, Is
<1>5. ~(ModelEdits(r) \/ ModelCorrects(r) \/ ModelRegenerates(r) \/ FindImage(r) \/ AttachImage(r))
  BY DEF ModelEdits, ModelCorrects, ModelRegenerates, FindImage, AttachImage, Is
<1>6. ~(CheckAsset(r) \/ UploadImage(r) \/ ReadForRender(r))
  BY DEF CheckAsset, UploadImage, ReadForRender, Is
<1>7. ~RenderStep(r)
  BY DEF RenderStep, MarkRendering, AskBrowser, OpenPage, Refused, Capture, StoreFile,
         RecordOutput, Complete, RenderThrows, MarkFailed, PostMedia
<1> QED BY <1>1, <1>2, <1>3, <1>4, <1>5, <1>6, <1>7 DEF WorksheetStep

\* What a worksheet's request writes differs from what it read only where it
\* was asked to.
LEMMA WorksheetWritesAsked ==
    ASSUME CopiesFit, NEW r \in Requests, Write(r)
    PROVE  SameBut(base[r], row'.structure, Targets(r))
<1> DEFINE o == op[r]
           t == base[r]
           w == work[r]
           f == StripTransient(w)
<1>1. row'.structure = f
  BY DEF Write, CopiesFit, CopyShapes, RowFits
<1>2. pc[r] = "write" /\ WellFormed(o) /\ CopyFits(o, "write", t, w, todo[r])
  BY DEF Write, CopiesFit, CopyShapes
<1>3. Paths(t) /\ Clean(t) /\ Paths(w) /\ ~o.temp
  BY <1>2 DEF CopyFits
<1>4. Paths(f)
  BY <1>3, StripIsClean
<1>5. CASE o.kind \in {"edit", "update"}
  <2> DEFINE F == EditedPath(o, t)
  <2>1. Targets(r) = {F} \cup {Append(p, "assetId") : p \in Changed(t, f)}
    BY <1>1, <1>5 DEF Targets, EditedPath
  <2>2. PICK n : Paths(n) /\ Clean(n) /\ SameBut(t, n, {F}) /\ SameBut(n, w, NewIds(t, n))
    BY <1>2, <1>3, <1>5 DEF CopyFits, EditFits
  <2>3. IsPath(F)
    BY <1>2, <1>5, FieldPathIsPath, SequenceIsPath DEF EditedPath, WellFormed
  <2>4. \A x \in NewIds(t, n) : IsPath(x)
    BY <2>2, AppendIsPath DEF NewIds, Changed, ImageRecords, Paths
  <2>5. SameBut(n, f, NewIds(t, n))
    BY <1>3, <2>2, <2>4, StripChanges
  <2> DEFINE D == Changed(t, n)
  <2>6. D \subseteq Changed(t, n) /\ SameBut(n, f, {Append(p, "assetId") : p \in D})
    BY <2>5 DEF NewIds
  <2> HIDE DEF f, t, F, D
  <2>7. SameBut(t, f, {F} \cup {Append(p, "assetId") : p \in Changed(t, f)})
    BY <1>3, <1>4, <2>2, <2>3, <2>6, ChangedArePictured
  <2> QED BY <1>1, <2>1, <2>7 DEF t, f
<1>6. CASE o.kind = "save"
  <2>1. Targets(r) = SavedPaths(o)
    BY <1>6 DEF Targets, SavedPaths, Slot, PicturePaths
  <2>2. \A x \in SavedPaths(o) : IsPath(x)
    BY <1>2, <1>6, SavedPathsArePaths
  <2>3. SameBut(t, w, SavedPaths(o))
    BY <1>2, <1>6 DEF CopyFits
  <2> QED BY <1>1, <1>3, <2>1, <2>2, <2>3, StripChanges
<1>7. CASE o.kind = "replace"
  <2> DEFINE p == o.images[1].path
  <2>1. Targets(r) = PicturePaths(p)
    BY <1>7 DEF Targets, Slot, PicturePaths
  <2>2. \A x \in PicturePaths(p) : IsPath(x)
    BY <1>2, <1>7, SequenceIsPath, PicturePathsArePaths, ReplaceIsWellFormed
  <2>3. SameBut(t, w, PicturePaths(p))
    BY <1>2, <1>7 DEF CopyFits
  <2> QED BY <1>1, <1>3, <2>1, <2>2, <2>3, StripChanges
<1>8. CASE o.kind \notin {"edit", "update", "save", "replace"}
  <2>1. Targets(r) = {<<>>}
    BY <1>8 DEF Targets
  <2>2. \A q \in DOMAIN t \cup DOMAIN f : Within(<<>>, q)
    BY <1>3, <1>4, WithinWhole DEF Paths
  <2> QED BY <1>1, <2>1, <2>2 DEF SameBut
<1> QED BY <1>5, <1>6, <1>7, <1>8

---------------------------------------------------------------------------
(* What an edit of a deck writes. *)

Unsigned(cards) == \A s \in DOMAIN cards : ~cards[s].picture.signed
\* Which requests come where, and with which images still to look up.
StepFits(a, step, images) ==
    /\ step = "attach" => a.kind = "save" /\ images # {} /\ images \subseteq DOMAIN a.images
    /\ step = "template" => a.kind = "saveGenerated"
\* The draft has the components that were read, and is different only in those
\* that were asked for.
DraftFits(r) ==
    /\ IsDeck(seen[r]) /\ Unsigned(seen[r].cards)
    /\ DOMAIN draft[r] = DOMAIN seen[r].cards
    /\ \A s \in DOMAIN draft[r] :
           IsCard(draft[r][s]) /\ (draft[r][s] = seen[r].cards[s] \/ s \in DeckTargets(r))
    /\ StepFits(ask[r], at[r], left[r])
DraftsFit ==
    /\ at = [r \in DeckRequests |-> at[r]] /\ seen = [r \in DeckRequests |-> seen[r]]
    /\ draft = [r \in DeckRequests |-> draft[r]] /\ left = [r \in DeckRequests |-> left[r]]
    /\ IsDeck(deck) /\ Unsigned(deck.cards)
    /\ \A r \in DeckRequests : WellAsked(ask[r]) /\ DraftFits(r)

\* A step of one request leaves the drafts of the others alone.
LEMMA OthersKeepDrafts ==
    ASSUME DraftsFit, NEW r \in DeckRequests, NEW a, NEW n, NEW d, NEW l, UNCHANGED ask,
           at' = [at EXCEPT ![r] = a], seen' = [seen EXCEPT ![r] = n],
           draft' = [draft EXCEPT ![r] = d], left' = [left EXCEPT ![r] = l],
           IsDeck(deck') /\ Unsigned(deck'.cards), DraftFits(r)'
    PROVE  DraftsFit'
<1>1. \A q \in DeckRequests \ {r} : /\ at'[q] = at[q] /\ seen'[q] = seen[q]
                                    /\ draft'[q] = draft[q] /\ left'[q] = left[q]
  BY DEF DraftsFit
<1>2. ASSUME NEW q \in DeckRequests \ {r} PROVE DraftFits(q)'
  <2>1. DraftFits(q)
    BY DEF DraftsFit
  <2>2. DeckTargets(q)' = DeckTargets(q)
    BY DEF DeckTargets
  <2> QED BY <1>1, <2>1, <2>2 DEF DraftFits
<1>3. \A q \in DeckRequests : WellAsked(ask'[q])
  BY DEF DraftsFit
<1>4. /\ at' = [q \in DeckRequests |-> at'[q]] /\ seen' = [q \in DeckRequests |-> seen'[q]]
      /\ draft' = [q \in DeckRequests |-> draft'[q]] /\ left' = [q \in DeckRequests |-> left'[q]]
  BY DEF DraftsFit
<1> QED BY <1>2, <1>3, <1>4 DEF DraftsFit

\* A step that only takes a request to another point, or writes a sound deck.
MovesOnly(r) ==
    /\ \E step : DeckGoto(r, step) /\ StepFits(ask[r], step, {})
    /\ UNCHANGED drafts
\* Such a step keeps the drafts.
LEMMA MovingKeepsDrafts ==
    ASSUME DraftsFit, NEW r \in DeckRequests, MovesOnly(r), IsDeck(deck') /\ Unsigned(deck'.cards)
    PROVE  DraftsFit'
<1>1. PICK step : at' = [at EXCEPT ![r] = step] /\ StepFits(ask[r], step, {})
  BY DEF MovesOnly, DeckGoto
<1>2. UNCHANGED <<ask, seen, draft, left>>
  BY DEF MovesOnly, drafts
<1>3. at'[r] = step /\ StepFits(ask[r], step, left[r])
  BY <1>1 DEF DraftsFit, StepFits
<1>4. DraftFits(r)
  BY DEF DraftsFit
<1>5. DeckTargets(r)' = DeckTargets(r)
  BY <1>2 DEF DeckTargets
<1>6. DraftFits(r)'
  BY <1>1, <1>2, <1>3, <1>4, <1>5 DEF DraftFits
<1>7. /\ seen' = [seen EXCEPT ![r] = seen[r]] /\ draft' = [draft EXCEPT ![r] = draft[r]]
      /\ left' = [left EXCEPT ![r] = left[r]]
  BY <1>2 DEF DraftsFit
<1> QED BY <1>1, <1>2, <1>6, <1>7, OthersKeepDrafts

\* A card stays one when its text, its picture or the address of that changes.
LEMMA PictureIsSigned ==
    ASSUME NEW x, IsPicture(x), NEW z, NEW e, e = [x EXCEPT !.signed = z]
    PROVE  /\ e = [asset |-> e.asset, key |-> e.key, signed |-> e.signed] /\ e.signed = z
           /\ x.signed = z => e = x
           /\ "null" \in {e.asset, e.key}
<1>1. x = [asset |-> x.asset, key |-> x.key, signed |-> x.signed] /\ "null" \in {x.asset, x.key}
  BY DEF IsPicture
<1>2. e.asset = x.asset /\ e.key = x.key
  BY <1>1
<1> QED BY <1>1, <1>2
\* The same of a picture whose address is taken away,
LEMMA PictureIsUnsigned ==
    ASSUME NEW x, IsPicture(x), NEW e, e = [x EXCEPT !.signed = FALSE]
    PROVE  IsPicture(e) /\ ~e.signed /\ (~x.signed => e = x)
<1>1. PICK no : no = FALSE
  BY Zenon
<1>2. e = [x EXCEPT !.signed = no]
  BY <1>1, Zenon
<1>3. /\ e = [asset |-> e.asset, key |-> e.key, signed |-> e.signed] /\ e.signed = no
      /\ x.signed = no => e = x
      /\ "null" \in {e.asset, e.key}
  <2>1. /\ x = [asset |-> x.asset, key |-> x.key, signed |-> x.signed]
        /\ "null" \in {x.asset, x.key}
    BY DEF IsPicture
  <2>2. e.asset = x.asset /\ e.key = x.key
    BY <1>2, <2>1
  <2> QED BY <1>2, <2>1, <2>2
<1>4. ~x.signed => x.signed = FALSE
  BY Zenon DEF IsPicture
<1>5. e.signed \in BOOLEAN /\ ~e.signed
  BY <1>1, <1>3, Zenon
<1>6. IsPicture(e)
  BY <1>3, <1>5, Zenon DEF IsPicture
<1> QED BY <1>1, <1>3, <1>4, <1>5, <1>6, Zenon
\* of a card with another picture,
LEMMA CardWithPicture ==
    ASSUME NEW c, IsCard(c), NEW e, IsPicture(e), NEW f, f = [c EXCEPT !.picture = e]
    PROVE  IsCard(f) /\ f.picture = e
<1>1. f = [kind |-> c.kind, content |-> c.content, picture |-> e]
  BY DEF IsCard
<1>2. f.kind = c.kind /\ f.content = c.content /\ f.picture = e
  BY <1>1
<1>3. f = [kind |-> f.kind, content |-> f.content, picture |-> f.picture]
  BY <1>1
<1> QED BY <1>2, <1>3, Zenon DEF IsCard
\* of one with another text,
LEMMA CardWithContent ==
    ASSUME NEW c, IsCard(c), NEW e, NEW f, f = [c EXCEPT !.content = e]
    PROVE  IsCard(f)
<1>1. f = [kind |-> c.kind, content |-> e, picture |-> c.picture]
  BY DEF IsCard
<1>2. f.picture = c.picture
  BY <1>1
<1>3. f = [kind |-> f.kind, content |-> f.content, picture |-> f.picture]
  BY <1>1
<1> QED BY <1>2, <1>3, Zenon DEF IsCard
\* and of one that is stored.
LEMMA CardIsUnsigned ==
    ASSUME NEW c, IsCard(c), NEW f, f = [c EXCEPT !.picture.signed = FALSE]
    PROVE  IsCard(f) /\ ~f.picture.signed /\ (~c.picture.signed => f = c)
<1> DEFINE e == [c.picture EXCEPT !.signed = FALSE]
<1>1. f = [c EXCEPT !.picture = e]
  OBVIOUS
<1>2. IsPicture(e) /\ ~e.signed
  BY PictureIsUnsigned DEF IsCard
<1>3. ASSUME ~c.picture.signed PROVE e = c.picture
  BY <1>3, PictureIsUnsigned DEF IsCard
<1> HIDE DEF e
<1>4. IsCard(f) /\ f.picture = e
  BY <1>1, <1>2, CardWithPicture
<1>5. e = c.picture => f = c
  BY <1>1 DEF IsCard
<1> QED BY <1>2, <1>3, <1>4, <1>5, Zenon

\* Cards without the signed addresses.
LEMMA PersistableIsUnsigned ==
    ASSUME NEW d, IsDeck(d), NEW cards, NEW D, D = [d EXCEPT !.cards = Persistable(cards)],
           \A s \in DOMAIN cards : IsCard(cards[s])
    PROVE  /\ D = [template |-> d.template, cards |-> Persistable(cards)]
           /\ IsDeck(D) /\ Unsigned(D.cards)
<1>1. D = [template |-> d.template, cards |-> Persistable(cards)]
  BY DEF IsDeck
<1>2. ASSUME NEW s \in DOMAIN cards
      PROVE  IsCard(Persistable(cards)[s]) /\ ~Persistable(cards)[s].picture.signed
  <2>1. Persistable(cards)[s] = [cards[s] EXCEPT !.picture.signed = FALSE]
    BY DEF Persistable
  <2> QED BY <2>1, CardIsUnsigned
<1>3. DOMAIN Persistable(cards) = DOMAIN cards
  BY DEF Persistable
<1> HIDE DEF Persistable
<1>4. D.cards = Persistable(cards) /\ D.template = d.template
  BY <1>1
<1> QED BY <1>1, <1>2, <1>3, <1>4 DEF IsDeck, Unsigned

\* The steps that leave the drafts and the stored deck alone.
LEMMA DeckStays == DraftsFit /\ UNCHANGED deck => IsDeck(deck') /\ Unsigned(deck'.cards)
BY DEF DraftsFit
\* The same of a request that is refused.
LEMMA RejectKeepsDrafts ==
    ASSUME DraftsFit, NEW r \in DeckRequests, DeckReject(r)
    PROVE  DraftsFit'
<1>1. MovesOnly(r) /\ UNCHANGED deck
  BY DEF DeckReject, MovesOnly, StepFits, deckRow
<1> QED BY <1>1, DeckStays, MovingKeepsDrafts
\* The same of one that goes on.
LEMMA ProceedKeepsDrafts ==
    ASSUME DraftsFit, NEW r \in DeckRequests, NEW step, StepFits(ask[r], step, {}), Proceed(r, step)
    PROVE  DraftsFit'
<1>1. MovesOnly(r) /\ UNCHANGED deck
  BY DEF Proceed, MovesOnly, deckRow
<1> QED BY <1>1, DeckStays, MovingKeepsDrafts
\* Nothing that a draft rests on changes.
LEMMA StillKeepsDrafts ==
    ASSUME DraftsFit, UNCHANGED <<drafts, at, deck>>
    PROVE  DraftsFit'
<1>1. UNCHANGED <<ask, seen, draft, left, at, deck>>
  BY DEF drafts
<1>2. \A r \in DeckRequests : DeckTargets(r)' = DeckTargets(r)
  BY <1>1 DEF DeckTargets
<1> QED BY <1>1, <1>2 DEF DraftsFit, DraftFits

\* A deck is read.
LEMMA ReadingKeepsDrafts ==
    ASSUME DraftsFit, NEW r \in DeckRequests, NEW cards, NEW images, NEW step,
           ReadDeck(r, cards, images, step), DOMAIN cards = DOMAIN deck.cards,
           \A s \in DOMAIN cards :
               IsCard(cards[s]) /\ (cards[s] = deck.cards[s] \/ s \in DeckTargets(r)),
           StepFits(ask[r], step, images)
    PROVE  DraftsFit'
<1>1. /\ at' = [at EXCEPT ![r] = step] /\ seen' = [seen EXCEPT ![r] = deck]
      /\ draft' = [draft EXCEPT ![r] = cards] /\ left' = [left EXCEPT ![r] = images]
      /\ UNCHANGED <<ask, deck>>
  BY DEF ReadDeck, DeckGoto, deckRow
<1>2. at'[r] = step /\ seen'[r] = deck /\ draft'[r] = cards /\ left'[r] = images
  BY <1>1 DEF DraftsFit
<1>3. DeckTargets(r)' = DeckTargets(r)
  BY <1>1 DEF DeckTargets
<1>4. IsDeck(deck) /\ Unsigned(deck.cards)
  BY DEF DraftsFit
<1>5. DraftFits(r)'
  BY <1>1, <1>2, <1>3, <1>4 DEF DraftFits
<1> QED BY <1>1, <1>4, <1>5, OthersKeepDrafts

\* A draft is worked on.
LEMMA DraftingKeepsDrafts ==
    ASSUME DraftsFit, NEW r \in DeckRequests, NEW cards, NEW images, NEW step, UNCHANGED <<ask, seen, deck>>,
           at' = [at EXCEPT ![r] = step], draft' = [draft EXCEPT ![r] = cards],
           left' = [left EXCEPT ![r] = images],
           DOMAIN cards = DOMAIN draft[r],
           \A s \in DOMAIN cards : IsCard(cards[s]) /\ (cards[s] = draft[r][s] \/ s \in DeckTargets(r)),
           StepFits(ask[r], step, images)
    PROVE  DraftsFit'
<1>1. at'[r] = step /\ seen'[r] = seen[r] /\ draft'[r] = cards /\ left'[r] = images
  BY DEF DraftsFit
<1>2. DeckTargets(r)' = DeckTargets(r)
  BY DEF DeckTargets
<1>3. DraftFits(r)
  BY DEF DraftsFit
<1>4. DraftFits(r)'
  BY <1>1, <1>2, <1>3 DEF DraftFits
<1>5. seen' = [seen EXCEPT ![r] = seen[r]] /\ IsDeck(deck') /\ Unsigned(deck'.cards)
  BY DEF DraftsFit
<1> QED BY <1>4, <1>5, OthersKeepDrafts

\* An edit changes the component it is for.
LEMMA EditKeepsDrafts ==
    ASSUME DraftsFit, NEW r \in DeckRequests, ReadForEdit(r) \/ DeckModel(r) \/ Retrieve(r)
    PROVE  DraftsFit'
<1> DEFINE s == ask[r].slot
           Worked(cards) == Draft(r, cards, "write")
<1>1. ask[r].kind = "edit"
  BY DEF ReadForEdit, DeckModel, Retrieve, Asked
<1>2. s \in DeckTargets(r)
  BY <1>1 DEF DeckTargets
<1>3. DraftFits(r)
  BY DEF DraftsFit
<1>4. ASSUME NEW cards, Worked(cards), DOMAIN cards = DOMAIN draft[r],
             \A x \in DOMAIN cards \ {s} : cards[x] = draft[r][x],
             s \in DOMAIN cards => IsCard(cards[s])
      PROVE  DraftsFit'
  <2>1. Draft(r, cards, "write")
    BY <1>4
  <2>2. /\ at' = [at EXCEPT ![r] = "write"] /\ draft' = [draft EXCEPT ![r] = cards]
        /\ UNCHANGED <<ask, seen, deck>> /\ UNCHANGED left
    BY <2>1 DEF Draft, DeckGoto, deckRow
  <2>3. left' = [left EXCEPT ![r] = left[r]]
    BY <2>2 DEF DraftsFit
  <2>4. \A x \in DOMAIN cards : IsCard(cards[x]) /\ (cards[x] = draft[r][x] \/ x \in DeckTargets(r))
    <3> HIDE DEF s
    <3> QED BY <1>2, <1>3, <1>4 DEF DraftFits
  <2>5. StepFits(ask[r], "write", left[r]) /\ DOMAIN cards = DOMAIN draft[r]
    BY <1>4 DEF StepFits
  <2> HIDE DEF s, Worked
  <2> QED BY <2>2, <2>3, <2>4, <2>5, DraftingKeepsDrafts
<1>5. CASE DeckReject(r)
  BY <1>5, RejectKeepsDrafts
<1>6. CASE ReadForEdit(r)
  <2>1. DeckReject(r) \/ ReadDeck(r, deck.cards, {}, "model")
    BY <1>6 DEF ReadForEdit
  <2>2. \A x \in DOMAIN deck.cards : IsCard(deck.cards[x])
    BY DEF DraftsFit, IsDeck
  <2>3. CASE ReadDeck(r, deck.cards, {}, "model")
    BY <2>2, <2>3, ReadingKeepsDrafts DEF StepFits
  <2> QED BY <1>5, <2>1, <2>3
<1>7. CASE DeckModel(r)
  <2>1. PICK content : \/ Proceed(r, "retrieve") \/ DeckReject(r)
                       \/ Draft(r, [draft[r] EXCEPT ![s].content = content], "write")
    BY <1>7 DEF DeckModel
  <2>2. CASE Proceed(r, "retrieve")
    BY <2>2, ProceedKeepsDrafts DEF StepFits
  <2>3. CASE Draft(r, [draft[r] EXCEPT ![s].content = content], "write")
    <3> DEFINE cards == [draft[r] EXCEPT ![s].content = content]
    <3>1. Worked(cards)
      BY <2>3
    <3>2. /\ DOMAIN cards = DOMAIN draft[r] /\ \A x \in DOMAIN cards \ {s} : cards[x] = draft[r][x]
          /\ s \in DOMAIN cards => cards[s] = [draft[r][s] EXCEPT !.content = content]
      OBVIOUS
    <3> HIDE DEF cards, Worked
    <3>3. s \in DOMAIN cards => IsCard(cards[s])
      BY <1>3, <3>2, CardWithContent DEF DraftFits
    <3> QED BY <1>4, <3>1, <3>2, <3>3
  <2> QED BY <1>5, <2>1, <2>2, <2>3
<1>8. CASE Retrieve(r)
  <2>1. PICK picture :
            /\ picture = NoPicture \/ \E found : picture = [asset |-> found, key |-> "null", signed |-> TRUE]
            /\ Draft(r, [draft[r] EXCEPT ![s].content = "none", ![s].picture = picture], "write")
    <3>1. PICK found : Draft(r, [draft[r] EXCEPT ![s].content = "none", ![s].picture =
                      IF found = "null" THEN NoPicture
                      ELSE [asset |-> found, key |-> "null", signed |-> TRUE]], "write")
      BY <1>8 DEF Retrieve
    <3> DEFINE p == IF found = "null" THEN NoPicture
                    ELSE [asset |-> found, key |-> "null", signed |-> TRUE]
    <3>2. Draft(r, [draft[r] EXCEPT ![s].content = "none", ![s].picture = p], "write")
      BY <3>1
    <3>3. p = NoPicture \/ p = [asset |-> found, key |-> "null", signed |-> TRUE]
      OBVIOUS
    <3> HIDE DEF p
    <3> QED BY <3>2, <3>3
  <2>2. IsPicture(picture)
    <3>1. \A found : IsPicture([asset |-> found, key |-> "null", signed |-> TRUE])
      BY DEF IsPicture
    <3>2. IsPicture(NoPicture)
      BY DEF IsPicture, NoPicture
    <3> QED BY <2>1, <3>1, <3>2
  <2> DEFINE cards == [draft[r] EXCEPT ![s].content = "none", ![s].picture = picture]
  <2>3. Worked(cards)
    BY <2>1
  <2>4. DOMAIN cards = DOMAIN draft[r] /\ \A x \in DOMAIN cards \ {s} : cards[x] = draft[r][x]
    OBVIOUS
  <2>5. ASSUME s \in DOMAIN draft[r] PROVE IsCard(cards[s])
    <3> DEFINE c == [draft[r][s] EXCEPT !.content = "none"]
    <3>1. cards[s] = [c EXCEPT !.picture = picture]
      BY <2>5
    <3>2. IsCard(draft[r][s])
      BY <1>3, <2>5 DEF DraftFits
    <3>3. IsCard(c)
      BY <3>2, CardWithContent
    <3> HIDE DEF c, cards
    <3> QED BY <2>2, <3>1, <3>3, CardWithPicture
  <2> HIDE DEF cards, Worked
  <2> QED BY <1>4, <2>3, <2>4, <2>5
<1> QED BY <1>6, <1>7, <1>8

\* A save changes the texts it names, then the pictures.
LEMMA SaveKeepsDrafts ==
    ASSUME DraftsFit, NEW r \in DeckRequests, SaveEdits(r)
    PROVE  DraftsFit'
<1> DEFINE cards == SavedTexts(deck.cards, ask[r].fields)
           images == Pictures(deck.cards, ask[r].images)
           step == IF images = {} THEN "write" ELSE "attach"
<1>1. ask[r].kind = "save" /\ ReadDeck(r, cards, images, step)
  BY DEF SaveEdits, Asked
<1>2. IsDeck(deck)
  BY DEF DraftsFit
<1>3. DOMAIN cards = DOMAIN deck.cards
  BY DEF SavedTexts
<1>4. ASSUME NEW s \in DOMAIN cards
      PROVE  IsCard(cards[s]) /\ (cards[s] = deck.cards[s] \/ s \in DeckTargets(r))
  <2> DEFINE given == {i \in DOMAIN ask[r].fields :
                          ask[r].fields[i].slot = s /\ ask[r].fields[i].value # "none"}
             last == CHOOSE i \in given : \A j \in given : j <= i
  <2>1. cards[s] = IF deck.cards[s].kind = "image" \/ given = {} THEN deck.cards[s]
                   ELSE [deck.cards[s] EXCEPT !.content = ask[r].fields[last].value]
    BY <1>3 DEF SavedTexts
  <2>2. IsCard(deck.cards[s])
    BY <1>2, <1>3 DEF IsDeck
  <2>3. given # {} => s \in DeckTargets(r)
    BY <1>1 DEF DeckTargets
  <2> HIDE DEF given, last, cards
  <2> QED BY <2>1, <2>2, <2>3, CardWithContent
<1>5. images \subseteq DOMAIN ask[r].images
  BY DEF Pictures
<1>6. StepFits(ask[r], step, images)
  BY <1>1, <1>5 DEF StepFits
<1> HIDE DEF cards, images, step
<1> QED BY <1>1, <1>3, <1>4, <1>6, ReadingKeepsDrafts

\* The picture of a save is one it was asked for.
LEMMA AttachKeepsDrafts ==
    ASSUME DraftsFit, NEW r \in DeckRequests, AttachPicture(r)
    PROVE  DraftsFit'
<1> DEFINE d == left[r]
           i == CHOOSE j \in d : \A k \in d : j <= k
           s == ask[r].images[i].slot
           picture == IF ask[r].images[i].key # ""
                      THEN [asset |-> "null", key |-> ask[r].images[i].key, signed |-> FALSE]
                      ELSE [asset |-> ask[r].images[i].asset, key |-> "null", signed |-> FALSE]
           cards == [draft[r] EXCEPT ![s].picture = picture]
           step == IF d = {i} THEN "write" ELSE "attach"
<1>1. ask[r].kind = "save" /\ at[r] = "attach" /\ DraftFits(r) /\ WellAsked(ask[r])
  BY DEF AttachPicture, Asked, DraftsFit
<1>2. d # {} /\ d \subseteq DOMAIN ask[r].images
  BY <1>1 DEF DraftFits, StepFits
<1>3. i \in d
  <2>1. d \in SUBSET Nat
    <3>1. DOMAIN ask[r].images = 1..Len(ask[r].images)
      BY <1>1 DEF WellAsked, IsList
    <3> QED BY <1>2, <3>1
  <2> HIDE DEF d
  <2>2. \E j \in d : \A k \in d : j <= k
    BY <1>2, <2>1, LeastNatural
  <2> QED BY <2>2
<1>4. s \in DeckTargets(r)
  <2> HIDE DEF i
  <2>1. i \in DOMAIN ask[r].images
    BY <1>2, <1>3
  <2> QED BY <1>1, <2>1 DEF DeckTargets
<1>5. IsPicture(picture)
  <2>1. \A x : /\ IsPicture([asset |-> "null", key |-> x, signed |-> FALSE])
              /\ IsPicture([asset |-> x, key |-> "null", signed |-> FALSE])
    BY DEF IsPicture
  <2> HIDE DEF i
  <2> QED BY <2>1
<1>6. DeckReject(r) \/ (/\ draft' = [draft EXCEPT ![r][s].picture = picture]
                        /\ left' = [left EXCEPT ![r] = d \ {i}]
                        /\ DeckGoto(r, step) /\ UNCHANGED <<ask, seen, deckRow, jobs, pool>>)
  <2>1. i = CHOOSE j \in left[r] : \A k \in left[r] : j <= k
    OBVIOUS
  <2> HIDE DEF i
  <2> QED BY <2>1 DEF AttachPicture
<1> HIDE DEF i
<1>7. CASE DeckReject(r)
  BY <1>7, RejectKeepsDrafts
<1>8. CASE /\ draft' = [draft EXCEPT ![r][s].picture = picture]
           /\ left' = [left EXCEPT ![r] = d \ {i}]
           /\ DeckGoto(r, step) /\ UNCHANGED <<ask, seen, deckRow, jobs, pool>>
  <2>1. /\ at' = [at EXCEPT ![r] = step] /\ UNCHANGED <<ask, seen, deck>>
        /\ left' = [left EXCEPT ![r] = d \ {i}]
    BY <1>8 DEF DeckGoto, deckRow
  <2>2. draft' = [draft EXCEPT ![r] = cards]
    BY <1>8
  <2>3. StepFits(ask[r], step, d \ {i})
    BY <1>1, <1>2, <1>3 DEF StepFits
  <2>4. /\ DOMAIN cards = DOMAIN draft[r] /\ \A x \in DOMAIN cards \ {s} : cards[x] = draft[r][x]
        /\ s \in DOMAIN cards => cards[s] = [draft[r][s] EXCEPT !.picture = picture]
    <3> HIDE DEF s, picture
    <3> QED OBVIOUS
  <2>5. \A x \in DOMAIN draft[r] : IsCard(draft[r][x])
    BY <1>1 DEF DraftFits
  <2> HIDE DEF cards, picture
  <2>6. s \in DOMAIN cards => IsCard(cards[s])
    <3> HIDE DEF s
    <3> SUFFICES ASSUME s \in DOMAIN cards PROVE IsCard(cards[s])
      OBVIOUS
    <3>1. s \in DOMAIN draft[r] /\ cards[s] = [draft[r][s] EXCEPT !.picture = picture]
      BY <2>4, Zenon
    <3>2. IsCard(draft[r][s])
      BY <2>5, <3>1, Zenon
    <3>3. PICK c : c = draft[r][s]
      OBVIOUS
    <3>4. IsCard(c) /\ cards[s] = [c EXCEPT !.picture = picture]
      BY <3>1, <3>2, <3>3, Zenon
    <3> QED BY <1>5, <3>4, CardWithPicture
  <2>7. \A x \in DOMAIN cards : IsCard(cards[x]) /\ (cards[x] = draft[r][x] \/ x \in DeckTargets(r))
    <3> HIDE DEF s
    <3> QED BY <1>4, <2>4, <2>5, <2>6
  <2>8. DOMAIN cards = DOMAIN draft[r]
    BY <2>4
  <2> DEFINE images == d \ {i}
  <2>9. left' = [left EXCEPT ![r] = images] /\ StepFits(ask[r], step, images)
    BY <2>1, <2>3
  <2> HIDE DEF step, s, d, images
  <2> QED BY <2>1, <2>2, <2>7, <2>8, <2>9, DraftingKeepsDrafts
<1> QED BY <1>6, <1>7, <1>8

\* What is stored has no signed addresses.
LEMMA StoringKeepsDrafts ==
    ASSUME DraftsFit, NEW r \in DeckRequests, UpdateCards(r) \/ SaveGenerated(r)
    PROVE  DraftsFit'
<1>1. MovesOnly(r)
  BY DEF UpdateCards, SaveGenerated, MovesOnly, StepFits
<1>2. ASSUME UpdateCards(r) PROVE IsDeck(deck') /\ Unsigned(deck'.cards)
  <2>1. deck' = [deck EXCEPT !.cards = Persistable(draft[r])]
    BY <1>2 DEF UpdateCards
  <2>2. IsDeck(deck) /\ \A s \in DOMAIN draft[r] : IsCard(draft[r][s])
    BY DEF DraftsFit, DraftFits
  <2> QED BY <2>1, <2>2, PersistableIsUnsigned
<1>3. ASSUME SaveGenerated(r) PROVE IsDeck(deck') /\ Unsigned(deck'.cards)
  <2> DEFINE d == ask[r].deck
  <2>1. UNCHANGED deck \/ deck' = [d EXCEPT !.cards = Persistable(d.cards)]
    BY <1>3 DEF SaveGenerated
  <2>2. at[r] = "template" /\ DraftFits(r) /\ WellAsked(ask[r])
    BY <1>3 DEF SaveGenerated, DraftsFit
  <2>3. IsDeck(d)
    BY <2>2 DEF DraftFits, StepFits, WellAsked
  <2>4. \A s \in DOMAIN d.cards : IsCard(d.cards[s])
    BY <2>3 DEF IsDeck
  <2> HIDE DEF d
  <2>5. ASSUME deck' = [d EXCEPT !.cards = Persistable(d.cards)]
        PROVE  IsDeck(deck') /\ Unsigned(deck'.cards)
    BY <2>3, <2>4, <2>5, PersistableIsUnsigned
  <2> QED BY <2>1, <2>5, DeckStays
<1> QED BY <1>1, <1>2, <1>3, MovingKeepsDrafts

\* The steps of a render.
LEMMA RenderKeepsDrafts ==
    ASSUME DraftsFit, NEW r \in DeckRequests, DeckRenderStep(r)
    PROVE  DraftsFit'
<1>1. CASE StartRender(r)
  BY <1>1, ProceedKeepsDrafts DEF StartRender, StepFits
<1>2. CASE FinishRender(r)
  BY <1>2, ProceedKeepsDrafts DEF FinishRender, StepFits
<1>3. CASE PostFails(r)
  BY <1>3, RejectKeepsDrafts DEF PostFails
<1>4. CASE TakeCard(r) \/ TakeNext(r)
  BY <1>4, StillKeepsDrafts DEF TakeCard, TakeNext, AskPage, deckRow
<1>5. ASSUME NEW p \in Pages,
             AskSecondPage(r, p) \/ OpenCard(r, p) \/ CaptureFails(r, p) \/ CaptureCard(r, p)
               \/ SaveFile(r, p)
      PROVE  DraftsFit'
  <2>1. Lose(r, p) => DraftsFit'
    <3> SUFFICES ASSUME Lose(r, p) PROVE DraftsFit'
      OBVIOUS
    <3>1. MovesOnly(r) /\ UNCHANGED deck
      BY DEF Lose, MovesOnly, StepFits, deckRow
    <3> QED BY <3>1, DeckStays, MovingKeepsDrafts
  <2>2. CASE AskSecondPage(r, p) \/ OpenCard(r, p) \/ CaptureCard(r, p)
    BY <2>2, StillKeepsDrafts DEF AskSecondPage, AskPage, OpenCard, CaptureCard, deckRow
  <2>3. CASE CaptureFails(r, p)
    BY <2>1, <2>3 DEF CaptureFails
  <2>4. CASE SaveFile(r, p)
    BY <2>1, <2>4, StillKeepsDrafts DEF SaveFile
  <2> QED BY <1>5, <2>2, <2>3, <2>4
<1> QED BY <1>1, <1>2, <1>3, <1>4, <1>5 DEF DeckRenderStep

\* Every step keeps what the drafts hold.
LEMMA DraftsKept == DraftsFit /\ [Next]_vars => DraftsFit'
<1> SUFFICES ASSUME DraftsFit, [Next]_vars PROVE DraftsFit'
  OBVIOUS
<1>1. CASE UNCHANGED deckVars
  BY <1>1, StillKeepsDrafts DEF deckVars, drafts
<1>2. ASSUME NEW r \in DeckRequests, DeckStep(r) PROVE DraftsFit'
  <2>1. CASE ReadForEdit(r) \/ DeckModel(r) \/ Retrieve(r)
    BY <2>1, EditKeepsDrafts
  <2>2. CASE SaveEdits(r) \/ AttachPicture(r)
    BY <2>2, SaveKeepsDrafts, AttachKeepsDrafts
  <2>3. CASE UpdateCards(r) \/ SaveGenerated(r)
    BY <2>3, StoringKeepsDrafts
  <2>4. CASE DeckReject(r)
    BY <2>4, RejectKeepsDrafts
  <2>5. CASE UploadPicture(r)
    BY <2>4, <2>5, ProceedKeepsDrafts DEF UploadPicture, StepFits
  <2>6. CASE FindDeckTemplate(r)
    <3>1. StepFits(ask[r], "template", {})
      BY <2>6 DEF FindDeckTemplate, Asked, StepFits
    <3> QED BY <2>4, <2>6, <3>1, ProceedKeepsDrafts DEF FindDeckTemplate
  <2>7. CASE StoreUpload(r)
    <3>1. MovesOnly(r) /\ UNCHANGED deck
      BY <2>7 DEF StoreUpload, MovesOnly, StepFits
    <3> QED BY <3>1, DeckStays, MovingKeepsDrafts
  <2>8. CASE DeckThrows(r)
    BY <2>4, <2>8 DEF DeckThrows
  <2>9. CASE DeckRenderStep(r)
    BY <2>9, RenderKeepsDrafts
  <2> QED BY <1>2, <2>1, <2>2, <2>3, <2>5, <2>6, <2>7, <2>8, <2>9 DEF DeckStep
<1> QED BY <1>1, <1>2 DEF Next, vars

\* The requests begin with the deck that is stored first.
LEMMA DraftsStart == Init => DraftsFit
<1> SUFFICES ASSUME Init PROVE DraftsFit
  OBVIOUS
<1>1. PICK s \in Scenarios : ask = s.deck
  BY DEF Init
<1>2. /\ at = [r \in DeckRequests |-> IF ask[r].kind = "none" THEN "done" ELSE "begin"]
      /\ seen = [r \in DeckRequests |-> FirstDeck]
      /\ draft = [r \in DeckRequests |-> FirstDeck.cards]
      /\ left = [r \in DeckRequests |-> {}] /\ deck = FirstDeck
  BY DEF Init, DeckInit
<1>3. IsDeck(FirstDeck) /\ Unsigned(FirstDeck.cards)
  BY ScenarioAssumption DEF Unsigned
<1>4. ASSUME NEW r \in DeckRequests PROVE WellAsked(ask[r]) /\ DraftFits(r)
  <2>1. at[r] \in {"begin", "done"} /\ seen[r] = FirstDeck /\ draft[r] = FirstDeck.cards
    BY <1>2
  <2>2. WellAsked(ask[r])
    BY <1>1, ScenarioAssumption
  <2> QED BY <1>3, <2>1, <2>2 DEF DraftFits, StepFits, IsDeck
<1>5. at = [r \in DeckRequests |-> at[r]]
  <2> DEFINE A == [r \in DeckRequests |-> IF ask[r].kind = "none" THEN "done" ELSE "begin"]
  <2>1. A = [r \in DeckRequests |-> A[r]]
    OBVIOUS
  <2> HIDE DEF A
  <2>2. at = A
    BY <1>2 DEF A
  <2> QED BY <2>1, <2>2
<1>6. /\ seen = [r \in DeckRequests |-> seen[r]] /\ draft = [r \in DeckRequests |-> draft[r]]
      /\ left = [r \in DeckRequests |-> left[r]]
  BY <1>2
<1> QED BY <1>2, <1>3, <1>4, <1>5, <1>6 DEF DraftsFit

\* Who was about to write and is done has written.
LEMMA DoneHasUpdated ==
    ASSUME DraftsFit, [Next]_vars, NEW r \in DeckRequests, at[r] = "write", at'[r] = "done"
    PROVE  UpdateCards(r)
<1>1. PICK x \in DeckRequests : DeckStep(x)
  <2>1. at' # at
    OBVIOUS
  <2> QED BY <2>1 DEF Next, vars, deckVars
<1>2. ASSUME NEW y \in DeckRequests, NEW step, at' = [at EXCEPT ![y] = step]
      PROVE  y = r /\ step = "done"
  BY <1>2 DEF DraftsFit
<1>3. ASSUME NEW y \in DeckRequests, DeckReject(y) PROVE FALSE
  BY <1>2, <1>3 DEF DeckReject, DeckGoto
<1>4. ASSUME NEW y \in DeckRequests, NEW step, Proceed(y, step) PROVE y = r /\ step = "done"
  BY <1>2, <1>4 DEF Proceed, DeckGoto
<1>5. ASSUME NEW y \in DeckRequests, NEW p \in Pages, Lose(y, p) PROVE FALSE
  BY <1>2, <1>5 DEF Lose, DeckGoto
<1>6. ASSUME ReadForEdit(x) \/ DeckModel(x) \/ Retrieve(x) \/ SaveEdits(x) \/ AttachPicture(x)
      PROVE  FALSE
  <2>1. at[x] \in {"begin", "model", "retrieve", "attach"}
    BY <1>6 DEF ReadForEdit, DeckModel, Retrieve, SaveEdits, AttachPicture, Asked
  <2>2. x # r
    BY <2>1
  <2>3. \E step : DeckGoto(x, step)
    BY <1>6 DEF ReadForEdit, DeckModel, Retrieve, SaveEdits, AttachPicture, ReadDeck, Draft,
                Proceed, DeckReject
  <2> QED BY <1>2, <2>2, <2>3 DEF DeckGoto
<1>7. ASSUME UploadPicture(x) \/ StoreUpload(x) \/ FindDeckTemplate(x) \/ SaveGenerated(x)
      PROVE  FALSE
  <2>1. at[x] \in {"begin", "upload", "template"}
    BY <1>7 DEF UploadPicture, StoreUpload, FindDeckTemplate, SaveGenerated, Asked
  <2>2. x # r
    BY <2>1
  <2>3. \E step : DeckGoto(x, step)
    BY <1>7 DEF UploadPicture, StoreUpload, FindDeckTemplate, SaveGenerated, Proceed, DeckReject
  <2> QED BY <1>2, <2>2, <2>3 DEF DeckGoto
<1>8. ASSUME DeckRenderStep(x) PROVE FALSE
  <2>1. ~StartRender(x) /\ ~PostFails(x) /\ ~FinishRender(x)
    BY <1>3, <1>4 DEF StartRender, PostFails, FinishRender
  <2>2. ~TakeCard(x) /\ ~TakeNext(x)
    BY <1>5 DEF TakeCard, TakeNext, AskPage
  <2>3. ASSUME NEW p \in Pages
        PROVE  ~(AskSecondPage(x, p) \/ OpenCard(x, p) \/ CaptureFails(x, p) \/ CaptureCard(x, p) \/ SaveFile(x, p))
    BY <1>5 DEF AskSecondPage, AskPage, OpenCard, CaptureFails, CaptureCard, SaveFile
  <2> QED BY <1>8, <2>1, <2>2, <2>3 DEF DeckRenderStep
<1>9. ~DeckThrows(x)
  BY <1>3 DEF DeckThrows
<1>10. UpdateCards(x) => x = r
  BY <1>2 DEF UpdateCards, DeckGoto
<1> QED BY <1>1, <1>6, <1>7, <1>8, <1>9, <1>10 DEF DeckStep

\* What a deck's request writes differs from what it read only where it was
\* asked to.
LEMMA DeckWritesAsked ==
    ASSUME DraftsFit, NEW r \in DeckRequests, UpdateCards(r)
    PROVE  /\ deck'.template = deck.template
           /\ DOMAIN deck'.cards = DOMAIN seen[r].cards
           /\ \A s \in DOMAIN deck'.cards :
                  deck'.cards[s] = seen[r].cards[s] \/ s \in DeckTargets(r)
<1> DEFINE cards == draft[r]
<1>1. deck' = [deck EXCEPT !.cards = Persistable(cards)]
  BY DEF UpdateCards
<1>2. IsDeck(deck) /\ DraftFits(r)
  BY DEF DraftsFit
<1>3. deck' = [template |-> deck.template, cards |-> Persistable(cards)]
  BY <1>1, <1>2, PersistableIsUnsigned DEF DraftFits
<1>4. DOMAIN Persistable(cards) = DOMAIN cards
  BY DEF Persistable
<1>5. ASSUME NEW s \in DOMAIN cards
      PROVE  Persistable(cards)[s] = seen[r].cards[s] \/ s \in DeckTargets(r)
  <2> SUFFICES ASSUME cards[s] = seen[r].cards[s] PROVE Persistable(cards)[s] = cards[s]
    BY <1>2 DEF DraftFits
  <2>1. Persistable(cards)[s] = [cards[s] EXCEPT !.picture.signed = FALSE]
    BY DEF Persistable
  <2>2. IsCard(cards[s]) /\ ~cards[s].picture.signed
    BY <1>2 DEF DraftFits, Unsigned
  <2> QED BY <2>1, <2>2, CardIsUnsigned
<1> HIDE DEF Persistable
<1>6. deck'.template = deck.template /\ deck'.cards = Persistable(cards)
  BY <1>3
<1> QED BY <1>2, <1>4, <1>5, <1>6 DEF DraftFits

\* Whatever requests are under way and however their awaits interleave, an edit
\* writes nothing that differs from what it read outside the fields and
\* pictures it was asked for.  The lineart templates are left out: there a save
\* stores texts it has not reworded, which the next edit rewords with its own.
THEOREM WritesAreWhatWasAsked ==
    ASSUME ~Template.lineart
    PROVE  Spec => WritesOnlyWhatWasAsked
<1>1. Init => CopiesFit /\ DraftsFit
  BY CopiesStart, DraftsStart
<1>2. CopiesFit /\ DraftsFit /\ [Next]_vars => CopiesFit' /\ DraftsFit'
  BY CopiesKept, DraftsKept
<1>3. CopiesFit /\ DraftsFit /\ [Next]_vars =>
        /\ \A r \in Requests : pc[r] = "write" /\ pc'[r] = "done" =>
             \A q \in DOMAIN base[r] \cup DOMAIN row'.structure :
                 \/ Has(base[r], q) /\ Has(row'.structure, q) /\ base[r][q] = row'.structure[q]
                 \/ \E p \in Targets(r) : Within(p, q)
        /\ \A r \in DeckRequests : at[r] = "write" /\ at'[r] = "done" =>
             /\ deck'.template = deck.template
             /\ DOMAIN deck'.cards = DOMAIN seen[r].cards
             /\ \A s \in DOMAIN deck'.cards :
                    deck'.cards[s] = seen[r].cards[s] \/ s \in DeckTargets(r)
  <2> SUFFICES ASSUME CopiesFit, DraftsFit, [Next]_vars
               PROVE  /\ \A r \in Requests : pc[r] = "write" /\ pc'[r] = "done" =>
                           \A q \in DOMAIN base[r] \cup DOMAIN row'.structure :
                               \/ Has(base[r], q) /\ Has(row'.structure, q) /\ base[r][q] = row'.structure[q]
                               \/ \E p \in Targets(r) : Within(p, q)
                      /\ \A r \in DeckRequests : at[r] = "write" /\ at'[r] = "done" =>
                           /\ deck'.template = deck.template
                           /\ DOMAIN deck'.cards = DOMAIN seen[r].cards
                           /\ \A s \in DOMAIN deck'.cards :
                                  deck'.cards[s] = seen[r].cards[s] \/ s \in DeckTargets(r)
    OBVIOUS
  <2>1. ASSUME NEW r \in Requests, pc[r] = "write", pc'[r] = "done"
        PROVE  SameBut(base[r], row'.structure, Targets(r))
    BY <2>1, DoneHasWritten, WorksheetWritesAsked
  <2>2. ASSUME NEW r \in DeckRequests, at[r] = "write", at'[r] = "done"
        PROVE  /\ deck'.template = deck.template
               /\ DOMAIN deck'.cards = DOMAIN seen[r].cards
               /\ \A s \in DOMAIN deck'.cards :
                      deck'.cards[s] = seen[r].cards[s] \/ s \in DeckTargets(r)
    BY <2>2, DoneHasUpdated, DeckWritesAsked
  <2> QED BY <2>1, <2>2 DEF SameBut
<1> QED BY <1>1, <1>2, <1>3, PTL DEF Spec, WritesOnlyWhatWasAsked

---------------------------------------------------------------------------
(* The structures a request has are structures.                            *)

\* A structure with an object at its root.
Rooted(t) == Hangs(t) /\ IsRecord(t, <<>>)
\* What holds of a request for o that is at p, has read t, made w of it and
\* still has the pictures d to look up.
TreeFits(o, p, t, w, d) ==
    /\ p \in Steps /\ d \subseteq Seq(STRING)
    /\ Rooted(t) /\ Gapless(DOMAIN t) /\ Rooted(w)
    /\ p = "images" => d # {}
    /\ p = "attach" => o.kind = "save" /\ d # {} /\ d \subseteq ImagePaths(o)
RowTyped ==
    /\ DOMAIN row = {"structure", "request", "status"} /\ row.status \in Statuses
    /\ Rooted(row.structure) /\ Gapless(DOMAIN row.structure)
TreesFit ==
    /\ CopyShapes /\ RowTyped /\ unsettled \in BOOLEAN
    /\ \A r \in Requests : WellFormed(op[r]) /\ TreeFits(op[r], pc[r], base[r], work[r], todo[r])

\* A function that keeps a structure together keeps its root.
LEMMA RootedStays == ASSUME NEW t, Rooted(t), NEW v, KeepsTree(t, v) PROVE Rooted(v)
BY DEF Rooted, KeepsTree
\* A value put where it has a place keeps it too.
LEMMA PutIsRooted ==
    ASSUME NEW t, Rooted(t), NEW p \in Seq(STRING), CanSet(t, p), NEW v, Hangs(v)
    PROVE  Rooted(Put(t, p, v))
<1>1. Hangs(Put(t, p, v)) /\ Put(t, p, v)[<<>>] = t[<<>>]
  BY PutHangs DEF Rooted
<1>2. IsRecord(Put(t, p, v), <<>>)
  BY <1>1, SameRoot DEF Rooted, Hangs
<1> QED BY <1>1, <1>2 DEF Rooted

\* What the model is wrapped in falls away.
LEMMA ReplacementHangs == ASSUME NEW v \in Replies PROVE Hangs(Replacement(v))
<1>1. Hangs(v)
  BY DocumentAssumption DEF IsTree
<1>2. CASE Has(v, <<"value">>)
  BY <1>1, <1>2, SubtreeHangs DEF Replacement, Has
<1>3. CASE ~Has(v, <<"value">>)
  BY <1>1, <1>3 DEF Replacement
<1> QED BY <1>2, <1>3

\* The texts of questions and options a correction takes over are in objects.
LEMMA CorrectedKeepsTree ==
    ASSUME NEW t, Hangs(t), NEW answer \in Answers PROVE KeepsTree(t, Corrected(t, answer))
<1> DEFINE texts == {p \in DOMAIN answer : IsText(answer[p]) /\ Correctable(t, p)}
           u == [p \in texts |-> answer[p]]
<1>1. Corrected(t, answer) = Overlay(t, u)
  BY DEF Corrected
<1>2. IsFiniteSet(DOMAIN answer) /\ DOMAIN answer \subseteq Seq(STRING)
  BY DocumentAssumption DEF IsTree, Hangs
<1>3. DOMAIN u = texts /\ texts \in SUBSET DOMAIN answer /\ \A p \in texts : u[p] = answer[p]
  OBVIOUS
<1>4. \A p \in texts : p # <<>> /\ IsRecord(t, Parent(p)) /\ Key(p) \in {"question", "text"}
  BY DEF Correctable
<1>5. \A p \in texts : IsText(u[p])
  BY <1>3
<1>6. {"question", "text"} \subseteq STRING \ IndexKeys
  BY OwnNamesAreNames
<1> HIDE DEF texts, u
<1>7. IsFiniteSet(DOMAIN u)
  BY <1>2, <1>3, FS_Subset
<1>8. ASSUME NEW p \in DOMAIN u
      PROVE  /\ p \in Seq(STRING) \ {<<>>} /\ Key(p) \notin IndexKeys
             /\ IsRecord(t, Parent(p)) /\ ~IsHolder(u, p)
  <2>1. u[p] \in Text \cup Assets \cup UploadKeys \cup {"null"}
    BY <1>3, <1>5 DEF IsText
  <2>2. ~IsHolder(u, p)
    BY <2>1, TextIsNoHolder
  <2> QED BY <1>2, <1>3, <1>4, <1>6, <2>2
<1>9. KeepsTree(t, Overlay(t, u))
  BY <1>7, <1>8, ValuesKeepTree
<1> QED BY <1>1, <1>9

\* So do the fields of a save.
LEMMA SavedIsRooted ==
    ASSUME NEW o, WellFormed(o), o.kind = "save", NEW t, Rooted(t)
    PROVE  Rooted(SavedFields(o, t))
<1>0. PICK K : K = SavedUpTo(o, t)
  OBVIOUS
<1> DEFINE T == {n \in Nat : n <= Len(o.fields) => Rooted(K[n])}
<1>1. /\ Len(o.fields) \in Nat /\ DOMAIN o.fields = 1..Len(o.fields)
      /\ \A i \in 1..Len(o.fields) : o.fields[i].path \in Seq(STRING)
  <2>1. IsList(o.fields) /\ \A i \in DOMAIN o.fields : o.fields[i].path \in Seq(STRING)
    BY SaveIsWellFormed
  <2>2. Len(o.fields) \in Nat /\ DOMAIN o.fields = 1..Len(o.fields)
    BY <2>1 DEF IsList
  <2> QED BY <2>1, <2>2
<1>2. IsSaved(K, o, t)
  BY <1>0, <1>1, SavedUnfolds
<1>3. SavedFields(o, t) = K[Len(o.fields)]
  BY <1>0 DEF SavedFields
<1>4. 0 \in T
  BY <1>2 DEF IsSaved
<1>5. ASSUME NEW n \in Nat, n \in T PROVE n + 1 \in T
  <2> SUFFICES ASSUME n + 1 <= Len(o.fields) PROVE Rooted(K[n + 1])
    OBVIOUS
  <2> DEFINE f == o.fields[n + 1]
  <2>1. n + 1 \in 1..Len(o.fields) /\ (n + 1) - 1 = n /\ n <= Len(o.fields)
    BY <1>1
  <2>2. Rooted(K[n])
    BY <1>5, <2>1
  <2>3. f.path \in Seq(STRING)
    BY <1>1, <2>1
  <2>4. K[n + 1] = K[n] \/ (CanSet(K[n], f.path) /\ K[n + 1] = Put(K[n], f.path, Leaf(f.value)))
    BY <1>2, <2>1 DEF IsSaved
  <2> HIDE DEF f
  <2>5. Hangs(Leaf(f.value))
    BY LeafHangs DEF IsTree
  <2> QED BY <2>2, <2>3, <2>4, <2>5, PutIsRooted
<1>6. Nat \subseteq T
  BY <1>4, <1>5, InductionOnSets
<1> QED BY <1>1, <1>3, <1>6

\* A step of one request leaves the copies of the others.
LEMMA MovingKeepsTrees ==
    ASSUME TreesFit, NEW r \in Requests, NEW p, NEW t, NEW w, NEW d,
           CopyMoves(r, p, t, w, d), TreeFits(op[r], p, t, w, d), RowTyped', unsettled' \in BOOLEAN
    PROVE  TreesFit'
<1>1. /\ pc'[r] = p /\ base'[r] = t /\ work'[r] = w /\ todo'[r] = d
      /\ \A q \in Requests \ {r} : /\ pc'[q] = pc[q] /\ base'[q] = base[q]
                                   /\ work'[q] = work[q] /\ todo'[q] = todo[q]
  BY DEF TreesFit, CopyShapes, CopyMoves
<1>2. CopyShapes'
  BY DEF TreesFit, CopyShapes, CopyMoves
<1>3. op' = op
  BY DEF CopyMoves
<1>4. ASSUME NEW q \in Requests
      PROVE  WellFormed(op[q]) /\ TreeFits(op[q], pc'[q], base'[q], work'[q], todo'[q])
  <2>1. CASE q = r
    BY <1>1, <2>1 DEF TreesFit
  <2>2. CASE q # r
    BY <1>1, <2>2 DEF TreesFit
  <2> QED BY <2>1, <2>2
<1> QED BY <1>2, <1>3, <1>4 DEF TreesFit

\* What a request reads is a tree, as what it was sent or what is stored.
LEMMA SourceIsRooted ==
    ASSUME TreesFit, NEW r \in Requests
    PROVE  Rooted(Source(r)) /\ Gapless(DOMAIN Source(r))
<1>1. op[r].temp => IsTree(op[r].sent) /\ IsRecord(op[r].sent, <<>>)
  BY Zenon DEF TreesFit, WellFormed
<1> QED BY <1>1 DEF TreesFit, RowTyped, Source, Rooted, IsTree

\* What is read and what was made of it.
LEMMA TakingKeepsTrees ==
    ASSUME TreesFit, NEW r \in Requests, NEW t, Rooted(t), NEW step \in Steps, NEW paths,
           paths \subseteq Seq(STRING), step = "images" => paths # {},
           step = "attach" => op[r].kind = "save" /\ paths # {} /\ paths \subseteq ImagePaths(op[r]),
           Take(r, t, step, paths)
    PROVE  TreesFit'
<1>1. CopyMoves(r, step, Source(r), t, paths) /\ row' = row /\ unsettled' = unsettled
  <2>1. row' = row /\ unsettled' = unsettled
    BY DEF Take, document
  <2> QED BY <2>1, CopyFrames DEF TreesFit
<1>2. TreeFits(op[r], step, Source(r), t, paths)
  BY SourceIsRooted DEF TreeFits
<1>3. RowTyped' /\ unsettled' \in BOOLEAN
  BY <1>1 DEF TreesFit, RowTyped
<1> QED BY <1>1, <1>2, <1>3, MovingKeepsTrees

\* The copy is another.
LEMMA WorkingKeepsTrees ==
    ASSUME TreesFit, NEW r \in Requests, NEW w, Rooted(w), NEW step \in Steps \ {"images", "attach"},
           work' = [work EXCEPT ![r] = w], Goto(r, step), UNCHANGED <<op, base, todo, document>>
    PROVE  TreesFit'
<1>1. CopyMoves(r, step, base[r], w, todo[r])
  <2>1. UNCHANGED <<op, base, todo>>
    OBVIOUS
  <2> QED BY <2>1, CopyFrames DEF TreesFit
<1>2. TreeFits(op[r], step, base[r], w, todo[r])
  BY DEF TreesFit, TreeFits
<1>3. RowTyped' /\ unsettled' \in BOOLEAN
  BY DEF TreesFit, RowTyped, document
<1> QED BY <1>1, <1>2, <1>3, MovingKeepsTrees

\* The copies stay.
LEMMA StandingKeepsTrees ==
    ASSUME TreesFit, NEW r \in Requests, NEW step \in Steps \ {"images", "attach"},
           Goto(r, step), UNCHANGED copies, RowTyped', unsettled' \in BOOLEAN
    PROVE  TreesFit'
<1>1. CopyMoves(r, step, base[r], work[r], todo[r])
  BY CopyFrames DEF TreesFit
<1>2. TreeFits(op[r], step, base[r], work[r], todo[r])
  BY DEF TreesFit, TreeFits
<1> QED BY <1>1, <1>2, MovingKeepsTrees
\* The row stays as well,
LEMMA LeavingKeepsTrees ==
    ASSUME TreesFit, NEW r \in Requests, NEW step \in Steps \ {"images", "attach"},
           Goto(r, step), UNCHANGED copies, UNCHANGED row, UNCHANGED unsettled
    PROVE  TreesFit'
BY StandingKeepsTrees DEF TreesFit, RowTyped
\* as when the request is refused.
LEMMA RejectKeepsTrees ==
    ASSUME TreesFit, NEW r \in Requests, Reject(r) PROVE TreesFit'
<1>1. "failed" \in Steps \ {"images", "attach"}
  BY DEF Steps
<1> QED BY <1>1, LeavingKeepsTrees DEF Reject, document
\* A status is another.
LEMMA StatusKeepsRow ==
    ASSUME RowTyped, NEW s \in Statuses, SetStatus(s) PROVE RowTyped'
<1>1. row'.structure = row.structure /\ row'.status = s /\ DOMAIN row' = DOMAIN row
  BY DEF RowTyped, SetStatus
<1> QED BY <1>1 DEF RowTyped

\* edit, regenerate and correctGrammar begin.
LEMMA ReadForModelKeepsTrees ==
    ASSUME TreesFit, NEW r \in Requests, ReadForModel(r) PROVE TreesFit'
<1>1. Reject(r) \/ Take(r, Source(r), "model", {})
  BY DEF ReadForModel
<1>2. "model" \in Steps
  BY DEF Steps
<1> QED BY <1>1, <1>2, RejectKeepsTrees, SourceIsRooted, TakingKeepsTrees

\* What a request works on is changed into a structure of the same kind.
LEMMA ValidatedIsRooted == ASSUME NEW t, Rooted(t), NEW l PROVE Rooted(Validated(t, l))
BY ValidatedKeepsTree, RootedStays DEF Rooted
\* So is what is stored of it.
LEMMA StripIsRooted == ASSUME NEW t, Rooted(t) PROVE Rooted(StripTransient(t))
BY StripKeepsTree, RootedStays DEF Rooted
\* The image records are paths of it.
LEMMA ChangedArePaths == ASSUME NEW t, NEW u, Rooted(u) PROVE Changed(t, u) \subseteq Seq(STRING)
BY DEF Changed, ImageRecords, Rooted, Hangs

\* updateField sets a field that has a place.
LEMMA UpdateFieldKeepsTrees ==
    ASSUME TreesFit, NEW r \in Requests, UpdateField(r) PROVE TreesFit'
<1> DEFINE t == row.structure
           p == op[r].field.path
           u == Put(t, p, Leaf(op[r].value))
           n == Validated(u, Template.lineart)
           step == IF Changed(t, n) = {} THEN "write" ELSE "images"
<1>1. Reject(r) \/ (CanSet(t, p) /\ Take(r, n, step, Changed(t, n)))
  BY DEF UpdateField
<1>2. CASE CanSet(t, p) /\ Take(r, n, step, Changed(t, n))
  <2>1. p \in Seq(STRING) /\ op[r].kind = "update"
    <3>1. op[r].kind = "update" /\ WellFormed(op[r])
      BY DEF UpdateField, Is, TreesFit
    <3> QED BY <3>1, Zenon DEF WellFormed
  <2>2. Rooted(t) /\ Hangs(Leaf(op[r].value))
    BY LeafHangs DEF TreesFit, RowTyped, IsTree
  <2> HIDE DEF t, p
  <2>3. Rooted(u)
    BY <1>2, <2>1, <2>2, PutIsRooted
  <2> HIDE DEF u
  <2>4. Rooted(n)
    BY <2>3, ValidatedIsRooted
  <2> HIDE DEF n
  <2>5. Changed(t, n) \subseteq Seq(STRING)
    BY <2>4, ChangedArePaths
  <2>6. /\ step \in Steps /\ step # "attach"
        /\ step = "images" => Changed(t, n) # {}
    BY DEF Steps
  <2> HIDE DEF step
  <2> QED BY <1>2, <2>4, <2>5, <2>6, TakingKeepsTrees
<1> QED BY <1>1, <1>2, RejectKeepsTrees

\* A save begins with its fields.
LEMMA ReadForSaveKeepsTrees ==
    ASSUME TreesFit, NEW r \in Requests, ReadForSave(r) PROVE TreesFit'
<1> DEFINE o == op[r]
           t == SavedFields(o, row.structure)
           n == Validated(t, Template.lineart)
<1>1. o.kind = "save" /\ WellFormed(o)
  BY DEF ReadForSave, Is, TreesFit
<1>2. Rooted(row.structure)
  BY DEF TreesFit, RowTyped
<1>3. Rooted(t)
  BY <1>1, <1>2, SavedIsRooted
<1>4. \/ Reject(r)
      \/ o.images # <<>> /\ Take(r, t, "attach", ImagePaths(o))
      \/ Take(r, n, "write", {})
  BY DEF ReadForSave
<1> HIDE DEF t
<1>5. Rooted(n)
  BY <1>3, ValidatedIsRooted
<1> HIDE DEF n
<1>6. {"attach", "write"} \subseteq Steps
  BY DEF Steps
<1>7. CASE o.images # <<>> /\ Take(r, t, "attach", ImagePaths(o))
  <2>1. IsList(o.images) /\ \A i \in DOMAIN o.images : o.images[i].path \in Seq(STRING)
    BY <1>1, SaveIsWellFormed
  <2>2. ImagePaths(o) \subseteq Seq(STRING)
    BY <2>1 DEF ImagePaths
  <2>3. ImagePaths(o) # {}
    <3>1. o.images \in Seq({o.images[i] : i \in 1..Len(o.images)})
      BY <2>1 DEF IsList
    <3>2. DOMAIN o.images # {}
      BY <1>7, <3>1, EmptySeq
    <3> QED BY <3>2 DEF ImagePaths
  <2> QED BY <1>1, <1>3, <1>6, <1>7, <2>2, <2>3, TakingKeepsTrees
<1>8. CASE Take(r, n, "write", {})
  BY <1>5, <1>6, <1>8, TakingKeepsTrees
<1> QED BY <1>4, <1>7, <1>8, RejectKeepsTrees

\* The other requests read and wait, or answer.
LEMMA OtherReadsKeepTrees ==
    ASSUME TreesFit, NEW r \in Requests,
           ReadForReplace(r) \/ ReadForUpload(r) \/ ReadForRender(r)
    PROVE  TreesFit'
<1>1. Rooted(row.structure) /\ {"check", "upload", "done", "browser", "mark"} \subseteq Steps
  BY DEF TreesFit, RowTyped, Steps, RenderSteps
<1>2. CASE ReadForReplace(r) \/ ReadForUpload(r)
  <2>1. \/ Reject(r)
        \/ \E step \in {"check", "upload"} : Take(r, row.structure, step, {})
    BY <1>2 DEF ReadForReplace, ReadForUpload
  <2> QED BY <1>1, <2>1, RejectKeepsTrees, TakingKeepsTrees
<1>3. CASE ReadForRender(r)
  <2>1. \E step \in {"done", "browser", "mark"} : Take(r, EnrichForRender(Source(r)), step, {})
    BY <1>3 DEF ReadForRender
  <2>2. Rooted(EnrichForRender(Source(r)))
    BY SourceIsRooted, EnrichKeepsTree, RootedStays DEF Rooted
  <2> QED BY <1>1, <2>1, <2>2, TakingKeepsTrees
<1> QED BY <1>2, <1>3

\* The model's edit sets a field that has a place.
LEMMA ModelEditsKeepsTrees ==
    ASSUME TreesFit, NEW r \in Requests, ModelEdits(r) PROVE TreesFit'
<1> DEFINE t == base[r]
           p == FieldPath(t, op[r].field)
<1>1. PICK v \in Replies :
         \/ Reject(r)
         \/ /\ CanSet(t, p)
            /\ Resolve(r, Validated(StripTransient(Put(t, p, Replacement(v))), Template.lineart))
  BY DEF ModelEdits
<1> DEFINE u == Put(t, p, Replacement(v))
           s == StripTransient(u)
           n == Validated(s, Template.lineart)
<1>2. CASE CanSet(t, p) /\ Resolve(r, n)
  <2>1. op[r].field.path \in Seq(STRING)
    <3>1. op[r].kind = "edit" /\ WellFormed(op[r])
      BY DEF ModelEdits, Is, TreesFit
    <3> QED BY <3>1, Zenon DEF WellFormed
  <2>2. Rooted(t) /\ Gapless(DOMAIN t)
    BY DEF TreesFit, TreeFits
  <2> HIDE DEF t
  <2>3. p \in Seq(STRING)
    BY <1>2, <2>1, <2>2, FieldPathMeans DEF Rooted
  <2> HIDE DEF p
  <2>4. Rooted(u)
    BY <1>2, <2>2, <2>3, ReplacementHangs, PutIsRooted
  <2> HIDE DEF u
  <2>5. Rooted(s)
    BY <2>4, StripIsRooted
  <2> HIDE DEF s
  <2>6. Rooted(n)
    BY <2>5, ValidatedIsRooted
  <2> HIDE DEF n
  <2> DEFINE d == Changed(t, n)
             step == IF d # {} THEN "images" ELSE IF op[r].temp THEN "done" ELSE "write"
  <2>7. CopyMoves(r, step, t, n, d) /\ row' = row /\ unsettled' = unsettled
    <3>1. base = [base EXCEPT ![r] = base[r]]
      BY DEF TreesFit, CopyShapes
    <3> QED BY <1>2, <3>1 DEF Resolve, CopyMoves, Goto, document, t
  <2>8. step \in Steps /\ step # "attach" /\ (step = "images" => d # {})
    BY DEF Steps
  <2>9. d \subseteq Seq(STRING)
    BY <2>6, ChangedArePaths
  <2> HIDE DEF step, d
  <2>10. TreeFits(op[r], step, t, n, d)
    BY <2>2, <2>6, <2>8, <2>9 DEF TreeFits
  <2>11. RowTyped' /\ unsettled' \in BOOLEAN
    BY <2>7 DEF TreesFit, RowTyped
  <2> QED BY <2>7, <2>10, <2>11, MovingKeepsTrees
<1> QED BY <1>1, <1>2, RejectKeepsTrees

\* A correction of the grammar.
LEMMA ModelCorrectsKeepsTrees ==
    ASSUME TreesFit, NEW r \in Requests, ModelCorrects(r) PROVE TreesFit'
<1>1. PICK answer \in Answers :
         LET next == StripTransient(Corrected(base[r], answer))
         IN  \/ Reject(r)
             \/ /\ work' = [work EXCEPT ![r] = Validated(next, Template.lineart)]
                /\ Goto(r, "done") /\ UNCHANGED <<op, base, todo, document>>
  BY DEF ModelCorrects
<1> DEFINE u == Corrected(base[r], answer)
           s == StripTransient(u)
           n == Validated(s, Template.lineart)
<1>2. Rooted(base[r])
  BY DEF TreesFit, TreeFits
<1>3. Rooted(u)
  BY <1>2, CorrectedKeepsTree, RootedStays DEF Rooted
<1> HIDE DEF u
<1>4. Rooted(s)
  BY <1>3, StripIsRooted
<1> HIDE DEF s
<1>5. Rooted(n)
  BY <1>4, ValidatedIsRooted
<1>6. \/ Reject(r)
      \/ /\ work' = [work EXCEPT ![r] = n]
         /\ Goto(r, "done") /\ UNCHANGED <<op, base, todo, document>>
  BY <1>1 DEF s, u
<1> HIDE DEF n
<1>7. "done" \in Steps \ {"images", "attach"}
  BY DEF Steps
<1> QED BY <1>5, <1>6, <1>7, RejectKeepsTrees, WorkingKeepsTrees

\* A regeneration is a tree of its own.
LEMMA ModelRegeneratesKeepsTrees ==
    ASSUME TreesFit, NEW r \in Requests, ModelRegenerates(r) PROVE TreesFit'
<1> DEFINE l == Template.lineart
           raw(answer) == Validated(answer, l)
           new(answer) == Validated(Normalise(raw(answer)), l)
           valid(answer, found) == Validated(Pictured(new(answer), found, l), l)
           step == IF op[r].temp THEN "done" ELSE "write"
<1>1. \/ Reject(r)
      \/ \E answer \in Answers : \E found \in [Wanted(new(answer), l) -> Library \cup {"null"}] :
             /\ IsRecord(raw(answer), <<>>)
             /\ work' = [work EXCEPT ![r] = NumberMatch(valid(answer, found), op[r].fields)]
             /\ Goto(r, step) /\ UNCHANGED <<op, base, todo, document>>
  BY DEF ModelRegenerates, Accepts
<1>2. ASSUME NEW answer \in Answers,
             NEW found \in [Wanted(new(answer), l) -> Library \cup {"null"}],
             IsRecord(raw(answer), <<>>),
             work' = [work EXCEPT ![r] = NumberMatch(valid(answer, found), op[r].fields)],
             Goto(r, step), UNCHANGED <<op, base, todo, document>>
      PROVE  TreesFit'
  <2> DEFINE a == raw(answer)
             b == new(answer)
             c == Pictured(b, found, l)
             d == Validated(c, l)
             n == NumberMatch(d, op[r].fields)
  <2>1. Rooted(a)
    <3>1. Hangs(answer)
      BY DocumentAssumption DEF IsTree
    <3>2. KeepsTree(answer, a)
      BY <3>1, ValidatedKeepsTree
    <3> HIDE DEF raw
    <3> QED BY <1>2, <3>2 DEF KeepsTree, Rooted
  <2>2. Rooted(b)
    <3>1. b = Validated(Normalise(a), l)
      OBVIOUS
    <3> HIDE DEF a, b
    <3>2. Rooted(Normalise(a))
      BY <2>1, NormaliseKeepsTree, RootedStays DEF Rooted
    <3> QED BY <3>1, <3>2, ValidatedIsRooted
  <2>3. \A q \in Wanted(b, l) : found[q] \in Assets \cup {"null"}
    <3>1. Library \subseteq Assets
      BY DocumentAssumption
    <3> HIDE DEF b
    <3> QED BY <1>2, <3>1 DEF b
  <2>4. n = NumberMatch(valid(answer, found), op[r].fields)
    OBVIOUS
  <2> HIDE DEF new, raw, valid, b
  <2>5. Rooted(c)
    <3>1. KeepsTree(b, c)
      BY <2>2, <2>3, PicturedKeepsTree DEF Rooted
    <3> HIDE DEF c
    <3> QED BY <2>2, <3>1, RootedStays
  <2> HIDE DEF c
  <2>6. Rooted(d)
    BY <2>5, ValidatedIsRooted
  <2> HIDE DEF d
  <2>7. op[r].fields.topic \in Text
    <3>1. op[r].kind = "regenerate" /\ WellFormed(op[r])
      <4>1. op[r].kind = "regenerate"
        BY DEF ModelRegenerates, Is
      <4> QED BY <4>1 DEF TreesFit
    <3> QED BY <3>1, Zenon DEF WellFormed
  <2>8. Rooted(n)
    BY <2>6, <2>7, NumberMatchKeepsTree, RootedStays DEF Rooted
  <2> HIDE DEF n
  <2>9. step \in Steps \ {"images", "attach"}
    BY DEF Steps
  <2> HIDE DEF step
  <2> QED BY <1>2, <2>4, <2>8, <2>9, WorkingKeepsTrees
<1> HIDE DEF step, valid
<1> QED BY <1>1, <1>2, RejectKeepsTrees

\* A picture is looked up and its asset written where the record is.
LEMMA FindImageKeepsTrees ==
    ASSUME TreesFit, NEW r \in Requests, FindImage(r) PROVE TreesFit'
<1> DEFINE d == todo[r]
           p == CHOOSE q \in d : \A x \in d : Len(q) <= Len(x)
           step == IF d # {p} THEN "images" ELSE IF op[r].temp THEN "done" ELSE "write"
<1>1. PICK found \in Library \cup {"null"} :
         \/ Reject(r)
         \/ /\ found = "null" \/ IsRecord(work[r], p)
            /\ work' = [work EXCEPT ![r] = ApplySlot(work[r], p, found)]
            /\ todo' = [todo EXCEPT ![r] = d \ {p}]
            /\ Goto(r, step) /\ UNCHANGED <<op, base, document>>
  BY DEF FindImage
<1> DEFINE n == ApplySlot(work[r], p, found)
<1>2. CASE /\ found = "null" \/ IsRecord(work[r], p)
           /\ work' = [work EXCEPT ![r] = n]
           /\ todo' = [todo EXCEPT ![r] = d \ {p}]
           /\ Goto(r, step) /\ UNCHANGED <<op, base, document>>
  <2>1. TreeFits(op[r], "images", base[r], work[r], d)
    BY DEF FindImage, TreesFit
  <2>2. Rooted(work[r]) /\ d \subseteq Seq(STRING) /\ d # {}
    BY <2>1 DEF TreeFits
  <2> HIDE DEF p
  <2>3. Rooted(n)
    BY <1>2, <2>2, SlotKeepsTree, RootedStays DEF Rooted
  <2> HIDE DEF n
  <2>4. step \in Steps /\ step # "attach" /\ (step = "images" => d \ {p} # {})
    BY <2>2 DEF Steps
  <2>5. CopyMoves(r, step, base[r], n, d \ {p}) /\ row' = row /\ unsettled' = unsettled
    <3>1. base = [base EXCEPT ![r] = base[r]]
      BY DEF TreesFit, CopyShapes
    <3> QED BY <1>2, <3>1 DEF CopyMoves, Goto, document
  <2> HIDE DEF step
  <2>6. TreeFits(op[r], step, base[r], n, d \ {p})
    BY <2>1, <2>2, <2>3, <2>4 DEF TreeFits
  <2>7. RowTyped' /\ unsettled' \in BOOLEAN
    BY <2>5 DEF TreesFit, RowTyped
  <2> QED BY <2>5, <2>6, <2>7, MovingKeepsTrees
<1> QED BY <1>1, <1>2, RejectKeepsTrees

\* A picture of a save is attached where its record is.
LEMMA AttachImageKeepsTrees ==
    ASSUME TreesFit, NEW r \in Requests, AttachImage(r) PROVE TreesFit'
<1> DEFINE o == op[r]
           w == work[r]
           d == todo[r]
           i == CHOOSE j \in DOMAIN o.images :
                   /\ o.images[j].path \in d
                   /\ \A k \in DOMAIN o.images : o.images[k].path \in d => j <= k
           p == o.images[i].path
           next == IF o.images[i].key # "" THEN ApplyUserUploadedImage(w, p, o.images[i].key)
                   ELSE ApplyLibraryImage(w, p, o.images[i].asset)
           n == IF d = {p} THEN Validated(next, Template.lineart) ELSE next
           step == IF d = {p} THEN "write" ELSE "attach"
<1>1. pc[r] = "attach" /\ WellFormed(o) /\ TreeFits(o, "attach", base[r], w, d)
  BY DEF AttachImage, TreesFit
<1>2. o.kind = "save" /\ d # {} /\ d \subseteq ImagePaths(o) /\ Rooted(w) /\ d \subseteq Seq(STRING)
  BY <1>1 DEF TreeFits
<1>3. IsList(o.images) /\ \A k \in DOMAIN o.images : o.images[k].path \in DOMAIN SlotNames
  BY <1>1, <1>2, SaveIsWellFormed
<1>4. i \in DOMAIN o.images /\ p \in d
  BY <1>2, <1>3, FirstImage
<1>5. \/ Reject(r)
      \/ /\ IsRecord(w, p) /\ work' = [work EXCEPT ![r] = n]
         /\ todo' = [todo EXCEPT ![r] = d \ {p}]
         /\ Goto(r, step) /\ UNCHANGED <<op, base, document>>
  BY DEF AttachImage
<1> HIDE DEF i
<1>6. CASE /\ IsRecord(w, p) /\ work' = [work EXCEPT ![r] = n]
           /\ todo' = [todo EXCEPT ![r] = d \ {p}]
           /\ Goto(r, step) /\ UNCHANGED <<op, base, document>>
  <2>1. p \in DOMAIN SlotNames
    BY <1>3, <1>4
  <2> HIDE DEF w, p
  <2>2. /\ KeepsTree(w, ApplyUserUploadedImage(w, p, o.images[i].key))
        /\ KeepsTree(w, ApplyLibraryImage(w, p, o.images[i].asset))
    BY <1>2, <1>6, <2>1, ImageKeepsTree DEF Rooted
  <2>3. Rooted(next)
    <3>1. KeepsTree(w, next)
      BY <2>2
    <3> HIDE DEF next
    <3> QED BY <1>2, <3>1, RootedStays
  <2> HIDE DEF next
  <2>4. Rooted(n)
    BY <2>3, ValidatedIsRooted
  <2> HIDE DEF n
  <2>5. CopyMoves(r, step, base[r], n, d \ {p}) /\ row' = row /\ unsettled' = unsettled
    <3>1. base = [base EXCEPT ![r] = base[r]]
      BY DEF TreesFit, CopyShapes
    <3> QED BY <1>6, <3>1 DEF CopyMoves, Goto, document
  <2>6. step \in {"write", "attach"} /\ (step = "attach" => d \ {p} # {})
    BY <1>4
  <2>7. {"write", "attach"} \subseteq Steps
    BY DEF Steps
  <2> HIDE DEF step, o
  <2>8. TreeFits(o, step, base[r], n, d \ {p})
    BY <1>1, <1>2, <2>4, <2>6, <2>7 DEF TreeFits
  <2>9. RowTyped' /\ unsettled' \in BOOLEAN
    BY <2>5 DEF TreesFit, RowTyped
  <2> QED BY <2>5, <2>8, <2>9, MovingKeepsTrees DEF o
<1> QED BY <1>5, <1>6, RejectKeepsTrees

\* So is the one that replaces a picture.
LEMMA CheckAssetKeepsTrees ==
    ASSUME TreesFit, NEW r \in Requests, CheckAsset(r) PROVE TreesFit'
<1> DEFINE p == op[r].images[1].path
           n == ApplyLibraryImage(base[r], p, op[r].images[1].asset)
<1>1. \/ Reject(r)
      \/ /\ IsRecord(base[r], p) /\ work' = [work EXCEPT ![r] = n] /\ Goto(r, "write")
         /\ UNCHANGED <<op, base, todo, document>>
  BY DEF CheckAsset
<1>2. p \in DOMAIN SlotNames
  <2>1. op[r].kind = "replace" /\ WellFormed(op[r])
    BY DEF CheckAsset, Is, TreesFit
  <2> QED BY <2>1, ReplaceIsWellFormed
<1>3. Rooted(base[r])
  BY DEF TreesFit, TreeFits
<1> HIDE DEF p
<1>4. IsRecord(base[r], p) => Rooted(n)
  BY <1>2, <1>3, ImageKeepsTree, RootedStays DEF Rooted
<1> HIDE DEF n
<1>5. "write" \in Steps \ {"images", "attach"}
  BY DEF Steps
<1> QED BY <1>1, <1>4, <1>5, RejectKeepsTrees, WorkingKeepsTrees

\* The database takes no array that leaves a position out.
LEMMA WriteKeepsTrees ==
    ASSUME TreesFit, NEW r \in Requests, Write(r) PROVE TreesFit'
<1> DEFINE n == StripTransient(work[r])
<1>1. Rooted(work[r]) /\ Gapless(DOMAIN work[r])
  BY DEF Write, TreesFit, TreeFits
<1>2. Rooted(n) /\ Gapless(DOMAIN n)
  BY <1>1, StripKeepsTree, StripIsRooted DEF Rooted, KeepsTree
<1>3. /\ row'.structure = n /\ DOMAIN row' = DOMAIN row
      /\ row'.status \in {"GENERATED", row.status}
  BY DEF Write, TreesFit, RowTyped
<1> HIDE DEF n
<1>4. RowTyped'
  BY <1>2, <1>3 DEF TreesFit, RowTyped, Statuses
<1>5. unsettled' \in BOOLEAN /\ "done" \in Steps \ {"images", "attach"}
  BY DEF Write, TreesFit, Steps
<1> QED BY <1>4, <1>5, StandingKeepsTrees DEF Write

\* Uploads, exceptions and renders change no copy.
LEMMA OthersKeepTrees ==
    ASSUME TreesFit, NEW r \in Requests, UploadImage(r) \/ Throw(r) \/ RenderStep(r)
    PROVE  TreesFit'
<1> DEFINE Places == Steps \ {"images", "attach"}
<1>1. {"done", "browser", "newPage", "capture", "store", "output", "complete", "catch", "failed",
       "post"} \subseteq Places
  BY DEF Steps, RenderSteps
<1> HIDE DEF Places
<1>2. CASE UploadImage(r)
  BY <1>1, <1>2, LeavingKeepsTrees DEF UploadImage, Places
<1>3. CASE Throw(r)
  BY <1>3, RejectKeepsTrees DEF Throw
<1>4. CASE MarkRendering(r) \/ Complete(r)
  <2>1. \E step \in {"browser", "done"}, s \in {"RENDERING", "COMPLETED"} :
            SetStatus(s) /\ Goto(r, step) /\ UNCHANGED copies /\ UNCHANGED unsettled
    BY <1>4 DEF MarkRendering, Complete
  <2>2. {"RENDERING", "COMPLETED"} \subseteq Statuses
    BY DEF Statuses
  <2>3. RowTyped' /\ unsettled' \in BOOLEAN
    BY <2>1, <2>2, StatusKeepsRow DEF TreesFit
  <2> QED BY <1>1, <2>1, <2>3, StandingKeepsTrees DEF Places
<1>5. CASE AskBrowser(r) \/ OpenPage(r) \/ Refused(r) \/ Capture(r)
  <2>1. \E step \in {"newPage", "capture", "catch", "store", "post", "done"} :
            Goto(r, step) /\ UNCHANGED copies /\ UNCHANGED document
    BY <1>5 DEF AskBrowser, OpenPage, Refused, Capture
  <2> QED BY <1>1, <2>1, LeavingKeepsTrees DEF Places, document
<1>6. CASE StoreFile(r) \/ RecordOutput(r) \/ RenderThrows(r) \/ PostMedia(r)
  <2>1. \E step \in {"output", "complete", "catch", "done"} :
            Goto(r, step) /\ UNCHANGED copies /\ UNCHANGED row /\ UNCHANGED unsettled
    BY <1>6 DEF StoreFile, RecordOutput, RenderThrows, PostMedia, document
  <2> QED BY <1>1, <2>1, LeavingKeepsTrees DEF Places
<1>7. CASE MarkFailed(r)
  <2>1. Goto(r, "failed") /\ UNCHANGED copies
    BY <1>7 DEF MarkFailed
  <2>2. \/ UNCHANGED <<row, unsettled>>
        \/ SetStatus("FAILED") /\ UNCHANGED unsettled
        \/ unsettled' = TRUE /\ UNCHANGED row
    BY <1>7, Zenon DEF MarkFailed
  <2>3. "FAILED" \in Statuses
    BY DEF Statuses
  <2>4. RowTyped'
    BY <2>2, <2>3, StatusKeepsRow DEF TreesFit, RowTyped
  <2>5. unsettled' \in BOOLEAN
    BY <2>2 DEF TreesFit
  <2> QED BY <1>1, <2>1, <2>4, <2>5, StandingKeepsTrees DEF Places
<1> QED BY <1>2, <1>3, <1>4, <1>5, <1>6, <1>7 DEF RenderStep

\* Every step keeps the structures together.
LEMMA TreesKept == TreesFit /\ [Next]_vars => TreesFit'
<1> SUFFICES ASSUME TreesFit, [Next]_vars PROVE TreesFit'
  OBVIOUS
<1>1. CASE UNCHANGED worksheetVars
  BY <1>1 DEF TreesFit, CopyShapes, RowTyped, worksheetVars, document
<1>2. ASSUME NEW r \in Requests, WorksheetStep(r) PROVE TreesFit'
  BY <1>2, ReadForModelKeepsTrees, UpdateFieldKeepsTrees, ReadForSaveKeepsTrees,
     OtherReadsKeepTrees, ModelEditsKeepsTrees, ModelCorrectsKeepsTrees,
     ModelRegeneratesKeepsTrees, FindImageKeepsTrees, AttachImageKeepsTrees,
     CheckAssetKeepsTrees, WriteKeepsTrees, OthersKeepTrees DEF WorksheetStep
<1> QED BY <1>1, <1>2 DEF Next, vars

\* A request has made nothing of an empty object at first.
LEMMA TreesStart == Init => TreesFit
<1> SUFFICES ASSUME Init PROVE TreesFit
  OBVIOUS
<1> DEFINE e == Leaf("{}")
<1>1. Rooted(e) /\ Gapless(DOMAIN e)
  <2>1. IsTree(e) /\ DOMAIN e = {<<>>} /\ e[<<>>] = "{}"
    BY LeafHangs, Zenon
  <2>2. IsRecord(e, <<>>)
    BY <2>1, Zenon DEF IsRecord, Has
  <2> QED BY <2>1, <2>2, Zenon DEF Rooted, IsTree
<1> HIDE DEF e
<1>2. PICK s \in Scenarios : op = s.worksheet
  BY DEF Init
<1>3. /\ pc = [r \in Requests |-> IF op[r].kind = "none" THEN "done" ELSE "begin"]
      /\ base = [r \in Requests |-> e] /\ work = base
      /\ todo = [r \in Requests |-> {}] /\ unsettled = FALSE
      /\ row = [structure |-> Stored, request |-> "first", status |-> "GENERATED"]
  BY Zenon DEF Init, WorksheetInit, e
<1>4. CopyShapes
  BY <1>3 DEF CopyShapes
<1>5. RowTyped
  <2>1. IsTree(Stored) /\ IsRecord(Stored, <<>>)
    BY DocumentAssumption, Zenon DEF Accepts
  <2>2. /\ DOMAIN row = {"structure", "request", "status"} /\ row.status \in Statuses
        /\ row.structure = Stored
    BY <1>3 DEF Statuses
  <2> QED BY <2>1, <2>2 DEF RowTyped, Rooted, IsTree
<1>6. ASSUME NEW r \in Requests
      PROVE  WellFormed(op[r]) /\ TreeFits(op[r], pc[r], base[r], work[r], todo[r])
  <2>1. WellFormed(op[r])
    BY <1>2, ScenarioAssumption
  <2>2. pc[r] \in {"done", "begin"} /\ base[r] = e /\ work[r] = e /\ todo[r] = {}
    BY <1>3
  <2>3. {"done", "begin"} \subseteq Steps
    BY DEF Steps
  <2> QED BY <1>1, <2>1, <2>2, <2>3 DEF TreeFits
<1> QED BY <1>3, <1>4, <1>5, <1>6 DEF TreesFit

\* What these say together.
LEMMA TreesAreTyped == TreesFit /\ OutputsFollow => WorksheetTypeOK
BY DEF TreesFit, TreeFits, CopyShapes, RowTyped, OutputsFollow, Rooted, IsTree, WorksheetTypeOK

---------------------------------------------------------------------------
(* The types of the pool and of the decks. *)

\* Each of them keeps the types of the pool.
LEMMA UsingKeepsPoolTyped ==
    ASSUME PoolTypeOK, PoolInv, UsesPool \/ (\E C : ReleaseAll(C)) \/ UNCHANGED pool
    PROVE  PoolTypeOK'
<1> DEFINE States == {"idle", "waiting", "given", "page", "refused"}
           M == 0..MaxBrowsers
<1>0. /\ MaxBrowsers \in Nat \ {0} /\ 0 \in M /\ 1 \in M /\ Browsers \subseteq M
      /\ client \in [Clients -> [at : States, of : M]]
  BY PoolAssumption DEF PoolTypeOK, Browsers, ClientStates
<1>1. CASE UNCHANGED pool
  BY <1>1 DEF pool, PoolTypeOK
<1>2. ASSUME NEW c, NEW b \in M, NEW a \in States, client' = [client EXCEPT ![c] = [at |-> a, of |-> b]]
      PROVE  client' \in [Clients -> ClientStates]
  <2>1. [at |-> a, of |-> b] \in [at : States, of : M]
    OBVIOUS
  <2> QED BY <1>0, <1>2, <2>1 DEF ClientStates
<1>3. ASSUME NEW c, GetBrowser(c) PROVE PoolTypeOK'
  <2>1. /\ browser \in M /\ promise \in [state : {"none", "pending", "resolved"}, of : M]
        /\ UNCHANGED <<browser, live, started>>
    BY <1>3 DEF GetBrowser, PoolTypeOK
  <2>2. promise.of \in M
    BY <2>1
  <2>3. \E b \in M : \E a \in {"given", "waiting"} : client' = [client EXCEPT ![c] = [at |-> a, of |-> b]]
    BY <1>0, <1>3, <2>1, <2>2 DEF GetBrowser, Give
  <2>4. client' \in [Clients -> ClientStates]
    BY <1>2, <2>3
  <2>5. promise' \in {promise, [state |-> "pending", of |-> 0]}
    BY <1>3 DEF GetBrowser
  <2>6. launching' \in M
    <3>1. PoolInv'
      BY <1>3, AskingKeepsPool
    <3> QED BY <1>0, <3>1 DEF PoolInv
  <2>7. promise' \in [state : {"none", "pending", "resolved"}, of : M]
    BY <1>0, <2>1, <2>5
  <2> QED BY <2>1, <2>4, <2>6, <2>7 DEF PoolTypeOK
<1>4. ASSUME NEW c, NewPage(c) \/ Release(c) PROVE PoolTypeOK'
  <2>1. \/ client' = [client EXCEPT ![c] = [at |-> "idle", of |-> 0]]
        \/ \E a \in {"page", "refused"} : client' = [client EXCEPT ![c].at = a]
    BY <1>4 DEF NewPage, Release, Idle
  <2>2. ASSUME NEW a \in {"page", "refused"}, client' = [client EXCEPT ![c].at = a]
        PROVE  client' \in [Clients -> ClientStates]
    <3>1. \A d \in Clients : [client[d] EXCEPT !.at = a] \in [at : States, of : M]
      <4> SUFFICES ASSUME NEW d \in Clients PROVE [client[d] EXCEPT !.at = a] \in [at : States, of : M]
        OBVIOUS
      <4>1. client[d] \in [at : States, of : M]
        BY <1>0
      <4> QED BY <4>1
    <3> QED BY <1>0, <2>2, <3>1 DEF ClientStates
  <2>3. client' \in [Clients -> ClientStates]
    BY <1>0, <1>2, <2>1, <2>2
  <2> QED BY <1>4, <2>3 DEF NewPage, Release, PoolTypeOK
<1>5. ASSUME NEW C, ReleaseAll(C) PROVE PoolTypeOK'
  <2>1. [at |-> "idle", of |-> 0] \in [at : States, of : M]
    BY <1>0
  <2>2. client' = [c \in Clients |-> IF c \in C THEN [at |-> "idle", of |-> 0] ELSE client[c]]
    BY <1>5 DEF ReleaseAll, Idle
  <2>3. client' \in [Clients -> ClientStates]
    BY <1>0, <2>1, <2>2 DEF ClientStates
  <2> QED BY <1>5, <2>3 DEF ReleaseAll, PoolTypeOK
<1> QED BY <1>1, <1>3, <1>4, <1>5 DEF UsesPool

\* So does a launch that ends, or the browser.
LEMMA PoolStepKeepsPoolTyped ==
    ASSUME PoolTypeOK, PoolInv, PoolStep
    PROVE  PoolTypeOK'
<1> DEFINE States == {"idle", "waiting", "given", "page", "refused"}
           M == 0..MaxBrowsers
<1>0. /\ MaxBrowsers \in Nat \ {0} /\ 0 \in M /\ 1 \in M
      /\ client \in [Clients -> [at : States, of : M]]
  BY PoolAssumption DEF PoolTypeOK, ClientStates
<1>1. launching' \in M
  <2>1. PoolInv'
    BY PoolStepKeepsPool
  <2> QED BY <1>0, <2>1 DEF PoolInv
<1>2. ASSUME NEW b \in M, NEW a \in States, Tell([at |-> a, of |-> b])
      PROVE  client' \in [Clients -> ClientStates]
  <2>1. [at |-> a, of |-> b] \in [at : States, of : M]
    OBVIOUS
  <2> QED BY <1>0, <1>2, <2>1 DEF Tell, ClientStates
<1>3. CASE Launched
  <2>1. started + 1 \in M /\ started + 1 \in Browsers
    BY <1>0, <1>3 DEF Launched, PoolTypeOK, Browsers
  <2>2. client' \in [Clients -> ClientStates]
    BY <1>2, <1>3, <2>1 DEF Launched
  <2>3. promise' \in [state : {"none", "pending", "resolved"}, of : M]
    BY <1>3, <2>1 DEF Launched
  <2> QED BY <1>1, <1>3, <2>1, <2>2, <2>3 DEF Launched, PoolTypeOK
<1>4. CASE LaunchFails
  <2>1. client' \in [Clients -> ClientStates]
    BY <1>0, <1>2, <1>4 DEF LaunchFails
  <2>2. promise' \in [state : {"none", "pending", "resolved"}, of : M]
    BY <1>0, <1>4 DEF LaunchFails, NoPromise
  <2> QED BY <1>1, <1>4, <2>1, <2>2 DEF LaunchFails, PoolTypeOK
<1>5. CASE Disconnect
  BY <1>5 DEF Disconnect, PoolTypeOK
<1>6. CASE Destroy
  <2>1. promise' \in [state : {"none", "pending", "resolved"}, of : M]
    BY <1>0, <1>6 DEF Destroy, NoPromise
  <2> QED BY <1>0, <1>6, <2>1 DEF Destroy, PoolTypeOK
<1> QED BY <1>3, <1>4, <1>5, <1>6 DEF PoolStep

\* Every step of the documents does.
LEMMA PoolTypedKept == PoolTypeOK /\ PoolInv /\ [Next]_vars => PoolTypeOK'
<1> SUFFICES ASSUME PoolTypeOK, PoolInv, [Next]_vars PROVE PoolTypeOK'
  OBVIOUS
<1>1. UNCHANGED vars => UNCHANGED pool
  BY DEF vars
<1>2. \/ UsesPool \/ (\E C : ReleaseAll(C)) \/ UNCHANGED pool
      \/ PoolStep
  BY <1>1, WorksheetUsesPool, DeckUsesPool DEF Next
<1> QED BY <1>2, UsingKeepsPoolTyped, PoolStepKeepsPoolTyped

\* The templates of what is stored exist, the one that is about to be too.
DecksTyped ==
    /\ at \in [DeckRequests -> DeckSteps] /\ jobs \in [DeckRequests -> [Pages -> JobStates]]
    /\ deck.template \in DeckTemplates /\ \A d \in created : d.template \in DeckTemplates
    /\ \A r \in DeckRequests : /\ left[r] \subseteq DOMAIN ask[r].images
                               /\ at[r] = "template" => ask[r].deck.template \in DeckTemplates
\* What a step of one request may do to its place, its images, its jobs and the row.
PlaceFits(r) ==
    \/ UNCHANGED at
    \/ \E step \in DeckSteps :
           DeckGoto(r, step) /\ (step = "template" => ask[r].deck.template \in DeckTemplates)
LeftFits(r) ==
    UNCHANGED left \/ \E D \in SUBSET DOMAIN ask[r].images : left' = [left EXCEPT ![r] = D]
JobsFit(r) ==
    UNCHANGED jobs \/ \E J \in [Pages -> JobStates] : jobs' = [jobs EXCEPT ![r] = J]
StoredFits == deck'.template \in DeckTemplates /\ \A d \in created' : d.template \in DeckTemplates
\* Such a step keeps the types.
LEMMA MovingKeepsDecksTyped ==
    ASSUME DraftsFit, DecksTyped, NEW r \in DeckRequests, UNCHANGED ask,
           PlaceFits(r), LeftFits(r), JobsFit(r), StoredFits
    PROVE  DecksTyped'
<1>1. /\ at' \in [DeckRequests -> DeckSteps]
      /\ \A q \in DeckRequests : at'[q] = "template" => ask[q].deck.template \in DeckTemplates
  <2>1. CASE UNCHANGED at
    BY <2>1 DEF DecksTyped
  <2>2. ASSUME NEW step \in DeckSteps, at' = [at EXCEPT ![r] = step],
               step = "template" => ask[r].deck.template \in DeckTemplates
        PROVE  /\ at' \in [DeckRequests -> DeckSteps]
               /\ \A q \in DeckRequests : at'[q] = "template" => ask[q].deck.template \in DeckTemplates
    BY <2>2 DEF DecksTyped
  <2> QED BY <2>1, <2>2 DEF PlaceFits, DeckGoto
<1>2. \A q \in DeckRequests : left'[q] \subseteq DOMAIN ask[q].images
  BY DEF LeftFits, DecksTyped, DraftsFit
<1>3. jobs' \in [DeckRequests -> [Pages -> JobStates]]
  BY DEF JobsFit, DecksTyped
<1> QED BY <1>1, <1>2, <1>3 DEF StoredFits, DecksTyped

\* What the steps of a deck have in common, seen from its types.
LEMMA TypeFrames ==
    ASSUME DraftsFit, DecksTyped, NEW r \in DeckRequests
    PROVE  /\ DeckReject(r) => DecksTyped'
           /\ \A step \in DeckSteps \ {"template"} : Proceed(r, step) => DecksTyped'
           /\ \A cards : \A step \in DeckSteps \ {"template"} : Draft(r, cards, step) => DecksTyped'
           /\ \A cards : \A images \in SUBSET DOMAIN ask[r].images :
                  \A step \in DeckSteps \ {"template"} : ReadDeck(r, cards, images, step) => DecksTyped'
<1>1. UNCHANGED <<deck, created>> => StoredFits
  BY DEF StoredFits, DecksTyped
<1>2. UNCHANGED jobs => JobsFit(r)
  BY DEF JobsFit
<1>3. UNCHANGED left => LeftFits(r)
  BY DEF LeftFits
<1>4. \A step \in DeckSteps \ {"template"} : DeckGoto(r, step) => PlaceFits(r)
  BY DEF PlaceFits
<1>5. "failed" \in DeckSteps \ {"template"}
  BY DEF DeckSteps
<1>6. ASSUME NEW step \in DeckSteps \ {"template"}, DeckReject(r) \/ Proceed(r, step) PROVE DecksTyped'
  <2>1. \E s \in DeckSteps \ {"template"} : DeckGoto(r, s)
    BY <1>5, <1>6 DEF DeckReject, Proceed
  <2>2. UNCHANGED <<ask, left, deck, created, jobs>>
    BY <1>6 DEF DeckReject, Proceed, drafts, deckRow
  <2>3. PlaceFits(r)
    BY <1>4, <2>1
  <2> QED BY <1>1, <1>2, <1>3, <2>2, <2>3, MovingKeepsDecksTyped
<1>7. ASSUME NEW cards, NEW step \in DeckSteps \ {"template"}, Draft(r, cards, step) PROVE DecksTyped'
  <2>1. DeckGoto(r, step) /\ UNCHANGED <<ask, left, deck, created, jobs>>
    BY <1>7 DEF Draft, deckRow
  <2> QED BY <1>1, <1>2, <1>3, <1>4, <2>1, MovingKeepsDecksTyped
<1>8. ASSUME NEW cards, NEW images \in SUBSET DOMAIN ask[r].images,
             NEW step \in DeckSteps \ {"template"}, ReadDeck(r, cards, images, step)
      PROVE  DecksTyped'
  <2>1. DeckGoto(r, step) /\ UNCHANGED <<ask, deck, created, jobs>> /\ left' = [left EXCEPT ![r] = images]
    BY <1>8 DEF ReadDeck, deckRow
  <2>2. LeftFits(r)
    BY <2>1 DEF LeftFits
  <2> QED BY <1>1, <1>2, <1>4, <2>1, <2>2, MovingKeepsDecksTyped
<1> QED BY <1>5, <1>6, <1>7, <1>8

\* An edit and a save.
LEMMA EditKeepsDecksTyped ==
    ASSUME DraftsFit, DecksTyped, NEW r \in DeckRequests,
           \/ ReadForEdit(r) \/ DeckModel(r) \/ Retrieve(r) \/ SaveEdits(r)
           \/ UploadPicture(r) \/ DeckThrows(r) \/ StartRender(r) \/ PostFails(r) \/ FinishRender(r)
    PROVE  DecksTyped'
<1>1. {"model", "retrieve", "write", "attach", "upload", "rendering", "done"}
        \subseteq DeckSteps \ {"template"}
  BY DEF DeckSteps
<1> DEFINE Places == DeckSteps \ {"template"}
<1>2. CASE ReadForEdit(r) \/ DeckModel(r) \/ Retrieve(r)
  <2>1. \/ DeckReject(r) \/ Proceed(r, "retrieve")
        \/ \E cards : Draft(r, cards, "write") \/ ReadDeck(r, cards, {}, "model")
    BY <1>2 DEF ReadForEdit, DeckModel, Retrieve
  <2>2. {} \in SUBSET DOMAIN ask[r].images
    OBVIOUS
  <2> QED BY <1>1, <2>1, <2>2, TypeFrames
<1>3. CASE SaveEdits(r)
  <2>1. PICK images : /\ images = Pictures(deck.cards, ask[r].images)
                      /\ ReadDeck(r, SavedTexts(deck.cards, ask[r].fields), images,
                                  IF images = {} THEN "write" ELSE "attach")
    BY <1>3 DEF SaveEdits
  <2>2. images \in SUBSET DOMAIN ask[r].images
    BY <2>1 DEF Pictures
  <2> QED BY <1>1, <2>1, <2>2, TypeFrames
<1>4. CASE UploadPicture(r) \/ DeckThrows(r) \/ StartRender(r) \/ PostFails(r) \/ FinishRender(r)
  <2>1. DeckReject(r) \/ \E step \in {"upload", "rendering", "done"} : Proceed(r, step)
    BY <1>4 DEF UploadPicture, DeckThrows, StartRender, PostFails, FinishRender
  <2> QED BY <1>1, <2>1, TypeFrames
<1> QED BY <1>2, <1>3, <1>4

\* A picture is attached, an upload stored, a deck written.
LEMMA StoreKeepsDecksTyped ==
    ASSUME DraftsFit, DecksTyped, NEW r \in DeckRequests,
           \/ AttachPicture(r) \/ StoreUpload(r) \/ UpdateCards(r) \/ FindDeckTemplate(r)
           \/ SaveGenerated(r)
    PROVE  DecksTyped'
<1>1. {"write", "attach", "done"} \subseteq DeckSteps \ {"template"} /\ "template" \in DeckSteps
  BY DEF DeckSteps
<1>2. UNCHANGED <<deck, created>> => StoredFits
  BY DEF StoredFits, DecksTyped
<1>3. (UNCHANGED jobs => JobsFit(r)) /\ (UNCHANGED left => LeftFits(r))
  BY DEF JobsFit, LeftFits
<1>4. \A step \in {"write", "attach", "done"} : DeckGoto(r, step) => PlaceFits(r)
  BY <1>1 DEF PlaceFits
<1>5. CASE AttachPicture(r)
  <2>1. \/ DeckReject(r)
        \/ \E i : \E step \in {"write", "attach"} :
               left' = [left EXCEPT ![r] = left[r] \ {i}] /\ DeckGoto(r, step)
               /\ UNCHANGED <<ask, deck, created, jobs>>
    BY <1>5 DEF AttachPicture, deckRow
  <2>2. ASSUME NEW i, NEW step \in {"write", "attach"},
               left' = [left EXCEPT ![r] = left[r] \ {i}], DeckGoto(r, step),
               UNCHANGED <<ask, deck, created, jobs>>
        PROVE  DecksTyped'
    <3>1. left[r] \ {i} \in SUBSET DOMAIN ask[r].images
      BY DEF DecksTyped
    <3>2. LeftFits(r)
      BY <2>2, <3>1 DEF LeftFits
    <3> QED BY <1>2, <1>3, <1>4, <2>2, <3>2, MovingKeepsDecksTyped
  <2> QED BY <2>1, <2>2, TypeFrames
<1>6. CASE StoreUpload(r)
  <2>1. DeckGoto(r, "done") /\ UNCHANGED <<ask, left, deck, created, jobs>>
    BY <1>6 DEF StoreUpload, drafts
  <2> QED BY <1>2, <1>3, <1>4, <2>1, MovingKeepsDecksTyped
<1>7. CASE UpdateCards(r)
  <2>1. /\ DeckGoto(r, "done") /\ UNCHANGED <<ask, left, created, jobs>>
        /\ deck' = [deck EXCEPT !.cards = Persistable(draft[r])]
    BY <1>7 DEF UpdateCards, drafts
  <2>2. deck = [template |-> deck.template, cards |-> deck.cards]
    BY DEF DraftsFit, IsDeck
  <2>3. deck'.template = deck.template
    BY <2>1, <2>2
  <2>4. StoredFits
    BY <2>1, <2>3 DEF StoredFits, DecksTyped
  <2> QED BY <1>3, <1>4, <2>1, <2>4, MovingKeepsDecksTyped
<1>8. CASE FindDeckTemplate(r)
  <2>1. \/ DeckReject(r)
        \/ ask[r].deck.template \in DeckTemplates /\ Proceed(r, "template")
    BY <1>8 DEF FindDeckTemplate
  <2>2. ASSUME ask[r].deck.template \in DeckTemplates, Proceed(r, "template") PROVE DecksTyped'
    <3>1. UNCHANGED <<ask, left, deck, created, jobs>>
      BY <2>2 DEF Proceed, drafts, deckRow
    <3>2. PlaceFits(r)
      BY <1>1, <2>2 DEF Proceed, PlaceFits
    <3> QED BY <1>2, <1>3, <3>1, <3>2, MovingKeepsDecksTyped
  <2> QED BY <2>1, <2>2, TypeFrames
<1>9. CASE SaveGenerated(r)
  <2> DEFINE d == ask[r].deck
             saved == [d EXCEPT !.cards = Persistable(d.cards)]
  <2>1. /\ at[r] = "template" /\ DeckGoto(r, "done") /\ UNCHANGED <<ask, left, jobs>>
        /\ \/ deck' = saved /\ UNCHANGED created
           \/ created' = created \cup {saved} /\ UNCHANGED deck
    BY <1>9 DEF SaveGenerated, drafts
  <2>2. IsDeck(d) /\ d.template \in DeckTemplates
    BY <2>1 DEF DraftsFit, DraftFits, StepFits, WellAsked, DecksTyped
  <2>3. d = [template |-> d.template, cards |-> d.cards]
    BY <2>2 DEF IsDeck
  <2> HIDE DEF d
  <2>4. saved.template \in DeckTemplates
    BY <2>2, <2>3
  <2> HIDE DEF saved
  <2>5. StoredFits
    BY <2>1, <2>4 DEF StoredFits, DecksTyped
  <2> QED BY <1>3, <1>4, <2>1, <2>5, MovingKeepsDecksTyped
<1> QED BY <1>5, <1>6, <1>7, <1>8, <1>9

\* The captures of a render.
LEMMA CaptureKeepsDecksTyped ==
    ASSUME DraftsFit, DecksTyped, NEW r \in DeckRequests,
           \/ TakeCard(r) \/ TakeNext(r)
           \/ \E p \in Pages : \/ AskSecondPage(r, p) \/ OpenCard(r, p) \/ CaptureFails(r, p)
                               \/ CaptureCard(r, p) \/ SaveFile(r, p)
    PROVE  DecksTyped'
<1>0. {"browser", "newPage", "capture", "saved", "holding", "save", "lost"} \subseteq JobStates
      /\ "failed" \in DeckSteps \ {"template"} /\ jobs[r] \in [Pages -> JobStates]
  BY DEF JobStates, DeckSteps, DecksTyped
<1>1. UNCHANGED <<deck, created>> => StoredFits
  BY DEF StoredFits, DecksTyped
<1>2. (UNCHANGED left => LeftFits(r)) /\ (UNCHANGED at => PlaceFits(r))
  BY DEF PlaceFits, LeftFits
<1>3. ASSUME NEW J \in [Pages -> JobStates], jobs' = [jobs EXCEPT ![r] = J],
             UNCHANGED at \/ DeckGoto(r, "failed"), UNCHANGED <<ask, left, deck, created>>
      PROVE  DecksTyped'
  <2>1. PlaceFits(r)
    BY <1>0, <1>3 DEF PlaceFits
  <2>2. JobsFit(r)
    BY <1>3 DEF JobsFit
  <2> QED BY <1>1, <1>2, <1>3, <2>1, <2>2, MovingKeepsDecksTyped
<1>4. ASSUME NEW p, NEW state \in JobStates, Job(r, p, state), UNCHANGED <<at, ask, left, deck, created>>
      PROVE  DecksTyped'
  <2> DEFINE J == [jobs[r] EXCEPT ![p] = state]
  <2>1. J \in [Pages -> JobStates]
    BY <1>0
  <2>2. jobs' = [jobs EXCEPT ![r] = J]
    BY <1>4 DEF Job
  <2> HIDE DEF J
  <2> QED BY <1>3, <1>4, <2>1, <2>2
<1>5. ASSUME NEW p, Lose(r, p) PROVE DecksTyped'
  <2> DEFINE J == [q \in Pages |-> IF q = p \/ jobs[r][q] = "holding" THEN "lost" ELSE jobs[r][q]]
  <2>1. J \in [Pages -> JobStates]
    BY <1>0
  <2>2. jobs' = [jobs EXCEPT ![r] = J] /\ DeckGoto(r, "failed") /\ UNCHANGED <<ask, left, deck, created>>
    BY <1>5 DEF Lose, drafts, deckRow
  <2> HIDE DEF J
  <2> QED BY <1>3, <2>1, <2>2
<1>6. CASE TakeCard(r) \/ TakeNext(r)
  <2>1. \E p : Job(r, p, "newPage") /\ UNCHANGED <<at, ask, left, deck, created>>
    BY <1>6 DEF TakeCard, TakeNext, AskPage, drafts, deckRow
  <2> QED BY <1>0, <1>4, <2>1
<1>7. ASSUME NEW p \in Pages, AskSecondPage(r, p) \/ OpenCard(r, p) PROVE DecksTyped'
  <2>1. \E state \in {"newPage", "capture"} : Job(r, p, state) /\ UNCHANGED <<at, ask, left, deck, created>>
    BY <1>7 DEF AskSecondPage, AskPage, OpenCard, drafts, deckRow
  <2> QED BY <1>0, <1>4, <2>1
<1>8. ASSUME NEW p \in Pages, CaptureFails(r, p) PROVE DecksTyped'
  BY <1>5, <1>8 DEF CaptureFails
<1>9. ASSUME NEW p \in Pages, CaptureCard(r, p) PROVE DecksTyped'
  <2> DEFINE H == [[jobs[r] EXCEPT ![p] = "holding"] EXCEPT ![Pdf] = "browser"]
             S == [q \in Pages |->
                      IF q = p THEN IF ask[r].kind = "render" THEN "save" ELSE "saved"
                      ELSE IF jobs[r][q] = "holding" THEN "saved" ELSE jobs[r][q]]
  <2>1. H \in [Pages -> JobStates] /\ S \in [Pages -> JobStates]
    BY <1>0
  <2>2. UNCHANGED <<at, ask, left, deck, created>>
    BY <1>9 DEF CaptureCard, drafts, deckRow
  <2>3. \/ jobs' = [jobs EXCEPT ![r][p] = "holding", ![r][Pdf] = "browser"]
        \/ jobs' = [jobs EXCEPT ![r] = S]
    BY <1>9 DEF CaptureCard
  <2>4. jobs' = [jobs EXCEPT ![r] = H] \/ jobs' = [jobs EXCEPT ![r] = S]
    <3>1. ASSUME jobs' = [jobs EXCEPT ![r][p] = "holding", ![r][Pdf] = "browser"]
          PROVE  jobs' = [jobs EXCEPT ![r] = H]
      <4>1. jobs \in [DeckRequests -> [Pages -> JobStates]]
        BY DEF DecksTyped
      <4> QED BY <3>1, <4>1
    <3> QED BY <2>3, <3>1
  <2> HIDE DEF H, S
  <2> QED BY <1>3, <2>1, <2>2, <2>4
<1>10. ASSUME NEW p \in Pages, SaveFile(r, p) PROVE DecksTyped'
  <2>1. \/ Lose(r, p)
        \/ Job(r, p, "saved") /\ UNCHANGED <<at, ask, left, deck, created>>
    BY <1>10 DEF SaveFile, drafts
  <2> QED BY <1>0, <1>4, <1>5, <2>1
<1> QED BY <1>6, <1>7, <1>8, <1>9, <1>10

\* Every step keeps the types of the decks.
LEMMA DecksTypedKept == DraftsFit /\ DecksTyped /\ [Next]_vars => DecksTyped'
<1> SUFFICES ASSUME DraftsFit, DecksTyped, [Next]_vars PROVE DecksTyped'
  OBVIOUS
<1>1. CASE UNCHANGED deckVars
  BY <1>1 DEF DecksTyped, deckVars
<1>2. ASSUME NEW r \in DeckRequests, DeckStep(r) PROVE DecksTyped'
  BY <1>2, EditKeepsDecksTyped, StoreKeepsDecksTyped, CaptureKeepsDecksTyped
     DEF DeckStep, DeckRenderStep
<1> QED BY <1>1, <1>2 DEF Next, vars

\* Every variable has its type in every state: above all, the structure of a
\* request is a structure wherever it stands in its work, and the one that is
\* stored and those that are read leave no position of an array out, whatever
\* the client, the model and the searches send, in any number of requests.
THEOREM DocumentsAreTyped == Spec => []TypeOK
<1> DEFINE Inv == TreesFit /\ OutputsFollow /\ DraftsFit /\ DecksTyped /\ PoolInv /\ PoolTypeOK
<1>1. Init => Inv
  <2> SUFFICES ASSUME Init PROVE Inv
    OBVIOUS
  <2>1. TreesFit /\ DraftsFit /\ PoolInv
    BY TreesStart, DraftsStart, PoolStarts DEF Init
  <2>2. OutputsFollow
    BY DEF Init, WorksheetInit, OutputsFollow
  <2>3. DecksTyped
    <3>1. /\ at \in [DeckRequests -> {"done", "begin"}]
          /\ jobs = [r \in DeckRequests |-> NoJobs] /\ deck = FirstDeck /\ created = {}
          /\ \A r \in DeckRequests : left[r] = {}
      BY DEF Init, DeckInit
    <3>2. FirstDeck.template \in DeckTemplates
      BY DeckAssumption
    <3>3. {"done", "begin"} \subseteq DeckSteps
      BY DEF DeckSteps
    <3>4. NoJobs \in [Pages -> JobStates]
      BY DEF NoJobs, JobStates
    <3> QED BY <3>1, <3>2, <3>3, <3>4 DEF DecksTyped
  <2>4. PoolTypeOK
    <3>1. MaxBrowsers \in Nat
      BY PoolAssumption
    <3> QED BY <3>1 DEF Init, PoolInit, PoolTypeOK, NoPromise, Idle, ClientStates
  <2> QED BY <2>1, <2>2, <2>3, <2>4
<1>2. Inv /\ [Next]_vars => Inv'
  BY TreesKept, OutputsKept, DraftsKept, DecksTypedKept, PoolInvKept, PoolTypedKept
<1>3. Inv => TypeOK
  <2>1. DraftsFit /\ DecksTyped => DeckTypeOK
    BY DEF DraftsFit, DecksTyped, IsDeck, DeckTypeOK
  <2> QED BY <2>1, TreesAreTyped DEF TypeOK
<1> QED BY <1>1, <1>2, <1>3, PTL DEF Spec

---------------------------------------------------------------------------
(* What is stored is sound: it conforms to the schema.                     *)

Schema == Template.schema
\* The names an asset, an upload or a client adds to a record.
AddedKeys == EnrichmentKeys \cup TransientKeys
\* A path of such a name.
IsAdded(x) == IsPath(x) /\ x # <<>> /\ Key(x) \in AddedKeys
\* What a structure has at a path stands in another as far as its node looks at it.
KeepsFields(t, u, p) ==
    /\ Has(t, p) /\ Has(u, p) /\ u[p] = t[p]
    /\ \A k \in Schema[SchemaPath(p)].required : Has(t, Append(p, k)) => Has(u, Append(p, k))
    /\ Schema[SchemaPath(p)].type = "object" /\ Schema[SchemaPath(p)].closed =>
           \A q \in Children(u, p) :
               q \in DOMAIN t \/ SchemaPath(q) \in DOMAIN Schema \/ Key(q) \in EnrichmentKeys
    /\ IsArray(t, p) => Children(u, p) = Children(t, p)
\* Every path of a structure that the schema declares conforms, but for the overrides.
FitsSchema(t) ==
    \A p \in DOMAIN t : SchemaPath(p) \in DOMAIN Schema =>
        Conforms(t, p, Schema, TRUE) \/ (p \in Overrides /\ IsText(t[p]))
Free == Overrides \ DOMAIN Schema
Sound(t) == FitsSchema(Prune(t, Free)) /\ ~HasBadQuery(t)

\* It conforms there as well.
LEMMA KeptFieldsConform ==
    ASSUME NEW t, NEW u, NEW p, KeepsFields(t, u, p), Conforms(t, p, Schema, TRUE)
    PROVE  Conforms(u, p, Schema, TRUE)
<1> DEFINE node == Schema[SchemaPath(p)]
<1>1. Has(t, p) /\ Has(u, p) /\ u[p] = t[p]
  BY DEF KeepsFields
<1>2. (IsRecord(t, p) => IsRecord(u, p)) /\ (IsArray(t, p) => IsArray(u, p))
  BY <1>1, Zenon DEF IsRecord, IsArray
<1>3. CASE node.type = "object"
  <2>1. /\ IsRecord(t, p)
        /\ \A k \in node.required : Has(t, Append(p, k))
        /\ node.closed => \A q \in Children(t, p) :
               SchemaPath(q) \in DOMAIN Schema \/ Key(q) \in EnrichmentKeys
    BY <1>3 DEF Conforms
  <2>2. \A k \in node.required : Has(u, Append(p, k))
    BY <2>1 DEF KeepsFields
  <2>3. ASSUME node.closed, NEW q \in Children(u, p)
        PROVE  SchemaPath(q) \in DOMAIN Schema \/ Key(q) \in EnrichmentKeys
    <3>1. q \in DOMAIN t \/ SchemaPath(q) \in DOMAIN Schema \/ Key(q) \in EnrichmentKeys
      BY <1>3, <2>3 DEF KeepsFields
    <3>2. q \in DOMAIN t => q \in Children(t, p)
      BY DEF Children
    <3> QED BY <2>1, <2>3, <3>1, <3>2
  <2> QED BY <1>2, <1>3, <2>1, <2>2, <2>3 DEF Conforms
<1>4. CASE node.type = "array"
  <2>1. IsArray(t, p) /\ Length(t, p) \in node.sizes
    BY <1>4 DEF Conforms
  <2>2. Elements(u, p) = Elements(t, p)
    BY <1>2, <2>1 DEF Elements, KeepsFields
  <2>3. Length(u, p) = Length(t, p)
    BY <2>2 DEF Length
  <2> QED BY <1>2, <1>4, <2>1, <2>3 DEF Conforms
<1>5. CASE node.type \notin {"object", "array"}
  BY <1>1, <1>5 DEF Conforms
<1> QED BY <1>3, <1>4, <1>5

\* No name that is added is a position,
LEMMA AddedNames ==
    /\ AddedKeys \subseteq STRING \ IndexKeys
    /\ \A i \in DOMAIN AliasKeys : AliasKeys[i] \in STRING \ (AddedKeys \cup IndexKeys)
<1>1. AddedKeys = {"assetId", "userUploadedKey", "userUploadedImages", "imageUrl", "assetUrl",
                   "signedUrl"}
  BY DEF AddedKeys, EnrichmentKeys, TransientKeys
<1>2. AddedKeys \subseteq STRING \ IndexKeys
  BY <1>1, OwnNamesAreNames
<1>3. ASSUME NEW i \in DOMAIN AliasKeys PROVE AliasKeys[i] \in STRING \ (AddedKeys \cup IndexKeys)
  <2>1. AliasKeys[i] \in {"imageQuery", "image_name", "imageName", "searchDescription"}
    BY DEF AliasKeys
  <2>2. AliasKeys[i] \in STRING \ IndexKeys
    BY LabelAssumption DEF OwnNames
  <2> QED BY <1>1, <2>1, <2>2
<1> QED BY <1>2, <1>3
\* and none is in a path that the schema declares.
LEMMA DeclaredIsPlain ==
    ASSUME NEW p \in Seq(STRING), SchemaPath(p) \in DOMAIN Schema,
           NEW x, IsAdded(x)
    PROVE  ~Within(x, p)
<1> SUFFICES ASSUME Within(x, p) PROVE FALSE
  OBVIOUS
<1>1. IsPath(p) /\ IsPath(x)
  BY SequenceIsPath DEF IsAdded
<1>2. Len(x) \in Nat /\ Len(x) # 0
  <2>1. PICK S : x \in Seq(S)
    BY <1>1 DEF IsPath
  <2> QED BY <2>1, EmptySeq DEF IsAdded
<1>3. Len(x) <= Len(p) /\ \A i \in 1..Len(x) : p[i] = x[i]
  BY <1>1, WithinMeans
<1>4. PICK n \in Nat : n = Len(x) /\ n \in 1..Len(p) /\ n \in 1..n
  BY <1>2, <1>3
<1>5. p[n] \in AddedKeys
  BY <1>3, <1>4 DEF IsAdded, Key
<1>6. p[n] \notin IndexKeys
  BY <1>5, AddedNames
<1>7. n \in DOMAIN p
  BY <1>4
<1>8. SchemaPath(p)[n] = p[n] /\ n \in DOMAIN SchemaPath(p)
  BY <1>6, <1>7 DEF SchemaPath
<1>9. \A i \in DOMAIN SchemaPath(p) : SchemaPath(p)[i] \notin AddedKeys
  BY TemplateAssumption DEF Schema, AddedKeys
<1> QED BY <1>5, <1>8, <1>9
\* A field of another name is as far outside as its record.
LEMMA FieldsStayOutside ==
    ASSUME NEW p \in Seq(STRING), NEW k \in STRING \ AddedKeys, NEW x, IsAdded(x), ~Within(x, p)
    PROVE  ~Within(x, Append(p, k))
<1>1. Append(p, k) \in Seq(STRING) \ {<<>>} /\ Parent(Append(p, k)) = p /\ Key(Append(p, k)) = k
  BY ChildMeans
<1>2. x # Append(p, k) /\ IsPath(x)
  BY <1>1 DEF IsAdded
<1> QED BY <1>1, <1>2, AboveMeans

\* What is added to a structure leaves what the schema declares.
LEMMA AddedFits ==
    ASSUME NEW t, NEW u, Hangs(t), Hangs(u), Clean(u), NEW T, SameBut(t, u, T),
           \A x \in T : IsAdded(x), FitsSchema(t)
    PROVE  FitsSchema(u)
<1> SUFFICES ASSUME NEW p \in DOMAIN u, SchemaPath(p) \in DOMAIN Schema
             PROVE  Conforms(u, p, Schema, TRUE) \/ (p \in Overrides /\ IsText(u[p]))
  BY DEF FitsSchema
<1>1. p \in Seq(STRING)
  BY DEF Hangs
<1>2. \A x \in T : ~Within(x, p)
  BY <1>1, DeclaredIsPlain
<1>3. Has(t, p) /\ Has(u, p) /\ t[p] = u[p]
  BY <1>2 DEF SameBut
<1>4. ASSUME NEW k \in STRING \ AddedKeys
      PROVE  Has(t, Append(p, k)) <=> Has(u, Append(p, k))
  <2>1. \A x \in T : ~Within(x, Append(p, k))
    BY <1>1, <1>2, FieldsStayOutside
  <2> QED BY <2>1 DEF SameBut, Has
<1>5. ASSUME NEW q, q \in Children(t, p) \cup Children(u, p), Key(q) \notin AddedKeys
      PROVE  q \in Children(t, p) /\ q \in Children(u, p)
  <2>1. q \in Seq(STRING) \ {<<>>} /\ Parent(q) = p
    BY <1>5 DEF Children, Hangs
  <2>2. Key(q) \in STRING /\ q = Append(p, Key(q))
    BY <2>1, ParentMeans
  <2>3. Has(t, q) <=> Has(u, q)
    BY <1>4, <1>5, <2>2
  <2> QED BY <1>5, <2>3 DEF Children, Has
<1>6. ASSUME NEW q \in Children(u, p) PROVE q \in DOMAIN t \/ Key(q) \in EnrichmentKeys
  <2>1. q \in DOMAIN u \ {<<>>}
    BY DEF Children
  <2>2. Key(q) \notin TransientKeys
    BY <2>1 DEF Clean
  <2> QED BY <1>5, <2>2 DEF AddedKeys, Children
<1>7. ASSUME IsArray(t, p) PROVE Children(u, p) = Children(t, p)
  <2>1. ASSUME NEW q, q \in Children(t, p) \cup Children(u, p) PROVE Key(q) \in IndexKeys
    <3>1. \/ q \in DOMAIN t \ {<<>>} /\ HasPlace(t, q)
          \/ q \in DOMAIN u \ {<<>>} /\ HasPlace(u, q)
      BY <2>1 DEF Children, Hangs
    <3>2. Parent(q) = p
      BY <2>1 DEF Children
    <3>3. ~IsRecord(t, p) /\ ~IsRecord(u, p)
      BY <1>3, <1>7, Zenon DEF IsRecord, IsArray
    <3> QED BY <3>1, <3>2, <3>3, Zenon DEF HasPlace
  <2>2. \A q : q \in Children(t, p) \cup Children(u, p) => Key(q) \notin AddedKeys
    BY <2>1, AddedNames
  <2> QED BY <1>5, <2>2
<1>8. Schema[SchemaPath(p)].required \subseteq STRING \ AddedKeys
  BY TemplateAssumption DEF Schema, AddedKeys
<1>9. KeepsFields(t, u, p)
  BY <1>3, <1>4, <1>6, <1>7, <1>8 DEF KeepsFields
<1>10. Conforms(t, p, Schema, TRUE) \/ (p \in Overrides /\ IsText(t[p]))
  BY <1>3 DEF FitsSchema, Has
<1> QED BY <1>3, <1>9, <1>10, KeptFieldsConform

\* Every record of one that collectImageQueries looks at has the same names of a
\* picture in the other.
AsksTheSame(t, u) ==
    \A p \in DOMAIN u : u[p] = "{}" /\ Walked(p) =>
        /\ p \in DOMAIN t /\ t[p] = "{}"
        /\ \A i \in DOMAIN AliasKeys : Field(u, p, AliasKeys[i]) = Field(t, p, AliasKeys[i])
\* A query that cannot be used was there before.
LEMMA SameQueriesAreUsable ==
    ASSUME NEW t, NEW u, AsksTheSame(t, u), ~HasBadQuery(t) PROVE ~HasBadQuery(u)
<1> SUFFICES ASSUME HasBadQuery(u) PROVE FALSE
  OBVIOUS
<1>1. PICK p \in DOMAIN u :
        /\ u[p] = "{}" /\ Walked(p)
        /\ \/ Field(u, p, "imageQuery") = ""
           \/ /\ Field(u, p, "imageQuery") \in FileNames
              /\ AliasesIn(u, p, Descriptions) = {}
  BY Zenon DEF HasBadQuery
<1>2. p \in DOMAIN t /\ t[p] = "{}"
  BY <1>1, Zenon DEF AsksTheSame
<1>3. \A i \in DOMAIN AliasKeys : Field(u, p, AliasKeys[i]) = Field(t, p, AliasKeys[i])
  BY <1>1, Zenon DEF AsksTheSame
<1>4. Field(u, p, "imageQuery") = Field(t, p, "imageQuery")
  <2>1. 1 \in DOMAIN AliasKeys /\ AliasKeys[1] = "imageQuery"
    BY DEF AliasKeys
  <2> QED BY <1>3, <2>1
<1>5. AliasesIn(u, p, Descriptions) = AliasesIn(t, p, Descriptions)
  BY <1>3 DEF AliasesIn
<1>6. \/ Field(t, p, "imageQuery") = ""
      \/ Field(t, p, "imageQuery") \in FileNames /\ AliasesIn(t, p, Descriptions) = {}
  BY <1>1, <1>4, <1>5, Zenon
<1> QED BY <1>1, <1>2, <1>6, Zenon DEF HasBadQuery

\* Nothing within the given paths is a record that collectImageQueries looks at.
NoRecords(u, T) ==
    \A q \in DOMAIN u : (\E x \in T : Within(x, q)) => u[q] # "{}" \/ ~Walked(q)
\* What is added asks for nothing.
LEMMA AddedAsksTheSame ==
    ASSUME NEW t, NEW u, Hangs(t), Hangs(u), NEW T, SameBut(t, u, T), NoRecords(u, T),
           \A x \in T : IsAdded(x)
    PROVE  AsksTheSame(t, u)
<1>1. ASSUME NEW p \in DOMAIN u, u[p] = "{}", Walked(p)
      PROVE  /\ p \in DOMAIN t /\ t[p] = "{}"
             /\ \A i \in DOMAIN AliasKeys : Field(u, p, AliasKeys[i]) = Field(t, p, AliasKeys[i])
  <2>1. \A x \in T : ~Within(x, p)
    BY <1>1, Zenon DEF NoRecords
  <2>2. p \in DOMAIN t /\ t[p] = u[p]
    BY <2>1 DEF SameBut, Has
  <2>3. ASSUME NEW i \in DOMAIN AliasKeys
        PROVE  Field(u, p, AliasKeys[i]) = Field(t, p, AliasKeys[i])
    <3>1. PICK k \in STRING \ AddedKeys : k = AliasKeys[i]
      BY AddedNames
    <3>2. p \in Seq(STRING)
      BY DEF Hangs
    <3>3. \A x \in T : ~Within(x, Append(p, k))
      BY <2>1, <3>2, FieldsStayOutside
    <3>4. /\ Has(u, Append(p, k)) <=> Has(t, Append(p, k))
          /\ Has(u, Append(p, k)) => u[Append(p, k)] = t[Append(p, k)]
      BY <3>3 DEF SameBut, Has
    <3>5. Field(u, p, k) = Field(t, p, k)
      BY <3>4, Zenon DEF Field
    <3> QED BY <3>1, <3>5
  <2>4. t[p] = "{}"
    BY <1>1, <2>2, Zenon
  <2> QED BY <2>2, <2>3, <2>4, Zenon
<1> QED BY <1>1, Zenon DEF AsksTheSame

\* What the overrides put there is taken out of both.
LEMMA PrunedIsSame ==
    ASSUME NEW t, NEW u, NEW T, SameBut(t, u, T), NEW P
    PROVE  SameBut(Prune(t, P), Prune(u, P), T)
<1>1. \A v, q : q \in DOMAIN Prune(v, P) <=> q \in DOMAIN v /\ ~\E p \in P : Within(p, q)
  BY DEF Prune
<1>2. \A v : \A q \in DOMAIN Prune(v, P) : Prune(v, P)[q] = v[q]
  BY DEF Prune
<1> QED BY <1>1, <1>2 DEF SameBut, Has
\* The overrides are fields of the root,
LEMMA OverridesMean ==
    \A x \in Overrides : /\ x \in Seq(STRING) \ {<<>>} /\ IsPath(x) /\ Len(x) = 1
                         /\ Parent(x) = <<>> /\ Key(x) \in {"topic", "instruction_text"}
                         /\ Key(x) \notin IndexKeys
<1>1. {"topic", "instruction_text"} \subseteq STRING \ IndexKeys
  BY OwnNamesAreNames
<1>2. <<"topic">> = Append(<<>>, "topic") /\ <<"instruction_text">> = Append(<<>>, "instruction_text")
  OBVIOUS
<1>3. PICK r \in Seq(STRING) : r = <<>>
  <2>1. <<>> \in Seq(STRING)
    OBVIOUS
  <2> QED BY <2>1, Zenon
<1>4. Len(r) = 0
  BY <1>3
<1>5. ASSUME NEW k \in {"topic", "instruction_text"}
      PROVE  /\ Append(r, k) \in Seq(STRING) \ {<<>>} /\ Len(Append(r, k)) = 1
             /\ Parent(Append(r, k)) = r /\ Key(Append(r, k)) = k
  <2>1. k \in STRING
    BY <1>1
  <2>2. /\ Append(r, k) \in Seq(STRING) \ {<<>>} /\ Len(Append(r, k)) = Len(r) + 1
        /\ Parent(Append(r, k)) = r /\ Key(Append(r, k)) = k
    BY <2>1, ChildMeans
  <2> QED BY <1>4, <2>2
<1>6. ASSUME NEW x \in Overrides
      PROVE  \E k \in {"topic", "instruction_text"} : x = Append(r, k)
  BY <1>2, <1>3, Zenon DEF Overrides
<1>7. ASSUME NEW x \in Overrides
      PROVE  /\ x \in Seq(STRING) \ {<<>>} /\ IsPath(x) /\ Len(x) = 1
             /\ Parent(x) = <<>> /\ Key(x) \in {"topic", "instruction_text"}
             /\ Key(x) \notin IndexKeys
  <2>1. PICK k \in {"topic", "instruction_text"} : x = Append(r, k)
    BY <1>6
  <2>2. x \in Seq(STRING) \ {<<>>} /\ Len(x) = 1 /\ Parent(x) = <<>> /\ Key(x) = k
    BY <1>3, <1>5, <2>1, Zenon
  <2>3. k \notin IndexKeys
    BY <1>1, Zenon
  <2>4. IsPath(x)
    BY <2>2, SequenceIsPath, Zenon
  <2> QED BY <2>2, <2>3, <2>4, Zenon
<1> QED BY <1>7, Zenon
\* and so are those that the schema does not declare.
LEMMA FreeMeans == Free \subseteq Seq(STRING) \ {<<>>} /\ Free \subseteq Overrides
BY OverridesMean DEF Free
\* What is added leaves a structure sound,
LEMMA AddedIsSound ==
    ASSUME NEW t, NEW u, Hangs(t), Hangs(u), Clean(u), NEW T, SameBut(t, u, T), NoRecords(u, T),
           \A x \in T : IsAdded(x), Sound(t)
    PROVE  Sound(u)
<1>1. Hangs(Prune(t, Free)) /\ Hangs(Prune(u, Free))
  BY FreeMeans, PruneHangs
<1>2. SameBut(Prune(t, Free), Prune(u, Free), T)
  BY PrunedIsSame
<1>3. Clean(Prune(u, Free))
  BY DEF Clean, Prune
<1>4. FitsSchema(Prune(u, Free))
  BY <1>1, <1>2, <1>3, AddedFits DEF Sound
<1>5. ~HasBadQuery(u)
  BY AddedAsksTheSame, SameQueriesAreUsable DEF Sound
<1> QED BY <1>4, <1>5 DEF Sound
\* so does taking the addresses out,
LEMMA StripIsSound ==
    ASSUME NEW t, Hangs(t), Sound(t) PROVE Sound(StripTransient(t)) /\ Clean(StripTransient(t))
<1> DEFINE P == {p \in DOMAIN t : p # <<>> /\ Key(p) \in TransientKeys}
<1>1. StripTransient(t) = Prune(t, P)
  BY DEF StripTransient
<1>2. SameBut(t, Prune(t, P), P)
  BY PruneChanges
<1>3. NoRecords(Prune(t, P), P)
  BY DEF NoRecords, Prune
<1>4. \A x \in P : IsAdded(x)
  BY SequenceIsPath DEF IsAdded, AddedKeys, Hangs
<1>5. Paths(t)
  BY SequenceIsPath DEF Paths, Hangs
<1>6. Clean(Prune(t, P))
  BY <1>1, <1>5, StripIsClean
<1>7. Hangs(Prune(t, P))
  BY <1>1, StripKeepsTree DEF KeepsTree
<1> HIDE DEF P
<1> QED BY <1>1, <1>2, <1>3, <1>4, <1>6, <1>7, AddedIsSound

\* Below a value there is nothing,
LEMMA BelowTextIsNothing ==
    ASSUME NEW v, Hangs(v), NEW x \in DOMAIN v, IsPath(x), ~IsHolder(v, x),
           NEW q \in DOMAIN v, Within(x, q)
    PROVE  q = x
BY AboveIsHolder
\* so no record is where a value is.
LEMMA TextHasNoRecords ==
    ASSUME NEW v, Hangs(v), NEW x \in DOMAIN v, IsPath(x), ~IsHolder(v, x)
    PROVE  NoRecords(v, {x})
<1>1. \A q \in DOMAIN v : Within(x, q) => q = x
  BY BelowTextIsNothing
<1>2. v[x] # "{}"
  BY Zenon DEF IsHolder
<1> QED BY <1>1, <1>2, Zenon DEF NoRecords
\* Taking parts out adds none.
LEMMA PrunedHasNoRecords ==
    ASSUME NEW v, NEW T, NoRecords(v, T), NEW P PROVE NoRecords(Prune(v, P), T)
<1>1. DOMAIN Prune(v, P) \subseteq DOMAIN v /\ \A q \in DOMAIN Prune(v, P) : Prune(v, P)[q] = v[q]
  BY DEF Prune
<1> QED BY <1>1, Zenon DEF NoRecords

\* An asset has a place where a record is,
LEMMA AssetIsNoRecord ==
    ASSUME NEW t, Hangs(t), NEW p, IsRecord(t, p), NEW asset \in Assets
    PROVE  LET v == Put(t, Append(p, "assetId"), Leaf(asset))
           IN  /\ Hangs(v) /\ NoRecords(v, {Append(p, "assetId")}) /\ IsAdded(Append(p, "assetId"))
               /\ p \in Seq(STRING)
<1> DEFINE x == Append(p, "assetId")
           l == Leaf(asset)
           v == Put(t, x, l)
<1>1. "assetId" \in STRING \ IndexKeys
  BY OwnNamesAreNames
<1>2. p \in Seq(STRING) /\ x \in Seq(STRING) \ {<<>>} /\ Key(x) = "assetId"
  BY <1>1, NamedCanSet
<1>3. IsTree(l) /\ DOMAIN l = {<<>>} /\ l[<<>>] = asset
  BY LeafHangs
<1> HIDE DEF l
<1>4. Hangs(v)
  BY <1>1, <1>3, NamedPutKeepsTree DEF IsTree, KeepsTree
<1>5. x \in DOMAIN v /\ v[x] = asset
  <2>1. <<>> \in DOMAIN l /\ DOMAIN l \subseteq Seq(STRING)
    BY <1>3 DEF IsTree, Hangs
  <2> HIDE DEF x
  <2>2. x \in DOMAIN Put(t, x, l) /\ Put(t, x, l)[x] = l[<<>>]
    BY <1>2, <2>1, PutSets
  <2> QED BY <1>3, <2>2
<1> HIDE DEF v
<1>6. ~IsHolder(v, x)
  BY <1>5, TextIsNoHolder
<1>7. IsPath(x)
  BY <1>2, SequenceIsPath
<1>8. IsAdded(x)
  BY <1>2, <1>7 DEF IsAdded, AddedKeys, EnrichmentKeys
<1> HIDE DEF x
<1>9. NoRecords(v, {x})
  BY <1>4, <1>5, <1>6, <1>7, TextHasNoRecords
<1> QED BY <1>2, <1>4, <1>8, <1>9 DEF v, x, l
\* the one that was found for a query,
LEMMA SlotIsSound ==
    ASSUME NEW t, Hangs(t), Clean(t), Sound(t), NEW p, NEW asset \in Assets \cup {"null"},
           asset = "null" \/ IsRecord(t, p)
    PROVE  Sound(ApplySlot(t, p, asset)) /\ Clean(ApplySlot(t, p, asset))
<1>1. CASE asset = "null"
  BY <1>1, StripIsSound DEF ApplySlot
<1>2. CASE asset # "null"
  <2> DEFINE x == Append(p, "assetId")
             v == Put(t, x, Leaf(asset))
             n == ApplySlot(t, p, asset)
  <2>1. n = StripTransient(v) /\ asset \in Assets /\ IsRecord(t, p)
    BY <1>2 DEF ApplySlot
  <2>2. Hangs(v) /\ NoRecords(v, {x}) /\ IsAdded(x) /\ p \in Seq(STRING)
    BY <2>1, AssetIsNoRecord
  <2>3. NoRecords(StripTransient(v), {x})
    BY <2>2, PrunedHasNoRecords DEF StripTransient
  <2>4. Hangs(StripTransient(v)) /\ Clean(StripTransient(v))
    <3>1. Paths(v)
      BY <2>2, SequenceIsPath DEF Paths, Hangs
    <3> QED BY <2>2, <3>1, StripKeepsTree, StripIsClean DEF KeepsTree
  <2>5. SameBut(t, n, {x})
    <3>1. Paths(t) /\ IsPath(p) /\ IsPath(x)
      BY <2>2, SequenceIsPath DEF Paths, Hangs, IsAdded
    <3>2. SameBut(t, t, {x})
      BY SameItself
    <3> QED BY <3>1, <3>2, SlotChanges
  <2> HIDE DEF x, v, n
  <2>6. Sound(n)
    BY <2>1, <2>2, <2>3, <2>4, <2>5, AddedIsSound
  <2> QED BY <2>1, <2>4, <2>6 DEF n
<1> QED BY <1>1, <1>2
\* and the one that replaces a picture.
LEMMA LibraryImageIsSound ==
    ASSUME NEW t, Hangs(t), IsRecord(t, <<>>), Clean(t), Sound(t), NEW p, IsRecord(t, p),
           p \in DOMAIN SlotNames,
           NEW asset \in Assets
    PROVE  Sound(ApplyLibraryImage(t, p, asset))
<1> DEFINE x == Append(p, "assetId")
           y == Append(p, "userUploadedKey")
           c == Prune(t, {y})
           v == Put(c, x, Leaf(asset))
           w == IndexUpload(v, p, "")
           n == ApplyLibraryImage(t, p, asset)
           T == PicturePaths(p)
<1>1. v = PatchImage(t, p, asset, "")
  BY Zenon DEF PatchImage
<1>2. \E P : w = Prune(v, P)
  <2>1. w = Prune(v, {Append(Uploads, SlotNames[p])}) \/ w = Prune(v, {Uploads})
    <3> HIDE DEF v
    <3> QED BY Zenon DEF IndexUpload
  <2> QED BY <2>1
<1>3. n = StripTransient(w)
  <2> HIDE DEF v
  <2> QED BY <1>1, Zenon DEF ApplyLibraryImage
<1>4. {"assetId", "userUploadedKey", "userUploadedImages"} \subseteq STRING \ IndexKeys
  BY OwnNamesAreNames
<1>5. p \in Seq(STRING) /\ y \in Seq(STRING) \ {<<>>} /\ Parent(y) = p /\ Key(y) = "userUploadedKey"
  BY <1>4, NamedCanSet
<1>6. Hangs(c) /\ IsRecord(c, p)
  <2>1. {y} \subseteq Seq(STRING) \ {<<>>}
    BY <1>5
  <2>2. /\ Hangs(c) /\ \A q \in DOMAIN c : c[q] = t[q]
        /\ \A q : q \in DOMAIN c <=> q \in DOMAIN t /\ \A z \in {y} : ~Within(z, q)
    <3> HIDE DEF y
    <3> QED BY <2>1, PruneHangs, Zenon
  <2>3. ~Within(y, p)
    <3>1. Len(y) = Len(p) + 1 /\ Len(p) \in Nat
      BY <1>5, ParentMeans
    <3> QED BY <3>1 DEF Within
  <2> HIDE DEF c
  <2>4. p \in DOMAIN t
    BY RecordMeans
  <2>5. p \in DOMAIN c /\ c[p] = t[p]
    BY <2>2, <2>3, <2>4
  <2> QED BY <2>2, <2>5, RecordMeans, Zenon
<1>7. \A q \in DOMAIN c : ~Within(y, q)
  BY DEF Prune
<1> HIDE DEF c
<1>8. Hangs(v) /\ NoRecords(v, {x}) /\ IsAdded(x)
  BY <1>6, AssetIsNoRecord
<1>9. SameBut(c, v, {x})
  <2>1. Paths(c) /\ Paths(Leaf(asset)) /\ IsPath(x)
    BY <1>6, <1>8, LeafPaths, SequenceIsPath DEF Paths, Hangs, IsAdded
  <2> QED BY <2>1, PutChanges
<1> HIDE DEF v
<1>10. NoRecords(v, {y})
  <2>1. \A q \in DOMAIN v : Within(y, q) => Within(x, q)
    BY <1>7, <1>9 DEF SameBut, Has
  <2> QED BY <1>8, <2>1, Zenon DEF NoRecords
<1>11. IsPath(Uploads) /\ Uploads # <<>> /\ Len(Uploads) = 1 /\ Uploads[1] = "userUploadedImages"
  BY UploadsIsPath DEF Uploads
<1>12. NoRecords(v, {Uploads})
  <2> SUFFICES ASSUME NEW q \in DOMAIN v, Within(Uploads, q) PROVE ~Walked(q)
    BY Zenon DEF NoRecords
  <2>1. q \in Seq(STRING) /\ IsPath(q)
    BY <1>8, SequenceIsPath DEF Hangs
  <2>2. 1 \in 1..Len(Uploads)
    BY <1>11
  <2>3. q[1] = Uploads[1] /\ Len(Uploads) <= Len(q)
    BY <1>11, <2>1, <2>2, WithinMeans
  <2>4. 1 \in DOMAIN q
    BY <1>11, <2>1, <2>3
  <2> QED BY <1>11, <2>3, <2>4 DEF Walked, SkipKeys
<1>13. NoRecords(v, T)
  BY <1>8, <1>10, <1>12, Zenon DEF NoRecords, PicturePaths
<1>14. NoRecords(n, T)
  BY <1>2, <1>3, <1>13, PrunedHasNoRecords DEF StripTransient
<1>15. \A z \in T : IsAdded(z)
  <2>1. IsAdded(y)
    BY <1>5, SequenceIsPath DEF IsAdded, AddedKeys, EnrichmentKeys
  <2>2. IsAdded(Uploads)
    BY <1>11 DEF IsAdded, Key, AddedKeys, EnrichmentKeys
  <2> QED BY <1>8, <2>1, <2>2 DEF PicturePaths
<1>16. Hangs(n)
  BY ImageKeepsTree DEF KeepsTree
<1>17. SameBut(t, n, T)
  <2>1. Paths(t) /\ IsPath(p) /\ \A z \in T : IsPath(z)
    BY <1>5, <1>15, SequenceIsPath DEF Paths, Hangs, IsAdded
  <2>2. SameBut(t, t, T)
    BY SameItself
  <2>3. LET next == StripTransient(IndexUpload(PatchImage(t, p, asset, ""), p, ""))
        IN  Paths(next) /\ SameBut(t, next, T)
    <3> HIDE DEF T
    <3> QED BY <2>1, <2>2, PictureChanges DEF T
  <2> QED BY <2>3 DEF ApplyLibraryImage
<1>18. Clean(n)
  <2>1. Hangs(v) /\ \E P : w = Prune(v, P)
    BY <1>2, <1>8
  <2>2. Paths(w)
    <3>1. Paths(v)
      BY <2>1, SequenceIsPath DEF Paths, Hangs
    <3> HIDE DEF w
    <3> QED BY <2>1, <3>1, PrunePaths
  <2> QED BY <1>3, <2>2, StripIsClean
<1> HIDE DEF n, T, w
<1>19. Sound(n)
  BY <1>14, <1>15, <1>16, <1>17, <1>18, AddedIsSound
<1> QED BY <1>19 DEF n

\* The whole stands for itself in the schema.
LEMMA WholeIsItself == SchemaPath(<<>>) = <<>>
BY DEF SchemaPath
\* What conforms to the schema is sound.
LEMMA AcceptedIsSound ==
    ASSUME NEW t, Hangs(t), Accepts(t, Template, TRUE) PROVE Sound(t)
<1> DEFINE u == Prune(t, Free)
<1>1. /\ Hangs(u) /\ \A q \in DOMAIN u : u[q] = t[q]
      /\ \A q : q \in DOMAIN u <=> q \in DOMAIN t /\ \A f \in Free : ~Within(f, q)
  BY FreeMeans, PruneHangs
<1> HIDE DEF u
<1>2. ASSUME NEW p \in DOMAIN u, NEW q \in DOMAIN t, Parent(q) = p, q # <<>>, q \notin Free
      PROVE  q \in DOMAIN u
  <2>1. q \in Seq(STRING) \ {<<>>}
    BY <1>2 DEF Hangs
  <2>2. ASSUME NEW f \in Free, Within(f, q) PROVE FALSE
    <3>1. IsPath(f) /\ f # q
      BY <1>2, OverridesMean DEF Free
    <3>2. Within(f, p)
      BY <1>2, <2>1, <2>2, <3>1, AboveMeans
    <3> QED BY <1>1, <3>2
  <2> QED BY <1>1, <2>2
<1>3. ASSUME NEW p \in DOMAIN u, SchemaPath(p) \in DOMAIN Schema
      PROVE  Conforms(u, p, Schema, TRUE)
  <2>1. p \in DOMAIN t /\ u[p] = t[p] /\ p \in Seq(STRING)
    BY <1>1 DEF Hangs
  <2>2. Conforms(t, p, Schema, TRUE)
    BY <1>3, <2>1 DEF Accepts, Valid, Schema
  <2>3. ASSUME NEW k \in Schema[SchemaPath(p)].required, Has(t, Append(p, k))
        PROVE  Has(u, Append(p, k))
    <3>1. k \in STRING
      BY <1>3, TemplateAssumption DEF Schema
    <3>2. /\ Append(p, k) \in Seq(STRING) \ {<<>>} /\ Parent(Append(p, k)) = p
          /\ Key(Append(p, k)) = k
      BY <2>1, <3>1, ChildMeans
    <3>3. ASSUME Append(p, k) \in Free PROVE FALSE
      <4>1. Parent(Append(p, k)) = <<>>
        BY <3>3, OverridesMean DEF Free
      <4>2. p = <<>> /\ Append(p, k) = <<k>>
        BY <3>2, <4>1
      <4>3. <<>> \in DOMAIN Schema /\ k \in Schema[<<>>].required
        BY <1>3, <4>2, WholeIsItself
      <4>4. <<k>> \in DOMAIN Schema
        BY <4>3, TemplateAssumption DEF Schema
      <4> QED BY <3>3, <4>2, <4>4 DEF Free
    <3> QED BY <1>2, <2>3, <3>2, <3>3 DEF Has
  <2>4. \A q \in Children(u, p) : q \in DOMAIN t
    BY <1>1 DEF Children
  <2>5. ASSUME IsArray(t, p) PROVE Children(u, p) = Children(t, p)
    <3>1. Children(u, p) \subseteq Children(t, p)
      BY <1>1 DEF Children
    <3>2. ASSUME NEW q \in Children(t, p) PROVE q \in Children(u, p)
      <4>1. q \in DOMAIN t \ {<<>>} /\ Parent(q) = p
        BY DEF Children
      <4>2. HasPlace(t, q) /\ ~IsRecord(t, p)
        <5>1. HasPlace(t, q)
          BY <4>1 DEF Hangs
        <5> QED BY <2>5, <5>1, Zenon DEF IsRecord, IsArray
      <4>3. Key(q) \in IndexKeys
        BY <4>1, <4>2 DEF HasPlace
      <4>4. q \notin Free
        BY <4>3, OverridesMean DEF Free
      <4> QED BY <1>2, <4>1, <4>4 DEF Children
    <3> QED BY <3>1, <3>2
  <2>6. KeepsFields(t, u, p)
    BY <2>1, <2>3, <2>4, <2>5 DEF KeepsFields, Has
  <2> QED BY <2>2, <2>6, KeptFieldsConform
<1>4. FitsSchema(u)
  BY <1>3 DEF FitsSchema
<1> QED BY <1>4 DEF Sound, Accepts, u

-----------------------------------------------------------------------------
(* Texts written over a structure.                                         *)

\* One structure is another with texts written into fields of it: where a text is,
\* nothing is below it.
Writes(t, v, D) ==
    /\ Hangs(t) /\ Hangs(v)
    /\ \A d \in D : /\ d \in Seq(STRING) \ {<<>>} /\ Key(d) \notin IndexKeys
                    /\ d \in DOMAIN v /\ IsText(v[d])
    /\ \A q \in DOMAIN v : q \in D \/ (q \in DOMAIN t /\ v[q] = t[q])
    /\ \A q \in DOMAIN t : q \in DOMAIN v \/ \E d \in D : Within(d, q) /\ d # q
\* The schema allows the texts.
Welcome(v, D) ==
    \A d \in D :
        /\ SchemaPath(d) \in DOMAIN Schema => Conforms(v, d, Schema, TRUE) \/ d \in Overrides
        /\ \/ SchemaPath(d) \in DOMAIN Schema
           \/ SchemaPath(Parent(d)) \notin DOMAIN Schema
           \/ Schema[SchemaPath(Parent(d))].type # "object"
           \/ ~Schema[SchemaPath(Parent(d))].closed

\* A text is no object,
LEMMA WrittenIsNoHolder ==
    ASSUME NEW t, NEW v, NEW D, Writes(t, v, D), NEW d \in D PROVE ~IsHolder(v, d)
<1>1. v[d] \in Text \cup Assets \cup UploadKeys
  BY DEF Writes, IsText
<1> QED BY <1>1, TextIsNoHolder
\* so a field of what is left is left, unless it is written.
LEMMA FieldsAreLeft ==
    ASSUME NEW t, NEW v, NEW D, Writes(t, v, D), NEW p \in DOMAIN v, p \notin D,
           NEW q \in DOMAIN t, q # <<>>, Parent(q) = p
    PROVE  q \in DOMAIN v
<1> SUFFICES ASSUME NEW d \in D, Within(d, q), d # q PROVE FALSE
  BY DEF Writes
<1>1. q \in Seq(STRING) \ {<<>>} /\ IsPath(d)
  BY SequenceIsPath DEF Writes, Hangs
<1>2. Within(d, p)
  BY <1>1, AboveMeans
<1>3. IsHolder(v, d)
  BY <1>1, <1>2, AboveIsHolder DEF Writes
<1> QED BY <1>3, WrittenIsNoHolder
\* What is written as the schema allows leaves what it declares.
LEMMA WritesFit ==
    ASSUME NEW t, NEW v, NEW D, Writes(t, v, D), Welcome(v, D), FitsSchema(t)
    PROVE  FitsSchema(v)
<1> SUFFICES ASSUME NEW p \in DOMAIN v, SchemaPath(p) \in DOMAIN Schema
             PROVE  Conforms(v, p, Schema, TRUE) \/ (p \in Overrides /\ IsText(v[p]))
  BY DEF FitsSchema
<1>1. CASE p \in D
  BY <1>1 DEF Welcome, Writes
<1>2. CASE p \notin D
  <2>1. p \in DOMAIN t /\ v[p] = t[p] /\ p \in Seq(STRING)
    BY <1>2 DEF Writes, Hangs
  <2>2. ASSUME NEW k \in Schema[SchemaPath(p)].required, Has(t, Append(p, k))
        PROVE  Has(v, Append(p, k))
    <3>1. k \in STRING
      BY TemplateAssumption DEF Schema
    <3>2. Append(p, k) \in Seq(STRING) \ {<<>>} /\ Parent(Append(p, k)) = p
      BY <2>1, <3>1, ChildMeans
    <3> QED BY <1>2, <2>2, <3>2, FieldsAreLeft DEF Has
  <2>3. ASSUME Schema[SchemaPath(p)].type = "object", Schema[SchemaPath(p)].closed,
               NEW q \in Children(v, p)
        PROVE  q \in DOMAIN t \/ SchemaPath(q) \in DOMAIN Schema
    <3>1. q \in DOMAIN v /\ Parent(q) = p
      BY DEF Children
    <3>2. q \in D \/ q \in DOMAIN t
      BY <3>1 DEF Writes
    <3> QED BY <2>3, <3>1, <3>2 DEF Welcome
  <2>4. ASSUME IsArray(t, p) PROVE Children(v, p) = Children(t, p)
    <3>1. ASSUME NEW q \in Children(t, p) PROVE q \in Children(v, p)
      <4>1. q \in DOMAIN t /\ q # <<>> /\ Parent(q) = p
        BY DEF Children
      <4> QED BY <1>2, <4>1, FieldsAreLeft DEF Children
    <3>2. ASSUME NEW q \in Children(v, p) PROVE q \in Children(t, p)
      <4>1. q \in DOMAIN v \ {<<>>} /\ Parent(q) = p
        BY DEF Children
      <4>2. HasPlace(v, q) /\ ~IsRecord(v, p)
        <5>1. HasPlace(v, q)
          BY <4>1 DEF Writes, Hangs
        <5> QED BY <2>1, <2>4, <5>1, Zenon DEF IsRecord, IsArray
      <4>3. Key(q) \in IndexKeys
        BY <4>1, <4>2 DEF HasPlace
      <4> QED BY <4>1, <4>3 DEF Writes, Children
    <3> QED BY <3>1, <3>2
  <2>5. KeepsFields(t, v, p)
    BY <2>1, <2>2, <2>3, <2>4 DEF KeepsFields, Has
  <2>6. Conforms(t, p, Schema, TRUE) \/ (p \in Overrides /\ IsText(t[p]))
    BY <2>1 DEF FitsSchema
  <2> QED BY <2>1, <2>5, <2>6, KeptFieldsConform
<1> QED BY <1>1, <1>2
\* What is written under other names than those of a picture asks for nothing.
LEMMA WritesAskTheSame ==
    ASSUME NEW t, NEW v, NEW D, Writes(t, v, D), \A d \in D : ~IsAliasKey(Key(d))
    PROVE  AsksTheSame(t, v)
<1>1. ASSUME NEW p \in DOMAIN v, v[p] = "{}"
      PROVE  /\ p \in DOMAIN t /\ t[p] = "{}"
             /\ \A i \in DOMAIN AliasKeys : Field(v, p, AliasKeys[i]) = Field(t, p, AliasKeys[i])
  <2>1. IsHolder(v, p)
    BY <1>1, Zenon DEF IsHolder
  <2>2. p \notin D
    BY <2>1, WrittenIsNoHolder
  <2>3. p \in DOMAIN t /\ v[p] = t[p] /\ p \in Seq(STRING)
    BY <2>2 DEF Writes, Hangs
  <2>4. ASSUME NEW i \in DOMAIN AliasKeys
        PROVE  Field(v, p, AliasKeys[i]) = Field(t, p, AliasKeys[i])
    <3>1. PICK k \in STRING : k = AliasKeys[i] /\ IsAliasKey(k)
      BY AddedNames DEF IsAliasKey
    <3> DEFINE x == Append(p, k)
    <3>2. x \in Seq(STRING) \ {<<>>} /\ Parent(x) = p /\ Key(x) = k
      BY <2>3, ChildMeans
    <3> HIDE DEF x
    <3>3. x \notin D
      BY <3>1, <3>2
    <3>4. Has(t, x) <=> Has(v, x)
      BY <2>2, <3>2, <3>3, FieldsAreLeft DEF Writes, Has
    <3>5. Has(v, x) => v[x] = t[x]
      BY <3>3 DEF Writes, Has
    <3>6. Field(v, p, k) = Field(t, p, k)
      BY <3>4, <3>5, Zenon DEF Field, x
    <3> QED BY <3>1, <3>6
  <2>5. t[p] = "{}"
    BY <1>1, <2>3, Zenon
  <2> QED BY <2>3, <2>4, <2>5, Zenon
<1> QED BY <1>1, Zenon DEF AsksTheSame
\* It is the same without what the overrides put there.
LEMMA PrunedWrites ==
    ASSUME NEW t, NEW v, NEW D, Writes(t, v, D)
    PROVE  Writes(Prune(t, Free), Prune(v, Free), D \cap DOMAIN Prune(v, Free))
<1> DEFINE a == Prune(t, Free)
           b == Prune(v, Free)
<1>1. /\ Hangs(a) /\ \A q \in DOMAIN a : a[q] = t[q]
      /\ \A q : q \in DOMAIN a <=> q \in DOMAIN t /\ \A f \in Free : ~Within(f, q)
  BY FreeMeans, PruneHangs DEF Writes
<1>2. /\ Hangs(b) /\ \A q \in DOMAIN b : b[q] = v[q]
      /\ \A q : q \in DOMAIN b <=> q \in DOMAIN v /\ \A f \in Free : ~Within(f, q)
  BY FreeMeans, PruneHangs DEF Writes
<1> HIDE DEF a, b
<1>3. ASSUME NEW q \in DOMAIN a, q \notin DOMAIN b
      PROVE  \E d \in D \cap DOMAIN b : Within(d, q) /\ d # q
  <2>1. q \in DOMAIN t /\ q \notin DOMAIN v
    BY <1>1, <1>2, <1>3
  <2>2. PICK d \in D : Within(d, q) /\ d # q
    BY <2>1 DEF Writes
  <2>3. d \in DOMAIN v /\ d \in Seq(STRING) /\ q \in Seq(STRING)
    BY <2>1 DEF Writes, Hangs
  <2>4. ASSUME NEW f \in Free, Within(f, d) PROVE FALSE
    <3>1. f \in Seq(STRING)
      BY FreeMeans
    <3>2. Within(f, q)
      BY <2>2, <2>3, <2>4, <3>1, SequenceIsPath, WithinChain
    <3> QED BY <1>1, <3>2
  <2>5. d \in DOMAIN b
    BY <1>2, <2>3, <2>4
  <2> QED BY <2>2, <2>5
<1>4. \A d \in D \cap DOMAIN b : /\ d \in Seq(STRING) \ {<<>>} /\ Key(d) \notin IndexKeys
                                 /\ IsText(b[d])
  BY <1>2 DEF Writes
<1>5. \A q \in DOMAIN b : q \in D \/ (q \in DOMAIN a /\ b[q] = a[q])
  BY <1>1, <1>2 DEF Writes
<1>6. Writes(a, b, D \cap DOMAIN b)
  BY <1>1, <1>2, <1>3, <1>4, <1>5 DEF Writes
<1> QED BY <1>6 DEF a, b
\* Texts of which none is below another are written by an overlay.
LEMMA OverlayWrites ==
    ASSUME NEW t, Hangs(t), NEW u, Hangs(Overlay(t, u)),
           \A d \in DOMAIN u : /\ d \in Seq(STRING) \ {<<>>} /\ Key(d) \notin IndexKeys
                               /\ IsText(u[d]),
           \A c, d \in DOMAIN u : Within(c, d) => c = d
    PROVE  Writes(t, Overlay(t, u), DOMAIN u)
<1> DEFINE v == Overlay(t, u)
<1>1. ASSUME NEW d \in DOMAIN u PROVE ~IsHolder(u, d)
  <2>1. u[d] \in Text \cup Assets \cup UploadKeys
    BY DEF IsText
  <2> QED BY <2>1, TextIsNoHolder
<1>2. /\ \A o : o \in DOMAIN v <=> /\ o \in DOMAIN t \cup DOMAIN u
                                   /\ \A p \in DOMAIN u : p = o \/ ~Within(p, o)
      /\ \A q \in DOMAIN v : v[q] = IF q \in DOMAIN u THEN u[q] ELSE t[q]
  <2>1. /\ \A o : o \in DOMAIN v <=>
                  /\ o \in DOMAIN t \cup DOMAIN u
                  /\ \A p \in DOMAIN u : IsHolder(u, p) \/ p = o \/ ~Within(p, o)
        /\ \A q \in DOMAIN v : v[q] = IF q \in DOMAIN u THEN u[q] ELSE t[q]
    BY OverlayMeans
  <2> HIDE DEF v
  <2> QED BY <1>1, <2>1, Zenon
<1> HIDE DEF v
<1>3. DOMAIN u \subseteq DOMAIN v
  BY <1>2
<1> QED BY <1>2, <1>3 DEF Writes, v

\* The overrides write texts over fields of the root,
LEMMA OverridesWrite ==
    ASSUME NEW t, Hangs(t), IsRecord(t, <<>>), NEW u, DOMAIN u \subseteq Overrides,
           \A q \in DOMAIN u : IsText(u[q])
    PROVE  Writes(t, Overlay(t, u), DOMAIN u)
<1>1. IsFiniteSet(DOMAIN u)
  <2>1. Overrides = {<<"topic">>, <<"instruction_text">>, <<"topic">>, <<"topic">>, <<"topic">>,
                     <<"topic">>}
    BY DEF Overrides
  <2>2. IsFiniteSet(Overrides)
    BY <2>1, SixAreFinite
  <2> QED BY <2>2, FS_Subset
<1>2. \A q \in DOMAIN u : ~IsHolder(u, q)
  <2> SUFFICES ASSUME NEW q \in DOMAIN u PROVE ~IsHolder(u, q)
    OBVIOUS
  <2>1. u[q] \in Text \cup Assets \cup UploadKeys
    BY DEF IsText
  <2> QED BY <2>1, TextIsNoHolder
<1>3. \A q \in DOMAIN u : /\ q \in Seq(STRING) \ {<<>>} /\ IsPath(q) /\ Len(q) = 1
                          /\ Parent(q) = <<>> /\ Key(q) \notin IndexKeys
  BY OverridesMean
<1>4. \A q \in DOMAIN u : IsRecord(t, Parent(q))
  <2>1. PICK r : r = <<>>
    OBVIOUS
  <2>2. IsRecord(t, r) /\ \A q \in DOMAIN u : Parent(q) = r
    BY <1>3, <2>1
  <2> QED BY <2>2
<1>5. Hangs(Overlay(t, u))
  BY <1>1, <1>2, <1>3, <1>4, ValuesKeepTree DEF KeepsTree
<1>6. ASSUME NEW c \in DOMAIN u, NEW d \in DOMAIN u, Within(c, d) PROVE c = d
  <2>1. Len(c) = 1 /\ Len(d) = 1 /\ d \in Seq(STRING)
    BY <1>3
  <2>2. SubSeq(d, 1, Len(d)) = d
    BY <2>1
  <2> QED BY <1>6, <2>1, <2>2 DEF Within
<1> QED BY <1>3, <1>5, <1>6, OverlayWrites
\* which leaves a structure sound.
LEMMA OverridesAreSound ==
    ASSUME NEW t, NEW v, NEW D, D \subseteq Overrides, Writes(t, v, D), Sound(t)
    PROVE  Sound(v)
<1> DEFINE a == Prune(t, Free)
           b == Prune(v, Free)
           E == D \cap DOMAIN b
<1>1. Writes(a, b, E)
  BY PrunedWrites
<1>2. ASSUME NEW d \in E PROVE SchemaPath(d) \in DOMAIN Schema /\ d \in Overrides
  <2>1. d \in Overrides
    OBVIOUS
  <2>2. d \notin Free
    <3>1. d \in DOMAIN b /\ IsPath(d)
      BY <2>1, OverridesMean
    <3>2. Within(d, d)
      BY <3>1, WithinItself
    <3> QED BY <3>1, <3>2 DEF Prune
  <2>3. d \in DOMAIN Schema
    BY <2>1, <2>2 DEF Free
  <2>4. SchemaPath(d) = d
    <3>1. d \in {<<"topic">>, <<"instruction_text">>}
      BY <2>1 DEF Overrides
    <3>2. "topic" \notin IndexKeys /\ "instruction_text" \notin IndexKeys
      BY OwnNamesAreNames
    <3> QED BY <3>1, <3>2 DEF SchemaPath
  <2> QED BY <2>1, <2>3, <2>4
<1> HIDE DEF a, b, E
<1>3. Welcome(b, E)
  BY <1>2 DEF Welcome
<1>4. FitsSchema(a) /\ ~HasBadQuery(t)
  BY DEF Sound, a
<1>5. FitsSchema(b)
  BY <1>1, <1>3, <1>4, WritesFit
<1>6. \A d \in D : ~IsAliasKey(Key(d))
  <2>1. \A d \in D : Key(d) \in {"topic", "instruction_text"}
    BY OverridesMean
  <2>2. ~IsAliasKey("topic") /\ ~IsAliasKey("instruction_text")
    BY DEF IsAliasKey, AliasKeys
  <2> QED BY <2>1, <2>2
<1>7. ~HasBadQuery(v)
  BY <1>4, <1>6, WritesAskTheSame, SameQueriesAreUsable
<1> QED BY <1>5, <1>7 DEF Sound, b

\* A key put behind one or two is the last of two or three.
LEMMA KeysBehind ==
    ASSUME NEW a, NEW b, NEW c
    PROVE  Append(<<a>>, b) = <<a, b>> /\ Append(<<a, b>>, c) = <<a, b, c>>
<1> DEFINE S == {a, b, c}
<1>1. a \in S /\ b \in S /\ c \in S
  OBVIOUS
<1> HIDE DEF S
<1>2. <<a>> \in Seq(S) /\ <<a, b>> \in Seq(S) /\ <<a, b, c>> \in Seq(S)
  BY <1>1
<1>3. /\ Append(<<a>>, b) \in Seq(S) /\ Len(Append(<<a>>, b)) = 2
      /\ Append(<<a>>, b)[1] = a /\ Append(<<a>>, b)[2] = b
  BY <1>1, <1>2, AppendProperties
<1>4. /\ Append(<<a, b>>, c) \in Seq(S) /\ Len(Append(<<a, b>>, c)) = 3
      /\ Append(<<a, b>>, c)[1] = a /\ Append(<<a, b>>, c)[2] = b /\ Append(<<a, b>>, c)[3] = c
  BY <1>1, <1>2, AppendProperties
<1>5. Append(<<a>>, b) = <<a, b>>
  <2>1. \A i \in 1..2 : Append(<<a>>, b)[i] = <<a, b>>[i]
    BY <1>3
  <2> QED BY <1>2, <1>3, <2>1, SeqEqual
<1>6. Append(<<a, b>>, c) = <<a, b, c>>
  <2>1. \A i \in 1..3 : Append(<<a, b>>, c)[i] = <<a, b, c>>[i]
    BY <1>4
  <2> QED BY <1>2, <1>4, <2>1, SeqEqual
<1> QED BY <1>5, <1>6
\* A pair of a number match, and its fields.
LEMMA PairMeans ==
    ASSUME NEW t, Hangs(t), NEW e \in Elements(t, <<"pairs">>)
    PROVE  /\ e \in DOMAIN t /\ e \in Seq(STRING) \ {<<>>} /\ Len(e) = 2 /\ e[1] = "pairs"
           /\ SchemaPath(e) = <<"pairs", "*">>
           /\ SchemaPath(Append(e, "name")) = <<"pairs", "*", "name">>
           /\ SchemaPath(Append(e, "number")) = <<"pairs", "*", "number">>
<1>1. {"pairs", "name", "number"} \subseteq STRING \ IndexKeys
  BY OwnNamesAreNames
<1>2. e \in DOMAIN t \ {<<>>} /\ Parent(e) = <<"pairs">> /\ IsArray(t, <<"pairs">>)
  BY DEF Elements, Children
<1>3. e \in Seq(STRING) \ {<<>>} /\ HasPlace(t, e)
  BY <1>2 DEF Hangs
<1>4. Key(e) \in IndexKeys
  <2>1. ~IsRecord(t, Parent(e))
    BY <1>2, Zenon DEF IsRecord, IsArray
  <2> QED BY <1>3, <2>1 DEF HasPlace
<1>5. PICK k \in STRING \cap IndexKeys : e = Append(<<"pairs">>, k)
  BY <1>2, <1>3, <1>4, ParentMeans
<1>6. e = <<"pairs", k>>
  BY <1>5, KeysBehind
<1>7. Append(e, "name") = <<"pairs", k, "name">> /\ Append(e, "number") = <<"pairs", k, "number">>
  BY <1>6, KeysBehind
<1>8. SchemaPath(<<"pairs", k>>) = <<"pairs", "*">>
  BY <1>1, <1>5 DEF SchemaPath
<1>9. SchemaPath(<<"pairs", k, "name">>) = <<"pairs", "*", "name">>
  BY <1>1, <1>5 DEF SchemaPath
<1>10. SchemaPath(<<"pairs", k, "number">>) = <<"pairs", "*", "number">>
  BY <1>1, <1>5 DEF SchemaPath
<1>11. Len(e) = 2 /\ e[1] = "pairs"
  BY <1>6
<1> QED BY <1>2, <1>3, <1>6, <1>7, <1>8, <1>9, <1>10, <1>11
\* A closed pair may have a name.
LEMMA PairHasName ==
    ASSUME NEW t, Hangs(t), Accepts(t, Template, TRUE), IsNumberName(t),
           NEW e \in Elements(t, <<"pairs">>)
    PROVE  \/ SchemaPath(Append(e, "name")) \in DOMAIN Schema
           \/ SchemaPath(e) \notin DOMAIN Schema
           \/ Schema[SchemaPath(e)].type # "object"
           \/ ~Schema[SchemaPath(e)].closed
<1> DEFINE pair == <<"pairs", "*">>
           name == <<"pairs", "*", "name">>
           number == <<"pairs", "*", "number">>
<1>1. SchemaPath(e) = pair /\ e \in DOMAIN t /\ e \in Seq(STRING)
      /\ SchemaPath(Append(e, "name")) = name /\ SchemaPath(Append(e, "number")) = number
  BY PairMeans
<1>2. Append(pair, "name") = name /\ Append(pair, "number") = number
  BY KeysBehind
<1> SUFFICES ASSUME pair \in DOMAIN Schema, Schema[pair].type = "object", Schema[pair].closed
             PROVE  name \in DOMAIN Schema
  BY <1>1
<1>3. {pair, number} \subseteq DOMAIN Schema /\ Schema[pair].closed => name \in DOMAIN Schema
  BY <1>2, TemplateAssumption DEF Schema
<1>4. PICK k \in {"name", "number"} : Has(t, Append(e, k))
  BY DEF IsNumberName
<1>5. k \in STRING \ AddedKeys
  <2>1. k \in STRING
    BY OwnNamesAreNames
  <2>2. k \notin AddedKeys
    BY DEF AddedKeys, EnrichmentKeys, TransientKeys
  <2> QED BY <2>1, <2>2
<1>6. Append(e, k) \in Children(t, e) /\ Key(Append(e, k)) = k
  BY <1>1, <1>4, <1>5, ChildMeans DEF Children, Has
<1>7. Conforms(t, e, Schema, TRUE)
  BY <1>1 DEF Accepts, Valid, Schema
<1>8. SchemaPath(Append(e, k)) \in DOMAIN Schema
  <2>1. \A q \in Children(t, e) : SchemaPath(q) \in DOMAIN Schema \/ Key(q) \in EnrichmentKeys
    BY <1>1, <1>7 DEF Conforms
  <2> QED BY <1>5, <1>6, <2>1 DEF AddedKeys
<1> HIDE DEF pair, name, number
<1> QED BY <1>1, <1>3, <1>4, <1>8

\* The names of the pairs are written over fields of the pairs.
LEMMA NamesWrite ==
    ASSUME NEW t, Hangs(t), NEW P, \A e \in P : IsRecord(t, e) /\ Len(e) = 2,
           NEW u, DOMAIN u \subseteq {Append(e, "name") : e \in P}, \A q \in DOMAIN u : IsText(u[q])
    PROVE  Writes(t, Overlay(t, u), DOMAIN u)
<1>1. "name" \in STRING \ IndexKeys
  BY OwnNamesAreNames
<1>2. P \subseteq Seq(STRING)
  BY RecordMeans DEF Hangs
<1>3. ASSUME NEW d \in DOMAIN u
      PROVE  /\ d \in Seq(STRING) \ {<<>>} /\ Len(d) = 3 /\ Key(d) = "name" /\ ~IsHolder(u, d)
             /\ Key(d) \notin IndexKeys
  <2>1. PICK e \in P : d = Append(e, "name")
    OBVIOUS
  <2>2. u[d] \in Text \cup Assets \cup UploadKeys
    BY DEF IsText
  <2>3. ~IsHolder(u, d)
    BY <2>2, TextIsNoHolder
  <2>4. e \in Seq(STRING) /\ Len(e) = 2
    BY <1>2
  <2>5. d \in Seq(STRING) \ {<<>>} /\ Len(d) = Len(e) + 1 /\ Key(d) = "name"
    BY <1>1, <2>1, <2>4, ChildMeans
  <2> QED BY <1>1, <2>3, <2>4, <2>5
<1>4. Hangs(Overlay(t, u))
  <2> DEFINE L == {"name"}
  <2>1. IsFiniteSet(L) /\ L \subseteq STRING \ IndexKeys
    BY <1>1, FS_Singleton
  <2>2. \A e \in P : Append(e, "name") \in FieldsOf(P, L)
    BY FieldsOfMeans
  <2> HIDE DEF L
  <2>3. DOMAIN u \subseteq FieldsOf(P, L)
    BY <2>2
  <2> QED BY <1>3, <2>1, <2>3, FieldsOfKeepTree DEF KeepsTree
<1>5. ASSUME NEW c \in DOMAIN u, NEW d \in DOMAIN u, Within(c, d) PROVE c = d
  <2>1. Len(c) = 3 /\ Len(d) = 3 /\ d \in Seq(STRING)
    BY <1>3
  <2>2. SubSeq(d, 1, Len(d)) = d
    BY <2>1
  <2> QED BY <1>5, <2>1, <2>2 DEF Within
<1> QED BY <1>3, <1>4, <1>5, OverlayWrites
\* They leave a structure sound where a pair may have one.
LEMMA NamesAreSound ==
    ASSUME NEW t, Hangs(t), Accepts(t, Template, TRUE),
           NEW P, P = {} \/ (IsNumberName(t) /\ P \subseteq Elements(t, <<"pairs">>)),
           NEW m, NEW v, NEW D, D \subseteq {Append(e, "name") : e \in P}, Writes(m, v, D), Sound(m),
           \A d \in D : v[d] \in Phrases
    PROVE  Sound(v)
<1> DEFINE a == Prune(m, Free)
           b == Prune(v, Free)
           E == D \cap DOMAIN b
           name == <<"pairs", "*", "name">>
<1>1. Writes(a, b, E)
  BY PrunedWrites
<1>2. \A d \in E : b[d] = v[d]
  BY DEF Prune
<1>3. "name" \in STRING
  BY OwnNamesAreNames
<1> HIDE DEF a, b
<1>4. ASSUME NEW d \in E
      PROVE  /\ SchemaPath(d) \in DOMAIN Schema => Conforms(b, d, Schema, TRUE)
             /\ \/ SchemaPath(d) \in DOMAIN Schema
                \/ SchemaPath(Parent(d)) \notin DOMAIN Schema
                \/ Schema[SchemaPath(Parent(d))].type # "object"
                \/ ~Schema[SchemaPath(Parent(d))].closed
  <2>1. PICK e \in P : d = Append(e, "name")
    OBVIOUS
  <2>2. IsNumberName(t) /\ e \in Elements(t, <<"pairs">>)
    OBVIOUS
  <2>3. SchemaPath(d) = name /\ e \in Seq(STRING)
    BY <2>1, <2>2, PairMeans
  <2>4. Parent(d) = e
    BY <1>3, <2>1, <2>3, ChildMeans
  <2>5. ASSUME name \in DOMAIN Schema PROVE Conforms(b, d, Schema, TRUE)
    <3>1. Append(<<"pairs", "*">>, "name") = name
      BY KeysBehind
    <3>2. Schema[name].type = "string" /\ Schema[name].allowed = {}
      BY <2>5, <3>1, TemplateAssumption DEF Schema
    <3>3. b[d] \in Phrases /\ Phrases \cap Markup = {}
      BY <1>2, TextAssumption
    <3>4. IsText(b[d]) /\ b[d] \notin Markup
      BY <3>3, Zenon DEF IsText, Text
    <3> HIDE DEF name
    <3> QED BY <2>3, <3>2, <3>4 DEF Conforms
  <2> QED BY <2>1, <2>2, <2>3, <2>4, <2>5, PairHasName
<1> HIDE DEF E, name
<1>5. Welcome(b, E)
  BY <1>4 DEF Welcome
<1>6. FitsSchema(a) /\ ~HasBadQuery(m)
  BY DEF Sound, a
<1>7. FitsSchema(b)
  BY <1>1, <1>5, <1>6, WritesFit
<1>8. ASSUME NEW d \in D PROVE ~IsAliasKey(Key(d))
  <2>1. PICK e \in P : d = Append(e, "name")
    OBVIOUS
  <2>2. e \in Seq(STRING)
    BY PairMeans
  <2>3. Key(d) = "name"
    BY <1>3, <2>1, <2>2, ChildMeans
  <2> QED BY <2>3 DEF IsAliasKey, AliasKeys
<1>9. ~HasBadQuery(v)
  BY <1>6, <1>8, WritesAskTheSame, SameQueriesAreUsable
<1> QED BY <1>7, <1>9 DEF Sound, b

\* A record is left where nothing is written on the way to it.
LEMMA RecordsAreLeft ==
    ASSUME NEW t, NEW u, NEW p, IsRecord(t, p), \A d \in DOMAIN u : ~Within(d, p),
           p \notin DOMAIN u
    PROVE  IsRecord(Overlay(t, u), p)
<1>1. p \in DOMAIN t /\ t[p] = "{}"
  BY RecordMeans
<1>2. p \in DOMAIN Overlay(t, u)
  BY <1>1, OverlayMeans
<1>3. Overlay(t, u)[p] = t[p]
  BY <1>2, OverlayMeans
<1> QED BY <1>1, <1>2, <1>3, RecordMeans, Zenon
\* The overrides of a regeneration leave its structure sound.
LEMMA NumberMatchIsSound ==
    ASSUME NEW t, Hangs(t), Accepts(t, Template, TRUE), NEW fields, fields.topic \in Text
    PROVE  Sound(NumberMatch(t, fields))
<1> DEFINE kind == IF fields.matchType \in DOMAIN MatchInstruction THEN fields.matchType
                   ELSE "number_names"
           number(p) == IF Field(t, p, "number") \in Figures THEN Field(t, p, "number") ELSE "0"
           D == (IF fields.topic = "" THEN {} ELSE {<<"topic">>})
                       \cup (IF fields.matchType \notin DOMAIN MatchInstruction THEN {}
                             ELSE {<<"instruction_text">>})
           u == [q \in D |-> IF q = <<"topic">> THEN fields.topic ELSE MatchInstruction[kind]]
           E == IF fields.matchType = "" \/ ~IsNumberName(t) THEN {}
                ELSE {Append(p, "name") : p \in Elements(t, <<"pairs">>)}
           w == [q \in E |-> RightText[kind][number(Parent(q))]]
           P == IF IsNumberName(t) THEN Elements(t, <<"pairs">>) ELSE {}
           mid == Overlay(t, u)
<1>1. NumberMatch(t, fields) = Overlay(mid, w)
  BY DEF NumberMatch
<1>2. kind \in DOMAIN MatchInstruction /\ MatchInstruction[kind] \in Text
  <2>1. "number_names" \in DOMAIN MatchInstruction
    BY TextAssumption, Zenon
  <2>2. \A k \in DOMAIN MatchInstruction : MatchInstruction[k] \in Text
    BY LabelAssumption, Zenon
  <2>3. kind \in DOMAIN MatchInstruction
    BY <2>1, Zenon
  <2> HIDE DEF kind
  <2> QED BY <2>2, <2>3, Zenon
<1>3. \A f \in Figures : RightText[kind][f] \in Phrases
  <2>1. RightText \in [DOMAIN MatchInstruction -> [Figures -> Phrases]]
    BY TextAssumption, Zenon
  <2> HIDE DEF kind
  <2> QED BY <1>2, <2>1
<1>4. \A p : number(p) \in Figures
  <2>1. "0" \in Figures
    BY TextAssumption, Zenon
  <2> QED BY <2>1
<1>5. D \subseteq Overrides
  BY Zenon DEF Overrides
<1>6. E \subseteq {Append(p, "name") : p \in P}
  <2>1. CASE IsNumberName(t)
    BY <2>1, Zenon
  <2>2. CASE ~IsNumberName(t)
    BY <2>2, Zenon
  <2> QED BY <2>1, <2>2
<1>7. P = {} \/ (IsNumberName(t) /\ P \subseteq Elements(t, <<"pairs">>))
  BY Zenon
<1>8. \A p \in P : IsRecord(t, p)
  BY <1>7 DEF IsNumberName
<1>9. /\ DOMAIN u = D /\ \A q \in D : u[q] = fields.topic \/ u[q] = MatchInstruction[kind]
      /\ DOMAIN w = E /\ \A q \in E : w[q] = RightText[kind][number(Parent(q))]
  <2> HIDE DEF D, E, number, kind
  <2> QED OBVIOUS
<1> HIDE DEF u, w, D, E, P, number, kind
<1>10. \A q \in DOMAIN u : IsText(u[q])
  BY <1>2, <1>9 DEF IsText
<1>11. \A q \in DOMAIN w : w[q] \in Phrases
  BY <1>3, <1>4, <1>9
<1>12. \A q \in DOMAIN w : IsText(w[q])
  BY <1>11, Zenon DEF IsText, Text
<1>13. Writes(t, mid, DOMAIN u)
  BY <1>5, <1>9, <1>10, OverridesWrite DEF Accepts
<1> HIDE DEF mid
<1>14. Sound(mid)
  BY <1>5, <1>9, <1>13, AcceptedIsSound, OverridesAreSound
<1>15. ASSUME NEW p \in P PROVE IsRecord(mid, p) /\ Len(p) = 2
  <2>1. p \in Elements(t, <<"pairs">>)
    BY <1>7
  <2>2. p \in Seq(STRING) /\ IsPath(p) /\ Len(p) = 2 /\ p[1] = "pairs"
    BY <2>1, PairMeans, SequenceIsPath
  <2>3. \A x \in Overrides : IsPath(x) /\ Len(x) = 1 /\ x[1] # "pairs"
    BY OverridesMean DEF Overrides
  <2>4. ASSUME NEW d \in DOMAIN u, Within(d, p) PROVE FALSE
    <3>1. d \in Overrides
      BY <1>5, <1>9
    <3>2. p[1] = d[1]
      <4>1. 1 \in 1..Len(d)
        BY <2>3, <3>1
      <4> QED BY <2>2, <2>3, <2>4, <3>1, <4>1, WithinMeans
    <3> QED BY <2>2, <2>3, <3>1, <3>2
  <2>5. p \notin DOMAIN u
    BY <2>2, <2>4, WithinItself
  <2> QED BY <1>8, <2>2, <2>4, <2>5, RecordsAreLeft DEF mid
<1>16. Writes(mid, Overlay(mid, w), DOMAIN w)
  BY <1>6, <1>9, <1>12, <1>13, <1>15, NamesWrite DEF Writes
<1>17. \A d \in DOMAIN w : Overlay(mid, w)[d] \in Phrases
  <2>1. \A d \in DOMAIN w : d \in DOMAIN Overlay(mid, w)
    BY <1>16 DEF Writes
  <2>2. \A d \in DOMAIN w : Overlay(mid, w)[d] = w[d]
    BY <2>1, OverlayMeans
  <2> QED BY <1>11, <2>2
<1>18. Sound(Overlay(mid, w))
  BY <1>6, <1>7, <1>9, <1>14, <1>16, <1>17, NamesAreSound
<1> QED BY <1>1, <1>18

---------------------------------------------------------------------------
(* The stored worksheet is sound.                                          *)

\* What is about to be stored is sound, and what pictures are written into has no
\* addresses.
CopyIsSound(p, t, w) ==
    /\ p = "check" => Sound(t) /\ Clean(t)
    /\ p = "images" => Sound(w) /\ Clean(w)
    /\ p = "write" => Sound(w)
RowIsSound == Sound(row.structure) /\ Clean(row.structure)
CopiesAreSound ==
    RowIsSound /\ \A r \in Requests : CopyIsSound(pc[r], base[r], work[r])

\* A step of one request leaves the copies of the others.
LEMMA MovingKeepsSound ==
    ASSUME TreesFit, CopiesAreSound, NEW r \in Requests, NEW p, NEW t, NEW w, NEW d,
           CopyMoves(r, p, t, w, d), CopyIsSound(p, t, w), RowIsSound'
    PROVE  CopiesAreSound'
<1>1. /\ pc'[r] = p /\ base'[r] = t /\ work'[r] = w
      /\ \A q \in Requests \ {r} : pc'[q] = pc[q] /\ base'[q] = base[q] /\ work'[q] = work[q]
  BY DEF TreesFit, CopyShapes, CopyMoves
<1>2. ASSUME NEW q \in Requests PROVE CopyIsSound(pc'[q], base'[q], work'[q])
  <2>1. CASE q = r
    BY <1>1, <2>1
  <2>2. CASE q # r
    BY <1>1, <2>2 DEF CopiesAreSound
  <2> QED BY <2>1, <2>2
<1> QED BY <1>2 DEF CopiesAreSound
\* The row stays.
LEMMA RowStaysSound ==
    ASSUME CopiesAreSound, row'.structure = row.structure PROVE RowIsSound'
BY DEF CopiesAreSound, RowIsSound
\* A request that is not about to write anything needs nothing,
LEMMA ElsewhereIsSound ==
    ASSUME NEW p, p \notin {"check", "images", "write"}, NEW t, NEW w PROVE CopyIsSound(p, t, w)
BY DEF CopyIsSound
\* such as one that leaves its copies,
LEMMA LeavingKeepsSound ==
    ASSUME TreesFit, CopiesAreSound, NEW r \in Requests, NEW step \in Steps \ {"check", "images", "write"},
           Goto(r, step), UNCHANGED copies, row'.structure = row.structure
    PROVE  CopiesAreSound'
<1>1. CopyMoves(r, step, base[r], work[r], todo[r])
  BY CopyFrames DEF TreesFit
<1> QED BY <1>1, ElsewhereIsSound, RowStaysSound, MovingKeepsSound
\* or is refused.
LEMMA RejectKeepsSound ==
    ASSUME TreesFit, CopiesAreSound, NEW r \in Requests, Reject(r) PROVE CopiesAreSound'
<1>1. "failed" \in Steps \ {"check", "images", "write"}
  BY DEF Steps
<1> QED BY <1>1, LeavingKeepsSound DEF Reject, document
\* What is read and what was made of it,
LEMMA TakingKeepsSound ==
    ASSUME TreesFit, CopiesAreSound, NEW r \in Requests, NEW t, NEW step, NEW paths,
           CopyIsSound(step, Source(r), t), Take(r, t, step, paths)
    PROVE  CopiesAreSound'
<1>1. CopyMoves(r, step, Source(r), t, paths) /\ UNCHANGED row
  BY CopyFrames DEF TreesFit
<1> QED BY <1>1, RowStaysSound, MovingKeepsSound
\* and another copy.
LEMMA WorkingKeepsSound ==
    ASSUME TreesFit, CopiesAreSound, NEW r \in Requests, NEW w, NEW step,
           CopyIsSound(step, base[r], w),
           work' = [work EXCEPT ![r] = w], Goto(r, step), UNCHANGED <<op, base, todo, document>>
    PROVE  CopiesAreSound'
<1>1. CopyMoves(r, step, base[r], w, todo[r])
  <2>1. UNCHANGED <<op, base, todo>>
    OBVIOUS
  <2> QED BY <2>1, CopyFrames DEF TreesFit
<1>2. UNCHANGED row
  BY DEF document
<1> QED BY <1>1, <1>2, RowStaysSound, MovingKeepsSound

\* What was accepted is sound when it is stored.
LEMMA ValidatedIsSound ==
    ASSUME NEW t, Rooted(t), Accepted(t) PROVE Sound(Validated(t, Template.lineart))
<1>1. Hangs(Validated(t, Template.lineart))
  BY ValidatedIsRooted DEF Rooted
<1> QED BY <1>1, AcceptedIsSound DEF Accepted
\* It has the same paths.
LEMMA ValidatedIsClean == ASSUME NEW t, Clean(t), NEW l PROVE Clean(Validated(t, l))
BY DEF Clean, Validated, StripLineart

\* edit, regenerate, correctGrammar, uploads and renders begin.
LEMMA ReadsKeepSound ==
    ASSUME TreesFit, CopiesAreSound, NEW r \in Requests,
           ReadForModel(r) \/ ReadForUpload(r) \/ ReadForRender(r)
    PROVE  CopiesAreSound'
<1>1. \/ Reject(r)
      \/ \E t, step, paths : /\ step \notin {"check", "images", "write"}
                             /\ Take(r, t, step, paths)
  <2>1. CASE ReadForModel(r)
    <3>1. Reject(r) \/ Take(r, Source(r), "model", {})
      BY <2>1 DEF ReadForModel
    <3> QED BY <3>1
  <2>2. CASE ReadForUpload(r)
    <3>1. Reject(r) \/ Take(r, row.structure, "upload", {})
      BY <2>2 DEF ReadForUpload
    <3> QED BY <3>1
  <2>3. CASE ReadForRender(r)
    <3>1. \E step \in {"done", "browser", "mark"} : Take(r, EnrichForRender(Source(r)), step, {})
      BY <2>3 DEF ReadForRender
    <3> QED BY <3>1
  <2> QED BY <2>1, <2>2, <2>3
<1> QED BY <1>1, RejectKeepsSound, ElsewhereIsSound, TakingKeepsSound
\* A replacement works on what is stored.
LEMMA ReadForReplaceKeepsSound ==
    ASSUME TreesFit, CopiesAreSound, NEW r \in Requests, ReadForReplace(r) PROVE CopiesAreSound'
<1>1. op[r].kind = "replace" /\ WellFormed(op[r]) /\ Take(r, row.structure, "check", {})
  BY DEF ReadForReplace, Is, TreesFit
<1>2. ~op[r].temp
  BY <1>1, ReplaceIsWellFormed
<1>3. Source(r) = row.structure
  BY <1>2 DEF Source
<1>4. CopyIsSound("check", Source(r), row.structure)
  BY <1>3 DEF CopyIsSound, CopiesAreSound, RowIsSound
<1> QED BY <1>1, <1>4, TakingKeepsSound
\* updateField sets a field and stores what was accepted.
LEMMA UpdateFieldKeepsSound ==
    ASSUME TreesFit, CopiesAreSound, NEW r \in Requests, UpdateField(r) PROVE CopiesAreSound'
<1> DEFINE t == row.structure
           p == op[r].field.path
           u == Put(t, p, Leaf(op[r].value))
           n == Validated(u, Template.lineart)
           step == IF Changed(t, n) = {} THEN "write" ELSE "images"
<1>1. Reject(r) \/ (/\ Has(t, p) /\ CanSet(t, p) /\ Accepted(u)
                    /\ Take(r, n, step, Changed(t, n)))
  BY DEF UpdateField
<1>2. CASE /\ Has(t, p) /\ CanSet(t, p) /\ Accepted(u)
           /\ Take(r, n, step, Changed(t, n))
  <2>1. p \in Seq(STRING)
    <3>1. op[r].kind = "update" /\ WellFormed(op[r])
      BY DEF UpdateField, Is, TreesFit
    <3> QED BY <3>1, Zenon DEF WellFormed
  <2>2. Rooted(t) /\ Hangs(Leaf(op[r].value)) /\ Clean(t)
    BY LeafHangs DEF TreesFit, RowTyped, IsTree, CopiesAreSound, RowIsSound
  <2> HIDE DEF t, p
  <2>3. Rooted(u)
    BY <1>2, <2>1, <2>2, PutIsRooted
  <2>4. Clean(u)
    <3>1. Paths(t) /\ IsPath(p)
      BY <2>1, <2>2, SequenceIsPath DEF Rooted, Hangs, Paths
    <3> QED BY <1>2, <2>2, <3>1, LeafIsClean
  <2> HIDE DEF u
  <2>5. Sound(n) /\ Clean(n)
    BY <1>2, <2>3, <2>4, ValidatedIsSound, ValidatedIsClean
  <2> HIDE DEF n
  <2>6. CopyIsSound(step, Source(r), n)
    BY <2>5 DEF CopyIsSound
  <2> HIDE DEF step
  <2> QED BY <1>2, <2>6, TakingKeepsSound
<1> QED BY <1>1, <1>2, RejectKeepsSound
\* So does a save without pictures.
LEMMA ReadForSaveKeepsSound ==
    ASSUME TreesFit, CopiesAreSound, NEW r \in Requests, ReadForSave(r) PROVE CopiesAreSound'
<1> DEFINE t == SavedFields(op[r], row.structure)
           n == Validated(t, Template.lineart)
<1>1. op[r].kind = "save" /\ WellFormed(op[r]) /\ Rooted(row.structure)
  BY DEF ReadForSave, Is, TreesFit, RowTyped
<1>2. Rooted(t)
  BY <1>1, SavedIsRooted
<1>3. \/ Reject(r)
      \/ Take(r, t, "attach", ImagePaths(op[r]))
      \/ Accepted(t) /\ Take(r, n, "write", {})
  BY DEF ReadForSave
<1> HIDE DEF t
<1>4. Accepted(t) => CopyIsSound("write", Source(r), n)
  BY <1>2, ValidatedIsSound DEF CopyIsSound
<1> HIDE DEF n
<1>5. CopyIsSound("attach", Source(r), t)
  BY ElsewhereIsSound
<1> QED BY <1>3, <1>4, <1>5, RejectKeepsSound, TakingKeepsSound
\* and the model's edit.
LEMMA ModelEditsKeepsSound ==
    ASSUME TreesFit, CopiesAreSound, NEW r \in Requests, ModelEdits(r) PROVE CopiesAreSound'
<1> DEFINE t == base[r]
           p == FieldPath(t, op[r].field)
<1>1. PICK v \in Replies :
         \/ Reject(r)
         \/ /\ CanSet(t, p) /\ Accepted(StripTransient(Put(t, p, Replacement(v))))
            /\ Resolve(r, Validated(StripTransient(Put(t, p, Replacement(v))), Template.lineart))
  BY DEF ModelEdits
<1> DEFINE u == Put(t, p, Replacement(v))
           s == StripTransient(u)
           n == Validated(s, Template.lineart)
<1>2. CASE CanSet(t, p) /\ Accepted(s) /\ Resolve(r, n)
  <2>1. op[r].field.path \in Seq(STRING)
    <3>1. op[r].kind = "edit" /\ WellFormed(op[r])
      BY DEF ModelEdits, Is, TreesFit
    <3> QED BY <3>1, Zenon DEF WellFormed
  <2>2. Rooted(t)
    BY DEF TreesFit, TreeFits
  <2> HIDE DEF t
  <2>3. p \in Seq(STRING)
    BY <1>2, <2>1, <2>2, FieldPathMeans DEF Rooted
  <2> HIDE DEF p
  <2>4. Rooted(u)
    BY <1>2, <2>2, <2>3, ReplacementHangs, PutIsRooted
  <2> HIDE DEF u
  <2>5. Rooted(s) /\ Clean(s)
    <3>1. Paths(u)
      BY <2>4, SequenceIsPath DEF Rooted, Hangs, Paths
    <3> QED BY <2>4, <3>1, StripIsRooted, StripIsClean
  <2> HIDE DEF s
  <2>6. Sound(n) /\ Clean(n)
    BY <1>2, <2>5, ValidatedIsSound, ValidatedIsClean
  <2> HIDE DEF n
  <2> DEFINE d == Changed(t, n)
             step == IF d # {} THEN "images" ELSE IF op[r].temp THEN "done" ELSE "write"
  <2>7. CopyMoves(r, step, t, n, d) /\ row' = row
    <3>1. base = [base EXCEPT ![r] = base[r]]
      BY DEF TreesFit, CopyShapes
    <3> QED BY <1>2, <3>1 DEF Resolve, CopyMoves, Goto, document, t
  <2>8. CopyIsSound(step, t, n)
    BY <2>6 DEF CopyIsSound
  <2> HIDE DEF step, d
  <2> QED BY <2>7, <2>8, RowStaysSound, MovingKeepsSound
<1> QED BY <1>1, <1>2, RejectKeepsSound
\* A correction is not stored.
LEMMA ModelCorrectsKeepsSound ==
    ASSUME TreesFit, CopiesAreSound, NEW r \in Requests, ModelCorrects(r) PROVE CopiesAreSound'
<1>1. \/ Reject(r)
      \/ \E w : /\ work' = [work EXCEPT ![r] = w] /\ Goto(r, "done")
                /\ UNCHANGED <<op, base, todo, document>>
  BY DEF ModelCorrects
<1> QED BY <1>1, RejectKeepsSound, ElsewhereIsSound, WorkingKeepsSound
\* A regeneration stores what was accepted with its overrides.
LEMMA ModelRegeneratesKeepsSound ==
    ASSUME TreesFit, CopiesAreSound, NEW r \in Requests, ModelRegenerates(r) PROVE CopiesAreSound'
<1> DEFINE l == Template.lineart
           raw(answer) == Validated(answer, l)
           new(answer) == Validated(Normalise(raw(answer)), l)
           valid(answer, found) == Validated(Pictured(new(answer), found, l), l)
           step == IF op[r].temp THEN "done" ELSE "write"
<1>1. \/ Reject(r)
      \/ \E answer \in Answers : \E found \in [Wanted(new(answer), l) -> Library \cup {"null"}] :
             /\ IsRecord(raw(answer), <<>>) /\ Accepts(valid(answer, found), Template, TRUE)
             /\ work' = [work EXCEPT ![r] = NumberMatch(valid(answer, found), op[r].fields)]
             /\ Goto(r, step) /\ UNCHANGED <<op, base, todo, document>>
  BY DEF ModelRegenerates, Accepts, Accepted
<1>2. ASSUME NEW answer \in Answers,
             NEW found \in [Wanted(new(answer), l) -> Library \cup {"null"}],
             IsRecord(raw(answer), <<>>), Accepts(valid(answer, found), Template, TRUE),
             work' = [work EXCEPT ![r] = NumberMatch(valid(answer, found), op[r].fields)],
             Goto(r, step), UNCHANGED <<op, base, todo, document>>
      PROVE  CopiesAreSound'
  <2> DEFINE a == raw(answer)
             b == new(answer)
             c == Pictured(b, found, l)
             d == Validated(c, l)
             n == NumberMatch(d, op[r].fields)
  <2>1. Rooted(a)
    <3>1. Hangs(answer)
      BY DocumentAssumption DEF IsTree
    <3>2. KeepsTree(answer, a)
      BY <3>1, ValidatedKeepsTree
    <3> HIDE DEF raw
    <3> QED BY <1>2, <3>2 DEF KeepsTree, Rooted
  <2>2. Rooted(b)
    <3>1. b = Validated(Normalise(a), l)
      OBVIOUS
    <3> HIDE DEF a, b
    <3>2. Rooted(Normalise(a))
      BY <2>1, NormaliseKeepsTree, RootedStays DEF Rooted
    <3> QED BY <3>1, <3>2, ValidatedIsRooted
  <2>3. \A q \in Wanted(b, l) : found[q] \in Assets \cup {"null"}
    <3>1. Library \subseteq Assets
      BY DocumentAssumption
    <3> HIDE DEF b
    <3> QED BY <1>2, <3>1 DEF b
  <2>4. n = NumberMatch(valid(answer, found), op[r].fields) /\ d = valid(answer, found)
    OBVIOUS
  <2> HIDE DEF new, raw, valid, b
  <2>5. Rooted(c)
    <3>1. KeepsTree(b, c)
      BY <2>2, <2>3, PicturedKeepsTree DEF Rooted
    <3> HIDE DEF c
    <3> QED BY <2>2, <3>1, RootedStays
  <2> HIDE DEF c
  <2>6. Hangs(d)
    BY <2>5, ValidatedIsRooted DEF Rooted
  <2> HIDE DEF d
  <2>7. op[r].fields.topic \in Text
    <3>1. op[r].kind = "regenerate" /\ WellFormed(op[r])
      <4>1. op[r].kind = "regenerate"
        BY DEF ModelRegenerates, Is
      <4> QED BY <4>1 DEF TreesFit
    <3> QED BY <3>1, Zenon DEF WellFormed
  <2>8. Sound(n)
    BY <1>2, <2>4, <2>6, <2>7, NumberMatchIsSound
  <2> HIDE DEF n
  <2>9. CopyIsSound(step, base[r], n)
    BY <2>8 DEF CopyIsSound
  <2> HIDE DEF step
  <2> QED BY <1>2, <2>4, <2>9, WorkingKeepsSound
<1> HIDE DEF step, valid
<1> QED BY <1>1, <1>2, RejectKeepsSound
\* A picture that is found leaves its structure sound,
LEMMA FindImageKeepsSound ==
    ASSUME TreesFit, CopiesAreSound, NEW r \in Requests, FindImage(r) PROVE CopiesAreSound'
<1> DEFINE d == todo[r]
           p == CHOOSE q \in d : \A x \in d : Len(q) <= Len(x)
           step == IF d # {p} THEN "images" ELSE IF op[r].temp THEN "done" ELSE "write"
<1>1. PICK found \in Library \cup {"null"} :
         \/ Reject(r)
         \/ /\ found = "null" \/ IsRecord(work[r], p)
            /\ work' = [work EXCEPT ![r] = ApplySlot(work[r], p, found)]
            /\ todo' = [todo EXCEPT ![r] = d \ {p}]
            /\ Goto(r, step) /\ UNCHANGED <<op, base, document>>
  BY DEF FindImage
<1> DEFINE n == ApplySlot(work[r], p, found)
<1>2. CASE /\ found = "null" \/ IsRecord(work[r], p)
           /\ work' = [work EXCEPT ![r] = n]
           /\ todo' = [todo EXCEPT ![r] = d \ {p}]
           /\ Goto(r, step) /\ UNCHANGED <<op, base, document>>
  <2>1. Hangs(work[r]) /\ Sound(work[r]) /\ Clean(work[r])
    BY DEF FindImage, TreesFit, TreeFits, Rooted, CopiesAreSound, CopyIsSound
  <2>2. found \in Assets \cup {"null"}
    BY DocumentAssumption
  <2> HIDE DEF p
  <2>3. Sound(n) /\ Clean(n)
    BY <1>2, <2>1, <2>2, SlotIsSound
  <2> HIDE DEF n
  <2>4. CopyMoves(r, step, base[r], n, d \ {p}) /\ row' = row
    <3>1. base = [base EXCEPT ![r] = base[r]]
      BY DEF TreesFit, CopyShapes
    <3> QED BY <1>2, <3>1 DEF CopyMoves, Goto, document
  <2>5. CopyIsSound(step, base[r], n)
    BY <2>3 DEF CopyIsSound
  <2> HIDE DEF step
  <2> QED BY <2>4, <2>5, RowStaysSound, MovingKeepsSound
<1> QED BY <1>1, <1>2, RejectKeepsSound
\* the last of a save is accepted with it,
LEMMA AttachImageKeepsSound ==
    ASSUME TreesFit, CopiesAreSound, NEW r \in Requests, AttachImage(r) PROVE CopiesAreSound'
<1> DEFINE o == op[r]
           w == work[r]
           d == todo[r]
           i == CHOOSE j \in DOMAIN o.images :
                   /\ o.images[j].path \in d
                   /\ \A k \in DOMAIN o.images : o.images[k].path \in d => j <= k
           p == o.images[i].path
           next == IF o.images[i].key # "" THEN ApplyUserUploadedImage(w, p, o.images[i].key)
                   ELSE ApplyLibraryImage(w, p, o.images[i].asset)
           n == IF d = {p} THEN Validated(next, Template.lineart) ELSE next
           step == IF d = {p} THEN "write" ELSE "attach"
<1>1. pc[r] = "attach" /\ WellFormed(o) /\ TreeFits(o, "attach", base[r], w, d)
  BY DEF AttachImage, TreesFit
<1>2. o.kind = "save" /\ d # {} /\ d \subseteq ImagePaths(o) /\ Rooted(w)
  BY <1>1 DEF TreeFits
<1>3. IsList(o.images) /\ \A k \in DOMAIN o.images : o.images[k].path \in DOMAIN SlotNames
  BY <1>1, <1>2, SaveIsWellFormed
<1>4. i \in DOMAIN o.images /\ p \in d
  BY <1>2, <1>3, FirstImage
<1>5. \/ Reject(r)
      \/ /\ IsRecord(w, p) /\ (d = {p} => Accepted(next)) /\ work' = [work EXCEPT ![r] = n]
         /\ todo' = [todo EXCEPT ![r] = d \ {p}]
         /\ Goto(r, step) /\ UNCHANGED <<op, base, document>>
  BY DEF AttachImage
<1> HIDE DEF i
<1>6. CASE /\ IsRecord(w, p) /\ (d = {p} => Accepted(next)) /\ work' = [work EXCEPT ![r] = n]
           /\ todo' = [todo EXCEPT ![r] = d \ {p}]
           /\ Goto(r, step) /\ UNCHANGED <<op, base, document>>
  <2>1. p \in DOMAIN SlotNames
    BY <1>3, <1>4
  <2> HIDE DEF w, p
  <2>2. /\ KeepsTree(w, ApplyUserUploadedImage(w, p, o.images[i].key))
        /\ KeepsTree(w, ApplyLibraryImage(w, p, o.images[i].asset))
    BY <1>2, <1>6, <2>1, ImageKeepsTree DEF Rooted
  <2>3. Rooted(next)
    <3>1. KeepsTree(w, next)
      BY <2>2
    <3> HIDE DEF next
    <3> QED BY <1>2, <3>1, RootedStays
  <2> HIDE DEF next
  <2>4. step = "write" => Sound(n)
    BY <1>6, <2>3, ValidatedIsSound
  <2>5. CopyIsSound(step, base[r], n)
    BY <2>4 DEF CopyIsSound
  <2> HIDE DEF n
  <2>6. CopyMoves(r, step, base[r], n, d \ {p}) /\ row' = row
    <3>1. base = [base EXCEPT ![r] = base[r]]
      BY DEF TreesFit, CopyShapes
    <3> QED BY <1>6, <3>1 DEF CopyMoves, Goto, document
  <2> HIDE DEF step, o, d
  <2> QED BY <2>5, <2>6, RowStaysSound, MovingKeepsSound
<1> QED BY <1>5, <1>6, RejectKeepsSound
\* and the one that replaces a picture of what is stored leaves that sound.
LEMMA CheckAssetKeepsSound ==
    ASSUME TreesFit, CopiesAreSound, NEW r \in Requests, CheckAsset(r) PROVE CopiesAreSound'
<1> DEFINE p == op[r].images[1].path
           a == op[r].images[1].asset
           n == ApplyLibraryImage(base[r], p, a)
<1>1. \/ Reject(r)
      \/ /\ a \in Library /\ IsRecord(base[r], p) /\ work' = [work EXCEPT ![r] = n]
         /\ Goto(r, "write") /\ UNCHANGED <<op, base, todo, document>>
  BY DEF CheckAsset
<1>2. p \in DOMAIN SlotNames
  <2>1. op[r].kind = "replace" /\ WellFormed(op[r])
    BY DEF CheckAsset, Is, TreesFit
  <2> QED BY <2>1, ReplaceIsWellFormed
<1>3. Rooted(base[r]) /\ Sound(base[r]) /\ Clean(base[r])
  BY DEF CheckAsset, Is, TreesFit, TreeFits, CopiesAreSound, CopyIsSound
<1>4. Library \subseteq Assets
  BY DocumentAssumption
<1> HIDE DEF p, a
<1>5. a \in Library /\ IsRecord(base[r], p) => CopyIsSound("write", base[r], n)
  BY <1>2, <1>3, <1>4, LibraryImageIsSound DEF Rooted, CopyIsSound
<1> HIDE DEF n
<1> QED BY <1>1, <1>5, RejectKeepsSound, WorkingKeepsSound
\* What is written has no addresses.
LEMMA WriteKeepsSound ==
    ASSUME TreesFit, CopiesAreSound, NEW r \in Requests, Write(r) PROVE CopiesAreSound'
<1> DEFINE n == StripTransient(work[r])
<1>1. Hangs(work[r]) /\ Sound(work[r])
  BY DEF Write, TreesFit, TreeFits, Rooted, CopiesAreSound, CopyIsSound
<1>2. Sound(n) /\ Clean(n)
  BY <1>1, StripIsSound
<1>3. row'.structure = n /\ Goto(r, "done") /\ UNCHANGED copies
  BY DEF Write, TreesFit, RowTyped
<1> HIDE DEF n
<1>4. RowIsSound'
  BY <1>2, <1>3 DEF RowIsSound
<1>5. CopyMoves(r, "done", base[r], work[r], todo[r])
  BY <1>3, CopyFrames DEF TreesFit
<1> QED BY <1>4, <1>5, ElsewhereIsSound, MovingKeepsSound
\* Uploads, exceptions and renders store no structure.
LEMMA OthersKeepSound ==
    ASSUME TreesFit, CopiesAreSound, NEW r \in Requests,
           UploadImage(r) \/ Throw(r) \/ RenderStep(r)
    PROVE  CopiesAreSound'
<1> DEFINE Places == Steps \ {"check", "images", "write"}
<1>1. {"done", "browser", "newPage", "capture", "store", "output", "complete", "catch", "failed",
       "post"} \subseteq Places
  BY DEF Steps, RenderSteps
<1> HIDE DEF Places
<1>2. CASE UploadImage(r)
  BY <1>1, <1>2, LeavingKeepsSound DEF UploadImage, Places
<1>3. CASE Throw(r)
  BY <1>3, RejectKeepsSound DEF Throw
<1>4. CASE MarkRendering(r) \/ Complete(r) \/ MarkFailed(r)
  <2>1. \E step \in {"browser", "done", "failed"} : Goto(r, step) /\ UNCHANGED copies
    BY <1>4 DEF MarkRendering, Complete, MarkFailed
  <2>2. row'.structure = row.structure
    <3>1. (\E s : SetStatus(s)) \/ UNCHANGED row
      BY <1>4, Zenon DEF MarkRendering, Complete, MarkFailed
    <3> QED BY <3>1 DEF SetStatus, TreesFit, RowTyped
  <2> QED BY <1>1, <2>1, <2>2, LeavingKeepsSound DEF Places
<1>5. CASE \/ AskBrowser(r) \/ OpenPage(r) \/ Refused(r) \/ Capture(r)
           \/ StoreFile(r) \/ RecordOutput(r) \/ RenderThrows(r) \/ PostMedia(r)
  <2>1. \E step \in {"newPage", "capture", "catch", "store", "post", "done", "output", "complete"} :
            Goto(r, step) /\ UNCHANGED copies /\ UNCHANGED row
    BY <1>5 DEF AskBrowser, OpenPage, Refused, Capture, StoreFile, RecordOutput, RenderThrows,
               PostMedia, document
  <2> QED BY <1>1, <2>1, LeavingKeepsSound DEF Places
<1> QED BY <1>2, <1>3, <1>4, <1>5 DEF RenderStep

\* Every step keeps what is stored sound.
LEMMA SoundKept == TreesFit /\ CopiesAreSound /\ [Next]_vars => CopiesAreSound'
<1> SUFFICES ASSUME TreesFit, CopiesAreSound, [Next]_vars PROVE CopiesAreSound'
  OBVIOUS
<1>1. CASE UNCHANGED worksheetVars
  BY <1>1 DEF CopiesAreSound, RowIsSound, worksheetVars, document
<1>2. ASSUME NEW r \in Requests, WorksheetStep(r) PROVE CopiesAreSound'
  BY <1>2, ReadsKeepSound, UpdateFieldKeepsSound, ReadForSaveKeepsSound,
     ReadForReplaceKeepsSound, ModelEditsKeepsSound, ModelCorrectsKeepsSound,
     ModelRegeneratesKeepsSound, FindImageKeepsSound, AttachImageKeepsSound,
     CheckAssetKeepsSound, WriteKeepsSound, OthersKeepSound DEF WorksheetStep
<1> QED BY <1>1, <1>2 DEF Next, vars
\* What is stored first was accepted.
LEMMA SoundStarts == Init => CopiesAreSound
<1> SUFFICES ASSUME Init PROVE CopiesAreSound
  OBVIOUS
<1>1. /\ pc = [r \in Requests |-> IF op[r].kind = "none" THEN "done" ELSE "begin"]
      /\ row.structure = Stored
  BY Zenon DEF Init, WorksheetInit
<1>2. Hangs(Stored) /\ Accepts(Stored, Template, TRUE) /\ Clean(Stored)
  BY DocumentAssumption DEF IsTree, Clean
<1>3. RowIsSound
  BY <1>1, <1>2, AcceptedIsSound DEF RowIsSound
<1>4. ASSUME NEW r \in Requests PROVE CopyIsSound(pc[r], base[r], work[r])
  <2>1. pc[r] \in {"done", "begin"}
    BY <1>1
  <2> QED BY <2>1, ElsewhereIsSound
<1> QED BY <1>3, <1>4 DEF CopiesAreSound

\* Nor is a deck created that keeps the address of a picture.
CreatedFit == \A d \in created : IsDeck(d) /\ Unsigned(d.cards)
\* Only saveGenerated creates one.
LEMMA CreatedKept == DraftsFit /\ CreatedFit /\ [Next]_vars => CreatedFit'
<1> SUFFICES ASSUME DraftsFit, CreatedFit, [Next]_vars PROVE CreatedFit'
  OBVIOUS
<1>1. CASE UNCHANGED created
  BY <1>1 DEF CreatedFit
<1>2. ASSUME NEW r \in DeckRequests, SaveGenerated(r) PROVE CreatedFit'
  <2> DEFINE d == ask[r].deck
             saved == [d EXCEPT !.cards = Persistable(d.cards)]
  <2>1. UNCHANGED created \/ created' = created \cup {saved}
    BY <1>2 DEF SaveGenerated
  <2>2. at[r] = "template" /\ DraftFits(r) /\ WellAsked(ask[r])
    BY <1>2 DEF SaveGenerated, DraftsFit
  <2>3. IsDeck(d)
    BY <2>2 DEF DraftFits, StepFits, WellAsked
  <2>4. \A s \in DOMAIN d.cards : IsCard(d.cards[s])
    BY <2>3 DEF IsDeck
  <2> HIDE DEF d
  <2>5. IsDeck(saved) /\ Unsigned(saved.cards)
    BY <2>3, <2>4, PersistableIsUnsigned
  <2> HIDE DEF saved
  <2> QED BY <2>1, <2>5 DEF CreatedFit
<1>3. ASSUME NEW r \in DeckRequests, DeckStep(r), ~SaveGenerated(r) PROVE UNCHANGED created
  <2>1. ASSUME DeckRenderStep(r) PROVE UNCHANGED created
    BY <2>1 DEF DeckRenderStep, StartRender, TakeCard, TakeNext, PostFails, FinishRender, AskSecondPage,
                AskPage, OpenCard, CaptureFails, CaptureCard, SaveFile, Lose, DeckReject, Proceed, deckRow
  <2> QED BY <1>3, <2>1 DEF DeckStep, ReadForEdit, DeckModel, Retrieve, SaveEdits, AttachPicture,
                UploadPicture, StoreUpload, UpdateCards, FindDeckTemplate, DeckThrows,
                ReadDeck, Draft, DeckReject, Proceed, deckRow
<1> QED BY <1>1, <1>2, <1>3 DEF Next, vars, deckVars

\* Whatever the requests do to each other's copies: the stored worksheet conforms to the
\* schema but for the overrides of a regeneration, which are written after its validation;
\* its image queries can be used, and no address of an asset is stored.  No picture of a
\* stored deck has an address, or both an asset and an upload.
THEOREM StoredDocumentsAreSound == Spec => []StoredIsSound
<1> DEFINE Inv == TreesFit /\ CopiesAreSound /\ DraftsFit /\ CreatedFit
<1>1. Init => Inv
  <2>1. Init => CreatedFit
    BY DEF Init, DeckInit, CreatedFit
  <2> QED BY <2>1, TreesStart, SoundStarts, DraftsStart
<1>2. Inv /\ [Next]_vars => Inv'
  BY TreesKept, SoundKept, DraftsKept, CreatedKept
<1>3. Inv => StoredIsSound
  <2> SUFFICES ASSUME Inv PROVE StoredIsSound
    OBVIOUS
  <2>1. FitsSchema(Prune(row.structure, Free)) /\ ~HasBadQuery(row.structure)
    BY DEF CopiesAreSound, RowIsSound, Sound
  <2>2. \A p \in DOMAIN row.structure \ {<<>>} : Key(p) \notin TransientKeys
    BY DEF CopiesAreSound, RowIsSound, Clean
  <2>3. ASSUME NEW d \in created \cup {deck}, NEW s \in DOMAIN d.cards
        PROVE  /\ ~d.cards[s].picture.signed
               /\ "null" \in {d.cards[s].picture.asset, d.cards[s].picture.key}
    <3>1. IsDeck(d) /\ Unsigned(d.cards)
      BY DEF DraftsFit, CreatedFit
    <3>2. IsPicture(d.cards[s].picture)
      BY <3>1, Zenon DEF IsDeck, IsCard
    <3> QED BY <3>1, <3>2 DEF Unsigned, IsPicture
  <2> QED BY <2>1, <2>2, <2>3 DEF StoredIsSound, FitsSchema, Free, Schema
<1> QED BY <1>1, <1>2, <1>3, PTL DEF Spec
=============================================================================
