# Formal models of the asset platform

The repository is a NestJS service with three workflows. **Asset ingestion** takes the
image files of a Google Drive folder through four BullMQ queues (download and
de-duplication, S3, Gemini metadata, OpenAI embedding) into a searchable library.
**Flashcards** and **worksheets** ask a language model for content, search the library
for images, assemble, render and store a document. Everything runs in Node processes:
nothing is parallel inside one of them, and everything interleaves at every `await`,
between processes, between queue workers and HTTP requests. Those interleavings, with
what fails or is delivered twice between them, are what the models are about.

Paths below are relative to `src/src/modules/` unless they start with `docs/`.

## 1. Inventory

| Component | State it keeps | Operations | What is hard |
|---|---|---|---|
| Asset pipeline handlers (`pipeline/services/asset-pipeline.service.ts`) | asset, file, source, metadata and embedding rows; S3 objects | one handler per queue, each about ten awaits | files with one content racing to create its asset; redelivery; stages replayed ahead of their input |
| Retry, dead letter, replay (`pipeline-retry.service.ts`) | dead-letter queue, job totals, statuses | `handleFailure`, `scheduleRetry`, `moveToDeadLetter`, `replayFromDlq`, `replayStuck` | several writes per outcome, each of which may fail; operator racing worker |
| Queues and workers (`queue/bullmq/`) | BullMQ jobs in Redis | `sendMessage`, `processPipelineJob` | stalled jobs come back; errors are swallowed |
| Ingestion jobs (`ingestion/ingestion-job.service.ts`) | job and file rows | create, discover, dry run, cleanup of a folder | reads outside the transaction that uses them; restarts |
| Provider calls (`ai/utils/`, `ai/providers/`) | circuit breaker, token bucket, last usage, per provider object | `beforeRequest`, `acquire`, outcome, usage row | answers of overlapping calls report in any order |
| Pipeline tracker (`pipeline-tracker/`) | executions, stage rows, gauges | listener, promise chain per execution | a sequence number read before it is used; ends looking for their start |
| Image retrieval (`flashcards/services/flashcard-image-retrieval.service.ts`) | assets used in a set | search, claim, sign, colours, in two nested pools | slots claim concurrently; a slot fails after its claim |
| Flashcard generation (orchestrator, content, query refinement) | one request | selection, prompt, model, validation, repair, images, assembly, rendering | nested repairs; stages left open by an exception |
| Template selection (flashcards, worksheets) | templates, rules, snapshot of the catalogue, breaker | age filter, ranking, model choice, re-check | templates change while the model chooses; its answer, its usage row and the breaker come apart |
| Worksheet generation | one request, its stream | validation, selection, one call for all sheets, one search for all pictures, composition | what the model answers is anything; sheets finish in any order |
| Stored documents (`flashcard-edit`, `worksheet-edit`, persistence) | one worksheet row, one deck row | edit, save, replace or upload a picture, regenerate, correct | read, await the model, write everything back |
| Rendering (`flashcard-renderer/`, `worksheet-render`) | files, output rows, the status of a worksheet, one shared Chromium | render, download, render and notify; launch, page, disconnect | concurrent launches; a card fails while others are captured; status and files in separate writes |
| Content restrictions (`content-restriction.*`) | rows, registry, sets compiled per country | create, update, remove, reload, guard | a registry read by every guard and replaced by overlapping reloads |
| Search, Redis cache (`search/`, `cache/`) | embedding rows, cached answers | search, batch search, flush | the index changes between the awaits of a search; answers are shared between requests |
| Vector storage (`search/vector-storage.service.ts`) | embedding rows and vectors | store, reuse | two handlers create one row |
| Pure code | none | validators, layout, tokens, prompts, cost sums, error classification | no state |

How they interact: discovery writes file rows and queues messages (calls); handlers share
rows and pass messages (queues); all AI calls of a process share the provider objects
(shared memory); producers tell the tracker by events nobody waits for; a cleanup request
deletes rows that discoveries and handlers hold the ids of (database); all renders of a
process share one browser, and all guards one registry (shared memory). `PROJECT.json`
lists every component with its status, and under `hazards` the places where the code is
exposed, with the property aimed at each.

## 2. Modules

| Module | Models | State and actions |
|---|---|---|
| `PipelineTopology` | states, queues, stage map | constants only |
| `AssetPipeline` | handlers, retry, dead letter, replay, workers | rows as functions of file and content, queues as a bag, a program counter per worker; one action per await |
| `PipelineProperties` | what the pipeline promises | properties |
| `JobLedger` | abstract: one owner per content, duplicates linked, each file counted once | `Claim`, `Prepare`, `Succeed`, `LinkDuplicate`, `Fail` |
| `PipelineLedger` | conservation, and the refinement mapping to `JobLedger` | properties |
| `FolderJobs` | jobs, dry runs, cleanup, against handlers | job, file, link, source, asset rows; discoveries and requests as program counters |
| `ProviderCalls` | breaker, bucket, usage row | one breaker and bucket, callers with a program counter, a clock |
| `ImageRetrieval` | slots of one set | a program counter per slot, the shared set of used assets |
| `FlashcardGeneration` | one request from its validation to the end of its stream | a program counter, the nesting of an inner request (`repairing`), the cards as the validators see them, counts of requests, usage rows and open stage runs, the stream |
| `StageLog` | abstract: the rows a sequence of stage events stands for | pure operators, a recursive function |
| `PipelineTracker` | listener, promise chain, repository statements, gauges | emitted events, events in work, rows, counters |
| `WorksheetStructure` | the JSON of a worksheet and what is done to it | pure operators on trees: paths, image queries, normalisation, overrides, pictures, schema |
| `BrowserPool` | the shared Chromium | browser, promise, launch, live processes, where each client is |
| `WorksheetDocuments` | edits and renders of one stored worksheet | its row, objects and outputs; per request a program counter, the structure it read (`base`) and its copy (`work`) |
| `FlashcardDocuments` | edits, saves and renders of one deck | its row and files; per request the deck it read (`seen`), its copy (`draft`), per page of a render a job |
| `Documents` | both over one browser | composition, properties |
| `FlashcardRanking` | the selection engine | pure operators: who is eligible, in which order |
| `FlashcardSelection` | the choice of a flashcard template, the catalogue snapshot | rules, templates, snapshot, breaker; per selection a program counter, its pool, verdict, rows and reports |
| `WorksheetSelection` | the choice of a worksheet template | age filter and score as operators; active templates, two breakers, per request a program counter and what its calls told and billed |
| `WorksheetGeneration` | a request from its validation to the end of its stream | the model's answer, the sheets, open stages, the lines sent |
| `WorksheetTemplates` | creation of a template with two images, against ingestion and cleanup | asset rows, which of them have a file, template rows; per author a program counter for each image |
| `Generation` | selections, generations and authors together | composition, properties |
| `ContentRestrictions` | restricted words: rows, registry, compiled sets | administrators with a program counter |
| `SearchCache` | Redis: entries, outages, flush | entry per key, the keys a flush has still to delete |
| `LetterSearch` | what a query asks for, which assets fit | pure operators |
| `AssetSearch` | search and batch search over the three before it, and a library that changes | per call its request, its step and a lane for each query |
| `Lists` | the filter of arrays | a recursive function |
| `MC...` | the instances | model values |
| `...Proofs` | inductive invariants and theorems | |

`AssetPipeline` and `FolderJobs` share the tables and meet at the message: the first takes
discovery as its initial state and models every await after it, with retries and
redelivery; the second models discovery and cleanup and takes the stages behind the
creation of an asset as one step. Neither subsumes the other, and a combined state space
would hide both behind its size. `Documents`, `Generation` and `AssetSearch` compose what
shares something at run time: a browser; templates and circuit breakers; the registry and the cache.

### Correspondence worth knowing

*AssetPipeline.* An asset is identified with the hash of its content (`Asset.contentHash` is
unique). `updateStates` is two statements: the asset's, then the file's, which waits in
`pend`. The duplicate write of `STORED_IN_S3` next to another one is merged, and so are
reads of facts that never become false. Job totals are kept per file, so that "counted
twice" is visible. The back-off delay is not timed: a retry may run at once. A crash is
what BullMQ does with a stalled job: its handler is gone and the job is in the queue again.
`recordAttempt` and `recordSuccess` write rows nothing reads and only matter as places that
may throw. `resolveReplayStage` picks one stage; the model lets the operator resume from any
stage in `ReplayStages`. The embedding row and its vector are one step. The status `FAILED`
is declared in the code and written by nobody. Malformed messages, which no sender in the
code produces, are left out.

*FolderJobs.* Asset ids are random and a row makes at most one asset, so an asset bears the
name of the row that made it. A discovery that throws is `failing` until its update to `FAILED`
is through, `unsaid` when that throws as well, and `lost` when a restart takes it. The deleting
transaction is one step; foreign keys do what
`schema.prisma` says (a source goes with its asset or file, a link becomes null, a file goes
with its job). A cleanup with `dryRun` changes nothing and is left out.

*ProviderCalls.* A tick is the time in which the bucket earns a token. The failure count is
only ever compared with the threshold and saturates there. `insideTry` is the shape of the
provider object: the vision and embedding providers ask the breaker before their `try`, the
flashcard content service inside it. `debt` is a history variable: requests not yet paid for
by the passing of time. Ticks are whole: fractions of a refill and callers woken late are left out.

*ImageRetrieval.* `mapWithConcurrency` starts items in order, so a pool is determined by
which items are done. A ranking is any of `Rankings`; scores, filters and query text are data.

*FlashcardGeneration.* `requestContent` calls itself for one card from inside the validation of
a set, and never deeper: `repairing` is 0 in the outer call and names the card in the inner
one. `cards` says of each card what the validators and the scan for forbidden terms would say;
an answer is any such verdict. Stage rows are counted, not listed: `open[stage]` is the number
of runs that have begun and not ended, which is what `StageLog` leaves open; runs without an
await in between leave no trace. An error of the usage table has no code, so the outer call does
not retry it, and the catch around a repair gives it one. Selection is its outcome
(`FlashcardSelection` has its steps), the slots of a card are one step (`ImageRetrieval`),
`tainted` holds the cards whose image queries the refinement, behind the scan, gave a forbidden term,
and the answer of a provider is what its caller sees of `ProviderCalls`. Heartbeats on the
stream are left out.

*PipelineTracker.* `EventEmitter2` runs listeners in the order of emission, so an execution's
events are a sequence. Completion writes (two statements of one row) are one step. AI
invocation records, image-search records and latency averages are not read by anything the
properties speak of and are left out.

*WorksheetStructure.* A structure is the function from its paths to what stands there; a text
is kept as far as the code looks into it (a phrase, a file name, markup, a number, an id).
Tables the code computes from texts (`filenameToSearchQuery`, the "lineart" suffix, number
names) are constants with their assumptions. `CanSet` is where `setValueAtPath` does not throw.
A structure that is read `IsTree`: every value hangs on an object or an array, and no array
leaves a position out. `setValueAtPath` may write behind the end of an array, and the copy then
only `Hangs`: it has a hole, which counts towards the array's length in the validation. A
picture may be found inside the `assetId` of another; when the outer one is given its asset the
inner one is gone, and `applySlot` throws (`LosesPicture`).

*WorksheetDocuments, FlashcardDocuments.* A request is one HTTP call; its reads, model calls,
searches, uploads and writes are steps, each of which may throw. `temp` marks a request about a
worksheet the client sent along, which is not stored. The deck has the components of one card; a
signed address on a picture is the flag `signed`. `ByRequest` says whether files are kept under
the request id in the deck's metadata (local storage), which all renders of one generation share
(`set`), or under their name alone (S3); `files` remembers who wrote each key last. `unsettled` is
a history variable: the last write of a worksheet's end has failed. The validation reworks the
copy it is given (`Validated`), and that is what is stored. The database refuses a `Write` of an
array with a hole (`Gapless`). A regeneration writes the topic and the instruction over the
validated structure, unvalidated. `Stored` is a structure its template accepts; a schema speaks of
what a model writes and not of what an asset adds (`TemplateAssumption`). A picture of a deck has
an asset or an upload, not both, which `AssetReference` says in a comment
(`flashcard.interfaces.ts:107`) and `IsPicture` assumes of what is sent. `preview` and the
endpoints that only return HTML change nothing and are left out.

*BrowserPool.* `promise` outlives the browser it gave, as in the code; only a failed launch or
the end of the process clears it. A launch that ends after the process was told to stop is in.

*FlashcardRanking, FlashcardSelection, WorksheetSelection.* Texts are labels; lower case,
trimming, synonyms and stems are constants. Ages, scores, versions and the order of ties
are computed as in the code. `rows`/`billed` are the usage rows of a selection, `reports`/`told` what
it told the circuit breaker, in order. A late answer behind `withTimeout` is dropped by the code
and is a failed call here. `Withdrawn` and `Retired` name the templates that may be taken
out of use. Cooldowns are not timed: a breaker that has tripped may refuse or let through.

*WorksheetGeneration.* One payload stands for what the model answers, unreadable ones
included; `takeWorksheets` makes sheets of it as the code does. The search of pictures is one
step per attempt. The sheets are not stored: persistence is commented out in the code.

*WorksheetTemplates.* The asset table is shared with the ingestion: for the contents in `folder` its
rows come before their files and a cleanup deletes them (`FolderStep`), at any time. `stored` are
the contents whose row names a file in S3. The image ids of a template are no foreign keys
(`schema.prisma:422`), so nothing happens to it when a row goes.

*ContentRestrictions.* An operation is: write the row, read the active rows, hydrate. `behind`
is a history variable: the last reload failed or was overtaken. A restart seeds and reloads.

*AssetSearch.* Rank, the order of similarity, is data. `steady` is a history variable: the
assets that were embedded all through a call. A command Redis rejects counts as an outage.
Redis entries for single assets, which are written and never read, the usage rows of a search,
its refusal of empty queries and of limits below one, and signed addresses are left out.

## 3. What the runs show

Every cfg but `ProviderCalls` has `CHECK_DEADLOCK FALSE`: queues drain, sets, requests and
searches are answered, jobs end, and then nothing is left to do. The provider model has a
clock and never stops.

| Run | Instance | Shows |
|---|---|---|
| `PipelineFaults` | 2 files of one content, 2 workers, 2 attempts, 1 throw at any await, 1 crash (560k states) | no artifact before the one it is made from; links, sources, messages and running handlers agree (`EverybodyAgrees`); no outcome without its record |
| `PipelineDelivery` | 1 file, 2 workers, 2 failing external calls inside a `runStage` (`StageCalls`), 1 crash, 1 replay from `DEAD_LETTER`, fair (406k states) | until its job counts it, a message or handler carries the file; it is counted in the end |
| `PipelineLedger` | 3 files, two of one content, one corrupt, 1 throw at any await that is retried but the S3 upload (82k states) | held once or counted once; no content described twice, no completed file touched again (`NothingIsRedone`); refinement of `JobLedger` |
| `FolderJobs` | a dry run over one file and a full job over two, all of one content; a cleanup with any parameters; 2 failing statements, 1 restart (1.2m states) | rows, sources and assets never come apart; `JobsTellTheTruth`: a `SCANNING` job has a discovery that runs, that a restart interrupted, or whose update to `FAILED` threw; a job that has said how it ended has none; a `PROCESSING` job has queued all its files, any full job all it has written down but the last; a dry run reports what it left behind |
| `ProviderCalls` | 3 callers, threshold 2, cooldown 2, bucket 2, both shapes | state and failure count agree; the rate is kept; an open circuit reaches the end of its cooldown (guard outside the `try`) |
| `ImageRetrieval` | 2 cards of 2 images, one slot without a query, pools of 2 and 1, 2 attempts | no image twice; nothing passed over but what another slot has; every slot is answered |
| `FlashcardGeneration` | 3 cards, pool of 2, 2 refinement attempts, any answers, refusals, timeouts and losses, a client that may leave (72k states) | a completed answer has every card, from valid and scanned content; requests are bounded and each leaves its usage row (`RequestsAccounted`); stream and stages tell what happened (`ObserversAreToldTheTruth`); a repair is local; every generation ends |
| `PipelineTracker` | 1 execution, 2 stages, 3 stage events in any order, 1 failing statement | timeline gapless; rows are those of `StageLog`; the chain drains |
| `Documents` | one worksheet, one deck of two components, 2 pages; some 170 pairs of requests (`MCScenarios`); 2 browsers in a behaviour; any await may throw (196k states) | types (every write lands on a path that can hold it); what is stored is sound; an edit changes nothing it was not asked for; each page a render answers has a file of that page behind it, written by a render with the same place, and keeps showing its generation under the keys of the local backend (`FilesAreGroupedByRequest`); one browser; every render ends, closes its pages and leaves no worksheet `RENDERING` |
| `Generation` | five flashcard templates, four rules, one upload, one withdrawal; five worksheet templates, six answers of the model, two authors, an image of theirs in a folder that is ingested and cleaned up; thresholds 1 (254k states) | the choice obeys the rules; each call is billed once and as it ended; the answer is usable; the stream is ordered, complete and closed; a template is created by one author with both images (`TemplatesAreCreatedWhole`) |
| `AssetSearch` | three assets, three requests over two queries, one restricted word with rows for two, two administrators, two callers; what meets in a behaviour is drawn from `Occasions` (174k states) | answers fit query, filters and limit whoever cached them; nothing that fits is missed; the guard follows the table; every search ends |

**Bounds.** Two files of one content are what a race for an asset needs; a third of another
content shows that they do not disturb others. Two workers give every pair of handlers; the third
caller of `ProviderCalls` is the one that finds the circuit open while two answers are
outstanding. `MaxAttempts = 2` has a first, a last and no middle attempt: attempts in the middle
behave as the first. One fault at any await, or two at external calls, reach every failure path,
the last attempt included; in `FolderJobs` the second failing statement is the update to `FAILED`
behind the first. A second metadata message for one asset, which takes a redelivery or a replay,
does not occur in `PipelineLedger`, whose properties are about what is delivered once. Three stage
events are the fewest in which two runs of a stage are open when an end comes. Three cards are one
more than the pool and give repairs a first, a middle and a last card; the calls of
`FlashcardGeneration` fail any number of times, and its counters are bounded because the code
bounds them, which is what `RequestsAccounted` says. `MaxFaults`, `MaxCrashes`, `MaxReplays` and
`MaxEvents` are the only bounds on unbounded behaviour of these, and all are guards on the
environment.

In `Documents` two requests of one document are what a lost update or an overtaken status needs;
a scenario fixes what they ask, and for the worksheet every pair of writers, of a writer and a
render, and of renders is one; a deck pairs each of its writers with each edit and save, and
a render with one of the same generation, of another, or of the worksheet.
`MaxBrowsers = 2` lets the browser be lost once and launched again. Two pages with two
workers let one fail while the other works. In `Generation` a threshold of 1 makes a single failure
close a breaker to the next call, and two requests share it; six payloads cover each branch of
`takeWorksheets` and each reason for which a sheet is refused, before the search and after it.
In `AssetSearch` every bound (`MaxCalls`, `MaxEdits`, `MaxChanges`, `MaxFaults`,
`MaxRestarts`, `MaxOutages`, `MaxFlushes`) holds at once, but one behaviour sees only the kinds of
events one of the `Occasions` names, and starts from one library, the combinations the
properties can depend on: the product of all would not be searched in reasonable time. `RowIds`
bounds the rows there can be. `WorkerSymmetry`
permutes worker names in safety runs only; no property names one. The instance of
`PipelineTracker` has one execution: chains of different executions share only the gauges.

**Fairness.** `AssetPipeline`: some worker goes on while one can, and a replay call that has
begun finishes, since every await returns or throws and BullMQ keeps its workers fed;
nothing is assumed of the operator or of failures. `ProviderCalls`: only that time passes.
`ImageRetrieval`, `FlashcardGeneration`: every await returns or throws. `PipelineTracker`:
each promise chain goes on. `Documents`: the renders that have begun, and a launch, go on; nothing
is assumed of edits. `AssetSearch`: the searches go on; Redis need not come back, and nothing is
assumed of administrators. None of the providers is assumed to answer well.

### Where the code and its documents disagree

One run expects a violation. `SelfDuplicate`: an upload to S3 fails after the asset row was
created; the retry finds the row by content hash and completes the file as a duplicate *of
itself*. The object, the metadata and the embedding are never made, and the file counts as
successful.

Further disagreements are stated as properties at the end of the modules and have no run of
their own; each was refuted by TLC on an instance of one or two actors. Documents are under
`src/docs/`.

| Property | Module | Disagreement |
|---|---|---|
| `NothingForgotten`, with an external call outside of `runStage` throwing | `PipelineProperties` | an upload to S3 fails, and when the file is retried with its asset so does the question whether the object is there (`asset-pipeline.service.ts:135`). Nobody calls `handleFailure`; the worker swallows the error because "PipelineRetryService already scheduled retry/DLQ" (`process-pipeline-job.ts:64`) and acknowledges the job. The file stays `RETRY_PENDING`, in no queue and in no counter |
| `NothingForgotten`, with `handleFailure` throwing too | `PipelineProperties` | the worker's `catch` assumes that retry or DLQ was arranged; the file is in no queue and in no counter (`process-pipeline-job.ts:63`, `docs/asset-ingestion/FURTHER_IMPLEMENTATION_PLAN.md:239`: "Never delete a failed message prematurely") |
| `CountedOnce` | `PipelineProperties` | after a crash behind the closing transaction the embedding job counts its file again (`docs/asset-ingestion/IMPLEMENTATION_PLAN.md:643`) |
| `NoRegression` | `PipelineProperties` | `replayFromDlq` writes the status after the message it queued may have been processed (`IMPLEMENTATION_PLAN.md:630`) |
| `HalfOpenAfterCooldown` | `ProviderCalls` | `flashcard-content.service.ts:475` asks the breaker inside its `try`: a rejected request restarts the cooldown, and requests that keep coming keep the circuit open (`circuit-breaker.util.ts:12`) |
| `ClosesAfterTest` | `ProviderCalls` | a late answer closes an open circuit at once (`circuit-breaker.util.ts:12`) |
| `PausedWhileOpen` | `ProviderCalls` | a caller that waits for a token sends although the circuit has opened (`docs/optimization.md:313`) |
| `RowsShowTheirCall` | `ProviderCalls` | a caller that never reached the provider records another call's tokens (`docs/optimization.md:241`) |
| `NotFoundMeansUsed` | `ImageRetrieval` | a slot that fails on the colours after its claim does not give the asset back, and another slot is told that there is none (`docs/flashcards/FLASHCARD_IMAGE_RETRIEVAL.md:205`) |
| `NeverRegeneratesTheSet` | `FlashcardGeneration` | one card that cannot be repaired, or one forbidden term, has the whole set generated again (`docs/flashcards/FLASH_CARD_REVISED.md:510`) |
| `NothingForbiddenReturned` | `FlashcardGeneration` | the refinement writes the image queries of cards that were already scanned (`image-query-refinement.service.ts:255`), so a completed answer may go by a query with a forbidden term (`queryUsed`), although the "OUTPUT GUARD" of `flashcard-prompt.constants.ts:47` is to be there "instead of trusting the model unconditionally" |
| `NoStageLeftRunning` | `FlashcardGeneration` | the validation of an answer with a forbidden term never ends (`FLASH_CARD_REVISED.md:550`: every stage exposes its completion time) |
| `GaugeCountsRunning` | `PipelineTracker` | a failed stage lowers the gauge of executions (`docs/asset-ingestion/MONITORING_PIPELINE.md:336`) |
| `SharedAssetsAreKept` | `FolderJobs` | `skipSharedAssets` is checked outside the deleting transaction (`cleanup-by-folder.dto.ts:26`) |
| `EveryAssetHasASource` | `FolderJobs` | an asset created between the candidates and the deletion loses its source (`ingestion.controller.ts:54`) |
| `EveryJobResumes` | `FolderJobs` | a job that a restart interrupts while `SCANNING`, or whose update to `FAILED` throws, can never be started again (`docs/task.md:683`) |
| `DryRunExpectsContents` | `FolderJobs` | two files of one content count as two expected calls (`docs/optimization.md:171`) |
| `EveryJobCompletes` | `FolderJobs` | `PROCESSING` is the last status of a full job (`docs/task.md:671`) |
| `FilesAreGroupedByRequest`, with `ByRequest = FALSE` | `Documents` | under S3 the renders of all generations write the same keys (`s3-flashcard-render.storage.ts:35`), and one that was answered shows another generation later (`docs/file-generation/prompt1.md:700`: "Keep files grouped by request"). The local backend keeps generations apart, but not two renders of one: the later replaces the files of the earlier |
| `OnlyEnrichmentIsAdded` | `Documents` | the overrides of a regeneration are written after the validation and may add keys the schema does not have (`worksheet-edit.service.ts:669`; `worksheet.constants.ts:11`: "Keys allowed on persisted structure besides the template schema") |
| `TemplateImagesAreStored` | `Generation` | an asset is found by its hash and taken whatever its status (`worksheet-template.service.ts:369`), so a template is created with an image whose file is not in S3 (`docs/worksheets/WORKSHEET_GENERATION_ARCHITECTURE.md:231`: "uploads both images to S3") |
| `AssetsComeFromSearch` | `Generation` | an `assetId` the model invents stays where the search finds nothing (`worksheet-asset.service.ts:285`; `docs/worksheets/WORKSHEET_GENERATION_ARCHITECTURE.md:150`) |
| `AiFailureIsHarmless` | `Generation` | a catalogue that cannot be read fails the selection outside of the `try` (`template-selection-ai.service.ts:141`) |
| `FreshAnswersAreEmbedded` | `AssetSearch` | the lookup of a letter also answers with assets that have no embedding yet (`docs/asset-ingestion/ASSET_SEARCH.md:18`) |
| `CacheIsTransparent` | `AssetSearch` | the number of candidates is not in the key: a wide search gets the answer of a narrow one (`cache-key.util.ts:4`) |
| `RemovalsLast` | `ContentRestrictions` | a default word an administrator has removed is seeded again at the next start (`content-restriction.service.ts:194`) |
| `RegistryCatchesUp` | `ContentRestrictions` | of two reloads the one that read first may hydrate last, and the registry stays behind (`content-restriction.service.ts:38`) |

## 4. What is proved

TLAPS checks every theorem for all values of the constants: any number of files, contents,
workers, jobs, callers, cards, executions, attempts, faults, crashes and replays. The
assumptions are the named `ASSUME`s on the constants, and the hypotheses a theorem states.
Each proof module defines an inductive invariant, proves that it holds at first and that every
step keeps it, and draws the theorems from it.

* **`AssetPipelineProofs`.** `ArtifactChain` alone is not inductive: a handler writes metadata
  because of something it read several awaits earlier. `IInv` adds what handlers hold
  (`HandlersAgree`: the asset is the file's, each await is reached with what it needs) and
  what messages hold (`MessagesFindTheirAsset`). These survive the other actors because rows,
  objects, metadata and embeddings only ever grow (`NothingTakenBack`, itself a theorem). The
  lemmas come in that order: types; the data (`DataStep`); messages (`MessagesStep`);
  handlers (`HandlersStep`).

  What becomes of a file follows in three arguments. (1) Every step is sorted by what it does with
  its file (`StepKind`: takes, keeps, passes on, counts, ...). A handler that holds one passes it
  on or counts it, whatever its next await does, so none is forgotten: `NothingForgotten`, with
  any number of crashes and replays. It needs `FaultPoints \subseteq RetriedAwaits`: where
  `handleFailure` itself throws, or a retried file's object is looked for outside of `runStage`,
  the code does lose the file (section 3). If nothing is delivered twice either (`DeliveredOnce`:
  no crash, no replay) the same sorting gives `HeldOrCountedOnce`; with a crash the code does
  count twice (`CountedOnce`, section 3). (2) `OutcomesAreRecorded`, with no assumption: a failure
  that is counted, and each handler that is about to count one, has a dead-letter message of its
  own (`DeadLettersCover`), so the proof counts handlers and needs finitely many
  (`WorkersAssumption`). (3) Every asset is traced to the one file that created it (`OneOwner`,
  `EveryAssetIsOwned`); messages and handlers behind the creation are about owners
  (`MessagesOfOwners`, `RunsOfOwners`). From it follow `NothingIsRedone` and the refinement, step
  by step: creating a row is `Claim`, storing the embedding `Prepare`, and so on, and all else
  leaves the ledger alone. Both need `ImportedOnce`: delivered once, and no upload throws behind
  its row. A retried upload is the violation `SelfDuplicate`, in which a file becomes a duplicate
  of itself: there is no owner then.
* **`FolderJobsProofs`.** `LinksMatchSources` and `JobsTellTheTruth`. Here assets do disappear.
  What a discovery or a handler carries over an await, and the transactions need, is only that the
  id has the content that was looked for (`FoundHasContent`); that it still exists is checked by
  the foreign keys inside the transaction. `JobsTellTheTruth` follows each job from its creation
  to the end of its discovery (`JobFollows`: `StatusFollows`, `QueueFollows`, `ReportFollows`):
  what is not said as ended runs, was interrupted by a restart or failed to say so; a full job has
  queued every file it has treated, and a dry run has counted each of them once, under its status.
  A message never goes back to `idle`, and a dry run queues nothing, so no handler touches its
  rows. Folders are assumed finite, to be counted.
* **`FlashcardGenerationProofs`.** `AnswerIsWhole` (of the content the model was asked for; the
  refined image queries are not scanned, section 3), `RequestsAccounted`, `RepairKeepsTheRest`,
  `ObserversAreToldTheTruth` and `AcceptedContentCompletes`. What bounds the requests is the order of
  repairs: `Requested` says that an answer has cost its own request and one for each card in
  front of which nothing is left to repair, and the second answer starts from the most the
  first can have cost. `Nesting` keeps an inner request inside the validation of an outer one.
  The observers need more: at each await it is known which stages are open (`StagesFollow`) and
  which lines the stream must have by then (`StreamFollows`).
* **`ServiceProofs`.** Three components with variables of their own. `PipelineTracker`:
  `TimelineSound` and `EndsAreFinal`, from the promise chain: at most one event of an execution is
  worked off, so what it has read is still so. `RowsAreTheEvents` from the same invariant
  (`RowsFollow`): between two events the rows are the reference log of the events begun, and while
  one is worked off its next statement tells how far its row is. The log is a recursive function;
  that it is what its equation says, and does not change when events are added, goes by induction
  over sets of naturals (`InductionOnSets`), because the library's induction theorems take a
  predicate, which no installed prover can instantiate. `ProviderCalls`: `CircuitMatchesFailures`
  and `RateKept`; the latter needs that bucket and debt mirror each other. `ImageRetrieval`:
  `NeverReused`, from claims that are distinct and in the used set; `BestOfTheRest` and
  `RecordsTellTheTruth`, from what a slot knew when it claimed: the used set only grows, so an
  image that was passed over as used still is.
* **`StructureProofs`.** No theorem of its own: what the operators of `WorksheetStructure` keep
  and change, for every tree. Each of them keeps a structure one, with an object at its root and
  no position of an array left out if none was (`KeepsTree`: `PruneKeepsTree`, `FieldsKeepTree`,
  `NormaliseKeepsTree`, `PicturedKeepsTree`, ...); only a value put at a new element may leave a
  hole (`PutHangs`). It rests on the names of fields being no positions and the labels of objects
  and arrays no texts (`LabelAssumption`). Paths stay sequences of keys (`PutPaths`,
  `ValidatedPaths`, ...); addresses of assets stay away (`StripIsClean`, `LeafIsClean`); each
  operator changes nothing but what is at or below some paths (`PruneChanges`, `PatchChanges`,
  ...), and such changes add up (`SameThrough`). `GenerationProofs` and `DocumentsProofs` rest on
  it.
* **`DocumentsProofs`.** `OneBrowser`. `PoolInv` adds to it that the promise is pending exactly
  while a launch is under way, and that a browser is only remembered together with its promise.
  Of all the steps of both documents only the one that asks for a browser moves what the pool shares.
  `FilesStandBehindAnswers`: a row names a file only once it is stored (`OutputsFollow`), and under the
  key of a page that was saved lies a file of that page, put there by a render that has that place and
  has saved the page, this one or a later (`FilePlaced`, `FilesFollow`). It needs no hypothesis on
  the backend. That such a file still shows the same generation is
  `FilesAreGroupedByRequest`, which follows where the key holds the generation (`ByRequest`).
  `WritesOnlyWhatWasAsked` compares the copy a request has made across its awaits with what it
  has read. For a save, a replacement or an upload that is one lemma of `StructureProofs` after
  the other (`CopyFits`). An edit finds the pictures to replace by comparing queries, and which
  they are in the end depends on what it writes; so `EditFits` remembers the copy in which only
  the field was new and shows that the assets written since change no query. For decks
  `DraftsFit` says that what is kept has no signed address and that the draft of an edit has
  all other components as they were read. Assumed of the data: stored, edited and
  generated structures are trees (`DocumentAssumption`), requests are what the DTOs let
  through (`ScenarioAssumption`). The theorem has one hypothesis, `~Template.lineart`: a lineart
  template has the word taken out of every text of a copy that an edit validates, but a save stores
  the texts it is given as they are, so a later edit of another field rewords them too. TLC
  finds that behaviour once the hypothesis is dropped and `Plain` changes a phrase.

  `TypeOK` is not inductive: that a picture can be put where it is wanted depends on what
  the request still has to do. `TreesFit` says of every request that its copy hangs together, that
  what it read has no holes, and that the pictures it has left are paths (of a save: those it was
  asked for). `DecksTyped` and `PoolTypeOK` do the same for decks and browser.

  `StoredIsSound` is about what was validated, and between a validation and its write a request
  awaits searches and uploads. `CopiesAreSound` carries it over: the copy of a request about to
  write is `Sound`, that of one still looking for pictures has no addresses either, and so has the
  row. What is written behind a validation leaves it sound for a reason each: an asset id is under a
  key no schema speaks of (`AddedIsSound`); an override writes a text over a field of the root,
  which is the exception the property makes (`OverridesAreSound`); a number match writes names into
  pairs whose schema has them as texts (`NumberMatchIsSound`). A replacement and an upload are
  not validated at all: what they read was sound, and they add only keys of the first kind. `CreatedFit`
  is the part about new decks: `persistableCards` takes the addresses away before the row is
  created. Assumed of the data: the first worksheet is one its template accepts, and
  schemas are as `TemplateAssumption` says. A closed schema of number pairs without a name is
  excluded by it: the number match would add a key it forbids, and the prompt of these templates
  has the model write both (`worksheet-prompt.constants.ts:236`).
* **`GenerationProofs`.** `CallsAccounted`, `StreamTellsTheTruth`, `ChoiceStands` and
  `AnswerIsUsable`, for both generators, and `TemplatesAreCreatedWhole`. The first two are not
  inductive: both speak of a request whose call or stream is over. `CInv` says what is so at each
  place of a request (`OrderFollows`): what its three calls have told the breaker and written
  (`CallsFollow`), what is on its stream by then (`StreamFollows`), which stages are open
  (`StagesFollow`), and what its sheets are (`SheetsFollow`): trees, between one and as many as
  were asked for, and, once their pictures are in, valid, with usable queries and no address of an
  asset left. The last is what the step behind a search relies on: `compose` draws a sheet the
  template accepts. It goes by induction over lists (`takeWorksheets` filters and cuts) and over
  the paths of a tree. A flashcard template is chosen by the same kind of call, so its places are
  mapped to those of a worksheet's choice (`Counterpart`) and the same lemmas serve both. Assumed
  of the data: answers are trees or unreadable, a tree has finitely many paths, counts are
  naturals.

  A choice is judged when it is made, among the templates the request had read, and by then an
  administrator may have retired some and an author added others. `TInv` follows it from one await
  to the next. `ChoiceFits`: the templates that are left were all written once and passed the age
  filter; while the model is asked they are not decided by their scores; what it named is one of
  the best `TopN`; the pick is the best of them, or what the model named. `RuleFits`: the rules in
  the pool are ranked, the choice is one of them, and unless an answer counted nobody's tier is
  higher. `TemplatesFollow`: an author writes the row of a template only when both its images are
  ready and nobody has written that row before (`TemplatesAreCreatedWhole`); what an ingestion or
  a cleanup does to rows of assets changes neither. That the images' files are there does not
  follow, and is not so (section 3). "The best" has to exist: a finite set has a first
  member in a strict order (`FirstExists`), and the orders of the code are strict because their
  tie-breaks go down to the place in the query (`HigherOrders`) and the rule's id
  (`BeforeOrders`). `AnswerIsUsable` is read off `SheetsFollow`. Assumed of the data: finite
  catalogues and rules, ids and places that are unique, versions that are the same when their
  texts are. The code does not check that a template's lowest age is below its highest, so the
  part of `ChoiceStands` about ages is about those whose ages are in order.

  `TypeOK` follows from both invariants and two small ones: `SheetTyped`, that every
  sheet is a tree wherever the request is (`takeWorksheets` takes subtrees, normalising and
  pictures keep them), that a search is not tried more than `SearchAttempts` times, and that no
  breaker counts past its threshold; and `FlashTyped`, that what was shown to the model and
  what is cached are templates.
* **`AssetSearchProofs`.** `GuardFollowsTheTable`. `IInv`: while no operation is between its write
  and its hydration and none was overtaken, the registry holds the active rows; what is compiled
  for a country is what the registry says of it; a call that was refused runs nothing. It rests on
  `SeedsAssumption`: there are rows enough for the defaults. `AnswersFit` and
  `NothingFittingMissed` follow from `SearchInv`: what a lane holds at each of its awaits
  (`LaneGood`), that a cache entry is an answer to every request of its key (`EntryGood`), and
  that the assets that were there since a call began are embedded still (`SteadyThere`). They rest
  on lemmas about lists: what a filter keeps and a cut leaves, in which order. The second has a
  hypothesis, `WindowsHoldAll`: the library is no larger than the window of a wide search and that
  of the lookup of a letter (`LookupWindow`, taken before the filters), as it is in the run.
  Beyond it the search does miss assets, which is what a window is for. Assumed of the data: every
  query ranks all assets (`SearchAssumption`), and `Keys` are those of the requests
  (`KeysAssumption`).

The type invariants of the pipeline, the provider calls, image retrieval, the tracker,
flashcard generation, folder jobs, the generators and search are theorems too (`TypeCorrect`,
`CallsTypeCorrect`, `GeneratorsAreTyped`, ...) and are not checked again by runs; that of `Documents`
is both.

Only model-checked: liveness (`EveryFileSettles`, `CooldownEnds`, `EverySlotAnswered`,
`TrackerCatchesUp`, `EveryGenerationEnds`, `EverythingSettles`, `EverySearchEnds`) and anything
with `ENABLED`, which are out of the prover's reach. Every invariant, every other action property
and the refinement that a passing run checks are theorems above, under the hypotheses named there.

## 5. What is left

Worth proving next: `WritesOnlyWhatWasAsked` for lineart templates, with the rewording as a part
of what a request may write, and the relation of `AssetPipeline` and `FolderJobs` to one table
model.

**Not modelled.**

* Conversions without state: tokens, layout plans, HTML and CSS renderers, stylesheets, page
  sizes, prompts, taxonomies, number words, brand colours. They make text of a structure,
  and no property here is about the text.
* The wording of requests and answers, text matching of restricted words
  (`topicIsPrimarilyForbidden`, plurals, allow-lists) and the resolution of a free-text
  request. A word list or the outcome stands for them.
* Similarity, which PostgreSQL computes, and listing endpoints that only read
  (`searchImages`, `searchLibrary`, `listMatching`, the tracker's read API).
* Clients of Drive, S3 and the AI services beyond "answers or throws"; image processing
  beyond its verdict and hash.
* Cost sums, metrics and log lines nothing reads back; configuration, modules, controllers
  beyond the stream of a generation; the seeding of templates, which runs once over constants.
