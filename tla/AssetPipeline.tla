--------------------------- MODULE AssetPipeline ---------------------------
(***************************************************************************)
(* The asset pipeline of src/modules/pipeline: the four queue handlers of  *)
(* asset-pipeline.service.ts, the retry, dead-letter and replay paths of   *)
(* pipeline-retry.service.ts, and the worker that runs them                *)
(* (process-pipeline-job.ts), over the rows, objects and messages they     *)
(* share.  Every handler is a coroutine: one action per await that reads   *)
(* or writes shared state, so that handlers interleave between any two.    *)
(*                                                                         *)
(* An asset is identified by its content hash (Asset.contentHash is        *)
(* unique and the pipeline never deletes an asset).                        *)
(***************************************************************************)
EXTENDS Naturals, FiniteSets, PipelineTopology

CONSTANTS
    Files,        \* ingestion files of the jobs being processed
    Hashes,       \* SHA-256 values of image contents
    HashOf,       \* HashOf[f]: the content of f's Drive file
    Corrupt,      \* the files whose content is no valid image
    NoAsset,      \* a missing assetId
    Workers,      \* handler executions that can be active at once
    MaxAttempts,  \* pipeline.maxAttempts
    FaultPoints,  \* the awaits that may throw
    FaultClasses, \* the values classification.retryable may take for them
    ReplayFrom,   \* the statuses an operator looks for
    ReplayStages, \* the stages an operator resumes from
    MaxFaults, MaxCrashes, MaxReplays  \* bounds on the environment

ASSUME FilesAssumption ==
    /\ HashOf \in [Files -> Hashes]
    /\ Corrupt \subseteq Files
    /\ NoAsset \notin Hashes
ASSUME AttemptsAssumption == MaxAttempts \in Nat \ {0}
ASSUME WorkersAssumption == IsFiniteSet(Workers)

VARIABLES
    fileStatus,   \* IngestionFile.status
    fileAsset,    \* IngestionFile.assetId
    source,       \* the AssetSource row of the file: the asset it names
    assetStatus,  \* Asset.status, or "ABSENT" when there is no row
    stored,       \* assets whose object is in S3
    described,    \* assets with an AssetMetadata row
    embedded,     \* assets with an AssetEmbedding row and its vector
    totals,       \* what each file has added to the totals of its job
    queue,        \* how many copies of a message wait in BullMQ
    dlq,          \* dead-letter messages per file (nothing consumes them)
    run,          \* what each worker is executing
    replay,       \* the replayFromDlq call in progress
    budget        \* faults, crashes and replays left

files     == <<fileStatus, fileAsset, source>>
artifacts == <<stored, described, embedded>>
vars == <<fileStatus, fileAsset, source, assetStatus, stored, described,
          embedded, totals, queue, dlq, run, replay, budget>>

MaybeAsset == Hashes \cup {NoAsset}
Message == [queue : Queues, file : Files, asset : MaybeAsset,
            attempt : 1..MaxAttempts]

\* The awaits of the handlers, by the action that performs them.
IngestionPcs == {"begin", "download", "validate", "findDuplicate",
                 "enterUpload", "create", "attach", "upload"}
StagePcs     == {"enter", "checkStored", "markStored", "dispatchAi",
                 "findMetadata", "generate", "markGenerated",
                 "dispatchEmbedding", "setGenerated", "hasEmbedding",
                 "embed", "createEmbedding", "complete", "record"}
FailurePcs   == {"reschedule", "setRetry", "toDlq", "setDead", "countFailed",
                 "end"}
Pcs          == IngestionPcs \cup StagePcs \cup FailurePcs

ASSUME EnvironmentAssumption ==
    /\ FaultPoints \subseteq Pcs
    /\ FaultClasses \subseteq BOOLEAN
    /\ ReplayFrom \subseteq AssetState
    /\ ReplayStages \subseteq ReplayableStages
    /\ MaxFaults \in Nat /\ MaxCrashes \in Nat /\ MaxReplays \in Nat

Idle == [pc |-> "idle"]
\* job: the BullMQ job; asset: message.assetId, which the handler assigns;
\* guarded: inside a runStage that calls handleFailure; pend: the second half
\* of an updateStates call, the write of IngestionFile.status.
Run == [pc : Pcs, job : Message, asset : MaybeAsset, guarded : BOOLEAN,
        pend : AssetState \cup {"none"}]

NoReplay == [pc |-> "idle"]
ReplayCall == [pc : {"setAsset", "setFile"}, file : Files,
               asset : MaybeAsset, stage : ReplayStages]

TypeOK ==
    /\ fileStatus \in [Files -> AssetState]
    /\ fileAsset \in [Files -> MaybeAsset]
    /\ source \in [Files -> MaybeAsset]
    /\ assetStatus \in [Hashes -> AssetState \cup {"ABSENT"}]
    /\ stored \subseteq Hashes
    /\ described \subseteq Hashes
    /\ embedded \subseteq Hashes
    /\ totals \in [Files -> [successful : Nat, duplicate : Nat, failed : Nat]]
    /\ queue \in [Message -> Nat]
    /\ dlq \in [Files -> Nat]
    /\ run \in [Workers -> Run \cup {Idle}]
    /\ replay \in ReplayCall \cup {NoReplay}
    /\ budget \in [faults : Nat, crashes : Nat, replays : Nat]

---------------------------------------------------------------------------
\* enqueueDiscoveredFile has queued one message per discovered file.
Discovered(f) == [queue |-> "ingestion", file |-> f, asset |-> NoAsset,
                  attempt |-> 1]

Init ==
    /\ fileStatus = [f \in Files |-> "DISCOVERED"]
    /\ fileAsset = [f \in Files |-> NoAsset]
    /\ source = [f \in Files |-> NoAsset]
    /\ assetStatus = [h \in Hashes |-> "ABSENT"]
    /\ stored = {} /\ described = {} /\ embedded = {}
    /\ totals = [f \in Files |-> [successful |-> 0, duplicate |-> 0, failed |-> 0]]
    /\ queue = [m \in Message |-> IF m \in {Discovered(f) : f \in Files}
                                  THEN 1 ELSE 0]
    /\ dlq = [f \in Files |-> 0]
    /\ run = [w \in Workers |-> Idle]
    /\ replay = NoReplay
    /\ budget = [faults |-> MaxFaults, crashes |-> MaxCrashes,
                 replays |-> MaxReplays]

---------------------------------------------------------------------------
Exists(h) == h # NoAsset /\ assetStatus[h] # "ABSENT"

\* Worker w is about to perform the await pc.
At(w, pc) == run[w].pc = pc /\ run[w].pend = "none"
Goto(w, pc) == run' = [run EXCEPT ![w].pc = pc]
FileOf(w) == run[w].job.file

\* updateStates(message, state): the asset first when the message names one,
\* then the file, in a second statement (WriteFileStatus).
UpdateStates(w, state, next) ==
    \/ /\ run[w].asset = NoAsset
       /\ fileStatus' = [fileStatus EXCEPT ![FileOf(w)] = state]
       /\ Goto(w, next)
       /\ UNCHANGED assetStatus
    \/ /\ run[w].asset # NoAsset
       /\ assetStatus' = [assetStatus EXCEPT ![run[w].asset] = state]
       /\ run' = [run EXCEPT ![w].pc = next, ![w].pend = state]
       /\ UNCHANGED fileStatus

WriteFileStatus(w) ==
    /\ run[w] # Idle /\ run[w].pend # "none"
    /\ fileStatus' = [fileStatus EXCEPT ![FileOf(w)] = run[w].pend]
    /\ run' = [run EXCEPT ![w].pend = "none"]
    /\ UNCHANGED <<fileAsset, source, assetStatus, artifacts, totals, queue,
                   dlq, replay, budget>>

Send(m) == queue' = [queue EXCEPT ![m] = @ + 1]

\* The message the handler of w dispatches to the next stage.
NextMessage(w, q) == [queue |-> q, file |-> FileOf(w), asset |-> run[w].asset,
                      attempt |-> 1]

\* handleFailure: a retry while the error is retryable and attempts are left,
\* the dead-letter queue otherwise.
FailWith(w, retryable) ==
    run' = [run EXCEPT
              ![w].pend = "none",
              ![w].pc = IF retryable /\ run[w].job.attempt < MaxAttempts
                        THEN "reschedule" ELSE "toDlq"]

---------------------------------------------------------------------------
(* Worker: processPipelineJob takes a job and runs the handler of its queue. *)
ProcessPipelineJob(w, m) ==
    /\ run[w] = Idle
    /\ queue[m] > 0
    /\ queue' = [queue EXCEPT ![m] = @ - 1]
    /\ run' = [run EXCEPT ![w] =
                 [pc |-> IF m.queue = "ingestion" THEN "begin" ELSE "enter",
                  job |-> m, asset |-> m.asset, pend |-> "none",
                  guarded |-> m.queue # "ingestion"]]
    /\ UNCHANGED <<files, assetStatus, artifacts, totals, dlq, replay, budget>>

\* runStage of the handler's entry stage.
RunStage(w) ==
    LET work == [ingestion |-> "download", s3Upload |-> "checkStored",
                 aiMetadata |-> "findMetadata", embedding |-> "hasEmbedding"]
        q == run[w].job.queue
    IN  /\ At(w, "enter")
        /\ UpdateStates(w, EntryStage[q], work[q])
        /\ UNCHANGED <<fileAsset, source, artifacts, totals, queue, dlq,
                       replay, budget>>

\* recordSuccess, or the last await of a failure path, then the job is done.
Finish(w) ==
    /\ At(w, "record") \/ At(w, "end")
    /\ run' = [run EXCEPT ![w] = Idle]
    /\ UNCHANGED <<files, assetStatus, artifacts, totals, queue, dlq, replay,
                   budget>>
---------------------------------------------------------------------------
(* processIngestionStage *)

\* A message that names a stored asset resumes after S3 (resumeAfterS3),
\* outside runStage; any other starts from the download, inside it.  Whether
\* the asset has its object is asked of S3 (fileExists), outside runStage too:
\* when that call throws, the error goes straight to processPipelineJob.
BeginIngestion(w) ==
    LET h == run[w].asset
    IN  /\ At(w, "begin")
        /\ \/ /\ Exists(h) /\ h \in stored
              /\ Goto(w, IF h \in described THEN "dispatchEmbedding" ELSE "markStored")
           \/ /\ ~ (Exists(h) /\ h \in stored)
              /\ run' = [run EXCEPT ![w].pc = "enter", ![w].guarded = TRUE]
        /\ UNCHANGED <<files, assetStatus, artifacts, totals, queue, dlq,
                       replay, budget>>

\* The Drive file is downloaded; runStage(VALIDATING).
DownloadFile(w) ==
    /\ At(w, "download")
    /\ UpdateStates(w, "VALIDATING", "validate")
    /\ UNCHANGED <<fileAsset, source, artifacts, totals, queue, dlq, replay,
                   budget>>

\* validateImage, then runStage(HASHING); "Corrupted or invalid image" is a
\* non-retryable error.
ValidateImage(w) ==
    /\ At(w, "validate")
    /\ \/ /\ FileOf(w) \in Corrupt
          /\ FailWith(w, FALSE)
          /\ UNCHANGED <<fileStatus, assetStatus>>
       \/ /\ FileOf(w) \notin Corrupt
          /\ UpdateStates(w, "HASHING", "findDuplicate")
    /\ UNCHANGED <<fileAsset, source, artifacts, totals, queue, dlq, replay,
                   budget>>

\* asset.findUnique by content hash.
FindDuplicate(w) ==
    /\ At(w, "findDuplicate")
    /\ Goto(w, IF Exists(HashOf[FileOf(w)]) THEN "attach" ELSE "enterUpload")
    /\ UNCHANGED <<files, assetStatus, artifacts, totals, queue, dlq, replay,
                   budget>>

\* Mutants of the next action: the caller does not return after it; the file is
\* not counted as a duplicate.
AttachAs(w, next, duplicates) ==
    LET f == FileOf(w)
        h == HashOf[f]
    IN  /\ At(w, "attach")
        /\ source' = [source EXCEPT ![f] = h]
        /\ fileAsset' = [fileAsset EXCEPT ![f] = h]
        /\ fileStatus' = [fileStatus EXCEPT ![f] = "COMPLETED"]
        /\ totals' = [totals EXCEPT ![f].successful = @ + 1,
                                    ![f].duplicate = @ + duplicates]
        /\ run' = [run EXCEPT ![w].pc = next, ![w].asset = h]
        /\ UNCHANGED <<assetStatus, artifacts, queue, dlq, replay, budget>>
AttachWithoutReturn(w) == AttachAs(w, "markStored", 1)
AttachUncounted(w) == AttachAs(w, "record", 0)

\* attachToExistingAsset: one transaction, the asset row is not touched.
AttachToExistingAsset(w) ==
    LET f == FileOf(w)
        h == HashOf[f]
    IN  /\ At(w, "attach")
        /\ source' = [source EXCEPT ![f] = IF @ = NoAsset THEN h ELSE @]
        /\ fileAsset' = [fileAsset EXCEPT ![f] = h]
        /\ fileStatus' = [fileStatus EXCEPT ![f] = "COMPLETED"]
        /\ totals' = [totals EXCEPT ![f].successful = @ + 1,
                                    ![f].duplicate = @ + 1]
        /\ run' = [run EXCEPT ![w].pc = "record", ![w].asset = h]
        /\ UNCHANGED <<assetStatus, artifacts, queue, dlq, replay, budget>>

\* runStage(UPLOADING_TO_S3), nested.
EnterUpload(w) ==
    /\ At(w, "enterUpload")
    /\ UpdateStates(w, "UPLOADING_TO_S3", "create")
    /\ UNCHANGED <<fileAsset, source, artifacts, totals, queue, dlq, replay,
                   budget>>

\* The transaction that creates asset and source and links the file; on P2002
\* the asset that won the race is attached instead.
CreateAsset(w) ==
    LET f == FileOf(w)
        h == HashOf[f]
    IN  /\ At(w, "create")
        /\ \/ /\ ~ Exists(h)
              /\ assetStatus' = [assetStatus EXCEPT ![h] = "UPLOADING_TO_S3"]
              /\ source' = [source EXCEPT ![f] = h]
              /\ fileAsset' = [fileAsset EXCEPT ![f] = h]
              /\ fileStatus' = [fileStatus EXCEPT ![f] = "UPLOADING_TO_S3"]
              /\ run' = [run EXCEPT ![w].pc = "upload", ![w].asset = h]
           \/ /\ Exists(h)
              /\ Goto(w, "attach")
              /\ UNCHANGED <<files, assetStatus>>
        /\ UNCHANGED <<artifacts, totals, queue, dlq, replay, budget>>

\* uploadFile, unless the object is already there.
UploadFile(w) ==
    /\ At(w, "upload")
    /\ stored' = stored \cup {run[w].asset}
    /\ Goto(w, "markStored")
    /\ UNCHANGED <<files, assetStatus, described, embedded, totals, queue, dlq,
                   replay, budget>>

\* Mutant: the AI stage is never dispatched.
MarkStoredOnly(w) ==
    /\ At(w, "markStored")
    /\ UpdateStates(w, "STORED_IN_S3", "record")
    /\ UNCHANGED <<fileAsset, source, artifacts, totals, queue, dlq, replay,
                   budget>>

\* asset.update(STORED_IN_S3) and updateStates(STORED_IN_S3), on the upload,
\* the resume and the s3Upload path.
MarkStored(w) ==
    /\ At(w, "markStored")
    /\ UpdateStates(w, "STORED_IN_S3", "dispatchAi")
    /\ UNCHANGED <<fileAsset, source, artifacts, totals, queue, dlq, replay,
                   budget>>

DispatchAiMetadata(w) ==
    /\ At(w, "dispatchAi")
    /\ Send(NextMessage(w, "aiMetadata"))
    /\ Goto(w, "record")
    /\ UNCHANGED <<files, assetStatus, artifacts, totals, dlq, replay, budget>>
---------------------------------------------------------------------------
(* processS3UploadStage *)

\* A missing object is an unclassified, hence non-retryable, error.
CheckStored(w) ==
    LET h == run[w].asset
    IN  /\ At(w, "checkStored")
        /\ \/ h \notin stored /\ FailWith(w, FALSE)
           \/ h \in stored /\ h \in described /\ Goto(w, "dispatchEmbedding")
           \/ h \in stored /\ h \notin described /\ Goto(w, "markStored")
        /\ UNCHANGED <<files, assetStatus, artifacts, totals, queue, dlq,
                       replay, budget>>

\* updateStates(METADATA_GENERATED), after the embedding message was sent.
SetGenerated(w) ==
    /\ At(w, "setGenerated")
    /\ UpdateStates(w, "METADATA_GENERATED", "record")
    /\ UNCHANGED <<fileAsset, source, artifacts, totals, queue, dlq, replay,
                   budget>>
---------------------------------------------------------------------------
(* processAiMetadataStage *)

FindMetadata(w) ==
    /\ At(w, "findMetadata")
    /\ Goto(w, IF run[w].asset \in described THEN "markGenerated" ELSE "generate")
    /\ UNCHANGED <<files, assetStatus, artifacts, totals, queue, dlq, replay,
                   budget>>

\* generateAndSaveForAsset: downloads the object (a missing one is an
\* unclassified error), asks the model, and in one transaction saves the
\* metadata and the asset's status.
GenerateMetadata(w) ==
    LET h == run[w].asset
    IN  /\ At(w, "generate")
        /\ \/ /\ h \in stored
              /\ described' = described \cup {h}
              /\ assetStatus' = [assetStatus EXCEPT ![h] = "METADATA_GENERATED"]
              /\ Goto(w, "markGenerated")
           \/ /\ h \notin stored
              /\ FailWith(w, FALSE)
              /\ UNCHANGED <<described, assetStatus>>
        /\ UNCHANGED <<files, stored, embedded, totals, queue, dlq, replay,
                       budget>>

MarkGenerated(w) ==
    /\ At(w, "markGenerated")
    /\ assetStatus' = [assetStatus EXCEPT ![run[w].asset] = "METADATA_GENERATED"]
    /\ fileStatus' = [fileStatus EXCEPT ![FileOf(w)] = "METADATA_GENERATED"]
    /\ Goto(w, "dispatchEmbedding")
    /\ UNCHANGED <<fileAsset, source, artifacts, totals, queue, dlq, replay,
                   budget>>

\* dispatchEmbedding: of the ingestion (resume), s3Upload and aiMetadata
\* handlers; only s3Upload still has a status to write.
DispatchEmbedding(w) ==
    /\ At(w, "dispatchEmbedding")
    /\ Send(NextMessage(w, "embedding"))
    /\ Goto(w, IF run[w].job.queue = "s3Upload" THEN "setGenerated" ELSE "record")
    /\ UNCHANGED <<files, assetStatus, artifacts, totals, dlq, replay, budget>>
---------------------------------------------------------------------------
(* processEmbeddingStage *)

\* Mutant: the test is inverted.
LacksEmbeddingForHash(w) ==
    /\ At(w, "hasEmbedding")
    /\ Goto(w, IF run[w].asset \in embedded THEN "embed" ELSE "complete")
    /\ UNCHANGED <<files, assetStatus, artifacts, totals, queue, dlq, replay,
                   budget>>

HasEmbeddingForHash(w) ==
    /\ At(w, "hasEmbedding")
    /\ Goto(w, IF run[w].asset \in embedded THEN "complete" ELSE "embed")
    /\ UNCHANGED <<files, assetStatus, artifacts, totals, queue, dlq, replay,
                   budget>>

\* generateEmbedding, then storeEmbedding looks for a row to reuse.
GenerateEmbedding(w) ==
    /\ At(w, "embed")
    /\ Goto(w, IF run[w].asset \in embedded THEN "complete" ELSE "createEmbedding")
    /\ UNCHANGED <<files, assetStatus, artifacts, totals, queue, dlq, replay,
                   budget>>

\* assetEmbedding.create: AssetEmbedding.assetId is unique, so the second of
\* two racing handlers gets P2002, an unclassified error.
CreateEmbedding(w) ==
    LET h == run[w].asset
    IN  /\ At(w, "createEmbedding")
        /\ \/ /\ h \notin embedded
              /\ embedded' = embedded \cup {h}
              /\ Goto(w, "complete")
           \/ /\ h \in embedded
              /\ FailWith(w, FALSE)
              /\ UNCHANGED embedded
        /\ UNCHANGED <<files, assetStatus, stored, described, totals, queue,
                       dlq, replay, budget>>

\* The closing transaction: asset, file and job totals.
MarkCompleted(w) ==
    LET f == FileOf(w)
    IN  /\ At(w, "complete")
        /\ assetStatus' = [assetStatus EXCEPT ![run[w].asset] = "COMPLETED"]
        /\ fileStatus' = [fileStatus EXCEPT ![f] = "COMPLETED"]
        /\ totals' = [totals EXCEPT ![f].successful = @ + 1]
        /\ Goto(w, "record")
        /\ UNCHANGED <<fileAsset, source, artifacts, queue, dlq, replay, budget>>
---------------------------------------------------------------------------
(* pipeline-retry.service.ts *)

\* Mutants of the next action: the retry forgets the assetId; handleFailure
\* does not return after it.
ScheduleRetryAs(w, asset, next) ==
    /\ At(w, "reschedule")
    /\ Send([run[w].job EXCEPT !.asset = asset, !.attempt = @ + 1])
    /\ Goto(w, next)
    /\ UNCHANGED <<files, assetStatus, artifacts, totals, dlq, replay, budget>>
ScheduleRetryForgetful(w) == ScheduleRetryAs(w, NoAsset, "setRetry")
ScheduleRetryAndFail(w) == ScheduleRetryAs(w, run[w].asset, "toDlq")

\* scheduleRetry: the retry is queued before the status says so.
ScheduleRetry(w) ==
    /\ At(w, "reschedule")
    /\ Send([run[w].job EXCEPT !.asset = run[w].asset, !.attempt = @ + 1])
    /\ Goto(w, "setRetry")
    /\ UNCHANGED <<files, assetStatus, artifacts, totals, dlq, replay, budget>>

SetRetryPending(w) ==
    /\ At(w, "setRetry")
    /\ UpdateStates(w, "RETRY_PENDING", "end")
    /\ UNCHANGED <<fileAsset, source, artifacts, totals, queue, dlq, replay,
                   budget>>

\* Mutant: no dead-letter message.
MoveToDeadLetterSilently(w) ==
    /\ At(w, "toDlq")
    /\ Goto(w, "setDead")
    /\ UNCHANGED <<files, assetStatus, artifacts, totals, queue, dlq, replay, budget>>

\* moveToDeadLetter: message, then statuses, then the job's counter.
MoveToDeadLetter(w) ==
    /\ At(w, "toDlq")
    /\ dlq' = [dlq EXCEPT ![FileOf(w)] = @ + 1]
    /\ Goto(w, "setDead")
    /\ UNCHANGED <<files, assetStatus, artifacts, totals, queue, replay, budget>>

\* Mutant: totalFailed is never incremented.
SetDeadLetterUncounted(w) ==
    /\ At(w, "setDead")
    /\ UpdateStates(w, "DEAD_LETTER", "end")
    /\ UNCHANGED <<fileAsset, source, artifacts, totals, queue, dlq, replay,
                   budget>>

SetDeadLetter(w) ==
    /\ At(w, "setDead")
    /\ UpdateStates(w, "DEAD_LETTER", "countFailed")
    /\ UNCHANGED <<fileAsset, source, artifacts, totals, queue, dlq, replay,
                   budget>>

CountFailed(w) ==
    /\ At(w, "countFailed")
    /\ totals' = [totals EXCEPT ![FileOf(w)].failed = @ + 1]
    /\ Goto(w, "end")
    /\ UNCHANGED <<files, assetStatus, artifacts, queue, dlq, replay, budget>>

\* findStuckIngestionFiles: the file, or the asset it is linked to, shows one
\* of the statuses looked for.
Stuck(f) ==
    \/ fileStatus[f] \in ReplayFrom
    \/ Exists(fileAsset[f]) /\ assetStatus[fileAsset[f]] \in ReplayFrom

\* replayFromDlq: checks, dispatch with attempt 1, and only then the statuses.
ReplayFromDlq(f, stage) ==
    LET q == CHOOSE q \in Queues : stage \in StagesOf(q)
    IN  /\ replay = NoReplay
        /\ budget.replays > 0
        /\ Stuck(f)
        /\ q # "ingestion" => Exists(fileAsset[f])
        /\ q = "embedding" => fileAsset[f] \in described
        /\ Send([queue |-> q, file |-> f, asset |-> fileAsset[f], attempt |-> 1])
        /\ replay' = [pc |-> IF fileAsset[f] = NoAsset THEN "setFile" ELSE "setAsset",
                      file |-> f, asset |-> fileAsset[f], stage |-> stage]
        /\ budget' = [budget EXCEPT !.replays = @ - 1]
        /\ UNCHANGED <<files, assetStatus, artifacts, totals, dlq, run>>

ReplaySetAsset ==
    /\ replay.pc = "setAsset"
    /\ assetStatus' = [assetStatus EXCEPT ![replay.asset] = replay.stage]
    /\ replay' = [replay EXCEPT !.pc = "setFile"]
    /\ UNCHANGED <<files, artifacts, totals, queue, dlq, run, budget>>

ReplaySetFile ==
    /\ replay.pc = "setFile"
    /\ fileStatus' = [fileStatus EXCEPT ![replay.file] = replay.stage]
    /\ replay' = NoReplay
    /\ UNCHANGED <<fileAsset, source, assetStatus, artifacts, totals, queue,
                   dlq, run, budget>>
---------------------------------------------------------------------------
(* Environment *)

\* An await throws.  Inside runStage handleFailure takes over; outside it, and
\* when handleFailure itself throws, processPipelineJob swallows the error and
\* BullMQ counts the job as done.  At "begin" only a message with an asset awaits
\* anything (findUnique, S3 fileExists).
Fault(w) ==
    /\ run[w].pc \in FaultPoints
    /\ run[w].pc = "begin" => run[w].asset # NoAsset
    /\ budget.faults > 0
    /\ budget' = [budget EXCEPT !.faults = @ - 1]
    /\ \/ /\ run[w].guarded /\ run[w].pc \notin FailurePcs
          /\ \E retryable \in FaultClasses : FailWith(w, retryable)
       \/ /\ ~ run[w].guarded \/ run[w].pc \in FailurePcs
          /\ run' = [run EXCEPT ![w] = Idle]
    /\ UNCHANGED <<files, assetStatus, artifacts, totals, queue, dlq, replay>>

\* The worker process dies; BullMQ finds the job stalled and delivers it again
\* as it was queued.
Crash(w) ==
    /\ run[w] # Idle
    /\ budget.crashes > 0
    /\ budget' = [budget EXCEPT !.crashes = @ - 1]
    /\ Send(run[w].job)
    /\ run' = [run EXCEPT ![w] = Idle]
    /\ UNCHANGED <<files, assetStatus, artifacts, totals, dlq, replay>>
---------------------------------------------------------------------------
Ingest(w) ==
    \/ BeginIngestion(w) \/ DownloadFile(w) \/ ValidateImage(w)
    \/ FindDuplicate(w) \/ AttachToExistingAsset(w) \/ EnterUpload(w)
    \/ CreateAsset(w) \/ UploadFile(w) \/ MarkStored(w) \/ DispatchAiMetadata(w)
S3Upload(w) == CheckStored(w) \/ SetGenerated(w)
AiMetadata(w) ==
    FindMetadata(w) \/ GenerateMetadata(w) \/ MarkGenerated(w) \/ DispatchEmbedding(w)
Embedding(w) ==
    \/ HasEmbeddingForHash(w) \/ GenerateEmbedding(w) \/ CreateEmbedding(w)
    \/ MarkCompleted(w)
HandleFailure(w) ==
    \/ ScheduleRetry(w) \/ SetRetryPending(w)
    \/ MoveToDeadLetter(w) \/ SetDeadLetter(w) \/ CountFailed(w)

Work(w) ==
    \/ \E m \in Message : ProcessPipelineJob(w, m)
    \/ RunStage(w) \/ WriteFileStatus(w) \/ Finish(w)
    \/ Ingest(w) \/ S3Upload(w) \/ AiMetadata(w) \/ Embedding(w)
    \/ HandleFailure(w)
Replay == \/ \E f \in Files, stage \in ReplayStages : ReplayFromDlq(f, stage)
          \/ ReplaySetAsset \/ ReplaySetFile

Next == (\E w \in Workers : Work(w) \/ Fault(w) \/ Crash(w)) \/ Replay

Spec == Init /\ [][Next]_vars

\* BullMQ workers poll for ever and every await of the handlers returns or
\* throws, so some worker with work to do always takes a step.
FairSpec == Spec /\ WF_vars(\E w \in Workers : Work(w))
                 /\ WF_vars(ReplaySetAsset \/ ReplaySetFile)
===========================================================================
