------------------------ MODULE AssetPipelineProofs ------------------------
(***************************************************************************)
(* Theorems about the asset pipeline for every number of files, hashes,    *)
(* workers, attempts, faults, crashes and replays, wherever the awaits may *)
(* throw.                                                                  *)
(*                                                                         *)
(* First what the tables hold: no row is there without those it was made   *)
(* from, and everybody agrees on who has which asset.  Then what becomes   *)
(* of the files of a job, in three arguments, each the ground of the next. *)
(* The steps are sorted by what becomes of the file they are about: it     *)
(* stays with its handler, goes on in a message, is counted.  From that    *)
(* follows that no file is lost, and that it is counted once.  Then every  *)
(* status that is shown is traced to the message or the count behind it.   *)
(* Last, every asset is traced to the one file that created it: no work is *)
(* redone, and the pipeline implements JobLedger.                          *)
(***************************************************************************)
EXTENDS PipelineLedger, FiniteSetTheorems, TLAPS

---------------------------------------------------------------------------
(* Facts about single operators. *)

\* A worker that is about to perform an await is running a job.
LEMMA AtRuns ==
  ASSUME TypeOK, NEW w \in Workers, NEW pc \in Pcs, run[w].pc = pc
  PROVE  run[w] \in Run
BY DEF TypeOK, Idle, Pcs, IngestionPcs, StagePcs, FailurePcs

\* An active worker is running a job.
LEMMA ActiveRuns ==
  ASSUME TypeOK, NEW w \in Workers, run[w] # Idle
  PROVE  run[w] \in Run
BY DEF TypeOK

\* What a job record holds.
LEMMA RunFields ==
  ASSUME NEW r \in Run
  PROVE  /\ r.pc \in Pcs /\ r.job \in Message /\ r.asset \in MaybeAsset
         /\ r.guarded \in BOOLEAN /\ r.pend \in AssetState \cup {"none"}
         /\ r.job.file \in Files /\ r.job.queue \in Queues
         /\ r.job.asset \in MaybeAsset /\ r.job.attempt \in 1..MaxAttempts
BY DEF Run, Message

\* Moving on to another await keeps the record well formed.
LEMMA GotoType ==
  ASSUME TypeOK, NEW w \in Workers, NEW pc \in Pcs, run[w] \in Run, Goto(w, pc)
  PROVE  run' \in [Workers -> Run \cup {Idle}]
BY DEF TypeOK, Goto, Run

\* Both forms of updateStates keep the rows and the record well formed.
LEMMA UpdateStatesType ==
  ASSUME TypeOK, NEW w \in Workers, NEW state \in AssetState, NEW pc \in Pcs,
         run[w] \in Run, UpdateStates(w, state, pc)
  PROVE  /\ run' \in [Workers -> Run \cup {Idle}]
         /\ fileStatus' \in [Files -> AssetState]
         /\ assetStatus' \in [Hashes -> AssetState \cup {"ABSENT"}]
BY GotoType DEF TypeOK, UpdateStates, Run

\* handleFailure continues with one of its own awaits.
LEMMA FailWithType ==
  ASSUME TypeOK, NEW w \in Workers, NEW retryable \in BOOLEAN, run[w] \in Run,
         FailWith(w, retryable)
  PROVE  run' \in [Workers -> Run \cup {Idle}]
BY DEF TypeOK, FailWith, Run, Pcs, FailurePcs

---------------------------------------------------------------------------
(* Type correctness. *)

\* An action that leaves all but statuses and run alone keeps the types if it
\* keeps theirs.
LEMMA StatusType ==
  ASSUME TypeOK,
         UNCHANGED <<fileAsset, source, artifacts, totals, queue, dlq, replay, budget>>,
         run' \in [Workers -> Run \cup {Idle}],
         fileStatus' \in [Files -> AssetState],
         assetStatus' \in [Hashes -> AssetState \cup {"ABSENT"}]
  PROVE  TypeOK'
BY DEF TypeOK, artifacts

\* An action that only moves a worker on keeps the types.
LEMMA RunType ==
  ASSUME TypeOK, run' \in [Workers -> Run \cup {Idle}],
         UNCHANGED <<files, assetStatus, artifacts, totals, queue, dlq, replay, budget>>
  PROVE  TypeOK'
BY DEF TypeOK, artifacts, files

\* An action that sends a message and moves a worker on keeps the types.
LEMMA SendType ==
  ASSUME TypeOK, \E m \in Message : Send(m), run' \in [Workers -> Run \cup {Idle}],
         UNCHANGED <<files, assetStatus, artifacts, totals, dlq, replay, budget>>
  PROVE  TypeOK'
<1>1. queue' \in [Message -> Nat]
  BY DEF TypeOK, Send
<1> QED BY <1>1 DEF TypeOK, artifacts, files

\* The message for the next stage is well formed.
LEMMA NextMessageType ==
  ASSUME NEW w \in Workers, run[w] \in Run, NEW q \in Queues
  PROVE  NextMessage(w, q) \in Message
BY AttemptsAssumption, RunFields DEF NextMessage, Message, FileOf

\* The entry stage of a queue is a status.
LEMMA EntryStageType == \A q \in Queues : EntryStage[q] \in AssetState
BY DEF Queues, EntryStage, AssetState

\* Taking a job keeps the types.
LEMMA ProcessPipelineJobType ==
  ASSUME TypeOK, NEW w \in Workers, NEW m \in Message, ProcessPipelineJob(w, m)
  PROVE  TypeOK'
<1> DEFINE r == [pc |-> IF m.queue = "ingestion" THEN "begin" ELSE "enter",
                 job |-> m, asset |-> m.asset, pend |-> "none",
                 guarded |-> m.queue # "ingestion"]
<1>1. m.asset \in MaybeAsset
  BY DEF Message
<1>2. r \in Run
  BY <1>1 DEF Run, Pcs, IngestionPcs, StagePcs
<1>3. run' = [run EXCEPT ![w] = r]
  BY DEF ProcessPipelineJob
<1>4. run' \in [Workers -> Run \cup {Idle}]
  BY <1>2, <1>3 DEF TypeOK
<1>5. queue' \in [Message -> Nat]
  BY DEF ProcessPipelineJob, TypeOK
<1> QED BY <1>4, <1>5 DEF ProcessPipelineJob, TypeOK, files, artifacts

\* So does entering a stage.
LEMMA RunStageType ==
  ASSUME TypeOK, NEW w \in Workers, RunStage(w)
  PROVE  TypeOK'
<1> DEFINE q == run[w].job.queue
           work == [ingestion |-> "download", s3Upload |-> "checkStored",
                    aiMetadata |-> "findMetadata", embedding |-> "hasEmbedding"]
<1>1. run[w] \in Run
  BY AtRuns DEF RunStage, At, Pcs, StagePcs
<1>2. q \in Queues
  BY <1>1, RunFields
<1>3. EntryStage[q] \in AssetState /\ work[q] \in Pcs
  BY <1>2, EntryStageType DEF Queues, Pcs, IngestionPcs, StagePcs
<1>4. UpdateStates(w, EntryStage[q], work[q])
  BY DEF RunStage
<1> QED BY <1>1, <1>3, <1>4, UpdateStatesType, StatusType DEF RunStage

\* So do the steps of the ingestion handler.
LEMMA IngestType ==
  ASSUME TypeOK, HandlersAgree, NEW w \in Workers, Ingest(w)
  PROVE  TypeOK'
<1> USE FilesAssumption
<1> USE DEF At, Pcs, IngestionPcs, StagePcs, FailurePcs
<1>1. CASE BeginIngestion(w)
  <2>1. run[w] \in Run
    BY <1>1, AtRuns DEF BeginIngestion
  <2>2. run' \in [Workers -> Run \cup {Idle}]
    <3>1. CASE Goto(w, IF run[w].asset \in described THEN "dispatchEmbedding" ELSE "markStored")
      BY <2>1, <3>1, GotoType
    <3>2. CASE run' = [run EXCEPT ![w].pc = "enter", ![w].guarded = TRUE]
      BY <2>1, <3>2 DEF TypeOK, Run
    <3> QED BY <1>1, <3>1, <3>2 DEF BeginIngestion
  <2> QED BY <1>1, <2>2, RunType DEF BeginIngestion
<1>2. CASE DownloadFile(w)
  BY <1>2, AtRuns, UpdateStatesType, StatusType DEF DownloadFile, AssetState
<1>3. CASE ValidateImage(w)
  <2>1. run[w] \in Run
    BY <1>3, AtRuns DEF ValidateImage
  <2>2. CASE FailWith(w, FALSE) /\ UNCHANGED <<fileStatus, assetStatus>>
    BY <1>3, <2>1, <2>2, FailWithType, StatusType DEF ValidateImage, TypeOK
  <2>3. CASE UpdateStates(w, "HASHING", "findDuplicate")
    BY <1>3, <2>1, <2>3, UpdateStatesType, StatusType DEF ValidateImage, AssetState
  <2> QED BY <1>3, <2>2, <2>3 DEF ValidateImage
<1>4. CASE FindDuplicate(w)
  BY <1>4, AtRuns, GotoType, RunType DEF FindDuplicate
<1>5. CASE AttachToExistingAsset(w)
  <2>1. run[w] \in Run
    BY <1>5, AtRuns DEF AttachToExistingAsset
  <2>2. FileOf(w) \in Files /\ HashOf[FileOf(w)] \in Hashes
    BY <2>1, RunFields DEF FileOf
  <2>3. run' \in [Workers -> Run \cup {Idle}]
    BY <1>5, <2>1, <2>2 DEF AttachToExistingAsset, TypeOK, Run, MaybeAsset
  <2>4. totals' \in [Files -> [successful : Nat, duplicate : Nat, failed : Nat]]
    BY <1>5, <2>2 DEF AttachToExistingAsset, TypeOK
  <2>5. /\ source' \in [Files -> MaybeAsset] /\ fileAsset' \in [Files -> MaybeAsset]
        /\ fileStatus' \in [Files -> AssetState]
    BY <1>5, <2>2 DEF AttachToExistingAsset, TypeOK, MaybeAsset, AssetState
  <2> QED BY <1>5, <2>3, <2>4, <2>5 DEF AttachToExistingAsset, TypeOK, artifacts
<1>6. CASE EnterUpload(w)
  BY <1>6, AtRuns, UpdateStatesType, StatusType DEF EnterUpload, AssetState
<1>7. CASE CreateAsset(w)
  <2>1. run[w] \in Run
    BY <1>7, AtRuns DEF CreateAsset
  <2>2. FileOf(w) \in Files /\ HashOf[FileOf(w)] \in Hashes
    BY <2>1, RunFields DEF FileOf
  <2>3. CASE Exists(HashOf[FileOf(w)])
    BY <1>7, <2>1, <2>3, GotoType, RunType DEF CreateAsset
  <2>4. CASE ~ Exists(HashOf[FileOf(w)])
    <3>1. run' \in [Workers -> Run \cup {Idle}]
      BY <1>7, <2>1, <2>2, <2>4 DEF CreateAsset, TypeOK, Run, MaybeAsset
    <3>2. /\ source' = [source EXCEPT ![FileOf(w)] = HashOf[FileOf(w)]]
          /\ fileAsset' = [fileAsset EXCEPT ![FileOf(w)] = HashOf[FileOf(w)]]
          /\ fileStatus' = [fileStatus EXCEPT ![FileOf(w)] = "UPLOADING_TO_S3"]
          /\ assetStatus' = [assetStatus EXCEPT ![HashOf[FileOf(w)]] = "UPLOADING_TO_S3"]
      BY <1>7, <2>4 DEF CreateAsset
    <3>3. /\ source' \in [Files -> MaybeAsset] /\ fileAsset' \in [Files -> MaybeAsset]
          /\ fileStatus' \in [Files -> AssetState]
          /\ assetStatus' \in [Hashes -> AssetState \cup {"ABSENT"}]
      BY <2>2, <3>2 DEF TypeOK, MaybeAsset, AssetState
    <3> QED BY <1>7, <3>1, <3>3 DEF CreateAsset, TypeOK, artifacts
  <2> QED BY <2>3, <2>4
<1>8. CASE UploadFile(w)
  <2>1. run[w] \in Run
    BY <1>8, AtRuns DEF UploadFile
  <2>2. run[w].asset \in Hashes
    BY <1>8, <2>1, RunFields DEF UploadFile, HandlersAgree, Prepared, Active, Idle, MaybeAsset
  <2>3. stored' \in SUBSET Hashes
    BY <1>8, <2>2 DEF UploadFile, TypeOK
  <2>4. run' \in [Workers -> Run \cup {Idle}]
    BY <1>8, <2>1, GotoType DEF UploadFile
  <2> QED BY <1>8, <2>3, <2>4 DEF UploadFile, TypeOK, files
<1>9. CASE MarkStored(w)
  BY <1>9, AtRuns, UpdateStatesType, StatusType DEF MarkStored, AssetState
<1>10. CASE DispatchAiMetadata(w)
  BY <1>10, AtRuns, GotoType, SendType, NextMessageType DEF DispatchAiMetadata, Queues
<1> QED BY <1>1, <1>2, <1>3, <1>4, <1>5, <1>6, <1>7, <1>8, <1>9, <1>10 DEF Ingest

\* So do the steps of the s3Upload, aiMetadata and embedding handlers.
LEMMA StagesType ==
  ASSUME TypeOK, HandlersAgree, NEW w \in Workers,
         S3Upload(w) \/ AiMetadata(w) \/ Embedding(w)
  PROVE  TypeOK'
<1> USE DEF At, Pcs, IngestionPcs, StagePcs, FailurePcs
<1>1. CASE CheckStored(w)
  BY <1>1, AtRuns, GotoType, FailWithType, RunType DEF CheckStored
<1>2. CASE SetGenerated(w)
  BY <1>2, AtRuns, UpdateStatesType, StatusType DEF SetGenerated, AssetState
<1>3. CASE FindMetadata(w)
  BY <1>3, AtRuns, GotoType, RunType DEF FindMetadata
<1>4. CASE GenerateMetadata(w)
  <2>1. run[w] \in Run
    BY <1>4, AtRuns DEF GenerateMetadata
  <2>2. CASE run[w].asset \in stored
    <3>1. run[w].asset \in Hashes
      BY <2>2 DEF TypeOK
    <3>2. run' \in [Workers -> Run \cup {Idle}]
      BY <1>4, <2>1, <2>2, GotoType DEF GenerateMetadata
    <3>3. described' \in SUBSET Hashes
      BY <1>4, <2>2, <3>1 DEF GenerateMetadata, TypeOK
    <3>4. assetStatus' \in [Hashes -> AssetState \cup {"ABSENT"}]
      BY <1>4, <2>2, <3>1 DEF GenerateMetadata, TypeOK, AssetState
    <3> QED BY <1>4, <3>2, <3>3, <3>4 DEF GenerateMetadata, TypeOK, files
  <2>3. CASE run[w].asset \notin stored
    <3>1. run' \in [Workers -> Run \cup {Idle}]
      BY <1>4, <2>1, <2>3, FailWithType DEF GenerateMetadata
    <3> QED BY <1>4, <2>3, <3>1, RunType DEF GenerateMetadata, artifacts
  <2> QED BY <2>2, <2>3
<1>5. CASE MarkGenerated(w)
  BY <1>5, AtRuns, GotoType, StatusType DEF MarkGenerated, TypeOK, AssetState
<1>6. CASE DispatchEmbedding(w)
  BY <1>6, AtRuns, GotoType, SendType, NextMessageType DEF DispatchEmbedding, Queues
<1>7. CASE HasEmbeddingForHash(w)
  BY <1>7, AtRuns, GotoType, RunType DEF HasEmbeddingForHash
<1>8. CASE GenerateEmbedding(w)
  BY <1>8, AtRuns, GotoType, RunType DEF GenerateEmbedding
<1>9. CASE CreateEmbedding(w)
  <2>1. run[w] \in Run
    BY <1>9, AtRuns DEF CreateEmbedding
  <2>2. run[w].asset \in Hashes
    BY <1>9, <2>1 DEF CreateEmbedding, HandlersAgree, KnowsItsAsset, Prepared, Active, Idle, TypeOK
  <2>3. run' \in [Workers -> Run \cup {Idle}]
    BY <1>9, <2>1, GotoType, FailWithType DEF CreateEmbedding
  <2>4. embedded' \in SUBSET Hashes
    BY <1>9, <2>2 DEF CreateEmbedding, TypeOK
  <2> QED BY <1>9, <2>3, <2>4 DEF CreateEmbedding, TypeOK, files
<1>10. CASE MarkCompleted(w)
  <2>1. run[w] \in Run
    BY <1>10, AtRuns DEF MarkCompleted
  <2>2. run' \in [Workers -> Run \cup {Idle}]
    BY <1>10, <2>1, GotoType DEF MarkCompleted
  <2>3. totals' \in [Files -> [successful : Nat, duplicate : Nat, failed : Nat]]
    <3>1. FileOf(w) \in Files
      BY <2>1, RunFields DEF FileOf
    <3>2. totals' = [totals EXCEPT ![FileOf(w)].successful = @ + 1]
      BY <1>10 DEF MarkCompleted
    <3> QED BY <3>1, <3>2 DEF TypeOK
  <2>4. /\ fileStatus' \in [Files -> AssetState]
        /\ assetStatus' \in [Hashes -> AssetState \cup {"ABSENT"}]
    BY <1>10 DEF MarkCompleted, TypeOK, AssetState
  <2> QED BY <1>10, <2>2, <2>3, <2>4 DEF MarkCompleted, TypeOK, artifacts
<1> QED BY <1>1, <1>2, <1>3, <1>4, <1>5, <1>6, <1>7, <1>8, <1>9, <1>10
        DEF S3Upload, AiMetadata, Embedding

\* So do the steps of handleFailure.
LEMMA HandleFailureType ==
  ASSUME TypeOK, HandlersAgree, NEW w \in Workers, HandleFailure(w)
  PROVE  TypeOK'
<1> USE DEF At, Pcs, IngestionPcs, StagePcs, FailurePcs
<1>1. CASE ScheduleRetry(w)
  <2>1. run[w] \in Run
    BY <1>1, AtRuns DEF ScheduleRetry
  <2>2. run[w].job.attempt < MaxAttempts
    BY <1>1 DEF ScheduleRetry, HandlersAgree, Prepared, Active, Idle
  <2>3. [run[w].job EXCEPT !.asset = run[w].asset, !.attempt = @ + 1] \in Message
    <3>1. run[w].job \in Message /\ run[w].asset \in MaybeAsset
      BY <2>1, RunFields
    <3>2. run[w].job.attempt + 1 \in 1..MaxAttempts
      BY <2>1, <2>2, RunFields, AttemptsAssumption
    <3> QED BY <3>1, <3>2 DEF Message
  <2>4. run' \in [Workers -> Run \cup {Idle}]
    BY <1>1, <2>1, GotoType DEF ScheduleRetry
  <2> QED BY <1>1, <2>3, <2>4, SendType DEF ScheduleRetry
<1>2. CASE SetRetryPending(w)
  BY <1>2, AtRuns, UpdateStatesType, StatusType DEF SetRetryPending, AssetState
<1>3. CASE MoveToDeadLetter(w)
  <2>1. run[w] \in Run
    BY <1>3, AtRuns DEF MoveToDeadLetter
  <2>2. run' \in [Workers -> Run \cup {Idle}]
    BY <1>3, <2>1, GotoType DEF MoveToDeadLetter
  <2>3. dlq' \in [Files -> Nat]
    BY <1>3, <2>1, RunFields DEF MoveToDeadLetter, TypeOK, FileOf
  <2> QED BY <1>3, <2>2, <2>3 DEF MoveToDeadLetter, TypeOK, files, artifacts
<1>4. CASE SetDeadLetter(w)
  BY <1>4, AtRuns, UpdateStatesType, StatusType DEF SetDeadLetter, AssetState
<1>5. CASE CountFailed(w)
  <2>1. run[w] \in Run
    BY <1>5, AtRuns DEF CountFailed
  <2>2. run' \in [Workers -> Run \cup {Idle}]
    BY <1>5, <2>1, GotoType DEF CountFailed
  <2>3. totals' \in [Files -> [successful : Nat, duplicate : Nat, failed : Nat]]
    BY <1>5, <2>1, RunFields DEF CountFailed, TypeOK, FileOf
  <2> QED BY <1>5, <2>2, <2>3 DEF CountFailed, TypeOK, files, artifacts
<1> QED BY <1>1, <1>2, <1>3, <1>4, <1>5 DEF HandleFailure

\* The queue of a replayed stage exists.
LEMMA ReplayQueue ==
  ASSUME NEW stage \in ReplayStages
  PROVE  /\ (CHOOSE q \in Queues : stage \in StagesOf(q)) \in Queues
         /\ stage \in AssetState /\ stage # "COMPLETED"
<1>1. \E q \in Queues : stage \in StagesOf(q)
  BY EnvironmentAssumption DEF ReplayableStages
<1>2. (CHOOSE q \in Queues : stage \in StagesOf(q)) \in Queues
  BY <1>1
<1>3. \A q \in Queues : StagesOf(q) \subseteq AssetState \ {"COMPLETED"}
  BY DEF Queues, StagesOf, AssetState
<1> QED BY <1>1, <1>2, <1>3

\* So do replays, faults and crashes.
LEMMA EnvironmentType ==
  ASSUME TypeOK, Replay \/ \E w \in Workers : Fault(w) \/ Crash(w)
  PROVE  TypeOK'
<1>1. ASSUME NEW f \in Files, NEW stage \in ReplayStages, ReplayFromDlq(f, stage)
      PROVE TypeOK'
  <2> DEFINE q == CHOOSE q \in Queues : stage \in StagesOf(q)
  <2>1. q \in Queues
    BY ReplayQueue
  <2>2. [queue |-> q, file |-> f, asset |-> fileAsset[f], attempt |-> 1] \in Message
    BY <2>1, AttemptsAssumption DEF Message, TypeOK
  <2>3. queue' \in [Message -> Nat]
    BY <1>1, <2>2 DEF ReplayFromDlq, Send, TypeOK
  <2>4. replay' \in ReplayCall \cup {NoReplay}
    BY <1>1 DEF ReplayFromDlq, ReplayCall, TypeOK
  <2>5. budget' \in [faults : Nat, crashes : Nat, replays : Nat]
    BY <1>1 DEF ReplayFromDlq, TypeOK
  <2> QED BY <1>1, <2>3, <2>4, <2>5 DEF ReplayFromDlq, TypeOK, files, artifacts
<1>2. CASE ReplaySetAsset
  <2>1. replay \in ReplayCall
    BY <1>2 DEF ReplaySetAsset, TypeOK, NoReplay
  <2>2. replay.stage \in AssetState
    BY <2>1, ReplayQueue DEF ReplayCall
  <2>3. replay' \in ReplayCall
    BY <1>2, <2>1 DEF ReplaySetAsset, ReplayCall
  <2>4. assetStatus' \in [Hashes -> AssetState \cup {"ABSENT"}]
    BY <1>2, <2>2 DEF ReplaySetAsset, TypeOK
  <2> QED BY <1>2, <2>3, <2>4 DEF ReplaySetAsset, TypeOK, files, artifacts
<1>3. CASE ReplaySetFile
  <2>1. replay \in ReplayCall
    BY <1>3 DEF ReplaySetFile, TypeOK, NoReplay
  <2>2. replay.stage \in AssetState
    BY <2>1, ReplayQueue DEF ReplayCall
  <2>3. fileStatus' \in [Files -> AssetState]
    BY <1>3, <2>2 DEF ReplaySetFile, TypeOK
  <2> QED BY <1>3, <2>3 DEF ReplaySetFile, TypeOK, artifacts
<1>4. ASSUME NEW w \in Workers, Fault(w) PROVE TypeOK'
  <2>1. budget' \in [faults : Nat, crashes : Nat, replays : Nat]
    BY <1>4 DEF Fault, TypeOK
  <2>2. run' \in [Workers -> Run \cup {Idle}]
    <3>1. CASE run' = [run EXCEPT ![w] = Idle]
      BY <3>1 DEF TypeOK
    <3>2. ASSUME NEW retryable \in FaultClasses, FailWith(w, retryable),
                 run[w].guarded, run[w].pc \notin FailurePcs
          PROVE run' \in [Workers -> Run \cup {Idle}]
      BY <1>4, <3>2, AtRuns, FailWithType, EnvironmentAssumption DEF Fault
    <3> QED BY <1>4, <3>1, <3>2 DEF Fault
  <2> QED BY <1>4, <2>1, <2>2 DEF Fault, TypeOK, files, artifacts
<1>5. ASSUME NEW w \in Workers, Crash(w) PROVE TypeOK'
  <2>1. run[w] \in Run
    BY <1>5, ActiveRuns DEF Crash
  <2>2. queue' \in [Message -> Nat]
    BY <1>5, <2>1, RunFields DEF Crash, Send, TypeOK
  <2>3. budget' \in [faults : Nat, crashes : Nat, replays : Nat]
    BY <1>5 DEF Crash, TypeOK
  <2>4. run' \in [Workers -> Run \cup {Idle}]
    BY <1>5 DEF Crash, TypeOK
  <2> QED BY <1>5, <2>2, <2>3, <2>4 DEF Crash, TypeOK, files, artifacts
<1> QED BY <1>1, <1>2, <1>3, <1>4, <1>5 DEF Replay

\* Every step keeps every variable in its type, given what handlers know.
LEMMA TypeStep ==
  ASSUME TypeOK, HandlersAgree, [Next]_vars
  PROVE  TypeOK'
<1>1. ASSUME NEW w \in Workers, Work(w) PROVE TypeOK'
  <2>1. CASE WriteFileStatus(w)
    <3>1. run[w] \in Run
      BY <2>1, ActiveRuns DEF WriteFileStatus
    <3>2. run' \in [Workers -> Run \cup {Idle}]
      BY <2>1, <3>1 DEF WriteFileStatus, TypeOK, Run
    <3>3. fileStatus' \in [Files -> AssetState]
      BY <2>1, <3>1, RunFields DEF WriteFileStatus, TypeOK
    <3> QED BY <2>1, <3>2, <3>3, StatusType DEF WriteFileStatus, TypeOK
  <2>2. CASE Finish(w)
    BY <2>2 DEF Finish, TypeOK, files, artifacts
  <2> QED
    BY <1>1, <2>1, <2>2, ProcessPipelineJobType, RunStageType, IngestType,
       StagesType, HandleFailureType DEF Work
<1>2. CASE UNCHANGED vars
  BY <1>2 DEF vars, TypeOK
<1> QED BY <1>1, <1>2, EnvironmentType DEF Next

---------------------------------------------------------------------------
(* The inductive invariant. *)

\* What the actions rely on of each other: the chain of artifacts, the links of
\* the files, the messages in flight and what the running handlers know.
IInv ==
    /\ TypeOK
    /\ ArtifactChain
    /\ LinksAgree
    /\ MessagesFindTheirAsset
    /\ HandlersAgree

\* What no step takes back: artifacts, rows and links only grow.
Grows ==
    /\ stored \subseteq stored' /\ described \subseteq described'
    /\ embedded \subseteq embedded'
    /\ \A h \in Hashes : assetStatus[h] # "ABSENT" => assetStatus'[h] # "ABSENT"
    /\ \A f \in Files : fileAsset[f] # NoAsset => fileAsset'[f] = fileAsset[f]

\* What DataStep establishes of one step.
DataGoal == ArtifactChain' /\ LinksAgree' /\ Grows

\* A step that touches neither assets, artifacts nor links.
LEMMA DataUnchanged ==
  ASSUME IInv, UNCHANGED <<fileAsset, source, assetStatus, artifacts>>
  PROVE  DataGoal
BY DEF IInv, DataGoal, Grows, ArtifactChain, LinksAgree, Exists, artifacts

\* A step that only writes a status other than COMPLETED on an existing asset.
LEMMA DataStatus ==
  ASSUME IInv, NEW h \in Hashes, NEW s \in AssetState \ {"COMPLETED"},
         assetStatus' = [assetStatus EXCEPT ![h] = s],
         UNCHANGED <<fileAsset, source, artifacts>>
  PROVE  DataGoal
<1>1. s # "ABSENT"
  BY DEF AssetState
<1>2. \A g \in Hashes : assetStatus'[g] = IF g = h THEN s ELSE assetStatus[g]
  BY DEF IInv, TypeOK
<1>3. Grows
  BY <1>1, <1>2 DEF Grows, artifacts
<1>4. ArtifactChain'
  BY <1>1, <1>2, FilesAssumption DEF IInv, ArtifactChain, Exists, artifacts, TypeOK
<1>5. LinksAgree'
  BY <1>1, <1>2, FilesAssumption DEF IInv, LinksAgree, Exists, artifacts, TypeOK
<1> QED BY <1>3, <1>4, <1>5 DEF DataGoal

\* updateStates with a status other than COMPLETED.
LEMMA DataUpdateStates ==
  ASSUME IInv, NEW w \in Workers, NEW s \in AssetState \ {"COMPLETED"}, NEW pc,
         run[w] \in Run, UpdateStates(w, s, pc),
         UNCHANGED <<fileAsset, source, artifacts>>
  PROVE  DataGoal
<1>1. CASE UNCHANGED assetStatus
  BY <1>1, DataUnchanged
<1>2. CASE /\ run[w].asset # NoAsset
           /\ assetStatus' = [assetStatus EXCEPT ![run[w].asset] = s]
  BY <1>2, RunFields, DataStatus DEF MaybeAsset
<1> QED BY <1>1, <1>2 DEF UpdateStates

\* Every step keeps the chain of artifacts and the links, and loses nothing.
LEMMA DataStep ==
  ASSUME IInv, [Next]_vars
  PROVE  DataGoal
<1> USE FilesAssumption DEF At, Pcs, IngestionPcs, StagePcs, FailurePcs
<1>1. ASSUME NEW w \in Workers, Ingest(w) PROVE DataGoal
  <2>1. CASE BeginIngestion(w) \/ FindDuplicate(w) \/ DispatchAiMetadata(w)
    BY <2>1, DataUnchanged DEF BeginIngestion, FindDuplicate, DispatchAiMetadata, files
  <2>2. CASE DownloadFile(w) \/ EnterUpload(w) \/ MarkStored(w)
    BY <2>2, AtRuns, DataUpdateStates DEF DownloadFile, EnterUpload, MarkStored, IInv, AssetState
  <2>3. CASE ValidateImage(w)
    <3>1. CASE UNCHANGED assetStatus
      BY <2>3, <3>1, DataUnchanged DEF ValidateImage
    <3>2. CASE UpdateStates(w, "HASHING", "findDuplicate")
      BY <2>3, <3>2, AtRuns, DataUpdateStates DEF ValidateImage, IInv, AssetState
    <3> QED BY <2>3, <3>1, <3>2 DEF ValidateImage
  <2>4. CASE AttachToExistingAsset(w)
    <3> DEFINE f == FileOf(w)
    <3>1. f \in Files /\ Exists(HashOf[f]) /\ HashOf[f] \in Hashes
      BY <2>4, AtRuns, RunFields
         DEF AttachToExistingAsset, IInv, HandlersAgree, Prepared, Active, Idle, FileOf
    <3>2. /\ \A g \in Files : source'[g] = IF g = f /\ source[f] = NoAsset
                                           THEN HashOf[f] ELSE source[g]
          /\ \A g \in Files : fileAsset'[g] = IF g = f THEN HashOf[f] ELSE fileAsset[g]
          /\ UNCHANGED <<assetStatus, artifacts>>
      BY <2>4, <3>1 DEF AttachToExistingAsset, IInv, TypeOK
    <3>3. ArtifactChain'
      BY <3>2 DEF IInv, ArtifactChain, Exists, artifacts
    <3>4. LinksAgree'
      BY <3>1, <3>2 DEF IInv, LinksAgree, Exists
    <3>5. Grows
      BY <3>1, <3>2 DEF IInv, Grows, LinksAgree, artifacts
    <3> QED BY <3>3, <3>4, <3>5 DEF DataGoal
  <2>5. CASE CreateAsset(w)
    <3> DEFINE f == FileOf(w)
               h == HashOf[f]
    <3>1. f \in Files /\ h \in Hashes /\ h # NoAsset
      BY <2>5, AtRuns, RunFields DEF CreateAsset, IInv, FileOf
    <3>2. CASE Exists(h)
      BY <2>5, <3>2, DataUnchanged DEF CreateAsset, files
    <3>3. CASE ~ Exists(h)
      <4>1. /\ \A g \in Files : source'[g] = IF g = f THEN h ELSE source[g]
            /\ \A g \in Files : fileAsset'[g] = IF g = f THEN h ELSE fileAsset[g]
            /\ \A g \in Hashes : assetStatus'[g] = IF g = h THEN "UPLOADING_TO_S3"
                                                   ELSE assetStatus[g]
            /\ UNCHANGED artifacts
        BY <2>5, <3>1, <3>3 DEF CreateAsset, IInv, TypeOK
      <4>2. h \notin stored
        BY <3>3 DEF IInv, ArtifactChain
      <4>3. fileAsset[f] = NoAsset
        BY <3>1, <3>3 DEF IInv, LinksAgree
      <4>4. ArtifactChain'
        BY <4>1, <4>2 DEF IInv, ArtifactChain, TypeOK, Exists, artifacts
      <4>5. LinksAgree'
        BY <3>1, <4>1 DEF IInv, LinksAgree, Exists
      <4>6. Grows
        BY <4>1, <4>3 DEF Grows, artifacts
      <4> QED BY <4>4, <4>5, <4>6 DEF DataGoal
    <3> QED BY <3>2, <3>3
  <2>6. CASE UploadFile(w)
    <3>1. Exists(run[w].asset)
      BY <2>6, AtRuns, RunFields
         DEF UploadFile, IInv, HandlersAgree, KnowsItsAsset, Prepared, LinksAgree, Active, Idle
    <3>2. /\ stored' = stored \cup {run[w].asset}
          /\ UNCHANGED <<files, assetStatus, described, embedded>>
      BY <2>6 DEF UploadFile
    <3>3. ArtifactChain'
      BY <3>1, <3>2 DEF IInv, ArtifactChain, Exists
    <3>4. LinksAgree' /\ Grows
      BY <3>2 DEF IInv, LinksAgree, Grows, Exists, files
    <3> QED BY <3>3, <3>4 DEF DataGoal
  <2> QED BY <1>1, <2>1, <2>2, <2>3, <2>4, <2>5, <2>6 DEF Ingest
<1>2. ASSUME NEW w \in Workers, S3Upload(w) \/ AiMetadata(w) \/ Embedding(w)
      PROVE DataGoal
  <2>1. CASE \/ CheckStored(w) \/ FindMetadata(w) \/ DispatchEmbedding(w)
             \/ HasEmbeddingForHash(w) \/ GenerateEmbedding(w)
    BY <2>1, DataUnchanged DEF CheckStored, FindMetadata, DispatchEmbedding,
       HasEmbeddingForHash, GenerateEmbedding, files
  <2>2. CASE SetGenerated(w)
    BY <2>2, AtRuns, DataUpdateStates DEF SetGenerated, IInv, AssetState
  <2>3. CASE GenerateMetadata(w)
    <3> DEFINE h == run[w].asset
    <3>1. CASE h \in stored
      <4>1. h \in Hashes
        BY <3>1 DEF IInv, TypeOK
      <4>2. /\ described' = described \cup {h}
            /\ \A g \in Hashes : assetStatus'[g] = IF g = h THEN "METADATA_GENERATED"
                                                   ELSE assetStatus[g]
            /\ UNCHANGED <<files, stored, embedded>>
        BY <2>3, <3>1, <4>1 DEF GenerateMetadata, IInv, TypeOK
      <4>3. ArtifactChain'
        BY <3>1, <4>2 DEF IInv, TypeOK, ArtifactChain, Exists
      <4>4. LinksAgree' /\ Grows
        BY <4>2 DEF IInv, TypeOK, LinksAgree, Grows, Exists, files
      <4> QED BY <4>3, <4>4 DEF DataGoal
    <3>2. CASE h \notin stored
      BY <2>3, <3>2, DataUnchanged DEF GenerateMetadata, files, artifacts
    <3> QED BY <3>1, <3>2
  <2>4. CASE MarkGenerated(w)
    <3>1. run[w].asset \in Hashes
      BY <2>4, AtRuns DEF MarkGenerated, IInv, HandlersAgree, Prepared, Active, Idle, TypeOK
    <3> QED BY <2>4, <3>1, DataStatus DEF MarkGenerated, AssetState
  <2>5. CASE CreateEmbedding(w)
    <3> DEFINE h == run[w].asset
    <3>1. h \in described
      BY <2>5 DEF CreateEmbedding, IInv, HandlersAgree, KnowsItsAsset, Prepared, Active, Idle
    <3>2. CASE h \in embedded
      BY <2>5, <3>2, DataUnchanged DEF CreateEmbedding, files, artifacts
    <3>3. CASE h \notin embedded
      <4>1. /\ embedded' = embedded \cup {h}
            /\ UNCHANGED <<files, assetStatus, stored, described>>
        BY <2>5, <3>3 DEF CreateEmbedding
      <4>2. ArtifactChain'
        BY <3>1, <4>1 DEF IInv, ArtifactChain, Exists
      <4>3. LinksAgree' /\ Grows
        BY <4>1 DEF IInv, LinksAgree, Grows, Exists, files
      <4> QED BY <4>2, <4>3 DEF DataGoal
    <3> QED BY <3>2, <3>3
  <2>6. CASE MarkCompleted(w)
    <3> DEFINE h == run[w].asset
    <3>1. h \in embedded
      BY <2>6 DEF MarkCompleted, IInv, HandlersAgree, Prepared, Active, Idle
    <3>2. /\ \A g \in Hashes : assetStatus'[g] = IF g = h THEN "COMPLETED"
                                                 ELSE assetStatus[g]
          /\ UNCHANGED <<fileAsset, source, artifacts>>
      BY <2>6 DEF MarkCompleted, IInv, TypeOK
    <3>3. ArtifactChain'
      BY <3>1, <3>2 DEF IInv, TypeOK, ArtifactChain, Exists, artifacts
    <3>4. LinksAgree' /\ Grows
      BY <3>2 DEF IInv, TypeOK, LinksAgree, Grows, Exists, artifacts
    <3> QED BY <3>3, <3>4 DEF DataGoal
  <2> QED BY <1>2, <2>1, <2>2, <2>3, <2>4, <2>5, <2>6 DEF S3Upload, AiMetadata, Embedding
<1>3. ASSUME NEW w \in Workers, HandleFailure(w) PROVE DataGoal
  <2>1. CASE ScheduleRetry(w) \/ MoveToDeadLetter(w) \/ CountFailed(w)
    BY <2>1, DataUnchanged DEF ScheduleRetry, MoveToDeadLetter, CountFailed, files
  <2>2. CASE SetRetryPending(w)
    BY <2>2, AtRuns, DataUpdateStates DEF SetRetryPending, IInv, AssetState
  <2>3. CASE SetDeadLetter(w)
    BY <2>3, AtRuns, DataUpdateStates DEF SetDeadLetter, IInv, AssetState
  <2> QED BY <1>3, <2>1, <2>2, <2>3 DEF HandleFailure
<1>4. ASSUME NEW w \in Workers, Work(w) PROVE DataGoal
  <2>1. CASE (\E m \in Message : ProcessPipelineJob(w, m)) \/ Finish(w) \/ WriteFileStatus(w)
    BY <2>1, DataUnchanged DEF ProcessPipelineJob, Finish, WriteFileStatus, files
  <2>2. CASE RunStage(w)
    <3> DEFINE q == run[w].job.queue
    <3>1. run[w] \in Run /\ q \in Queues
      BY <2>2, AtRuns, RunFields DEF RunStage, IInv
    <3>2. EntryStage[q] \in AssetState \ {"COMPLETED"}
      BY <3>1 DEF Queues, EntryStage, AssetState
    <3> QED BY <2>2, <3>1, <3>2, DataUpdateStates DEF RunStage
  <2> QED BY <1>1, <1>2, <1>3, <1>4, <2>1, <2>2 DEF Work
<1>5. ASSUME NEW w \in Workers, Fault(w) \/ Crash(w) PROVE DataGoal
  BY <1>5, DataUnchanged DEF Fault, Crash, files
<1>6. CASE Replay
  <2>1. CASE ReplaySetAsset
    <3>1. replay \in ReplayCall
      BY <2>1 DEF ReplaySetAsset, IInv, TypeOK, NoReplay
    <3>2. replay.stage \in AssetState \ {"COMPLETED"}
      BY <3>1, ReplayQueue DEF ReplayCall
    <3>3. CASE replay.asset \in Hashes
      BY <2>1, <3>2, <3>3, DataStatus DEF ReplaySetAsset, files
    <3>4. CASE replay.asset \notin Hashes
      <4>1. UNCHANGED assetStatus
        BY <2>1, <3>4 DEF ReplaySetAsset, IInv, TypeOK
      <4> QED BY <2>1, <4>1, DataUnchanged DEF ReplaySetAsset, files
    <3> QED BY <3>3, <3>4
  <2>2. CASE ReplaySetFile \/ \E f \in Files, stage \in ReplayStages : ReplayFromDlq(f, stage)
    BY <2>2, DataUnchanged DEF ReplaySetFile, ReplayFromDlq, files
  <2> QED BY <1>6, <2>1, <2>2 DEF Replay
<1>7. CASE UNCHANGED vars
  BY <1>7, DataUnchanged DEF vars, artifacts
<1> QED BY <1>4, <1>5, <1>6, <1>7 DEF Next

---------------------------------------------------------------------------
(* Messages in flight. *)

\* A message that finds its asset keeps finding it.
LEMMA MessageStable ==
  ASSUME IInv, Grows
  PROVE  \A m \in Message : FindsItsAsset(m) => FindsItsAsset(m)'
<1>1. \A m \in Message : m.file \in Files
  BY DEF Message
<1> QED BY <1>1 DEF Grows, FindsItsAsset

\* A step that sends nothing but messages that find their asset.
LEMMA MessagesFrame ==
  ASSUME IInv, Grows,
         \A m \in Message : queue'[m] > 0 => queue[m] > 0 \/ FindsItsAsset(m)
  PROVE  MessagesFindTheirAsset'
BY MessageStable DEF IInv, MessagesFindTheirAsset

\* Sending one message adds no other.
LEMMA SendOne ==
  ASSUME IInv, Grows, NEW m \in Message, Send(m), FindsItsAsset(m)
  PROVE  MessagesFindTheirAsset'
<1>1. \A n \in Message : n # m => queue'[n] = queue[n]
  BY DEF Send, IInv, TypeOK
<1> QED BY <1>1, MessagesFrame

\* A step that leaves the queues alone.
LEMMA MessagesUnchanged ==
  ASSUME IInv, Grows, UNCHANGED queue
  PROVE  MessagesFindTheirAsset'
BY MessagesFrame

\* A handler that knows its asset dispatches a message that finds it.
LEMMA NextMessageFinds ==
  ASSUME IInv, NEW w \in Workers, NEW q \in Queues, run[w] \in Run,
         run[w].asset \in Hashes, KnowsItsAsset(run[w]),
         q = "embedding" => run[w].asset \in described
  PROVE  FindsItsAsset(NextMessage(w, q))
BY FilesAssumption DEF FindsItsAsset, NextMessage, KnowsItsAsset, FileOf

\* Every step keeps all messages finding their assets.
LEMMA MessagesStep ==
  ASSUME IInv, Grows, [Next]_vars
  PROVE  MessagesFindTheirAsset'
<1> USE DEF At, Pcs, IngestionPcs, StagePcs, FailurePcs
<1>1. ASSUME NEW w \in Workers, NEW m \in Message, ProcessPipelineJob(w, m)
      PROVE MessagesFindTheirAsset'
  <2>1. \A n \in Message : queue'[n] > 0 => queue[n] > 0
    BY <1>1 DEF ProcessPipelineJob, IInv, TypeOK
  <2> QED BY <2>1, MessagesFrame
<1>2. ASSUME NEW w \in Workers, DispatchAiMetadata(w) PROVE MessagesFindTheirAsset'
  <2>1. run[w] \in Run
    BY <1>2, AtRuns DEF DispatchAiMetadata, IInv
  <2>2. run[w].asset \in Hashes /\ KnowsItsAsset(run[w])
    BY <1>2 DEF DispatchAiMetadata, IInv, TypeOK, HandlersAgree, Prepared, Active, Idle
  <2> QED BY <1>2, <2>1, <2>2, NextMessageFinds, NextMessageType, SendOne
          DEF DispatchAiMetadata, Queues
<1>3. ASSUME NEW w \in Workers, DispatchEmbedding(w) PROVE MessagesFindTheirAsset'
  <2>1. run[w] \in Run
    BY <1>3, AtRuns DEF DispatchEmbedding, IInv
  <2>2. /\ run[w].asset \in Hashes /\ run[w].asset \in described
        /\ KnowsItsAsset(run[w])
    BY <1>3 DEF DispatchEmbedding, IInv, TypeOK, HandlersAgree, Prepared, Active, Idle
  <2> QED BY <1>3, <2>1, <2>2, NextMessageFinds, NextMessageType, SendOne
          DEF DispatchEmbedding, Queues
<1>4. ASSUME NEW w \in Workers, ScheduleRetry(w) PROVE MessagesFindTheirAsset'
  <2> DEFINE m == [run[w].job EXCEPT !.asset = run[w].asset, !.attempt = @ + 1]
  <2>1. run[w] \in Run
    BY <1>4, AtRuns DEF ScheduleRetry, IInv
  <2>2. run[w].job.attempt < MaxAttempts /\ KnowsItsAsset(run[w])
    BY <1>4 DEF ScheduleRetry, IInv, HandlersAgree, Prepared, Active, Idle
  <2>3. m \in Message
    <3>1. run[w].job \in Message /\ run[w].asset \in MaybeAsset
      BY <2>1, RunFields
    <3>2. run[w].job.attempt + 1 \in 1..MaxAttempts
      BY <2>1, <2>2, RunFields, AttemptsAssumption
    <3> QED BY <3>1, <3>2 DEF Message
  <2>4. /\ m.asset = run[w].asset /\ m.file = run[w].job.file
        /\ m.queue = run[w].job.queue
    BY <2>1, RunFields DEF Message
  <2>5. FindsItsAsset(m)
    BY <2>2, <2>4 DEF FindsItsAsset, KnowsItsAsset
  <2> QED BY <1>4, <2>3, <2>5, SendOne DEF ScheduleRetry
<1>5. ASSUME NEW w \in Workers, Crash(w) PROVE MessagesFindTheirAsset'
  <2>1. run[w] \in Run /\ KnowsItsAsset(run[w])
    BY <1>5, ActiveRuns DEF Crash, IInv, HandlersAgree, Active
  <2>2. run[w].job \in Message /\ FindsItsAsset(run[w].job)
    BY <2>1, RunFields DEF FindsItsAsset, KnowsItsAsset
  <2> QED BY <1>5, <2>2, SendOne DEF Crash
<1>6. ASSUME NEW f \in Files, NEW stage \in ReplayStages, ReplayFromDlq(f, stage)
      PROVE MessagesFindTheirAsset'
  <2> DEFINE q == CHOOSE q \in Queues : stage \in StagesOf(q)
             m == [queue |-> q, file |-> f, asset |-> fileAsset[f], attempt |-> 1]
  <2>1. m \in Message
    <3>1. q \in Queues
      BY ReplayQueue
    <3>2. fileAsset[f] \in MaybeAsset /\ 1 \in 1..MaxAttempts
      BY AttemptsAssumption DEF IInv, TypeOK
    <3> HIDE DEF q
    <3> QED BY <3>1, <3>2 DEF Message
  <2>2. FindsItsAsset(m)
    BY <1>6 DEF ReplayFromDlq, FindsItsAsset, Exists
  <2> QED BY <1>6, <2>1, <2>2, SendOne DEF ReplayFromDlq
<1>7. CASE UNCHANGED queue
  BY <1>7, MessagesUnchanged
<1>8. ASSUME NEW w \in Workers, Work(w) PROVE MessagesFindTheirAsset'
  <2>1. CASE RunStage(w) \/ WriteFileStatus(w) \/ Finish(w)
    BY <2>1, <1>7 DEF RunStage, WriteFileStatus, Finish
  <2>2. CASE Ingest(w)
    BY <2>2, <1>2, <1>7 DEF Ingest, BeginIngestion, DownloadFile, ValidateImage,
       FindDuplicate, AttachToExistingAsset, EnterUpload, CreateAsset, UploadFile, MarkStored
  <2>3. CASE S3Upload(w) \/ AiMetadata(w) \/ Embedding(w)
    BY <2>3, <1>3, <1>7 DEF S3Upload, AiMetadata, Embedding, CheckStored, SetGenerated,
       FindMetadata, GenerateMetadata, MarkGenerated, HasEmbeddingForHash,
       GenerateEmbedding, CreateEmbedding, MarkCompleted
  <2>4. CASE HandleFailure(w)
    BY <2>4, <1>4, <1>7 DEF HandleFailure, SetRetryPending, MoveToDeadLetter,
       SetDeadLetter, CountFailed
  <2> QED BY <1>1, <1>8, <2>1, <2>2, <2>3, <2>4 DEF Work
<1>9. CASE Replay
  BY <1>9, <1>6, <1>7 DEF Replay, ReplaySetAsset, ReplaySetFile
<1>10. ASSUME NEW w \in Workers, Fault(w) PROVE MessagesFindTheirAsset'
  BY <1>10, <1>7 DEF Fault
<1> QED BY <1>5, <1>7, <1>8, <1>9, <1>10 DEF Next, vars

---------------------------------------------------------------------------
(* What the running handlers know. *)

\* What a handler knows of its asset stays true in every step.
LEMMA KnowledgeStable ==
  ASSUME IInv, Grows
  PROVE  \A r \in Run : KnowsItsAsset(r) => KnowsItsAsset(r)'
<1>1. \A r \in Run : r.job.file \in Files
  BY RunFields
<1> QED BY <1>1 DEF Grows, KnowsItsAsset

\* So does what it has prepared.
LEMMA PreparedStable ==
  ASSUME IInv, Grows
  PROVE  \A r \in Run : Prepared(r) => Prepared(r)'
<1>1. \A r \in Run : HashOf[r.job.file] \in Hashes
  BY RunFields, FilesAssumption
<1>2. \A r \in Run : Exists(HashOf[r.job.file]) => Exists(HashOf[r.job.file])'
  BY <1>1 DEF Exists, Grows
<1> QED BY <1>2 DEF Grows, Prepared

\* A step of worker w leaves what the other handlers know alone.
LEMMA OthersAgree ==
  ASSUME IInv, Grows, NEW w \in Workers,
         \A v \in Workers \ {w} : run'[v] = run[v],
         run'[w] = Idle \/ (KnowsItsAsset(run[w])' /\ Prepared(run[w])')
  PROVE  HandlersAgree'
<1> SUFFICES ASSUME NEW v \in Workers, run'[v] # Idle
             PROVE  KnowsItsAsset(run[v])' /\ Prepared(run[v])'
  BY DEF HandlersAgree, Active
<1>1. CASE v = w
  BY <1>1
<1>2. CASE v # w
  <2>1. run'[v] = run[v] /\ run[v] \in Run
    BY <1>2, ActiveRuns DEF IInv
  <2>2. KnowsItsAsset(run[v]) /\ Prepared(run[v])
    BY <2>1 DEF IInv, HandlersAgree, Active
  <2>3. KnowsItsAsset(run[v])'
    BY <2>1, <2>2, KnowledgeStable DEF KnowsItsAsset
  <2>4. Prepared(run[v])'
    BY <2>1, <2>2, PreparedStable DEF Prepared
  <2> QED BY <2>3, <2>4
<1> QED BY <1>1, <1>2

\* A handler that moves on in the same job with the same asset still knows it;
\* it remains to show that it is prepared for its next await.
LEMMA MovesOn ==
  ASSUME IInv, Grows, NEW w \in Workers, run[w] \in Run,
         \A v \in Workers \ {w} : run'[v] = run[v],
         run'[w].job = run[w].job, run'[w].asset = run[w].asset,
         Prepared(run[w])'
  PROVE  HandlersAgree'
<1>1. KnowsItsAsset(run[w])
  BY DEF IInv, HandlersAgree, Active, Idle, Run, Pcs, IngestionPcs, StagePcs, FailurePcs
<1>2. KnowsItsAsset(run[w])'
  BY <1>1, KnowledgeStable DEF KnowsItsAsset
<1> QED BY <1>2, OthersAgree

\* How Goto, updateStates and handleFailure change the record of a handler.
LEMMA GotoFields ==
  ASSUME TypeOK, NEW w \in Workers, NEW pc \in Pcs, run[w] \in Run, Goto(w, pc)
  PROVE  /\ \A v \in Workers \ {w} : run'[v] = run[v]
         /\ run'[w].job = run[w].job /\ run'[w].asset = run[w].asset
         /\ run'[w].pend = run[w].pend /\ run'[w].pc = pc
BY DEF TypeOK, Goto, Run

\* The same for the update of the states, whose second half is left to do.
LEMMA UpdateStatesFields ==
  ASSUME TypeOK, NEW w \in Workers, NEW state \in AssetState, NEW pc \in Pcs,
         run[w] \in Run, UpdateStates(w, state, pc)
  PROVE  /\ \A v \in Workers \ {w} : run'[v] = run[v]
         /\ run'[w].job = run[w].job /\ run'[w].asset = run[w].asset
         /\ run'[w].pend \in {run[w].pend, state} /\ run'[w].pc = pc
BY GotoFields DEF TypeOK, UpdateStates, Run

\* The same for a throw.
LEMMA FailWithFields ==
  ASSUME TypeOK, NEW w \in Workers, NEW retryable \in BOOLEAN, run[w] \in Run,
         FailWith(w, retryable)
  PROVE  /\ \A v \in Workers \ {w} : run'[v] = run[v]
         /\ run'[w].job = run[w].job /\ run'[w].asset = run[w].asset
         /\ run'[w].pend = "none" /\ run'[w].pc \in {"reschedule", "toDlq"}
         /\ run'[w].pc = "reschedule" => run[w].job.attempt < MaxAttempts
BY DEF TypeOK, FailWith, Run

\* A failing stage leaves a handler prepared for handleFailure.
LEMMA FailWithAgrees ==
  ASSUME IInv, Grows, NEW w \in Workers, NEW retryable \in BOOLEAN, run[w] \in Run,
         FailWith(w, retryable)
  PROVE  HandlersAgree'
<1>1. Prepared(run[w])'
  BY FailWithFields DEF Prepared, IInv
<1> QED BY <1>1, FailWithFields, MovesOn DEF IInv

\* The status write of updateStates leaves a handler prepared, provided it is
\* for the await that follows.
LEMMA UpdateStatesAgrees ==
  ASSUME IInv, Grows, NEW w \in Workers, NEW state \in AssetState \ {"COMPLETED"},
         NEW pc \in Pcs, run[w] \in Run, UpdateStates(w, state, pc),
         Prepared([run[w] EXCEPT !.pc = pc])
  PROVE  HandlersAgree'
<1>1. PICK r \in Run : r = [run[w] EXCEPT !.pc = pc]
  BY DEF Run
<1>2. Prepared(r)'
  BY <1>1, PreparedStable
<1>3. /\ run'[w].job = r.job /\ run'[w].asset = r.asset /\ run'[w].pc = r.pc
      /\ run'[w].pend \in {r.pend, state}
  BY <1>1, UpdateStatesFields DEF IInv, Run
<1>4. Prepared(run[w])'
  BY <1>2, <1>3 DEF Prepared
<1> QED BY <1>4, UpdateStatesFields, MovesOn DEF IInv

\* The same of a handler that just moves on.
LEMMA GotoAgrees ==
  ASSUME IInv, Grows, NEW w \in Workers, NEW pc \in Pcs, run[w] \in Run,
         Goto(w, pc), Prepared([run[w] EXCEPT !.pc = pc])
  PROVE  HandlersAgree'
<1>1. PICK r \in Run : r = [run[w] EXCEPT !.pc = pc]
  BY DEF Run
<1>2. Prepared(r)'
  BY <1>1, PreparedStable
<1>3. run'[w] = r
  BY <1>1 DEF Goto, IInv, TypeOK
<1>4. Prepared(run[w])'
  BY <1>2, <1>3 DEF Prepared
<1> QED BY <1>4, GotoFields, MovesOn DEF IInv

\* An await for which nothing has to be prepared.
Free(pc) ==
  pc \in {"enter", "download", "validate", "findDuplicate", "enterUpload",
          "create", "record", "setRetry", "toDlq", "setDead", "countFailed", "end"}

\* A handler at an await has what it prepared and knows its asset.
LEMMA AtAgrees ==
  ASSUME IInv, NEW w \in Workers, NEW pc \in Pcs, run[w].pc = pc
  PROVE  run[w] \in Run /\ KnowsItsAsset(run[w]) /\ Prepared(run[w])
BY AtRuns DEF IInv, HandlersAgree, Active, Idle, Pcs, IngestionPcs, StagePcs, FailurePcs

\* Moving on to such an await needs nothing.
LEMMA FreePrepared ==
  ASSUME NEW r \in Run, NEW pc \in Pcs, Free(pc), r.pend # "COMPLETED"
  PROVE  Prepared([r EXCEPT !.pc = pc])
BY DEF Free, Prepared, Run

\* A handler that links its file to the asset of its content and takes on that
\* asset knows it.
LEMMA TakesAsset ==
  ASSUME IInv, Grows, NEW w \in Workers, run[w] \in Run, KnowsItsAsset(run[w]),
         \A v \in Workers \ {w} : run'[v] = run[v],
         run'[w].job = run[w].job, run'[w].asset = HashOf[FileOf(w)],
         fileAsset'[FileOf(w)] = HashOf[FileOf(w)],
         Prepared(run[w])'
  PROVE  HandlersAgree'
<1> DEFINE f == FileOf(w)
<1>1. f \in Files /\ f = run[w].job.file /\ HashOf[f] \in Hashes /\ HashOf[f] # NoAsset
  BY RunFields, FilesAssumption DEF FileOf
<1>2. run[w].asset # NoAsset => run[w].asset = HashOf[f]
  BY <1>1 DEF IInv, LinksAgree, KnowsItsAsset
<1>3. \A h \in described : h # NoAsset
  BY FilesAssumption DEF IInv, TypeOK
<1>4. KnowsItsAsset(run[w])'
  BY <1>1, <1>2, <1>3 DEF KnowsItsAsset, Grows
<1> QED BY <1>4, OthersAgree

\* The steps of the ingestion handler keep what handlers know.
LEMMA IngestAgrees ==
  ASSUME IInv, Grows, NEW w \in Workers, Ingest(w)
  PROVE  HandlersAgree'
<1> USE FilesAssumption DEF At, Pcs, IngestionPcs, StagePcs, FailurePcs
<1>1. ASSUME NEW pc \in Pcs, NEW next \in Pcs, Free(next),
             NEW s \in AssetState \ {"COMPLETED"}, At(w, pc), UpdateStates(w, s, next)
      PROVE HandlersAgree'
  BY <1>1, AtAgrees, FreePrepared, UpdateStatesAgrees DEF Prepared
<1>2. CASE BeginIngestion(w)
  <2>1. run[w] \in Run /\ KnowsItsAsset(run[w]) /\ Prepared(run[w])
    BY <1>2, AtAgrees DEF BeginIngestion
  <2>2. CASE run[w].asset \in stored /\ run[w].asset \in described
             /\ Goto(w, "dispatchEmbedding")
    BY <2>1, <2>2, GotoAgrees DEF Prepared, Run
  <2>3. CASE run[w].asset \in stored /\ Goto(w, "markStored")
    BY <2>1, <2>3, GotoAgrees DEF Prepared, Run
  <2>4. CASE run' = [run EXCEPT ![w].pc = "enter", ![w].guarded = TRUE]
    <3>1. /\ \A v \in Workers \ {w} : run'[v] = run[v]
          /\ run'[w].job = run[w].job /\ run'[w].asset = run[w].asset
          /\ run'[w].pend = run[w].pend /\ run'[w].pc = "enter"
      BY <2>1, <2>4 DEF IInv, TypeOK, Run
    <3>2. Prepared(run[w])'
      BY <2>1, <3>1 DEF Prepared
    <3> QED BY <2>1, <3>1, <3>2, MovesOn
  <2> QED BY <1>2, <2>2, <2>3, <2>4 DEF BeginIngestion
<1>3. CASE DownloadFile(w) \/ EnterUpload(w)
  BY <1>3, <1>1 DEF DownloadFile, EnterUpload, Free, AssetState
<1>4. CASE ValidateImage(w)
  <2>1. CASE FailWith(w, FALSE)
    BY <1>4, <2>1, AtAgrees, FailWithAgrees DEF ValidateImage
  <2>2. CASE UpdateStates(w, "HASHING", "findDuplicate")
    BY <1>4, <2>2, <1>1 DEF ValidateImage, Free, AssetState
  <2> QED BY <1>4, <2>1, <2>2 DEF ValidateImage
<1>5. CASE FindDuplicate(w)
  <2>1. run[w] \in Run /\ Prepared(run[w])
    BY <1>5, AtAgrees DEF FindDuplicate
  <2>2. CASE Exists(HashOf[FileOf(w)]) /\ Goto(w, "attach")
    BY <2>1, <2>2, GotoAgrees DEF Prepared, Run, FileOf
  <2>3. CASE Goto(w, "enterUpload")
    BY <2>1, <2>3, GotoAgrees, FreePrepared DEF Prepared, Free
  <2> QED BY <1>5, <2>2, <2>3 DEF FindDuplicate
<1>6. CASE AttachToExistingAsset(w)
  <2>1. run[w] \in Run /\ KnowsItsAsset(run[w]) /\ Prepared(run[w])
    BY <1>6, AtAgrees DEF AttachToExistingAsset
  <2>2. /\ \A v \in Workers \ {w} : run'[v] = run[v]
        /\ run'[w].job = run[w].job /\ run'[w].asset = HashOf[FileOf(w)]
        /\ run'[w].pend = run[w].pend /\ run'[w].pc = "record"
    BY <1>6, <2>1 DEF AttachToExistingAsset, IInv, TypeOK, Run
  <2>3. fileAsset'[FileOf(w)] = HashOf[FileOf(w)]
    BY <1>6, <2>1, RunFields DEF AttachToExistingAsset, IInv, TypeOK, FileOf
  <2>4. Prepared(run[w])'
    BY <2>1, <2>2 DEF Prepared
  <2> QED BY <2>1, <2>2, <2>3, <2>4, TakesAsset
<1>7. CASE CreateAsset(w)
  <2>1. run[w] \in Run /\ KnowsItsAsset(run[w]) /\ Prepared(run[w])
    BY <1>7, AtAgrees DEF CreateAsset
  <2>2. CASE Exists(HashOf[FileOf(w)])
    BY <1>7, <2>1, <2>2, GotoAgrees DEF CreateAsset, Prepared, Run, FileOf
  <2>3. CASE ~ Exists(HashOf[FileOf(w)])
    <3>1. /\ fileAsset' = [fileAsset EXCEPT ![FileOf(w)] = HashOf[FileOf(w)]]
          /\ run' = [run EXCEPT ![w].pc = "upload", ![w].asset = HashOf[FileOf(w)]]
      BY <1>7, <2>3 DEF CreateAsset
    <3>2. /\ \A v \in Workers \ {w} : run'[v] = run[v]
          /\ run'[w].job = run[w].job /\ run'[w].asset = HashOf[FileOf(w)]
          /\ run'[w].pend = run[w].pend /\ run'[w].pc = "upload"
      BY <2>1, <3>1 DEF IInv, TypeOK, Run
    <3>3. /\ fileAsset'[FileOf(w)] = HashOf[FileOf(w)]
          /\ HashOf[FileOf(w)] # NoAsset
      BY <2>1, <3>1, RunFields DEF IInv, TypeOK, FileOf
    <3>4. Prepared(run[w])'
      BY <2>1, <3>2, <3>3 DEF Prepared
    <3> QED BY <2>1, <3>2, <3>3, <3>4, TakesAsset
  <2> QED BY <2>2, <2>3
<1>8. CASE UploadFile(w)
  <2>1. run[w] \in Run /\ Prepared(run[w])
    BY <1>8, AtAgrees DEF UploadFile
  <2>2. run'[w].pend = run[w].pend /\ run'[w].pc = "markStored"
        /\ run'[w].asset \in stored'
    BY <1>8, <2>1, GotoFields DEF UploadFile, IInv
  <2>3. Prepared(run[w])'
    BY <2>1, <2>2 DEF Prepared
  <2> QED BY <1>8, <2>1, <2>3, GotoFields, MovesOn DEF UploadFile, IInv
<1>9. CASE MarkStored(w)
  <2>1. run[w] \in Run /\ Prepared(run[w]) /\ run[w].asset \in stored
    BY <1>9, AtAgrees DEF MarkStored, Prepared
  <2>2. Prepared([run[w] EXCEPT !.pc = "dispatchAi"])
    BY <2>1 DEF Prepared, Run
  <2> QED BY <1>9, <2>1, <2>2, UpdateStatesAgrees DEF MarkStored, AssetState
<1>10. CASE DispatchAiMetadata(w)
  BY <1>10, AtAgrees, FreePrepared, GotoAgrees DEF DispatchAiMetadata, Prepared, Free
<1> QED BY <1>2, <1>3, <1>4, <1>5, <1>6, <1>7, <1>8, <1>9, <1>10 DEF Ingest

\* So do the steps of the s3Upload, aiMetadata and embedding handlers.
LEMMA StagesAgree ==
  ASSUME IInv, Grows, NEW w \in Workers,
         S3Upload(w) \/ AiMetadata(w) \/ Embedding(w)
  PROVE  HandlersAgree'
<1> USE DEF At, Pcs, IngestionPcs, StagePcs, FailurePcs
<1>1. CASE CheckStored(w)
  <2>1. run[w] \in Run /\ Prepared(run[w])
    BY <1>1, AtAgrees DEF CheckStored
  <2>2. CASE FailWith(w, FALSE)
    BY <2>1, <2>2, FailWithAgrees
  <2>3. CASE run[w].asset \in described /\ Goto(w, "dispatchEmbedding")
    BY <2>1, <2>3, GotoAgrees DEF Prepared, Run
  <2>4. CASE run[w].asset \in stored /\ Goto(w, "markStored")
    BY <2>1, <2>4, GotoAgrees DEF Prepared, Run
  <2> QED BY <1>1, <2>2, <2>3, <2>4 DEF CheckStored
<1>2. CASE SetGenerated(w)
  BY <1>2, AtAgrees, FreePrepared, UpdateStatesAgrees
     DEF SetGenerated, Prepared, Free, AssetState
<1>3. CASE FindMetadata(w)
  <2>1. run[w] \in Run /\ Prepared(run[w]) /\ run[w].asset # NoAsset
    BY <1>3, AtAgrees DEF FindMetadata, Prepared
  <2>2. CASE run[w].asset \in described /\ Goto(w, "markGenerated")
    BY <2>1, <2>2, GotoAgrees DEF Prepared, Run
  <2>3. CASE Goto(w, "generate")
    BY <2>1, <2>3, GotoAgrees DEF Prepared, Run
  <2> QED BY <1>3, <2>2, <2>3 DEF FindMetadata
<1>4. CASE GenerateMetadata(w)
  <2>1. run[w] \in Run /\ Prepared(run[w])
    BY <1>4, AtAgrees DEF GenerateMetadata
  <2>2. CASE run[w].asset \notin stored
    BY <1>4, <2>1, <2>2, FailWithAgrees DEF GenerateMetadata
  <2>3. CASE run[w].asset \in stored
    <3>1. Goto(w, "markGenerated") /\ run[w].asset \in described'
      BY <1>4, <2>3 DEF GenerateMetadata
    <3>2. Prepared(run[w])'
      BY <2>1, <3>1, GotoFields DEF Prepared, IInv
    <3> QED BY <2>1, <3>1, <3>2, GotoFields, MovesOn DEF IInv
  <2> QED BY <2>2, <2>3
<1>5. CASE MarkGenerated(w)
  <2>1. run[w] \in Run /\ Prepared(run[w]) /\ run[w].asset \in described
    BY <1>5, AtAgrees DEF MarkGenerated, Prepared
  <2> QED BY <1>5, <2>1, GotoAgrees DEF MarkGenerated, Prepared, Run
<1>6. CASE DispatchEmbedding(w)
  <2>1. run[w] \in Run /\ Prepared(run[w]) /\ run[w].asset \in described
    BY <1>6, AtAgrees DEF DispatchEmbedding, Prepared
  <2>2. CASE Goto(w, "setGenerated")
    BY <2>1, <2>2, GotoAgrees DEF Prepared, Run
  <2>3. CASE Goto(w, "record")
    BY <2>1, <2>3, GotoAgrees, FreePrepared DEF Prepared, Free
  <2> QED BY <1>6, <2>2, <2>3 DEF DispatchEmbedding
<1>7. CASE HasEmbeddingForHash(w) \/ GenerateEmbedding(w)
  <2>1. /\ run[w] \in Run /\ Prepared(run[w]) /\ run[w].job.queue = "embedding"
    BY <1>7, AtAgrees DEF HasEmbeddingForHash, GenerateEmbedding, Prepared
  <2>2. CASE run[w].asset \in embedded /\ Goto(w, "complete")
    BY <2>1, <2>2, GotoAgrees DEF Prepared, Run
  <2>3. CASE Goto(w, "embed") \/ Goto(w, "createEmbedding")
    BY <2>1, <2>3, GotoAgrees DEF Prepared, Run
  <2> QED BY <1>7, <2>2, <2>3 DEF HasEmbeddingForHash, GenerateEmbedding
<1>8. CASE CreateEmbedding(w)
  <2>1. /\ run[w] \in Run /\ Prepared(run[w]) /\ run[w].job.queue = "embedding"
    BY <1>8, AtAgrees DEF CreateEmbedding, Prepared
  <2>2. CASE run[w].asset \in embedded
    BY <1>8, <2>1, <2>2, FailWithAgrees DEF CreateEmbedding
  <2>3. CASE run[w].asset \notin embedded
    <3>1. Goto(w, "complete") /\ run[w].asset \in embedded'
      BY <1>8, <2>3 DEF CreateEmbedding
    <3>2. Prepared(run[w])'
      BY <2>1, <3>1, GotoFields DEF Prepared, IInv
    <3> QED BY <2>1, <3>1, <3>2, GotoFields, MovesOn DEF IInv
  <2> QED BY <2>2, <2>3
<1>9. CASE MarkCompleted(w)
  BY <1>9, AtAgrees, FreePrepared, GotoAgrees DEF MarkCompleted, Prepared, Free
<1> QED BY <1>1, <1>2, <1>3, <1>4, <1>5, <1>6, <1>7, <1>8, <1>9
        DEF S3Upload, AiMetadata, Embedding

\* So do the steps of handleFailure.
LEMMA HandleFailureAgrees ==
  ASSUME IInv, Grows, NEW w \in Workers, HandleFailure(w)
  PROVE  HandlersAgree'
<1> USE DEF At, Pcs, IngestionPcs, StagePcs, FailurePcs
<1>1. CASE ScheduleRetry(w) \/ MoveToDeadLetter(w) \/ CountFailed(w)
  BY <1>1, AtAgrees, FreePrepared, GotoAgrees
     DEF ScheduleRetry, MoveToDeadLetter, CountFailed, Prepared, Free
<1>2. CASE SetRetryPending(w) \/ SetDeadLetter(w)
  BY <1>2, AtAgrees, FreePrepared, UpdateStatesAgrees
     DEF SetRetryPending, SetDeadLetter, Prepared, Free, AssetState
<1> QED BY <1>1, <1>2 DEF HandleFailure

\* So does every step.
LEMMA HandlersStep ==
  ASSUME IInv, Grows, [Next]_vars
  PROVE  HandlersAgree'
<1> USE DEF At, Pcs, IngestionPcs, StagePcs, FailurePcs
<1>1. ASSUME NEW w \in Workers, NEW m \in Message, ProcessPipelineJob(w, m)
      PROVE HandlersAgree'
  <2>1. FindsItsAsset(m)
    BY <1>1 DEF ProcessPipelineJob, IInv, MessagesFindTheirAsset
  <2>2. FindsItsAsset(m)'
    BY <2>1, MessageStable
  <2>3. /\ \A v \in Workers \ {w} : run'[v] = run[v]
        /\ run'[w].job = m /\ run'[w].asset = m.asset /\ run'[w].pend = "none"
        /\ run'[w].pc \in {"begin", "enter"}
    BY <1>1 DEF ProcessPipelineJob, IInv, TypeOK
  <2>4. KnowsItsAsset(run[w])'
    BY <2>2, <2>3 DEF FindsItsAsset, KnowsItsAsset
  <2>5. Prepared(run[w])'
    BY <2>3 DEF Prepared
  <2> QED BY <2>3, <2>4, <2>5, OthersAgree
<1>2. ASSUME NEW w \in Workers, RunStage(w) PROVE HandlersAgree'
  <2> DEFINE q == run[w].job.queue
             work == [ingestion |-> "download", s3Upload |-> "checkStored",
                      aiMetadata |-> "findMetadata", embedding |-> "hasEmbedding"]
  <2>1. run[w] \in Run /\ KnowsItsAsset(run[w]) /\ Prepared(run[w]) /\ q \in Queues
    BY <1>2, AtAgrees, RunFields DEF RunStage
  <2>2. /\ EntryStage[q] \in AssetState \ {"COMPLETED"} /\ work[q] \in Pcs
        /\ work[q] \in {"checkStored", "findMetadata"} => q # "ingestion"
        /\ work[q] = "hasEmbedding" => q = "embedding"
        /\ work[q] \in {"download", "checkStored", "findMetadata", "hasEmbedding"}
    BY <2>1 DEF Queues, EntryStage, AssetState
  <2>3. q # "ingestion" => run[w].asset # NoAsset
    BY <2>1 DEF KnowsItsAsset
  <2>4. Prepared([run[w] EXCEPT !.pc = work[q]])
    <3> HIDE DEF work
    <3> QED BY <2>1, <2>2, <2>3 DEF Prepared, Run
  <2>5. UpdateStates(w, EntryStage[q], work[q])
    BY <1>2 DEF RunStage
  <2> HIDE DEF work, q
  <2> QED BY <2>1, <2>2, <2>4, <2>5, UpdateStatesAgrees
<1>3. ASSUME NEW w \in Workers, WriteFileStatus(w) PROVE HandlersAgree'
  <2>1. run[w] \in Run /\ Prepared(run[w])
    BY <1>3, ActiveRuns DEF WriteFileStatus, IInv, HandlersAgree, Active
  <2>2. PICK r \in Run : r = run[w]
    BY <2>1
  <2>3. Prepared(r)'
    BY <2>1, <2>2, PreparedStable
  <2>4. /\ \A v \in Workers \ {w} : run'[v] = run[v]
        /\ run'[w].job = r.job /\ run'[w].asset = r.asset
        /\ run'[w].pc = r.pc /\ run'[w].pend = "none"
    BY <1>3, <2>2 DEF WriteFileStatus, IInv, TypeOK, Run
  <2>5. Prepared(run[w])'
    BY <2>3, <2>4 DEF Prepared
  <2> QED BY <2>1, <2>2, <2>4, <2>5, MovesOn
<1>4. ASSUME NEW w \in Workers, Finish(w) \/ Crash(w) \/ run' = [run EXCEPT ![w] = Idle]
      PROVE HandlersAgree'
  <2>1. /\ \A v \in Workers \ {w} : run'[v] = run[v]
        /\ run'[w] = Idle
    BY <1>4 DEF Finish, Crash, IInv, TypeOK
  <2> QED BY <2>1, OthersAgree
<1>5. ASSUME NEW w \in Workers, Fault(w) PROVE HandlersAgree'
  <2>1. ASSUME NEW retryable \in FaultClasses, FailWith(w, retryable)
        PROVE HandlersAgree'
    BY <1>5, <2>1, AtAgrees, FailWithAgrees, EnvironmentAssumption DEF Fault
  <2> QED BY <1>4, <1>5, <2>1 DEF Fault
<1>6. CASE UNCHANGED run
  <2>1. ASSUME NEW w \in Workers, run[w] # Idle
        PROVE  KnowsItsAsset(run[w])' /\ Prepared(run[w])'
    BY <1>6, <2>1, ActiveRuns, KnowledgeStable, PreparedStable
       DEF IInv, HandlersAgree, Active, KnowsItsAsset, Prepared
  <2> QED BY <1>6, <2>1 DEF HandlersAgree, Active
<1>7. ASSUME NEW w \in Workers, Work(w) PROVE HandlersAgree'
  BY <1>1, <1>2, <1>3, <1>4, <1>7, IngestAgrees, StagesAgree, HandleFailureAgrees DEF Work
<1>8. CASE Replay
  BY <1>6, <1>8 DEF Replay, ReplayFromDlq, ReplaySetAsset, ReplaySetFile
<1> QED BY <1>4, <1>5, <1>6, <1>7, <1>8 DEF Next, vars

---------------------------------------------------------------------------
(* The theorems. *)

\* The pipeline starts in the inductive invariant.
LEMMA InitIInv == Init => IInv
<1> SUFFICES ASSUME Init PROVE IInv
  OBVIOUS
<1> USE FilesAssumption, AttemptsAssumption, EnvironmentAssumption DEF Init
<1>1. TypeOK
  BY DEF TypeOK, AssetState, MaybeAsset, NoReplay
<1>2. ArtifactChain
  BY DEF ArtifactChain, Exists
<1>3. LinksAgree
  BY DEF LinksAgree
<1>4. MessagesFindTheirAsset
  BY DEF MessagesFindTheirAsset, FindsItsAsset, Discovered
<1>5. HandlersAgree
  BY DEF HandlersAgree, Active
<1> QED BY <1>1, <1>2, <1>3, <1>4, <1>5 DEF IInv

\* Every step keeps the inductive invariant.
LEMMA StepIInv == IInv /\ [Next]_vars => IInv'
<1> SUFFICES ASSUME IInv, [Next]_vars PROVE IInv'
  OBVIOUS
<1>1. TypeOK'
  BY TypeStep DEF IInv
<1>2. ArtifactChain' /\ LinksAgree' /\ Grows
  BY DataStep DEF DataGoal
<1>3. MessagesFindTheirAsset'
  BY <1>2, MessagesStep
<1>4. HandlersAgree'
  BY <1>2, HandlersStep
<1> QED BY <1>1, <1>2, <1>3, <1>4 DEF IInv

\* The inductive invariant holds in every reachable state.
THEOREM Invariance == Spec => []IInv
BY InitIInv, StepIInv, PTL DEF Spec

\* Every variable keeps its type, whatever fails, crashes or is replayed.
THEOREM TypeCorrect == Spec => []TypeOK
<1>1. IInv => TypeOK
  BY DEF IInv
<1> QED BY <1>1, Invariance, PTL

\* No handler, retry, redelivery or replay ever makes an embedding without
\* metadata, metadata without an object, or a COMPLETED asset without either.
THEOREM ChainNeverBroken == Spec => []ArtifactChain
<1>1. IInv => ArtifactChain
  BY DEF IInv
<1> QED BY <1>1, Invariance, PTL

\* IngestionFile.assetId and the AssetSource row never disagree, no message in
\* flight names a wrong asset or outruns the metadata it needs, and what a
\* handler read before an await is still true after it.
THEOREM NobodyIsMisled == Spec => []EverybodyAgrees
<1>1. IInv => EverybodyAgrees
  BY DEF IInv, EverybodyAgrees
<1> QED BY <1>1, Invariance, PTL

\* Objects, metadata, embeddings, asset rows and links are never taken back.
THEOREM NothingTakenBack == Spec => [][Grows]_vars
<1>1. IInv /\ [Next]_vars => [Grows]_vars
  BY DataStep DEF DataGoal
<1> QED BY <1>1, Invariance, PTL DEF Spec

---------------------------------------------------------------------------
(* The steps, by what becomes of the file they are about. *)

\* A step of worker w moves no other worker, and w stays in its job or ends it.
Moves(w) ==
  /\ run[w] \in Run
  /\ \A v \in Workers \ {w} : run'[v] = run[v]
  /\ run'[w] = Idle \/ (run'[w] \in Run /\ run'[w].job = run[w].job)

\* It takes a message,
Takes(w, m) ==
  /\ run[w] = Idle /\ \A v \in Workers \ {w} : run'[v] = run[v]
  /\ run'[w] \in Run /\ run'[w].job = m /\ run'[w].pc \notin LateAwaits
  /\ queue[m] > 0 /\ queue' = [queue EXCEPT ![m] = @ - 1]
  /\ UNCHANGED totals
\* works on with the file,
Keeps(w) ==
  /\ Moves(w) /\ Holding(w) /\ Holding(w)' /\ UNCHANGED <<queue, totals>>
\* passes the file on in a message,
Passes(w) ==
  /\ Moves(w) /\ Holding(w) /\ ~ Holding(w)' /\ UNCHANGED totals
  /\ \E m \in Message : m.file = FileOf(w) /\ Send(m)
\* counts it,
Counts(w) ==
  /\ Moves(w) /\ Holding(w) /\ ~ Holding(w)' /\ UNCHANGED queue
  /\ \A f \in Files : Counted(f)' = IF f = FileOf(w) THEN Counted(f) + 1 ELSE Counted(f)
\* or no longer has it.
IsLate(w) ==
  /\ Moves(w) /\ ~ Holding(w) /\ ~ Holding(w)' /\ UNCHANGED <<queue, totals>>
\* The process dies, and its job is delivered again.
Dies(w) ==
  /\ Moves(w) /\ run'[w] = Idle /\ budget.crashes > 0
  /\ Send(run[w].job) /\ UNCHANGED totals
\* An operator has a file replayed.
Replays ==
  /\ budget.replays > 0 /\ UNCHANGED <<run, totals>>
  /\ \E m \in Message : Send(m)

StepKind ==
  \/ UNCHANGED <<run, queue, totals>>
  \/ Replays
  \/ \E w \in Workers :
        \/ \E m \in Message : Takes(w, m)
        \/ Keeps(w) \/ Passes(w) \/ Counts(w) \/ IsLate(w) \/ Dies(w)

\* Outside of runStage, and so without handleFailure, a handler is only on its
\* way from the resume of an ingestion to the message of the next stage.
ResumeAwaits == {"begin", "markStored", "dispatchAi", "dispatchEmbedding", "record"}
Unguarded(r) == ~ r.guarded => r.job.queue = "ingestion" /\ r.pc \in ResumeAwaits
GuardsAgree == \A w \in Workers : Active(w) => Unguarded(run[w])

\* A worker with an await is active.
LEMMA PcActive ==
  ASSUME NEW w, NEW pc \in Pcs, run[w].pc = pc
  PROVE  Active(w)
BY DEF Active, Idle, Pcs, IngestionPcs, StagePcs, FailurePcs

\* A step that moves a worker from one await to another in the same job.
LEMMA Going ==
  ASSUME IInv, NEW w \in Workers, run[w] \in Run, NEW pc \in Pcs,
         \/ Goto(w, pc)
         \/ \E state \in AssetState : UpdateStates(w, state, pc)
  PROVE  /\ Moves(w) /\ run'[w].pc = pc /\ Active(w)'
         /\ run'[w].guarded = run[w].guarded
<1>1. run'[w].pc = pc /\ Moves(w)
  BY GotoType, GotoFields, UpdateStatesType, UpdateStatesFields DEF IInv, TypeOK, Moves
<1>2. run'[w].guarded = run[w].guarded
  BY DEF IInv, TypeOK, Goto, UpdateStates, Run
<1> QED BY <1>1, <1>2, PcActive DEF Active, Idle, Pcs, IngestionPcs, StagePcs, FailurePcs

\* A stage that throws hands its file to handleFailure.
LEMMA Failing ==
  ASSUME IInv, NEW w \in Workers, run[w] \in Run, NEW retryable \in BOOLEAN,
         FailWith(w, retryable)
  PROVE  /\ Moves(w) /\ Active(w)' /\ run'[w].pc \in {"reschedule", "toDlq"}
         /\ run'[w].guarded = run[w].guarded
<1>1. run'[w].pc \in {"reschedule", "toDlq"} /\ Moves(w)
  BY FailWithType, FailWithFields DEF IInv, TypeOK, Moves
<1>2. run'[w].guarded = run[w].guarded
  BY DEF IInv, TypeOK, FailWith, Run
<1> QED BY <1>1, <1>2 DEF Active, Idle

\* A step of worker w keeps the guards in agreement if w ends its job, runs
\* inside runStage, or stays on the way of a resume.
LEMMA GuardsKept ==
  ASSUME GuardsAgree, NEW w \in Workers, Moves(w),
         \/ run'[w] = Idle
         \/ run'[w].guarded
         \/ /\ run'[w].guarded = run[w].guarded
            /\ run[w].pc \in ResumeAwaits => run'[w].pc \in ResumeAwaits \/ run[w].job.queue # "ingestion"
  PROVE  GuardsAgree'
<1>1. Unguarded(run[w])
  BY DEF GuardsAgree, Moves, Active, Idle, Run, Pcs, IngestionPcs, StagePcs, FailurePcs
<1>2. Active(w)' => Unguarded(run[w])'
  BY <1>1 DEF Moves, Unguarded, Active
<1> QED BY <1>2 DEF GuardsAgree, Moves, Active, Unguarded

\* A handler that goes on to another await of its job.
LEMMA GoesOn ==
  ASSUME IInv, GuardsAgree, NEW w \in Workers, NEW from \in Pcs, NEW to \in Pcs,
         run[w].pc = from, from \in ResumeAwaits => to \in ResumeAwaits,
         \/ Goto(w, to)
         \/ \E state \in AssetState : UpdateStates(w, state, to)
  PROVE  GuardsAgree' /\ Moves(w) /\ Active(w) /\ Active(w)' /\ run'[w].pc = to
<1>1. run[w] \in Run /\ Active(w)
  BY AtRuns, PcActive DEF IInv
<1> QED BY <1>1, Going, GuardsKept

\* A handler whose stage throws.
LEMMA Fails ==
  ASSUME IInv, GuardsAgree, NEW w \in Workers, NEW from \in Pcs,
         run[w].pc = from, from \notin ResumeAwaits \/ run[w].guarded,
         NEW retryable \in BOOLEAN, FailWith(w, retryable)
  PROVE  GuardsAgree' /\ Moves(w) /\ Active(w) /\ Active(w)' /\ run'[w].pc \in {"reschedule", "toDlq"}
<1>1. run[w] \in Run /\ Active(w)
  BY AtRuns, PcActive DEF IInv
<1> QED BY <1>1, Failing, GuardsKept

\* Either way it keeps the file, unless it goes on to an await that comes after.
LEMMA StaysOn ==
  ASSUME IInv, GuardsAgree, NEW w \in Workers,
         NEW from \in Pcs \ LateAwaits, NEW to \in Pcs \ LateAwaits, At(w, from),
         from \in ResumeAwaits => to \in ResumeAwaits,
         \/ Goto(w, to)
         \/ \E state \in AssetState : UpdateStates(w, state, to),
         UNCHANGED <<queue, totals>>
  PROVE  Keeps(w) /\ GuardsAgree'
BY GoesOn DEF Keeps, Holding, Active, At

\* A failing await leaves the file in the hands of its handler.
LEMMA FailsInHand ==
  ASSUME IInv, GuardsAgree, NEW w \in Workers,
         NEW from \in Pcs \ LateAwaits, At(w, from), from \notin ResumeAwaits \/ run[w].guarded,
         NEW retryable \in BOOLEAN, FailWith(w, retryable),
         UNCHANGED <<queue, totals>>
  PROVE  Keeps(w) /\ GuardsAgree'
BY Fails DEF Keeps, Holding, Active, At, LateAwaits

\* The steps of the ingestion handler.
LEMMA IngestKind ==
  ASSUME IInv, GuardsAgree, NEW w \in Workers, Ingest(w)
  PROVE  (Keeps(w) \/ Passes(w) \/ Counts(w)) /\ GuardsAgree'
<1> USE DEF At, Pcs, IngestionPcs, StagePcs, FailurePcs, LateAwaits, ResumeAwaits
<1>1. CASE BeginIngestion(w)
  <2>1. run[w] \in Run /\ Active(w) /\ UNCHANGED <<queue, totals>>
    BY <1>1, AtRuns, PcActive DEF BeginIngestion, IInv
  <2>2. CASE Goto(w, "dispatchEmbedding") \/ Goto(w, "markStored")
    BY <1>1, <2>1, <2>2, StaysOn DEF BeginIngestion
  <2>3. CASE run' = [run EXCEPT ![w].pc = "enter", ![w].guarded = TRUE]
    <3>1. /\ run'[w] \in Run /\ run'[w].job = run[w].job /\ run'[w].pc = "enter" /\ run'[w].guarded
          /\ \A v \in Workers \ {w} : run'[v] = run[v]
      BY <2>1, <2>3 DEF IInv, TypeOK, Run
    <3>2. Moves(w) /\ Active(w)'
      BY <2>1, <3>1 DEF Moves, Active, Idle
    <3> QED BY <1>1, <2>1, <3>1, <3>2, GuardsKept DEF BeginIngestion, Keeps, Holding, Active
  <2> QED BY <1>1, <2>2, <2>3 DEF BeginIngestion
<1>2. CASE DownloadFile(w) \/ EnterUpload(w) \/ MarkStored(w)
  BY <1>2, StaysOn DEF DownloadFile, EnterUpload, MarkStored, AssetState
<1>3. CASE ValidateImage(w)
  <2>1. CASE FailWith(w, FALSE)
    BY <1>3, <2>1, FailsInHand DEF ValidateImage
  <2>2. CASE UpdateStates(w, "HASHING", "findDuplicate")
    BY <1>3, <2>2, StaysOn DEF ValidateImage, AssetState
  <2> QED BY <1>3, <2>1, <2>2 DEF ValidateImage
<1>4. CASE FindDuplicate(w) \/ UploadFile(w)
  BY <1>4, StaysOn DEF FindDuplicate, UploadFile
<1>5. CASE AttachToExistingAsset(w)
  <2>1. run[w] \in Run /\ Active(w) /\ UNCHANGED queue /\ FileOf(w) \in Files
    BY <1>5, AtRuns, PcActive, RunFields DEF AttachToExistingAsset, IInv, FileOf
  <2>2. /\ \A v \in Workers \ {w} : run'[v] = run[v]
        /\ run'[w].job = run[w].job /\ run'[w].pc = "record"
        /\ run'[w].guarded = run[w].guarded
    BY <1>5, <2>1 DEF AttachToExistingAsset, IInv, TypeOK, Run
  <2>3. Moves(w)
    BY <1>5, <2>1, <2>2, TypeStep, ActiveRuns DEF Moves, IInv, Next, Work, TypeOK
  <2>4. totals' = [totals EXCEPT ![FileOf(w)].successful = @ + 1, ![FileOf(w)].duplicate = @ + 1]
    BY <1>5 DEF AttachToExistingAsset
  <2>5. \A f \in Files : Counted(f)' = IF f = FileOf(w) THEN Counted(f) + 1 ELSE Counted(f)
    BY <2>1, <2>4 DEF IInv, TypeOK, Counted
  <2> QED BY <1>5, <2>1, <2>2, <2>3, <2>5, GuardsKept DEF Counts, Holding, AttachToExistingAsset, Active
<1>6. CASE CreateAsset(w)
  <2>1. run[w] \in Run /\ Active(w) /\ UNCHANGED <<queue, totals>>
    BY <1>6, AtRuns, PcActive DEF CreateAsset, IInv
  <2>2. CASE Goto(w, "attach")
    BY <1>6, <2>1, <2>2, StaysOn DEF CreateAsset
  <2>3. CASE run' = [run EXCEPT ![w].pc = "upload", ![w].asset = HashOf[FileOf(w)]]
    <3>1. /\ run'[w] \in Run /\ run'[w].job = run[w].job /\ run'[w].pc = "upload"
          /\ run'[w].guarded = run[w].guarded
          /\ \A v \in Workers \ {w} : run'[v] = run[v]
      BY <2>1, <2>3, RunFields, FilesAssumption DEF IInv, TypeOK, Run, FileOf, MaybeAsset
    <3>2. Moves(w) /\ Active(w)'
      BY <2>1, <3>1 DEF Moves, Active, Idle
    <3> QED BY <1>6, <2>1, <3>1, <3>2, GuardsKept DEF CreateAsset, Keeps, Holding, Active
  <2> QED BY <1>6, <2>2, <2>3 DEF CreateAsset
<1>7. CASE DispatchAiMetadata(w)
  <2>1. run[w] \in Run /\ run[w].pc = "dispatchAi"
    BY <1>7, AtRuns DEF DispatchAiMetadata, IInv
  <2>2. /\ NextMessage(w, "aiMetadata") \in Message
        /\ NextMessage(w, "aiMetadata").file = FileOf(w)
    BY <2>1, NextMessageType DEF NextMessage, Queues
  <2>3. /\ GuardsAgree' /\ Moves(w) /\ Active(w) /\ run'[w].pc = "record"
    BY <1>7, GoesOn DEF DispatchAiMetadata
  <2> QED BY <1>7, <2>1, <2>2, <2>3 DEF DispatchAiMetadata, Passes, Holding, Active
<1> QED BY <1>1, <1>2, <1>3, <1>4, <1>5, <1>6, <1>7 DEF Ingest

\* A late handler goes on, or is done.
LEMMA StaysLate ==
  ASSUME IInv, GuardsAgree, NEW w \in Workers, NEW from \in LateAwaits, At(w, from),
         UNCHANGED <<queue, totals>>,
         \/ run' = [run EXCEPT ![w] = Idle]
         \/ \E to \in LateAwaits : /\ from \in ResumeAwaits => to \in ResumeAwaits
                                   /\ \E state \in AssetState : UpdateStates(w, state, to)
  PROVE  IsLate(w) /\ GuardsAgree'
<1>1. run[w] \in Run /\ ~ Holding(w)
  BY AtRuns DEF IInv, Holding, At, LateAwaits, Pcs, StagePcs, FailurePcs
<1>2. CASE run' = [run EXCEPT ![w] = Idle]
  <2>1. Moves(w) /\ run'[w] = Idle
    BY <1>1, <1>2 DEF Moves, IInv, TypeOK
  <2> QED BY <1>1, <2>1, GuardsKept DEF IsLate, Holding, Active
<1>3. ASSUME NEW to \in LateAwaits, from \in ResumeAwaits => to \in ResumeAwaits,
             NEW state \in AssetState, UpdateStates(w, state, to)
      PROVE  IsLate(w) /\ GuardsAgree'
  <2>1. from \in Pcs /\ to \in Pcs
    BY DEF LateAwaits, Pcs, StagePcs, FailurePcs
  <2> QED BY <1>1, <1>3, <2>1, GoesOn DEF IsLate, Holding, Active, At
<1> QED BY <1>2, <1>3

\* The message for the next stage passes the file on.
LEMMA PassesOn ==
  ASSUME IInv, GuardsAgree, NEW w \in Workers,
         NEW from \in Pcs \ LateAwaits, NEW to \in LateAwaits, At(w, from), Goto(w, to),
         from \in ResumeAwaits => to \in ResumeAwaits \/ run[w].job.queue # "ingestion",
         NEW m \in Message, m.file = FileOf(w), Send(m), UNCHANGED totals
  PROVE  Passes(w) /\ GuardsAgree'
<1>1. run[w] \in Run /\ to \in Pcs /\ Active(w)
  BY AtRuns, PcActive DEF At, IInv, LateAwaits, Pcs, StagePcs, FailurePcs
<1>2. Moves(w) /\ run'[w].pc = to /\ run'[w].guarded = run[w].guarded
  BY <1>1, Going
<1> QED BY <1>1, <1>2, GuardsKept DEF Passes, Holding, Active, At

\* The steps of the other three handlers.
LEMMA StagesKind ==
  ASSUME IInv, GuardsAgree, NEW w \in Workers, S3Upload(w) \/ AiMetadata(w) \/ Embedding(w)
  PROVE  (Keeps(w) \/ Passes(w) \/ Counts(w) \/ IsLate(w)) /\ GuardsAgree'
<1> USE DEF Pcs, IngestionPcs, StagePcs, FailurePcs, LateAwaits, ResumeAwaits
<1>1. CASE CheckStored(w)
  <2>1. At(w, "checkStored") /\ UNCHANGED <<queue, totals>>
    BY <1>1 DEF CheckStored
  <2>2. CASE FailWith(w, FALSE)
    BY <2>1, <2>2, FailsInHand
  <2>3. CASE Goto(w, "dispatchEmbedding") \/ Goto(w, "markStored")
    BY <2>1, <2>3, StaysOn
  <2> QED BY <1>1, <2>2, <2>3 DEF CheckStored
<1>2. CASE SetGenerated(w)
  BY <1>2, StaysLate DEF SetGenerated, AssetState
<1>3. CASE FindMetadata(w) \/ MarkGenerated(w)
  BY <1>3, StaysOn DEF FindMetadata, MarkGenerated
<1>4. CASE GenerateMetadata(w)
  <2>1. At(w, "generate") /\ UNCHANGED <<queue, totals>>
    BY <1>4 DEF GenerateMetadata
  <2>2. CASE FailWith(w, FALSE)
    BY <2>1, <2>2, FailsInHand
  <2>3. CASE Goto(w, "markGenerated")
    BY <2>1, <2>3, StaysOn
  <2> QED BY <1>4, <2>2, <2>3 DEF GenerateMetadata
<1>5. CASE DispatchEmbedding(w)
  <2>1. run[w] \in Run /\ At(w, "dispatchEmbedding") /\ UNCHANGED totals
    BY <1>5, AtRuns DEF DispatchEmbedding, IInv, At
  <2>2. /\ NextMessage(w, "embedding") \in Message
        /\ NextMessage(w, "embedding").file = FileOf(w)
        /\ Send(NextMessage(w, "embedding"))
    BY <1>5, <2>1, NextMessageType DEF DispatchEmbedding, NextMessage, Queues
  <2>3. CASE run[w].job.queue = "s3Upload" /\ Goto(w, "setGenerated")
    BY <2>1, <2>2, <2>3, PassesOn
  <2>4. CASE Goto(w, "record")
    BY <2>1, <2>2, <2>4, PassesOn
  <2> QED BY <1>5, <2>3, <2>4 DEF DispatchEmbedding
<1>6. CASE HasEmbeddingForHash(w) \/ GenerateEmbedding(w)
  BY <1>6, StaysOn DEF HasEmbeddingForHash, GenerateEmbedding
<1>7. CASE CreateEmbedding(w)
  <2>1. At(w, "createEmbedding") /\ UNCHANGED <<queue, totals>>
    BY <1>7 DEF CreateEmbedding
  <2>2. CASE FailWith(w, FALSE)
    BY <2>1, <2>2, FailsInHand
  <2>3. CASE Goto(w, "complete")
    BY <2>1, <2>3, StaysOn
  <2> QED BY <1>7, <2>2, <2>3 DEF CreateEmbedding
<1>8. CASE MarkCompleted(w)
  <2>1. run[w] \in Run /\ FileOf(w) \in Files /\ UNCHANGED queue
        /\ totals' = [totals EXCEPT ![FileOf(w)].successful = @ + 1]
    BY <1>8, AtRuns, RunFields DEF MarkCompleted, IInv, FileOf, At
  <2>2. /\ GuardsAgree' /\ Moves(w) /\ Active(w) /\ run'[w].pc = "record" /\ run[w].pc = "complete"
    BY <1>8, GoesOn DEF MarkCompleted, At
  <2>3. \A f \in Files : Counted(f)' = IF f = FileOf(w) THEN Counted(f) + 1 ELSE Counted(f)
    BY <2>1 DEF IInv, TypeOK, Counted
  <2> QED BY <2>1, <2>2, <2>3 DEF Counts, Holding, Active
<1> QED BY <1>1, <1>2, <1>3, <1>4, <1>5, <1>6, <1>7, <1>8 DEF S3Upload, AiMetadata, Embedding

\* The steps of handleFailure.
LEMMA HandleFailureKind ==
  ASSUME IInv, GuardsAgree, NEW w \in Workers, HandleFailure(w)
  PROVE  (Keeps(w) \/ Passes(w) \/ Counts(w) \/ IsLate(w)) /\ GuardsAgree'
<1> USE DEF Pcs, IngestionPcs, StagePcs, FailurePcs, LateAwaits, ResumeAwaits
<1>1. CASE ScheduleRetry(w)
  <2> DEFINE m == [run[w].job EXCEPT !.asset = run[w].asset, !.attempt = @ + 1]
  <2>1. run[w] \in Run /\ At(w, "reschedule") /\ UNCHANGED totals /\ Prepared(run[w])
    BY <1>1, AtAgrees DEF ScheduleRetry, At
  <2>2. m \in Message /\ m.file = FileOf(w)
    <3>1. run[w].job \in Message /\ run[w].asset \in MaybeAsset
      BY <2>1, RunFields
    <3>2. run[w].job.attempt + 1 \in 1..MaxAttempts
      BY <2>1, RunFields, AttemptsAssumption DEF Prepared, At
    <3> QED BY <3>1, <3>2 DEF Message, FileOf
  <2>3. Send(m) /\ Goto(w, "setRetry")
    BY <1>1 DEF ScheduleRetry
  <2> HIDE DEF m
  <2> QED BY <2>1, <2>2, <2>3, PassesOn
<1>2. CASE SetRetryPending(w)
  BY <1>2, StaysLate DEF SetRetryPending, AssetState
<1>3. CASE MoveToDeadLetter(w) \/ SetDeadLetter(w)
  BY <1>3, StaysOn DEF MoveToDeadLetter, SetDeadLetter, AssetState
<1>4. CASE CountFailed(w)
  <2>1. run[w] \in Run /\ FileOf(w) \in Files /\ UNCHANGED queue
        /\ totals' = [totals EXCEPT ![FileOf(w)].failed = @ + 1]
    BY <1>4, AtRuns, RunFields DEF CountFailed, IInv, FileOf, At
  <2>2. /\ GuardsAgree' /\ Moves(w) /\ Active(w) /\ run'[w].pc = "end" /\ run[w].pc = "countFailed"
    BY <1>4, GoesOn DEF CountFailed, At
  <2>3. \A f \in Files : Counted(f)' = IF f = FileOf(w) THEN Counted(f) + 1 ELSE Counted(f)
    BY <2>1 DEF IInv, TypeOK, Counted
  <2> QED BY <2>1, <2>2, <2>3 DEF Counts, Holding, Active
<1> QED BY <1>1, <1>2, <1>3, <1>4 DEF HandleFailure

\* Every step of the pipeline is of one of the kinds, as long as only awaits
\* throw that still have the file in hand.
LEMMA KindOfStep ==
  ASSUME IInv, GuardsAgree, FaultPoints \subseteq RetriedAwaits, [Next]_vars
  PROVE  StepKind /\ GuardsAgree'
<1> USE DEF Pcs, IngestionPcs, StagePcs, FailurePcs, LateAwaits, ResumeAwaits
<1>1. ASSUME NEW w \in Workers, NEW m \in Message, ProcessPipelineJob(w, m)
      PROVE  Takes(w, m) /\ GuardsAgree'
  <2>1. /\ run[w] = Idle /\ \A v \in Workers \ {w} : run'[v] = run[v]
        /\ queue[m] > 0 /\ queue' = [queue EXCEPT ![m] = @ - 1] /\ UNCHANGED totals
        /\ run'[w].job = m /\ run'[w].pc \in {"begin", "enter"}
        /\ m.queue = "ingestion" => run'[w].pc = "begin"
        /\ run'[w].guarded <=> m.queue # "ingestion"
    BY <1>1 DEF ProcessPipelineJob, IInv, TypeOK
  <2>2. run'[w] \in Run
    BY <1>1, <2>1, ProcessPipelineJobType DEF IInv, TypeOK, Idle
  <2>3. GuardsAgree'
    BY <2>1 DEF GuardsAgree, Active, Unguarded
  <2> QED BY <2>1, <2>2, <2>3 DEF Takes
<1>2. ASSUME NEW w \in Workers, RunStage(w)
      PROVE  Keeps(w) /\ GuardsAgree'
  <2> DEFINE q == run[w].job.queue
             work == [ingestion |-> "download", s3Upload |-> "checkStored",
                      aiMetadata |-> "findMetadata", embedding |-> "hasEmbedding"]
  <2>1. run[w] \in Run /\ q \in Queues /\ At(w, "enter") /\ UNCHANGED <<queue, totals>>
    BY <1>2, AtRuns, RunFields DEF RunStage, At, IInv
  <2>2. EntryStage[q] \in AssetState /\ work[q] \in Pcs \ LateAwaits
    BY <2>1, EntryStageType DEF Queues
  <2>3. UpdateStates(w, EntryStage[q], work[q])
    BY <1>2 DEF RunStage
  <2> HIDE DEF work, q
  <2> QED BY <2>1, <2>2, <2>3, StaysOn
<1>3. ASSUME NEW w \in Workers, WriteFileStatus(w)
      PROVE  (Keeps(w) \/ IsLate(w)) /\ GuardsAgree'
  <2>1. run[w] \in Run /\ Active(w) /\ UNCHANGED <<queue, totals>>
        /\ run' = [run EXCEPT ![w].pend = "none"]
    BY <1>3, ActiveRuns DEF WriteFileStatus, Active, IInv
  <2>2. /\ \A v \in Workers \ {w} : run'[v] = run[v]
        /\ run'[w].job = run[w].job /\ run'[w].pc = run[w].pc
        /\ run'[w].guarded = run[w].guarded /\ run'[w] \in Run
    BY <2>1 DEF IInv, TypeOK, Run
  <2>3. Moves(w) /\ Active(w)'
    BY <2>1, <2>2 DEF Moves, Active, Idle, Run
  <2>4. GuardsAgree'
    BY <2>2, <2>3, GuardsKept
  <2> QED BY <2>1, <2>2, <2>3, <2>4 DEF Keeps, IsLate, Holding
<1>4. ASSUME NEW w \in Workers, Finish(w)
      PROVE  IsLate(w) /\ GuardsAgree'
  BY <1>4, StaysLate DEF Finish
<1>5. ASSUME NEW w \in Workers, Work(w)
      PROVE  StepKind /\ GuardsAgree'
  BY <1>1, <1>2, <1>3, <1>4, <1>5, IngestKind, StagesKind, HandleFailureKind DEF Work, StepKind
<1>6. ASSUME NEW w \in Workers, Fault(w)
      PROVE  StepKind /\ GuardsAgree'
  <2>1. run[w].pc \in RetriedAwaits /\ UNCHANGED <<queue, totals>>
    BY <1>6 DEF Fault
  <2>2. /\ run[w] \in Run /\ Active(w) /\ run[w].pc \in Pcs \ (LateAwaits \cup FailurePcs)
        /\ run[w].pc \notin ResumeAwaits
    BY <2>1, AtRuns, PcActive DEF RetriedAwaits, IInv
  <2>3. run[w].guarded
    BY <2>2 DEF GuardsAgree, Unguarded
  <2>4. PICK retryable \in BOOLEAN : FailWith(w, retryable)
    BY <1>6, <2>2, <2>3, EnvironmentAssumption DEF Fault
  <2>5. GuardsAgree' /\ Moves(w) /\ Active(w)' /\ run'[w].pc \notin LateAwaits
    BY <2>2, <2>4, Fails
  <2> QED BY <2>1, <2>2, <2>5 DEF StepKind, Keeps, Holding
<1>7. ASSUME NEW w \in Workers, Crash(w)
      PROVE  StepKind /\ GuardsAgree'
  <2>1. run[w] \in Run /\ run' = [run EXCEPT ![w] = Idle]
    BY <1>7, ActiveRuns DEF Crash, IInv
  <2>2. Moves(w) /\ run'[w] = Idle
    BY <2>1 DEF Moves, IInv, TypeOK
  <2> QED BY <1>7, <2>2, GuardsKept DEF StepKind, Dies, Crash
<1>8. CASE Replay
  <2>1. UNCHANGED <<run, totals>> /\ (UNCHANGED queue \/ Replays)
    <3>1. ASSUME NEW f \in Files, NEW stage \in ReplayStages, ReplayFromDlq(f, stage)
          PROVE  Replays /\ UNCHANGED run
      <4>1. [queue |-> CHOOSE q \in Queues : stage \in StagesOf(q), file |-> f,
             asset |-> fileAsset[f], attempt |-> 1] \in Message
        <5>1. (CHOOSE q \in Queues : stage \in StagesOf(q)) \in Queues
          BY ReplayQueue
        <5>2. fileAsset[f] \in MaybeAsset /\ 1 \in 1..MaxAttempts
          BY AttemptsAssumption DEF IInv, TypeOK
        <5> QED BY <5>1, <5>2 DEF Message
      <4> QED BY <3>1, <4>1 DEF ReplayFromDlq, Replays
    <3> QED BY <1>8, <3>1 DEF Replay, ReplaySetAsset, ReplaySetFile, Replays
  <2> QED BY <2>1 DEF StepKind, GuardsAgree, Active, Unguarded
<1>9. CASE UNCHANGED vars
  BY <1>9 DEF vars, StepKind, GuardsAgree, Active, Unguarded
<1> QED BY <1>5, <1>6, <1>7, <1>8, <1>9 DEF Next

---------------------------------------------------------------------------
(* Nothing is forgotten. *)

\* A file that is not counted yet waits in a message or is in the hands of a
\* handler that has not passed it on.
InHand(f) == Settled(f) \/ Waiting(f) # {} \/ Holders(f) # {}
NothingLost == \A f \in Files : InHand(f)

\* What the worker of a step has to do with a file.
LEMMA HoldersMove ==
  ASSUME IInv, NEW w \in Workers, Moves(w) \/ (run[w] = Idle /\ \A v \in Workers \ {w} : run'[v] = run[v]),
         NEW f \in Files
  PROVE  /\ Holders(f)' \ {w} = Holders(f) \ {w}
         /\ w \in Holders(f)' <=> Holding(w)' /\ FileOf(w)' = f
         /\ w \in Holders(f) <=> Holding(w) /\ FileOf(w) = f
BY DEF Holders, Holding, Active, FileOf, Moves

\* A message that is sent waits, and so do those that waited.
LEMMA WaitingGrows ==
  ASSUME IInv, NEW m \in Message, Send(m)
  PROVE  /\ \A f \in Files : Waiting(f)' = IF f = m.file THEN Waiting(f) \cup {m} ELSE Waiting(f)
         /\ queue'[m] = queue[m] + 1
         /\ \A n \in Message \ {m} : queue'[n] = queue[n]
BY DEF IInv, TypeOK, Send, Waiting

\* No kind of step loses a file.
LEMMA NothingLostStep ==
  ASSUME IInv, NothingLost, StepKind
  PROVE  NothingLost'
<1> SUFFICES ASSUME NEW f \in Files PROVE InHand(f)'
  BY DEF NothingLost
<1>1. InHand(f) /\ (UNCHANGED totals => (Settled(f) => Settled(f)'))
  BY DEF NothingLost, Settled
<1>2. CASE UNCHANGED <<run, queue, totals>>
  BY <1>1, <1>2 DEF InHand, Waiting, Holders, Holding, Active, FileOf, Settled
<1>3. CASE Replays
  <2>1. PICK m \in Message : Send(m)
    BY <1>3 DEF Replays
  <2> QED BY <1>1, <1>3, <2>1, WaitingGrows DEF InHand, Replays, Holders, Holding, Active, FileOf
<1>4. ASSUME NEW w \in Workers, NEW m \in Message, Takes(w, m)
      PROVE  InHand(f)'
  <2>1. CASE m.file = f
    <3>1. w \in Holders(f)'
      BY <1>4, <2>1 DEF Takes, Holders, Holding, Active, FileOf, Idle, Run, Pcs, IngestionPcs,
            StagePcs, FailurePcs
    <3> QED BY <3>1 DEF InHand
  <2>2. CASE m.file # f
    <3>1. Waiting(f)' = Waiting(f)
      BY <1>4, <2>2 DEF Takes, Waiting, IInv, TypeOK
    <3>2. Holders(f) \subseteq Holders(f)'
      BY <1>4 DEF Takes, Holders, Holding, Active, FileOf
    <3> QED BY <1>1, <1>4, <3>1, <3>2 DEF InHand, Takes
  <2> QED BY <2>1, <2>2
<1>5. ASSUME NEW w \in Workers, Keeps(w)
      PROVE  InHand(f)'
  <2>1. Waiting(f)' = Waiting(f)
    BY <1>5 DEF Keeps, Waiting
  <2>2. Holders(f) \subseteq Holders(f)'
    BY <1>5 DEF Keeps, Moves, Holders, Holding, Active, FileOf
  <2> QED BY <1>1, <1>5, <2>1, <2>2 DEF InHand, Keeps
<1>6. ASSUME NEW w \in Workers, Passes(w) \/ Dies(w)
      PROVE  InHand(f)'
  <2>1. PICK m \in Message : m.file = FileOf(w) /\ Send(m) /\ UNCHANGED totals /\ Moves(w)
    BY <1>6, RunFields DEF Passes, Dies, Moves, FileOf
  <2>2. CASE f = FileOf(w)
    BY <2>1, <2>2, WaitingGrows DEF InHand
  <2>3. CASE f # FileOf(w)
    BY <1>1, <2>1, <2>3, WaitingGrows, HoldersMove DEF InHand
  <2> QED BY <2>2, <2>3
<1>7. ASSUME NEW w \in Workers, Counts(w)
      PROVE  InHand(f)'
  <2>1. Waiting(f)' = Waiting(f)
    BY <1>7 DEF Counts, Waiting
  <2>2. Counted(f) \in Nat
    BY DEF IInv, TypeOK, Counted
  <2>3. CASE f = FileOf(w)
    BY <1>7, <2>2, <2>3 DEF Counts, Counted, Settled, InHand
  <2>4. CASE f # FileOf(w)
    <3>1. Settled(f) => Settled(f)'
      BY <1>7, <2>4 DEF Counts, Counted, Settled
    <3>2. Holders(f) \subseteq Holders(f)'
      BY <1>7, <2>4, HoldersMove DEF Counts
    <3> QED BY <1>1, <2>1, <3>1, <3>2 DEF InHand
  <2> QED BY <2>3, <2>4
<1>8. ASSUME NEW w \in Workers, IsLate(w)
      PROVE  InHand(f)'
  <2>1. Waiting(f)' = Waiting(f) /\ UNCHANGED totals
    BY <1>8 DEF IsLate, Waiting
  <2>2. Holders(f)' = Holders(f)
    BY <1>8, HoldersMove DEF IsLate
  <2> QED BY <1>1, <2>1, <2>2 DEF InHand
<1> QED BY <1>2, <1>3, <1>4, <1>5, <1>6, <1>7, <1>8 DEF StepKind

\* As long as only awaits throw whose exception handleFailure takes up with the
\* file in hand, no crash, redelivery or replay makes a file disappear: until
\* its job has counted it, a message or a handler carries it.
THEOREM NoFileForgotten ==
  ASSUME FaultPoints \subseteq RetriedAwaits
  PROVE  Spec => []NothingForgotten
<1>1. Init => GuardsAgree /\ NothingLost
  <2> SUFFICES ASSUME Init PROVE GuardsAgree /\ NothingLost
    OBVIOUS
  <2>1. GuardsAgree
    BY DEF Init, GuardsAgree, Active
  <2>2. ASSUME NEW f \in Files PROVE Waiting(f) # {}
    <3>1. Discovered(f) \in Message /\ Discovered(f).file = f
      BY AttemptsAssumption DEF Discovered, Message, Queues, MaybeAsset
    <3> QED BY <3>1 DEF Init, Waiting
  <2> QED BY <2>1, <2>2 DEF NothingLost, InHand
<1>2. IInv /\ GuardsAgree /\ NothingLost /\ [Next]_vars => GuardsAgree' /\ NothingLost'
  BY KindOfStep, NothingLostStep
<1>3. IInv /\ NothingLost => NothingForgotten
  <2> SUFFICES ASSUME IInv, NothingLost, NEW f \in Files PROVE Settled(f) \/ Carried(f)
    BY DEF NothingForgotten
  <2> QED BY DEF NothingLost, InHand, Carried, Waiting, Holders, Holding
<1> QED BY <1>1, <1>2, <1>3, Invariance, PTL DEF Spec

---------------------------------------------------------------------------
(* Every file is in one place, and counted once.                           *)

\* Where a file is.
InAMessage(f) ==
  /\ Counted(f) = 0 /\ Holders(f) = {}
  /\ \E m \in Message : Waiting(f) = {m} /\ queue[m] = 1
WithAHandler(f) ==
  /\ Counted(f) = 0 /\ Waiting(f) = {}
  /\ \E w \in Workers : Holders(f) = {w}
OnRecord(f) == Counted(f) = 1 /\ Holders(f) = {} /\ Waiting(f) = {}
InOnePlace(f) == InAMessage(f) \/ WithAHandler(f) \/ OnRecord(f)

\* The three places of HeldOrCountedOnce by name.
LEMMA PlacesOfFiles == HeldOrCountedOnce <=> \A f \in Files : InOnePlace(f)
BY DEF HeldOrCountedOnce, InOnePlace, InAMessage, WithAHandler, OnRecord

\* The handler that holds a file is the only one, and no message carries it.
LEMMA OnlyHolder ==
  ASSUME HeldOrCountedOnce, NEW w \in Workers, Holding(w), FileOf(w) \in Files
  PROVE  /\ Counted(FileOf(w)) = 0 /\ Waiting(FileOf(w)) = {} /\ Holders(FileOf(w)) = {w}
         /\ \A v \in Workers : Holding(v) /\ FileOf(v) = FileOf(w) => v = w
<1>1. w \in Holders(FileOf(w))
  BY DEF Holders
<1> QED BY <1>1 DEF HeldOrCountedOnce, Holders

\* No kind of step but a redelivery or a replay gives a file a second place.
LEMMA OnePlaceStep ==
  ASSUME IInv, HeldOrCountedOnce, StepKind, budget.crashes = 0, budget.replays = 0
  PROVE  HeldOrCountedOnce'
<1> SUFFICES ASSUME NEW f \in Files PROVE InOnePlace(f)'
  BY PlacesOfFiles DEF HeldOrCountedOnce, InOnePlace, InAMessage, WithAHandler, OnRecord
<1>1. InOnePlace(f)
  BY PlacesOfFiles
<1> USE DEF InOnePlace, InAMessage, WithAHandler, OnRecord
<1>2. CASE UNCHANGED <<run, queue, totals>>
  BY <1>1, <1>2 DEF Waiting, Holders, Holding, Active, FileOf, Counted
<1>3. ASSUME NEW w \in Workers, NEW m \in Message, Takes(w, m)
      PROVE  InOnePlace(f)'
  <2>1. /\ Counted(f)' = Counted(f) /\ m.file \in Files
        /\ Waiting(f)' = IF queue[m] = 1 THEN Waiting(f) \ {m} ELSE Waiting(f)
        /\ \A n \in Message \ {m} : queue'[n] = queue[n]
    <3>1. Counted(f)' = Counted(f) /\ m.file \in Files
      BY <1>3 DEF Takes, Counted, Message
    <3>2. queue[m] \in Nat /\ queue[m] > 0 /\ queue'[m] = queue[m] - 1
          /\ \A n \in Message \ {m} : queue'[n] = queue[n]
      BY <1>3 DEF Takes, IInv, TypeOK
    <3>3. queue'[m] > 0 <=> queue[m] # 1
      BY <3>2
    <3> QED BY <3>1, <3>2, <3>3 DEF Waiting
  <2>2. /\ ~ Holding(w) /\ Holding(w)' /\ FileOf(w)' = m.file
    BY <1>3 DEF Takes, Holding, Active, FileOf, Idle, Run, Pcs, IngestionPcs, StagePcs, FailurePcs
  <2>3. /\ Holders(f)' \ {w} = Holders(f) \ {w} /\ w \notin Holders(f)
        /\ w \in Holders(f)' <=> m.file = f
    BY <1>3, <2>2, HoldersMove DEF Takes
  <2>4. m \in Waiting(m.file)
    BY <1>3 DEF Takes, Waiting
  <2>5. CASE m.file = f
    BY <1>1, <2>1, <2>3, <2>4, <2>5
  <2>6. CASE m.file # f
    <3>1. m \notin Waiting(f)
      BY <2>6 DEF Waiting
    <3> QED BY <1>1, <2>1, <2>3, <2>6, <3>1
  <2> QED BY <2>5, <2>6
<1>4. ASSUME NEW w \in Workers, Keeps(w) \/ IsLate(w)
      PROVE  InOnePlace(f)'
  <2>1. Waiting(f)' = Waiting(f) /\ UNCHANGED queue /\ Counted(f)' = Counted(f)
    BY <1>4 DEF Keeps, IsLate, Waiting, Counted
  <2>2. Holders(f)' = Holders(f)
    <3>1. Holding(w)' <=> Holding(w)
      BY <1>4 DEF Keeps, IsLate
    <3>2. Holding(w) => FileOf(w)' = FileOf(w)
      BY <1>4, <3>1 DEF Keeps, IsLate, Moves, FileOf, Holding, Active
    <3> QED BY <1>4, <3>1, <3>2, HoldersMove DEF Keeps, IsLate
  <2> QED BY <1>1, <2>1, <2>2
<1>5. ASSUME NEW w \in Workers, Passes(w)
      PROVE  InOnePlace(f)'
  <2>1. PICK m \in Message : m.file = FileOf(w) /\ Send(m)
    BY <1>5 DEF Passes
  <2>2. /\ Moves(w) /\ Holding(w) /\ ~ Holding(w)' /\ Counted(f)' = Counted(f)
        /\ FileOf(w) \in Files
    BY <1>5, <2>1 DEF Passes, Counted, Message
  <2>3. /\ Holders(f)' \ {w} = Holders(f) \ {w} /\ w \notin Holders(f)'
        /\ w \in Holders(f) <=> FileOf(w) = f
    BY <2>2, HoldersMove
  <2>4. CASE f = FileOf(w)
    <3>1. Counted(f) = 0 /\ Waiting(f) = {} /\ Holders(f) = {w}
      BY <2>2, <2>4, OnlyHolder
    <3>2. queue[m] = 0
      BY <2>1, <2>4, <3>1 DEF Waiting, IInv, TypeOK
    <3> QED BY <2>1, <2>2, <2>3, <2>4, <3>1, <3>2, WaitingGrows
  <2>5. CASE f # FileOf(w)
    <3>1. Waiting(f)' = Waiting(f) /\ \A n \in Waiting(f) : queue'[n] = queue[n]
      BY <2>1, <2>5, WaitingGrows DEF Waiting
    <3>2. Holders(f)' = Holders(f)
      BY <2>3, <2>5
    <3> QED BY <1>1, <2>2, <3>1, <3>2
  <2> QED BY <2>4, <2>5
<1>6. ASSUME NEW w \in Workers, Counts(w)
      PROVE  InOnePlace(f)'
  <2>1. Moves(w) /\ Holding(w) /\ ~ Holding(w)' /\ UNCHANGED queue /\ Waiting(f)' = Waiting(f)
    BY <1>6 DEF Counts, Waiting
  <2>2. Counted(f)' = IF f = FileOf(w) THEN Counted(f) + 1 ELSE Counted(f)
    BY <1>6 DEF Counts
  <2>3. /\ Holders(f)' \ {w} = Holders(f) \ {w} /\ w \notin Holders(f)'
        /\ w \in Holders(f) <=> FileOf(w) = f
    BY <2>1, HoldersMove
  <2>4. CASE f = FileOf(w)
    <3>1. Counted(f) = 0 /\ Waiting(f) = {} /\ Holders(f) = {w}
      BY <2>1, <2>4, OnlyHolder
    <3> QED BY <2>1, <2>2, <2>3, <2>4, <3>1
  <2>5. CASE f # FileOf(w)
    <3>1. Holders(f)' = Holders(f) /\ Counted(f)' = Counted(f)
      BY <2>2, <2>3, <2>5
    <3> QED BY <1>1, <2>1, <3>1
  <2> QED BY <2>4, <2>5
<1>7. ~ Replays /\ \A w \in Workers : ~ Dies(w)
  BY DEF Replays, Dies
<1> QED BY <1>2, <1>3, <1>4, <1>5, <1>6, <1>7 DEF StepKind

\* No step of a handler spends what crashes and replays are left.
LEMMA WorkIsFree ==
  ASSUME NEW w \in Workers, Work(w)
  PROVE  UNCHANGED budget
<1>1. CASE Ingest(w)
  BY <1>1 DEF Ingest, BeginIngestion, DownloadFile, ValidateImage, FindDuplicate,
     AttachToExistingAsset, EnterUpload, CreateAsset, UploadFile, MarkStored, DispatchAiMetadata
<1>2. CASE S3Upload(w) \/ AiMetadata(w) \/ Embedding(w)
  BY <1>2 DEF S3Upload, CheckStored, SetGenerated, AiMetadata, FindMetadata, GenerateMetadata,
     MarkGenerated, DispatchEmbedding, Embedding, HasEmbeddingForHash, GenerateEmbedding,
     CreateEmbedding, MarkCompleted
<1>3. CASE HandleFailure(w)
  BY <1>3 DEF HandleFailure, ScheduleRetry, SetRetryPending, MoveToDeadLetter, SetDeadLetter,
     CountFailed
<1> QED
  BY <1>1, <1>2, <1>3 DEF Work, ProcessPipelineJob, RunStage, WriteFileStatus, Finish

\* Where no crash and no replay is left, there will be none.
OnceOnly == budget.crashes = 0 /\ budget.replays = 0
\* No budget grows.
LEMMA OnceOnlyStep ==
  ASSUME IInv, OnceOnly, [Next]_vars
  PROVE  OnceOnly'
<1>1. CASE \E w \in Workers : Work(w)
  BY <1>1, WorkIsFree DEF OnceOnly
<1>2. CASE \E w \in Workers : Fault(w)
  BY <1>2 DEF OnceOnly, Fault, IInv, TypeOK
<1>3. CASE \E w \in Workers : Crash(w)
  BY <1>3 DEF OnceOnly, Crash
<1>4. CASE Replay
  BY <1>4 DEF OnceOnly, Replay, ReplayFromDlq, ReplaySetAsset, ReplaySetFile
<1>5. CASE UNCHANGED vars
  BY <1>5 DEF OnceOnly, vars
<1> QED BY <1>1, <1>2, <1>3, <1>4, <1>5 DEF Next

\* What holds of the places of files while nothing is delivered twice.
PInv == IInv /\ GuardsAgree /\ OnceOnly /\ HeldOrCountedOnce

\* At the start every file waits in the message that discovery sent.
LEMMA InitPInv ==
  ASSUME DeliveredOnce, Init
  PROVE  PInv
<1>1. IInv
  BY InitIInv
<1>2. GuardsAgree /\ OnceOnly
  BY DEF Init, GuardsAgree, Active, OnceOnly, DeliveredOnce
<1>3. ASSUME NEW f \in Files PROVE InAMessage(f)
  <2>1. Discovered(f) \in Message /\ Discovered(f).file = f
    BY AttemptsAssumption DEF Discovered, Message, Queues, MaybeAsset
  <2>2. queue[Discovered(f)] = 1
    BY <2>1 DEF Init
  <2>3. \A m \in Message : m.file = f /\ queue[m] > 0 => m = Discovered(f)
    BY DEF Init, Discovered
  <2>4. Waiting(f) = {Discovered(f)}
    BY <2>1, <2>2, <2>3 DEF Waiting
  <2>5. Counted(f) = 0 /\ Holders(f) = {}
    BY DEF Init, Counted, Holders, Holding, Active
  <2> QED BY <2>1, <2>2, <2>4, <2>5 DEF InAMessage
<1> QED BY <1>1, <1>2, <1>3, PlacesOfFiles DEF PInv, InOnePlace

\* Every step keeps it.
LEMMA StepPInv ==
  ASSUME DeliveredOnce, PInv, [Next]_vars
  PROVE  PInv'
<1>1. IInv'
  BY StepIInv DEF PInv
<1>2. StepKind /\ GuardsAgree'
  BY KindOfStep DEF PInv, DeliveredOnce
<1>3. OnceOnly'
  BY OnceOnlyStep DEF PInv
<1>4. HeldOrCountedOnce'
  BY <1>2, OnePlaceStep DEF PInv, OnceOnly
<1> QED BY <1>1, <1>2, <1>3, <1>4 DEF PInv

\* While nothing is delivered twice, every file waits in one message or is held
\* by one handler until its job counts it, and is counted exactly once, in
\* whatever order the handlers run and whichever of their awaits throw before
\* the file is passed on.
THEOREM HeldOrCounted ==
  ASSUME DeliveredOnce
  PROVE  Spec => []HeldOrCountedOnce
<1>1. Init => PInv
  BY InitPInv
<1>2. PInv /\ [Next]_vars => PInv'
  BY StepPInv
<1>3. PInv => HeldOrCountedOnce
  BY DEF PInv
<1> QED BY <1>1, <1>2, <1>3, PTL DEF Spec

---------------------------------------------------------------------------
(* What is shown is on record. *)

\* The handlers that have sent a dead-letter message for f and not counted the
\* failure yet.
FailingAwaits == {"setDead", "countFailed"}
FailsAt(w) == Active(w) /\ run[w].pc \in FailingAwaits
AboutToFail(f) == {w \in Workers : FailsAt(w) /\ FileOf(w) = f}

\* Each of them, and each counted failure, has a dead-letter message of its own;
\* and only such a handler has DEAD_LETTER still to write.
DeadLettersCover == \A f \in Files : totals[f].failed + Cardinality(AboutToFail(f)) <= dlq[f]
OnlyTheDeadPend ==
  \A w \in Workers : Active(w) /\ run[w].pend = "DEAD_LETTER" => run[w].pc = "countFailed"
RInv == IInv /\ DeadLettersCover /\ OnlyTheDeadPend /\ OutcomesAreRecorded

\* A status that may be shown of a file.
Shown(f, state) ==
  /\ state = "COMPLETED" => totals[f].successful > 0
  /\ state = "DEAD_LETTER" => dlq[f] > 0

\* Successes and duplicates are counted, and never more duplicates.
CountsUp ==
  \A f \in Files :
     /\ totals'[f].failed = totals[f].failed
     /\ totals'[f].successful >= totals[f].successful
     /\ totals'[f].duplicate - totals[f].duplicate <= totals'[f].successful - totals[f].successful

\* A step of w that neither starts nor ends a failure.
Uneventful(w) ==
  /\ \A v \in Workers \ {w} : run'[v] = run[v]
  /\ \/ run'[w] = Idle
     \/ run'[w] \in Run /\ run'[w].pc \notin FailingAwaits /\ run'[w].pend # "DEAD_LETTER"
  /\ UNCHANGED dlq /\ CountsUp
  /\ \A f \in Files : fileStatus'[f] = fileStatus[f] \/ Shown(f, fileStatus[f])'

\* The handlers at a failure are finitely many.
LEMMA FailingFinite ==
  ASSUME NEW f
  PROVE  IsFiniteSet(AboutToFail(f)) /\ Cardinality(AboutToFail(f)) \in Nat
<1>1. AboutToFail(f) \subseteq Workers
  BY DEF AboutToFail
<1> QED BY <1>1, WorkersAssumption, FS_Subset, FS_CardinalityType

\* With fewer of them the dead-letter messages still cover the failures.
LEMMA FewerFailing ==
  ASSUME RInv, NEW f \in Files, AboutToFail(f)' \subseteq AboutToFail(f),
         totals'[f].failed = totals[f].failed, UNCHANGED dlq
  PROVE  totals'[f].failed + Cardinality(AboutToFail(f)') <= dlq'[f]
<1>1. Cardinality(AboutToFail(f)') <= Cardinality(AboutToFail(f)) /\ Cardinality(AboutToFail(f)') \in Nat
  BY FailingFinite, FS_Subset, FS_CardinalityType
<1>2. totals[f].failed \in Nat /\ dlq[f] \in Nat
  BY DEF RInv, IInv, TypeOK
<1> QED BY <1>1, <1>2, FailingFinite DEF RInv, DeadLettersCover

\* An uneventful step keeps the record.
LEMMA UneventfulKeeps ==
  ASSUME RInv, IInv', NEW w \in Workers, Uneventful(w)
  PROVE  DeadLettersCover' /\ OnlyTheDeadPend' /\ OutcomesAreRecorded'
<1>1. \A f \in Files : AboutToFail(f)' \subseteq AboutToFail(f)
  BY DEF Uneventful, AboutToFail, FailsAt, Active, FileOf
<1>2. DeadLettersCover'
  BY <1>1, FewerFailing DEF DeadLettersCover, Uneventful, CountsUp
<1>3. OnlyTheDeadPend'
  BY DEF RInv, OnlyTheDeadPend, Uneventful, Active
<1>4. ASSUME NEW f \in Files
      PROVE  /\ fileStatus'[f] = "COMPLETED" => totals'[f].successful > 0
             /\ fileStatus'[f] = "DEAD_LETTER" => dlq'[f] > 0
             /\ totals'[f].failed <= dlq'[f]
             /\ totals'[f].duplicate <= totals'[f].successful
  <2>1. /\ totals[f].successful \in Nat /\ totals[f].duplicate \in Nat
        /\ totals[f].failed \in Nat /\ dlq[f] \in Nat
        /\ totals[f].duplicate <= totals[f].successful /\ totals[f].failed <= dlq[f]
        /\ fileStatus[f] = "COMPLETED" => totals[f].successful > 0
        /\ fileStatus[f] = "DEAD_LETTER" => dlq[f] > 0
    BY DEF RInv, IInv, TypeOK, OutcomesAreRecorded
  <2>2. /\ totals'[f].failed = totals[f].failed
        /\ totals'[f].successful >= totals[f].successful
        /\ totals'[f].duplicate - totals[f].duplicate <= totals'[f].successful - totals[f].successful
        /\ dlq'[f] = dlq[f]
        /\ fileStatus'[f] = fileStatus[f] \/ Shown(f, fileStatus[f])'
    BY DEF Uneventful, CountsUp
  <2>3. totals'[f].duplicate \in Nat /\ totals'[f].successful \in Nat
    BY DEF IInv, TypeOK
  <2> QED BY <2>1, <2>2, <2>3 DEF Shown
<1> QED BY <1>2, <1>3, <1>4 DEF OutcomesAreRecorded

\* Moving on within a job is uneventful,
LEMMA GoesUneventfully ==
  ASSUME IInv, OnlyTheDeadPend, NEW w \in Workers, NEW from \in Pcs, NEW to \in Pcs \ FailingAwaits,
         run[w].pc = from, from # "countFailed" \/ run[w].pend = "none",
         \/ Goto(w, to) /\ UNCHANGED fileStatus
         \/ \E state \in AssetState \ {"COMPLETED", "DEAD_LETTER"} : UpdateStates(w, state, to),
         UNCHANGED <<dlq, totals>>
  PROVE  Uneventful(w)
<1>1. run[w] \in Run /\ Active(w) /\ run[w].pend # "DEAD_LETTER"
  BY AtRuns, PcActive DEF IInv, OnlyTheDeadPend
<1>2. /\ \A v \in Workers \ {w} : run'[v] = run[v]
      /\ run'[w] \in Run /\ run'[w].pc = to /\ run'[w].pend # "DEAD_LETTER"
  BY <1>1, Going, GotoFields, UpdateStatesFields DEF Moves, Active, IInv
<1>3. CountsUp
  BY DEF CountsUp, IInv, TypeOK
<1>4. \A f \in Files : fileStatus'[f] = fileStatus[f] \/ Shown(f, fileStatus[f])'
  BY <1>1, RunFields DEF UpdateStates, Shown, IInv, TypeOK, FileOf
<1> QED BY <1>2, <1>3, <1>4 DEF Uneventful

\* and so is a stage that throws, before the dead-letter message is sent,
LEMMA FailsUneventfully ==
  ASSUME IInv, OnlyTheDeadPend, NEW w \in Workers, NEW from \in Pcs, run[w].pc = from,
         NEW retryable \in BOOLEAN, FailWith(w, retryable), UNCHANGED <<fileStatus, dlq, totals>>
  PROVE  Uneventful(w)
<1>1. run[w] \in Run
  BY AtRuns DEF IInv
<1>2. /\ \A v \in Workers \ {w} : run'[v] = run[v]
      /\ run'[w] \in Run /\ run'[w].pc \notin FailingAwaits /\ run'[w].pend # "DEAD_LETTER"
  BY <1>1, Failing, FailWithFields DEF Moves, Active, IInv, FailingAwaits
<1>3. CountsUp
  BY DEF CountsUp, IInv, TypeOK
<1> QED BY <1>2, <1>3 DEF Uneventful

\* and the end of a job, even an abrupt one.
LEMMA EndsUneventfully ==
  ASSUME IInv, NEW w \in Workers, run' = [run EXCEPT ![w] = Idle],
         UNCHANGED <<fileStatus, dlq, totals>>
  PROVE  Uneventful(w)
BY DEF Uneventful, CountsUp, IInv, TypeOK

\* A file that is counted as a success is shown as one.
LEMMA SucceedsUneventfully ==
  ASSUME IInv, OnlyTheDeadPend, NEW w \in Workers, NEW from \in Pcs, At(w, from),
         \A v \in Workers \ {w} : run'[v] = run[v],
         run'[w] \in Run, run'[w].pc = "record", run'[w].pend = run[w].pend,
         \/ totals' = [totals EXCEPT ![FileOf(w)].successful = @ + 1]
         \/ totals' = [totals EXCEPT ![FileOf(w)].successful = @ + 1, ![FileOf(w)].duplicate = @ + 1],
         fileStatus' = [fileStatus EXCEPT ![FileOf(w)] = "COMPLETED"], UNCHANGED dlq
  PROVE  Uneventful(w)
<1>1. run[w] \in Run /\ FileOf(w) \in Files
  BY AtRuns, RunFields DEF IInv, At, FileOf
<1>2. /\ \A f \in Files \ {FileOf(w)} : totals'[f] = totals[f]
      /\ totals'[FileOf(w)].successful = totals[FileOf(w)].successful + 1
      /\ totals'[FileOf(w)].duplicate \in {totals[FileOf(w)].duplicate, totals[FileOf(w)].duplicate + 1}
      /\ totals'[FileOf(w)].failed = totals[FileOf(w)].failed
  BY <1>1 DEF IInv, TypeOK
<1>3. \A f \in Files : totals[f].successful \in Nat /\ totals[f].duplicate \in Nat
  BY DEF IInv, TypeOK
<1>4. CountsUp
  <2> SUFFICES ASSUME NEW f \in Files
               PROVE  /\ totals'[f].failed = totals[f].failed
                      /\ totals'[f].successful >= totals[f].successful
                      /\ totals'[f].duplicate - totals[f].duplicate
                           <= totals'[f].successful - totals[f].successful
    BY DEF CountsUp
  <2>1. CASE f = FileOf(w)
    BY <1>2, <1>3, <2>1
  <2>2. CASE f # FileOf(w)
    <3>1. totals'[f] = totals[f] /\ totals[f].successful \in Nat /\ totals[f].duplicate \in Nat
      BY <1>2, <1>3, <2>2
    <3>2. /\ totals[f].successful >= totals[f].successful
          /\ totals[f].duplicate - totals[f].duplicate <= totals[f].successful - totals[f].successful
      BY <3>1
    <3> QED BY <3>1, <3>2
  <2> QED BY <2>1, <2>2
<1>5. totals'[FileOf(w)].successful > 0
  BY <1>1, <1>2, <1>3
<1>6. \A f \in Files : fileStatus'[f] = fileStatus[f] \/ Shown(f, fileStatus[f])'
  BY <1>1, <1>5 DEF Shown, IInv, TypeOK
<1> QED BY <1>4, <1>6 DEF Uneventful, At, FailingAwaits

\* A handler at a failure has a dead-letter message that no count answers yet.
LEMMA LetterForFailure ==
  ASSUME RInv, NEW w \in Workers, FailsAt(w), FileOf(w) \in Files
  PROVE  /\ dlq[FileOf(w)] > totals[FileOf(w)].failed
         /\ dlq[FileOf(w)] > 0
<1> DEFINE S == AboutToFail(FileOf(w))
<1>1. w \in S /\ IsFiniteSet(S) /\ Cardinality(S) \in Nat
  BY FailingFinite DEF AboutToFail
<1>2. Cardinality(S) # 0
  BY <1>1, FS_EmptySet
<1>3. totals[FileOf(w)].failed \in Nat /\ dlq[FileOf(w)] \in Nat
      /\ totals[FileOf(w)].failed + Cardinality(S) <= dlq[FileOf(w)]
  BY DEF RInv, IInv, TypeOK, DeadLettersCover
<1> QED BY <1>1, <1>2, <1>3

\* A step of w that stays at the failure it is at keeps the record.
LEMMA StaysAtFailure ==
  ASSUME RInv, NEW w \in Workers, FailsAt(w), run[w] \in Run,
         \A v \in Workers \ {w} : run'[v] = run[v],
         run'[w] \in Run, run'[w].job = run[w].job, run'[w].pc \in FailingAwaits,
         run'[w].pend = "DEAD_LETTER" => run'[w].pc = "countFailed",
         \A f \in Files : fileStatus'[f] = fileStatus[f] \/ (f = FileOf(w) /\ fileStatus'[f] # "COMPLETED"),
         UNCHANGED <<totals, dlq>>
  PROVE  DeadLettersCover' /\ OnlyTheDeadPend' /\ OutcomesAreRecorded'
<1>1. \A f \in Files : AboutToFail(f)' \subseteq AboutToFail(f)
  BY DEF AboutToFail, FailsAt, Active, FileOf
<1>2. DeadLettersCover'
  BY <1>1, FewerFailing DEF DeadLettersCover
<1>3. OnlyTheDeadPend'
  BY DEF RInv, OnlyTheDeadPend, Active
<1>4. FileOf(w) \in Files /\ dlq[FileOf(w)] > 0
  BY RunFields, LetterForFailure DEF FileOf
<1> QED BY <1>2, <1>3, <1>4 DEF RInv, OutcomesAreRecorded

\* The steps of the four handlers.
LEMMA HandlersUneventful ==
  ASSUME IInv, IInv', OnlyTheDeadPend, NEW w \in Workers,
         Ingest(w) \/ S3Upload(w) \/ AiMetadata(w) \/ Embedding(w)
  PROVE  Uneventful(w)
<1> USE DEF At, Pcs, IngestionPcs, StagePcs, FailurePcs, FailingAwaits
<1>1. CASE BeginIngestion(w)
  <2>1. CASE run' = [run EXCEPT ![w].pc = "enter", ![w].guarded = TRUE]
    <3>1. run[w] \in Run /\ run[w].pend = "none"
      BY <1>1, AtRuns DEF BeginIngestion, IInv
    <3>2. /\ run'[w] \in Run /\ run'[w].pc = "enter" /\ run'[w].pend = "none"
          /\ \A v \in Workers \ {w} : run'[v] = run[v]
      BY <2>1, <3>1 DEF IInv, TypeOK, Run
    <3>3. CountsUp
      BY <1>1 DEF BeginIngestion, CountsUp, IInv, TypeOK
    <3> QED BY <1>1, <3>2, <3>3 DEF BeginIngestion, Uneventful, files
  <2>2. CASE Goto(w, IF run[w].asset \in described THEN "dispatchEmbedding" ELSE "markStored")
    BY <1>1, <2>2, GoesUneventfully DEF BeginIngestion, files
  <2> QED BY <1>1, <2>1, <2>2 DEF BeginIngestion
<1>2. CASE DownloadFile(w) \/ EnterUpload(w) \/ MarkStored(w) \/ SetGenerated(w)
  BY <1>2, GoesUneventfully DEF DownloadFile, EnterUpload, MarkStored, SetGenerated, AssetState
<1>3. CASE ValidateImage(w)
  <2>1. CASE FailWith(w, FALSE) /\ UNCHANGED fileStatus
    BY <1>3, <2>1, FailsUneventfully DEF ValidateImage
  <2>2. CASE UpdateStates(w, "HASHING", "findDuplicate")
    BY <1>3, <2>2, GoesUneventfully DEF ValidateImage, AssetState
  <2> QED BY <1>3, <2>1, <2>2 DEF ValidateImage
<1>4. CASE FindDuplicate(w) \/ UploadFile(w) \/ DispatchAiMetadata(w)
  BY <1>4, GoesUneventfully DEF FindDuplicate, UploadFile, DispatchAiMetadata, files
<1>5. CASE AttachToExistingAsset(w)
  <2>1. run[w] \in Run /\ HashOf[FileOf(w)] \in Hashes
    BY <1>5, AtRuns, RunFields, FilesAssumption DEF AttachToExistingAsset, IInv, FileOf
  <2>2. /\ \A v \in Workers \ {w} : run'[v] = run[v]
        /\ run'[w].pc = "record" /\ run'[w].pend = run[w].pend /\ run'[w] \in Run
    BY <1>5, <2>1 DEF AttachToExistingAsset, IInv, TypeOK, Run, MaybeAsset
  <2> QED BY <1>5, <2>2, SucceedsUneventfully DEF AttachToExistingAsset
<1>6. CASE CreateAsset(w)
  <2>1. run[w] \in Run /\ FileOf(w) \in Files /\ HashOf[FileOf(w)] \in Hashes
    BY <1>6, AtRuns, RunFields, FilesAssumption DEF CreateAsset, IInv, FileOf
  <2>2. CASE Goto(w, "attach") /\ UNCHANGED fileStatus
    BY <1>6, <2>2, GoesUneventfully DEF CreateAsset
  <2>3. CASE /\ run' = [run EXCEPT ![w].pc = "upload", ![w].asset = HashOf[FileOf(w)]]
             /\ fileStatus' = [fileStatus EXCEPT ![FileOf(w)] = "UPLOADING_TO_S3"]
    <3>1. /\ \A v \in Workers \ {w} : run'[v] = run[v]
          /\ run'[w].pc = "upload" /\ run'[w].pend = run[w].pend /\ run'[w] \in Run
      BY <2>1, <2>3 DEF IInv, TypeOK, Run, MaybeAsset
    <3>2. CountsUp
      BY <1>6 DEF CreateAsset, CountsUp, IInv, TypeOK
    <3>3. \A f \in Files : fileStatus'[f] = fileStatus[f] \/ Shown(f, fileStatus[f])'
      BY <2>1, <2>3 DEF Shown, IInv, TypeOK
    <3> QED BY <1>6, <3>1, <3>2, <3>3 DEF CreateAsset, Uneventful
  <2> QED BY <1>6, <2>2, <2>3 DEF CreateAsset, files
<1>7. CASE CheckStored(w)
  <2>1. CASE FailWith(w, FALSE)
    BY <1>7, <2>1, FailsUneventfully DEF CheckStored, files
  <2>2. CASE Goto(w, "dispatchEmbedding") \/ Goto(w, "markStored")
    BY <1>7, <2>2, GoesUneventfully DEF CheckStored, files
  <2> QED BY <1>7, <2>1, <2>2 DEF CheckStored
<1>8. CASE FindMetadata(w) \/ DispatchEmbedding(w)
  BY <1>8, GoesUneventfully DEF FindMetadata, DispatchEmbedding, files
<1>9. CASE GenerateMetadata(w) \/ CreateEmbedding(w)
  <2>1. UNCHANGED <<fileStatus, dlq, totals>>
    BY <1>9 DEF GenerateMetadata, CreateEmbedding, files
  <2>2. run[w].pc \in {"generate", "createEmbedding"}
    BY <1>9 DEF GenerateMetadata, CreateEmbedding
  <2>3. FailWith(w, FALSE) \/ Goto(w, "markGenerated") \/ Goto(w, "complete")
    BY <1>9 DEF GenerateMetadata, CreateEmbedding
  <2> QED BY <2>1, <2>2, <2>3, FailsUneventfully, GoesUneventfully
<1>10. CASE MarkGenerated(w)
  <2>1. run[w] \in Run /\ FileOf(w) \in Files /\ run[w].pend = "none"
    BY <1>10, AtRuns, RunFields DEF MarkGenerated, IInv, FileOf
  <2>2. /\ \A v \in Workers \ {w} : run'[v] = run[v]
        /\ run'[w].pc = "dispatchEmbedding" /\ run'[w].pend = "none" /\ run'[w] \in Run
    BY <1>10, <2>1, GotoFields, Going DEF MarkGenerated, IInv, Moves, Active
  <2>3. CountsUp
    BY <1>10 DEF MarkGenerated, CountsUp, IInv, TypeOK
  <2>4. \A f \in Files : fileStatus'[f] = fileStatus[f] \/ Shown(f, fileStatus[f])'
    BY <1>10, <2>1 DEF MarkGenerated, Shown, IInv, TypeOK
  <2> QED BY <1>10, <2>2, <2>3, <2>4 DEF MarkGenerated, Uneventful
<1>11. CASE HasEmbeddingForHash(w) \/ GenerateEmbedding(w)
  BY <1>11, GoesUneventfully DEF HasEmbeddingForHash, GenerateEmbedding, files
<1>12. CASE MarkCompleted(w)
  <2>1. run[w] \in Run /\ FileOf(w) \in Files
    BY <1>12, AtRuns, RunFields DEF MarkCompleted, IInv, FileOf
  <2>2. /\ \A v \in Workers \ {w} : run'[v] = run[v]
        /\ run'[w].pc = "record" /\ run'[w].pend = run[w].pend /\ run'[w] \in Run
    BY <1>12, <2>1, GotoFields, Going DEF MarkCompleted, IInv, Moves, Active
  <2> QED BY <1>12, <2>2, SucceedsUneventfully DEF MarkCompleted
<1> QED
  BY <1>1, <1>2, <1>3, <1>4, <1>5, <1>6, <1>7, <1>8, <1>9, <1>10, <1>11, <1>12
  DEF Ingest, S3Upload, AiMetadata, Embedding

\* Every step keeps the record.
LEMMA RecordStep ==
  ASSUME RInv, [Next]_vars
  PROVE  RInv'
<1> USE DEF Pcs, IngestionPcs, StagePcs, FailurePcs, FailingAwaits
<1> DEFINE Kept == DeadLettersCover' /\ OnlyTheDeadPend' /\ OutcomesAreRecorded'
<1>1. IInv' /\ IInv /\ OnlyTheDeadPend
  BY StepIInv DEF RInv
<1>2. ASSUME NEW w \in Workers, NEW m \in Message, ProcessPipelineJob(w, m)
      PROVE  Kept
  <2>1. /\ \A v \in Workers \ {w} : run'[v] = run[v]
        /\ run'[w].pc \in {"begin", "enter"} /\ run'[w].pend = "none"
        /\ UNCHANGED <<fileStatus, totals, dlq>>
    BY <1>1, <1>2 DEF ProcessPipelineJob, IInv, TypeOK, files
  <2>2. run'[w] \in Run /\ CountsUp
    BY <1>1, <2>1 DEF CountsUp, IInv, TypeOK, Idle
  <2> QED BY <1>1, <2>1, <2>2, UneventfulKeeps DEF Uneventful
<1>3. ASSUME NEW w \in Workers, RunStage(w) \/ SetRetryPending(w)
      PROVE  Kept
  <2>1. CASE RunStage(w)
    <3> DEFINE q == run[w].job.queue
               work == [ingestion |-> "download", s3Upload |-> "checkStored",
                        aiMetadata |-> "findMetadata", embedding |-> "hasEmbedding"]
    <3>1. run[w] \in Run /\ q \in Queues /\ run[w].pc = "enter" /\ UNCHANGED <<dlq, totals>>
      BY <1>1, <2>1, AtRuns, RunFields DEF RunStage, At, IInv
    <3>2. EntryStage[q] \in AssetState \ {"COMPLETED", "DEAD_LETTER"} /\ work[q] \in Pcs \ FailingAwaits
      BY <3>1 DEF Queues, EntryStage, AssetState
    <3>3. UpdateStates(w, EntryStage[q], work[q])
      BY <2>1 DEF RunStage
    <3> HIDE DEF work, q
    <3> QED BY <1>1, <3>1, <3>2, <3>3, GoesUneventfully, UneventfulKeeps
  <2>2. CASE SetRetryPending(w)
    BY <1>1, <2>2, GoesUneventfully, UneventfulKeeps DEF SetRetryPending, At, AssetState
  <2> QED BY <1>3, <2>1, <2>2
<1>4. ASSUME NEW w \in Workers, Finish(w) \/ Crash(w)
      PROVE  Kept
  BY <1>1, <1>4, EndsUneventfully, UneventfulKeeps DEF Finish, Crash, files
<1>5. ASSUME NEW w \in Workers, ScheduleRetry(w)
      PROVE  Kept
  BY <1>1, <1>5, GoesUneventfully, UneventfulKeeps DEF ScheduleRetry, At, files
<1>6. ASSUME NEW w \in Workers, Ingest(w) \/ S3Upload(w) \/ AiMetadata(w) \/ Embedding(w)
      PROVE  Kept
  BY <1>1, <1>6, HandlersUneventful, UneventfulKeeps
<1>7. ASSUME NEW w \in Workers, Fault(w)
      PROVE  Kept
  <2>1. run[w].pc \in Pcs /\ UNCHANGED <<fileStatus, dlq, totals>>
    BY <1>7, EnvironmentAssumption DEF Fault, files
  <2>2. (\E retryable \in BOOLEAN : FailWith(w, retryable)) \/ run' = [run EXCEPT ![w] = Idle]
    BY <1>7, EnvironmentAssumption DEF Fault
  <2> QED BY <1>1, <2>1, <2>2, FailsUneventfully, EndsUneventfully, UneventfulKeeps
<1>8. ASSUME NEW w \in Workers, WriteFileStatus(w)
      PROVE  Kept
  <2>1. run[w] \in Run /\ Active(w) /\ FileOf(w) \in Files /\ run[w].pend # "COMPLETED"
        /\ UNCHANGED <<dlq, totals>>
    BY <1>1, <1>8, ActiveRuns, RunFields
       DEF WriteFileStatus, IInv, HandlersAgree, Prepared, Active, FileOf
  <2>2. /\ \A v \in Workers \ {w} : run'[v] = run[v]
        /\ run'[w] \in Run /\ run'[w].job = run[w].job /\ run'[w].pc = run[w].pc
        /\ run'[w].pend = "none"
    BY <1>1, <1>8, <2>1 DEF WriteFileStatus, IInv, TypeOK, Run
  <2>3. \A f \in Files : fileStatus'[f] = IF f = FileOf(w) THEN run[w].pend ELSE fileStatus[f]
    BY <1>1, <1>8, <2>1 DEF WriteFileStatus, IInv, TypeOK
  <2>4. CASE FailsAt(w)
    BY <2>1, <2>2, <2>3, <2>4, StaysAtFailure DEF FailsAt
  <2>5. CASE ~ FailsAt(w)
    <3>1. run[w].pend # "DEAD_LETTER" /\ run'[w].pc \notin FailingAwaits
      BY <1>1, <2>1, <2>2, <2>5 DEF OnlyTheDeadPend, FailsAt
    <3>2. CountsUp
      BY <1>1, <2>1 DEF CountsUp, IInv, TypeOK
    <3>3. \A f \in Files : fileStatus'[f] = fileStatus[f] \/ Shown(f, fileStatus[f])'
      BY <2>1, <2>3, <3>1 DEF Shown
    <3> QED BY <1>1, <2>1, <2>2, <3>1, <3>2, <3>3, UneventfulKeeps DEF Uneventful
  <2> QED BY <2>4, <2>5
<1>9. ASSUME NEW w \in Workers, MoveToDeadLetter(w)
      PROVE  Kept
  <2>0. PICK f \in Files : f = FileOf(w)
    <3>1. FileOf(w) \in Files
      BY <1>1, <1>9, AtRuns, RunFields DEF MoveToDeadLetter, IInv, At, FileOf
    <3> QED BY <3>1
  <2>1. run[w] \in Run /\ run[w].pend = "none" /\ run[w].pc = "toDlq"
        /\ UNCHANGED <<fileStatus, totals>>
    BY <1>1, <1>9, AtRuns, RunFields DEF MoveToDeadLetter, IInv, At, FileOf, files
  <2>2. /\ \A v \in Workers \ {w} : run'[v] = run[v]
        /\ run'[w].job = run[w].job /\ run'[w].pc = "setDead" /\ run'[w].pend = "none"
    BY <1>1, <1>9, <2>1, GotoFields DEF MoveToDeadLetter, IInv
  <2>3. \A g \in Files : dlq'[g] = IF g = f THEN dlq[g] + 1 ELSE dlq[g]
    BY <1>1, <1>9, <2>0, <2>1 DEF MoveToDeadLetter, IInv, TypeOK
  <2>4. \A g \in Files : AboutToFail(g)' \subseteq IF g = f THEN AboutToFail(g) \cup {w} ELSE AboutToFail(g)
    BY <2>0, <2>1, <2>2 DEF AboutToFail, FailsAt, Active, FileOf
  <2>5. DeadLettersCover'
    <3> SUFFICES ASSUME NEW g \in Files
                 PROVE  totals'[g].failed + Cardinality(AboutToFail(g)') <= dlq'[g]
      BY DEF DeadLettersCover
    <3>1. CASE g = f
      <4>1. Cardinality(AboutToFail(f)') <= Cardinality(AboutToFail(f)) + 1
            /\ Cardinality(AboutToFail(f)') \in Nat
        <5>1. IsFiniteSet(AboutToFail(f)) /\ w \notin AboutToFail(f)
          BY <2>1, FailingFinite DEF AboutToFail, FailsAt
        <5>2. /\ IsFiniteSet(AboutToFail(f) \cup {w})
              /\ Cardinality(AboutToFail(f) \cup {w}) = Cardinality(AboutToFail(f)) + 1
          BY <5>1, FS_AddElement
        <5>3. AboutToFail(f)' \subseteq AboutToFail(f) \cup {w}
          BY <2>1, <2>4
        <5> QED BY <5>2, <5>3, FS_Subset, FS_CardinalityType
      <4>2. totals[f].failed \in Nat /\ dlq[f] \in Nat /\ dlq'[f] = dlq[f] + 1
        BY <1>1, <2>1, <2>3 DEF IInv, TypeOK
      <4>3. totals[f].failed + Cardinality(AboutToFail(f)) <= dlq[f]
        BY <2>1 DEF RInv, DeadLettersCover
      <4> QED BY <2>1, <3>1, <4>1, <4>2, <4>3, FailingFinite
    <3>2. CASE g # f
      <4>1. totals'[g].failed = totals[g].failed /\ AboutToFail(g)' \subseteq AboutToFail(g) /\ dlq'[g] = dlq[g]
        BY <2>1, <2>3, <2>4, <3>2
      <4>2. Cardinality(AboutToFail(g)') <= Cardinality(AboutToFail(g)) /\ Cardinality(AboutToFail(g)') \in Nat
        BY <4>1, FailingFinite, FS_Subset, FS_CardinalityType
      <4>3. totals[g].failed \in Nat /\ dlq[g] \in Nat
            /\ totals[g].failed + Cardinality(AboutToFail(g)) <= dlq[g]
        BY <1>1 DEF IInv, TypeOK, RInv, DeadLettersCover
      <4> QED BY <4>1, <4>2, <4>3, FailingFinite
    <3> QED BY <3>1, <3>2
  <2>6. OnlyTheDeadPend'
    BY <1>1, <2>2 DEF OnlyTheDeadPend, Active
  <2>7. OutcomesAreRecorded'
    <3>1. \A g \in Files : dlq[g] \in Nat /\ totals[g].failed \in Nat
      BY <1>1 DEF IInv, TypeOK
    <3>2. \A g \in Files : dlq'[g] >= dlq[g]
      BY <2>3, <3>1
    <3>3. \A g \in Files : dlq'[g] \in Nat
      BY <1>1 DEF IInv, TypeOK
    <3> QED BY <2>1, <3>1, <3>2, <3>3 DEF RInv, OutcomesAreRecorded
  <2> QED BY <2>5, <2>6, <2>7
<1>10. ASSUME NEW w \in Workers, SetDeadLetter(w)
      PROVE  Kept
  <2>1. run[w] \in Run /\ FileOf(w) \in Files /\ FailsAt(w) /\ UNCHANGED <<dlq, totals>>
        /\ run[w].pc = "setDead" /\ UpdateStates(w, "DEAD_LETTER", "countFailed")
    BY <1>1, <1>10, AtRuns, RunFields, PcActive DEF SetDeadLetter, IInv, At, FileOf, FailsAt
  <2>2. /\ \A v \in Workers \ {w} : run'[v] = run[v]
        /\ run'[w] \in Run /\ run'[w].job = run[w].job /\ run'[w].pc = "countFailed"
    BY <1>1, <2>1, Going, UpdateStatesFields DEF IInv, Moves, Active, AssetState
  <2>3. \A f \in Files : fileStatus'[f] = fileStatus[f] \/ (f = FileOf(w) /\ fileStatus'[f] # "COMPLETED")
    BY <1>1, <2>1 DEF UpdateStates, IInv, TypeOK
  <2> QED BY <2>1, <2>2, <2>3, StaysAtFailure
<1>11. ASSUME NEW w \in Workers, CountFailed(w)
      PROVE  Kept
  <2>0. PICK f \in Files : f = FileOf(w)
    <3>1. FileOf(w) \in Files
      BY <1>1, <1>11, AtRuns, RunFields DEF CountFailed, IInv, At, FileOf
    <3> QED BY <3>1
  <2>1. run[w] \in Run /\ FailsAt(w) /\ run[w].pend = "none" /\ run[w].pc = "countFailed"
        /\ UNCHANGED <<fileStatus, dlq>>
    BY <1>1, <1>11, AtRuns, RunFields, PcActive DEF CountFailed, IInv, At, FileOf, FailsAt, files
  <2>2. /\ \A v \in Workers \ {w} : run'[v] = run[v]
        /\ run'[w].pc = "end" /\ run'[w].pend = "none"
    BY <1>1, <1>11, <2>1, GotoFields DEF CountFailed, IInv
  <2>3. \A g \in Files :
           /\ totals'[g].successful = totals[g].successful /\ totals'[g].duplicate = totals[g].duplicate
           /\ totals'[g].failed = IF g = f THEN totals[g].failed + 1 ELSE totals[g].failed
    BY <1>1, <1>11, <2>0, <2>1 DEF CountFailed, IInv, TypeOK
  <2>4. \A g \in Files : AboutToFail(g)' \subseteq AboutToFail(g) \ {w}
    BY <2>0, <2>1, <2>2 DEF AboutToFail, FailsAt, Active, FileOf
  <2>5. w \in AboutToFail(f)
    BY <2>0, <2>1 DEF AboutToFail
  <2>6. DeadLettersCover'
    <3> SUFFICES ASSUME NEW g \in Files
                 PROVE  totals'[g].failed + Cardinality(AboutToFail(g)') <= dlq[g]
      BY <2>1 DEF DeadLettersCover
    <3>1. CASE g = f
      <4>1. Cardinality(AboutToFail(f)') + 1 <= Cardinality(AboutToFail(f))
            /\ Cardinality(AboutToFail(f)') \in Nat
        <5>1. IsFiniteSet(AboutToFail(f)) /\ Cardinality(AboutToFail(f)) \in Nat
          BY FailingFinite
        <5>2. /\ IsFiniteSet(AboutToFail(f) \ {w})
              /\ Cardinality(AboutToFail(f) \ {w}) = Cardinality(AboutToFail(f)) - 1
          BY <2>5, <5>1, FS_RemoveElement
        <5>3. AboutToFail(f)' \subseteq AboutToFail(f) \ {w}
          BY <2>1, <2>4
        <5>4. Cardinality(AboutToFail(f)') <= Cardinality(AboutToFail(f) \ {w})
              /\ Cardinality(AboutToFail(f)') \in Nat
          BY <5>2, <5>3, FS_Subset, FS_CardinalityType
        <5> QED BY <5>1, <5>2, <5>4
      <4>2. totals[f].failed \in Nat /\ dlq[f] \in Nat /\ totals'[f].failed = totals[f].failed + 1
        BY <1>1, <2>1, <2>3 DEF IInv, TypeOK
      <4>3. totals[f].failed + Cardinality(AboutToFail(f)) <= dlq[f]
        BY <2>1 DEF RInv, DeadLettersCover
      <4> QED BY <2>1, <3>1, <4>1, <4>2, <4>3, FailingFinite
    <3>2. CASE g # f
      <4>1. totals'[g].failed = totals[g].failed /\ AboutToFail(g)' \subseteq AboutToFail(g)
        BY <2>3, <2>4, <3>2
      <4> QED BY <2>1, <4>1, FewerFailing
    <3> QED BY <3>1, <3>2
  <2>7. OnlyTheDeadPend'
    BY <1>1, <2>2 DEF OnlyTheDeadPend, Active
  <2>8. OutcomesAreRecorded'
    <3>1. totals'[f].failed <= dlq[f]
      <4>1. totals[f].failed \in Nat /\ dlq[f] \in Nat /\ totals'[f].failed = totals[f].failed + 1
        BY <1>1, <2>1, <2>3 DEF IInv, TypeOK
      <4>2. dlq[f] > totals[f].failed
        BY <2>0, <2>1, LetterForFailure
      <4> QED BY <4>1, <4>2
    <3> QED BY <2>1, <2>3, <3>1 DEF RInv, OutcomesAreRecorded
  <2> QED BY <2>6, <2>7, <2>8
<1>12. CASE Replay \/ UNCHANGED vars
  <2>1. UNCHANGED <<run, totals, dlq>>
    BY <1>12 DEF Replay, ReplayFromDlq, ReplaySetAsset, ReplaySetFile, vars
  <2>2. \A f \in Files : fileStatus'[f] = fileStatus[f] \/ fileStatus'[f] \notin {"COMPLETED", "DEAD_LETTER"}
    <3>1. ASSUME ReplaySetFile
          PROVE  \A f \in Files : fileStatus'[f] = fileStatus[f] \/ fileStatus'[f] \notin {"COMPLETED", "DEAD_LETTER"}
      <4>1. replay.stage \in ReplayStages
        BY <1>1, <3>1 DEF ReplaySetFile, IInv, TypeOK, ReplayCall, NoReplay
      <4>2. replay.stage \notin {"COMPLETED", "DEAD_LETTER"}
        BY <4>1, EnvironmentAssumption DEF ReplayableStages, StagesOf, Queues
      <4> QED BY <1>1, <3>1, <4>2 DEF ReplaySetFile, IInv, TypeOK
    <3> QED BY <1>12, <3>1 DEF Replay, ReplayFromDlq, ReplaySetAsset, vars, files
  <2>3. DeadLettersCover' /\ OnlyTheDeadPend'
    BY <2>1 DEF RInv, DeadLettersCover, OnlyTheDeadPend, AboutToFail, FailsAt, Active, FileOf
  <2>4. OutcomesAreRecorded
    BY DEF RInv
  <2>5. OutcomesAreRecorded'
    <3> SUFFICES ASSUME NEW f \in Files
                 PROVE  /\ fileStatus'[f] = "COMPLETED" => totals'[f].successful > 0
                        /\ fileStatus'[f] = "DEAD_LETTER" => dlq'[f] > 0
                        /\ totals'[f].failed <= dlq'[f]
                        /\ totals'[f].duplicate <= totals'[f].successful
      BY DEF OutcomesAreRecorded
    <3>1. fileStatus'[f] = fileStatus[f] \/ fileStatus'[f] \notin {"COMPLETED", "DEAD_LETTER"}
      BY <2>2
    <3> QED BY <2>1, <2>4, <3>1 DEF OutcomesAreRecorded
  <2> QED BY <1>1, <2>3, <2>5 DEF RInv
<1>13. ASSUME NEW w \in Workers, Work(w) PROVE Kept
  BY <1>2, <1>3, <1>4, <1>5, <1>6, <1>8, <1>9, <1>10, <1>11, <1>13 DEF Work, HandleFailure
<1> QED BY <1>1, <1>4, <1>7, <1>12, <1>13 DEF Next, RInv

\* Nothing is shown before a handler has run.
LEMMA InitRecord == Init => RInv
<1> SUFFICES ASSUME Init PROVE RInv
  OBVIOUS
<1>1. \A f : AboutToFail(f) = {}
  BY DEF Init, AboutToFail, FailsAt, Active
<1>2. DeadLettersCover
  <2>1. \A f \in Files : totals[f].failed = 0 /\ dlq[f] = 0 /\ Cardinality(AboutToFail(f)) = 0
    BY <1>1, FS_EmptySet DEF Init
  <2> QED BY <2>1 DEF DeadLettersCover
<1>3. OnlyTheDeadPend /\ OutcomesAreRecorded
  BY DEF Init, OnlyTheDeadPend, Active, OutcomesAreRecorded
<1> QED BY <1>2, <1>3, InitIInv DEF RInv

\* A file is shown COMPLETED only when its job counted a success, DEAD_LETTER
\* only when a dead-letter message can replay it, and a counted failure always
\* has such a message of its own, whatever crashes, throws or is replayed.
THEOREM OutcomesAlwaysRecorded == Spec => []OutcomesAreRecorded
<1>1. Init => RInv
  BY InitRecord
<1>2. RInv /\ [Next]_vars => RInv'
  BY RecordStep
<1>3. RInv => OutcomesAreRecorded
  BY DEF RInv
<1> QED BY <1>1, <1>2, <1>3, PTL DEF Spec

---------------------------------------------------------------------------
(* Who owns an asset. *)

\* The file that created the asset of its content owns it.
Owns(f) == source[f] # NoAsset /\ totals[f].duplicate = 0
OneOwner ==
  \A f, g \in Files : Owns(f) /\ Owns(g) /\ HashOf[f] = HashOf[g] => f = g
EveryAssetIsOwned ==
  \A h \in Hashes : Exists(h) => \E f \in Files : Owns(f) /\ HashOf[f] = h
CompletedIsCounted ==
  \A f \in Files : Owns(f) /\ assetStatus[HashOf[f]] = "COMPLETED" => totals[f].successful > 0

\* A message of the ingestion queue is about a file that has no asset yet, any
\* other about the owner of its asset.
MessageOfOwner(m) ==
  /\ m.queue # "s3Upload"
  /\ m.queue = "ingestion" => m.asset = NoAsset /\ source[m.file] = NoAsset
  /\ m.queue # "ingestion" => m.asset # NoAsset /\ Owns(m.file)
MessagesOfOwners == \A m \in Message : queue[m] > 0 => MessageOfOwner(m)

\* So is the job of a handler; the ingestion handler has an asset only after it
\* has created one.
IngestionAwaits == {"begin", "download", "validate", "findDuplicate", "enterUpload", "create", "attach"}
CreatedAwaits == {"upload", "markStored", "dispatchAi"}
MetadataAwaits == {"findMetadata", "generate", "markGenerated", "dispatchEmbedding"}
RunOfOwner(r) ==
  /\ r.job.queue # "s3Upload" /\ r.pc # "checkStored"
  /\ r.job.queue = "ingestion" <=> r.job.asset = NoAsset
  /\ r.asset = NoAsset => source[r.job.file] = NoAsset
  /\ r.asset # NoAsset => Owns(r.job.file)
  /\ r.job.queue = "ingestion" => (r.asset # NoAsset <=> r.pc \in CreatedAwaits)
  /\ r.pc \in IngestionAwaits \cup CreatedAwaits => r.job.queue = "ingestion"
  /\ r.pc \in MetadataAwaits => r.job.queue = "aiMetadata"
  /\ ~ r.guarded => r.pc = "begin"
RunsOfOwners == \A w \in Workers : Holding(w) => RunOfOwner(run[w])

\* Metadata is generated for an asset that has none,
GeneratesOnce(w) == run[w].pc = "generate" => run[w].asset \notin described
GenerateOnce == \A w \in Workers : Holding(w) => GeneratesOnce(w)
\* and a handler that has passed on its file can only mark a retry.
LateMark(w) == run[w].pc # "setGenerated" /\ run[w].pend \in {"none", "RETRY_PENDING"}
LateMarks == \A w \in Workers : Active(w) /\ ~ Holding(w) => LateMark(w)

OInv ==
  /\ PInv /\ RInv /\ replay = NoReplay
  /\ OneOwner /\ EveryAssetIsOwned /\ CompletedIsCounted
  /\ MessagesOfOwners /\ RunsOfOwners /\ GenerateOnce /\ LateMarks

\* The asset a holder works on is the one its file owns.
LEMMA HoldersAsset ==
  ASSUME OInv, NEW w \in Workers, Holding(w)
  PROVE  /\ run[w] \in Run /\ FileOf(w) \in Files /\ RunOfOwner(run[w])
         /\ Counted(FileOf(w)) = 0 /\ totals[FileOf(w)].successful = 0
         /\ totals[FileOf(w)].duplicate = 0
         /\ run[w].asset # NoAsset =>
              /\ run[w].asset = HashOf[FileOf(w)] /\ Owns(FileOf(w)) /\ Exists(run[w].asset)
<1>1. run[w] \in Run /\ FileOf(w) \in Files /\ RunOfOwner(run[w])
  BY ActiveRuns, RunFields DEF OInv, PInv, IInv, Holding, Active, FileOf, RunsOfOwners
<1>2. Counted(FileOf(w)) = 0
  BY <1>1, OnlyHolder DEF OInv, PInv
<1>3. totals[FileOf(w)].successful = 0 /\ totals[FileOf(w)].duplicate = 0
  <2>1. /\ totals[FileOf(w)].successful \in Nat /\ totals[FileOf(w)].duplicate \in Nat
        /\ totals[FileOf(w)].failed \in Nat
        /\ totals[FileOf(w)].duplicate <= totals[FileOf(w)].successful
    BY <1>1 DEF OInv, RInv, IInv, TypeOK, OutcomesAreRecorded
  <2> QED BY <1>2, <2>1 DEF Counted
<1>4. run[w].asset # NoAsset => run[w].asset = fileAsset[FileOf(w)]
  BY DEF OInv, PInv, IInv, HandlersAgree, KnowsItsAsset, Holding, FileOf
<1> QED BY <1>1, <1>2, <1>3, <1>4 DEF OInv, PInv, IInv, LinksAgree, RunOfOwner, FileOf

\* No two handlers hold files with the same asset.
LEMMA OneHolderPerAsset ==
  ASSUME OInv, NEW v \in Workers, NEW w \in Workers, Holding(v), Holding(w),
         run[v].asset = run[w].asset, run[w].asset # NoAsset
  PROVE  v = w
<1>1. FileOf(v) = FileOf(w)
  BY HoldersAsset DEF OInv, OneOwner
<1> QED BY <1>1, HoldersAsset, OnlyHolder DEF OInv, PInv

---------------------------------------------------------------------------
\* What a step of w leaves to the other files.
LeavesOthers(w) ==
  /\ Moves(w) /\ Holding(w)
  /\ \A f \in Files \ {FileOf(w)} : source'[f] = source[f] /\ totals'[f].duplicate = totals[f].duplicate
  /\ Holding(w)' => RunOfOwner(run[w])' /\ GeneratesOnce(w)'
  /\ Active(w)' /\ ~ Holding(w)' => LateMark(w)'
  /\ \A m \in Message : queue'[m] > 0 => queue[m] > 0 \/ MessageOfOwner(m)'
  /\ described' \subseteq described \cup ({run[w].asset} \ {NoAsset})

\* What it leaves to the owners.
LeavesOwners(w) ==
  /\ UNCHANGED source /\ \A f \in Files : totals'[f].duplicate = totals[f].duplicate
  /\ \A f \in Files : totals'[f].successful >= totals[f].successful
  /\ \A h \in Hashes :
        \/ assetStatus'[h] = assetStatus[h]
        \/ /\ h = run[w].asset /\ assetStatus'[h] # "ABSENT"
           /\ assetStatus'[h] = "COMPLETED" => totals'[FileOf(w)].successful > 0

\* A step that is about the file of w alone leaves what is said of the other
\* messages and handlers.
LEMMA OthersLeft ==
  ASSUME OInv, NEW w \in Workers, LeavesOthers(w)
  PROVE  MessagesOfOwners' /\ RunsOfOwners' /\ GenerateOnce' /\ LateMarks'
<1>1. \A f \in Files \ {FileOf(w)} : (Owns(f)' <=> Owns(f)) /\ source'[f] = source[f]
  BY DEF LeavesOthers, Owns
<1>2. MessagesOfOwners'
  <2> SUFFICES ASSUME NEW m \in Message, queue'[m] > 0, queue[m] > 0
               PROVE  MessageOfOwner(m)'
    BY DEF LeavesOthers, MessagesOfOwners
  <2>1. m.file \in Files \ {FileOf(w)}
    BY HoldersAsset, OnlyHolder DEF LeavesOthers, Waiting, OInv, PInv, Message
  <2> QED BY <1>1, <2>1 DEF OInv, MessagesOfOwners, MessageOfOwner
<1>3. ASSUME NEW v \in Workers \ {w}, Holding(v)'
      PROVE  RunOfOwner(run[v])' /\ GeneratesOnce(v)'
  <2>1. Holding(v) /\ run'[v] = run[v]
    BY <1>3 DEF LeavesOthers, Moves, Holding, Active
  <2>2. run[v].job.file \in Files \ {FileOf(w)} /\ RunOfOwner(run[v])
    BY <2>1, HoldersAsset, OnlyHolder DEF LeavesOthers, FileOf, OInv, PInv
  <2>3. RunOfOwner(run[v])'
    BY <1>1, <2>1, <2>2 DEF RunOfOwner
  <2>4. GeneratesOnce(v)'
    BY <2>1, OneHolderPerAsset DEF OInv, GenerateOnce, GeneratesOnce, LeavesOthers
  <2> QED BY <2>3, <2>4
<1>4. RunsOfOwners' /\ GenerateOnce'
  BY <1>3 DEF LeavesOthers, RunsOfOwners, GenerateOnce
<1>5. LateMarks'
  BY DEF OInv, LateMarks, LateMark, LeavesOthers, Moves, Holding, Active
<1> QED BY <1>2, <1>4, <1>5

\* A step that changes no owner only has to show that a completed file is
\* counted.
LEMMA OwnersLeft ==
  ASSUME OInv, IInv', NEW w \in Workers, Holding(w), LeavesOwners(w)
  PROVE  OneOwner' /\ EveryAssetIsOwned' /\ CompletedIsCounted'
<1>1. \A f \in Files : Owns(f)' <=> Owns(f)
  BY DEF LeavesOwners, Owns
<1>2. \A h \in Hashes : h # NoAsset
  BY FilesAssumption
<1>3. \A h \in Hashes : Exists(h)' => Exists(h)
  BY <1>2, HoldersAsset DEF LeavesOwners, Exists
<1>4. CompletedIsCounted'
  <2> SUFFICES ASSUME NEW f \in Files, Owns(f), assetStatus'[HashOf[f]] = "COMPLETED"
               PROVE  totals'[f].successful > 0
    BY <1>1 DEF CompletedIsCounted
  <2>1. HashOf[f] \in Hashes /\ HashOf[f] # NoAsset
    BY <1>2, FilesAssumption
  <2>2. CASE assetStatus'[HashOf[f]] = assetStatus[HashOf[f]]
    <3>1. totals[f].successful > 0 /\ totals[f].successful \in Nat
      BY <2>2 DEF OInv, CompletedIsCounted, PInv, IInv, TypeOK
    <3>2. totals'[f].successful >= totals[f].successful /\ totals'[f].successful \in Nat
      BY DEF LeavesOwners, IInv, TypeOK
    <3> QED BY <3>1, <3>2
  <2>3. CASE HashOf[f] = run[w].asset /\ totals'[FileOf(w)].successful > 0
    BY <2>1, <2>3, HoldersAsset DEF OInv, OneOwner
  <2> QED BY <2>1, <2>2, <2>3 DEF LeavesOwners
<1> QED BY <1>1, <1>3, <1>4 DEF OInv, OneOwner, EveryAssetIsOwned

---------------------------------------------------------------------------
\* A handler that goes on from one await to another with its file,
LEMMA GoesOnAsOwner ==
  ASSUME OInv, NEW w \in Workers, NEW from \in Pcs \ LateAwaits, from # "begin", At(w, from),
         NEW to \in Pcs, to \notin LateAwaits \cup {"begin", "generate", "checkStored"},
         \/ Goto(w, to) /\ UNCHANGED assetStatus
         \/ \E state \in AssetState \ {"COMPLETED"} : UpdateStates(w, state, to),
         run[w].job.queue = "ingestion" => (from \in CreatedAwaits <=> to \in CreatedAwaits),
         to \in IngestionAwaits \cup CreatedAwaits => run[w].job.queue = "ingestion",
         to \in MetadataAwaits => run[w].job.queue = "aiMetadata",
         UNCHANGED <<source, described, queue, totals>>
  PROVE  LeavesOthers(w) /\ LeavesOwners(w)
<1>1. /\ run[w] \in Run /\ Active(w) /\ Holding(w) /\ RunOfOwner(run[w])
  BY AtRuns, PcActive DEF OInv, PInv, IInv, At, Holding, RunsOfOwners
<1>2. /\ Moves(w) /\ run'[w].pc = to /\ run'[w].guarded = run[w].guarded
      /\ run'[w].asset = run[w].asset /\ Active(w)'
  BY <1>1, Going, GotoFields, UpdateStatesFields DEF OInv, PInv, IInv
<1>3. RunOfOwner(run[w])' /\ GeneratesOnce(w)'
  BY <1>1, <1>2 DEF RunOfOwner, GeneratesOnce, Moves, Owns, At, Active
<1>4. LeavesOthers(w)
  BY <1>1, <1>2, <1>3 DEF LeavesOthers, Holding
<1>5. LeavesOwners(w)
  <2>1. \A f \in Files : totals[f].successful \in Nat
    BY DEF OInv, PInv, IInv, TypeOK
  <2>2. \A h \in Hashes : assetStatus'[h] = assetStatus[h]
                          \/ (h = run[w].asset /\ assetStatus'[h] \in AssetState \ {"COMPLETED"})
    BY DEF UpdateStates, OInv, PInv, IInv, TypeOK
  <2>3. "ABSENT" \notin AssetState
    BY DEF AssetState
  <2> QED BY <2>1, <2>2, <2>3 DEF LeavesOwners
<1> QED BY <1>4, <1>5

\* and one whose stage throws.
LEMMA FailsAsOwner ==
  ASSUME OInv, NEW w \in Workers, NEW from \in Pcs \ LateAwaits, run[w].pc = from,
         from \notin CreatedAwaits \cup {"begin"},
         NEW retryable \in BOOLEAN, FailWith(w, retryable),
         UNCHANGED <<source, described, queue, totals, assetStatus>>
  PROVE  LeavesOthers(w) /\ LeavesOwners(w)
<1>1. /\ run[w] \in Run /\ Active(w) /\ Holding(w) /\ RunOfOwner(run[w])
  BY AtRuns, PcActive DEF OInv, PInv, IInv, Holding, RunsOfOwners
<1>2. /\ Moves(w) /\ run'[w].pc \in {"reschedule", "toDlq"} /\ run'[w].guarded = run[w].guarded
      /\ run'[w].asset = run[w].asset /\ Active(w)'
  BY <1>1, Failing, FailWithFields DEF OInv, PInv, IInv
<1>3. RunOfOwner(run[w])' /\ GeneratesOnce(w)'
  BY <1>1, <1>2 DEF RunOfOwner, GeneratesOnce, Moves, Owns, Active,
     IngestionAwaits, CreatedAwaits, MetadataAwaits
<1>4. LeavesOthers(w)
  BY <1>1, <1>2, <1>3 DEF LeavesOthers, Holding, LateAwaits
<1>5. \A f \in Files : totals[f].successful \in Nat
  BY DEF OInv, PInv, IInv, TypeOK
<1> QED BY <1>4, <1>5 DEF LeavesOwners

\* A handler that passes its file on, or counts it, and with it leaves.
LEMMA LeavesAsOwner ==
  ASSUME OInv, NEW w \in Workers, NEW from \in Pcs \ LateAwaits, At(w, from),
         NEW to \in LateAwaits, to # "setGenerated", Goto(w, to),
         UNCHANGED <<source, described>>,
         \A f \in Files : totals'[f].duplicate = totals[f].duplicate,
         \A m \in Message : queue'[m] > 0 => queue[m] > 0 \/ MessageOfOwner(m)'
  PROVE  LeavesOthers(w) /\ Holding(w)
<1>1. run[w] \in Run /\ Active(w) /\ Holding(w) /\ to \in Pcs
  BY AtRuns, PcActive DEF OInv, PInv, IInv, At, Holding, LateAwaits, Pcs, StagePcs, FailurePcs
<1>2. Moves(w) /\ run'[w].pc = to /\ run'[w].pend = "none" /\ Active(w)'
  BY <1>1, Going, GotoFields DEF OInv, PInv, IInv, At
<1> QED BY <1>1, <1>2 DEF LeavesOthers, Holding, LateMark

\* Where the job of a handler came from, by the await it is at.
LEMMA AtAsOwner ==
  ASSUME OInv, NEW w \in Workers, NEW from \in Pcs \ LateAwaits, run[w].pc = from
  PROVE  /\ Holding(w) /\ run[w] \in Run /\ RunOfOwner(run[w]) /\ Prepared(run[w])
         /\ run[w].job.queue \in Queues
<1>1. run[w] \in Run /\ Active(w) /\ Holding(w)
  BY AtRuns, PcActive DEF OInv, PInv, IInv, Holding
<1> QED BY <1>1, RunFields DEF OInv, RunsOfOwners, PInv, IInv, HandlersAgree

\* A handler creates an asset that does not exist.
Creates(w) == CreateAsset(w) /\ ~ Exists(HashOf[FileOf(w)])

\* The steps of the ingestion handler that neither create an asset nor link to
\* one leave the owners alone.
LEMMA IngestOwners ==
  ASSUME OInv, NEW w \in Workers, Ingest(w), ~ AttachToExistingAsset(w), ~ Creates(w)
  PROVE  LeavesOthers(w) /\ LeavesOwners(w)
<1> USE DEF At, Pcs, IngestionPcs, StagePcs, FailurePcs, LateAwaits, IngestionAwaits,
            CreatedAwaits, MetadataAwaits
<1>1. CASE BeginIngestion(w)
  <2>1. run[w] \in Run /\ Active(w) /\ Holding(w) /\ RunOfOwner(run[w])
    BY <1>1, AtAsOwner DEF BeginIngestion, Holding
  <2>2. run[w].asset = NoAsset /\ run[w].job.queue = "ingestion"
    BY <1>1, <2>1 DEF BeginIngestion, RunOfOwner
  <2>3. run' = [run EXCEPT ![w].pc = "enter", ![w].guarded = TRUE]
    BY <1>1, <2>2 DEF BeginIngestion, Exists
  <2>4. /\ run'[w] \in Run /\ run'[w].job = run[w].job /\ run'[w].pc = "enter" /\ run'[w].guarded
        /\ run'[w].asset = run[w].asset
        /\ \A v \in Workers \ {w} : run'[v] = run[v]
    BY <2>1, <2>3 DEF OInv, PInv, IInv, TypeOK, Run
  <2>5. Moves(w) /\ Active(w)'
    BY <2>1, <2>4 DEF Moves, Active, Idle
  <2>6. UNCHANGED <<source, described, queue, totals, assetStatus>>
    BY <1>1 DEF BeginIngestion, files, artifacts
  <2>7. RunOfOwner(run[w])' /\ GeneratesOnce(w)'
    BY <2>1, <2>2, <2>4, <2>6 DEF RunOfOwner, GeneratesOnce
  <2>8. \A f \in Files : totals[f].successful \in Nat
    BY DEF OInv, PInv, IInv, TypeOK
  <2> QED BY <2>1, <2>4, <2>5, <2>6, <2>7, <2>8 DEF LeavesOthers, LeavesOwners, Holding
<1>2. CASE DownloadFile(w) \/ EnterUpload(w) \/ MarkStored(w)
  <2>1. UNCHANGED <<source, described, queue, totals>>
    BY <1>2 DEF DownloadFile, EnterUpload, MarkStored, artifacts
  <2> QED BY <1>2, <2>1, AtAsOwner, GoesOnAsOwner DEF DownloadFile, EnterUpload, MarkStored, AssetState, RunOfOwner
<1>3. CASE ValidateImage(w)
  <2>1. At(w, "validate") /\ UNCHANGED <<source, described, queue, totals>>
    BY <1>3 DEF ValidateImage, artifacts
  <2>2. CASE FailWith(w, FALSE) /\ UNCHANGED assetStatus
    BY <2>1, <2>2, FailsAsOwner
  <2>3. CASE UpdateStates(w, "HASHING", "findDuplicate")
    BY <2>1, <2>3, AtAsOwner, GoesOnAsOwner DEF AssetState, RunOfOwner
  <2> QED BY <1>3, <2>2, <2>3 DEF ValidateImage
<1>4. CASE FindDuplicate(w) \/ UploadFile(w) \/ CreateAsset(w)
  <2>1. UNCHANGED <<source, described, queue, totals, assetStatus>>
    BY <1>4 DEF FindDuplicate, UploadFile, CreateAsset, Creates, artifacts, files
  <2>2. \/ At(w, "findDuplicate") /\ (Goto(w, "attach") \/ Goto(w, "enterUpload"))
        \/ At(w, "upload") /\ Goto(w, "markStored")
        \/ At(w, "create") /\ Goto(w, "attach")
    BY <1>4 DEF FindDuplicate, UploadFile, CreateAsset, Creates
  <2> QED BY <2>1, <2>2, AtAsOwner, GoesOnAsOwner DEF RunOfOwner
<1>5. CASE DispatchAiMetadata(w)
  <2>1. At(w, "dispatchAi") /\ Goto(w, "record") /\ Send(NextMessage(w, "aiMetadata"))
        /\ UNCHANGED <<source, described, totals, assetStatus>>
    BY <1>5 DEF DispatchAiMetadata, files, artifacts
  <2>2. PICK m \in Message : /\ Send(m) /\ m.queue = "aiMetadata"
                             /\ m.asset # NoAsset /\ Owns(m.file)
    <3>1. run[w] \in Run /\ RunOfOwner(run[w])
      BY <2>1, AtAsOwner
    <3>2. run[w].asset # NoAsset /\ Owns(FileOf(w))
      BY <2>1, <3>1 DEF RunOfOwner, FileOf
    <3>3. NextMessage(w, "aiMetadata") \in Message
      BY <3>1, NextMessageType DEF Queues
    <3> QED BY <2>1, <3>2, <3>3 DEF NextMessage
  <2>5. MessageOfOwner(m)'
    BY <2>1, <2>2 DEF MessageOfOwner, Owns
  <2>3. \A n \in Message : queue'[n] > 0 => queue[n] > 0 \/ MessageOfOwner(n)'
    BY <2>2, <2>5, WaitingGrows DEF OInv, PInv
  <2>4. \A f \in Files : totals[f].successful \in Nat
    BY DEF OInv, PInv, IInv, TypeOK
  <2> QED BY <2>1, <2>3, <2>4, LeavesAsOwner DEF LeavesOwners
<1> QED BY <1>1, <1>2, <1>3, <1>4, <1>5 DEF Ingest

\* Nor do the steps of the other handlers,
LEMMA StagesOwners ==
  ASSUME OInv, NEW w \in Workers, S3Upload(w) \/ AiMetadata(w) \/ Embedding(w)
  PROVE  LeavesOthers(w) /\ LeavesOwners(w)
<1> USE DEF At, Pcs, IngestionPcs, StagePcs, FailurePcs, LateAwaits, IngestionAwaits,
            CreatedAwaits, MetadataAwaits
<1>0. \A f \in Files : totals[f].successful \in Nat
  BY DEF OInv, PInv, IInv, TypeOK
<1>1. CASE S3Upload(w)
  <2>1. ~ CheckStored(w)
    BY AtAsOwner DEF CheckStored, RunOfOwner
  <2>2. ~ SetGenerated(w)
    BY PcActive DEF SetGenerated, OInv, LateMarks, LateMark, Holding
  <2> QED BY <1>1, <2>1, <2>2 DEF S3Upload
<1>2. CASE FindMetadata(w)
  <2>1. At(w, "findMetadata") /\ UNCHANGED <<source, described, queue, totals, assetStatus>>
    BY <1>2 DEF FindMetadata, files, artifacts
  <2>2. /\ Holding(w) /\ run[w] \in Run /\ RunOfOwner(run[w]) /\ run[w].job.queue = "aiMetadata"
    BY <2>1, AtAsOwner DEF RunOfOwner
  <2>3. CASE Goto(w, "markGenerated")
    BY <2>1, <2>2, <2>3, GoesOnAsOwner
  <2>4. CASE run[w].asset \notin described /\ Goto(w, "generate")
    <3>1. /\ Moves(w) /\ run'[w].pc = "generate" /\ run'[w].guarded = run[w].guarded
          /\ run'[w].asset = run[w].asset /\ Active(w)'
      BY <2>2, <2>4, Going, GotoFields DEF OInv, PInv, IInv
    <3>2. RunOfOwner(run[w])' /\ GeneratesOnce(w)'
      BY <2>1, <2>2, <2>4, <3>1 DEF RunOfOwner, GeneratesOnce, Moves, Owns, Active
    <3> QED BY <1>0, <2>1, <2>2, <3>1, <3>2 DEF LeavesOthers, LeavesOwners, Holding
  <2> QED BY <1>2, <2>3, <2>4 DEF FindMetadata
<1>3. CASE GenerateMetadata(w)
  <2>1. At(w, "generate") /\ UNCHANGED <<source, queue, totals>>
    BY <1>3 DEF GenerateMetadata, files
  <2>2. /\ Holding(w) /\ run[w] \in Run /\ RunOfOwner(run[w]) /\ run[w].job.queue = "aiMetadata"
        /\ run[w].asset # NoAsset
    BY <2>1, AtAsOwner DEF RunOfOwner, Prepared
  <2>3. CASE FailWith(w, FALSE) /\ UNCHANGED <<described, assetStatus>>
    BY <2>1, <2>3, FailsAsOwner
  <2>4. CASE /\ Goto(w, "markGenerated") /\ described' = described \cup {run[w].asset}
             /\ assetStatus' = [assetStatus EXCEPT ![run[w].asset] = "METADATA_GENERATED"]
    <3>1. /\ Moves(w) /\ run'[w].pc = "markGenerated" /\ run'[w].guarded = run[w].guarded
          /\ run'[w].asset = run[w].asset /\ Active(w)'
      BY <2>2, <2>4, Going, GotoFields DEF OInv, PInv, IInv
    <3>2. RunOfOwner(run[w])' /\ GeneratesOnce(w)'
      BY <2>1, <2>2, <3>1 DEF RunOfOwner, GeneratesOnce, Moves, Owns, Active
    <3>3. \A h \in Hashes : assetStatus'[h] = assetStatus[h]
                            \/ (h = run[w].asset /\ assetStatus'[h] = "METADATA_GENERATED")
      BY <2>4 DEF OInv, PInv, IInv, TypeOK
    <3> QED BY <1>0, <2>1, <2>2, <2>4, <3>1, <3>2, <3>3 DEF LeavesOthers, LeavesOwners, Holding
  <2> QED BY <1>3, <2>3, <2>4 DEF GenerateMetadata
<1>4. CASE MarkGenerated(w)
  <2>1. /\ At(w, "markGenerated") /\ Goto(w, "dispatchEmbedding") /\ UNCHANGED <<source, described, queue, totals>>
        /\ assetStatus' = [assetStatus EXCEPT ![run[w].asset] = "METADATA_GENERATED"]
    BY <1>4 DEF MarkGenerated, artifacts
  <2>2. /\ Holding(w) /\ run[w] \in Run /\ RunOfOwner(run[w]) /\ run[w].job.queue = "aiMetadata"
    BY <2>1, AtAsOwner DEF RunOfOwner
  <2>3. /\ Moves(w) /\ run'[w].pc = "dispatchEmbedding" /\ run'[w].guarded = run[w].guarded
        /\ run'[w].asset = run[w].asset /\ Active(w)'
    BY <2>1, <2>2, Going, GotoFields DEF OInv, PInv, IInv
  <2>4. RunOfOwner(run[w])' /\ GeneratesOnce(w)'
    BY <2>1, <2>2, <2>3 DEF RunOfOwner, GeneratesOnce, Moves, Owns, Active
  <2>5. \A h \in Hashes : assetStatus'[h] = assetStatus[h]
                          \/ (h = run[w].asset /\ assetStatus'[h] = "METADATA_GENERATED")
    BY <2>1 DEF OInv, PInv, IInv, TypeOK
  <2> QED BY <1>0, <2>1, <2>2, <2>3, <2>4, <2>5 DEF LeavesOthers, LeavesOwners, Holding
<1>5. CASE DispatchEmbedding(w)
  <2>1. At(w, "dispatchEmbedding") /\ Send(NextMessage(w, "embedding"))
        /\ UNCHANGED <<source, described, totals, assetStatus>>
    BY <1>5 DEF DispatchEmbedding, files, artifacts
  <2>2. run[w] \in Run /\ RunOfOwner(run[w]) /\ run[w].job.queue = "aiMetadata"
    BY <2>1, AtAsOwner DEF RunOfOwner
  <2>3. Goto(w, "record")
    BY <1>5, <2>2 DEF DispatchEmbedding
  <2>4. run[w].asset # NoAsset
    <3>1. run[w].job.asset # NoAsset
      BY <2>2 DEF RunOfOwner
    <3> QED BY <2>1, <3>1, AtAgrees DEF OInv, PInv, KnowsItsAsset
  <2>5. PICK m \in Message : /\ Send(m) /\ m.queue = "embedding"
                             /\ m.asset # NoAsset /\ Owns(m.file)
    <3>1. NextMessage(w, "embedding") \in Message
      BY <2>2, NextMessageType DEF Queues
    <3> QED BY <2>1, <2>2, <2>4, <3>1 DEF NextMessage, RunOfOwner, FileOf
  <2>6. MessageOfOwner(m)'
    BY <2>1, <2>5 DEF MessageOfOwner, Owns
  <2>7. \A n \in Message : queue'[n] > 0 => queue[n] > 0 \/ MessageOfOwner(n)'
    BY <2>5, <2>6, WaitingGrows DEF OInv, PInv
  <2> QED BY <1>0, <2>1, <2>3, <2>7, LeavesAsOwner DEF LeavesOwners
<1>6. CASE HasEmbeddingForHash(w) \/ GenerateEmbedding(w) \/ CreateEmbedding(w)
  <2>1. /\ UNCHANGED <<source, described, queue, totals, assetStatus>>
        /\ run[w].pc \in {"hasEmbedding", "embed", "createEmbedding"} /\ At(w, run[w].pc)
    BY <1>6 DEF HasEmbeddingForHash, GenerateEmbedding, CreateEmbedding, files, artifacts
  <2>2. run[w].job.queue = "embedding"
    BY <2>1, AtAsOwner DEF Prepared
  <2>3. Goto(w, "complete") \/ Goto(w, "embed") \/ Goto(w, "createEmbedding") \/ FailWith(w, FALSE)
    BY <1>6 DEF HasEmbeddingForHash, GenerateEmbedding, CreateEmbedding
  <2> QED BY <2>1, <2>2, <2>3, GoesOnAsOwner, FailsAsOwner
<1>7. CASE MarkCompleted(w)
  <2>1. At(w, "complete") /\ Goto(w, "record") /\ UNCHANGED <<source, described, queue>>
        /\ totals' = [totals EXCEPT ![FileOf(w)].successful = @ + 1]
        /\ assetStatus' = [assetStatus EXCEPT ![run[w].asset] = "COMPLETED"]
    BY <1>7 DEF MarkCompleted, artifacts
  <2>2. Holding(w) /\ FileOf(w) \in Files
    BY <2>1, AtAsOwner, HoldersAsset
  <2>3. /\ \A f \in Files : totals'[f].duplicate = totals[f].duplicate
        /\ \A f \in Files \ {FileOf(w)} : totals'[f].successful = totals[f].successful
        /\ totals'[FileOf(w)].successful = totals[FileOf(w)].successful + 1
    BY <2>1, <2>2 DEF OInv, PInv, IInv, TypeOK
  <2>4. /\ \A f \in Files : totals'[f].successful >= totals[f].successful
        /\ totals'[FileOf(w)].successful > 0
    BY <1>0, <2>2, <2>3
  <2>5. \A h \in Hashes : assetStatus'[h] = assetStatus[h]
                          \/ (h = run[w].asset /\ assetStatus'[h] = "COMPLETED")
    BY <2>1 DEF OInv, PInv, IInv, TypeOK
  <2> QED BY <2>1, <2>2, <2>3, <2>4, <2>5, LeavesAsOwner DEF LeavesOwners
<1> QED BY <1>1, <1>2, <1>3, <1>4, <1>5, <1>6, <1>7 DEF AiMetadata, Embedding

\* nor those of handleFailure that still have the file,
LEMMA FailureOwners ==
  ASSUME OInv, NEW w \in Workers, HandleFailure(w), ~ SetRetryPending(w)
  PROVE  LeavesOthers(w) /\ LeavesOwners(w)
<1> USE DEF At, Pcs, IngestionPcs, StagePcs, FailurePcs, LateAwaits, IngestionAwaits,
            CreatedAwaits, MetadataAwaits
<1>0. \A f \in Files : totals[f].successful \in Nat
  BY DEF OInv, PInv, IInv, TypeOK
<1>1. CASE ScheduleRetry(w)
  <2> DEFINE retry == [run[w].job EXCEPT !.asset = run[w].asset, !.attempt = @ + 1]
  <2>1. At(w, "reschedule") /\ Goto(w, "setRetry") /\ Send(retry)
        /\ UNCHANGED <<source, described, totals, assetStatus>>
    BY <1>1 DEF ScheduleRetry, files, artifacts
  <2>2. run[w] \in Run /\ RunOfOwner(run[w]) /\ KnowsItsAsset(run[w]) /\ Prepared(run[w])
    BY <2>1, AtAsOwner, AtAgrees DEF OInv, PInv
  <2>3. PICK m \in Message : /\ Send(m) /\ m.queue = run[w].job.queue
                             /\ m.file = FileOf(w) /\ m.asset = run[w].asset
    <3>1. run[w].job \in Message /\ run[w].asset \in MaybeAsset
      BY <2>2, RunFields
    <3>2. run[w].job.attempt + 1 \in 1..MaxAttempts
      BY <2>1, <2>2, RunFields, AttemptsAssumption DEF Prepared
    <3>3. retry \in Message
      BY <3>1, <3>2 DEF Message
    <3>4. retry.queue = run[w].job.queue /\ retry.file = FileOf(w) /\ retry.asset = run[w].asset
      BY <3>1 DEF Message, FileOf
    <3> HIDE DEF retry
    <3> QED BY <2>1, <3>3, <3>4
  <2>4. MessageOfOwner(m)
    BY <2>1, <2>2, <2>3 DEF RunOfOwner, MessageOfOwner, KnowsItsAsset, FileOf
  <2>5. MessageOfOwner(m)'
    BY <2>1, <2>4 DEF MessageOfOwner, Owns
  <2>6. \A n \in Message : queue'[n] > 0 => queue[n] > 0 \/ MessageOfOwner(n)'
    BY <2>3, <2>5, WaitingGrows DEF OInv, PInv
  <2> QED BY <1>0, <2>1, <2>6, LeavesAsOwner DEF LeavesOwners
<1>2. CASE MoveToDeadLetter(w) \/ SetDeadLetter(w)
  <2>1. UNCHANGED <<source, described, queue, totals>>
    BY <1>2 DEF MoveToDeadLetter, SetDeadLetter, files, artifacts
  <2>2. run[w].job.queue = "ingestion" => run[w].asset = NoAsset
    BY <1>2, AtAsOwner DEF MoveToDeadLetter, SetDeadLetter, RunOfOwner
  <2> QED BY <1>2, <2>1, GoesOnAsOwner DEF MoveToDeadLetter, SetDeadLetter, AssetState
<1>3. CASE CountFailed(w)
  <2>1. At(w, "countFailed") /\ Goto(w, "end") /\ UNCHANGED <<source, described, queue, assetStatus>>
        /\ totals' = [totals EXCEPT ![FileOf(w)].failed = @ + 1]
    BY <1>3 DEF CountFailed, files, artifacts
  <2>2. \A f \in Files : /\ totals'[f].duplicate = totals[f].duplicate
                         /\ totals'[f].successful = totals[f].successful
    BY <2>1 DEF OInv, PInv, IInv, TypeOK
  <2> QED BY <1>0, <2>1, <2>2, LeavesAsOwner DEF LeavesOwners
<1> QED BY <1>1, <1>2, <1>3 DEF HandleFailure

\* nor entering a stage or writing the status of a file that is still held.
LEMMA StageEntryOwners ==
  ASSUME OInv, NEW w \in Workers, RunStage(w) \/ (WriteFileStatus(w) /\ Holding(w))
  PROVE  LeavesOthers(w) /\ LeavesOwners(w)
<1>1. CASE RunStage(w)
  <2> DEFINE q == run[w].job.queue
             work == [ingestion |-> "download", s3Upload |-> "checkStored",
                      aiMetadata |-> "findMetadata", embedding |-> "hasEmbedding"]
  <2>1. run[w] \in Run /\ At(w, "enter") /\ UNCHANGED <<source, described, queue, totals>>
        /\ "enter" \in Pcs \ LateAwaits
    BY <1>1, AtAsOwner DEF RunStage, At, artifacts, Pcs, StagePcs, LateAwaits
  <2>2. q \in Queues \ {"s3Upload"}
    BY <2>1, AtAsOwner DEF At, RunOfOwner
  <2>3. EntryStage[q] \in AssetState \ {"COMPLETED"} /\ work[q] \in Pcs \ LateAwaits
        /\ work[q] \notin {"begin", "generate", "checkStored"} \cup CreatedAwaits
        /\ (work[q] \in IngestionAwaits => q = "ingestion")
        /\ (work[q] \in MetadataAwaits => q = "aiMetadata")
    BY <2>2 DEF Queues, EntryStage, AssetState, Pcs, IngestionPcs, StagePcs, LateAwaits,
       IngestionAwaits, CreatedAwaits, MetadataAwaits
  <2>4. UpdateStates(w, EntryStage[q], work[q])
    BY <1>1 DEF RunStage
  <2>5. "enter" \notin CreatedAwaits
    BY DEF CreatedAwaits
  <2> HIDE DEF work
  <2> QED BY <2>1, <2>2, <2>3, <2>4, <2>5, GoesOnAsOwner
<1>2. CASE WriteFileStatus(w) /\ Holding(w)
  <2>1. run[w] \in Run /\ RunOfOwner(run[w]) /\ run' = [run EXCEPT ![w].pend = "none"]
        /\ UNCHANGED <<source, described, queue, totals, assetStatus>>
    BY <1>2, HoldersAsset DEF WriteFileStatus, artifacts
  <2>2. /\ \A v \in Workers \ {w} : run'[v] = run[v]
        /\ run'[w].job = run[w].job /\ run'[w].pc = run[w].pc /\ run'[w].asset = run[w].asset
        /\ run'[w].guarded = run[w].guarded /\ run'[w] \in Run
    BY <2>1 DEF OInv, PInv, IInv, TypeOK, Run
  <2>3. Moves(w) /\ Active(w)' /\ Holding(w)'
    BY <1>2, <2>1, <2>2 DEF Moves, Active, Idle, Run, Holding
  <2>4. RunOfOwner(run[w])' /\ GeneratesOnce(w)'
    BY <1>2, <2>1, <2>2 DEF RunOfOwner, GeneratesOnce, Owns, OInv, GenerateOnce
  <2>5. \A f \in Files : totals[f].successful \in Nat
    BY DEF OInv, PInv, IInv, TypeOK
  <2> QED BY <1>2, <2>1, <2>3, <2>4, <2>5 DEF LeavesOthers, LeavesOwners
<1> QED BY <1>1, <1>2

---------------------------------------------------------------------------
\* A file that finds no asset of its content creates it and becomes its owner.
LEMMA CreateOwners ==
  ASSUME OInv, NEW w \in Workers, Creates(w)
  PROVE  /\ LeavesOthers(w) /\ UNCHANGED <<embedded, totals>>
         /\ FileOf(w) \in Files /\ ~ Exists(HashOf[FileOf(w)])
         /\ \A f \in Files : Owns(f)' <=> Owns(f) \/ f = FileOf(w)
         /\ \A f \in Files : source'[f] = IF f = FileOf(w) THEN HashOf[f] ELSE source[f]
         /\ OneOwner' /\ EveryAssetIsOwned' /\ CompletedIsCounted'
<1> USE DEF At, Pcs, IngestionPcs, StagePcs, FailurePcs, LateAwaits, IngestionAwaits,
            CreatedAwaits, MetadataAwaits
<1>1. /\ run[w].pc = "create" /\ run[w].pend = "none" /\ ~ Exists(HashOf[FileOf(w)])
      /\ assetStatus' = [assetStatus EXCEPT ![HashOf[FileOf(w)]] = "UPLOADING_TO_S3"]
      /\ source' = [source EXCEPT ![FileOf(w)] = HashOf[FileOf(w)]]
      /\ run' = [run EXCEPT ![w].pc = "upload", ![w].asset = HashOf[FileOf(w)]]
      /\ UNCHANGED <<described, embedded, totals, queue>>
  BY DEF Creates, CreateAsset, artifacts
<1>2. PICK f \in Files : f = FileOf(w)
  BY <1>1, AtAsOwner, HoldersAsset
<1>3. /\ Holding(w) /\ run[w] \in Run /\ RunOfOwner(run[w]) /\ HashOf[f] \in Hashes /\ HashOf[f] # NoAsset
      /\ totals[f].duplicate = 0 /\ run[w].job.queue = "ingestion"
      /\ run[w].job.file = f
  BY <1>1, <1>2, AtAsOwner, HoldersAsset, FilesAssumption DEF RunOfOwner, FileOf
<1>4. /\ \A g \in Files : source'[g] = IF g = f THEN HashOf[f] ELSE source[g]
      /\ \A h \in Hashes : assetStatus'[h] = IF h = HashOf[f] THEN "UPLOADING_TO_S3" ELSE assetStatus[h]
  BY <1>1, <1>2, <1>3 DEF OInv, PInv, IInv, TypeOK
<1>5. /\ run'[w] \in Run /\ run'[w].job = run[w].job /\ run'[w].pc = "upload"
      /\ run'[w].guarded = run[w].guarded /\ run'[w].asset = HashOf[f]
      /\ \A v \in Workers \ {w} : run'[v] = run[v]
  BY <1>1, <1>2, <1>3 DEF OInv, PInv, IInv, TypeOK, Run, MaybeAsset
<1>6. Moves(w) /\ Active(w)'
  BY <1>3, <1>5 DEF Moves, Active, Idle
<1>7. \A g \in Files : Owns(g)' <=> Owns(g) \/ g = f
  BY <1>1, <1>3, <1>4 DEF Owns
<1>8. RunOfOwner(run[w])' /\ GeneratesOnce(w)'
  BY <1>1, <1>3, <1>5, <1>7 DEF RunOfOwner, GeneratesOnce
<1>9. LeavesOthers(w)
  BY <1>1, <1>2, <1>3, <1>4, <1>5, <1>6, <1>8 DEF LeavesOthers, Holding
<1>10. \A g \in Files : Owns(g) => Exists(HashOf[g]) /\ HashOf[g] # HashOf[f]
  BY <1>1, <1>2 DEF OInv, PInv, IInv, LinksAgree, Owns
<1>11. OneOwner'
  BY <1>7, <1>10 DEF OInv, OneOwner
<1>12. EveryAssetIsOwned'
  BY <1>3, <1>4, <1>7 DEF OInv, EveryAssetIsOwned, Exists
<1>13. CompletedIsCounted'
  <2>1. \A g \in Files : HashOf[g] \in Hashes
    BY FilesAssumption
  <2> QED BY <1>1, <1>4, <1>7, <1>10, <2>1 DEF OInv, CompletedIsCounted
<1> QED BY <1>1, <1>2, <1>4, <1>7, <1>9, <1>11, <1>12, <1>13

\* A file that finds the asset of another is its duplicate and does not own it.
LEMMA AttachOwners ==
  ASSUME OInv, NEW w \in Workers, AttachToExistingAsset(w)
  PROVE  /\ LeavesOthers(w) /\ UNCHANGED embedded
         /\ FileOf(w) \in Files /\ ~ Owns(FileOf(w)) /\ Exists(HashOf[FileOf(w)])
         /\ \A f \in Files : Owns(f)' <=> Owns(f)
         /\ \A f \in Files \ {FileOf(w)} : source'[f] = source[f]
         /\ OneOwner' /\ EveryAssetIsOwned' /\ CompletedIsCounted'
<1> USE DEF At, Pcs, IngestionPcs, StagePcs, FailurePcs, LateAwaits, IngestionAwaits,
            CreatedAwaits, MetadataAwaits
<1>1. /\ run[w].pc = "attach" /\ run[w].pend = "none"
      /\ source' = [source EXCEPT ![FileOf(w)] = IF @ = NoAsset THEN HashOf[FileOf(w)] ELSE @]
      /\ totals' = [totals EXCEPT ![FileOf(w)].successful = @ + 1, ![FileOf(w)].duplicate = @ + 1]
      /\ run' = [run EXCEPT ![w].pc = "record", ![w].asset = HashOf[FileOf(w)]]
      /\ UNCHANGED <<described, embedded, assetStatus, queue>>
  BY DEF AttachToExistingAsset, artifacts
<1>2. PICK f \in Files : f = FileOf(w)
  BY <1>1, AtAsOwner, HoldersAsset
<1>3. /\ Holding(w) /\ run[w] \in Run /\ RunOfOwner(run[w]) /\ HashOf[f] \in Hashes
      /\ totals[f].duplicate = 0 /\ run[w].asset = NoAsset /\ source[f] = NoAsset
      /\ Exists(HashOf[f])
  BY <1>1, <1>2, AtAsOwner, HoldersAsset, FilesAssumption DEF RunOfOwner, FileOf, Prepared
<1>4. /\ \A g \in Files \ {f} : source'[g] = source[g] /\ totals'[g] = totals[g]
      /\ totals'[f].duplicate = 1
      /\ \A g \in Files : totals'[g].successful >= totals[g].successful
  <2>1. \A g \in Files : totals[g].successful \in Nat
    BY DEF OInv, PInv, IInv, TypeOK
  <2>2. totals'[f].successful = totals[f].successful + 1
    BY <1>1, <1>2 DEF OInv, PInv, IInv, TypeOK
  <2>3. /\ \A g \in Files \ {f} : source'[g] = source[g] /\ totals'[g] = totals[g]
        /\ totals'[f].duplicate = 1
    BY <1>1, <1>2, <1>3 DEF OInv, PInv, IInv, TypeOK
  <2> QED BY <2>1, <2>2, <2>3
<1>5. /\ run'[w] \in Run /\ run'[w].job = run[w].job /\ run'[w].pc = "record" /\ run'[w].pend = "none"
      /\ \A v \in Workers \ {w} : run'[v] = run[v]
  BY <1>1, <1>2, <1>3 DEF OInv, PInv, IInv, TypeOK, Run, MaybeAsset
<1>6. Moves(w) /\ ~ Holding(w)'
  BY <1>3, <1>5 DEF Moves, Holding
<1>7. ~ Owns(f) /\ \A g \in Files : Owns(g)' <=> Owns(g)
  BY <1>3, <1>4 DEF Owns
<1>9. LeavesOthers(w)
  BY <1>1, <1>2, <1>3, <1>4, <1>5, <1>6 DEF LeavesOthers, LateMark
<1>11. OneOwner' /\ EveryAssetIsOwned'
  BY <1>1, <1>7 DEF OInv, OneOwner, EveryAssetIsOwned, Exists
<1>13. CompletedIsCounted'
  BY <1>1, <1>4, <1>7 DEF OInv, CompletedIsCounted, Owns
<1> QED BY <1>1, <1>2, <1>3, <1>4, <1>7, <1>9, <1>11, <1>13

---------------------------------------------------------------------------
\* What every step preserves of the owners.
OwnersGoal ==
  /\ OneOwner' /\ EveryAssetIsOwned' /\ CompletedIsCounted'
  /\ MessagesOfOwners' /\ RunsOfOwners' /\ GenerateOnce' /\ LateMarks'

\* The import of a file that is never delivered twice, in which nothing fails
\* that would make a file the duplicate of the asset it created itself.
ImportedOnce == DeliveredOnce /\ "upload" \notin FaultPoints

\* A worker that takes a message takes over what the message knows.
LEMMA TakeOwners ==
  ASSUME OInv, NEW w \in Workers, NEW m \in Message, ProcessPipelineJob(w, m)
  PROVE  OwnersGoal
<1>1. /\ run[w] = Idle /\ queue[m] > 0 /\ UNCHANGED <<source, described, totals, assetStatus>>
      /\ queue' = [queue EXCEPT ![m] = @ - 1]
      /\ \A v \in Workers \ {w} : run'[v] = run[v]
      /\ run'[w].pc = IF m.queue = "ingestion" THEN "begin" ELSE "enter"
      /\ run'[w].job = m /\ run'[w].asset = m.asset /\ (run'[w].guarded <=> m.queue # "ingestion")
      /\ run'[w] # Idle
  BY DEF ProcessPipelineJob, OInv, PInv, IInv, TypeOK, files, artifacts, Idle
<1>2. Holding(w)' /\ MessageOfOwner(m)
  BY <1>1 DEF Holding, Active, LateAwaits, OInv, MessagesOfOwners
<1>3. RunOfOwner(run[w])' /\ GeneratesOnce(w)'
  BY <1>1, <1>2 DEF RunOfOwner, MessageOfOwner, Owns, GeneratesOnce, IngestionAwaits, CreatedAwaits,
     MetadataAwaits
<1>4. MessagesOfOwners'
  <2>1. \A n \in Message : queue'[n] > 0 => queue[n] > 0
    BY <1>1 DEF OInv, PInv, IInv, TypeOK
  <2> QED BY <1>1, <2>1 DEF OInv, MessagesOfOwners, MessageOfOwner, Owns
<1>5. ASSUME NEW v \in Workers \ {w}
      PROVE  /\ Holding(v)' => RunOfOwner(run[v])' /\ GeneratesOnce(v)'
             /\ Active(v)' /\ ~ Holding(v)' => LateMark(v)'
  BY <1>1 DEF OInv, RunsOfOwners, RunOfOwner, Owns, GenerateOnce, GeneratesOnce, LateMarks, LateMark,
     Holding, Active
<1>6. RunsOfOwners' /\ GenerateOnce' /\ LateMarks'
  BY <1>2, <1>3, <1>5 DEF RunsOfOwners, GenerateOnce, LateMarks
<1>7. OneOwner' /\ EveryAssetIsOwned' /\ CompletedIsCounted'
  BY <1>1 DEF OInv, OneOwner, EveryAssetIsOwned, CompletedIsCounted, Owns, Exists
<1> QED BY <1>4, <1>6, <1>7 DEF OwnersGoal

\* A handler that has passed on its file touches no ownership any more.
LEMMA LateOwners ==
  ASSUME OInv, NEW w \in Workers, run[w] \in Run, ~ Holding(w),
         WriteFileStatus(w) \/ Finish(w) \/ SetRetryPending(w)
  PROVE  OwnersGoal /\ (assetStatus' = assetStatus \/ SetRetryPending(w))
<1> USE DEF At, Pcs, IngestionPcs, StagePcs, FailurePcs, LateAwaits
<1>1. UNCHANGED <<source, described, totals, queue>>
  BY DEF WriteFileStatus, Finish, SetRetryPending, files, artifacts
<1>2. /\ \A v \in Workers \ {w} : run'[v] = run[v]
      /\ ~ Holding(w)' /\ (Active(w)' => LateMark(w)')
  <2>1. LateMark(w) /\ run[w].pc \in LateAwaits
    BY DEF OInv, LateMarks, Active, Idle, Run, Holding
  <2>2. CASE WriteFileStatus(w)
    BY <2>1, <2>2 DEF WriteFileStatus, OInv, PInv, IInv, TypeOK, LateMark, Holding, Run
  <2>3. CASE Finish(w)
    BY <2>3 DEF Finish, OInv, PInv, IInv, TypeOK, Holding, Active
  <2>4. CASE SetRetryPending(w)
    <3>1. /\ Moves(w) /\ run'[w].pc = "end" /\ run'[w].pend \in {run[w].pend, "RETRY_PENDING"}
      BY <2>4, Going, UpdateStatesFields DEF SetRetryPending, OInv, PInv, IInv, AssetState
    <3> QED BY <2>1, <3>1 DEF Moves, Holding, LateMark
  <2> QED BY <2>2, <2>3, <2>4
<1>3. MessagesOfOwners'
  BY <1>1 DEF OInv, MessagesOfOwners, MessageOfOwner, Owns
<1>4. ASSUME NEW v \in Workers \ {w}
      PROVE  /\ Holding(v)' => RunOfOwner(run[v])' /\ GeneratesOnce(v)'
             /\ Active(v)' /\ ~ Holding(v)' => LateMark(v)'
  BY <1>1, <1>2 DEF OInv, RunsOfOwners, RunOfOwner, Owns, GenerateOnce, GeneratesOnce, LateMarks, LateMark,
     Holding, Active
<1>5. RunsOfOwners' /\ GenerateOnce' /\ LateMarks'
  BY <1>2, <1>4 DEF RunsOfOwners, GenerateOnce, LateMarks
<1>6. \A h \in Hashes : assetStatus'[h] = assetStatus[h] \/ assetStatus'[h] = "RETRY_PENDING"
  BY DEF WriteFileStatus, Finish, SetRetryPending, UpdateStates, OInv, PInv, IInv, TypeOK
<1>7. \A h \in Hashes : Exists(h)' => Exists(h)
  <2>1. ASSUME NEW h \in Hashes, assetStatus'[h] # assetStatus[h]
        PROVE  Exists(h)
    <3>1. SetRetryPending(w) /\ h = run[w].asset /\ h # NoAsset
      BY <2>1, FilesAssumption DEF WriteFileStatus, Finish, SetRetryPending, UpdateStates, OInv, PInv, IInv, TypeOK
    <3>2. h = fileAsset[FileOf(w)] /\ FileOf(w) \in Files
      BY <3>1, RunFields DEF OInv, PInv, IInv, HandlersAgree, KnowsItsAsset, Active, Idle, Run, FileOf
    <3> QED BY <3>1, <3>2 DEF OInv, PInv, IInv, LinksAgree
  <2> QED BY <2>1 DEF Exists
<1>8. OneOwner' /\ EveryAssetIsOwned' /\ CompletedIsCounted'
  <2>1. \A f \in Files : HashOf[f] \in Hashes
    BY FilesAssumption
  <2> QED BY <1>1, <1>6, <1>7, <2>1 DEF OInv, OneOwner, EveryAssetIsOwned, CompletedIsCounted, Owns
<1> QED BY <1>3, <1>5, <1>8 DEF OwnersGoal, WriteFileStatus, Finish

\* The steps of a worker.
LEMMA WorkOwners ==
  ASSUME OInv, IInv', NEW w \in Workers, Work(w)
  PROVE  OwnersGoal
<1>0. IInv
  BY DEF OInv, PInv
<1>1. ASSUME LeavesOthers(w), LeavesOwners(w)
      PROVE  OwnersGoal
  BY <1>1, OthersLeft, OwnersLeft DEF OwnersGoal, LeavesOthers
<1>2. CASE \E m \in Message : ProcessPipelineJob(w, m)
  BY <1>2, TakeOwners
<1>3. CASE RunStage(w)
  BY <1>1, <1>3, StageEntryOwners
<1>4. CASE WriteFileStatus(w)
  <2>1. run[w] \in Run
    BY <1>0, <1>4, ActiveRuns DEF WriteFileStatus, IInv
  <2> QED BY <1>1, <1>4, <2>1, StageEntryOwners, LateOwners
<1>5. CASE Finish(w) \/ SetRetryPending(w)
  <2>1. run[w] \in Run /\ ~ Holding(w)
    BY <1>0, <1>5, AtRuns DEF Finish, SetRetryPending, At, IInv, Holding, LateAwaits,
       Pcs, StagePcs, FailurePcs
  <2> QED BY <1>5, <2>1, LateOwners
<1>6. CASE Ingest(w)
  <2>1. CASE Creates(w)
    BY <2>1, CreateOwners, OthersLeft DEF OwnersGoal
  <2>2. CASE AttachToExistingAsset(w)
    BY <2>2, AttachOwners, OthersLeft DEF OwnersGoal
  <2>3. CASE ~ Creates(w) /\ ~ AttachToExistingAsset(w)
    BY <1>1, <1>6, <2>3, IngestOwners
  <2> QED BY <2>1, <2>2, <2>3
<1>7. CASE S3Upload(w) \/ AiMetadata(w) \/ Embedding(w)
  BY <1>1, <1>7, StagesOwners
<1>8. CASE HandleFailure(w)
  BY <1>1, <1>5, <1>8, FailureOwners
<1> QED BY <1>2, <1>3, <1>4, <1>5, <1>6, <1>7, <1>8 DEF Work

\* Every step keeps what is known of the owners.
LEMMA OwnersStep ==
  ASSUME ImportedOnce, OInv, [Next]_vars
  PROVE  OInv'
<1>0. IInv /\ OnceOnly /\ GuardsAgree
  BY DEF OInv, PInv
<1>1. PInv' /\ RInv' /\ IInv'
  BY StepPInv, RecordStep DEF OInv, ImportedOnce, PInv
<1>2. CASE \E w \in Workers : Work(w)
  <2>1. OwnersGoal
    BY <1>1, <1>2, WorkOwners
  <2>2. UNCHANGED replay
    <3> PICK w \in Workers : Work(w)
      BY <1>2
    <3>1. CASE Ingest(w)
      BY <3>1 DEF Ingest, BeginIngestion, DownloadFile, ValidateImage, FindDuplicate,
         AttachToExistingAsset, EnterUpload, CreateAsset, UploadFile, MarkStored, DispatchAiMetadata
    <3>2. CASE S3Upload(w) \/ AiMetadata(w) \/ Embedding(w)
      BY <3>2 DEF S3Upload, CheckStored, SetGenerated, AiMetadata, FindMetadata, GenerateMetadata,
         MarkGenerated, DispatchEmbedding, Embedding, HasEmbeddingForHash, GenerateEmbedding,
         CreateEmbedding, MarkCompleted
    <3>3. CASE HandleFailure(w)
      BY <3>3 DEF HandleFailure, ScheduleRetry, SetRetryPending, MoveToDeadLetter, SetDeadLetter,
         CountFailed
    <3> QED
      BY <3>1, <3>2, <3>3 DEF Work, ProcessPipelineJob, RunStage, WriteFileStatus, Finish
  <2> QED BY <1>1, <2>1, <2>2 DEF OInv, OwnersGoal
<1>3. ASSUME NEW w \in Workers, Fault(w)
      PROVE  OInv'
  <2>1. /\ run[w].pc \in RetriedAwaits \ {"upload"}
        /\ UNCHANGED <<source, described, queue, totals, assetStatus, replay>>
    BY <1>3 DEF Fault, ImportedOnce, DeliveredOnce, files, artifacts
  <2>2. /\ run[w].pc \in Pcs \ (LateAwaits \cup FailurePcs)
        /\ run[w].pc \notin ResumeAwaits /\ run[w].pc \notin CreatedAwaits \cup {"begin"}
    BY <2>1 DEF RetriedAwaits, Pcs, IngestionPcs, StagePcs, FailurePcs, LateAwaits, ResumeAwaits, CreatedAwaits
  <2>3. run[w].guarded
    BY <1>0, <2>2, PcActive DEF GuardsAgree, Unguarded
  <2>4. PICK retryable \in BOOLEAN : FailWith(w, retryable)
    BY <1>3, <2>2, <2>3, EnvironmentAssumption DEF Fault
  <2>5. LeavesOthers(w) /\ LeavesOwners(w)
    BY <2>1, <2>2, <2>4, FailsAsOwner
  <2> QED BY <1>0, <1>1, <2>1, <2>5, OthersLeft, OwnersLeft DEF OInv, LeavesOthers
<1>4. ASSUME NEW w \in Workers
      PROVE  ~ Crash(w)
  BY <1>0 DEF Crash, OnceOnly
<1>5. ~ Replay
  BY <1>0 DEF Replay, ReplayFromDlq, ReplaySetAsset, ReplaySetFile, OnceOnly, OInv, NoReplay
<1>6. CASE UNCHANGED vars
  <2>1. UNCHANGED <<source, described, queue, totals, assetStatus, replay, run>>
    BY <1>6 DEF vars
  <2> QED BY <1>1, <2>1 DEF OInv, OneOwner, EveryAssetIsOwned, CompletedIsCounted, Owns, Exists,
          MessagesOfOwners, MessageOfOwner, RunsOfOwners, RunOfOwner, GenerateOnce, GeneratesOnce,
          LateMarks, LateMark, Holding, Active
<1> QED BY <1>2, <1>3, <1>4, <1>5, <1>6 DEF Next

\* Nobody owns anything at the start, and every message is new.
LEMMA InitOwners ==
  ASSUME ImportedOnce, Init
  PROVE  OInv
<1>1. PInv
  BY InitPInv DEF ImportedOnce
<1>2. RInv
  BY InitRecord
<1>3. /\ OneOwner /\ EveryAssetIsOwned /\ CompletedIsCounted /\ RunsOfOwners /\ GenerateOnce
      /\ LateMarks /\ replay = NoReplay
  BY DEF Init, OneOwner, EveryAssetIsOwned, CompletedIsCounted, Owns, Exists, RunsOfOwners,
     GenerateOnce, LateMarks, Holding, Active
<1>4. MessagesOfOwners
  BY DEF Init, MessagesOfOwners, MessageOfOwner, Discovered, Message
<1> QED BY <1>1, <1>2, <1>3, <1>4 DEF OInv

---------------------------------------------------------------------------
(* Nothing is redone. *)

\* A handler writes the status of no file but its own.
LEMMA OneFileWritten ==
  ASSUME IInv, NEW w \in Workers, Work(w), NEW f \in Files, f # FileOf(w)
  PROVE  fileStatus'[f] = fileStatus[f]
<1>1. fileStatus \in [Files -> AssetState]
  BY DEF IInv, TypeOK
<1>2. ASSUME NEW state, NEW next, UpdateStates(w, state, next)
      PROVE  fileStatus'[f] = fileStatus[f]
  BY <1>1, <1>2 DEF UpdateStates
<1>3. CASE Ingest(w)
  BY <1>1, <1>2, <1>3 DEF Ingest, BeginIngestion, DownloadFile, ValidateImage, FindDuplicate,
     AttachToExistingAsset, EnterUpload, CreateAsset, UploadFile, MarkStored, DispatchAiMetadata, files
<1>4. CASE S3Upload(w) \/ AiMetadata(w) \/ Embedding(w)
  BY <1>1, <1>2, <1>4 DEF S3Upload, CheckStored, SetGenerated, AiMetadata, FindMetadata,
     GenerateMetadata, MarkGenerated, DispatchEmbedding, Embedding, HasEmbeddingForHash,
     GenerateEmbedding, CreateEmbedding, MarkCompleted, files
<1>5. CASE HandleFailure(w)
  BY <1>1, <1>2, <1>5 DEF HandleFailure, ScheduleRetry, SetRetryPending, MoveToDeadLetter,
     SetDeadLetter, CountFailed, files
<1>6. CASE RunStage(w)
  BY <1>2, <1>6 DEF RunStage
<1> QED
  BY <1>1, <1>3, <1>4, <1>5, <1>6 DEF Work, ProcessPipelineJob, WriteFileStatus, Finish, files

\* The steps that leave what is COMPLETED alone, or write the mark of a retry.
KeepsOrMarks == KeepsTheCompleted \/ \E w \in Workers : MarksRetry(w)

\* A handler that holds its file finds neither it nor its asset COMPLETED.
LEMMA HolderKeepsCompleted ==
  ASSUME OInv, NEW w \in Workers, Holding(w), Work(w), LeavesOwners(w) \/ Creates(w) \/ AttachToExistingAsset(w)
  PROVE  KeepsTheCompleted
<1>1. \A f \in Files : fileStatus[f] = "COMPLETED" => f # FileOf(w)
  BY HoldersAsset DEF OInv, RInv, OutcomesAreRecorded
<1>2. \A f \in Files : fileStatus[f] = "COMPLETED" => fileStatus'[f] = "COMPLETED"
  BY <1>1, OneFileWritten DEF OInv, PInv
<1>3. ASSUME NEW h \in Hashes, assetStatus[h] = "COMPLETED"
      PROVE  assetStatus'[h] = "COMPLETED"
  <2>1. h # NoAsset /\ Exists(h)
    BY <1>3, FilesAssumption DEF Exists
  <2>2. CASE LeavesOwners(w)
    <3>1. h # run[w].asset
      BY <1>3, <2>1, HoldersAsset DEF OInv, CompletedIsCounted
    <3> QED BY <1>3, <2>2, <3>1 DEF LeavesOwners
  <2>3. CASE Creates(w)
    BY <1>3, <2>1, <2>3 DEF Creates, CreateAsset, OInv, PInv, IInv, TypeOK
  <2>4. CASE AttachToExistingAsset(w)
    BY <1>3, <2>4 DEF AttachToExistingAsset
  <2> QED BY <2>2, <2>3, <2>4
<1> QED BY <1>2, <1>3 DEF KeepsTheCompleted

\* A handler writes on its own file, which is not counted yet, so what is
\* completed stays completed.
LEMMA WorkKeepsCompleted ==
  ASSUME OInv, NEW w \in Workers, Work(w)
  PROVE  KeepsOrMarks
<1>0. IInv
  BY DEF OInv, PInv
<1>1. ASSUME Holding(w), LeavesOwners(w) \/ Creates(w) \/ AttachToExistingAsset(w)
      PROVE  KeepsOrMarks
  BY <1>1, HolderKeepsCompleted DEF KeepsOrMarks
<1>2. CASE (\E m \in Message : ProcessPipelineJob(w, m)) \/ Finish(w)
  BY <1>2 DEF ProcessPipelineJob, Finish, files, KeepsOrMarks, KeepsTheCompleted
<1>3. CASE RunStage(w)
  BY <1>1, <1>3, StageEntryOwners DEF LeavesOthers
<1>4. CASE WriteFileStatus(w)
  <2>1. CASE Holding(w)
    BY <1>1, <1>4, <2>1, StageEntryOwners
  <2>2. CASE ~ Holding(w)
    <3>1. run[w].pend = "RETRY_PENDING"
      BY <1>4, <2>2 DEF WriteFileStatus, OInv, LateMarks, LateMark, Active
    <3> QED BY <1>4, <3>1 DEF KeepsOrMarks, MarksRetry, WriteFileStatus
  <2> QED BY <2>1, <2>2
<1>5. CASE SetRetryPending(w)
  BY <1>5 DEF KeepsOrMarks, MarksRetry
<1>6. CASE Ingest(w)
  BY <1>1, <1>6, CreateOwners, AttachOwners, IngestOwners DEF LeavesOthers
<1>7. CASE S3Upload(w) \/ AiMetadata(w) \/ Embedding(w)
  BY <1>1, <1>7, StagesOwners DEF LeavesOthers
<1>8. CASE HandleFailure(w)
  BY <1>1, <1>5, <1>8, FailureOwners DEF LeavesOthers
<1> QED BY <1>2, <1>3, <1>4, <1>5, <1>6, <1>7, <1>8 DEF Work

\* The model is only asked about an image of which nothing is known, and no
\* file and no asset that is COMPLETED is taken back, but for the mark of a
\* retry.
LEMMA NothingRedoneStep ==
  ASSUME ImportedOnce, OInv, [Next]_vars
  PROVE  [DescribesTheUnknown /\ (KeepsTheCompleted \/ \E w \in Workers : MarksRetry(w))]_vars
<1>1. DescribesTheUnknown
  <2> SUFFICES ASSUME NEW w \in Workers, GenerateMetadata(w)
               PROVE  run[w].asset \notin described
    BY DEF DescribesTheUnknown
  <2>1. run[w].pc = "generate" /\ Holding(w)
    BY AtAsOwner DEF GenerateMetadata, At, Pcs, StagePcs, LateAwaits
  <2> QED BY <2>1 DEF OInv, GenerateOnce, GeneratesOnce
<1>2. CASE \E w \in Workers : Work(w)
  BY <1>1, <1>2, WorkKeepsCompleted DEF KeepsOrMarks
<1>3. CASE \E w \in Workers : Fault(w)
  BY <1>1, <1>3 DEF Fault, files, KeepsTheCompleted
<1>4. ~ Replay /\ \A w \in Workers : ~ Crash(w)
  BY DEF OInv, PInv, OnceOnly, Crash, Replay, ReplayFromDlq, ReplaySetAsset, ReplaySetFile, NoReplay
<1> QED BY <1>1, <1>2, <1>3, <1>4 DEF Next

\* Files with the same content share one asset: in an import in which nothing is
\* delivered twice none of them has the model describe it again, and none takes
\* back what another has completed.
THEOREM NothingRedone ==
  ASSUME ImportedOnce
  PROVE  Spec => NothingIsRedone
<1>1. Init => OInv
  BY InitOwners
<1>2. OInv /\ [Next]_vars => OInv'
  BY OwnersStep
<1>3. OInv /\ [Next]_vars => [DescribesTheUnknown /\ (KeepsTheCompleted \/ \E w \in Workers : MarksRetry(w))]_vars
  BY NothingRedoneStep
<1> QED BY <1>1, <1>2, <1>3, PTL DEF Spec, NothingIsRedone

---------------------------------------------------------------------------
(* The pipeline implements the ledger. *)

\* The owner of an asset in the ledger is the file that owns it here.
LEMMA CreatorOwns ==
  ASSUME IInv, OneOwner, NEW h \in Hashes
  PROVE  /\ \A f \in Files : Owns(f) /\ HashOf[f] = h => Creator(h) = f
         /\ (\A f \in Files : ~ (Owns(f) /\ HashOf[f] = h)) => Creator(h) = NoFile
<1>1. \A f \in Files : source[f] = h /\ totals[f].duplicate = 0 <=> Owns(f) /\ HashOf[f] = h
  BY FilesAssumption DEF IInv, LinksAgree, Owns
<1> DEFINE S == Creators(h)
<1>2. S = {f \in Files : Owns(f) /\ HashOf[f] = h}
  BY <1>1 DEF Creators
<1>3. Creator(h) = IF S = {} THEN NoFile ELSE CHOOSE f \in S : TRUE
  BY DEF Creator, TheFileOf
<1>4. ASSUME NEW f \in Files, Owns(f), HashOf[f] = h
      PROVE  S = {f}
  BY <1>2, <1>4 DEF OneOwner
<1>5. ASSUME NEW f \in Files, S = {f}
      PROVE  Creator(h) = f
  BY <1>3, <1>5
<1> QED
  <2>1. ASSUME \A f \in Files : ~ (Owns(f) /\ HashOf[f] = h)
        PROVE  Creator(h) = NoFile
    BY <1>2, <1>3, <2>1
  <2> QED BY <1>4, <1>5, <2>1

\* What the ledger sees of the pipeline.
Owners == [h \in Hashes |-> Creator(h)]
LedgerVars == <<Owners, embedded, totals>>

\* It sees no step that leaves owners, embeddings and totals alone.
LEMMA OwnersStay ==
  ASSUME \A f \in Files : source'[f] = source[f] /\ totals'[f].duplicate = totals[f].duplicate
  PROVE  UNCHANGED Owners
<1>1. \A h \in Hashes : Creators(h)' = Creators(h)
  BY DEF Creators
<1> QED BY <1>1 DEF Owners, Creator

\* A file in the hands of a handler is pending in the ledger.
LEMMA HeldIsPending ==
  ASSUME OInv, NEW w \in Workers, Holding(w)
  PROVE  Ledger!Pending(FileOf(w))
<1> DEFINE t == totals[FileOf(w)]
<1>1. t \in [successful : Nat, duplicate : Nat, failed : Nat]
  BY HoldersAsset DEF OInv, PInv, IInv, TypeOK
<1>2. t.successful = 0 /\ t.duplicate = 0 /\ t.successful + t.failed = 0
  BY HoldersAsset DEF Counted
<1>3. t.failed = 0
  BY <1>1, <1>2
<1>4. t = [successful |-> 0, duplicate |-> 0, failed |-> 0]
  BY <1>1, <1>2, <1>3
<1> QED BY <1>4 DEF Ledger!Pending, Ledger!Zero

\* The steps of a worker, as the ledger sees them.
LEMMA CreateClaims ==
  ASSUME OInv, NEW w \in Workers, Creates(w)
  PROVE  Ledger!Claim(FileOf(w))
<1>1. Holding(w)
  BY CreateOwners DEF LeavesOthers
<1>2. PICK f \in Files : f = FileOf(w) /\ ~ Exists(HashOf[f])
  BY CreateOwners
<1>3. HashOf[f] \in Hashes
  BY FilesAssumption
<1>4. \A g \in Files : source[g] # HashOf[f]
  BY <1>2, <1>3, FilesAssumption DEF OInv, PInv, IInv, LinksAgree
<1>5. Creator(HashOf[f]) = NoFile
  BY <1>4 DEF Creator, Creators, TheFileOf
<1>6. /\ \A g \in Files : source'[g] = IF g = f THEN HashOf[f] ELSE source[g]
      /\ UNCHANGED <<embedded, totals>> /\ totals[f].duplicate = 0
  BY <1>1, <1>2, CreateOwners, HoldersAsset
<1>7. Creator(HashOf[f])' = f
  <2>1. Creators(HashOf[f])' = {f}
    BY <1>4, <1>6 DEF Creators
  <2> QED BY <2>1 DEF Creator, TheFileOf
<1>8. source[f] = NoAsset
  BY <1>2, FilesAssumption DEF OInv, PInv, IInv, LinksAgree
<1>9. \A h \in Hashes \ {HashOf[f]} : Creator(h)' = Creator(h)
  <2>1. \A h \in Hashes \ {HashOf[f]} : Creators(h)' = Creators(h)
    BY <1>6, <1>8, FilesAssumption DEF Creators
  <2> QED BY <2>1 DEF Creator
<1>10. Owners' = [Owners EXCEPT ![HashOf[f]] = f]
  BY <1>7, <1>9 DEF Owners
<1> QED BY <1>1, <1>2, <1>3, <1>5, <1>6, <1>10, HeldIsPending DEF Ledger!Claim, Ledger!Owner, Owners

\* An attached duplicate becomes a file with another owner.
LEMMA AttachLinks ==
  ASSUME OInv, NEW w \in Workers, AttachToExistingAsset(w)
  PROVE  Ledger!LinkDuplicate(FileOf(w))
<1>1. Holding(w)
  BY AttachOwners DEF LeavesOthers
<1>2. PICK f \in Files : f = FileOf(w) /\ Exists(HashOf[f]) /\ ~ Owns(f)
  BY AttachOwners
<1>3. HashOf[f] \in Hashes
  BY FilesAssumption
<1>4. Creator(HashOf[f]) \notin {NoFile, f}
  <2>1. PICK g \in Files : Owns(g) /\ HashOf[g] = HashOf[f]
    BY <1>2, <1>3 DEF OInv, EveryAssetIsOwned
  <2>2. Creator(HashOf[f]) = g
    BY <1>3, <2>1, CreatorOwns DEF OInv, PInv
  <2> QED BY <1>2, <2>1, <2>2, NoFileAssumption
<1>5. totals' = [totals EXCEPT ![f].successful = 1, ![f].duplicate = 1]
  <2>1. totals' = [totals EXCEPT ![f].successful = @ + 1, ![f].duplicate = @ + 1]
    BY <1>2 DEF AttachToExistingAsset
  <2>2. totals[f].successful = 0 /\ totals[f].duplicate = 0
    BY <1>1, <1>2, HoldersAsset
  <2> QED BY <2>1, <2>2 DEF OInv, PInv, IInv, TypeOK
<1>6. UNCHANGED <<Owners, embedded>>
  <2>1. \A h \in Hashes : \A g \in Files :
           (source'[g] = h /\ totals'[g].duplicate = 0) <=> (source[g] = h /\ totals[g].duplicate = 0)
    BY <1>2, AttachOwners, FilesAssumption DEF Owns, LeavesOthers, OInv, PInv, IInv, TypeOK
  <2>2. \A h \in Hashes : Creators(h)' = Creators(h)
    BY <2>1 DEF Creators
  <2>3. \A h \in Hashes : Creator(h)' = Creator(h)
    BY <2>2 DEF Creator
  <2> QED BY <2>3, AttachOwners DEF Owners
<1> QED BY <1>1, <1>2, <1>3, <1>4, <1>5, <1>6, HeldIsPending DEF Ledger!LinkDuplicate, Ledger!Owner, Owners

\* The other steps leave the owners alone; three of them are steps of the ledger.
LEMMA EmbeddingPrepares ==
  ASSUME OInv, NEW w \in Workers, CreateEmbedding(w)
  PROVE  Ledger!Prepare(FileOf(w)) \/ UNCHANGED LedgerVars
<1>1. Holding(w) /\ Prepared(run[w]) /\ run[w].job.queue = "embedding" /\ RunOfOwner(run[w])
      /\ KnowsItsAsset(run[w])
  BY AtAsOwner, AtAgrees DEF CreateEmbedding, At, Pcs, StagePcs, LateAwaits, Prepared, OInv, PInv
<1>2. run[w].asset # NoAsset
  BY <1>1 DEF KnowsItsAsset, RunOfOwner
<1>3. PICK f \in Files : f = FileOf(w) /\ Owns(f) /\ run[w].asset = HashOf[f]
  BY <1>1, <1>2, HoldersAsset
<1>4. UNCHANGED <<Owners, totals>>
  BY OwnersStay DEF CreateEmbedding, files
<1>5. HashOf[f] \in Hashes /\ Creator(HashOf[f]) = f
  BY <1>3, CreatorOwns, FilesAssumption DEF OInv, PInv
<1>6. embedded' = embedded \cup {HashOf[f]} \/ embedded' = embedded
  BY <1>3 DEF CreateEmbedding
<1> QED BY <1>1, <1>3, <1>4, <1>5, <1>6, HeldIsPending DEF Ledger!Prepare, Ledger!Owner, Owners, LedgerVars

\* Completing the file of the owner is a success of the ledger,
LEMMA CompletionSucceeds ==
  ASSUME OInv, NEW w \in Workers, MarkCompleted(w)
  PROVE  Ledger!Succeed(FileOf(w))
<1>1. Holding(w) /\ Prepared(run[w]) /\ run[w].pc = "complete" /\ RunOfOwner(run[w])
      /\ KnowsItsAsset(run[w])
  BY AtAsOwner, AtAgrees DEF MarkCompleted, At, Pcs, StagePcs, LateAwaits, Prepared, OInv, PInv
<1>2. run[w].asset # NoAsset /\ run[w].asset \in embedded
  BY <1>1 DEF KnowsItsAsset, RunOfOwner, Prepared
<1>3. PICK f \in Files : f = FileOf(w) /\ Owns(f) /\ run[w].asset = HashOf[f]
  BY <1>1, <1>2, HoldersAsset
<1>4. totals' = [totals EXCEPT ![f].successful = 1] /\ UNCHANGED <<source, embedded>>
  <2>1. totals[f].successful = 0
    BY <1>1, <1>3, HoldersAsset
  <2> QED BY <1>3, <2>1 DEF MarkCompleted, OInv, PInv, IInv, TypeOK, artifacts
<1>5. UNCHANGED Owners
  BY <1>4, OwnersStay DEF OInv, PInv, IInv, TypeOK
<1>6. HashOf[f] \in Hashes /\ Creator(HashOf[f]) = f
  BY <1>3, CreatorOwns, FilesAssumption DEF OInv, PInv
<1> QED BY <1>1, <1>2, <1>3, <1>4, <1>5, <1>6, HeldIsPending DEF Ledger!Succeed, Ledger!Owner, Owners

\* and counting a failure is a failure of a file that is still pending.
LEMMA CountFails ==
  ASSUME OInv, NEW w \in Workers, CountFailed(w)
  PROVE  Ledger!Fail(FileOf(w))
<1>1. Holding(w)
  BY AtAsOwner DEF CountFailed, At, Pcs, FailurePcs, LateAwaits
<1>2. PICK f \in Files : f = FileOf(w)
  BY <1>1, HoldersAsset
<1>3. totals' = [totals EXCEPT ![f].failed = 1] /\ UNCHANGED <<source, embedded>>
  <2>1. totals[f].failed = 0
    BY <1>1, <1>2, HeldIsPending DEF Ledger!Pending, Ledger!Zero
  <2> QED BY <1>2, <2>1 DEF CountFailed, OInv, PInv, IInv, TypeOK, files, artifacts
<1>4. UNCHANGED Owners
  BY <1>3, OwnersStay DEF OInv, PInv, IInv, TypeOK
<1> QED BY <1>1, <1>2, <1>3, <1>4, HeldIsPending DEF Ledger!Fail, Owners

\* No other step of a worker touches embeddings or totals.
LEMMA WorkUnseen ==
  ASSUME NEW w \in Workers, Work(w), ~ AttachToExistingAsset(w), ~ CreateEmbedding(w),
         ~ MarkCompleted(w), ~ CountFailed(w)
  PROVE  UNCHANGED <<embedded, totals>>
<1>1. CASE Ingest(w)
  BY <1>1 DEF Ingest, BeginIngestion, DownloadFile, ValidateImage, FindDuplicate,
     EnterUpload, CreateAsset, UploadFile, MarkStored, DispatchAiMetadata, artifacts
<1>2. CASE S3Upload(w) \/ AiMetadata(w) \/ Embedding(w)
  BY <1>2 DEF S3Upload, CheckStored, SetGenerated, AiMetadata, FindMetadata, GenerateMetadata,
     MarkGenerated, DispatchEmbedding, Embedding, HasEmbeddingForHash, GenerateEmbedding, artifacts
<1>3. CASE HandleFailure(w)
  BY <1>3 DEF HandleFailure, ScheduleRetry, SetRetryPending, MoveToDeadLetter, SetDeadLetter, artifacts
<1> QED
  BY <1>1, <1>2, <1>3 DEF Work, ProcessPipelineJob, RunStage, WriteFileStatus, Finish, artifacts

\* Nor does it touch the links, but where an asset is created.
LEMMA WorkUnlinked ==
  ASSUME NEW w \in Workers, Work(w), ~ AttachToExistingAsset(w), ~ Creates(w)
  PROVE  UNCHANGED source
<1>1. CASE Ingest(w)
  BY <1>1 DEF Ingest, BeginIngestion, DownloadFile, ValidateImage, FindDuplicate,
     EnterUpload, CreateAsset, Creates, UploadFile, MarkStored, DispatchAiMetadata, files
<1>2. CASE S3Upload(w) \/ AiMetadata(w) \/ Embedding(w)
  BY <1>2 DEF S3Upload, CheckStored, SetGenerated, AiMetadata, FindMetadata, GenerateMetadata,
     MarkGenerated, DispatchEmbedding, Embedding, HasEmbeddingForHash, GenerateEmbedding,
     CreateEmbedding, MarkCompleted, files
<1>3. CASE HandleFailure(w)
  BY <1>3 DEF HandleFailure, ScheduleRetry, SetRetryPending, MoveToDeadLetter, SetDeadLetter,
     CountFailed, files
<1> QED
  BY <1>1, <1>2, <1>3 DEF Work, ProcessPipelineJob, RunStage, WriteFileStatus, Finish, files

\* Every step of the pipeline is a step of the ledger, or one it does not see.
LEMMA LedgerStep ==
  ASSUME ImportedOnce, OInv, [Next]_vars
  PROVE  [Ledger!Next]_LedgerVars
<1>1. ASSUME NEW w \in Workers, Work(w)
      PROVE  [Ledger!Next]_LedgerVars
  <2>1. CASE Creates(w)
    BY <2>1, CreateClaims, CreateOwners DEF Ledger!Next
  <2>2. CASE AttachToExistingAsset(w)
    BY <2>2, AttachLinks, AttachOwners DEF Ledger!Next
  <2>3. CASE CreateEmbedding(w)
    <3>1. FileOf(w) \in Files
      BY <2>3, AtAsOwner, HoldersAsset DEF CreateEmbedding, At, Pcs, StagePcs, LateAwaits
    <3> QED BY <2>3, <3>1, EmbeddingPrepares DEF Ledger!Next
  <2>4. CASE MarkCompleted(w)
    <3>1. FileOf(w) \in Files
      BY <2>4, AtAsOwner, HoldersAsset DEF MarkCompleted, At, Pcs, StagePcs, LateAwaits
    <3> QED BY <2>4, <3>1, CompletionSucceeds DEF Ledger!Next
  <2>5. CASE CountFailed(w)
    <3>1. FileOf(w) \in Files
      BY <2>5, AtAsOwner, HoldersAsset DEF CountFailed, At, Pcs, FailurePcs, LateAwaits
    <3> QED BY <2>5, <3>1, CountFails DEF Ledger!Next
  <2>6. CASE ~ Creates(w) /\ ~ AttachToExistingAsset(w) /\ ~ CreateEmbedding(w)
             /\ ~ MarkCompleted(w) /\ ~ CountFailed(w)
    <3>1. UNCHANGED <<embedded, totals, source>>
      BY <1>1, <2>6, WorkUnseen, WorkUnlinked
    <3> QED BY <3>1, OwnersStay DEF LedgerVars
  <2> QED BY <2>1, <2>2, <2>3, <2>4, <2>5, <2>6
<1>2. CASE (\E w \in Workers : Fault(w)) \/ UNCHANGED vars
  <2>1. UNCHANGED <<embedded, totals, source>>
    BY <1>2 DEF Fault, vars, files, artifacts
  <2> QED BY <2>1, OwnersStay DEF LedgerVars
<1>3. ~ Replay /\ \A w \in Workers : ~ Crash(w)
  BY DEF OInv, PInv, OnceOnly, Crash, Replay, ReplayFromDlq, ReplaySetAsset, ReplaySetFile, NoReplay
<1> QED BY <1>1, <1>2, <1>3 DEF Next

\* The pipeline keeps the books of its job the way the ledger says: the first
\* file with a given content owns the asset, every other is its duplicate, an
\* asset is made ready once and on its owner's behalf, and each file is counted
\* once, however the handlers interleave and whichever awaits of an import throw
\* before a file is passed on, the upload of a file's own asset excepted.
THEOREM PipelineImplementsLedger ==
  ASSUME ImportedOnce
  PROVE  Spec => ImplementsJobLedger
<1>1. Init => OInv /\ Ledger!Init
  <2> SUFFICES ASSUME Init PROVE OInv /\ Ledger!Init
    OBVIOUS
  <2>1. \A h \in Hashes : Creators(h) = {}
    BY FilesAssumption DEF Init, Creators
  <2>2. \A h \in Hashes : Creator(h) = NoFile
    BY <2>1 DEF Creator, TheFileOf
  <2> QED BY <2>2, InitOwners DEF Init, Ledger!Init, Ledger!Zero
<1>2. OInv /\ [Next]_vars => OInv'
  BY OwnersStep
<1>3. OInv /\ [Next]_vars => [Ledger!Next]_LedgerVars
  BY LedgerStep
<1> QED BY <1>1, <1>2, <1>3, PTL DEF Spec, ImplementsJobLedger, Ledger!Spec, LedgerVars, Owners
=============================================================================
