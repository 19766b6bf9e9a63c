------------------------- MODULE PipelineTopology -------------------------
(* The asset states of the ingestion pipeline and the queue that serves    *)
(* each stage (asset-state.enum.ts, queue-topology.constants.ts).          *)

\* The values of AssetState; FAILED is declared in the code and never written.
AssetState ==
    {"DISCOVERED", "DOWNLOADING", "VALIDATING", "HASHING", "DUPLICATE_CHECK",
     "UPLOADING_TO_S3", "STORED_IN_S3", "GENERATING_METADATA",
     "METADATA_GENERATED", "GENERATING_EMBEDDING", "EMBEDDING_GENERATED",
     "COMPLETED", "FAILED", "RETRY_PENDING", "DEAD_LETTER"}

Queues == {"ingestion", "s3Upload", "aiMetadata", "embedding"}

\* STAGE_QUEUE_MAP, read from the queue to the stages it serves.
StagesOf(queue) ==
    CASE queue = "ingestion"  -> {"DISCOVERED", "DOWNLOADING", "VALIDATING",
                                  "HASHING", "DUPLICATE_CHECK"}
      [] queue = "s3Upload"   -> {"UPLOADING_TO_S3", "STORED_IN_S3"}
      [] queue = "aiMetadata" -> {"GENERATING_METADATA"}
      [] queue = "embedding"  -> {"METADATA_GENERATED", "GENERATING_EMBEDDING",
                                  "EMBEDDING_GENERATED"}

\* REPLAYABLE_STAGES: the keys of STAGE_QUEUE_MAP.
ReplayableStages == UNION {StagesOf(q) : q \in Queues}

\* The stage a handler enters first, hence the stage its failures name.
EntryStage == [ingestion  |-> "DOWNLOADING",
               s3Upload   |-> "UPLOADING_TO_S3",
               aiMetadata |-> "GENERATING_METADATA",
               embedding  |-> "GENERATING_EMBEDDING"]
===========================================================================
