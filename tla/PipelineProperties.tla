------------------------ MODULE PipelineProperties ------------------------
(* What the asset pipeline promises, over the states of AssetPipeline.     *)
EXTENDS AssetPipeline

Active(w) == run[w] # Idle

\* Each artifact of an asset is only made from the one before it: an embedding
\* from metadata, metadata from the S3 object, the object for an asset row;
\* and an asset is COMPLETED only with all of them.
ArtifactChain ==
    /\ embedded \subseteq described
    /\ described \subseteq stored
    /\ \A h \in stored : Exists(h)
    /\ \A h \in Hashes : assetStatus[h] = "COMPLETED" => h \in embedded

\* A file is linked to an asset exactly when its AssetSource row exists, both
\* name the asset of the file's own content, and that asset exists.
LinksAgree ==
    \A f \in Files :
        /\ source[f] = fileAsset[f]
        /\ fileAsset[f] # NoAsset => fileAsset[f] = HashOf[f] /\ Exists(HashOf[f])

\* A message never arrives before what it is about: it names no asset only on
\* the ingestion queue, otherwise the asset its file is linked to, and an
\* embedding message finds the metadata it was built from.
FindsItsAsset(m) ==
    /\ m.asset = NoAsset => m.queue = "ingestion"
    /\ m.asset # NoAsset => m.asset = fileAsset[m.file]
    /\ m.queue = "embedding" => m.asset \in described
MessagesFindTheirAsset == \A m \in Message : queue[m] > 0 => FindsItsAsset(m)

\* A file shows an outcome only when the outcome is on record: COMPLETED when
\* its job counted a success, DEAD_LETTER when a dead-letter message exists to
\* replay it; a counted failure always has its dead-letter message.
OutcomesAreRecorded ==
    \A f \in Files :
        /\ fileStatus[f] = "COMPLETED" => totals[f].successful > 0
        /\ fileStatus[f] = "DEAD_LETTER" => dlq[f] > 0
        /\ totals[f].failed <= dlq[f]
        /\ totals[f].duplicate <= totals[f].successful

\* The asset a handler works on is the one its file is linked to and its job
\* named; only the ingestion queue brings jobs that name none.
KnowsItsAsset(r) ==
    /\ r.asset # NoAsset => r.asset = fileAsset[r.job.file]
    /\ r.job.asset # NoAsset => r.asset = r.job.asset
    /\ r.job.asset = NoAsset => r.job.queue = "ingestion"
    /\ r.job.queue = "embedding" => r.asset \in described

\* Each await is only reached with the row, object, metadata, embedding or
\* attempt it builds on.
Prepared(r) ==
    /\ r.pc = "attach" => Exists(HashOf[r.job.file])
    /\ r.pc \in {"upload", "checkStored", "findMetadata", "generate"}
          => r.asset # NoAsset
    /\ r.pc \in {"markStored", "dispatchAi"} => r.asset \in stored
    /\ r.pc \in {"markGenerated", "dispatchEmbedding", "setGenerated"}
          => r.asset \in described
    /\ r.pc \in {"hasEmbedding", "embed", "createEmbedding", "complete"}
          => r.job.queue = "embedding"
    /\ r.pc = "complete" => r.asset \in embedded
    /\ r.pc = "reschedule" => r.job.attempt < MaxAttempts
    /\ r.pend # "COMPLETED"

\* What a handler has established stays true while it runs, whatever the other
\* handlers, the replays and the redeliveries do between its awaits.
HandlersAgree ==
    \A w \in Workers : Active(w) => KnowsItsAsset(run[w]) /\ Prepared(run[w])

\* Nobody is misled: links, messages and handlers name the same asset for a
\* file, and what each of them relies on is there.
EverybodyAgrees == LinksAgree /\ MessagesFindTheirAsset /\ HandlersAgree

Carried(f) ==
    \/ \E m \in Message : m.file = f /\ queue[m] > 0
    \/ \E w \in Workers : Active(w) /\ FileOf(w) = f

Settled(f) == totals[f].successful + totals[f].failed > 0

\* No file is forgotten: until its job has counted it, a queued message or a
\* running handler still carries it.  processPipelineJob, which swallows every error,
\* says why it may: "PipelineRetryService already scheduled retry/DLQ".
NothingForgotten == \A f \in Files : Settled(f) \/ Carried(f)

\* Liveness: every file is counted in the end, whatever crashes and whatever throws
\* inside a runStage.
EveryFileSettles == \A f \in Files : <>Settled(f)

\* The model is asked about an image only while nothing is known about it.
DescribesTheUnknown ==
    \A w \in Workers : GenerateMetadata(w) => run[w].asset \notin described

\* What is COMPLETED stays COMPLETED, but for the mark of a retry, which
\* scheduleRetry writes after it has queued the message and which the retry may
\* be ahead of.
MarksRetry(w) ==
    SetRetryPending(w) \/ (run[w] # Idle /\ run[w].pend = "RETRY_PENDING" /\ WriteFileStatus(w))
KeepsTheCompleted ==
    /\ \A f \in Files : fileStatus[f] = "COMPLETED" => fileStatus'[f] = "COMPLETED"
    /\ \A h \in Hashes : assetStatus[h] = "COMPLETED" => assetStatus'[h] = "COMPLETED"

\* Files with the same content share one asset, and none of them does the work
\* of another again or takes it back.
NothingIsRedone ==
    [][/\ DescribesTheUnknown
       /\ KeepsTheCompleted \/ \E w \in Workers : MarksRetry(w)]_vars

---------------------------------------------------------------------------
(* What the documents claim and the code does not keep.                    *)

Quiet == (\A w \in Workers : ~ Active(w)) /\ (\A m \in Message : queue[m] = 0)

\* "succeeds on recovery": once the queues have drained, a COMPLETED file has
\* an asset that search can find.
CompletedFilesAreSearchable ==
    Quiet => \A f \in Files : fileStatus[f] = "COMPLETED" => HashOf[f] \in embedded

\* Redelivery is a no-op: no file is counted twice.
CountedOnce == \A f \in Files : totals[f].successful + totals[f].failed <= 1

\* No regression: a COMPLETED file stays COMPLETED.
NoRegression ==
    [][\A f \in Files : fileStatus[f] = "COMPLETED" => fileStatus'[f] = "COMPLETED"]_vars
===========================================================================
