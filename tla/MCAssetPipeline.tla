-------------------------- MODULE MCAssetPipeline --------------------------
(* Instances of AssetPipeline for TLC: files with and without the same     *)
(* content, and where their awaits may fail.                               *)
EXTENDS PipelineLedger, TLC

CONSTANTS f1, f2, f3, h1, h2, w1, w2

TwoFiles == {f1, f2}
ThreeFiles == {f1, f2, f3}
SameContent == [f \in Files |-> h1]
\* The first two files have the same content.
SharedContent == f1 :> h1 @@ f2 :> h1 @@ f3 :> h2
TwoWorkers == {w1, w2}
WorkerSymmetry == Permutations(Workers)

\* The calls to Drive, S3 (fileExists of the ingestion of a message with an
\* asset, the upload, fileExists of the upload stage), Gemini and OpenAI.
ExternalCalls == {"begin", "download", "upload", "checkStored", "generate", "embed"}
\* Those inside a runStage, whose failure goes through handleFailure.
StageCalls == ExternalCalls \ {"begin"}
AnyAwait == Pcs
\* Every await that is retried, but for the S3 upload, whose retry finds the
\* asset row of the first attempt.
RetriedButUpload == RetriedAwaits \ {"upload"}
===========================================================================
