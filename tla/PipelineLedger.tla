-------------------------- MODULE PipelineLedger --------------------------
(* The accounting of the asset pipeline, and JobLedger, which it implements *)
(* as long as nothing is delivered twice.                                   *)
EXTENDS PipelineProperties

\* The awaits inside runStage that come before the handler has passed its file
\* on: when one of them throws, handleFailure still has the file in hand.  "begin"
\* is not among them: it looks at the asset of a retried file outside runStage.
RetriedAwaits ==
    {"enter", "download", "validate", "findDuplicate", "enterUpload", "create",
     "attach", "upload", "checkStored", "findMetadata", "generate",
     "markGenerated", "hasEmbedding", "embed", "createEmbedding", "complete"}

\* No worker dies, nothing is replayed, and only such awaits throw.
DeliveredOnce ==
    MaxCrashes = 0 /\ MaxReplays = 0 /\ FaultPoints \subseteq RetriedAwaits

\* A handler holds its file until it has passed it on or counted it.
LateAwaits == {"record", "end", "setRetry", "setGenerated"}
Holding(w) == Active(w) /\ run[w].pc \notin LateAwaits

Waiting(f) == {m \in Message : m.file = f /\ queue[m] > 0}
Holders(f) == {w \in Workers : Holding(w) /\ FileOf(w) = f}
Counted(f) == totals[f].successful + totals[f].failed

\* Conservation: a file waits in exactly one message, or is held by exactly one
\* handler, until its job counts it, and is counted exactly once.
HeldOrCountedOnce ==
    \A f \in Files :
        \/ /\ Counted(f) = 0 /\ Holders(f) = {}
           /\ \E m \in Message : Waiting(f) = {m} /\ queue[m] = 1
        \/ /\ Counted(f) = 0 /\ Waiting(f) = {}
           /\ \E w \in Workers : Holders(f) = {w}
        \/ Counted(f) = 1 /\ Holders(f) = {} /\ Waiting(f) = {}

\* The pipeline implements the ledger of its job: the file that created the
\* asset owns it, and it is ready once its embedding is stored.
CONSTANT NoFile
ASSUME NoFileAssumption == NoFile \notin Files

Creators(h) == {f \in Files : source[f] = h /\ totals[f].duplicate = 0}
TheFileOf(S) == IF S = {} THEN NoFile ELSE CHOOSE f \in S : TRUE
Creator(h) == TheFileOf(Creators(h))
Ledger == INSTANCE JobLedger WITH
    owner <- [h \in Hashes |-> Creator(h)],
    ready <- embedded
ImplementsJobLedger == Ledger!Spec
===========================================================================
