-------------------------- MODULE PipelineTracker --------------------------
(***************************************************************************)
(* The tracker that records executions and their stages.  Producers emit   *)
(* events and do not wait; a listener hands each to the tracker, which     *)
(* works it off in several database statements.  The events of one         *)
(* execution form a promise chain (safe), those of different executions    *)
(* interleave.  A statement that fails ends its event and is only logged.  *)
(*                                                                         *)
(* A sequence number is read before it is used and the table does not      *)
(* keep it unique, and an end looks for the row of its start: both are     *)
(* right only because no other event of the execution runs in between.     *)
(***************************************************************************)
EXTENDS Integers, FiniteSets, Sequences, StageLog

CONSTANTS
    Executions,     \* the executions producers start
    Stages,         \* the stages of a workflow
    NoStage,        \* currentStage of an execution that has none
    MaxEvents,      \* stage events an execution emits at most
    MaxFaults       \* statements that fail at most

ASSUME TrackerAssumption ==
    /\ MaxEvents \in Nat
    /\ MaxFaults \in Nat
    /\ NoStage \notin Stages \cup {"completed", "failed"}

VARIABLES
    sent,       \* the events each execution has emitted, in order
    begun,      \* how many of them the tracker has begun to work off
    active,     \* the events being worked off
    rows,       \* the stage rows of each execution, in order of creation
    execution,  \* the status of each execution row
    current,    \* currentStage of each execution row
    metrics,    \* the counters of the metrics service
    faults      \* statements that have failed

vars == <<sent, begun, active, rows, execution, current, metrics, faults>>

Terminal == {"completed", "failed"}
Event == [kind : Kinds \cup Terminal \cup {"started"}, stage : Stages \cup {NoStage}]
Statements == {"createExecution", "nextSequence", "createStage", "setCurrentStage",
               "findLatestOpenStage", "completeStage", "finishExecution"}

\* An event being worked off: its next statement, and the sequence number or
\* the row an earlier statement has found.
Work == [event : Event, at : Statements, found : Nat]
Row == [stage : Stages, status : RowStatuses, sequence : Nat]

TypeOK ==
    /\ sent \in [Executions -> Seq(Event)]
    /\ begun \in [Executions -> Nat]
    /\ active \in [Executions -> SUBSET Work]
    /\ rows \in [Executions -> Seq(Row)]
    /\ execution \in [Executions -> {"none", "running"} \cup Terminal]
    /\ current \in [Executions -> Stages \cup Terminal \cup {NoStage}]
    /\ metrics \in [started : Nat, ended : Nat, concurrent : Nat]
    /\ faults \in 0..MaxFaults

Init ==
    /\ sent = [e \in Executions |-> <<>>]
    /\ begun = [e \in Executions |-> 0]
    /\ active = [e \in Executions |-> {}]
    /\ rows = [e \in Executions |-> <<>>]
    /\ execution = [e \in Executions |-> "none"]
    /\ current = [e \in Executions |-> NoStage]
    /\ metrics = [started |-> 0, ended |-> 0, concurrent |-> 0]
    /\ faults = 0

(* ----------------------------- the producer ---------------------------- *)
\* A workflow says that it started, reports on its stages in any order its
\* retries and nested calls produce, and says how it ended.
MayEmit(e, event) ==
    IF sent[e] = <<>>
    THEN event = [kind |-> "started", stage |-> NoStage]
    ELSE /\ sent[e][Len(sent[e])].kind \notin Terminal
         /\ IF event.kind \in Terminal
            THEN event.stage = NoStage
            ELSE event.kind \in Kinds /\ event.stage \in Stages /\ Len(sent[e]) <= MaxEvents

Emit(e) ==
    /\ \E event \in Event :
          /\ MayEmit(e, event)
          /\ sent' = [sent EXCEPT ![e] = Append(@, event)]
    /\ UNCHANGED <<begun, active, rows, execution, current, metrics, faults>>

(* ------------------------------ the chain ------------------------------ *)
FirstStatement(kind) ==
    CASE kind = "started" -> "createExecution"
      [] kind \in Terminal -> "finishExecution"
      [] kind \in {"stageCompleted", "stageFailed"} -> "findLatestOpenStage"
      [] OTHER -> "nextSequence"

\* Mutant of the next action: events are worked off as they arrive.
BeginUnchained(e) ==
    /\ begun[e] < Len(sent[e])
    /\ LET event == sent[e][begun[e] + 1]
       IN  active' = [active EXCEPT ![e] = @ \cup
               {[event |-> event, at |-> FirstStatement(event.kind), found |-> 0]}]
    /\ begun' = [begun EXCEPT ![e] = @ + 1]
    /\ UNCHANGED <<sent, rows, execution, current, metrics, faults>>

\* safe: an event waits for the end of the one before it, good or bad.
Begin(e) ==
    /\ active[e] = {}
    /\ begun[e] < Len(sent[e])
    /\ LET event == sent[e][begun[e] + 1]
       IN  active' = [active EXCEPT ![e] = @ \cup
               {[event |-> event, at |-> FirstStatement(event.kind), found |-> 0]}]
    /\ begun' = [begun EXCEPT ![e] = @ + 1]
    /\ UNCHANGED <<sent, rows, execution, current, metrics, faults>>

\* The event goes on to another statement, or is done.
GoOn(e, w, at, found) ==
    active' = [active EXCEPT ![e] =
                  (@ \ {w}) \cup {[event |-> w.event, at |-> at, found |-> found]}]
Done(e, w) == active' = [active EXCEPT ![e] = @ \ {w}]

(* ----------------------------- the counters ---------------------------- *)
OnPipelineStarted ==
    metrics' = [metrics EXCEPT !.started = @ + 1, !.concurrent = @ + 1]
OnPipelineEnded ==
    metrics' = [metrics EXCEPT !.ended = @ + 1,
                               !.concurrent = IF @ > 0 THEN @ - 1 ELSE 0]

(* ---------------------------- the statements --------------------------- *)
CreateExecution(e, w) ==
    /\ w.at = "createExecution"
    /\ execution' = [execution EXCEPT ![e] = "running"]
    /\ OnPipelineStarted
    /\ Done(e, w)
    /\ UNCHANGED <<sent, begun, rows, current, faults>>

\* The largest sequence number of an execution so far.
LastSequence(e) ==
    LET taken == {0} \cup {rows[e][i].sequence : i \in 1..Len(rows[e])}
    IN  CHOOSE n \in taken : \A m \in taken : m <= n

NextSequence(e, w) ==
    /\ w.at = "nextSequence"
    /\ GoOn(e, w, "createStage", LastSequence(e) + 1)
    /\ UNCHANGED <<sent, begun, rows, execution, current, metrics, faults>>

\* A completion without a start creates a running row and completes it; a
\* failed stage counts as a failed pipeline.
CreateStage(e, w) ==
    LET kind == w.event.kind
        status == IF kind = "stageCompleted" THEN "running" ELSE StatusOf(kind)
        row == [stage |-> w.event.stage, status |-> status, sequence |-> w.found]
    IN  /\ w.at = "createStage"
        /\ execution[e] # "none"
        /\ rows' = [rows EXCEPT ![e] = Append(@, row)]
        /\ CASE kind = "stageStarted" -> GoOn(e, w, "setCurrentStage", 0)
             [] kind = "stageCompleted" -> GoOn(e, w, "completeStage", Len(rows[e]) + 1)
             [] OTHER -> Done(e, w)
        /\ IF kind = "stageFailed" THEN OnPipelineEnded ELSE UNCHANGED metrics
        /\ UNCHANGED <<sent, begun, execution, current, faults>>

SetCurrentStage(e, w) ==
    /\ w.at = "setCurrentStage"
    /\ current' = [current EXCEPT ![e] = w.event.stage]
    /\ Done(e, w)
    /\ UNCHANGED <<sent, begun, rows, execution, metrics, faults>>

\* Mutant: the oldest open row is taken.
FindOldestOpenStage(e, w) ==
    LET open == OpenRows(rows[e], w.event.stage)
    IN  /\ w.at = "findLatestOpenStage"
        /\ IF open = {}
           THEN GoOn(e, w, "nextSequence", 0)
           ELSE \E i \in open :
                    /\ \A j \in open : rows[e][j].sequence >= rows[e][i].sequence
                    /\ GoOn(e, w, "completeStage", i)
        /\ UNCHANGED <<sent, begun, rows, execution, current, metrics, faults>>

FindLatestOpenStage(e, w) ==
    LET open == OpenRows(rows[e], w.event.stage)
    IN  /\ w.at = "findLatestOpenStage"
        /\ IF open = {}
           THEN GoOn(e, w, "nextSequence", 0)
           ELSE \E i \in open :
                    /\ \A j \in open : rows[e][j].sequence <= rows[e][i].sequence
                    /\ GoOn(e, w, "completeStage", i)
        /\ UNCHANGED <<sent, begun, rows, execution, current, metrics, faults>>

CompleteStage(e, w) ==
    /\ w.at = "completeStage"
    /\ rows' = [rows EXCEPT ![e][w.found].status = StatusOf(w.event.kind)]
    /\ Done(e, w)
    /\ IF w.event.kind = "stageFailed" THEN OnPipelineEnded ELSE UNCHANGED metrics
    /\ UNCHANGED <<sent, begun, execution, current, faults>>

FinishExecution(e, w) ==
    /\ w.at = "finishExecution"
    /\ execution[e] # "none"
    /\ execution' = [execution EXCEPT ![e] = w.event.kind]
    /\ current' = [current EXCEPT ![e] = w.event.kind]
    /\ OnPipelineEnded
    /\ Done(e, w)
    /\ UNCHANGED <<sent, begun, rows, faults>>

\* Mutant: the rejection is not caught and nothing follows it in the chain.
FailsUncaught(e, w) ==
    /\ \/ faults < MaxFaults /\ faults' = faults + 1
       \/ /\ execution[e] = "none"
          /\ w.at \in {"createStage", "setCurrentStage", "finishExecution"}
          /\ UNCHANGED faults
    /\ GoOn(e, w, "rejected", 0)
    /\ UNCHANGED <<sent, begun, rows, execution, current, metrics>>

\* The database is away, or the row of the execution was never created: the
\* error is logged and the event is given up.
Fails(e, w) ==
    /\ \/ faults < MaxFaults /\ faults' = faults + 1
       \/ /\ execution[e] = "none"
          /\ w.at \in {"createStage", "setCurrentStage", "finishExecution"}
          /\ UNCHANGED faults
    /\ Done(e, w)
    /\ UNCHANGED <<sent, begun, rows, execution, current, metrics>>

Statement(e, w) ==
    \/ CreateExecution(e, w)
    \/ NextSequence(e, w)
    \/ CreateStage(e, w)
    \/ SetCurrentStage(e, w)
    \/ FindLatestOpenStage(e, w)
    \/ CompleteStage(e, w)
    \/ FinishExecution(e, w)
    \/ Fails(e, w)

Track(e) == Begin(e) \/ \E w \in active[e] : Statement(e, w)

Next == \E e \in Executions : Emit(e) \/ Track(e)

Spec == Init /\ [][Next]_vars

\* Every statement returns or throws, and the chain of promises goes on.
FairSpec == Spec /\ \A e \in Executions : WF_vars(Track(e))

(* ------------------------------ properties ----------------------------- *)
Drained(e) == begun[e] = Len(sent[e]) /\ active[e] = {}

\* The timeline of an execution is sound although nothing in the table keeps
\* it so: no two rows have the same sequence number and none is missing, even
\* when statements fail.
TimelineSound ==
    \A e \in Executions : \A i \in 1..Len(rows[e]) : rows[e][i].sequence = i

\* When the tracker has caught up and nothing failed, the rows are those of
\* the events, in their order, each end on the run it belongs to.
Timeline(e) ==
    [i \in 1..Len(rows[e]) |-> [stage |-> rows[e][i].stage, status |-> rows[e][i].status]]
RowsAreTheEvents ==
    \A e \in Executions : Drained(e) /\ faults = 0 => Timeline(e) = LogOf(sent[e])

\* Rows are only added, and a run that has ended keeps its outcome.
EndsAreFinal ==
    [][\A e \in Executions :
          /\ Len(rows[e]) <= Len(rows'[e])
          /\ \A i \in 1..Len(rows[e]) :
                rows[e][i].status # "running" => rows'[e][i] = rows[e][i]]_vars

\* Liveness: failing statements never keep the tracker from catching up with
\* an execution that has ended.
TrackerCatchesUp ==
    \A e \in Executions :
        (sent[e] # <<>> /\ sent[e][Len(sent[e])].kind \in Terminal) ~> Drained(e)

---------------------------------------------------------------------------
(* What the documents claim and the code does not keep.                    *)

\* The gauge of concurrent executions counts the executions that are running.
GaugeCountsRunning ==
    metrics.concurrent = Cardinality({e \in Executions : execution[e] = "running"})
=============================================================================
