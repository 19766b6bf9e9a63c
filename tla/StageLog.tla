------------------------------ MODULE StageLog ------------------------------
(***************************************************************************)
(* What the events of one execution are meant to leave behind: a list of   *)
(* rows, one for each run of a stage, in the order of the events.          *)
(* This is the reference PipelineTracker is checked against.               *)
(***************************************************************************)
EXTENDS Integers, Sequences

Kinds == {"stageStarted", "stageCompleted", "stageFailed", "stageSkipped"}
RowStatuses == {"running", "completed", "failed", "skipped"}

\* The status a row gets from an event.
StatusOf(kind) ==
    CASE kind = "stageStarted" -> "running"
      [] kind = "stageCompleted" -> "completed"
      [] kind = "stageFailed" -> "failed"
      [] OTHER -> "skipped"

\* The runs of a stage that have not ended.
OpenRows(rows, stage) ==
    {i \in 1..Len(rows) : rows[i].stage = stage /\ rows[i].status = "running"}

\* An end closes the latest open run of its stage, any other stage event is a new
\* row; the start and the end of the execution are none.
Logged(rows, event) ==
    LET open == OpenRows(rows, event.stage)
        row == [stage |-> event.stage, status |-> StatusOf(event.kind)]
    IN  IF event.kind \notin Kinds THEN rows
        ELSE IF event.kind \in {"stageCompleted", "stageFailed"} /\ open # {}
        THEN LET last == CHOOSE i \in open : \A j \in open : j <= i
             IN  [rows EXCEPT ![last] = row]
        ELSE Append(rows, row)

\* The rows a sequence of events leaves behind, after each of them and in all.
LogUpTo(events) ==
    LET log[n \in 0..Len(events)] ==
            IF n = 0 THEN <<>> ELSE Logged(log[n - 1], events[n])
    IN  log
LogOf(events) == LogUpTo(events)[Len(events)]
=============================================================================
