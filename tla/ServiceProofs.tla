--------------------------- MODULE ServiceProofs ---------------------------
(***************************************************************************)
(* Proofs about the services every generation uses, each a component of    *)
(* its own with variables of its own: the tracker of its stages, the       *)
(* breaker and bucket of the providers it calls, and the retrieval of its  *)
(* images.                                                                 *)
(*                                                                         *)
(* The timeline of every execution is sound and the end of a stage is      *)
(* final, for any number of executions, stages, events and failing         *)
(* statements.  Neither is inductive: a number read or a row found by one  *)
(* statement has to be right when a later statement uses it.  The chain    *)
(* makes it so: one event of an execution is worked off at a time, so what *)
(* it has found is still the state of the table.                           *)
(*                                                                         *)
(* From the same invariant the rows are those of the events, for any       *)
(* number of them: while no statement has failed the rows between two      *)
(* events are the reference log of the events begun, and while an event is *)
(* worked off its next statement tells how far its row is.                 *)
(*                                                                         *)
(* The circuit agrees with its failure count and the rate is kept, for any *)
(* number of callers, any threshold, any cooldown and any bucket, in both  *)
(* shapes of the protocol.                                                 *)
(*                                                                         *)
(* No image is used twice and none is passed over but what another slot    *)
(* has, for any number of cards, images, pools and rankings.               *)
(***************************************************************************)
EXTENDS PipelineTracker, ProviderCalls, ImageRetrieval, WellFoundedInduction, SequenceTheorems, TLAPS

---------------------------------------------------------------------------
(* The tracker.                                                            *)

\* Events are what producers emit: those about a stage name one.
EventsNameStages ==
    \A e \in Executions : \A i \in 1..Len(sent[e]) :
        sent[e][i].kind \in Kinds => sent[e][i].stage \in Stages

\* One event of an execution is worked off at a time.
Chained == \A e \in Executions : \A v, w \in active[e] : v = w

\* What an event has found is the state of the table.
FindingsHold ==
    \A e \in Executions : \A w \in active[e] :
        /\ w.at \in {"nextSequence", "createStage", "setCurrentStage", "findLatestOpenStage",
                     "completeStage"} => w.event.kind \in Kinds /\ w.event.stage \in Stages
        /\ w.at = "createStage" => w.found = Len(rows[e]) + 1
        /\ w.at = "finishExecution" => w.event.kind \in Terminal
        /\ w.at = "findLatestOpenStage" => w.event.kind \in {"stageCompleted", "stageFailed"}
        /\ w.at = "completeStage" =>
               /\ w.found \in 1..Len(rows[e])
               /\ rows[e][w.found].status = "running"

IInv == TypeOK /\ EventsNameStages /\ Chained /\ FindingsHold /\ TimelineSound

\* No row exists and nothing is worked off in the beginning.
LEMMA TrackerInit == Init => IInv
<1> SUFFICES ASSUME Init PROVE IInv
  OBVIOUS
<1>1. TypeOK
  BY TrackerAssumption DEF Init, TypeOK
<1>2. EventsNameStages /\ Chained /\ FindingsHold /\ TimelineSound
  BY DEF Init, EventsNameStages, Chained, FindingsHold, TimelineSound
<1> QED BY <1>1, <1>2 DEF IInv

\* In a sound timeline the number to give next is the place of the next row.
LEMMA NextNumber ==
    ASSUME TypeOK, TimelineSound, NEW e \in Executions
    PROVE  LastSequence(e) = Len(rows[e])
<1> DEFINE taken == {0} \cup {rows[e][i].sequence : i \in 1..Len(rows[e])}
<1>1. Len(rows[e]) \in Nat
  BY DEF TypeOK
<1>2. \A i \in 1..Len(rows[e]) : rows[e][i].sequence = i
  BY DEF TimelineSound
<1>3. taken = 0..Len(rows[e])
  BY <1>1, <1>2
<1>4. LastSequence(e) = CHOOSE n \in taken : \A m \in taken : m <= n
  BY DEF LastSequence
<1>5. Len(rows[e]) \in taken /\ \A m \in taken : m <= Len(rows[e])
  BY <1>1, <1>3
<1>6. LastSequence(e) \in taken /\ \A m \in taken : m <= LastSequence(e)
  BY <1>4, <1>5
<1> QED BY <1>1, <1>3, <1>6

\* Emitting an event changes nothing the tracker works on.
LEMMA EmitStep ==
    ASSUME IInv, NEW e \in Executions, Emit(e)
    PROVE  IInv'
<1>1. PICK event \in Event : MayEmit(e, event) /\ sent' = [sent EXCEPT ![e] = Append(@, event)]
  BY DEF Emit
<1>2. UNCHANGED <<begun, active, rows, execution, current, metrics, faults>>
  BY DEF Emit
<1>3. sent \in [Executions -> Seq(Event)]
  BY DEF IInv, TypeOK
<1>4. TypeOK'
  BY <1>1, <1>2, <1>3 DEF IInv, TypeOK
<1>5. event.kind \in Kinds => event.stage \in Stages
  BY <1>1 DEF MayEmit, Kinds, Terminal
<1>6. EventsNameStages'
  <2> SUFFICES ASSUME NEW f \in Executions, NEW i \in 1..Len(sent'[f]), sent'[f][i].kind \in Kinds
               PROVE  sent'[f][i].stage \in Stages
    BY DEF EventsNameStages
  <2>1. CASE f = e /\ i = Len(sent[e]) + 1
    <3>1. sent'[f][i] = event
      BY <1>1, <1>3, <2>1
    <3> QED BY <1>5, <3>1
  <2>2. CASE ~ (f = e /\ i = Len(sent[e]) + 1)
    <3>1. i \in 1..Len(sent[f]) /\ sent'[f][i] = sent[f][i]
      BY <1>1, <1>3, <2>2
    <3> QED BY <3>1 DEF IInv, EventsNameStages
  <2> QED BY <2>1, <2>2
<1>7. (Chained /\ FindingsHold /\ TimelineSound)'
  BY <1>2 DEF IInv, Chained, FindingsHold, TimelineSound
<1> QED BY <1>4, <1>6, <1>7 DEF IInv

\* A chain takes its next event up with nothing else in work.
LEMMA BeginStep ==
    ASSUME IInv, NEW e \in Executions, Begin(e)
    PROVE  IInv'
<1> DEFINE event == sent[e][begun[e] + 1]
           new == [event |-> event, at |-> FirstStatement(event.kind), found |-> 0]
<1>1. /\ sent \in [Executions -> Seq(Event)]
      /\ begun \in [Executions -> Nat]
      /\ active \in [Executions -> SUBSET Work]
  BY DEF IInv, TypeOK
<1>2. begun[e] + 1 \in 1..Len(sent[e]) /\ event \in Event
  BY <1>1 DEF Begin
<1>3. new \in Work
  BY <1>2 DEF Work, FirstStatement, Statements
<1>4. active' = [active EXCEPT ![e] = {new}]
  BY <1>1 DEF Begin
<1>5. UNCHANGED <<sent, rows, execution, current, metrics, faults>>
  BY DEF Begin
<1>6. begun' \in [Executions -> Nat]
  BY <1>1 DEF Begin
<1>7. TypeOK'
  BY <1>1, <1>3, <1>4, <1>5, <1>6 DEF IInv, TypeOK
<1>8. /\ new.at \in {"nextSequence", "createStage", "setCurrentStage", "findLatestOpenStage",
                     "completeStage"} => new.event.kind \in Kinds /\ new.event.stage \in Stages
      /\ new.at \notin {"createStage", "completeStage"}
      /\ new.at = "finishExecution" => new.event.kind \in Terminal
      /\ new.at = "findLatestOpenStage" => new.event.kind \in {"stageCompleted", "stageFailed"}
  BY <1>2 DEF FirstStatement, IInv, EventsNameStages, Event, Kinds, Terminal
<1>9. FindingsHold'
  BY <1>1, <1>4, <1>5, <1>8 DEF IInv, FindingsHold
<1>10. (EventsNameStages /\ Chained /\ TimelineSound)'
  BY <1>1, <1>4, <1>5 DEF IInv, EventsNameStages, Chained, TimelineSound
<1> QED BY <1>7, <1>9, <1>10 DEF IInv

\* What every statement leaves alone: an event whose rows are as it found them
\* ends, or goes on with something true.
LEMMA OneEvent ==
    ASSUME IInv, NEW e \in Executions, NEW w \in active[e]
    PROVE  /\ w \in Work
           /\ w.event \in Event
           /\ active \in [Executions -> SUBSET Work]
           /\ active[e] = {w}
           /\ Done(e, w) => active' = [active EXCEPT ![e] = {}]
           /\ \A at \in Statements, found \in Nat :
                  GoOn(e, w, at, found) =>
                      active' = [active EXCEPT ![e] = {[event |-> w.event, at |-> at, found |-> found]}]
<1>1. active \in [Executions -> SUBSET Work] /\ w \in Work
  BY DEF IInv, TypeOK
<1>2. w = [event |-> w.event, at |-> w.at, found |-> w.found] /\ w.event \in Event
  BY <1>1 DEF Work
<1>3. active[e] = {w}
  BY DEF IInv, Chained
<1>4. Done(e, w) => active' = [active EXCEPT ![e] = {}]
  BY <1>1, <1>3 DEF Done
<1>5. ASSUME NEW at \in Statements, NEW found \in Nat, GoOn(e, w, at, found)
      PROVE  active' = [active EXCEPT ![e] = {[event |-> w.event, at |-> at, found |-> found]}]
  BY <1>1, <1>3, <1>5 DEF GoOn
<1> QED BY <1>1, <1>2, <1>3, <1>4, <1>5

\* A statement that leaves the rows alone keeps the invariant if its event
\* ends.
LEMMA EventEnds ==
    ASSUME IInv, TypeOK', NEW e \in Executions, sent' = sent, rows' = rows,
           active' = [active EXCEPT ![e] = {}]
    PROVE  IInv'
<1>1. active \in [Executions -> SUBSET Work]
  BY DEF IInv, TypeOK
<1>2. active'[e] = {} /\ \A f \in Executions \ {e} : active'[f] = active[f]
  BY <1>1
<1>3. Chained'
  BY <1>2 DEF IInv, Chained
<1>4. FindingsHold'
  BY <1>2 DEF IInv, FindingsHold
<1>5. EventsNameStages' /\ TimelineSound'
  BY DEF IInv, EventsNameStages, TimelineSound
<1> QED BY <1>3, <1>4, <1>5 DEF IInv

\* Or if it goes on with a finding that holds.
LEMMA EventGoesOn ==
    ASSUME IInv, TypeOK', NEW e \in Executions, sent' = sent, rows' = rows,
           NEW new \in Work, active' = [active EXCEPT ![e] = {new}],
           new.event.kind \in Kinds, new.event.stage \in Stages,
           new.at \notin {"finishExecution", "findLatestOpenStage"},
           new.at = "createStage" => new.found = Len(rows[e]) + 1,
           new.at = "completeStage" =>
               new.found \in 1..Len(rows[e]) /\ rows[e][new.found].status = "running"
    PROVE  IInv'
<1>1. active \in [Executions -> SUBSET Work]
  BY DEF IInv, TypeOK
<1>2. active'[e] = {new} /\ \A f \in Executions \ {e} : active'[f] = active[f]
  BY <1>1
<1>3. Chained'
  BY <1>2 DEF IInv, Chained
<1>4. FindingsHold'
  BY <1>2 DEF IInv, FindingsHold
<1>5. EventsNameStages' /\ TimelineSound'
  BY DEF IInv, EventsNameStages, TimelineSound
<1> QED BY <1>3, <1>4, <1>5 DEF IInv

\* The counters stay natural numbers.
LEMMA CountersKept ==
    ASSUME TypeOK, OnPipelineStarted \/ OnPipelineEnded
    PROVE  metrics' \in [started : Nat, ended : Nat, concurrent : Nat]
<1>1. metrics \in [started : Nat, ended : Nat, concurrent : Nat]
  BY DEF TypeOK
<1>2. CASE OnPipelineStarted
  <2>1. metrics.started + 1 \in Nat /\ metrics.concurrent + 1 \in Nat
    BY <1>1
  <2> QED BY <1>1, <1>2, <2>1 DEF OnPipelineStarted
<1>3. CASE OnPipelineEnded
  <2> DEFINE less == IF metrics.concurrent > 0 THEN metrics.concurrent - 1 ELSE 0
  <2>1. metrics.ended + 1 \in Nat /\ less \in Nat
    BY <1>1
  <2>2. metrics' = [metrics EXCEPT !.ended = metrics.ended + 1, !.concurrent = less]
    BY <1>1, <1>3 DEF OnPipelineEnded
  <2> HIDE DEF less
  <2> QED BY <1>1, <2>1, <2>2
<1> QED BY <1>2, <1>3

\* Creating the row of an execution touches no stage row.
LEMMA CreateExecutionStep ==
    ASSUME IInv, NEW e \in Executions, NEW w \in active[e], CreateExecution(e, w)
    PROVE  IInv'
<1>1. active' = [active EXCEPT ![e] = {}]
  BY OneEvent DEF CreateExecution
<1>2. metrics' \in [started : Nat, ended : Nat, concurrent : Nat]
  BY CountersKept DEF CreateExecution, IInv
<1>3. TypeOK'
  BY <1>1, <1>2, OneEvent DEF IInv, TypeOK, CreateExecution
<1> QED BY <1>1, <1>3, EventEnds DEF CreateExecution

\* The number read is the place of the row the next statement creates.
LEMMA NextSequenceStep ==
    ASSUME IInv, NEW e \in Executions, NEW w \in active[e], NextSequence(e, w)
    PROVE  IInv'
<1> DEFINE new == [event |-> w.event, at |-> "createStage", found |-> Len(rows[e]) + 1]
<1>1. LastSequence(e) = Len(rows[e]) /\ Len(rows[e]) + 1 \in Nat
  BY NextNumber DEF IInv, TypeOK
<1>2. active' = [active EXCEPT ![e] = {new}]
  BY <1>1, OneEvent DEF NextSequence, Statements
<1>3. new \in Work
  BY <1>1, OneEvent DEF Work, Statements
<1>4. TypeOK'
  BY <1>2, <1>3, OneEvent DEF IInv, TypeOK, NextSequence
<1>5. w.event.kind \in Kinds /\ w.event.stage \in Stages
  BY DEF NextSequence, IInv, FindingsHold
<1> QED BY <1>2, <1>3, <1>4, <1>5, EventGoesOn DEF NextSequence

\* currentStage is not part of the timeline.
LEMMA SetCurrentStageStep ==
    ASSUME IInv, NEW e \in Executions, NEW w \in active[e], SetCurrentStage(e, w)
    PROVE  IInv'
<1>1. active' = [active EXCEPT ![e] = {}]
  BY OneEvent DEF SetCurrentStage
<1>2. w.event.stage \in Stages
  BY DEF SetCurrentStage, IInv, FindingsHold
<1>3. TypeOK'
  BY <1>1, <1>2, OneEvent DEF IInv, TypeOK, SetCurrentStage
<1> QED BY <1>1, <1>3, EventEnds DEF SetCurrentStage

\* The row found is open, and stays so until it is completed.
LEMMA FindLatestOpenStageStep ==
    ASSUME IInv, NEW e \in Executions, NEW w \in active[e], FindLatestOpenStage(e, w)
    PROVE  IInv'
<1>1. w.event.kind \in Kinds /\ w.event.stage \in Stages
  BY DEF FindLatestOpenStage, IInv, FindingsHold
<1>2. UNCHANGED <<sent, rows, begun, execution, current, metrics, faults>>
  BY DEF FindLatestOpenStage
<1>3. CASE OpenRows(rows[e], w.event.stage) = {}
  <2> DEFINE new == [event |-> w.event, at |-> "nextSequence", found |-> 0]
  <2>1. active' = [active EXCEPT ![e] = {new}]
    BY <1>3, OneEvent DEF FindLatestOpenStage, Statements
  <2>2. new \in Work
    BY OneEvent DEF Work, Statements
  <2>3. TypeOK'
    BY <1>2, <2>1, <2>2, OneEvent DEF IInv, TypeOK
  <2> QED BY <1>1, <1>2, <2>1, <2>2, <2>3, EventGoesOn
<1>4. CASE OpenRows(rows[e], w.event.stage) # {}
  <2>1. PICK i \in OpenRows(rows[e], w.event.stage) : GoOn(e, w, "completeStage", i)
    BY <1>4 DEF FindLatestOpenStage
  <2>2. i \in 1..Len(rows[e]) /\ rows[e][i].status = "running" /\ i \in Nat
    BY DEF OpenRows
  <2> DEFINE new == [event |-> w.event, at |-> "completeStage", found |-> i]
  <2>3. active' = [active EXCEPT ![e] = {new}]
    BY <2>1, <2>2, OneEvent DEF Statements
  <2>4. new \in Work
    BY <2>2, OneEvent DEF Work, Statements
  <2>5. TypeOK'
    BY <1>2, <2>3, <2>4, OneEvent DEF IInv, TypeOK
  <2> QED BY <1>1, <1>2, <2>2, <2>3, <2>4, <2>5, EventGoesOn
<1> QED BY <1>3, <1>4

\* Ending an execution touches no stage row.
LEMMA FinishExecutionStep ==
    ASSUME IInv, NEW e \in Executions, NEW w \in active[e], FinishExecution(e, w)
    PROVE  IInv'
<1>1. active' = [active EXCEPT ![e] = {}]
  BY OneEvent DEF FinishExecution
<1>2. w.event.kind \in Terminal
  BY DEF FinishExecution, IInv, FindingsHold
<1>3. metrics' \in [started : Nat, ended : Nat, concurrent : Nat]
  BY CountersKept DEF FinishExecution, IInv
<1>4. TypeOK'
  BY <1>1, <1>2, <1>3, OneEvent DEF IInv, TypeOK, FinishExecution
<1> QED BY <1>1, <1>4, EventEnds DEF FinishExecution

\* An event that fails is given up.
LEMMA FailsStep ==
    ASSUME IInv, NEW e \in Executions, NEW w \in active[e], Fails(e, w)
    PROVE  IInv'
<1>1. active' = [active EXCEPT ![e] = {}]
  BY OneEvent DEF Fails
<1>2. faults' \in 0..MaxFaults
  BY TrackerAssumption DEF Fails, IInv, TypeOK
<1>3. TypeOK'
  BY <1>1, <1>2, OneEvent DEF IInv, TypeOK, Fails
<1> QED BY <1>1, <1>3, EventEnds DEF Fails

\* A row is created with the number that is its place.
LEMMA CreateStageStep ==
    ASSUME IInv, NEW e \in Executions, NEW w \in active[e], CreateStage(e, w)
    PROVE  IInv'
<1> DEFINE kind == w.event.kind
           status == IF kind = "stageCompleted" THEN "running" ELSE StatusOf(kind)
           added == [stage |-> w.event.stage, status |-> status, sequence |-> w.found]
<1>1. /\ rows \in [Executions -> Seq(Row)]
      /\ active \in [Executions -> SUBSET Work]
      /\ w \in Work
      /\ Len(rows[e]) + 1 \in Nat
  BY OneEvent DEF IInv, TypeOK
<1>2. kind \in Kinds /\ w.event.stage \in Stages /\ w.found = Len(rows[e]) + 1
  BY DEF CreateStage, IInv, FindingsHold
<1>3. added \in Row
  BY <1>1, <1>2 DEF Row, RowStatuses, StatusOf
<1>4. rows' = [rows EXCEPT ![e] = Append(@, added)]
  BY DEF CreateStage
<1>5. /\ rows' \in [Executions -> Seq(Row)]
      /\ Len(rows'[e]) = Len(rows[e]) + 1
      /\ rows'[e][Len(rows[e]) + 1] = added
      /\ \A i \in 1..Len(rows[e]) : rows'[e][i] = rows[e][i]
      /\ \A f \in Executions \ {e} : rows'[f] = rows[f]
  BY <1>1, <1>3, <1>4
<1>6. TimelineSound'
  <2> SUFFICES ASSUME NEW f \in Executions, NEW i \in 1..Len(rows'[f])
               PROVE  rows'[f][i].sequence = i
    BY DEF TimelineSound
  <2>1. CASE f = e /\ i = Len(rows[e]) + 1
    BY <1>2, <1>5, <2>1
  <2>2. CASE f # e \/ i # Len(rows[e]) + 1
    <3>1. CASE f = e
      <4>1. i \in 1..Len(rows[e])
        BY <1>1, <1>5, <2>2, <3>1
      <4> QED BY <1>5, <3>1, <4>1 DEF IInv, TimelineSound
    <3>2. CASE f # e
      BY <1>5, <3>2 DEF IInv, TimelineSound
    <3> QED BY <3>1, <3>2
  <2> QED BY <2>1, <2>2
<1>7. metrics' \in [started : Nat, ended : Nat, concurrent : Nat]
  BY CountersKept DEF CreateStage, IInv, TypeOK
<1>8. /\ active' \in [Executions -> SUBSET Work]
      /\ \A f \in Executions \ {e} : active'[f] = active[f]
      /\ \A v, u \in active'[e] : v = u
      /\ \A v \in active'[e] :
            /\ v.event = w.event
            /\ \/ v.at = "setCurrentStage"
               \/ v.at = "completeStage" /\ v.found = Len(rows[e]) + 1 /\ kind = "stageCompleted"
  <2>1. CASE kind = "stageStarted"
    <3> DEFINE new == [event |-> w.event, at |-> "setCurrentStage", found |-> 0]
    <3>1. GoOn(e, w, "setCurrentStage", 0)
      BY <2>1 DEF CreateStage
    <3>2. active' = [active EXCEPT ![e] = {new}]
      BY <3>1, OneEvent DEF Statements
    <3>3. new \in Work
      BY OneEvent DEF Work, Statements
    <3>4. new.event = w.event /\ new.at = "setCurrentStage"
      OBVIOUS
    <3> HIDE DEF new
    <3> QED BY <1>1, <3>2, <3>3, <3>4
  <2>2. CASE kind = "stageCompleted"
    <3> DEFINE new == [event |-> w.event, at |-> "completeStage", found |-> Len(rows[e]) + 1]
    <3>1. GoOn(e, w, "completeStage", Len(rows[e]) + 1)
      BY <2>2 DEF CreateStage
    <3>2. active' = [active EXCEPT ![e] = {new}]
      BY <1>1, <3>1, OneEvent DEF Statements
    <3>3. new \in Work
      BY <1>1, OneEvent DEF Work, Statements
    <3>4. new.event = w.event /\ new.at = "completeStage" /\ new.found = Len(rows[e]) + 1
      OBVIOUS
    <3> HIDE DEF new
    <3> QED BY <1>1, <2>2, <3>2, <3>3, <3>4
  <2>3. CASE kind \notin {"stageStarted", "stageCompleted"}
    <3>1. Done(e, w)
      BY <2>3 DEF CreateStage
    <3>2. active' = [active EXCEPT ![e] = {}]
      BY <3>1, OneEvent
    <3> QED BY <1>1, <3>2
  <2> QED BY <2>1, <2>2, <2>3
<1>9. TypeOK'
  BY <1>1, <1>5, <1>7, <1>8 DEF IInv, TypeOK, CreateStage
<1>11. Chained'
  BY <1>8 DEF IInv, Chained
<1>12. FindingsHold'
  <2>1. ASSUME NEW f \in Executions \ {e}, NEW v \in active'[f]
        PROVE  v \in active[f] /\ rows'[f] = rows[f]
    BY <1>5, <1>8
  <2>2. ASSUME NEW v \in active'[e]
        PROVE  /\ v.event.kind \in Kinds /\ v.event.stage \in Stages
               /\ v.at \in {"setCurrentStage", "completeStage"}
               /\ v.at = "completeStage" =>
                      v.found \in 1..Len(rows'[e]) /\ rows'[e][v.found].status = "running"
    BY <1>1, <1>2, <1>5, <1>8
  <2> QED BY <2>1, <2>2 DEF IInv, FindingsHold
<1>13. EventsNameStages'
  BY DEF CreateStage, IInv, EventsNameStages
<1> QED BY <1>6, <1>9, <1>11, <1>12, <1>13 DEF IInv

\* Completing a row changes neither its place nor its number.
LEMMA CompleteStageStep ==
    ASSUME IInv, NEW e \in Executions, NEW w \in active[e], CompleteStage(e, w)
    PROVE  IInv'
<1>1. /\ rows \in [Executions -> Seq(Row)]
      /\ active \in [Executions -> SUBSET Work]
  BY DEF IInv, TypeOK
<1>2. w.found \in 1..Len(rows[e]) /\ w.event.kind \in Kinds
  BY DEF CompleteStage, IInv, FindingsHold
<1>3. rows' = [rows EXCEPT ![e][w.found].status = StatusOf(w.event.kind)]
  BY DEF CompleteStage
<1>4. StatusOf(w.event.kind) \in RowStatuses
  BY <1>2 DEF StatusOf, RowStatuses
<1>5. rows[e][w.found] \in Row
  BY <1>1, <1>2
<1> DEFINE added == [rows[e][w.found] EXCEPT !.status = StatusOf(w.event.kind)]
<1>6. added \in Row /\ added.sequence = rows[e][w.found].sequence
  BY <1>4, <1>5 DEF Row
<1>7. /\ rows' \in [Executions -> Seq(Row)]
      /\ Len(rows'[e]) = Len(rows[e])
      /\ rows'[e][w.found] = added
      /\ \A i \in 1..Len(rows[e]) \ {w.found} : rows'[e][i] = rows[e][i]
      /\ \A f \in Executions \ {e} : rows'[f] = rows[f]
  BY <1>1, <1>2, <1>3, <1>6
<1>8. TimelineSound'
  BY <1>6, <1>7 DEF IInv, TimelineSound
<1>9. active' = [active EXCEPT ![e] = {}]
  BY OneEvent DEF CompleteStage
<1>10. metrics' \in [started : Nat, ended : Nat, concurrent : Nat]
  BY CountersKept DEF CompleteStage, IInv, TypeOK
<1>11. TypeOK'
  BY <1>1, <1>7, <1>9, <1>10 DEF IInv, TypeOK, CompleteStage
<1>12. active'[e] = {} /\ \A f \in Executions \ {e} : active'[f] = active[f]
  BY <1>1, <1>9
<1>13. Chained'
  BY <1>12 DEF IInv, Chained
<1>14. FindingsHold'
  <2>1. ASSUME NEW f \in Executions, NEW v \in active'[f]
        PROVE  v \in active[f] /\ rows'[f] = rows[f]
    BY <1>7, <1>12
  <2> QED BY <2>1 DEF IInv, FindingsHold
<1>15. EventsNameStages'
  BY DEF CompleteStage, IInv, EventsNameStages
<1> QED BY <1>8, <1>11, <1>13, <1>14, <1>15 DEF IInv

\* The invariant is kept by every step and by stuttering.
LEMMA TrackerStep == IInv /\ [Next]_vars => IInv'
<1> SUFFICES ASSUME IInv, [Next]_vars PROVE IInv'
  OBVIOUS
<1>1. CASE Next
  <2>1. PICK e \in Executions : Emit(e) \/ Track(e)
    BY <1>1 DEF Next
  <2>2. CASE Emit(e)
    BY <2>2, EmitStep
  <2>3. CASE Begin(e)
    BY <2>3, BeginStep
  <2>4. CASE \E w \in active[e] : Statement(e, w)
    <3>1. PICK w \in active[e] : Statement(e, w)
      BY <2>4
    <3> QED
      BY <3>1, CreateExecutionStep, NextSequenceStep, CreateStageStep, SetCurrentStageStep,
         FindLatestOpenStageStep, CompleteStageStep, FinishExecutionStep, FailsStep DEF Statement
  <2> QED BY <2>1, <2>2, <2>3, <2>4 DEF Track
<1>2. CASE UNCHANGED vars
  BY <1>2 DEF vars, IInv, TypeOK, EventsNameStages, Chained, FindingsHold, TimelineSound
<1> QED BY <1>1, <1>2

\* The chain keeps what events have found true until they use it.
THEOREM TrackerInvariance == Spec => []IInv
BY TrackerInit, TrackerStep, PTL DEF Spec

\* No two rows of an execution share a sequence number and none is missing,
\* although the table keeps neither, even when statements fail.
THEOREM TimelineAlwaysSound == Spec => []TimelineSound
<1>1. IInv => TimelineSound
  BY DEF IInv
<1> QED BY <1>1, TrackerInvariance, PTL

\* Rows are only added, and a run of a stage that has ended keeps its outcome.
THEOREM EndsStayFinal == Spec => EndsAreFinal
<1> DEFINE Final ==
        \A e \in Executions :
            /\ Len(rows[e]) <= Len(rows'[e])
            /\ \A i \in 1..Len(rows[e]) :
                  rows[e][i].status # "running" => rows'[e][i] = rows[e][i]
<1>1. IInv /\ [Next]_vars => [Final]_vars
  <2> SUFFICES ASSUME IInv, [Next]_vars PROVE Final
    OBVIOUS
  <2>1. rows \in [Executions -> Seq(Row)]
    BY DEF IInv, TypeOK
  <2>2. ASSUME rows' = rows PROVE Final
    BY <2>1, <2>2
  <2>3. ASSUME NEW e \in Executions, NEW w \in active[e], CreateStage(e, w) PROVE Final
    <3>1. PICK added : rows' = [rows EXCEPT ![e] = Append(@, added)]
      BY <2>3 DEF CreateStage
    <3>2. /\ Len(rows'[e]) = Len(rows[e]) + 1
          /\ \A i \in 1..Len(rows[e]) : rows'[e][i] = rows[e][i]
          /\ \A f \in Executions \ {e} : rows'[f] = rows[f]
      BY <2>1, <3>1
    <3> QED BY <2>1, <3>2
  <2>4. ASSUME NEW e \in Executions, NEW w \in active[e], CompleteStage(e, w) PROVE Final
    <3>1. rows' = [rows EXCEPT ![e][w.found].status = StatusOf(w.event.kind)]
      BY <2>4 DEF CompleteStage
    <3>2. rows[e][w.found].status = "running" /\ w.found \in 1..Len(rows[e])
      BY <2>4 DEF CompleteStage, IInv, FindingsHold
    <3>3. /\ Len(rows'[e]) = Len(rows[e])
          /\ \A i \in 1..Len(rows[e]) \ {w.found} : rows'[e][i] = rows[e][i]
          /\ \A f \in Executions \ {e} : rows'[f] = rows[f]
      BY <2>1, <3>1, <3>2
    <3> QED BY <2>1, <3>2, <3>3
  <2>5. CASE Next
    <3>1. PICK e \in Executions : Emit(e) \/ Track(e)
      BY <2>5 DEF Next
    <3>2. CASE Emit(e) \/ Begin(e)
      BY <2>2, <3>2 DEF Emit, Begin
    <3>3. CASE \E w \in active[e] : Statement(e, w)
      BY <2>2, <2>3, <2>4, <3>3
         DEF Statement, CreateExecution, NextSequence, SetCurrentStage, FindLatestOpenStage,
             FinishExecution, Fails
    <3> QED BY <3>1, <3>2, <3>3 DEF Track
  <2>6. CASE UNCHANGED vars
    BY <2>2, <2>6 DEF vars
  <2> QED BY <2>5, <2>6
<1> QED BY <1>1, TrackerInvariance, PTL DEF Spec, EndsAreFinal

\* Every variable keeps its type, the gauge of running pipelines included.
THEOREM TrackerTypeCorrect == Spec => []TypeOK
<1>1. IInv => TypeOK
  BY DEF IInv
<1> QED BY <1>1, TrackerInvariance, PTL

---------------------------------------------------------------------------
(* Induction.  The prover cannot instantiate the induction theorems of the *)
(* library; a set that holds 0 and every successor holds every natural.    *)

\* Every set of naturals that is not empty has a least element.
LEMMA LeastNatural ==
    ASSUME NEW T \in SUBSET Nat, T # {}
    PROVE  \E m \in T : \A n \in T : m <= n
<1> DEFINE R == {ss \in Nat \X Nat : ss[1] < ss[2]}
<1>1. IsWellFoundedOn(R, Nat)
  BY NatLessThanWellFounded DEF OpToRel
<1>2. \A m, n \in Nat : ~ (<<n, m>> \in R) => m <= n
  OBVIOUS
<1> HIDE DEF R
<1>3. \E m \in T : \A n \in T : ~ (<<n, m>> \in R)
  BY WFMin, <1>1
<1> QED BY <1>2, <1>3

\* Induction on the naturals, for a set in place of a predicate.
LEMMA InductionOnSets ==
    ASSUME NEW T, 0 \in T, \A n \in Nat : n \in T => n + 1 \in T
    PROVE  Nat \subseteq T
<1> SUFFICES ASSUME Nat \ T # {} PROVE FALSE
  OBVIOUS
<1>1. PICK m \in Nat \ T : \A n \in Nat \ T : m <= n
  BY LeastNatural
<1>2. m # 0 /\ m - 1 \in Nat /\ m - 1 \in T
  BY <1>1
<1> QED BY <1>1, <1>2

---------------------------------------------------------------------------
(* The reference log. *)

\* The function LogUpTo names exists, so it is what its equation says.
LEMMA LogUnfolds ==
    ASSUME NEW events, Len(events) \in Nat
    PROVE  LogUpTo(events) = [n \in 0..Len(events) |->
              IF n = 0 THEN <<>> ELSE Logged(LogUpTo(events)[n - 1], events[n])]
<1> DEFINE Log(f, m) == f = [n \in 0..m |-> IF n = 0 THEN <<>> ELSE Logged(f[n - 1], events[n])]
           T == {m \in Nat : \E f : Log(f, m)}
<1>1. 0 \in T
  <2>1. Log([n \in 0..0 |-> <<>>], 0)
    OBVIOUS
  <2> QED BY <2>1
<1>2. ASSUME NEW m \in Nat, m \in T PROVE m + 1 \in T
  <2>1. PICK f : Log(f, m)
    BY <1>2
  <2> DEFINE g == [n \in 0..m + 1 |-> IF n <= m THEN f[n] ELSE Logged(f[m], events[m + 1])]
  <2>2. ASSUME NEW n \in 0..m + 1
        PROVE  g[n] = IF n = 0 THEN <<>> ELSE Logged(g[n - 1], events[n])
    <3>1. CASE n = 0
      BY <2>1, <3>1
    <3>2. CASE n \in 1..m
      <4>1. g[n] = f[n] /\ g[n - 1] = f[n - 1]
        BY <3>2
      <4>2. f[n] = Logged(f[n - 1], events[n])
        BY <2>1, <3>2
      <4> QED BY <3>2, <4>1, <4>2
    <3>3. CASE n = m + 1
      <4>1. g[n] = Logged(f[m], events[n]) /\ g[n - 1] = f[m] /\ n # 0
        BY <3>3
      <4> QED BY <4>1
    <3> QED BY <3>1, <3>2, <3>3
  <2>3. Log(g, m + 1)
    BY <2>2
  <2> HIDE DEF g
  <2>4. \E h : Log(h, m + 1)
    BY <2>3
  <2> HIDE DEF Log
  <2> QED BY <2>4
<1>3. Nat \subseteq T
  BY <1>1, <1>2, InductionOnSets
<1>4. \E f : Log(f, Len(events))
  BY <1>3
<1>5. LogUpTo(events) = CHOOSE f : Log(f, Len(events))
  BY DEF LogUpTo
<1> QED BY <1>4, <1>5

\* One event after the other.
LEMMA LogByEvents ==
    ASSUME NEW events, Len(events) \in Nat
    PROVE  /\ LogUpTo(events)[0] = <<>>
           /\ \A n \in 1..Len(events) :
                LogUpTo(events)[n] = Logged(LogUpTo(events)[n - 1], events[n])
<1> DEFINE L == LogUpTo(events)
<1>1. L = [n \in 0..Len(events) |-> IF n = 0 THEN <<>> ELSE Logged(L[n - 1], events[n])]
  BY LogUnfolds
<1> HIDE DEF L
<1>2. \A n \in 0..Len(events) : L[n] = IF n = 0 THEN <<>> ELSE Logged(L[n - 1], events[n])
  BY <1>1
<1>3. L[0] = <<>> /\ \A n \in 1..Len(events) : L[n] = Logged(L[n - 1], events[n])
  BY <1>2
<1> QED BY <1>3 DEF L

\* What an event leaves behind does not depend on those that come later.
LEMMA LogOfMore ==
    ASSUME NEW E, NEW events \in Seq(E), NEW event \in E, NEW n \in 0..Len(events)
    PROVE  LogUpTo(Append(events, event))[n] = LogUpTo(events)[n]
<1> DEFINE more == Append(events, event)
           L == LogUpTo(events)
           M == LogUpTo(more)
           T == {k \in Nat : k <= Len(events) => M[k] = L[k]}
<1>1. /\ Len(events) \in Nat /\ Len(more) \in Nat /\ Len(more) = Len(events) + 1
      /\ \A k \in 1..Len(events) : more[k] = events[k]
  OBVIOUS
<1> HIDE DEF more
<1>2. L[0] = <<>> /\ \A k \in 1..Len(events) : L[k] = Logged(L[k - 1], events[k])
  BY <1>1, LogByEvents
<1>3. M[0] = <<>> /\ \A k \in 1..Len(events) : M[k] = Logged(M[k - 1], events[k])
  <2>1. M[0] = <<>> /\ \A k \in 1..Len(more) : M[k] = Logged(M[k - 1], more[k])
    BY <1>1, LogByEvents
  <2> HIDE DEF M
  <2> QED BY <1>1, <2>1
<1> HIDE DEF L, M
<1>4. 0 \in T
  BY <1>2, <1>3
<1>5. ASSUME NEW k \in Nat, k \in T PROVE k + 1 \in T
  <2>1. CASE k + 1 <= Len(events)
    <3>1. k + 1 \in 1..Len(events) /\ (k + 1) - 1 = k /\ M[k] = L[k]
      BY <1>1, <1>5, <2>1
    <3> QED BY <1>2, <1>3, <3>1
  <2>2. CASE ~ (k + 1 <= Len(events))
    BY <2>2
  <2> QED BY <2>1, <2>2
<1>6. Nat \subseteq T
  BY <1>4, <1>5, InductionOnSets
<1>7. n \in Nat /\ n <= Len(events)
  BY <1>1
<1> QED BY <1>6, <1>7 DEF L, M, more

---------------------------------------------------------------------------
(* The rows.  Between two events they are those of the events begun; while *)
(* an event is worked off, its next statement tells how far they are.      *)

Entry(event) == [stage |-> event.stage, status |-> StatusOf(event.kind)]
Before(e) == LogUpTo(sent[e])[begun[e] - 1]

WorkFollows(e, w) ==
    /\ begun[e] \in 1..Len(sent[e]) /\ w.event = sent[e][begun[e]]
    /\ w.at \in {"createExecution", "finishExecution"} => w.event.kind \notin Kinds
    /\ w.at \in {"createExecution", "finishExecution", "findLatestOpenStage", "nextSequence",
                 "createStage"} => Timeline(e) = Before(e)
    /\ w.at \in {"nextSequence", "createStage"} /\ w.event.kind \in {"stageCompleted", "stageFailed"}
           => OpenRows(Timeline(e), w.event.stage) = {}
    /\ w.at = "setCurrentStage" => Timeline(e) = Logged(Before(e), w.event)
    /\ w.at = "completeStage" =>
           /\ Timeline(e)[w.found].stage = w.event.stage
           /\ [Timeline(e) EXCEPT ![w.found] = Entry(w.event)] = Logged(Before(e), w.event)

\* Only the first event of an execution creates its row.
StartFollows(e) ==
    /\ \A i \in 1..Len(sent[e]) : i = 1 <=> sent[e][i].kind = "started"
    /\ begun[e] <= Len(sent[e])
    /\ execution[e] = "none" =>
           begun[e] = 0 \/ \E w \in active[e] : w.at = "createExecution"

RowsOf(e) ==
    /\ StartFollows(e)
    /\ active[e] = {} => Timeline(e) = LogUpTo(sent[e])[begun[e]]
    /\ \A w \in active[e] : WorkFollows(e, w)
RowsFollow == faults = 0 => \A e \in Executions : RowsOf(e)

\* Its rows without their numbers are open where the rows are.
LEMMA TimelineOpen ==
    ASSUME TypeOK, NEW e \in Executions, NEW stage
    PROVE  /\ Len(Timeline(e)) = Len(rows[e]) /\ Len(rows[e]) \in Nat
           /\ OpenRows(Timeline(e), stage) = OpenRows(rows[e], stage)
<1>1. rows[e] \in Seq(Row)
  BY DEF TypeOK
<1>2. Len(Timeline(e)) = Len(rows[e]) /\ Len(rows[e]) \in Nat
  BY <1>1 DEF Timeline
<1>3. \A i \in 1..Len(rows[e]) :
          Timeline(e)[i].stage = rows[e][i].stage /\ Timeline(e)[i].status = rows[e][i].status
  BY DEF Timeline
<1> QED BY <1>2, <1>3 DEF OpenRows

\* A function on an initial segment is a sequence.
LEMMA RowsAreASequence ==
    ASSUME NEW E, NEW n \in Nat, NEW s \in [1..n -> E]
    PROVE  s \in Seq(E)
OBVIOUS

\* Appending an entry, and replacing the last.
LEMMA AppendEntry ==
    ASSUME NEW E, NEW s \in Seq(E), NEW entry
    PROVE  Append(s, entry) = [i \in 1..Len(s) + 1 |-> IF i = Len(s) + 1 THEN entry ELSE s[i]]
<1>1. s \in Seq(E \cup {entry})
  OBVIOUS
<1>2. /\ Append(s, entry) \in Seq(E \cup {entry}) /\ Len(Append(s, entry)) = Len(s) + 1
      /\ \A i \in 1..Len(s) : Append(s, entry)[i] = s[i]
      /\ Append(s, entry)[Len(s) + 1] = entry /\ Len(s) \in Nat
  BY <1>1
<1>3. ASSUME NEW t \in Seq(E \cup {entry}) PROVE t = [i \in 1..Len(t) |-> t[i]]
  BY LenProperties
<1>4. Append(s, entry) = [i \in 1..Len(s) + 1 |-> Append(s, entry)[i]]
  <2>1. Append(s, entry) = [i \in 1..Len(Append(s, entry)) |-> Append(s, entry)[i]]
    BY <1>2, <1>3
  <2> QED BY <1>2, <2>1
<1>5. \A i \in 1..Len(s) + 1 : i # Len(s) + 1 => i \in 1..Len(s)
  BY <1>2
<1>6. PICK t : t = Append(s, entry)
  OBVIOUS
<1> QED BY <1>2, <1>5, <1>6, <1>4

\* Its rows without their numbers are rows.
LEMMA TimelineType ==
    ASSUME TypeOK, NEW e \in Executions
    PROVE  Timeline(e) \in Seq([stage : Stages, status : RowStatuses])
<1>1. rows[e] \in Seq(Row)
  BY DEF TypeOK
<1>2. Len(rows[e]) \in Nat /\ \A i \in 1..Len(rows[e]) : rows[e][i] \in Row
  BY <1>1
<1>3. \A i \in 1..Len(rows[e]) :
          [stage |-> rows[e][i].stage, status |-> rows[e][i].status]
              \in [stage : Stages, status : RowStatuses]
  BY <1>2 DEF Row
<1>4. Timeline(e) \in [1..Len(rows[e]) -> [stage : Stages, status : RowStatuses]]
  BY <1>3 DEF Timeline
<1> HIDE DEF Timeline
<1> QED BY <1>2, <1>4, RowsAreASequence

\* The executions a step is not about keep what they had.
LEMMA OtherRowsFollow ==
    ASSUME RowsFollow, faults = 0, NEW e \in Executions,
           \A f \in Executions \ {e} :
               /\ sent'[f] = sent[f] /\ begun'[f] = begun[f] /\ active'[f] = active[f]
               /\ rows'[f] = rows[f] /\ execution'[f] = execution[f],
           RowsOf(e)'
    PROVE  RowsFollow'
<1> SUFFICES ASSUME NEW f \in Executions \ {e} PROVE RowsOf(f)'
  BY DEF RowsFollow
<1>1. Timeline(f)' = Timeline(f) /\ Before(f)' = Before(f)
  BY DEF Timeline, Before
<1>2. RowsOf(f)
  BY DEF RowsFollow
<1>3. StartFollows(f)'
  BY <1>2 DEF RowsOf, StartFollows
<1>4. \A w \in active[f] : WorkFollows(f, w) => WorkFollows(f, w)'
  BY <1>1 DEF WorkFollows
<1> QED BY <1>1, <1>2, <1>3, <1>4 DEF RowsOf

\* What an end makes of a log: its row takes the place of the latest open run.
LEMMA EndOfRun ==
    ASSUME NEW log, NEW event, event.kind \in {"stageCompleted", "stageFailed"},
           NEW i \in OpenRows(log, event.stage), Len(log) \in Nat,
           \A j \in OpenRows(log, event.stage) : j <= i
    PROVE  Logged(log, event) = [log EXCEPT ![i] = Entry(event)]
<1> DEFINE open == OpenRows(log, event.stage)
<1>1. \A j \in open : j \in Nat
  BY DEF OpenRows
<1>2. (CHOOSE k \in open : \A j \in open : j <= k) = i
  <2> DEFINE k == CHOOSE k \in open : \A j \in open : j <= k
  <2>1. k \in open /\ \A j \in open : j <= k
    OBVIOUS
  <2>2. k <= i /\ i <= k /\ k \in Nat /\ i \in Nat
    BY <1>1, <2>1
  <2> QED BY <2>2
<1> QED BY <1>2 DEF Logged, Entry, Kinds

\* Emitting an event leaves the log of the earlier ones as it was.
LEMMA EmitRows ==
    ASSUME IInv, RowsFollow, NEW e \in Executions, Emit(e)
    PROVE  RowsFollow'
<1> SUFFICES ASSUME faults' = 0 PROVE RowsFollow'
  BY DEF RowsFollow
<1>1. PICK event \in Event : MayEmit(e, event) /\ sent' = [sent EXCEPT ![e] = Append(@, event)]
  BY DEF Emit
<1>2. UNCHANGED <<begun, active, rows, execution, current, metrics, faults>>
  BY DEF Emit
<1>3. sent \in [Executions -> Seq(Event)] /\ begun \in [Executions -> Nat]
  BY DEF IInv, TypeOK
<1>4. /\ sent'[e] = Append(sent[e], event) /\ sent[e] \in Seq(Event)
      /\ Len(sent'[e]) = Len(sent[e]) + 1 /\ Len(sent[e]) \in Nat
      /\ \A i \in 1..Len(sent[e]) : sent'[e][i] = sent[e][i]
      /\ sent'[e][Len(sent[e]) + 1] = event
  BY <1>1, <1>3
<1>5. RowsOf(e)
  BY <1>2 DEF RowsFollow
<1>6. \A n \in 0..Len(sent[e]) : LogUpTo(sent'[e])[n] = LogUpTo(sent[e])[n]
  BY <1>4, LogOfMore
<1>7. Len(sent[e]) = 0 <=> event.kind = "started"
  <2>1. sent[e] = <<>> <=> Len(sent[e]) = 0
    BY <1>4
  <2> QED BY <1>1, <2>1 DEF MayEmit, Kinds, Terminal
<1>8. StartFollows(e)'
  <2>1. ASSUME NEW i \in 1..Len(sent'[e]) PROVE i = 1 <=> sent'[e][i].kind = "started"
    <3>1. CASE i \in 1..Len(sent[e])
      BY <1>4, <1>5, <3>1 DEF RowsOf, StartFollows
    <3>2. CASE i = Len(sent[e]) + 1
      BY <1>4, <1>7, <3>2
    <3> QED BY <1>4, <3>1, <3>2
  <2>2. begun'[e] <= Len(sent'[e])
    BY <1>2, <1>3, <1>4, <1>5 DEF RowsOf, StartFollows
  <2> QED BY <1>2, <1>5, <2>1, <2>2 DEF RowsOf, StartFollows
<1>9. Timeline(e)' = Timeline(e)
  BY <1>2 DEF Timeline
<1>10. active[e] = {} => LogUpTo(sent'[e])[begun[e]] = LogUpTo(sent[e])[begun[e]]
  BY <1>3, <1>4, <1>5, <1>6 DEF RowsOf, StartFollows
<1>11. ASSUME NEW w \in active[e] PROVE WorkFollows(e, w)'
  <2>1. WorkFollows(e, w) /\ begun[e] \in 1..Len(sent[e])
    BY <1>5 DEF RowsOf, WorkFollows
  <2>2. begun[e] - 1 \in 0..Len(sent[e]) /\ begun[e] \in 1..Len(sent'[e])
    BY <1>4, <2>1
  <2>3. Before(e)' = Before(e)
    BY <1>2, <1>6, <2>2 DEF Before
  <2>4. sent'[e][begun[e]] = sent[e][begun[e]]
    BY <1>4, <2>1
  <2> QED BY <1>2, <1>9, <2>1, <2>2, <2>3, <2>4 DEF WorkFollows
<1>12. RowsOf(e)'
  BY <1>2, <1>5, <1>8, <1>9, <1>10, <1>11 DEF RowsOf
<1>13. \A f \in Executions \ {e} : sent'[f] = sent[f]
  BY <1>1, <1>3
<1> QED BY <1>2, <1>12, <1>13, OtherRowsFollow

\* An event is taken up with the rows of those before it.
LEMMA BeginRows ==
    ASSUME IInv, RowsFollow, NEW e \in Executions, Begin(e)
    PROVE  RowsFollow'
<1> SUFFICES ASSUME faults' = 0 PROVE RowsFollow'
  BY DEF RowsFollow
<1>0. PICK event, new :
          /\ event = sent[e][begun[e] + 1]
          /\ new = [event |-> event, at |-> FirstStatement(event.kind), found |-> 0]
  OBVIOUS
<1>1. /\ sent \in [Executions -> Seq(Event)]
      /\ begun \in [Executions -> Nat]
      /\ active \in [Executions -> SUBSET Work]
  BY DEF IInv, TypeOK
<1>2. /\ active[e] = {}
      /\ active' = [active EXCEPT ![e] = {new}]
      /\ begun' = [begun EXCEPT ![e] = @ + 1]
      /\ UNCHANGED <<sent, rows, execution, current, metrics, faults>>
  BY <1>0, <1>1 DEF Begin
<1>3. begun[e] + 1 \in 1..Len(sent[e]) /\ event \in Event /\ begun[e] \in Nat
  BY <1>0, <1>1 DEF Begin
<1>4. RowsOf(e)
  BY <1>2 DEF RowsFollow
<1>5. begun'[e] = begun[e] + 1 /\ active'[e] = {new} /\ sent'[e] = sent[e]
  BY <1>1, <1>2
<1>6. Timeline(e)' = Timeline(e) /\ Before(e)' = Timeline(e)
  <2>1. (begun[e] + 1) - 1 = begun[e]
    BY <1>3
  <2> QED BY <1>2, <1>4, <1>5, <2>1 DEF RowsOf, Timeline, Before
<1>7. /\ new.event = event /\ new.at = FirstStatement(event.kind)
      /\ new.at \in {"createExecution", "finishExecution"} => event.kind \notin Kinds
      /\ new.at \notin {"createStage", "setCurrentStage", "completeStage"}
      /\ new.at = "nextSequence" => event.kind \notin {"stageCompleted", "stageFailed"}
  BY <1>0, <1>3 DEF FirstStatement, Kinds, Terminal, Event
<1>8. begun[e] = 0 => new.at = "createExecution"
  <2>1. begun[e] = 0 => event.kind = "started"
    BY <1>0, <1>3, <1>4 DEF RowsOf, StartFollows
  <2> QED BY <1>0, <2>1 DEF FirstStatement, Terminal
<1>9. StartFollows(e)'
  BY <1>2, <1>3, <1>4, <1>5, <1>8 DEF RowsOf, StartFollows
<1>10. WorkFollows(e, new)'
  BY <1>0, <1>3, <1>5, <1>6, <1>7 DEF WorkFollows
<1>11. RowsOf(e)'
  BY <1>5, <1>9, <1>10 DEF RowsOf
<1>12. \A f \in Executions \ {e} : active'[f] = active[f] /\ begun'[f] = begun[f]
  BY <1>1, <1>2
<1> QED BY <1>2, <1>11, <1>12, OtherRowsFollow

\* A statement after which the event is over.
LEMMA EventIsLogged ==
    ASSUME IInv, RowsFollow, faults = 0, NEW e \in Executions, NEW w \in active[e],
           active' = [active EXCEPT ![e] = {}], UNCHANGED <<sent, begun>>,
           \A f \in Executions \ {e} : rows'[f] = rows[f] /\ execution'[f] = execution[f],
           execution'[e] # "none",
           Timeline(e)' = Logged(Before(e), w.event)
    PROVE  RowsFollow'
<1>1. /\ active \in [Executions -> SUBSET Work]
      /\ sent \in [Executions -> Seq(Event)]
  BY DEF IInv, TypeOK
<1>2. RowsOf(e) /\ WorkFollows(e, w)
  BY DEF RowsFollow, RowsOf
<1>3. begun[e] \in 1..Len(sent[e]) /\ w.event = sent[e][begun[e]] /\ Len(sent[e]) \in Nat
  BY <1>1, <1>2 DEF WorkFollows
<1>4. LogUpTo(sent[e])[begun[e]] = Logged(Before(e), w.event)
  BY <1>3, LogByEvents DEF Before
<1>5. active'[e] = {} /\ \A f \in Executions \ {e} : active'[f] = active[f]
  BY <1>1
<1>6. StartFollows(e)'
  BY <1>2 DEF RowsOf, StartFollows
<1>7. RowsOf(e)'
  BY <1>4, <1>5, <1>6 DEF RowsOf
<1> QED BY <1>5, <1>7, OtherRowsFollow

\* A statement after which the event goes on to another.
LEMMA EventIsOnItsWay ==
    ASSUME IInv, RowsFollow, faults = 0, NEW e \in Executions, NEW w \in active[e],
           NEW new, active' = [active EXCEPT ![e] = {new}], UNCHANGED <<sent, begun, execution>>,
           \A f \in Executions \ {e} : rows'[f] = rows[f],
           w.at # "createExecution", WorkFollows(e, new)'
    PROVE  RowsFollow'
<1>1. active \in [Executions -> SUBSET Work]
  BY DEF IInv, TypeOK
<1>2. RowsOf(e) /\ WorkFollows(e, w) /\ active[e] = {w}
  BY OneEvent DEF RowsFollow, RowsOf
<1>3. active'[e] = {new} /\ \A f \in Executions \ {e} : active'[f] = active[f]
  BY <1>1
<1>4. execution[e] # "none"
  BY <1>2 DEF RowsOf, StartFollows, WorkFollows
<1>5. RowsOf(e)'
  BY <1>2, <1>3, <1>4 DEF RowsOf, StartFollows
<1> QED BY <1>3, <1>5, OtherRowsFollow

\* The event under way is replaced by itself, further on.
LEMMA OnlyTheNext ==
    ASSUME IInv, NEW e \in Executions, NEW w \in active[e], NEW next
    PROVE  (active[e] \ {w}) \cup {next} = {next}
<1>1. active[e] = {w}
  BY OneEvent
<1> QED BY <1>1

\* The start and the end of an execution are no rows.
LEMMA ExecutionRows ==
    ASSUME IInv, RowsFollow, NEW e \in Executions, NEW w \in active[e],
           CreateExecution(e, w) \/ FinishExecution(e, w)
    PROVE  RowsFollow'
<1> SUFFICES ASSUME faults' = 0 PROVE RowsFollow'
  BY DEF RowsFollow
<1>1. /\ active' = [active EXCEPT ![e] = {}]
      /\ UNCHANGED <<sent, begun, rows, faults>>
  BY OneEvent DEF CreateExecution, FinishExecution
<1>2. w.at \in {"createExecution", "finishExecution"} /\ WorkFollows(e, w)
  BY <1>1 DEF CreateExecution, FinishExecution, RowsFollow, RowsOf
<1>3. Timeline(e)' = Logged(Before(e), w.event)
  BY <1>1, <1>2 DEF WorkFollows, Logged, Timeline
<1>4. /\ execution'[e] # "none"
      /\ \A f \in Executions \ {e} : execution'[f] = execution[f]
  <2>1. w.at = "finishExecution" => w.event.kind \in Terminal
    BY DEF IInv, FindingsHold
  <2> QED BY <2>1 DEF CreateExecution, FinishExecution, IInv, TypeOK, Terminal
<1> QED BY <1>1, <1>3, <1>4, EventIsLogged

\* The current stage is set when its row is there.
LEMMA SetCurrentStageRows ==
    ASSUME IInv, RowsFollow, NEW e \in Executions, NEW w \in active[e], SetCurrentStage(e, w)
    PROVE  RowsFollow'
<1> SUFFICES ASSUME faults' = 0 PROVE RowsFollow'
  BY DEF RowsFollow
<1>1. /\ active' = [active EXCEPT ![e] = {}] /\ active[e] = {w}
      /\ UNCHANGED <<sent, begun, rows, execution, faults>>
  BY OneEvent DEF SetCurrentStage
<1>2. w.at = "setCurrentStage" /\ WorkFollows(e, w) /\ StartFollows(e)
  BY <1>1 DEF SetCurrentStage, RowsFollow, RowsOf
<1>3. Timeline(e)' = Logged(Before(e), w.event)
  BY <1>1, <1>2 DEF WorkFollows, Timeline
<1>4. execution[e] # "none"
  BY <1>1, <1>2 DEF StartFollows, WorkFollows
<1> QED BY <1>1, <1>3, <1>4, EventIsLogged

\* Reading a number changes no row.
LEMMA NextSequenceRows ==
    ASSUME IInv, RowsFollow, NEW e \in Executions, NEW w \in active[e], NextSequence(e, w)
    PROVE  RowsFollow'
<1> SUFFICES ASSUME faults' = 0 PROVE RowsFollow'
  BY DEF RowsFollow
<1>1. LastSequence(e) + 1 \in Nat
  BY NextNumber DEF IInv, TypeOK
<1>2. PICK new : /\ new = [event |-> w.event, at |-> "createStage", found |-> LastSequence(e) + 1]
                 /\ active' = [active EXCEPT ![e] = {new}]
  <2>1. PICK new : new = [event |-> w.event, at |-> "createStage", found |-> LastSequence(e) + 1]
    OBVIOUS
  <2>2. active' = [active EXCEPT ![e] = (active[e] \ {w}) \cup {new}]
    BY <2>1 DEF NextSequence, GoOn
  <2>3. (active[e] \ {w}) \cup {new} = {new}
    BY OnlyTheNext
  <2>4. active' = [active EXCEPT ![e] = {new}]
    BY <2>2, <2>3
  <2> QED BY <2>1, <2>4
<1>3. UNCHANGED <<sent, begun, rows, execution, faults>>
  BY DEF NextSequence
<1>4. w.at = "nextSequence" /\ WorkFollows(e, w)
  BY <1>3 DEF NextSequence, RowsFollow, RowsOf
<1>5. WorkFollows(e, new)'
  BY <1>2, <1>3, <1>4 DEF WorkFollows, Timeline, Before
<1> QED BY <1>2, <1>3, <1>4, <1>5, EventIsOnItsWay

\* The row found is the latest open run, as in the reference.
LEMMA FindLatestOpenStageRows ==
    ASSUME IInv, RowsFollow, NEW e \in Executions, NEW w \in active[e],
           FindLatestOpenStage(e, w)
    PROVE  RowsFollow'
<1> SUFFICES ASSUME faults' = 0 PROVE RowsFollow'
  BY DEF RowsFollow
<1> DEFINE open == OpenRows(rows[e], w.event.stage)
<1>1. UNCHANGED <<sent, begun, rows, execution, faults>>
  BY DEF FindLatestOpenStage
<1>2. w.at = "findLatestOpenStage" /\ WorkFollows(e, w)
  BY <1>1 DEF FindLatestOpenStage, RowsFollow, RowsOf
<1>3. w.event.kind \in {"stageCompleted", "stageFailed"}
  BY <1>2 DEF IInv, FindingsHold
<1>4. /\ Len(Timeline(e)) = Len(rows[e]) /\ Len(rows[e]) \in Nat
      /\ OpenRows(Timeline(e), w.event.stage) = open
  BY TimelineOpen DEF IInv
<1>5. CASE open = {}
  <2>1. PICK new : /\ new = [event |-> w.event, at |-> "nextSequence", found |-> 0]
                   /\ active' = [active EXCEPT ![e] = {new}]
    <3>1. PICK new : new = [event |-> w.event, at |-> "nextSequence", found |-> 0]
      OBVIOUS
    <3>2. active' = [active EXCEPT ![e] = (active[e] \ {w}) \cup {new}]
      BY <1>5, <3>1 DEF FindLatestOpenStage, GoOn
    <3>3. (active[e] \ {w}) \cup {new} = {new}
      BY OnlyTheNext
    <3>4. active' = [active EXCEPT ![e] = {new}]
      BY <3>2, <3>3
    <3> QED BY <3>1, <3>4
  <2>2. WorkFollows(e, new)'
    BY <1>1, <1>2, <1>4, <1>5, <2>1 DEF WorkFollows, Timeline, Before
  <2> QED BY <1>1, <1>2, <2>1, <2>2, EventIsOnItsWay
<1>6. CASE open # {}
  <2>1. PICK i \in open : /\ \A j \in open : rows[e][j].sequence <= rows[e][i].sequence
                          /\ GoOn(e, w, "completeStage", i)
    BY <1>6 DEF FindLatestOpenStage
  <2>2. PICK new : /\ new = [event |-> w.event, at |-> "completeStage", found |-> i]
                   /\ active' = [active EXCEPT ![e] = {new}]
    <3>1. PICK new : new = [event |-> w.event, at |-> "completeStage", found |-> i]
      OBVIOUS
    <3>2. active' = [active EXCEPT ![e] = (active[e] \ {w}) \cup {new}]
      BY <2>1, <3>1 DEF GoOn
    <3>3. (active[e] \ {w}) \cup {new} = {new}
      BY OnlyTheNext
    <3>4. active' = [active EXCEPT ![e] = {new}]
      BY <3>2, <3>3
    <3> QED BY <3>1, <3>4
  <2>3. \A j \in open : j <= i
    BY <2>1 DEF OpenRows, IInv, TimelineSound
  <2>4. Logged(Timeline(e), w.event) = [Timeline(e) EXCEPT ![i] = Entry(w.event)]
    BY <1>3, <1>4, <2>3, EndOfRun
  <2>5. Timeline(e)[i].stage = w.event.stage
    BY <1>4 DEF OpenRows
  <2>6. Timeline(e)' = Timeline(e) /\ Before(e)' = Before(e) /\ Timeline(e) = Before(e)
    BY <1>1, <1>2 DEF WorkFollows, Timeline, Before
  <2>7. WorkFollows(e, new)'
    BY <1>1, <1>2, <2>2, <2>4, <2>5, <2>6 DEF WorkFollows
  <2> QED BY <1>1, <1>2, <2>2, <2>7, EventIsOnItsWay
<1> QED BY <1>5, <1>6

\* A new row is the last of the timeline.
LEMMA CreateStageRows ==
    ASSUME IInv, RowsFollow, NEW e \in Executions, NEW w \in active[e], CreateStage(e, w)
    PROVE  RowsFollow'
<1> SUFFICES ASSUME faults' = 0 PROVE RowsFollow'
  BY DEF RowsFollow
<1>1. UNCHANGED <<sent, begun, execution, faults>> /\ w.at = "createStage"
  BY DEF CreateStage
<1>2. WorkFollows(e, w)
  BY <1>1 DEF RowsFollow, RowsOf
<1>3. w.event.kind \in Kinds
  BY <1>1 DEF IInv, FindingsHold
<1>4. PICK status, added :
          /\ status = IF w.event.kind = "stageCompleted" THEN "running" ELSE StatusOf(w.event.kind)
          /\ added = [stage |-> w.event.stage, status |-> status, sequence |-> w.found]
          /\ rows' = [rows EXCEPT ![e] = Append(@, added)]
  BY DEF CreateStage
<1>5. /\ rows \in [Executions -> Seq(Row)] /\ Len(rows[e]) \in Nat
      /\ rows'[e] = Append(rows[e], added)
      /\ \A f \in Executions \ {e} : rows'[f] = rows[f]
  BY <1>4 DEF IInv, TypeOK
<1>6. Timeline(e)' = Append(Timeline(e), [stage |-> w.event.stage, status |-> status])
  <2>0. PICK shown : shown = [stage |-> w.event.stage, status |-> status]
    OBVIOUS
  <2>1. /\ Len(rows'[e]) = Len(rows[e]) + 1
        /\ \A i \in 1..Len(rows[e]) : rows'[e][i] = rows[e][i]
        /\ rows'[e][Len(rows[e]) + 1] = added
    BY <1>5
  <2>2. Timeline(e)' = [i \in 1..Len(rows[e]) + 1 |->
            IF i = Len(rows[e]) + 1 THEN shown
            ELSE [stage |-> rows[e][i].stage, status |-> rows[e][i].status]]
    <3>1. rows'[e][Len(rows[e]) + 1].stage = w.event.stage
          /\ rows'[e][Len(rows[e]) + 1].status = status
      BY <1>4, <2>1
    <3>2. Timeline(e)' = [i \in 1..Len(rows[e]) + 1 |->
              [stage |-> rows'[e][i].stage, status |-> rows'[e][i].status]]
      BY <2>1 DEF Timeline
    <3>3. \A i \in 1..Len(rows[e]) + 1 : i = Len(rows[e]) + 1 \/ i \in 1..Len(rows[e])
      BY <1>5
    <3> QED BY <2>0, <2>1, <3>1, <3>2, <3>3
  <2>3. Timeline(e) \in Seq([stage : Stages, status : RowStatuses]) /\ Len(Timeline(e)) = Len(rows[e])
    BY <1>5, TimelineOpen, TimelineType DEF IInv
  <2>4. Append(Timeline(e), shown) = [i \in 1..Len(rows[e]) + 1 |->
            IF i = Len(rows[e]) + 1 THEN shown ELSE Timeline(e)[i]]
    BY <2>3, AppendEntry
  <2>5. \A i \in 1..Len(rows[e]) :
            Timeline(e)[i] = [stage |-> rows[e][i].stage, status |-> rows[e][i].status]
    BY DEF Timeline
  <2>6. \A i \in 1..Len(rows[e]) + 1 : i # Len(rows[e]) + 1 => i \in 1..Len(rows[e])
    BY <1>5
  <2> QED BY <2>0, <2>2, <2>4, <2>5, <2>6
<1>7. /\ Timeline(e) = Before(e) /\ Before(e)' = Before(e)
      /\ w.event.kind \in {"stageCompleted", "stageFailed"} =>
             OpenRows(Before(e), w.event.stage) = {}
  BY <1>1, <1>2 DEF WorkFollows, Before
<1>8. Logged(Before(e), w.event) = Append(Timeline(e), Entry(w.event))
  BY <1>3, <1>7 DEF Logged, Entry
<1>9. CASE w.event.kind = "stageStarted"
  <2>1. PICK new : /\ new = [event |-> w.event, at |-> "setCurrentStage", found |-> 0]
                   /\ active' = [active EXCEPT ![e] = {new}]
    <3>1. PICK new : new = [event |-> w.event, at |-> "setCurrentStage", found |-> 0]
      OBVIOUS
    <3>2. active' = [active EXCEPT ![e] = (active[e] \ {w}) \cup {new}]
      BY <1>9, <3>1 DEF CreateStage, GoOn
    <3>3. (active[e] \ {w}) \cup {new} = {new}
      BY OnlyTheNext
    <3>4. active' = [active EXCEPT ![e] = {new}]
      BY <3>2, <3>3
    <3> QED BY <3>1, <3>4
  <2>2. WorkFollows(e, new)'
    BY <1>1, <1>2, <1>4, <1>6, <1>7, <1>8, <1>9, <2>1 DEF WorkFollows, Entry
  <2> QED BY <1>1, <1>5, <2>1, <2>2, EventIsOnItsWay
<1>10. CASE w.event.kind = "stageCompleted"
  <2>1. PICK new : /\ new = [event |-> w.event, at |-> "completeStage", found |-> Len(rows[e]) + 1]
                   /\ active' = [active EXCEPT ![e] = {new}]
    <3>1. PICK new : new = [event |-> w.event, at |-> "completeStage", found |-> Len(rows[e]) + 1]
      OBVIOUS
    <3>2. active' = [active EXCEPT ![e] = (active[e] \ {w}) \cup {new}]
      BY <1>10, <3>1 DEF CreateStage, GoOn
    <3>3. (active[e] \ {w}) \cup {new} = {new}
      BY OnlyTheNext
    <3>4. active' = [active EXCEPT ![e] = {new}]
      BY <3>2, <3>3
    <3> QED BY <3>1, <3>4
  <2>2. Len(Timeline(e)) = Len(rows[e])
    BY TimelineOpen DEF IInv
  <2>3. /\ Timeline(e)'[Len(rows[e]) + 1].stage = w.event.stage
        /\ [Timeline(e)' EXCEPT ![Len(rows[e]) + 1] = Entry(w.event)]
               = Append(Timeline(e), Entry(w.event))
    <3>1. Timeline(e) \in Seq([stage : Stages, status : RowStatuses])
      BY TimelineType DEF IInv
    <3>2. PICK shown, ended : /\ shown = [stage |-> w.event.stage, status |-> status]
                              /\ ended = Entry(w.event)
      OBVIOUS
    <3>3. [Append(Timeline(e), shown) EXCEPT ![Len(Timeline(e)) + 1] = ended]
              = Append(Timeline(e), ended)
      <4>1. Len(Timeline(e)) \in Nat
        BY <3>1
      <4> QED BY <3>1, <4>1, AppendEntry
    <3>4. Append(Timeline(e), shown)[Len(Timeline(e)) + 1] = shown
      BY <3>1
    <3> QED BY <1>6, <2>2, <3>2, <3>3, <3>4
  <2>4. WorkFollows(e, new)'
    BY <1>1, <1>2, <1>7, <1>8, <2>1, <2>3 DEF WorkFollows
  <2> QED BY <1>1, <1>5, <2>1, <2>4, EventIsOnItsWay
<1>11. CASE w.event.kind \notin {"stageStarted", "stageCompleted"}
  <2>1. active' = [active EXCEPT ![e] = {}] /\ execution[e] # "none"
    BY <1>11, OneEvent DEF CreateStage
  <2>2. Timeline(e)' = Logged(Before(e), w.event)
    BY <1>4, <1>6, <1>8, <1>11 DEF Entry
  <2> QED BY <1>1, <1>5, <2>1, <2>2, EventIsLogged
<1> QED BY <1>9, <1>10, <1>11

\* The row found is completed in its place.
LEMMA CompleteStageRows ==
    ASSUME IInv, RowsFollow, NEW e \in Executions, NEW w \in active[e], CompleteStage(e, w)
    PROVE  RowsFollow'
<1> SUFFICES ASSUME faults' = 0 PROVE RowsFollow'
  BY DEF RowsFollow
<1>1. /\ UNCHANGED <<sent, begun, execution, faults>> /\ w.at = "completeStage"
      /\ active' = [active EXCEPT ![e] = {}] /\ active[e] = {w}
  BY OneEvent DEF CompleteStage
<1>2. WorkFollows(e, w) /\ StartFollows(e)
  BY <1>1 DEF RowsFollow, RowsOf
<1>3. rows \in [Executions -> Seq(Row)] /\ w.found \in 1..Len(rows[e])
  BY <1>1 DEF IInv, TypeOK, FindingsHold
<1>4. rows' = [rows EXCEPT ![e][w.found].status = StatusOf(w.event.kind)]
  BY DEF CompleteStage
<1>5. /\ Len(rows'[e]) = Len(rows[e])
      /\ \A i \in 1..Len(rows[e]) \ {w.found} : rows'[e][i] = rows[e][i]
      /\ rows'[e][w.found].stage = rows[e][w.found].stage
      /\ rows'[e][w.found].status = StatusOf(w.event.kind)
      /\ \A f \in Executions \ {e} : rows'[f] = rows[f]
  BY <1>3, <1>4 DEF Row
<1>6. Timeline(e)[w.found].stage = rows[e][w.found].stage
  BY <1>3 DEF Timeline
<1>7. Timeline(e)' = [Timeline(e) EXCEPT ![w.found] = Entry(w.event)]
  <2>1. rows[e][w.found].stage = w.event.stage
    BY <1>1, <1>2, <1>6 DEF WorkFollows
  <2> QED BY <1>5, <2>1 DEF Timeline, Entry
<1>8. Timeline(e)' = Logged(Before(e), w.event)
  BY <1>1, <1>2, <1>7 DEF WorkFollows
<1>9. execution[e] # "none"
  BY <1>1, <1>2 DEF StartFollows, WorkFollows
<1> QED BY <1>1, <1>5, <1>8, <1>9, EventIsLogged

\* Without a fault nothing fails: the row of the execution is there.
LEMMA FailsRows ==
    ASSUME IInv, RowsFollow, NEW e \in Executions, NEW w \in active[e], Fails(e, w)
    PROVE  RowsFollow'
<1> SUFFICES ASSUME faults' = 0 PROVE FALSE
  BY DEF RowsFollow
<1>1. faults \in Nat
  BY TrackerAssumption DEF IInv, TypeOK
<1>2. /\ faults = 0 /\ execution[e] = "none"
      /\ w.at \in {"createStage", "setCurrentStage", "finishExecution"}
  BY <1>1 DEF Fails
<1>3. active[e] = {w} /\ StartFollows(e) /\ WorkFollows(e, w)
  BY <1>2, OneEvent DEF RowsFollow, RowsOf
<1> QED BY <1>2, <1>3 DEF StartFollows, WorkFollows

\* Each step keeps the rows with the events.
LEMMA RowsStep == IInv /\ RowsFollow /\ [Next]_vars => RowsFollow'
<1> SUFFICES ASSUME IInv, RowsFollow, [Next]_vars PROVE RowsFollow'
  OBVIOUS
<1>1. CASE Next
  <2>1. PICK e \in Executions : Emit(e) \/ Track(e)
    BY <1>1 DEF Next
  <2>2. CASE Emit(e)
    BY <2>2, EmitRows
  <2>3. CASE Begin(e)
    BY <2>3, BeginRows
  <2>4. CASE \E w \in active[e] : Statement(e, w)
    BY <2>4, ExecutionRows, NextSequenceRows, CreateStageRows, SetCurrentStageRows,
       FindLatestOpenStageRows, CompleteStageRows, FailsRows DEF Statement
  <2> QED BY <2>1, <2>2, <2>3, <2>4 DEF Track
<1>2. CASE UNCHANGED vars
  <2>1. UNCHANGED <<sent, begun, active, rows, execution, faults>>
    BY <1>2 DEF vars
  <2>2. SUFFICES ASSUME faults = 0, NEW e \in Executions PROVE RowsOf(e)'
    BY <2>1 DEF RowsFollow
  <2>3. Timeline(e)' = Timeline(e) /\ Before(e)' = Before(e)
    BY <2>1 DEF Timeline, Before
  <2>4. \A w \in active[e] : WorkFollows(e, w) => WorkFollows(e, w)'
    BY <2>1, <2>3 DEF WorkFollows
  <2>5. StartFollows(e) => StartFollows(e)'
    BY <2>1 DEF StartFollows
  <2> QED BY <2>1, <2>2, <2>3, <2>4, <2>5 DEF RowsFollow, RowsOf
<1> QED BY <1>1, <1>2

\* Where no statement failed and nothing is left to work off, the rows of an
\* execution are those the reference computes from its events, however many
\* runs of a stage were open at once.
THEOREM RowsAlwaysFollow == Spec => []RowsAreTheEvents
<1>1. Init => RowsFollow
  <2> SUFFICES ASSUME Init, NEW e \in Executions PROVE RowsOf(e)
    BY DEF RowsFollow
  <2>1. sent[e] = <<>> /\ begun[e] = 0 /\ active[e] = {} /\ rows[e] = <<>>
    BY DEF Init
  <2>2. Len(sent[e]) = 0 /\ Timeline(e) = <<>>
    BY <2>1 DEF Timeline
  <2>3. Timeline(e) = LogUpTo(sent[e])[begun[e]]
    BY <2>1, <2>2, LogByEvents
  <2> QED BY <2>1, <2>2, <2>3 DEF RowsOf, StartFollows
<1>2. RowsFollow => RowsAreTheEvents
  BY DEF RowsFollow, RowsOf, RowsAreTheEvents, Drained, LogOf
<1> QED BY <1>1, <1>2, RowsStep, TrackerInvariance, PTL DEF Spec

---------------------------------------------------------------------------
(* The calls of a provider.                                                *)

\* The bucket is the mirror image of the debt: RateKept alone is not
\* inductive, because a grant looks at the tokens and not at the debt.
BucketMirrorsDebt == tokens + debt = Capacity

CallsInv == CallsTypeOK /\ CircuitMatchesFailures /\ BucketMirrorsDebt

\* Every operation of the breaker keeps its type and its agreement between
\* state and failure count.
Agrees(b) == b \in Circuit /\ ((b.state = "closed") <=> (b.failures < Threshold))

\* What callers tell the breaker keeps the two together.
LEMMA BreakerKept ==
    ASSUME NEW b, Agrees(b)
    PROVE  /\ Agrees(MaybeHalfOpen(b))
           /\ Agrees(RecordSuccess(b))
           /\ Agrees(RecordFailure(b))
           /\ Agrees([b EXCEPT !.cooling = IF @ > 0 THEN @ - 1 ELSE 0])
<1> USE BreakerAssumption DEF Agrees, Circuit, CircuitStates
<1>1. Agrees(MaybeHalfOpen(b))
  BY DEF MaybeHalfOpen
<1>2. Agrees(RecordSuccess(b))
  BY DEF RecordSuccess
<1>3. Agrees(RecordFailure(b))
  BY DEF RecordFailure
<1>4. Agrees([b EXCEPT !.cooling = IF @ > 0 THEN @ - 1 ELSE 0])
  OBVIOUS
<1>5. QED
  BY <1>1, <1>2, <1>3, <1>4

\* It holds in the beginning.
LEMMA CallInit == CallsInit => CallsInv
BY BreakerAssumption
   DEF CallsInit, CallsInv, CallsTypeOK, Circuit, CircuitStates, Steps, CircuitMatchesFailures, BucketMirrorsDebt

\* And every step keeps it.
LEMMA CallStep == CallsInv /\ [CallsNext]_callsVars => CallsInv'
<1> SUFFICES ASSUME CallsInv, [CallsNext]_callsVars
             PROVE  CallsInv'
  OBVIOUS
<1> USE BreakerAssumption
<1>0. Agrees(breaker)
  BY DEF CallsInv, CallsTypeOK, CircuitMatchesFailures, Agrees
<1>a. ASSUME Agrees(breaker'), CallsTypeOK', BucketMirrorsDebt'
      PROVE  CallsInv'
  BY <1>a DEF CallsInv, CircuitMatchesFailures, Agrees
<1>1. CASE UNCHANGED callsVars
  BY <1>1 DEF callsVars, CallsInv, CallsTypeOK, CircuitMatchesFailures, BucketMirrorsDebt
<1>2. CASE Tick
  <2>1. Agrees(breaker')
    BY <1>0, <1>2, BreakerKept DEF Tick
  <2>2. CallsTypeOK'
    BY <1>2, <2>1 DEF Tick, CallsInv, CallsTypeOK, Agrees
  <2>3. BucketMirrorsDebt'
    BY <1>2 DEF Tick, CallsInv, CallsTypeOK, BucketMirrorsDebt
  <2>4. QED
    BY <1>a, <2>1, <2>2, <2>3
<1>3. ASSUME NEW c \in Calls, Call(c)
      PROVE  CallsInv'
  <2>1. Agrees(breaker')
    BY <1>0, <1>3, BreakerKept
       DEF Call, Start, PrepareFails, Admit, Reject, Acquire, Answered, CallFails, WriteUsage, WriteUsageFails
  <2>2. breaker' \in Circuit
    BY <2>1 DEF Agrees
  <2>3. /\ pc' \in [Calls -> Steps]
        /\ lastUsage' \in Calls \cup {NoCall}
        /\ row' \in [Calls -> Calls \cup {NoCall}]
    BY <1>3 DEF Call, Start, PrepareFails, Admit, Reject, Acquire, Answered, CallFails, WriteUsage,
                WriteUsageFails, CallsInv, CallsTypeOK, Steps
  <2>4. tokens' \in 0..Capacity /\ debt' \in Nat /\ BucketMirrorsDebt'
    <3>1. CASE Acquire(c)
      BY <3>1 DEF Acquire, CallsInv, CallsTypeOK, BucketMirrorsDebt
    <3>2. CASE UNCHANGED <<tokens, debt>>
      BY <3>2 DEF CallsInv, CallsTypeOK, BucketMirrorsDebt
    <3>3. QED
      BY <1>3, <3>1, <3>2
         DEF Call, Start, PrepareFails, Admit, Reject, Answered, CallFails, WriteUsage, WriteUsageFails
  <2>5. insideTry' \in BOOLEAN
    BY <1>3 DEF Call, Start, PrepareFails, Admit, Reject, Acquire, Answered, CallFails, WriteUsage,
                WriteUsageFails, CallsInv, CallsTypeOK
  <2>6. QED
    BY <1>a, <2>1, <2>2, <2>3, <2>4, <2>5 DEF CallsTypeOK
<1>4. QED
  BY <1>1, <1>2, <1>3 DEF CallsNext

\* So it always holds.
LEMMA CallInvariance == CallsSpec => []CallsInv
BY CallInit, CallStep, PTL DEF CallsSpec

\* The failure count and the state of the circuit agree in every reachable
\* state of any number of concurrent calls.
THEOREM CircuitAgrees == CallsSpec => []CircuitMatchesFailures
<1>1. CallsInv => CircuitMatchesFailures
  BY DEF CallsInv
<1>2. QED
  BY <1>1, CallInvariance, PTL

\* The provider never sees more than the bucket and one request per tick.
THEOREM NeverOverRate == CallsSpec => []RateKept
<1>1. CallsInv => RateKept
  BY BreakerAssumption DEF CallsInv, CallsTypeOK, BucketMirrorsDebt, RateKept
<1>2. QED
  BY <1>1, CallInvariance, PTL

\* Every variable keeps its type: no counter leaves its bounds.
THEOREM CallsTypeCorrect == CallsSpec => []CallsTypeOK
<1>1. CallsInv => CallsTypeOK
  BY DEF CallsInv
<1>2. QED
  BY <1>1, CallInvariance, PTL

---------------------------------------------------------------------------
(* Image retrieval. *)

\* Two slots never hold the same claim.
ClaimsDiffer ==
    \A s, t \in Slots : s # t /\ claimed[s] # NoAsset => claimed[s] # claimed[t]

\* A claim takes its image out of the pool for good.
ClaimsAreUsed == \A s \in Slots : claimed[s] # NoAsset => claimed[s] \in used

\* A slot holds a claim exactly between claiming and returning it.
ClaimingSlots ==
    \A s \in Slots :
        /\ reached[s] \in {"waiting", "search", "claim"} => claimed[s] = NoAsset
        /\ reached[s] \in {"sign", "colors"} => claimed[s] # NoAsset

\* A slot that may search has attempts left.
AttemptsLeft ==
    \A s \in Slots : reached[s] \in {"waiting", "search"} => attempt[s] < MaxAttempts

\* An image is shown only by the slot that claimed it.
FoundIsClaimed ==
    \A s \in Slots : Found(s) => claimed[s] # NoAsset /\ reference[s].asset = claimed[s]

\* Nothing is taken out of the pool that no slot holds.
UsedIsClaimed == \A a \in used : \E s \in Slots : claimed[s] = a

\* The record of a slot names what the slot shows or is about to show.
RecordsFollow ==
    \A s \in Slots :
        /\ reached[s] \in {"waiting", "search", "claim", "sign"} => record[s].asset = NoAsset
        /\ reached[s] = "colors" => record[s].asset = claimed[s]
        /\ reached[s] = "done" => record[s].asset = reference[s].asset

SlotsInv ==
    /\ RetrievalTypeOK
    /\ AttemptsLeft
    /\ ClaimsDiffer
    /\ ClaimsAreUsed
    /\ ClaimingSlots
    /\ FoundIsClaimed
    /\ UsedIsClaimed
    /\ BestOfTheRest
    /\ RecordsFollow

\* The stage starts with every slot waiting and nothing claimed.
LEMMA SlotsInit == RetrievalInit => SlotsInv
<1> SUFFICES ASSUME RetrievalInit PROVE SlotsInv
  OBVIOUS
<1>1. RetrievalTypeOK
  BY PoolAssumption DEF RetrievalInit, RetrievalTypeOK, SlotSteps, References, Records, Statuses
<1>2. AttemptsLeft
  BY PoolAssumption DEF RetrievalInit, AttemptsLeft
<1>3. ClaimsDiffer /\ ClaimsAreUsed /\ ClaimingSlots /\ FoundIsClaimed
  BY DEF RetrievalInit, ClaimsDiffer, ClaimsAreUsed, ClaimingSlots, FoundIsClaimed, Found
<1>4. UsedIsClaimed /\ BestOfTheRest /\ RecordsFollow
  BY DEF RetrievalInit, UsedIsClaimed, BestOfTheRest, RecordsFollow
<1> QED BY <1>1, <1>2, <1>3, <1>4 DEF SlotsInv

\* A step of one slot moves that slot only.
LEMMA OneSlot ==
    ASSUME RetrievalTypeOK, NEW s \in Slots, Slot(s)
    PROVE  \A t \in Slots \ {s} :
               /\ reached'[t] = reached[t]
               /\ attempt'[t] = attempt[t]
               /\ claimed'[t] = claimed[t]
               /\ reference'[t] = reference[t]
BY DEF RetrievalTypeOK, Slot, RetrieveForCard, SearchAnswers, SearchAgain, SearchGivesUp, Claim,
       NothingToClaim, Sign, LoadColors, LoadColorsFails, Return, Recorded

\* Every step of a slot keeps the types.
LEMMA SlotTypes ==
    ASSUME RetrievalTypeOK, AttemptsLeft, NEW s \in Slots, Slot(s)
    PROVE  RetrievalTypeOK'
<1> USE PoolAssumption, LibraryAssumption DEF RetrievalTypeOK
<1> USE DEF SlotSteps, References, Records, Statuses
<1>1. CASE RetrieveForCard(s)
  <2>1. CASE s \in NoQuery
    <3>0. Return(s, "IMAGE_NOT_FOUND", NoAsset)
      BY <1>1, <2>1 DEF RetrieveForCard
    <3>1. reached' \in [Slots -> SlotSteps] /\ reference' \in [Slots -> References]
      BY <3>0 DEF Return
    <3>2. UNCHANGED <<attempt, results, used, claimed, record>>
      BY <1>1, <2>1 DEF RetrieveForCard
    <3> QED BY <3>1, <3>2
  <2>2. CASE s \notin NoQuery
    <3>0. reached' = [reached EXCEPT ![s] = "search"] /\ Recorded(s, "started", NoAsset)
      BY <1>1, <2>2 DEF RetrieveForCard
    <3>1. reached' \in [Slots -> SlotSteps] /\ record' \in [Slots -> Records]
      BY <3>0 DEF Recorded
    <3>2. UNCHANGED <<attempt, results, used, claimed, reference>>
      BY <1>1, <2>2 DEF RetrieveForCard
    <3> QED BY <3>1, <3>2
  <2> QED BY <2>1, <2>2
<1>2. CASE SearchAnswers(s)
  <2>1. results' \in [Slots -> Seq(Assets)]
    BY <1>2 DEF SearchAnswers
  <2> QED BY <1>2, <2>1 DEF SearchAnswers
<1>3. CASE SearchAgain(s)
  BY <1>3 DEF SearchAgain
<1>4. CASE SearchGivesUp(s)
  <2>1. attempt'[s] \in 0..MaxAttempts
    BY <1>4 DEF SearchGivesUp, AttemptsLeft
  <2> QED BY <1>4, <2>1 DEF SearchGivesUp, Return, Recorded
<1>5. CASE Claim(s)
  BY <1>5 DEF Claim, IsTopUnused
<1>6. CASE NothingToClaim(s)
  BY <1>6 DEF NothingToClaim, Return, Recorded
<1>7. CASE Sign(s)
  BY <1>7 DEF Sign, Recorded
<1>8. CASE LoadColors(s)
  BY <1>8 DEF LoadColors, Return
<1>9. CASE LoadColorsFails(s)
  BY <1>9 DEF LoadColorsFails, Return, Recorded
<1> QED
  BY <1>1, <1>2, <1>3, <1>4, <1>5, <1>6, <1>7, <1>8, <1>9 DEF Slot

\* Every step of a slot keeps the claims distinct, used, and where they belong.
LEMMA SlotKeepsClaims ==
    ASSUME SlotsInv, NEW s \in Slots, Slot(s)
    PROVE  AttemptsLeft' /\ ClaimsDiffer' /\ ClaimsAreUsed' /\ ClaimingSlots' /\ FoundIsClaimed'
<1>1. RetrievalTypeOK /\ AttemptsLeft /\ ClaimsDiffer /\ ClaimsAreUsed /\ ClaimingSlots /\ FoundIsClaimed
  BY DEF SlotsInv
<1>2. \A t \in Slots \ {s} :
          /\ reached'[t] = reached[t]
          /\ attempt'[t] = attempt[t]
          /\ claimed'[t] = claimed[t]
          /\ reference'[t] = reference[t]
  BY <1>1, OneSlot
<1>3. s \in DOMAIN reached /\ s \in DOMAIN attempt /\ s \in DOMAIN claimed /\ s \in DOMAIN reference
  BY <1>1 DEF RetrievalTypeOK
<1>4. ASSUME reached'[s] \in {"waiting", "search"}
      PROVE  attempt'[s] < MaxAttempts
  BY <1>1, <1>3, <1>4, PoolAssumption
     DEF Slot, RetrieveForCard, SearchAnswers, SearchAgain, SearchGivesUp, Claim, NothingToClaim,
         Sign, LoadColors, LoadColorsFails, Return, AttemptsLeft, RetrievalTypeOK
<1>5. AttemptsLeft'
  BY <1>1, <1>2, <1>4 DEF AttemptsLeft
<1>6. CASE Claim(s)
  <2>1. PICK i \in DOMAIN results[s] :
            /\ results[s][i] \notin used
            /\ used' = used \cup {results[s][i]}
            /\ claimed' = [claimed EXCEPT ![s] = results[s][i]]
    BY <1>6 DEF Claim, IsTopUnused
  <2>2. claimed'[s] = results[s][i] /\ results[s][i] \in Assets
    BY <1>1, <1>3, <2>1 DEF RetrievalTypeOK
  <2>3. results[s][i] # NoAsset
    BY <2>2, LibraryAssumption
  <2>4. reached'[s] = "sign" /\ reference' = reference
    BY <1>3, <1>6 DEF Claim
  <2>5. \A t \in Slots \ {s} : claimed[t] # NoAsset => claimed[t] # results[s][i]
    BY <1>1, <2>1 DEF ClaimsAreUsed
  <2>6. ClaimsDiffer' /\ ClaimsAreUsed'
    BY <1>1, <1>2, <2>1, <2>2, <2>3, <2>5 DEF ClaimsDiffer, ClaimsAreUsed
  <2>7. ClaimingSlots'
    BY <1>1, <1>2, <2>2, <2>3, <2>4 DEF ClaimingSlots
  <2>8. ~ Found(s)
    BY <1>1, <1>6 DEF Claim, ClaimingSlots, FoundIsClaimed
  <2>9. FoundIsClaimed'
    BY <1>1, <1>2, <2>4, <2>8 DEF FoundIsClaimed, Found
  <2> QED BY <1>5, <2>6, <2>7, <2>9
<1>7. CASE ~ Claim(s)
  <2>1. used' = used /\ claimed' = claimed
    BY <1>7 DEF Slot, RetrieveForCard, SearchAnswers, SearchAgain, SearchGivesUp, NothingToClaim,
                Sign, LoadColors, LoadColorsFails
  <2>2. ClaimsDiffer' /\ ClaimsAreUsed'
    BY <1>1, <2>1 DEF ClaimsDiffer, ClaimsAreUsed
  <2>3. /\ reached'[s] \in {"waiting", "search", "claim"} => reached[s] \in {"waiting", "search", "claim"}
        /\ reached'[s] \in {"sign", "colors"} => reached[s] \in {"sign", "colors"}
    BY <1>3, <1>7 DEF Slot, RetrieveForCard, SearchAnswers, SearchAgain, SearchGivesUp,
                      NothingToClaim, Sign, LoadColors, LoadColorsFails, Return
  <2>4. ClaimingSlots'
    BY <1>1, <1>2, <2>1, <2>3 DEF ClaimingSlots
  <2>5. reference'[s].status = "found" =>
            reference'[s] = reference[s]
            \/ (claimed[s] # NoAsset /\ reference'[s].asset = claimed[s])
    BY <1>1, <1>3, <1>7 DEF Slot, RetrieveForCard, SearchAnswers, SearchAgain, SearchGivesUp,
                      NothingToClaim, Sign, LoadColors, LoadColorsFails, Return, ClaimingSlots
  <2>6. FoundIsClaimed'
    BY <1>1, <1>2, <2>1, <2>5 DEF FoundIsClaimed, Found
  <2> QED BY <1>5, <2>2, <2>4, <2>6
<1> QED BY <1>6, <1>7

\* A slot that claims passes over claims of others only, and nothing that was
\* claimed is claimed again or given back.
LEMMA SlotKeepsTheBest ==
    ASSUME SlotsInv, NEW s \in Slots, Slot(s)
    PROVE  UsedIsClaimed' /\ BestOfTheRest'
<1>1. RetrievalTypeOK /\ ClaimingSlots /\ UsedIsClaimed /\ BestOfTheRest
  BY DEF SlotsInv
<1>2. CASE Claim(s)
  <2>1. PICK i \in DOMAIN results[s] :
            /\ \A j \in 1..i - 1 : results[s][j] \in used
            /\ used' = used \cup {results[s][i]}
            /\ claimed' = [claimed EXCEPT ![s] = results[s][i]]
    BY <1>2 DEF Claim, IsTopUnused
  <2>2. claimed[s] = NoAsset /\ results' = results
    BY <1>1, <1>2 DEF Claim, ClaimingSlots
  <2>3. claimed'[s] = results[s][i] /\ \A t \in Slots \ {s} : claimed'[t] = claimed[t]
    BY <1>1, <2>1 DEF RetrievalTypeOK
  <2>4. \A a \in used : \E t \in Slots \ {s} : claimed[t] = a
    BY <1>1, <2>2, LibraryAssumption DEF UsedIsClaimed, RetrievalTypeOK
  <2>5. UsedIsClaimed'
    BY <2>1, <2>3, <2>4 DEF UsedIsClaimed
  <2>6. \A j \in 1..i - 1 : \E t \in Slots \ {s} : claimed'[t] = results[s][j]
    BY <2>1, <2>3, <2>4
  <2>7. ASSUME NEW t \in Slots \ {s}, claimed'[t] # NoAsset
        PROVE  \E k \in DOMAIN results[t] :
                  /\ results[t][k] = claimed'[t]
                  /\ \A j \in 1..k - 1 : \E u \in Slots \ {t} : claimed'[u] = results[t][j]
    <3>1. PICK k \in DOMAIN results[t] :
              /\ results[t][k] = claimed[t]
              /\ \A j \in 1..k - 1 : \E u \in Slots \ {t} : claimed[u] = results[t][j]
      BY <1>1, <2>3, <2>7 DEF BestOfTheRest
    <3>2. \A j \in 1..k - 1 : results[t][j] # NoAsset
      BY <1>1, <3>1, LibraryAssumption DEF RetrievalTypeOK
    <3>3. \A u \in Slots : claimed[u] # NoAsset => claimed'[u] = claimed[u]
      BY <2>2, <2>3
    <3> QED BY <2>3, <3>1, <3>2, <3>3
  <2> QED BY <2>1, <2>2, <2>3, <2>5, <2>6, <2>7 DEF BestOfTheRest
<1>3. CASE ~ Claim(s)
  <2>1. used' = used /\ claimed' = claimed
    BY <1>3 DEF Slot, RetrieveForCard, SearchAnswers, SearchAgain, SearchGivesUp, NothingToClaim,
                Sign, LoadColors, LoadColorsFails
  <2>2. \A t \in Slots : claimed[t] # NoAsset => results'[t] = results[t]
    BY <1>1, <1>3 DEF Slot, RetrieveForCard, SearchAnswers, SearchAgain, SearchGivesUp,
                NothingToClaim, Sign, LoadColors, LoadColorsFails, ClaimingSlots, RetrievalTypeOK
  <2>3. UsedIsClaimed'
    BY <1>1, <2>1 DEF UsedIsClaimed
  <2>4. BestOfTheRest'
    BY <1>1, <2>1, <2>2 DEF BestOfTheRest
  <2> QED BY <2>3, <2>4
<1> QED BY <1>2, <1>3

\* Every step that shows something has recorded it, or records it with it.
LEMMA SlotKeepsRecords ==
    ASSUME SlotsInv, NEW s \in Slots, Slot(s)
    PROVE  RecordsFollow'
<1>1. RetrievalTypeOK /\ RecordsFollow
  BY DEF SlotsInv
<1>2. \A t \in Slots \ {s} :
          /\ reached'[t] = reached[t]
          /\ claimed'[t] = claimed[t]
          /\ reference'[t] = reference[t]
  BY <1>1, OneSlot
<1>3. \A t \in Slots \ {s} : record'[t] = record[t]
  BY <1>1 DEF RetrievalTypeOK, Slot, RetrieveForCard, SearchAnswers, SearchAgain, SearchGivesUp, Claim,
       NothingToClaim, Sign, LoadColors, LoadColorsFails, Return, Recorded
<1>4. /\ reached'[s] \in {"waiting", "search", "claim", "sign"} => record'[s].asset = NoAsset
      /\ reached'[s] = "colors" => record'[s].asset = claimed'[s]
      /\ reached'[s] = "done" => record'[s].asset = reference'[s].asset
  BY <1>1 DEF RetrievalTypeOK, RecordsFollow, Slot, RetrieveForCard, SearchAnswers, SearchAgain,
       SearchGivesUp, Claim, NothingToClaim, Sign, LoadColors, LoadColorsFails, Return, Recorded
<1> QED BY <1>1, <1>2, <1>3, <1>4 DEF RecordsFollow

\* The invariant is kept by every step and by stuttering.
LEMMA SlotStep == SlotsInv /\ [RetrievalNext]_retrievalVars => SlotsInv'
<1> SUFFICES ASSUME SlotsInv, [RetrievalNext]_retrievalVars PROVE SlotsInv'
  OBVIOUS
<1>1. CASE RetrievalNext
  <2>1. PICK s \in Slots : Slot(s)
    BY <1>1 DEF RetrievalNext
  <2>2. RetrievalTypeOK'
    BY <2>1, SlotTypes DEF SlotsInv
  <2> QED BY <2>1, <2>2, SlotKeepsClaims, SlotKeepsTheBest, SlotKeepsRecords DEF SlotsInv
<1>2. CASE UNCHANGED retrievalVars
  BY <1>2 DEF retrievalVars, SlotsInv, RetrievalTypeOK, AttemptsLeft, ClaimsDiffer, ClaimsAreUsed, ClaimingSlots,
              FoundIsClaimed, Found, UsedIsClaimed, BestOfTheRest, RecordsFollow
<1> QED BY <1>1, <1>2

\* The claims of a set stay distinct and in the pool of used images, and a
\* reference shows what its slot claimed.
THEOREM ClaimsKept == RetrievalSpec => []SlotsInv
BY SlotsInit, SlotStep, PTL DEF RetrievalSpec

\* No image appears twice in a set, for any order in which its slots search,
\* claim and finish.
THEOREM NoImageTwice == RetrievalSpec => []NeverReused
<1>1. SlotsInv => NeverReused
  BY DEF SlotsInv, NeverReused, FoundIsClaimed, ClaimsDiffer
<1> QED BY <1>1, ClaimsKept, PTL

\* Every variable keeps its type: no slot searches more often than it may.
THEOREM RetrievalTypeCorrect == RetrievalSpec => []RetrievalTypeOK
<1>1. SlotsInv => RetrievalTypeOK
  BY DEF SlotsInv
<1> QED BY <1>1, ClaimsKept, PTL

\* A slot that passes over a hit leaves it to a slot that has claimed it.
THEOREM BestIsLeft == RetrievalSpec => []BestOfTheRest
<1>1. SlotsInv => BestOfTheRest
  BY DEF SlotsInv
<1> QED BY <1>1, ClaimsKept, PTL

\* Telemetry never names an image the card does not show, or misses the one it
\* shows, whatever throws behind the claim.
THEOREM RecordsAreTrue == RetrievalSpec => []RecordsTellTheTruth
<1>1. SlotsInv => RecordsTellTheTruth
  BY DEF SlotsInv, RecordsFollow, RecordsTellTheTruth
<1> QED BY <1>1, ClaimsKept, PTL
=============================================================================
