--------------------------- MODULE ProviderCalls ---------------------------
(***************************************************************************)
(* The calls one process makes to one AI provider.  Every provider object  *)
(* owns a circuit breaker and a token bucket; a call asks the breaker,     *)
(* waits for a token, awaits the provider and reports the outcome to the   *)
(* breaker.  Calls of different handlers and requests interleave at each   *)
(* of these awaits.                                                        *)
(*                                                                         *)
(* Two shapes of the same protocol occur in the code and insideTry tells   *)
(* them apart: the vision and embedding providers ask the breaker before   *)
(* their try block and write the usage row in their caller, the flashcard  *)
(* content service does both inside its try block, so that a rejected call *)
(* and a failed usage write run through the same catch as a failed call.   *)
(*                                                                         *)
(* A tick is the time in which the bucket earns one token, 1/maxRps        *)
(* seconds.  The failure count is only ever compared with the threshold,   *)
(* so it saturates there.                                                  *)
(***************************************************************************)
EXTENDS Integers

CONSTANTS
    Calls,      \* the concurrent callers; each makes one call after another
    NoCall,     \* the provider has not answered yet
    Threshold,  \* failureThreshold, ai.circuitFailureThreshold
    Cooldown,   \* cooldownMs in ticks
    Capacity,   \* max(1, maxRps), the size of the bucket
    Shapes      \* the shapes of provider objects: insideTry, or not

ASSUME CallsAssumption == NoCall \notin Calls
ASSUME BreakerAssumption ==
    /\ Threshold \in Nat \ {0}
    /\ Cooldown \in Nat \ {0}
    /\ Capacity \in Nat \ {0}
    /\ Shapes \subseteq BOOLEAN

VARIABLES
    insideTry,  \* the guard and the usage row are inside the try block
    breaker,    \* the state, failure count and remaining cooldown
    tokens,     \* whole tokens in the bucket
    pc,         \* where each caller is
    lastUsage,  \* the call whose usage the provider object remembers
    row,        \* the call whose usage the last row of each caller shows
    debt        \* history: grants not yet paid for by the passing of time

callsVars == <<insideTry, breaker, tokens, pc, lastUsage, row, debt>>

CircuitStates == {"closed", "open", "half-open"}
Steps == {"idle", "prepare", "acquire", "calling", "usage"}

Circuit == [state : CircuitStates, failures : 0..Threshold, cooling : 0..Cooldown]

CallsTypeOK ==
    /\ insideTry \in BOOLEAN
    /\ breaker \in Circuit
    /\ tokens \in 0..Capacity
    /\ pc \in [Calls -> Steps]
    /\ lastUsage \in Calls \cup {NoCall}
    /\ row \in [Calls -> Calls \cup {NoCall}]
    /\ debt \in Nat

CallsInit ==
    /\ insideTry \in Shapes
    /\ breaker = [state |-> "closed", failures |-> 0, cooling |-> 0]
    /\ tokens = Capacity
    /\ pc = [c \in Calls |-> "idle"]
    /\ lastUsage = NoCall
    /\ row = [c \in Calls |-> NoCall]
    /\ debt = 0

(* ------------------------------ the breaker ---------------------------- *)
\* An open circuit whose cooldown has passed becomes half-open; lazily, when
\* somebody asks.
MaybeHalfOpen(b) ==
    IF b.state = "open" /\ b.cooling = 0
    THEN [b EXCEPT !.state = "half-open"]
    ELSE b

\* Mutant: the circuit closes but remembers its failures.
RecordSuccessOnly(b) == [b EXCEPT !.state = "closed"]

RecordSuccess(b) == [state |-> "closed", failures |-> 0, cooling |-> b.cooling]

\* Opening an open circuit again restarts its cooldown.
RecordFailure(b) ==
    LET count == IF b.failures < Threshold THEN b.failures + 1 ELSE Threshold
    IN  IF b.state = "half-open" \/ count = Threshold
        THEN [state |-> "open", failures |-> count, cooling |-> Cooldown]
        ELSE [b EXCEPT !.failures = count]

(* ------------------------------- one call ------------------------------ *)
\* The caller starts: it loads the image or the text it will send.
Start(c) ==
    /\ pc[c] = "idle"
    /\ pc' = [pc EXCEPT ![c] = "prepare"]
    /\ UNCHANGED <<insideTry, breaker, tokens, lastUsage, row, debt>>

\* The load fails before the provider is reached; the catch of the caller
\* writes a usage row from whatever the provider object remembers.
PrepareFails(c) ==
    /\ ~insideTry
    /\ pc[c] = "prepare"
    /\ row' = [row EXCEPT ![c] = lastUsage]
    /\ pc' = [pc EXCEPT ![c] = "idle"]
    /\ UNCHANGED <<insideTry, breaker, tokens, lastUsage, debt>>

\* The breaker lets the call pass.
Admit(c) ==
    /\ pc[c] = "prepare"
    /\ MaybeHalfOpen(breaker).state # "open"
    /\ breaker' = MaybeHalfOpen(breaker)
    /\ pc' = [pc EXCEPT ![c] = "acquire"]
    /\ UNCHANGED <<insideTry, tokens, lastUsage, row, debt>>

\* Mutant: the rejected call is counted although it is outside the try block.
RejectCounted(c) ==
    /\ pc[c] = "prepare"
    /\ MaybeHalfOpen(breaker).state = "open"
    /\ breaker' = RecordFailure(breaker)
    /\ row' = [row EXCEPT ![c] = lastUsage]
    /\ pc' = [pc EXCEPT ![c] = "idle"]
    /\ UNCHANGED <<insideTry, tokens, lastUsage, debt>>

\* The circuit is open: the call throws CircuitOpenError.  Inside a try block
\* the catch counts the rejection as a failure of the provider.
Reject(c) ==
    /\ pc[c] = "prepare"
    /\ MaybeHalfOpen(breaker).state = "open"
    /\ IF insideTry
       THEN /\ breaker' = RecordFailure(breaker)
            /\ row' = [row EXCEPT ![c] = c]
       ELSE /\ row' = [row EXCEPT ![c] = lastUsage]
            /\ UNCHANGED breaker
    /\ pc' = [pc EXCEPT ![c] = "idle"]
    /\ UNCHANGED <<insideTry, tokens, lastUsage, debt>>

\* Mutant: the token is not taken.
AcquireFree(c) ==
    /\ pc[c] = "acquire"
    /\ tokens >= 1
    /\ debt' = debt + 1
    /\ pc' = [pc EXCEPT ![c] = "calling"]
    /\ UNCHANGED <<insideTry, breaker, tokens, lastUsage, row>>

\* The bucket has a token and the request is sent.  A caller that finds none
\* sleeps and looks again: it stays in "acquire".
Acquire(c) ==
    /\ pc[c] = "acquire"
    /\ tokens >= 1
    /\ tokens' = tokens - 1
    /\ debt' = debt + 1
    /\ pc' = [pc EXCEPT ![c] = "calling"]
    /\ UNCHANGED <<insideTry, breaker, lastUsage, row>>

\* The provider answers and the answer parses.  Nothing runs between the
\* return of the provider and its caller reading the usage.
Answered(c) ==
    /\ pc[c] = "calling"
    /\ breaker' = RecordSuccess(breaker)
    /\ IF insideTry
       THEN /\ pc' = [pc EXCEPT ![c] = "usage"]
            /\ UNCHANGED <<lastUsage, row>>
       ELSE /\ pc' = [pc EXCEPT ![c] = "idle"]
            /\ lastUsage' = c
            /\ row' = [row EXCEPT ![c] = c]
    /\ UNCHANGED <<insideTry, tokens, debt>>

\* The provider throws or its answer does not parse.
CallFails(c) ==
    /\ pc[c] = "calling"
    /\ breaker' = RecordFailure(breaker)
    /\ lastUsage' = IF insideTry THEN lastUsage ELSE c
    /\ row' = [row EXCEPT ![c] = c]
    /\ pc' = [pc EXCEPT ![c] = "idle"]
    /\ UNCHANGED <<insideTry, tokens, debt>>

\* The usage row of a successful call is written inside the try block.
WriteUsage(c) ==
    /\ pc[c] = "usage"
    /\ row' = [row EXCEPT ![c] = c]
    /\ pc' = [pc EXCEPT ![c] = "idle"]
    /\ UNCHANGED <<insideTry, breaker, tokens, lastUsage, debt>>

\* The database refuses the row: the catch counts a failure of the provider
\* and tries to write another row.
WriteUsageFails(c) ==
    /\ pc[c] = "usage"
    /\ breaker' = RecordFailure(breaker)
    /\ \E shown \in {row[c], c} : row' = [row EXCEPT ![c] = shown]
    /\ pc' = [pc EXCEPT ![c] = "idle"]
    /\ UNCHANGED <<insideTry, tokens, lastUsage, debt>>

\* Time passes: the bucket earns a token, the cooldown runs down.
Tick ==
    /\ tokens' = IF tokens < Capacity THEN tokens + 1 ELSE Capacity
    /\ debt' = IF debt > 0 THEN debt - 1 ELSE 0
    /\ breaker' = [breaker EXCEPT !.cooling = IF @ > 0 THEN @ - 1 ELSE 0]
    /\ UNCHANGED <<insideTry, pc, lastUsage, row>>

Call(c) ==
    \/ Start(c)
    \/ PrepareFails(c)
    \/ Admit(c)
    \/ Reject(c)
    \/ Acquire(c)
    \/ Answered(c)
    \/ CallFails(c)
    \/ WriteUsage(c)
    \/ WriteUsageFails(c)

CallsNext == Tick \/ \E c \in Calls : Call(c)

CallsSpec == CallsInit /\ [][CallsNext]_callsVars

\* The clock runs on; nothing is assumed of the callers or of the provider.
FairCallsSpec == CallsSpec /\ WF_callsVars(Tick)

(* ------------------------------ properties ----------------------------- *)
\* The state of the circuit and its failure count never come apart, whatever
\* order late answers, failures and rejections of concurrent calls report in:
\* a closed circuit is below the threshold, an open or half-open one at it.
CircuitMatchesFailures ==
    (breaker.state = "closed") <=> (breaker.failures < Threshold)

\* The requests sent in any period are at most the bucket and one for each
\* tick of the period, however callers interleave at the bucket: the debt is
\* what has been sent beyond one per tick.
RateKept == debt <= Capacity

\* Liveness: an open circuit comes to the end of its cooldown, so that a test
\* request gets through, however many callers keep asking, when their guard is
\* outside the try block.
CooldownEnds ==
    ~insideTry /\ breaker.state = "open" ~> breaker.state # "open" \/ breaker.cooling = 0

---------------------------------------------------------------------------
(* What the documents claim and the code does not keep.                    *)

\* "half-open after cooldown", wherever the guard is.
HalfOpenAfterCooldown ==
    breaker.state = "open" ~> breaker.state # "open" \/ breaker.cooling = 0

\* closed, open, half-open, closed: an open circuit closes by a test request
\* after its cooldown, never at once.
ClosesAfterTest == [][breaker.state = "open" => breaker'.state # "closed"]_callsVars

\* "Circuit opens, pause requests": no request is sent while it is open.
PausedWhileOpen ==
    [][\A c \in Calls : breaker.state = "open" => ~ Acquire(c)]_callsVars

\* A usage row shows the usage of the call it is written for.
RowsShowTheirCall == \A c \in Calls : row[c] \in {NoCall, c}
=============================================================================
