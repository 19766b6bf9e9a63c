------------------------- MODULE WorksheetSelection -------------------------
(***************************************************************************)
(* The choice of a worksheet template, in three stages: the active         *)
(* templates for the child's age, a score that uses what the model makes   *)
(* of the request's words, and the model's own pick where the score is not *)
(* decisive.  Both questions to the model share one circuit breaker; the   *)
(* generation of the content, the third call of a request, has its own.    *)
(*                                                                         *)
(* A text is a label that stands for it up to case and outer blanks; the   *)
(* texts it contains and its stemmed words are constants.                  *)
(***************************************************************************)
EXTENDS Integers, Sequences, FiniteSets

CONSTANTS
    Orders,         \* requests for worksheets
    Library,        \* what each template says of itself
    Released,       \* the templates that are active at first
    Inside,         \* pairs of a label and a longer one that contains it
    Stems,          \* the stemmed words of a label that are long enough
    GradeBand,      \* GRADE_TO_AGE_BAND
    TopN,           \* TEMPLATE_SELECTION_AI_TOP_N
    Margin,         \* TEMPLATE_SELECTION_MIN_SCORE_MARGIN
    Intents,        \* what the model may say of a request
    Retired,        \* bound: the templates that may be taken out of use
    SheetThreshold  \* failures that open the circuit

NoAge == -1
NoBand == <<>>
None == "none"
Difficulties == {"easy", "medium", "hard"}

ASSUME LibraryAssumption ==
    /\ IsFiniteSet(DOMAIN Library) /\ None \notin DOMAIN Library
    /\ Released \subseteq DOMAIN Library
    /\ TopN \in Nat \ {0, 1} /\ Margin \in Nat \ {0} /\ SheetThreshold \in Nat \ {0}
    /\ \A t \in DOMAIN Library :
           /\ Library[t].updated \in Int /\ Library[t].place \in Int
           /\ Library[t].ages \in Int \X Int \/ Library[t].ages = NoBand
    /\ \A t, u \in DOMAIN Library :
           Library[t].place = Library[u].place => t = u
    /\ \A x \in DOMAIN GradeBand :
           GradeBand[x] \in Nat \X Nat /\ GradeBand[x][1] <= GradeBand[x][2]

-----------------------------------------------------------------------------
(* The child's age, and the templates for it.                              *)

\* resolveAgeBand: the age, the first two numbers of the age group in either
\* order, the band of the grade.
resolveAgeBand(q) ==
    LET n == q.group
        m == IF Len(n) = 1 THEN n[1] ELSE n[2]
    IN  IF q.age # NoAge THEN <<q.age, q.age>>
        ELSE IF n # <<>> THEN IF n[1] <= m THEN <<n[1], m>> ELSE <<m, n[1]>>
        ELSE IF q.grade \in DOMAIN GradeBand THEN GradeBand[q.grade] ELSE NoBand

overlaps(ages, band) == ages[1] <= band[2] /\ ages[2] >= band[1]

\* A template that does not say its ages is for nobody.
passesAgeHardFilter(t, band) ==
    /\ Library[t].ages # NoBand
    /\ band # NoBand => overlaps(Library[t].ages, band)

-----------------------------------------------------------------------------
(* The score.                                                              *)

Asked(q) == {q.query, q.topic} \ {""}
AskedWords(q) == UNION {Stems[x] : x \in Asked(q)}
Holds(a, b) == a = b \/ <<b, a>> \in Inside
Alike(a, b) == Holds(a, b) \/ Holds(b, a)

matchesThemeOrSubTopic(m, q, h) ==
    \/ h.theme # "" /\ h.theme \in m.topics \cup {m.theme}
    \/ h.subTopic # "" /\ h.subTopic \in m.topics \cup m.subTopics
    \/ q.topic # "" /\ q.topic \in m.topics \cup m.subTopics \cup {m.theme}
matchesActivity(m, intent) == \E v \in m.activities : Alike(v, intent)

\* By the name of the template: two words in common with the intent, or two
\* words of the slug in the request.
matchesActivityIdentity(m, q, h) ==
    \/ /\ h.activity # ""
       /\ \/ h.activity \in {m.name, m.slug}
          \/ Cardinality(Stems[h.activity] \cap (Stems[m.name] \cup Stems[m.slug])) >= 2
    \/ Cardinality({i \in DOMAIN m.slugWords : m.slugWords[i] \in AskedWords(q)}) >= 2
matchesSelectionProfileTopics(m, q) ==
    \E phrase \in m.profile, x \in Asked(q) :
        Alike(x, phrase) \/ Stems[x] \cap Stems[phrase] # {}

If(b, n) == IF b THEN n ELSE 0
score(t, q, h) ==
    LET m == Library[t]
        difficulty == IF h.difficulty # "" THEN h.difficulty ELSE q.difficulty
    IN  If(matchesThemeOrSubTopic(m, q, h), 12)
        + If(\/ h.activity # "" /\ matchesActivity(m, h.activity)
             \/ matchesActivityIdentity(m, q, h), 10)
        + If(q.subject # "" /\ q.subject \in m.subjects, 8)
        + If(q.grade # "" /\ q.grade \in m.grades, 6)
        + If(difficulty # "" /\ difficulty \in m.difficulties, 4)
        + If(matchesSelectionProfileTopics(m, q), 6)

\* rerank: the higher score, then the later update, then the smaller id.
Higher(t, u, q, h) ==
    LET a == score(t, q, h)  b == score(u, q, h)
    IN  \/ a > b
        \/ a = b /\ Library[t].updated > Library[u].updated
        \/ a = b /\ Library[t].updated = Library[u].updated
             /\ Library[t].place < Library[u].place
Ahead_(S, t, q, h) == {u \in S : Higher(u, t, q, h)}
Best(S, q, h) == CHOOSE t \in S : Ahead_(S, t, q, h) = {}
Top(S, q, h) == {t \in S : Cardinality(Ahead_(S, t, q, h)) < TopN}
Decisive(S, q, h) ==
    LET best == score(Best(S, q, h), q, h)
    IN  /\ best > 0
        /\ \A t \in S \ {Best(S, q, h)} : best - score(t, q, h) >= Margin

-----------------------------------------------------------------------------
(* The state of the selections.                                            *)

VARIABLES
    order,      \* what each request asks for
    step,       \* where it is
    fitting,    \* the templates that passed the age filter
    hints,      \* what the model made of its words
    answer,     \* what the model picked
    picked,     \* the template it goes on with
    told,       \* what each of its calls told the circuit breaker
    billed,     \* the status of each row a call wrote
    tripped,    \* consecutive failures each circuit breaker has counted
    library     \* the active templates

Calls == {"classify", "select", "content"}
calls == <<told, billed, tripped>>
outcome == <<fitting, hints, answer, picked>>
sheetSelectionVars == <<order, step, outcome, calls, library>>

SelectionSteps == {"begin", "list", "classify", "intent", "intentRow", "intentCatch",
                   "rank", "select", "catalog", "ask", "askRow", "askCatch"}
NoAnswer == [kind |-> "none", pick |-> None]

Goto(g, place) == step' = [step EXCEPT ![g] = place]
Service(call) == IF call = "content" THEN "content" ELSE "selection"
Report(g, call, good) ==
    /\ tripped' = [tripped EXCEPT ![Service(call)] =
           IF good THEN 0 ELSE IF @ < SheetThreshold THEN @ + 1 ELSE @]
    /\ told' = [told EXCEPT ![g][call] = Append(@, good)]
Bill(g, call, good) == billed' = [billed EXCEPT ![g][call] = Append(@, good)]
\* An open circuit lets a request through after its cooldown.
MayRefuse(call) == tripped[Service(call)] = SheetThreshold

-----------------------------------------------------------------------------
(* By age.                                                                 *)

\* getActiveByIdOrSlug.
TakeExplicit(g) ==
    /\ step[g] = "begin" /\ order[g].template # None
    /\ IF order[g].template \in library
       THEN Goto(g, "picked") /\ picked' = [picked EXCEPT ![g] = order[g].template]
       ELSE Goto(g, "refused") /\ UNCHANGED picked
    /\ UNCHANGED <<order, fitting, hints, answer, calls, library>>
ListActive(g) ==
    /\ step[g] = "begin" /\ order[g].template = None
    /\ LET band == resolveAgeBand(order[g])
           found == {t \in library : passesAgeHardFilter(t, band)}
       IN  /\ fitting' = [fitting EXCEPT ![g] = found]
           /\ IF Cardinality(found) = 1
              THEN Goto(g, "picked") /\ picked' = [picked EXCEPT ![g] = CHOOSE t \in found : TRUE]
              ELSE Goto(g, IF found = {} THEN "refused" ELSE "classify") /\ UNCHANGED picked
    /\ UNCHANGED <<order, hints, answer, calls, library>>

-----------------------------------------------------------------------------
(* What the words mean.                                                    *)

AskedDifficulty(q) == IF q.difficulty \in Difficulties THEN q.difficulty ELSE ""
\* The answer of a classification that failed.
Empty(q) == [theme |-> "", subTopic |-> q.topic, activity |-> "", difficulty |-> AskedDifficulty(q)]
Hint(g, h) == hints' = [hints EXCEPT ![g] = h]

Classify(g) ==
    /\ step[g] = "classify"
    /\ \/ (~order[g].ai \/ MayRefuse("classify")) /\ Goto(g, "rank")
       \/ order[g].ai /\ Goto(g, "intent")
    /\ Hint(g, Empty(order[g]))
    /\ UNCHANGED <<order, fitting, answer, picked, calls, library>>
\* What the model says counts, but for the difficulty the request gives.  The
\* breaker is told before the row is written.
ModelClassifies(g) ==
    /\ step[g] = "intent" /\ Goto(g, "intentRow")
    /\ \/ /\ \E i \in Intents :
              Hint(g, IF AskedDifficulty(order[g]) = "" THEN i
                      ELSE [i EXCEPT !.difficulty = AskedDifficulty(order[g])])
          /\ Report(g, "classify", TRUE)
       \/ UNCHANGED hints /\ Report(g, "classify", FALSE)
    /\ UNCHANGED <<order, fitting, answer, picked, billed, library>>
ClassifyRow(g) ==
    /\ step[g] = "intentRow" /\ Goto(g, "rank")
    /\ Bill(g, "classify", told[g]["classify"] = <<TRUE>>)
    /\ UNCHANGED <<order, outcome, told, tripped, library>>
\* The call failed or took too long, or its row could not be written.
ClassifyFails(g) ==
    /\ step[g] \in {"intent", "intentRow"} /\ Goto(g, "intentCatch")
    /\ Report(g, "classify", FALSE) /\ Hint(g, Empty(order[g]))
    /\ UNCHANGED <<order, fitting, answer, picked, billed, library>>
\* classifyRequest catches what the row of the failure throws.
ClassifyCatch(g) ==
    /\ step[g] = "intentCatch" /\ Goto(g, "rank")
    /\ Bill(g, "classify", FALSE) \/ UNCHANGED billed
    /\ UNCHANGED <<order, outcome, told, tripped, library>>

-----------------------------------------------------------------------------
(* By score, and by the model among the first.                             *)

BestOf(g) == Best(fitting[g], order[g], hints[g])
TopOf(g) == Top(fitting[g], order[g], hints[g])

Rerank(g) ==
    /\ step[g] = "rank"
    /\ IF Decisive(fitting[g], order[g], hints[g])
       THEN Goto(g, "picked") /\ picked' = [picked EXCEPT ![g] = BestOf(g)]
       ELSE Goto(g, "select") /\ UNCHANGED picked
    /\ UNCHANGED <<order, fitting, hints, answer, calls, library>>

Answered(g, kind, pick) == answer' = [answer EXCEPT ![g] = [kind |-> kind, pick |-> pick]]
\* resolveAiOrFallback.
Resolved(g, place) ==
    /\ Goto(g, place)
    /\ picked' = [picked EXCEPT ![g] =
           IF answer[g].kind = "ok" THEN answer[g].pick ELSE BestOf(g)]

Select(g) ==
    /\ step[g] = "select"
    /\ \/ (~order[g].ai \/ MayRefuse("select")) /\ Resolved(g, "picked")
       \/ order[g].ai /\ Goto(g, "catalog") /\ UNCHANGED picked
    /\ UNCHANGED <<order, fitting, hints, answer, calls, library>>
\* The catalogue for the prompt is read again, outside of the try.
ListCatalog(g) ==
    /\ step[g] = "catalog"
    /\ Goto(g, "ask") \/ Goto(g, "refused")
    /\ UNCHANGED <<order, outcome, calls, library>>

JudgedSheet(g, pick, sure) ==
    CASE pick = None -> "malformed"
      [] pick \notin TopOf(g) \cup {None} -> "invalid_id"
      [] pick \in TopOf(g) /\ ~sure -> "low_confidence"
      [] OTHER -> "ok"
ModelPicks(g) ==
    /\ step[g] = "ask" /\ Goto(g, "askRow")
    /\ \E pick \in DOMAIN Library \cup {None}, sure \in BOOLEAN :
        LET kind == JudgedSheet(g, pick, sure)
        IN  /\ Answered(g, kind, IF kind = "ok" THEN pick ELSE None)
            /\ IF kind = "ok" THEN Report(g, "select", TRUE) ELSE UNCHANGED <<told, tripped>>
    /\ UNCHANGED <<order, fitting, hints, picked, billed, library>>
SelectRow(g) ==
    /\ step[g] = "askRow" /\ Resolved(g, "picked")
    /\ Bill(g, "select", answer[g].kind = "ok")
    /\ IF answer[g].kind = "ok" THEN UNCHANGED <<told, tripped>>
       ELSE Report(g, "select", answer[g].kind = "low_confidence")
    /\ UNCHANGED <<order, fitting, hints, answer, library>>
SelectFails(g) ==
    /\ step[g] \in {"ask", "askRow"} /\ Goto(g, "askCatch")
    /\ Report(g, "select", FALSE) /\ Answered(g, "error", None)
    /\ UNCHANGED <<order, fitting, hints, picked, billed, library>>
\* What the row of the failure throws goes to the caller.
SelectCatch(g) ==
    /\ step[g] = "askCatch"
    /\ \/ Bill(g, "select", FALSE) /\ Resolved(g, "picked")
       \/ Goto(g, "refused") /\ UNCHANGED <<billed, picked>>
    /\ UNCHANGED <<order, fitting, hints, answer, told, tripped, library>>

\* A query of the selection throws.
ListFails(g) ==
    /\ step[g] = "begin" /\ Goto(g, "refused")
    /\ UNCHANGED <<order, outcome, calls, library>>

SheetSelectionStep(g) ==
    \/ TakeExplicit(g) \/ ListActive(g) \/ ListFails(g) \/ Classify(g)
    \/ ModelClassifies(g) \/ ClassifyRow(g) \/ ClassifyFails(g) \/ ClassifyCatch(g)
    \/ Rerank(g) \/ Select(g) \/ ListCatalog(g) \/ ModelPicks(g) \/ SelectRow(g)
    \/ SelectFails(g) \/ SelectCatch(g)

\* A template is taken out of use by an operator.
Retire(t) ==
    /\ t \in library \cap Retired /\ library' = library \ {t}
    /\ UNCHANGED <<order, step, outcome, calls>>
=============================================================================
