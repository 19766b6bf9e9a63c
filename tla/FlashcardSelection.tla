------------------------- MODULE FlashcardSelection -------------------------
(***************************************************************************)
(* The choice of a flashcard template: the rules are read and ranked, the  *)
(* model may prefer another of the ranked templates, and the one chosen is *)
(* loaded again.  Between the three, templates are uploaded and withdrawn, *)
(* and the snapshot of the catalogue the model is shown is built, kept for *)
(* a while and invalidated.  All selections share one circuit breaker.     *)
(***************************************************************************)
EXTENDS FlashcardRanking

CONSTANTS
    Selections,     \* requests for a template
    Uploaders,        \* administrators, each about to upload one template
    Initial,        \* the templates there are at first, all active
    RuleRows,       \* the active rows of TemplateSelectionRule
    SyntheticId,    \* the place of the id "synthetic-<template>" among all ids
    Withdrawn,      \* bound: the templates that may be taken out of use
    Threshold       \* failures that open the circuit

ASSUME SelectionAssumption ==
    /\ Initial \subseteq DOMAIN Catalog
    /\ IsFiniteSet(RuleRows)
    /\ \A r \in RuleRows : r.template \in DOMAIN Catalog /\ r.id \in Int /\ r.priority \in Int
    /\ \A r, s \in RuleRows : r.id = s.id => r = s
    /\ \A t \in DOMAIN Catalog : SyntheticId[t] \in Int /\ \A r \in RuleRows : r.id # SyntheticId[t]
    /\ \A t, u \in DOMAIN Catalog : SyntheticId[t] = SyntheticId[u] => t = u
    /\ Threshold \in Nat \ {0}

NoTemplate == "none"
NoRule == [id |-> 0, template |-> NoTemplate]
NoSnapshot == [shown |-> {}, built |-> FALSE]

VARIABLES
    request,    \* what each selection is asked for
    at,         \* where it is
    pool,       \* the rules it has read, then those it ranks
    unread,     \* which of its two queries are still to come
    shown,      \* the templates in the catalogue it shows the model
    verdict,    \* what it makes of the model's answer
    choice,     \* the rule it has settled on
    rows,       \* the status of each of its rows in the usage table
    reports,    \* what it told the circuit breaker
    templates,  \* the templates that exist
    active,     \* those that are active
    cache,      \* the snapshot of the catalogue
    breaker,    \* consecutive failures the breaker has counted
    upload      \* where each upload is

progress == <<pool, unread, shown, verdict, choice>>
account == <<rows, reports, breaker>>
tables == <<templates, active, cache, upload>>
selectionVars == <<request, at, progress, account, tables>>

Places == {"read", "rank", "ai", "snapshot", "build", "store", "call", "row",
           "catch", "load", "done", "failed"}
Verdicts == [kind : {"none", "malformed", "invalid_id", "low_confidence", "ok", "error"},
             pick : DOMAIN Catalog \cup {NoTemplate}]

SelectionTypeOK ==
    /\ at \in [Selections -> Places]
    /\ \A s \in Selections : shown[s] \subseteq DOMAIN Catalog /\ verdict[s] \in Verdicts
    /\ \A s \in Selections : choice[s] # NoRule => choice[s] \in pool[s]
    /\ \A s \in Selections : rows[s] \in Seq(BOOLEAN) /\ reports[s] \in Seq(BOOLEAN)
    /\ active \subseteq templates /\ templates \subseteq DOMAIN Catalog
    /\ breaker \in 0..Threshold
    /\ cache.shown \subseteq templates
    /\ upload \in [Uploaders -> {"create", "invalidate", "done", "none"}]

SelectionInit ==
    /\ at = [s \in Selections |-> IF request[s].kind = "none" THEN "done"
                                  ELSE IF request[s].kind = "explicit" THEN "load" ELSE "read"]
    /\ pool = [s \in Selections |-> {}]
    /\ unread = [s \in Selections |-> {"rules", "templates"}]
    /\ shown = [s \in Selections |-> {}]
    /\ verdict = [s \in Selections |-> [kind |-> "none", pick |-> NoTemplate]]
    /\ choice = [s \in Selections |-> NoRule]
    /\ rows = [s \in Selections |-> <<>>] /\ reports = rows
    /\ templates = Initial /\ active = Initial /\ cache = NoSnapshot
    /\ breaker = 0

Move(s, place) == at' = [at EXCEPT ![s] = place]

-----------------------------------------------------------------------------
(* Reading and ranking.                                                    *)

\* templateToSyntheticRule.
SyntheticRule(t) ==
    [id |-> SyntheticId[t], template |-> t, templateActive |-> TRUE, priority |-> 50,
     age |-> Catalog[t].ageBounds, grades |-> {}, subjects |-> {}, objectives |-> {},
     difficulties |-> {}, isFallback |-> FALSE]
WithoutRules(s) ==
    {t \in active : \A r \in pool[s] : r.template # t}

\* listActiveSelectionRules: two queries, in any order; a template without a
\* rule of its own is added with what it says of itself.
ReadRules(s) ==
    /\ at[s] = "read" /\ "rules" \in unread[s]
    /\ LET read == {r \in RuleRows : r.template \in active}
           own == {r.template : r \in read}
       IN  pool' = [pool EXCEPT ![s] = read \cup {r \in @ : r.template \notin own}]
    /\ unread' = [unread EXCEPT ![s] = @ \ {"rules"}]
    /\ Move(s, IF unread[s] = {"rules"} THEN "rank" ELSE "read")
    /\ UNCHANGED <<request, shown, verdict, choice, account, tables>>
ReadTemplates(s) ==
    /\ at[s] = "read" /\ "templates" \in unread[s]
    /\ pool' = [pool EXCEPT ![s] = @ \cup {SyntheticRule(t) : t \in WithoutRules(s)}]
    /\ unread' = [unread EXCEPT ![s] = @ \ {"templates"}]
    /\ Move(s, IF unread[s] = {"templates"} THEN "rank" ELSE "read")
    /\ UNCHANGED <<request, shown, verdict, choice, account, tables>>

Rank(s) ==
    /\ at[s] = "rank"
    /\ LET q == request[s]
           ranked == Pool(pool[s], q)
       IN  IF ranked = {}
           THEN /\ Move(s, "failed") /\ UNCHANGED <<pool, choice>>
           ELSE /\ pool' = [pool EXCEPT ![s] = ranked]
                /\ choice' = [choice EXCEPT ![s] = First(ranked, q, ranked)]
                /\ Move(s, "ai")
    /\ UNCHANGED <<request, unread, shown, verdict, account, tables>>

-----------------------------------------------------------------------------
(* Asking the model.                                                       *)

Allowed(s) == {r.template : r \in pool[s]}
Tell(s, good) ==
    /\ breaker' = IF good THEN 0 ELSE IF breaker < Threshold THEN breaker + 1 ELSE breaker
    /\ reports' = [reports EXCEPT ![s] = Append(@, good)]

\* An open circuit refuses until its cooldown has passed.
AskAi(s) ==
    /\ at[s] = "ai"
    /\ \/ (~request[s].ai \/ Cardinality(Allowed(s)) = 1) /\ Move(s, "load")
       \/ request[s].ai /\ Cardinality(Allowed(s)) > 1 /\ breaker = Threshold
              /\ Move(s, "load")
       \/ request[s].ai /\ Cardinality(Allowed(s)) > 1 /\ Move(s, "snapshot")
    /\ UNCHANGED <<request, progress, account, tables>>

\* getSnapshot: the kept snapshot, or one built from the active templates.
TakeSnapshot(s) ==
    /\ at[s] = "snapshot"
    /\ IF cache.built
       THEN shown' = [shown EXCEPT ![s] = cache.shown] /\ Move(s, "call")
       ELSE UNCHANGED shown /\ Move(s, "build")
    /\ UNCHANGED <<request, pool, unread, verdict, choice, account, tables>>
BuildSnapshot(s) ==
    /\ at[s] = "build" /\ Move(s, "store")
    /\ shown' = [shown EXCEPT ![s] = active]
    /\ UNCHANGED <<request, pool, unread, verdict, choice, account, tables>>
\* The query throws, outside of the try of the AI call.
BuildFails(s) ==
    /\ at[s] = "build" /\ Move(s, "failed")
    /\ UNCHANGED <<request, progress, account, tables>>
StoreSnapshot(s) ==
    /\ at[s] = "store" /\ Move(s, "call")
    /\ cache' = [shown |-> shown[s], built |-> TRUE]
    /\ UNCHANGED <<request, progress, account, templates, active, upload>>

\* What parseResponse and the checks behind it make of an answer.
Judged(s, pick, sure) ==
    CASE pick = NoTemplate -> "malformed"
      [] pick \notin Allowed(s) \cup {NoTemplate} -> "invalid_id"
      [] pick \in Allowed(s) /\ ~sure -> "low_confidence"
      [] OTHER -> "ok"
\* An accepted answer is reported to the breaker before its row is written.
ModelAnswers(s) ==
    /\ at[s] = "call" /\ Move(s, "row")
    /\ \E pick \in DOMAIN Catalog \cup {NoTemplate}, sure \in BOOLEAN :
        LET kind == Judged(s, pick, sure)
        IN  /\ verdict' = [verdict EXCEPT ![s] =
                   [kind |-> kind, pick |-> IF kind = "ok" THEN pick ELSE NoTemplate]]
            /\ IF kind = "ok" THEN Tell(s, TRUE) ELSE UNCHANGED <<breaker, reports>>
    /\ UNCHANGED <<request, pool, unread, shown, choice, rows, tables>>
Failure(s) ==
    /\ Move(s, "catch") /\ Tell(s, FALSE)
    /\ verdict' = [verdict EXCEPT ![s] = [kind |-> "error", pick |-> NoTemplate]]
    /\ UNCHANGED <<request, pool, unread, shown, choice, rows, tables>>
\* The call is refused, fails or takes longer than the timeout; what it may
\* still answer nobody hears.
CallFails(s) == at[s] = "call" /\ Failure(s)

\* The rule the answer is for: the first ranked of that template.
Match(s, t) ==
    LET of == {r \in pool[s] : r.template = t}
    IN  First(of, request[s], pool[s])
\* Mutant: an answer that is not sure counts against the model.
WriteRowAgainst(s) ==
    /\ at[s] = "row" /\ Move(s, "load")
    /\ rows' = [rows EXCEPT ![s] = Append(@, verdict[s].kind = "ok")]
    /\ LET v == verdict[s]
       IN  /\ choice' = [choice EXCEPT ![s] = IF v.kind = "ok" THEN Match(s, v.pick) ELSE @]
           /\ IF v.kind = "ok" THEN UNCHANGED <<breaker, reports>> ELSE Tell(s, FALSE)
    /\ UNCHANGED <<request, pool, unread, shown, verdict, tables>>
WriteRow(s) ==
    /\ at[s] = "row" /\ Move(s, "load")
    /\ rows' = [rows EXCEPT ![s] = Append(@, verdict[s].kind = "ok")]
    /\ LET v == verdict[s]
       IN  /\ choice' = [choice EXCEPT ![s] = IF v.kind = "ok" THEN Match(s, v.pick) ELSE @]
           /\ IF v.kind = "ok" THEN UNCHANGED <<breaker, reports>>
              ELSE Tell(s, v.kind = "low_confidence")
    /\ UNCHANGED <<request, pool, unread, shown, verdict, tables>>
RowFails(s) == at[s] = "row" /\ Failure(s)
\* The row of a failed call; when it cannot be written the error escapes.
CatchRow(s) ==
    /\ at[s] = "catch"
    /\ \/ Move(s, "load") /\ rows' = [rows EXCEPT ![s] = Append(@, FALSE)]
       \/ Move(s, "failed") /\ UNCHANGED rows
    /\ UNCHANGED <<request, progress, reports, breaker, tables>>

-----------------------------------------------------------------------------
(* The template itself.                                                    *)

Chosen(s) == IF request[s].kind = "explicit" THEN request[s].template ELSE choice[s].template

Load(s) ==
    /\ at[s] = "load" /\ Move(s, IF Chosen(s) \in active THEN "done" ELSE "failed")
    /\ UNCHANGED <<request, progress, account, tables>>

\* A query of the selection throws.
SelectionFails(s) ==
    /\ at[s] \in {"read", "load"} /\ Move(s, "failed")
    /\ UNCHANGED <<request, progress, account, tables>>

SelectionStep(s) ==
    \/ ReadRules(s) \/ ReadTemplates(s) \/ Rank(s) \/ AskAi(s) \/ TakeSnapshot(s)
    \/ BuildSnapshot(s) \/ BuildFails(s) \/ StoreSnapshot(s) \/ ModelAnswers(s)
    \/ CallFails(s) \/ WriteRow(s) \/ RowFails(s) \/ CatchRow(s) \/ Load(s)
    \/ SelectionFails(s)

-----------------------------------------------------------------------------
(* The catalogue.                                                          *)

\* upload: the rows in one transaction, then the invalidation.
CreateTemplate(u) ==
    /\ upload[u] = "create"
    /\ \/ \E t \in DOMAIN Catalog \ templates :
            /\ templates' = templates \cup {t} /\ active' = active \cup {t}
            /\ upload' = [upload EXCEPT ![u] = "invalidate"]
       \/ upload' = [upload EXCEPT ![u] = "done"] /\ UNCHANGED <<templates, active>>
    /\ UNCHANGED <<request, at, progress, account, cache>>
Invalidate(u) ==
    /\ upload[u] = "invalidate" /\ cache' = NoSnapshot
    /\ upload' = [upload EXCEPT ![u] = "done"]
    /\ UNCHANGED <<request, at, progress, account, templates, active>>
SnapshotExpires ==
    /\ cache.built /\ cache' = NoSnapshot
    /\ UNCHANGED <<request, at, progress, account, templates, active, upload>>
\* An operator takes a template out of use; the code only looks whether one did.
Withdraw(t) ==
    /\ t \in active \cap Withdrawn /\ active' = active \ {t}
    /\ UNCHANGED <<request, at, progress, account, templates, cache, upload>>
CatalogStep ==
    \/ \E u \in Uploaders : CreateTemplate(u) \/ Invalidate(u)
    \/ SnapshotExpires \/ \E t \in templates : Withdraw(t)
=============================================================================
