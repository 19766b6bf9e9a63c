-------------------------- MODULE FlashcardRanking --------------------------
(***************************************************************************)
(* template-selection.engine.ts: which selection rules may answer a        *)
(* request for flashcards, and in which order.                             *)
(*                                                                         *)
(* A text is a label; what trimming, lower case and the tables of synonyms *)
(* make of it are the constants ending in Key.  An age group is            *)
(* <<min, max>>, or <<>> when its text cannot be read.                     *)
(***************************************************************************)
EXTENDS Integers, Sequences, FiniteSets

CONSTANTS
    LabelKey,       \* a grade or a subject, normalised
    DifficultyKey,  \* a difficulty in the revised taxonomy
    ObjectiveKey,   \* an objective in the taxonomy
    Related,        \* the objectives related to one
    Generic,        \* objectives any request may fall back to
    Catalog         \* the templates: what each says of itself

ASSUME RankingAssumption ==
    /\ DOMAIN Related \subseteq {ObjectiveKey[o] : o \in DOMAIN ObjectiveKey}
    /\ IsFiniteSet(DOMAIN Catalog)
    /\ \A t \in DOMAIN Catalog :
           /\ IsFiniteSet(Catalog[t].groups)
           /\ \A g \in Catalog[t].groups : g # <<>> => g \in Nat \X Nat /\ g[1] <= g[2]
           /\ Catalog[t].version.parts \in Seq(Nat) /\ Catalog[t].version.text \in Int
    /\ \A t, u \in DOMAIN Catalog :
           Catalog[t].version.text = Catalog[u].version.text => Catalog[t].version = Catalog[u].version

Unread == <<>>
NoLabel == ""
Template(r) == Catalog[r.template]

-----------------------------------------------------------------------------
(* Who may answer.                                                         *)

Native(g, band) == g = band
Covers(g, band) == g # Unread /\ g[1] <= band[1] /\ g[2] >= band[2]
\* Mutant: a group that only begins before the requested one ends counts too.
YoungerByStart(g, band) == g \notin {Unread, band} /\ g[1] <= band[2]
Younger(g, band) == g \notin {Unread, band} /\ g[2] <= band[1]

Requested(q) == IF q.group # Unread THEN q.group ELSE q.age
AgeTier(groups, band) ==
    CASE \E g \in groups : Native(g, band) -> 3
      [] (\E g \in groups : Covers(g, band)) /\ ~\E g \in groups : Native(g, band) -> 2
      [] (\E g \in groups : Younger(g, band))
             /\ ~\E g \in groups : Native(g, band) \/ Covers(g, band) -> 1
      [] OTHER -> 0
AgeEligible(r, q) ==
    Template(r).groups = {} \/ AgeTier(Template(r).groups, Requested(q)) > 0
YoungerMax(r, q) ==
    LET ends == {g[2] : g \in {h \in Template(r).groups : Younger(h, Requested(q))}}
    IN  IF ends = {} THEN 0 ELSE CHOOSE n \in ends : \A m \in ends : m <= n

\* The words that unlock an opt-in template, and the words of the request.
gateKeywordsFor(r) ==
    IF Template(r).keywords # {} THEN Template(r).keywords ELSE Template(r).tags
passesExplicitRequestGate(r, q) ==
    Template(r).requiresExplicitRequest => gateKeywordsFor(r) \cap q.words # {}

\* A dimension a rule leaves empty, or a request leaves out, excludes nobody.
Exact(configured, v, key) == v # NoLabel /\ key[v] \in {key[c] : c \in configured}
Passes(configured, v, key) ==
    configured = {} \/ v = NoLabel \/ Exact(configured, v, key)

Eligible(r, q, fallback) ==
    /\ r.templateActive
    /\ r.isFallback = fallback
    /\ AgeEligible(r, q)
    /\ passesExplicitRequestGate(r, q)
    /\ Passes(r.grades, q.grade, LabelKey)
    /\ q.subjectConfidence = "explicit" => Passes(r.subjects, q.subject, LabelKey)
    /\ q.difficultyConfidence = "explicit" =>
           Passes(r.difficulties, q.difficulty, DifficultyKey)

\* The fallback rules come in when no other rule is left.
Pool(rules, q) ==
    LET others == {r \in rules : Eligible(r, q, FALSE)}
    IN  IF others # {} THEN others ELSE {r \in rules : Eligible(r, q, TRUE)}

-----------------------------------------------------------------------------
(* In which order.                                                         *)

Objectives(r) == IF r.objectives # {} THEN r.objectives ELSE Template(r).objectives
objectiveRelevance(r, q) ==
    LET asked == ObjectiveKey[q.objective]
        keys == {ObjectiveKey[o] : o \in Objectives(r)}
        related == IF asked \in DOMAIN Related THEN Related[asked] ELSE {}
    IN  IF asked \in keys THEN 3 ELSE IF keys \cap related # {} THEN 2 ELSE 0

\* A generic objective is worth one point when nobody has an exact or a
\* related one; an objective that was only derived from the age counts as
\* related at best.
ObjectiveRank(r, q, pool) ==
    LET raw == objectiveRelevance(r, q)
        generic == {ObjectiveKey[o] : o \in Objectives(r)} \cap Generic # {}
    IN  IF raw = 0 /\ generic /\ \A s \in pool : objectiveRelevance(s, q) = 0 THEN 1
        ELSE IF q.objectiveConfidence = "age_default" /\ raw > 1 THEN 2
        ELSE raw

ExactAge(r, q) ==
    \/ AgeTier(Template(r).groups, Requested(q)) = 3
    \/ r.age # Unread /\ r.age = q.age
Tier(r, q) == IF ExactAge(r, q) THEN 3 ELSE AgeTier(Template(r).groups, Requested(q))
ExactSubject(r, q) ==
    Exact(r.subjects, q.subject, LabelKey)
        \/ Exact(Template(r).subjects, q.subject, LabelKey)
ExactDifficulty(r, q) ==
    Exact(r.difficulties, q.difficulty, DifficultyKey)
        \/ Exact(Template(r).difficulties, q.difficulty, DifficultyKey)
ObjectiveBoost(r, q) ==
    CASE objectiveRelevance(r, q) = 3 /\ r.objectives # {} -> 120
      [] objectiveRelevance(r, q) = 3 /\ r.objectives = {} -> 80
      [] objectiveRelevance(r, q) # 3 /\ Objectives(r) # {} -> -40
      [] OTHER -> 0
Flag(b) == IF b THEN 1 ELSE 0
Score(r, q, pool) ==
    Tier(r, q) * 2000 + YoungerMax(r, q) + ObjectiveRank(r, q, pool) * 1000
        + Flag(ExactAge(r, q)) * 500 + Flag(Exact(r.grades, q.grade, LabelKey)) * 300
        + Flag(ExactSubject(r, q)) * 200 + Flag(ExactDifficulty(r, q)) * 100
        + r.priority + ObjectiveBoost(r, q)

\* A version is the numbers of its parts and the place of its text among the
\* texts: newer numbers first, a missing part is zero, then the later text.
Part(v, i) == IF i <= Len(v.parts) THEN v.parts[i] ELSE 0
Newer(v, w) ==
    LET longest == 1..(IF Len(v.parts) > Len(w.parts) THEN Len(v.parts) ELSE Len(w.parts))
        differ == {i \in longest : Part(v, i) # Part(w, i)}
    IN  \/ \E i \in differ : Part(v, i) > Part(w, i) /\ \A j \in differ : i <= j
        \/ differ = {} /\ v.text > w.text

\* The sort keys before and behind the version, the greater first.
Fit(r, q, pool) ==
    <<Tier(r, q), YoungerMax(r, q), ObjectiveRank(r, q, pool),
      Flag(objectiveRelevance(r, q) = 3), Flag(ExactAge(r, q)),
      Flag(Exact(r.grades, q.grade, LabelKey)), Flag(ExactSubject(r, q)),
      Flag(ExactDifficulty(r, q))>>
Rest(r, q, pool) == <<-r.priority, Score(r, q, pool), -r.id>>
Ahead(a, b) ==
    \E i \in DOMAIN a : a[i] > b[i] /\ \A j \in 1..(i - 1) : a[j] = b[j]

Before(r, s, q, pool) ==
    \/ Ahead(Fit(r, q, pool), Fit(s, q, pool))
    \/ /\ Fit(r, q, pool) = Fit(s, q, pool)
       /\ Newer(Template(r).version, Template(s).version)
    \/ /\ Fit(r, q, pool) = Fit(s, q, pool)
       /\ Template(r).version = Template(s).version
       /\ Ahead(Rest(r, q, pool), Rest(s, q, pool))

First(rules, q, pool) == CHOOSE r \in rules : \A s \in rules \ {r} : Before(r, s, q, pool)
=============================================================================
