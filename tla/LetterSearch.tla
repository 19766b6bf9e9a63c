---------------------------- MODULE LetterSearch ----------------------------
(* What a search query asks for: the words it mentions, the letter it may    *)
(* name, and the assets that fit.  A query is what the detector's patterns   *)
(* find in its text.                                                         *)
EXTENDS SequencesExt

CONSTANTS
    NoLetter        \* the query, or the asset, names none

Cases == {"upper", "lower", "both"}

\* detect: a letter after "letter" or "alphabet", or after a case word; none
\* when the text is about an object; the case is what the case words say.
Anchored(q) == q.anchor \in {"letter", "case"} /\ q.letter # NoLetter
CaseOf(q) ==
    CASE q.caseWords = {"upper"} -> "upper"
      [] q.caseWords = {"lower"} -> "lower"
      [] OTHER -> "both"
Detect(q) ==
    IF Anchored(q) /\ ~ q.aboutObject
    THEN [letter |-> q.letter, case |-> CaseOf(q)]
    ELSE NoLetter

\* canonicalObjectStrings: the object labels of an asset that shows a letter.
Label(case, letter) == <<case, letter>>
CanonicalObjects(entity) ==
    {Label(case, entity.letter) :
        case \in IF entity.case = "both" THEN {"upper", "lower"} ELSE {entity.case}}

\* matchesCanonicalLetterObjects: of the two labels of the letter, exactly those
\* that were asked for.
MatchesLetter(objects, entity) ==
    CanonicalObjects(entity)
      = objects \cap {Label(case, entity.letter) : case \in {"upper", "lower"}}

\* findByCanonicalObjects: the rows the index finds before they are matched.
HasObjects(objects, entity) ==
    IF entity.case = "both"
    THEN CanonicalObjects(entity) \subseteq objects
    ELSE CanonicalObjects(entity) \cap objects # {}

\* matchesMetadataFilters: every field the filters name shares a value.
MatchesFilters(metadata, filters) ==
    \A field \in DOMAIN filters :
        filters[field] # {} => filters[field] \cap metadata[field] # {}
=============================================================================
