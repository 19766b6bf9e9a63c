------------------------ MODULE WorksheetStructure ------------------------
(***************************************************************************)
(* The JSON structure of a worksheet and the functions every service uses  *)
(* on it: reading and writing at a path, the image queries, the fields an  *)
(* asset adds, and the template's schema.                                  *)
(*                                                                         *)
(* A structure is the function that labels each of its paths: "{}" for an  *)
(* object, "[]" for an array, otherwise the value found there.  A path is  *)
(* a sequence of keys; the positions of an array are the keys Indices.     *)
(* The text of a value is kept only as far as the code looks into it: a    *)
(* phrase, a file name, markup, a number, an identifier.                   *)
(***************************************************************************)
EXTENDS Naturals, Sequences, FiniteSets

CONSTANTS
    Phrases,    \* texts that describe something
    FileNames,  \* texts that end in an image suffix or contain a slash
    Markup,     \* texts that look like HTML
    Figures,    \* numbers
    Assets,     \* ids of library assets
    UploadKeys, \* S3 keys of uploaded images
    Worded,     \* filenameToSearchQuery: a phrase, or "" when nothing is left
    Lineart,    \* the phrase with " lineart" behind it
    Plain,      \* the phrase without the word
    MatchInstruction, \* for each kind of number match, what the learner is told
    RightText,  \* for each kind, the text that goes with a number
    Indices,    \* the positions of an array, in order
    SlotNames   \* the text of a path, the key of userUploadedImages

ASSUME TextAssumption ==
    /\ Worded \in [FileNames -> Phrases \cup {""}]
    /\ Lineart \in [Phrases -> Phrases]
    /\ Plain \in [Phrases -> Phrases]
    /\ "number_names" \in DOMAIN MatchInstruction
    /\ RightText \in [DOMAIN MatchInstruction -> [Figures -> Phrases]]
    /\ "0" \in Figures /\ Phrases \cap Markup = {}
    /\ Indices \in Seq(STRING)
    /\ \A i, j \in DOMAIN Indices : Indices[i] = Indices[j] => i = j

Text == Phrases \cup FileNames \cup Markup \cup {""}
IsText(v) == v \in Text \cup Assets \cup UploadKeys
IndexKeys == {Indices[i] : i \in DOMAIN Indices}
Position(k) == CHOOSE i \in DOMAIN Indices : Indices[i] = k

AliasKeys == <<"imageQuery", "image_name", "imageName", "searchDescription">>
IsAliasKey(k) == \E i \in DOMAIN AliasKeys : AliasKeys[i] = k
SkipKeys == {"editable_fields", "editableFields", "fieldPrompts", "ai_config",
             "aiConfig", "meta", "userUploadedImages"}
TransientKeys == {"imageUrl", "assetUrl", "signedUrl"}
EnrichmentKeys == {"assetId", "userUploadedKey", "userUploadedImages"}
PairSides == {"left", "right"}
PairImage == [s \in PairSides |-> IF s = "left" THEN "left_image" ELSE "right_image"]
PairAlias == [s \in PairSides |->
                 IF s = "left" THEN "left_imageQuery" ELSE "right_imageQuery"]
PairHint == [s \in PairSides |-> IF s = "left" THEN "left_hint" ELSE "right_hint"]
\* The names of fields that the code itself uses.
OwnNames == {AliasKeys[i] : i \in DOMAIN AliasKeys} \cup TransientKeys \cup EnrichmentKeys
            \cup {PairImage[s] : s \in PairSides} \cup {PairAlias[s] : s \in PairSides}
            \cup {"topic", "instruction_text", "pairs", "number", "name", "question", "text",
                  "items", "rows", "sentence", "letter", "caption", "label", "word"}

\* No text is the label of an object, an array or nothing; a position is a
\* number in the code, and so no name.
ASSUME LabelAssumption ==
    /\ {"{}", "[]", "absent", "null"} \cap (Text \cup Assets \cup UploadKeys) = {}
    /\ OwnNames \subseteq STRING \ IndexKeys
    /\ \A p \in DOMAIN SlotNames : SlotNames[p] \in STRING \ IndexKeys
    /\ \A k \in DOMAIN MatchInstruction : MatchInstruction[k] \in Text

-----------------------------------------------------------------------------
(* Trees.                                                                  *)

Parent(p) == SubSeq(p, 1, Len(p) - 1)
Key(p) == p[Len(p)]
Within(p, q) == Len(p) <= Len(q) /\ SubSeq(q, 1, Len(p)) = p
Has(t, p) == p \in DOMAIN t
IsRecord(t, p) == Has(t, p) /\ t[p] = "{}"
IsArray(t, p) == Has(t, p) /\ t[p] = "[]"
Field(t, p, k) == IF Has(t, Append(p, k)) THEN t[Append(p, k)] ELSE "absent"
Below(t, p) == {q \in DOMAIN t : Within(p, q)}
Children(t, p) == {q \in DOMAIN t \ {<<>>} : Parent(q) = p}
Elements(t, p) == IF IsArray(t, p) THEN Children(t, p) ELSE {}
\* The length of an array counts the positions left out before its last element.
Length(t, p) ==
    LET lengths == {0} \cup {Position(Key(q)) : q \in Elements(t, p)}
    IN  CHOOSE n \in lengths : \A m \in lengths : m <= n

Subtree(t, p) ==
    [q \in {SubSeq(r, Len(p) + 1, Len(r)) : r \in Below(t, p)} |-> t[p \o q]]
Prune(t, P) == [q \in {r \in DOMAIN t : ~\E p \in P : Within(p, r)} |-> t[q]]
\* The values of one structure written into another: nothing is below a value, an
\* object or an array keeps what it has.
Overlay(t, u) ==
    LET values == {p \in DOMAIN u : u[p] \notin {"{}", "[]"}}
        all == DOMAIN t \cup DOMAIN u
    IN  [q \in {o \in all : ~\E p \in values : p # o /\ Within(p, o)} |->
            IF Has(u, q) THEN u[q] ELSE t[q]]
Leaf(v) == [q \in {<<>>} |-> v]
Put(t, p, v) == Overlay(Prune(t, {p}), [q \in {p \o r : r \in DOMAIN v} |->
                                          v[SubSeq(q, Len(p) + 1, Len(q))]])

\* What would hold the value at a path is there.
HasPlace(t, p) == IF Key(p) \in IndexKeys THEN IsArray(t, Parent(p)) ELSE IsRecord(t, Parent(p))

\* Every value of a structure is in an object or in an array.
Hangs(t) ==
    /\ <<>> \in DOMAIN t /\ DOMAIN t \subseteq Seq(STRING) /\ IsFiniteSet(DOMAIN t)
    /\ \A p \in DOMAIN t \ {<<>>} : HasPlace(t, p)
\* No array leaves a position out.
Gapless(D) ==
    \A p \in D \ {<<>>} : Key(p) \in IndexKeys =>
        \A i \in 1..Position(Key(p)) : Append(Parent(p), Indices[i]) \in D
\* What JSON.parse can give.
IsTree(t) == Hangs(t) /\ Gapless(DOMAIN t)

\* Mutant: what would hold the value is not looked at.
CanSetAnywhere(t, p) == p # <<>>

\* Where setValueAtPath does not throw: the value at the last key may be new,
\* what holds it may not.  A new element may leave positions out before it.
CanSet(t, p) == p # <<>> /\ HasPlace(t, p)

-----------------------------------------------------------------------------
(* Image queries.                                                          *)

Descriptions == Phrases \cup Markup
AliasesIn(t, p, S) == {i \in DOMAIN AliasKeys : Field(t, p, AliasKeys[i]) \in S}
FirstAlias(t, p, S) ==
    Field(t, p, AliasKeys[CHOOSE i \in AliasesIn(t, p, S) :
                              \A j \in AliasesIn(t, p, S) : i <= j])

\* visualQueryFromImageRecord; "" is its null.
VisualQuery(t, p) ==
    IF AliasesIn(t, p, Descriptions) # {} THEN FirstAlias(t, p, Descriptions)
    ELSE IF AliasesIn(t, p, FileNames) # {} THEN Worded[FirstAlias(t, p, FileNames)]
    ELSE ""

Walked(p) == \A i \in DOMAIN p : p[i] \notin SkipKeys /\ ~IsAliasKey(p[i])
ImageRecords(t) ==
    {p \in DOMAIN t : t[p] = "{}" /\ Walked(p) /\ VisualQuery(t, p) # ""}
Queries(t) == [p \in ImageRecords(t) |-> VisualQuery(t, p)]
\* What makes collectImageQueries throw.
HasBadQuery(t) ==
    \E p \in DOMAIN t :
        /\ t[p] = "{}" /\ Walked(p)
        /\ \/ Field(t, p, "imageQuery") = ""
           \/ /\ Field(t, p, "imageQuery") \in FileNames
              /\ AliasesIn(t, p, Descriptions) = {}
Changed(old, new) ==
    {p \in ImageRecords(new) :
        p \notin ImageRecords(old) \/ VisualQuery(old, p) # VisualQuery(new, p)}

\* collectImageSlots: the id a picture is known by to the editor.
SlotId(t, p) ==
    IF Field(t, p, "id") \in Text \ {""} THEN <<Field(t, p, "id")>>
    ELSE IF \E i \in DOMAIN p : p[i] \in IndexKeys THEN p
    ELSE IF p = <<>> THEN <<"image">> ELSE <<Key(p)>>

WithLineart(q, lineart) == IF lineart /\ q \in Phrases THEN Lineart[q] ELSE q
StripLineart(t) ==
    [p \in DOMAIN t |->
        IF t[p] \in Phrases /\ (p = <<>> \/ ~IsAliasKey(Key(p))) THEN Plain[t[p]]
        ELSE t[p]]

-----------------------------------------------------------------------------
(* normalizeImageQueryFields.                                              *)

Unskipped(p) == \A i \in DOMAIN p : p[i] \notin SkipKeys
Pairs(t, names) ==
    {x \in (DOMAIN t) \X PairSides :
        t[x[1]] = "{}" /\ Unskipped(x[1]) /\ Has(t, Append(x[1], names[x[2]]))}

\* left_imageQuery becomes the query of left_image, unless that has one.
CoercePairAliases(t) ==
    LET stray == {x \in Pairs(t, PairAlias) :
                     Field(t, x[1], PairAlias[x[2]]) \in Text \ {""}}
        image(x) == Append(x[1], PairImage[x[2]])
        empty == {x \in stray :
                     \/ Field(t, x[1], PairImage[x[2]]) \in {"absent", "null", ""}
                     \/ IsRecord(t, image(x)) /\ VisualQuery(t, image(x)) = ""}
        asked == {Append(image(x), "imageQuery") : x \in empty}
        side(q) == CHOOSE s \in PairSides : q[Len(q) - 1] = PairImage[s]
    IN  Overlay(Overlay(Prune(t, {Append(x[1], PairAlias[x[2]]) : x \in stray}),
                        [q \in {image(x) : x \in empty} |-> "{}"]),
                [q \in asked |-> Field(t, Parent(Parent(q)), PairAlias[side(q)])])

AddQueries(t) ==
    LET wanting == {p \in DOMAIN t :
                       /\ t[p] = "{}" /\ Unskipped(p) /\ VisualQuery(t, p) # ""
                       /\ Field(t, p, "imageQuery") \notin Descriptions}
    IN  Overlay(t, [q \in {Append(p, "imageQuery") : p \in wanting} |->
                       VisualQuery(t, Parent(q))])

\* A pair image that is a text becomes an object; so does an empty one whose
\* hint describes the picture.
PairImagesAsRecords(t) ==
    LET hint(x) == IF Field(t, x[1], PairHint[x[2]]) \in Text
                   THEN Field(t, x[1], PairHint[x[2]]) ELSE ""
        value(x) == Field(t, x[1], PairImage[x[2]])
        path(x) == Append(x[1], PairImage[x[2]])
        named == {x \in Pairs(t, PairImage) : value(x) \in Text \ {""}}
        hinted == {x \in Pairs(t, PairImage) :
                      value(x) \in {"null", ""} /\ hint(x) \in Descriptions}
        query(x) == IF hint(x) # "" THEN hint(x)
                    ELSE IF value(x) \in FileNames THEN Worded[value(x)] ELSE value(x)
        of(q) == CHOOSE x \in named \cup hinted : path(x) = Parent(q)
    IN  Overlay(t, [q \in {path(x) : x \in named \cup hinted}
                          \cup {Append(path(x), "imageQuery") : x \in named \cup hinted}
                          \cup {Append(path(x), "image_name") : x \in named} |->
                       CASE Key(q) = "imageQuery" -> query(of(q))
                         [] Key(q) = "image_name" -> value(of(q))
                         [] OTHER -> "{}"])

Items(t) == {p \in Elements(t, <<"items">>) : t[p] = "{}"}
IsBeforeAfter(t) ==
    \/ Field(t, <<>>, "worksheet_type") = "numbers_after_and_before"
    \/ /\ Elements(t, <<"items">>) # {}
       /\ \A p \in Elements(t, <<"items">>) :
            /\ IsRecord(t, p) /\ Has(t, Append(p, "blank_position"))
            /\ LET n == Field(t, p, "number") IN n \in Figures \/ IsText(n)

\* unifyBeforeAfterSharedMascot: one picture for every item of the grid, the
\* first that has an asset, otherwise the first that has a query.
SharedKeys == {"assetId"} \cup TransientKeys
Filled(t, p, k) == IsText(Field(t, p, k)) /\ Field(t, p, k) # ""
UnifyMascot(t) ==
    LET placed == {p \in Items(t) : \E k \in SharedKeys : Filled(t, p, k)}
        queried == {p \in Items(t) : VisualQuery(t, p) # ""}
        from == IF placed # {} THEN placed ELSE queried
        first == CHOOSE p \in from : \A q \in from : Position(Key(p)) <= Position(Key(q))
        query == IF Filled(t, first, "imageQuery") THEN Field(t, first, "imageQuery")
                 ELSE VisualQuery(t, first)
        keys == {k \in SharedKeys \cup {"image_name"} : Filled(t, first, k)}
                    \cup (IF query = "" THEN {} ELSE {"imageQuery"})
    IN  IF ~IsBeforeAfter(t) \/ from = {} THEN t
        ELSE Overlay(t, [q \in {Append(p, k) : p \in Items(t), k \in keys} |->
                            IF Key(q) = "imageQuery" THEN query
                            ELSE Field(t, first, Key(q))])

Normalise(t) == UnifyMascot(PairImagesAsRecords(AddQueries(CoercePairAliases(t))))

-----------------------------------------------------------------------------
(* Names of the editor for paths.                                          *)

\* A name is [alias |-> "", path |-> a path], or the kind of an alias with
\* its number as the path's only key.
TextKey(t, p, keys, default) ==
    LET texts == {i \in DOMAIN keys : IsText(Field(t, p, keys[i]))}
    IN  IF texts = {} THEN default ELSE keys[CHOOSE i \in texts : \A j \in texts : i <= j]
FieldPath(t, f) ==
    LET n == f.path[1]
        with == {p \in Elements(t, <<"questions">>) :
                    IsRecord(t, p) /\ IsArray(t, Append(p, "options"))}
        question == IF with = {} THEN "2"
                    ELSE Key(CHOOSE p \in with : \A q \in with :
                                 Position(Key(p)) <= Position(Key(q)))
    IN  CASE f.alias = "question" /\ IsArray(t, <<"questions">>) ->
                 <<"questions", n, "question">>
          [] f.alias = "option" /\ IsArray(t, <<"questions">>) ->
                 <<"questions", question, "options", n, "text">>
          [] f.alias = "sentence" /\ IsArray(t, <<"rows">>) -> <<"rows", n, "sentence">>
          [] f.alias = "item" /\ IsArray(t, <<"items">>) ->
                 <<"items", n, TextKey(t, <<"items", n>>,
                                       <<"caption", "label", "word", "text">>, "caption")>>
          [] f.alias = "word" /\ IsArray(t, <<"items">>) ->
                 <<"items", n, TextKey(t, <<"items", n>>,
                                       <<"word", "caption", "label">>, "word")>>
          [] f.alias \in {"left_letters", "right_letters", "circle_letters"}
                 /\ IsArray(t, <<f.alias>>) -> <<f.alias, n, "letter">>
          [] OTHER -> f.path

\* The field is listed, or is in one that is.
IsEditable(p, editable) == p \in editable \/ <<p[1]>> \in editable
IsValue(t, p) == IsText(t[p]) \/ t[p] \in Figures

-----------------------------------------------------------------------------
(* What an asset or an upload writes into a structure.                     *)

StripTransient(t) == Prune(t, {p \in DOMAIN t : p # <<>> /\ Key(p) \in TransientKeys})

\* applySlot: without an asset the structure stays as it is.
ApplySlot(t, p, asset) ==
    StripTransient(IF asset = "null" THEN t
                   ELSE Put(t, Append(p, "assetId"), Leaf(asset)))

\* attachAssetsBatch: every query is searched once; a record whose query found
\* nothing stays as it is.  A picture inside the assetId of another is gone when
\* its turn comes, and applySlot throws.
Wanted(t, lineart) == {WithLineart(VisualQuery(t, p), lineart) : p \in ImageRecords(t)}
Pictured(t, found, lineart) ==
    LET asset(p) == found[WithLineart(VisualQuery(t, p), lineart)]
        slots == {p \in ImageRecords(t) : asset(p) # "null"}
    IN  StripTransient(Overlay(t, [q \in {Append(p, "assetId") : p \in slots} |->
                                      asset(Parent(q))]))
LosesPicture(t, found, lineart) ==
    \E p, q \in ImageRecords(t) :
        /\ "null" \notin {found[WithLineart(VisualQuery(t, o), lineart)] : o \in {p, q}}
        /\ Within(Append(p, "assetId"), q)

Uploads == <<"userUploadedImages">>
IndexUpload(t, p, key) ==
    LET cleared == Prune(t, {Append(Uploads, SlotNames[p])})
        written == Put(Put(t, Uploads, IF IsRecord(t, Uploads)
                                       THEN Subtree(t, Uploads) ELSE Leaf("{}")),
                       Append(Uploads, SlotNames[p]), Leaf(key))
    IN  IF key # "" THEN written
        ELSE IF IsRecord(t, Uploads) /\ Children(cleared, Uploads) # {} THEN cleared
        ELSE Prune(t, {Uploads})

PatchImage(t, p, asset, key) ==
    Put(IF key = "" THEN Prune(t, {Append(p, "userUploadedKey")})
        ELSE Put(t, Append(p, "userUploadedKey"), Leaf(key)),
        Append(p, "assetId"), Leaf(asset))
ApplyLibraryImage(t, p, asset) ==
    StripTransient(IndexUpload(PatchImage(t, p, asset, ""), p, ""))
ApplyUserUploadedImage(t, p, key) ==
    StripTransient(IndexUpload(PatchImage(t, p, "null", key), p, key))

\* enrichForRender: the address a record's picture is shown from, the asset's
\* before the upload's before the one the client sent, which stays as both.
EnrichForRender(t) ==
    LET n == Normalise(t)
        own(p) == Filled(n, p, "assetId") \/ Field(n, p, "userUploadedKey") \in UploadKeys
        sent(p) == IF Filled(n, p, "imageUrl") THEN n[Append(p, "imageUrl")]
                   ELSE IF Filled(n, p, "assetUrl") THEN n[Append(p, "assetUrl")] ELSE ""
        url(p) == IF Filled(n, p, "assetId") THEN n[Append(p, "assetId")]
                  ELSE IF own(p) THEN n[Append(p, "userUploadedKey")] ELSE sent(p)
        bare == StripTransient(n)
        shown == {p \in DOMAIN bare : n[p] = "{}" /\ url(p) # ""}
    IN  Overlay(bare,
                [q \in {Append(p, "assetUrl") : p \in shown}
                      \cup {Append(p, "imageUrl") : p \in {o \in shown : ~own(o)}}
                    |-> url(Parent(q))])

-----------------------------------------------------------------------------
(* applyNumberMatchOverrides: the topic and the instruction of the request, *)
(* and the right column of number pairs rewritten for the kind of match.  A *)
(* pair without a number counts as zero, an unknown kind as number names.   *)

IsNumberName(t) ==
    /\ Elements(t, <<"pairs">>) # {}
    /\ \A p \in Elements(t, <<"pairs">>) :
        /\ IsRecord(t, p)
        /\ Has(t, Append(p, "number")) \/ Has(t, Append(p, "name"))
        /\ ~Has(t, Append(p, "left_image")) /\ ~Has(t, Append(p, "right_image"))
NumberMatch(t, fields) ==
    LET kind == IF fields.matchType \in DOMAIN MatchInstruction THEN fields.matchType
                ELSE "number_names"
        number(p) == IF Field(t, p, "number") \in Figures THEN Field(t, p, "number") ELSE "0"
        root == [q \in (IF fields.topic = "" THEN {} ELSE {<<"topic">>})
                       \cup (IF fields.matchType \notin DOMAIN MatchInstruction THEN {}
                             ELSE {<<"instruction_text">>}) |->
                    IF q = <<"topic">> THEN fields.topic ELSE MatchInstruction[kind]]
        renamed == IF fields.matchType = "" \/ ~IsNumberName(t) THEN {}
                   ELSE {Append(p, "name") : p \in Elements(t, <<"pairs">>)}
    IN  Overlay(Overlay(t, root), [q \in renamed |-> RightText[kind][number(Parent(q))]])

-----------------------------------------------------------------------------
(* The schema of a template: a node for each path, with "*" for every      *)
(* position of an array.  A node has a type, for an object the fields that *)
(* must be there and whether others may not, for an array the numbers of   *)
(* elements it may have, for a value those it may be ({}: any).            *)

SchemaPath(p) == [i \in DOMAIN p |-> IF p[i] \in IndexKeys THEN "*" ELSE p[i]]
Conforms(t, p, schema, enriched) ==
    LET node == schema[SchemaPath(p)]
    IN  CASE node.type = "object" ->
                 /\ IsRecord(t, p)
                 /\ \A k \in node.required : Has(t, Append(p, k))
                 /\ node.closed => \A q \in Children(t, p) :
                        \/ SchemaPath(q) \in DOMAIN schema
                        \/ enriched /\ Key(q) \in EnrichmentKeys
          [] node.type = "array" ->
                 IsArray(t, p) /\ Length(t, p) \in node.sizes
          [] node.type = "string" ->
                 /\ IsText(t[p]) /\ t[p] \notin Markup
                 /\ node.allowed = {} \/ t[p] \in node.allowed
          [] node.type = "number" ->
                 t[p] \in Figures /\ (node.allowed = {} \/ t[p] \in node.allowed)
          [] node.type = "boolean" -> t[p] \in {"true", "false"}
          [] OTHER -> TRUE
\* The walk reaches a node of the schema only through nodes it declares.
Valid(t, schema, enriched) ==
    \A p \in DOMAIN t : SchemaPath(p) \in DOMAIN schema => Conforms(t, p, schema, enriched)

\* validateGeneratedStructure: the structure it returns, and when it does not
\* throw.
Validated(t, lineart) == IF lineart THEN StripLineart(t) ELSE t
Accepts(t, template, enriched) ==
    /\ IsRecord(t, <<>>)
    /\ Valid(t, template.schema, enriched) /\ ~HasBadQuery(t)
=============================================================================
