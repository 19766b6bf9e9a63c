----------------------------- MODULE Documents -----------------------------
(***************************************************************************)
(* The worksheet and the flashcard set together, over the one Chromium     *)
(* both render with, and what their requests promise each other.           *)
(***************************************************************************)
EXTENDS WorksheetDocuments, FlashcardDocuments

CONSTANT Scenarios  \* what the requests may ask for: [worksheet, deck]

IsList(s) == Len(s) \in Nat /\ s = [i \in 1..Len(s) |-> s[i]]
\* What the DTOs of the two controllers let through.  Only edits, regenerations
\* and renders come for temp- documents.
WellFormed(o) ==
    /\ o.kind \in {"update", "save", "replace"} => ~o.temp
    /\ o.temp => IsTree(o.sent) /\ IsRecord(o.sent, <<>>)
    /\ o.kind \in {"edit", "update"} => o.field.path \in Seq(STRING) \ {<<>>}
    /\ o.kind = "save" =>
           IsList(o.fields) /\ \A i \in DOMAIN o.fields : o.fields[i].path \in Seq(STRING)
    /\ o.kind \in {"save", "replace"} =>
           IsList(o.images) /\ ImagePaths(o) \subseteq Seq(STRING) \cap DOMAIN SlotNames
    /\ o.kind = "replace" => 1 \in DOMAIN o.images
    /\ o.kind = "regenerate" => o.fields.topic \in Text
\* AssetReference: the key is "null when the slot uses a library asset".
IsPicture(x) ==
    /\ x = [asset |-> x.asset, key |-> x.key, signed |-> x.signed] /\ x.signed \in BOOLEAN
    /\ "null" \in {x.asset, x.key}
IsCard(c) == c = [kind |-> c.kind, content |-> c.content, picture |-> c.picture] /\ IsPicture(c.picture)
IsDeck(d) ==
    /\ d = [template |-> d.template, cards |-> d.cards]
    /\ \A s \in DOMAIN d.cards : IsCard(d.cards[s])
WellAsked(a) ==
    /\ a.kind = "save" => IsList(a.images)
    /\ a.kind = "saveGenerated" => IsDeck(a.deck)

ASSUME ScenarioAssumption ==
    /\ \A s \in Scenarios : /\ \A r \in Requests : WellFormed(s.worksheet[r])
                            /\ \A r \in DeckRequests : WellAsked(s.deck[r])
    /\ IsDeck(FirstDeck) /\ \A s \in DOMAIN FirstDeck.cards : ~FirstDeck.cards[s].picture.signed

vars == <<worksheetVars, deckVars, pool>>

Init ==
    /\ \E s \in Scenarios : op = s.worksheet /\ ask = s.deck
    /\ WorksheetInit /\ DeckInit /\ PoolInit

Next ==
    \/ \E r \in Requests : WorksheetStep(r) /\ UNCHANGED deckVars
    \/ \E r \in DeckRequests : DeckStep(r) /\ UNCHANGED worksheetVars
    \/ PoolStep /\ UNCHANGED <<worksheetVars, deckVars>>

Spec == Init /\ [][Next]_vars

\* The event loop runs the next callback of a render that has begun: every await
\* of one is answered or throws, a launch of Chromium too.  No number of edits can
\* hold it up.
Rendering ==
    \/ \E r \in Requests : RenderStep(r) /\ UNCHANGED deckVars
    \/ \E r \in DeckRequests : DeckRenderStep(r) /\ UNCHANGED worksheetVars
    \/ (Launched \/ LaunchFails) /\ UNCHANGED <<worksheetVars, deckVars>>
FairSpec == Spec /\ WF_vars(Rendering)

TypeOK == WorksheetTypeOK /\ DeckTypeOK /\ PoolTypeOK

-----------------------------------------------------------------------------
(* What is stored.                                                         *)

Overrides == {<<"topic">>, <<"instruction_text">>}

\* Whatever the requests do to each other's copies, the stored worksheet is a
\* tree of the template's schema with nothing more than the enrichment keys,
\* except for the texts the overrides of a regeneration put there after the
\* validation; its image queries are usable and no address of an asset is stored.
\* No picture of a stored deck has both an asset and an upload, or a signed address.
StoredIsSound ==
    LET t == row.structure
        own == Prune(t, Overrides \ DOMAIN Template.schema)
    IN  /\ \A p \in DOMAIN own : SchemaPath(p) \in DOMAIN Template.schema =>
              \/ Conforms(own, p, Template.schema, TRUE)
              \/ p \in Overrides /\ IsText(own[p])
        /\ ~HasBadQuery(t)
        /\ \A p \in DOMAIN t \ {<<>>} : Key(p) \notin TransientKeys
        /\ \A d \in created \cup {deck} : \A s \in DOMAIN d.cards :
               /\ ~d.cards[s].picture.signed
               /\ "null" \in {d.cards[s].picture.asset, d.cards[s].picture.key}

\* What a request may change in the structure it read.
Slot(p) == {Append(p, "assetId"), Append(p, "userUploadedKey"), Uploads}
Targets(r) ==
    LET o == op[r]
    IN  CASE o.kind \in {"edit", "update"} ->
                 {IF o.kind = "edit" THEN FieldPath(base[r], o.field) ELSE o.field.path}
                     \cup {Append(p, "assetId") : p \in Changed(base[r], row'.structure)}
          [] o.kind = "save" -> {o.fields[i].path : i \in DOMAIN o.fields}
                                    \cup UNION {Slot(p) : p \in ImagePaths(o)}
          [] o.kind = "replace" -> Slot(o.images[1].path)
          [] OTHER -> {<<>>}
DeckTargets(r) ==
    IF ask[r].kind = "edit" THEN {ask[r].slot}
    ELSE {ask[r].fields[i].slot : i \in DOMAIN ask[r].fields}
             \cup {ask[r].images[i].slot : i \in DOMAIN ask[r].images}

\* An edit writes a whole document.  Compared with the one it read, nothing is
\* different outside the fields and the pictures it was asked for, and those
\* whose query it changed: no other field is lost, reset or normalised away.
WritesOnlyWhatWasAsked ==
    [][/\ \A r \in Requests : pc[r] = "write" /\ pc'[r] = "done" =>
            \A q \in DOMAIN base[r] \cup DOMAIN row'.structure :
                \/ Has(base[r], q) /\ Has(row'.structure, q) /\ base[r][q] = row'.structure[q]
                \/ \E p \in Targets(r) : Within(p, q)
       /\ \A r \in DeckRequests : at[r] = "write" /\ at'[r] = "done" =>
            /\ deck'.template = deck.template
            /\ DOMAIN deck'.cards = DOMAIN seen[r].cards
            /\ \A s \in DOMAIN deck'.cards :
                   deck'.cards[s] = seen[r].cards[s] \/ s \in DeckTargets(r)]_vars

-----------------------------------------------------------------------------
(* Rendering.                                                              *)

\* A row of an output, and the answer of a render, stand for files that are
\* there: under each key a render answers with lies a file of that page, put there
\* by it or by another render that has the same place and has saved the page.
FilesStandBehindAnswers ==
    /\ \A r \in outputs : FileKey(op[r].format) \in objects
    /\ \A r \in DeckRequests : ask[r].kind = "render" /\ at[r] = "done" =>
           \A p \in Pages :
               /\ FileAt(r, p) \in DOMAIN files
               /\ \E q \in DeckRequests :
                      /\ files[FileAt(r, p)] = q /\ ask[q].kind = "render"
                      /\ FileAt(q, p) = FileAt(r, p) /\ jobs[q][p] = "saved"

\* The renderer's prompt (docs/file-generation): "Keep files grouped by request."
\* The files a render answers with show the generation it was sent, whatever else
\* is rendered since.
FilesAreGroupedByRequest ==
    \A r \in DeckRequests : ask[r].kind = "render" /\ at[r] = "done" =>
        \A p \in Pages : ask[files[FileAt(r, p)]].set = ask[r].set

\* Under the fairness every render that has begun is answered, every page that
\* was opened is closed, those of the workers a failed render left behind
\* included, and no worksheet stays RENDERING unless the write of its end was
\* lost.
EverythingSettles ==
    <>[](/\ \A r \in Requests :
               op[r].kind \in {"render", "renderPayload"} => pc[r] \in {"begin", "done", "failed"}
         /\ \A r \in DeckRequests :
               ask[r].kind \in {"render", "download", "notify"} => at[r] \in {"done", "failed"}
         /\ \A c \in Clients : client[c].at \notin {"waiting", "page"}
         /\ row.status = "RENDERING" => unsettled)

\* The comment on ENRICHMENT_KEYS: "Keys allowed on persisted structure besides
\* the template schema."
OnlyEnrichmentIsAdded == Valid(row.structure, Template.schema, TRUE)
=============================================================================
