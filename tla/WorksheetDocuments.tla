------------------------ MODULE WorksheetDocuments ------------------------
(***************************************************************************)
(* One stored worksheet and the requests that read, edit and render it.    *)
(* A request reads the row once, works on that copy across its awaits (the *)
(* language model, the image search, the asset table, Chromium, S3) and    *)
(* writes what it made of it; nothing locks the row in between.  A request *)
(* for a temp- document works on what the client sent and writes nothing.  *)
(***************************************************************************)
EXTENDS WorksheetStructure, BrowserPool

CONSTANTS
    Requests,       \* requests under way
    Template,       \* its schema, slug and editable fields
    Stored,         \* the structure the row has at first
    Replies,        \* what the model may replace a field by
    Answers,        \* structures the model may answer with
    Library,        \* the assets that exist
    Forbidden       \* phrases the country forbids

\* A schema says what the model is to write: not what an asset adds to it, nor an
\* address.  What its root requires it declares, and a closed number pair has a
\* name, which may be any text.
ASSUME TemplateAssumption ==
    LET schema == Template.schema
        pair == <<"pairs", "*">>
    IN  /\ \A p \in DOMAIN schema :
              /\ p \in Seq(STRING)
              /\ \A i \in DOMAIN p : p[i] \notin EnrichmentKeys \cup TransientKeys
              /\ schema[p].required \subseteq STRING \ (EnrichmentKeys \cup TransientKeys)
        /\ <<>> \in DOMAIN schema => \A k \in schema[<<>>].required : <<k>> \in DOMAIN schema
        /\ {pair, Append(pair, "number")} \subseteq DOMAIN schema /\ schema[pair].closed =>
               Append(pair, "name") \in DOMAIN schema
        /\ Append(pair, "name") \in DOMAIN schema =>
               LET name == schema[Append(pair, "name")]
               IN  name.type = "string" /\ name.allowed = {}

\* What is stored at first was generated: it is valid and has no address of an
\* asset.  The model answers in JSON.
ASSUME DocumentAssumption ==
    /\ Library \subseteq Assets /\ Forbidden \subseteq Phrases
    /\ \A t \in {Stored} \cup Replies \cup Answers : IsTree(t)
    /\ Accepts(Stored, Template, TRUE)
    /\ \A p \in DOMAIN Stored \ {<<>>} : Key(p) \notin TransientKeys

VARIABLES
    op,         \* what each request asks for
    pc,         \* where it is
    base,       \* the structure it read
    work,       \* the structure it will write
    todo,       \* the image records it still has to resolve
    row,        \* the Worksheet row
    objects,    \* the files in S3
    outputs,    \* the WorksheetOutput rows, by the request that made them
    unsettled   \* a status could not be written

document == <<row, objects, outputs, unsettled>>
copies == <<op, base, work, todo>>
worksheetVars == <<op, pc, base, work, todo, document>>

Statuses == {"DRAFT", "GENERATED", "RENDERING", "COMPLETED", "FAILED"}
RenderSteps == {"browser", "newPage", "capture", "store", "output", "complete", "catch"}
Steps == {"begin", "model", "images", "attach", "check", "upload", "write", "mark",
          "post", "done", "failed"} \cup RenderSteps
FileKey(format) == <<"render", format>>

Client(r) == <<r, 0>>

Goto(r, step) == pc' = [pc EXCEPT ![r] = step]
Is(r, kind, step) == op[r].kind = kind /\ pc[r] = step
ImagePaths(o) == {o.images[i].path : i \in DOMAIN o.images}

WorksheetTypeOK ==
    /\ pc \in [Requests -> Steps]
    /\ \A r \in Requests : IsTree(base[r]) /\ Hangs(work[r]) /\ todo[r] \subseteq Seq(STRING)
    /\ \A r \in Requests : IsRecord(base[r], <<>>) /\ IsRecord(work[r], <<>>)
    /\ DOMAIN row = {"structure", "request", "status"} /\ row.status \in Statuses
    /\ IsTree(row.structure) /\ IsRecord(row.structure, <<>>)
    /\ outputs \subseteq Requests /\ unsettled \in BOOLEAN

WorksheetInit ==
    /\ pc = [r \in Requests |-> IF op[r].kind = "none" THEN "done" ELSE "begin"]
    /\ base = [r \in Requests |-> Leaf("{}")] /\ work = base
    /\ todo = [r \in Requests |-> {}]
    /\ row = [structure |-> Stored, request |-> "first", status |-> "GENERATED"]
    /\ objects = {} /\ outputs = {} /\ unsettled = FALSE

-----------------------------------------------------------------------------
(* Reading.                                                                *)

Take(r, t, step, paths) ==
    /\ base' = [base EXCEPT ![r] = IF op[r].temp THEN op[r].sent ELSE row.structure]
    /\ work' = [work EXCEPT ![r] = t]
    /\ todo' = [todo EXCEPT ![r] = paths]
    /\ Goto(r, step)
    /\ UNCHANGED <<op, document, pool>>
Reject(r) == Goto(r, "failed") /\ UNCHANGED <<copies, document, pool>>
Source(r) == IF op[r].temp THEN op[r].sent ELSE row.structure

Accepted(t) == Accepts(Validated(t, Template.lineart), Template, TRUE)
\* A field that is not listed may be edited when it is a text or a number.
MayEdit(t, p) ==
    Has(t, p) /\ (IsEditable(p, Template.editable) \/ IsValue(t, p))

\* edit, regenerate and correctGrammar up to the language model.
ReadForModel(r) ==
    /\ pc[r] = "begin" /\ op[r].kind \in {"edit", "regenerate", "grammar"}
    /\ LET t == Source(r)
           allowed == op[r].kind = "grammar" \/ op[r].text \notin Forbidden \cup {""}
           possible == op[r].kind # "edit" \/ MayEdit(t, FieldPath(t, op[r].field))
       IN  IF allowed /\ possible THEN Take(r, t, "model", {}) ELSE Reject(r)

\* What follows a new structure: the queries that changed are searched again.
Resolve(r, t) ==
    LET changed == Changed(base[r], t)
    IN  /\ work' = [work EXCEPT ![r] = t]
        /\ todo' = [todo EXCEPT ![r] = changed]
        /\ Goto(r, IF changed # {} THEN "images" ELSE IF op[r].temp THEN "done" ELSE "write")
        /\ UNCHANGED <<op, base, document, pool>>

UpdateField(r) ==
    /\ Is(r, "update", "begin")
    /\ LET t == row.structure
           p == op[r].field.path
           set == Put(t, p, Leaf(op[r].value))
           next == Validated(set, Template.lineart)
           possible == /\ Has(t, p)
                       /\ Template.editable = {} \/ MayEdit(t, p)
                       /\ op[r].value \notin Markup /\ CanSet(t, p) /\ Accepted(set)
           changed == Changed(t, next)
       IN  IF ~possible THEN Reject(r)
           ELSE Take(r, next, IF changed = {} THEN "write" ELSE "images", changed)

\* The fields of a save, one after the other: what is not editable or has no
\* place is skipped; markup, or a field that is neither listed nor there, is
\* refused with the whole save.
Unlisted(f) == Template.editable # {} /\ ~IsEditable(f.path, Template.editable)
SavedUpTo(o, t) ==
    LET after[i \in 0..Len(o.fields)] ==
            IF i = 0 THEN t
            ELSE LET f == o.fields[i]
                     before == after[i - 1]
                     skipped == \/ ~CanSet(before, f.path)
                                \/ Unlisted(f) /\ ~(Has(before, f.path) /\ IsValue(before, f.path))
                 IN  IF skipped THEN before ELSE Put(before, f.path, Leaf(f.value))
    IN  after
SavedFields(o, t) == SavedUpTo(o, t)[Len(o.fields)]
SaveRefused(o, t) ==
    \E i \in DOMAIN o.fields :
        \/ o.fields[i].value \in Markup
        \/ Unlisted(o.fields[i]) /\ ~Has(SavedUpTo(o, t)[i - 1], o.fields[i].path)
ReadForSave(r) ==
    /\ Is(r, "save", "begin")
    /\ LET t == SavedFields(op[r], row.structure)
       IN  IF SaveRefused(op[r], row.structure) THEN Reject(r)
           ELSE IF op[r].images # <<>> THEN Take(r, t, "attach", ImagePaths(op[r]))
           ELSE IF Accepted(t) THEN Take(r, Validated(t, Template.lineart), "write", {})
           ELSE Reject(r)

ReadForReplace(r) ==
    Is(r, "replace", "begin") /\ Take(r, row.structure, "check", {})
ReadForUpload(r) ==
    /\ Is(r, "upload", "begin")
    /\ IF IsRecord(row.structure, op[r].images[1].path)
       THEN Take(r, row.structure, "upload", {}) ELSE Reject(r)

-----------------------------------------------------------------------------
(* The awaits.                                                             *)

\* {"value": x} stands for x.
Replacement(v) == IF Has(v, <<"value">>) THEN Subtree(v, <<"value">>) ELSE v
\* Mutant: what the model answered is not validated.
ModelEditsUnchecked(r) ==
    /\ Is(r, "edit", "model")
    /\ \E v \in Replies :
        LET p == FieldPath(base[r], op[r].field)
        IN  CanSet(base[r], p) /\ Resolve(r, StripTransient(Put(base[r], p, Replacement(v))))
ModelEdits(r) ==
    /\ Is(r, "edit", "model")
    /\ \E v \in Replies :
        LET p == FieldPath(base[r], op[r].field)
            next == StripTransient(Put(base[r], p, Replacement(v)))
        IN  IF CanSet(base[r], p) /\ Accepted(next)
            THEN Resolve(r, Validated(next, Template.lineart)) ELSE Reject(r)

\* correctLearnerGrammar takes over the texts of questions and options.
Correctable(t, p) ==
    /\ p # <<>> /\ IsRecord(t, Parent(p)) /\ p[1] = "questions"
    /\ \/ Len(p) = 3 /\ Key(p) = "question"
       \/ Len(p) = 5 /\ p[3] = "options" /\ Key(p) = "text"
Corrected(t, answer) ==
    LET texts == {p \in DOMAIN answer : IsText(answer[p]) /\ Correctable(t, p)}
    IN  Overlay(t, [p \in texts |-> answer[p]])
ModelCorrects(r) ==
    /\ Is(r, "grammar", "model")
    /\ \E answer \in Answers :
        LET next == StripTransient(Corrected(base[r], answer))
        IN  IF Accepted(next)
            THEN /\ work' = [work EXCEPT ![r] = Validated(next, Template.lineart)]
                 /\ Goto(r, "done") /\ UNCHANGED <<op, base, todo, document, pool>>
            ELSE Reject(r)

ModelRegenerates(r) ==
    /\ Is(r, "regenerate", "model")
    /\ \E answer \in Answers :
        LET raw == Validated(answer, Template.lineart)
            t == Validated(Normalise(raw), Template.lineart)
            leaks == \E p \in DOMAIN answer : answer[p] \in Forbidden
        IN  IF ~Accepts(raw, Template, TRUE) \/ leaks \/ HasBadQuery(t) THEN Reject(r)
            ELSE \E found \in [Wanted(t, Template.lineart) -> Library \cup {"null"}] :
                LET next == Pictured(t, found, Template.lineart)
                    valid == Validated(next, Template.lineart)
                IN  IF ~LosesPicture(t, found, Template.lineart) /\ Accepted(next)
                    THEN /\ work' = [work EXCEPT ![r] = NumberMatch(valid, op[r].fields)]
                         /\ Goto(r, IF op[r].temp THEN "done" ELSE "write")
                         /\ UNCHANGED <<op, base, todo, document, pool>>
                    ELSE Reject(r)

\* resolveSlot for one changed query never throws; applySlot does when an asset
\* found for a record above has taken the place of this one.
FindImage(r) ==
    /\ pc[r] = "images"
    /\ LET p == CHOOSE q \in todo[r] : \A o \in todo[r] : Len(q) <= Len(o)
       IN  \E found \in Library \cup {"null"} :
            IF found = "null" \/ IsRecord(work[r], p)
            THEN /\ work' = [work EXCEPT ![r] = ApplySlot(work[r], p, found)]
                 /\ todo' = [todo EXCEPT ![r] = @ \ {p}]
                 /\ Goto(r, IF todo[r] # {p} THEN "images"
                            ELSE IF op[r].temp THEN "done" ELSE "write")
                 /\ UNCHANGED <<op, base, document, pool>>
            ELSE Reject(r)

\* resolveAsset for the images of a save; an upload's key is taken as it is.
AttachImage(r) ==
    /\ pc[r] = "attach"
    /\ LET o == op[r]
           i == CHOOSE j \in DOMAIN o.images :
                   /\ o.images[j].path \in todo[r]
                   /\ \A k \in DOMAIN o.images : o.images[k].path \in todo[r] => j <= k
           image == o.images[i]
           next == IF image.key # "" THEN ApplyUserUploadedImage(work[r], image.path, image.key)
                   ELSE ApplyLibraryImage(work[r], image.path, image.asset)
           last == todo[r] = {image.path}
       IN  IF /\ IsRecord(work[r], image.path) /\ (image.key # "" \/ image.asset \in Library)
              /\ last => Accepted(next)
           THEN /\ work' = [work EXCEPT ![r] =
                               IF last THEN Validated(next, Template.lineart) ELSE next]
                /\ todo' = [todo EXCEPT ![r] = @ \ {image.path}]
                /\ Goto(r, IF last THEN "write" ELSE "attach")
                /\ UNCHANGED <<op, base, document, pool>>
           ELSE Reject(r)

CheckAsset(r) ==
    /\ Is(r, "replace", "check")
    /\ LET image == op[r].images[1]
       IN  IF image.asset \in Library /\ IsRecord(base[r], image.path)
           THEN /\ work' = [work EXCEPT ![r] =
                               ApplyLibraryImage(base[r], image.path, image.asset)]
                /\ Goto(r, "write") /\ UNCHANGED <<op, base, todo, document, pool>>
           ELSE Reject(r)

UploadImage(r) ==
    /\ Is(r, "upload", "upload")
    /\ objects' = objects \cup {<<"upload", op[r].images[1].key>>}
    /\ Goto(r, "done")
    /\ UNCHANGED <<copies, row, outputs, unsettled, pool>>

\* prisma.worksheet.update: the structure, and for a regeneration the request
\* and the status with it.  It refuses an array that leaves a position out.
Write(r) ==
    /\ pc[r] = "write" /\ Gapless(DOMAIN work[r])
    /\ row' = [row EXCEPT !.structure = StripTransient(work[r]),
                          !.request = IF op[r].kind = "regenerate" THEN op[r].text ELSE @,
                          !.status = IF op[r].kind = "regenerate" THEN "GENERATED" ELSE @]
    /\ Goto(r, "done")
    /\ UNCHANGED <<copies, objects, outputs, unsettled, pool>>

\* Any await of an edit throws.
Throw(r) ==
    /\ pc[r] \in {"begin", "model", "attach", "check", "upload", "write", "mark", "post"}
    /\ Reject(r)

-----------------------------------------------------------------------------
(* Rendering.                                                              *)

\* composeHtml works on the structure with its pictures' addresses.
ReadForRender(r) ==
    /\ pc[r] = "begin" /\ op[r].kind \in {"render", "renderPayload"}
    /\ Take(r, EnrichForRender(Source(r)),
            CASE op[r].format = "html" -> "done"
                 [] op[r].kind = "renderPayload" -> "browser"
                 [] OTHER -> "mark", {})

SetStatus(s) == row' = [row EXCEPT !.status = s]
MarkRendering(r) ==
    /\ pc[r] = "mark" /\ SetStatus("RENDERING") /\ Goto(r, "browser")
    /\ UNCHANGED <<copies, objects, outputs, unsettled, pool>>

AskBrowser(r) ==
    /\ pc[r] = "browser" /\ GetBrowser(Client(r)) /\ Goto(r, "newPage")
    /\ UNCHANGED <<copies, document>>
\* newPage is outside the try: there is no page to close.
OpenPage(r) ==
    /\ pc[r] = "newPage" /\ NewPage(Client(r))
    /\ Goto(r, "capture") /\ UNCHANGED <<copies, document>>
Refused(r) ==
    /\ pc[r] \in {"newPage", "capture"} /\ client[Client(r)].at = "refused"
    /\ Release(Client(r)) /\ Goto(r, "catch") /\ UNCHANGED <<copies, document>>
Capture(r) ==
    /\ pc[r] = "capture" /\ client[Client(r)].at = "page" /\ Release(Client(r))
    /\ \/ /\ client[Client(r)].of \in live
          /\ Goto(r, IF op[r].kind = "render" THEN "store"
                     ELSE IF op[r].notify THEN "post" ELSE "done")
       \/ Goto(r, "catch")
    /\ UNCHANGED <<copies, document>>

StoreFile(r) ==
    /\ pc[r] = "store" /\ objects' = objects \cup {FileKey(op[r].format)}
    /\ Goto(r, IF op[r].format \in {"pdf", "webp"} THEN "output" ELSE "complete")
    /\ UNCHANGED <<copies, row, outputs, unsettled, pool>>
RecordOutput(r) ==
    /\ pc[r] = "output" /\ outputs' = outputs \cup {r} /\ Goto(r, "complete")
    /\ UNCHANGED <<copies, row, objects, unsettled, pool>>
Complete(r) ==
    /\ pc[r] = "complete" /\ SetStatus("COMPLETED") /\ Goto(r, "done")
    /\ UNCHANGED <<copies, objects, outputs, unsettled, pool>>

\* An exception between the two status writes, and the catch clause, whose
\* own write may throw.
RenderThrows(r) ==
    /\ pc[r] \in {"store", "output", "complete"} /\ Goto(r, "catch")
    /\ UNCHANGED <<copies, document, pool>>
MarkFailed(r) ==
    /\ pc[r] = "catch" /\ Goto(r, "failed")
    /\ \/ op[r].kind = "renderPayload" /\ UNCHANGED <<row, unsettled>>
       \/ op[r].kind = "render" /\ SetStatus("FAILED") /\ UNCHANGED unsettled
       \/ op[r].kind = "render" /\ unsettled' = TRUE /\ UNCHANGED row
    /\ UNCHANGED <<copies, objects, outputs, pool>>

\* renderAndNotify posts the picture to the media service.
PostMedia(r) ==
    /\ pc[r] = "post" /\ Goto(r, "done") /\ UNCHANGED <<copies, document, pool>>

RenderStep(r) ==
    \/ MarkRendering(r) \/ AskBrowser(r) \/ OpenPage(r)
    \/ Refused(r) \/ Capture(r) \/ StoreFile(r) \/ RecordOutput(r) \/ Complete(r)
    \/ RenderThrows(r) \/ MarkFailed(r) \/ PostMedia(r)
WorksheetStep(r) ==
    \/ ReadForModel(r) \/ UpdateField(r) \/ ReadForSave(r) \/ ReadForReplace(r)
    \/ ReadForUpload(r) \/ ModelEdits(r) \/ ModelCorrects(r) \/ ModelRegenerates(r)
    \/ FindImage(r) \/ AttachImage(r) \/ CheckAsset(r) \/ UploadImage(r) \/ Write(r)
    \/ Throw(r) \/ ReadForRender(r) \/ RenderStep(r)
=============================================================================
