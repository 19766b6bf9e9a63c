------------------------- MODULE WorksheetTemplates -------------------------
(***************************************************************************)
(* worksheet-template.service.ts: a template is created with two images.   *)
(* Each is looked up by its content among the assets and stored as a new   *)
(* one when it is not there; the two are worked on at once, and templates  *)
(* are created at once, with nothing but unique indexes between them.      *)
(*                                                                         *)
(* The asset table is the ingestion's too: for an image in a folder it     *)
(* inserts the row before it stores the file, and the cleanup of the       *)
(* folder deletes the row.  A template names its images by ids that are no *)
(* foreign keys, and what becomes of their rows does not concern it.       *)
(***************************************************************************)
EXTENDS WorksheetGeneration

CONSTANTS
    Authors,        \* requests to create a template
    Known           \* the images the asset table has at first

Roles == {"background", "sample"}

VARIABLES
    draft,      \* what each author asks for: [template, valid, spoiled, active]
    making,     \* where the author's request is
    part,       \* where each of its images is
    folder,     \* the contents that lie in a folder the ingestion knows
    assetRows,  \* the contents the asset table has a row for
    stored,     \* those of them whose row names a file that is in S3
    rowsMade    \* the templates the table has a row for

requestVars == <<draft, making, part>>
assetVars == <<assetRows, stored>>
authorVars == <<requestVars, folder, assetVars, rowsMade>>

AuthorTypeOK ==
    /\ making \in [Authors -> {"begin", "images", "row", "done", "failed"}]
    /\ part \in [Authors -> [Roles -> {"look", "store", "insert", "ready", "lost"}]]
    /\ rowsMade \subseteq DOMAIN Library /\ library \subseteq rowsMade
    /\ stored \subseteq assetRows

AuthorInit ==
    /\ making = [u \in Authors |-> IF draft[u].template = None THEN "done" ELSE "begin"]
    /\ part = [u \in Authors |-> [r \in Roles |-> "look"]]
    /\ assetRows = Known /\ stored \in {S \in SUBSET Known : Known \ folder \subseteq S}
    /\ rowsMade = Released

Image(u, r) == Library[draft[u].template][r]
Proceed(u, place) == making' = [making EXCEPT ![u] = place]
Becomes(u, r, place) == part' = [part EXCEPT ![u][r] = place]

\* The fields and the two files are looked at.
Draft(u) ==
    /\ making[u] = "begin" /\ Proceed(u, IF draft[u].valid THEN "images" ELSE "failed")
    /\ UNCHANGED <<draft, part, folder, assetVars, rowsMade, library>>
\* An image is spoiled, or its content has a row already, whose id is taken
\* whatever the row's status and whether its file is there, or it is new.  An image
\* whose request has failed meanwhile is worked on all the same.
LookUp(u, r) ==
    /\ making[u] # "begin" /\ part[u][r] = "look"
    /\ making[u] = "images" \/ part[u] # [q \in Roles |-> "look"]
    /\ \/ Becomes(u, r, "lost")
       \/ /\ r \notin draft[u].spoiled
          /\ Becomes(u, r, IF Image(u, r) \in assetRows THEN "ready" ELSE "store")
    /\ UNCHANGED <<draft, making, folder, assetVars, rowsMade, library>>
\* The file has a key of its own, which no row names yet.
StoreBlob(u, r) ==
    /\ part[u][r] = "store"
    /\ Becomes(u, r, "insert") \/ Becomes(u, r, "lost")
    /\ UNCHANGED <<draft, making, folder, assetVars, rowsMade, library>>
\* contentHash is unique: of two that did not find the content one fails.  The
\* address is signed after the row is there.
InsertAsset(u, r) ==
    /\ part[u][r] = "insert"
    /\ \/ Becomes(u, r, "lost") /\ UNCHANGED assetVars
       \/ /\ Image(u, r) \notin assetRows
          /\ Becomes(u, r, "ready") \/ Becomes(u, r, "lost")
          /\ assetRows' = assetRows \cup {Image(u, r)} /\ stored' = stored \cup {Image(u, r)}
    /\ UNCHANGED <<draft, making, folder, rowsMade, library>>
\* Mutant: one image is enough.
ImagesEndEarly(u) ==
    /\ making[u] = "images"
    /\ \/ (\A r \in Roles : part[u][r] = "lost") /\ Proceed(u, "failed")
       \/ (\E r \in Roles : part[u][r] = "ready") /\ Proceed(u, "row")
    /\ UNCHANGED <<draft, part, folder, assetVars, rowsMade, library>>
\* Promise.all: the first image that fails ends the request.
ImagesEnd(u) ==
    /\ making[u] = "images"
    /\ \/ (\E r \in Roles : part[u][r] = "lost") /\ Proceed(u, "failed")
       \/ (\A r \in Roles : part[u][r] = "ready") /\ Proceed(u, "row")
    /\ UNCHANGED <<draft, part, folder, assetVars, rowsMade, library>>
\* The slug is unique.
CreateRow(u) ==
    /\ making[u] = "row"
    /\ \/ Proceed(u, "failed") /\ UNCHANGED <<rowsMade, library>>
       \/ /\ draft[u].template \notin rowsMade
          /\ Proceed(u, "done") /\ rowsMade' = rowsMade \cup {draft[u].template}
          /\ library' = IF draft[u].active THEN library \cup {draft[u].template} ELSE library
    /\ UNCHANGED <<draft, part, folder, assetVars>>

AuthorStep(u) ==
    \/ Draft(u) \/ ImagesEnd(u) \/ CreateRow(u)
    \/ \E r \in Roles : LookUp(u, r) \/ StoreBlob(u, r) \/ InsertAsset(u, r)

-----------------------------------------------------------------------------
(* The ingestion, seen from the asset table.                               *)

\* The row is there before the file, and stays when the upload fails.
IngestRow(c) ==
    /\ c \in folder \ assetRows /\ assetRows' = assetRows \cup {c}
    /\ UNCHANGED <<requestVars, folder, stored, rowsMade, library>>
IngestFile(c) ==
    /\ c \in folder \cap assetRows /\ stored' = stored \cup {c}
    /\ UNCHANGED <<requestVars, folder, assetRows, rowsMade, library>>
\* The cleanup deletes the rows of a folder's assets, a template's images too; the
\* files stay, and no row names them.
CleanUp(c) ==
    /\ c \in folder \cap assetRows
    /\ assetRows' = assetRows \ {c} /\ stored' = stored \ {c}
    /\ UNCHANGED <<requestVars, folder, rowsMade, library>>
FolderStep == \E c \in folder : IngestRow(c) \/ IngestFile(c) \/ CleanUp(c)
=============================================================================
