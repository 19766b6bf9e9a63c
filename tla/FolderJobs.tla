------------------------------ MODULE FolderJobs ------------------------------
(***************************************************************************)
(* Ingestion jobs over folders: discovery of a full job, which writes a    *)
(* file row and queues a message for every file of the folder; discovery   *)
(* of a dry run, which reads every file itself and only links duplicates;  *)
(* the handlers that turn a queued file into an asset; and the cleanup     *)
(* that takes a folder out of the database again.  All of them run at the  *)
(* same time, and what they have read is not locked.                       *)
(*                                                                         *)
(* The stages between the creation of an asset and the end of its file are *)
(* those of AssetPipeline; here they are one step, and a handler only      *)
(* fails because a cleanup has taken its file or its asset away.           *)
(*                                                                         *)
(* A file row is named by its job and its file.  Asset ids are drawn at    *)
(* random and a row makes at most one asset, so an asset has the name of   *)
(* the row that made it.                                                   *)
(***************************************************************************)
EXTENDS Integers, FiniteSets

CONSTANTS
    Jobs,
    DryRuns,        \* the jobs whose mode is DRY_RUN, the others are FULL
    Folders,
    FolderOf,       \* rootFolderId of each job
    FilesOf,        \* the Drive files of each folder
    Files,
    Contents,
    ContentOf,      \* the content of each Drive file
    Cleaners,       \* the cleanup requests
    None,           \* no asset, no file
    MaxFaults,      \* statements of a discovery that fail
    MaxCrashes      \* discoveries and requests that are lost

Rows == Jobs \X Files

ASSUME JobsAssumption ==
    /\ DryRuns \subseteq Jobs
    /\ FolderOf \in [Jobs -> Folders]
    /\ FilesOf \in [Folders -> SUBSET Files]
    /\ \A folder \in Folders : IsFiniteSet(FilesOf[folder])
    /\ ContentOf \in [Files -> Contents]
    /\ None \notin Rows \cup Files
    /\ MaxFaults \in Nat /\ MaxCrashes \in Nat

VARIABLES
    job,        \* the job rows: status and what a dry run reports
    file,       \* the status of each file row
    link,       \* IngestionFile.assetId
    source,     \* the asset of the AssetSource of each file row
    assets,     \* the asset rows
    scan,       \* the discovery of each job
    handler,    \* the message of each file row and its handler
    cleaner,    \* the cleanup requests
    faults, crashes

rows == <<file, link, source, assets>>
vars == <<job, file, link, source, assets, scan, handler, cleaner, faults, crashes>>

JobStates == {"none", "CREATED", "SCANNING", "PROCESSING", "COMPLETED", "FAILED", "deleted"}
FileStates == {"none", "DISCOVERED", "UPLOADING_TO_S3", "COMPLETED", "FAILED", "DEAD_LETTER"}

Report == [duplicate : Nat, failed : Nat, expected : Nat]
NoReport == [duplicate |-> 0, failed |-> 0, expected |-> 0]
Job == [status : JobStates, report : Report]
\* "failing" is the catch block, "unsaid" a catch block that has thrown itself,
\* and "lost" what a restart has interrupted.
Running == {"list", "files", "enqueue", "hash", "attach", "failing"}
Scan == [at : Running \cup {"idle", "start", "done", "unsaid", "lost"},
         todo : SUBSET Files, file : Files \cup {None}, found : Rows \cup {None},
         report : Report]
Handler == [at : {"idle", "queued", "found", "pipeline", "done"}, found : Rows \cup {None}]
Cleaner == [at : {"idle", "jobs", "sources", "shared", "delete", "done"},
            folder : Folders, skipShared : BOOLEAN, deleteJobs : BOOLEAN,
            jobs : SUBSET Jobs, deletable : SUBSET Rows]

TypeOK ==
    /\ job \in [Jobs -> Job]
    /\ file \in [Rows -> FileStates]
    /\ link \in [Rows -> Rows \cup {None}]
    /\ source \in [Rows -> Rows \cup {None}]
    /\ assets \subseteq Rows
    /\ scan \in [Jobs -> Scan]
    /\ handler \in [Rows -> Handler]
    /\ cleaner \in [Cleaners -> Cleaner]
    /\ faults \in 0..MaxFaults
    /\ crashes \in 0..MaxCrashes

Init ==
    /\ job = [j \in Jobs |-> [status |-> "none", report |-> NoReport]]
    /\ file = [r \in Rows |-> "none"]
    /\ link = [r \in Rows |-> None]
    /\ source = [r \in Rows |-> None]
    /\ assets = {}
    /\ scan = [j \in Jobs |-> [at |-> "idle", todo |-> {}, file |-> None,
                               found |-> None, report |-> NoReport]]
    /\ handler = [r \in Rows |-> [at |-> "idle", found |-> None]]
    /\ cleaner \in [Cleaners -> {c \in Cleaner : c.at = "idle" /\ c.jobs = {} /\ c.deletable = {}}]
    /\ faults = 0
    /\ crashes = 0

(* ------------------------------ the database --------------------------- *)
Exists(j) == job[j].status \notin {"none", "deleted"}
Content(r) == ContentOf[r[2]]

\* asset.findUnique by content hash.
AssetOf(r) ==
    IF \E a \in assets : Content(a) = Content(r)
    THEN CHOOSE a \in assets : Content(a) = Content(r)
    ELSE None

SetJob(j, status) == job' = [job EXCEPT ![j].status = status]

\* Mutant: the foreign keys of the link and the source are not checked.
AttachUnchecked(r, a) ==
    /\ file[r] # "none"
    /\ source' = [source EXCEPT ![r] = IF @ = None THEN a ELSE @]
    /\ link' = [link EXCEPT ![r] = a]
    /\ file' = [file EXCEPT ![r] = "COMPLETED"]
    /\ UNCHANGED assets

\* attachToExistingAsset, of the handler and of the dry run: one transaction,
\* which the foreign keys refuse when the file or the asset is gone.
AttachToExistingAsset(r, a) ==
    /\ file[r] # "none"
    /\ a \in assets
    /\ source' = [source EXCEPT ![r] = IF @ = None THEN a ELSE @]
    /\ link' = [link EXCEPT ![r] = a]
    /\ file' = [file EXCEPT ![r] = "COMPLETED"]
    /\ UNCHANGED assets

(* ------------------------------ discovery ------------------------------ *)
CreateJob(j) ==
    /\ job[j].status = "none"
    /\ SetJob(j, "CREATED")
    /\ scan' = [scan EXCEPT ![j].at = "start"]
    /\ UNCHANGED <<rows, handler, cleaner, faults, crashes>>

\* The job is still there and has not been started: nobody else starts it.
StartJobDiscovery(j) ==
    /\ scan[j].at = "start"
    /\ IF Exists(j)
       THEN SetJob(j, "SCANNING") /\ scan' = [scan EXCEPT ![j].at = "list"]
       ELSE UNCHANGED job /\ scan' = [scan EXCEPT ![j].at = "done"]
    /\ UNCHANGED <<rows, handler, cleaner, faults, crashes>>

\* These first statements are outside the try block: the job stays CREATED.
StartFails(j) ==
    /\ scan[j].at = "start"
    /\ faults < MaxFaults
    /\ faults' = faults + 1
    /\ scan' = [scan EXCEPT ![j].at = "done"]
    /\ UNCHANGED <<job, rows, handler, cleaner, crashes>>

ListFiles(j) ==
    /\ scan[j].at = "list"
    /\ scan' = [scan EXCEPT ![j].at = "files", ![j].todo = FilesOf[FolderOf[j]]]
    /\ UNCHANGED <<job, rows, handler, cleaner, faults, crashes>>

\* The upsert of the next file: a row that exists is left as it is.
UpsertFile(j) ==
    /\ scan[j].at = "files"
    /\ Exists(j)
    /\ \E f \in scan[j].todo :
          /\ file' = [file EXCEPT ![<<j, f>>] = IF @ = "none" THEN "DISCOVERED" ELSE @]
          /\ scan' = [scan EXCEPT ![j].at = IF j \in DryRuns THEN "hash" ELSE "enqueue",
                                  ![j].todo = @ \ {f}, ![j].file = f]
    /\ UNCHANGED <<job, link, source, assets, handler, cleaner, faults, crashes>>

\* Mutant: a file that cannot be queued is skipped.
EnqueueOrSkip(j) ==
    LET r == <<j, scan[j].file>>
    IN  /\ scan[j].at = "enqueue"
        /\ \/ handler' = [handler EXCEPT ![r].at = "queued"] /\ UNCHANGED faults
           \/ faults < MaxFaults /\ faults' = faults + 1 /\ UNCHANGED handler
        /\ scan' = [scan EXCEPT ![j].at = "files"]
        /\ UNCHANGED <<job, rows, cleaner, crashes>>

EnqueueDiscoveredFile(j) ==
    LET r == <<j, scan[j].file>>
    IN  /\ scan[j].at = "enqueue"
        /\ handler' = [handler EXCEPT ![r].at = "queued"]
        /\ scan' = [scan EXCEPT ![j].at = "files"]
        /\ UNCHANGED <<job, rows, cleaner, faults, crashes>>

\* The file of a dry run has its result and the next one follows.
Counted(j, result) ==
    scan' = [scan EXCEPT ![j].at = "files", ![j].found = None, ![j].report[result] = @ + 1]

\* The dry run downloads, validates and hashes the file and looks for its asset.
DryRunFile(j) ==
    LET r == <<j, scan[j].file>>
    IN  /\ scan[j].at = "hash"
        /\ file[r] # "none"
        /\ IF AssetOf(r) = None
           THEN Counted(j, "expected") /\ file' = [file EXCEPT ![r] = "DISCOVERED"]
           ELSE /\ scan' = [scan EXCEPT ![j].at = "attach", ![j].found = AssetOf(r)]
                /\ UNCHANGED file
        /\ UNCHANGED <<job, link, source, assets, handler, cleaner, faults, crashes>>

DryRunAttach(j) ==
    /\ scan[j].at = "attach"
    /\ AttachToExistingAsset(<<j, scan[j].file>>, scan[j].found)
    /\ Counted(j, "duplicate")
    /\ UNCHANGED <<job, handler, cleaner, faults, crashes>>

\* The image is invalid, a read fails, or the asset has been deleted: the
\* file of a dry run fails and the dry run goes on.
DryRunFileFails(j) ==
    LET r == <<j, scan[j].file>>
    IN  /\ scan[j].at \in {"hash", "attach"}
        /\ file[r] # "none"
        /\ scan[j].at = "attach" => scan[j].found \notin assets
        /\ file' = [file EXCEPT ![r] = "FAILED"]
        /\ Counted(j, "failed")
        /\ UNCHANGED <<job, link, source, assets, handler, cleaner, faults, crashes>>

FinishDiscovery(j) ==
    /\ scan[j].at = "files"
    /\ scan[j].todo = {}
    /\ Exists(j)
    /\ job' = [job EXCEPT ![j] = [status |-> IF j \in DryRuns THEN "COMPLETED" ELSE "PROCESSING",
                                  report |-> scan[j].report]]
    /\ scan' = [scan EXCEPT ![j].at = "done"]
    /\ UNCHANGED <<rows, handler, cleaner, faults, crashes>>

\* A statement throws, or has lost its job or its file to a cleanup.
Throws(j) ==
    \/ /\ scan[j].at \in {"list", "files", "enqueue", "hash", "attach"}
       /\ faults < MaxFaults
       /\ faults' = faults + 1
    \/ /\ \/ scan[j].at = "files" /\ ~Exists(j)
          \/ scan[j].at \in {"hash", "attach"} /\ file[<<j, scan[j].file>>] = "none"
       /\ UNCHANGED faults

\* The catch block takes over; the messages sent so far stay in the queue.
DiscoveryFails(j) ==
    /\ Throws(j)
    /\ scan' = [scan EXCEPT ![j].at = "failing"]
    /\ UNCHANGED <<job, rows, handler, cleaner, crashes>>

\* Its update to FAILED, which finds no job when a cleanup has deleted it.
WriteFailed(j) ==
    /\ scan[j].at = "failing"
    /\ IF Exists(j) THEN SetJob(j, "FAILED") ELSE UNCHANGED job
    /\ scan' = [scan EXCEPT ![j].at = "done"]
    /\ UNCHANGED <<rows, handler, cleaner, faults, crashes>>

\* The update throws too, as when the database is down: the job stays SCANNING.
WriteFailedThrows(j) ==
    /\ scan[j].at = "failing"
    /\ faults < MaxFaults
    /\ faults' = faults + 1
    /\ scan' = [scan EXCEPT ![j].at = "unsaid"]
    /\ UNCHANGED <<job, rows, handler, cleaner, crashes>>

Discovery(j) ==
    \/ StartJobDiscovery(j)
    \/ StartFails(j)
    \/ ListFiles(j)
    \/ UpsertFile(j)
    \/ EnqueueDiscoveredFile(j)
    \/ DryRunFile(j)
    \/ DryRunAttach(j)
    \/ DryRunFileFails(j)
    \/ FinishDiscovery(j)
    \/ DiscoveryFails(j)
    \/ WriteFailed(j)
    \/ WriteFailedThrows(j)

(* ------------------------------ the handlers --------------------------- *)
FindDuplicate(r) ==
    /\ handler[r].at = "queued"
    /\ file[r] # "none"
    /\ handler' = [handler EXCEPT ![r] = [at |-> "found", found |-> AssetOf(r)]]
    /\ UNCHANGED <<job, rows, scan, cleaner, faults, crashes>>

AttachDuplicate(r) ==
    /\ handler[r].at = "found"
    /\ AttachToExistingAsset(r, handler[r].found)
    /\ handler' = [handler EXCEPT ![r].at = "done"]
    /\ UNCHANGED <<job, scan, cleaner, faults, crashes>>

\* The transaction that makes the asset; when the content has got one in the
\* meantime, the handler looks it up and goes on as a duplicate.
CreateAsset(r) ==
    /\ handler[r].at = "found"
    /\ handler[r].found = None
    /\ file[r] # "none"
    /\ IF AssetOf(r) = None
       THEN /\ assets' = assets \cup {r}
            /\ source' = [source EXCEPT ![r] = r]
            /\ link' = [link EXCEPT ![r] = r]
            /\ file' = [file EXCEPT ![r] = "UPLOADING_TO_S3"]
            /\ handler' = [handler EXCEPT ![r].at = "pipeline"]
       ELSE /\ handler' = [handler EXCEPT ![r].found = AssetOf(r)]
            /\ UNCHANGED rows
    /\ UNCHANGED <<job, scan, cleaner, faults, crashes>>

\* The stages that follow: the file ends when its asset is complete.
CompleteFile(r) ==
    /\ handler[r].at = "pipeline"
    /\ r \in assets
    /\ file[r] # "none"
    /\ file' = [file EXCEPT ![r] = "COMPLETED"]
    /\ handler' = [handler EXCEPT ![r].at = "done"]
    /\ UNCHANGED <<job, link, source, assets, scan, cleaner, faults, crashes>>

\* A cleanup has taken the file or the asset away.  Only a file that is still
\* there and whose message names no asset can be recorded as dead: otherwise
\* the record itself breaks a foreign key, and the message is just dropped.
HandlerFails(r) ==
    /\ \/ handler[r].at # "idle" /\ handler[r].at # "done" /\ file[r] = "none"
       \/ handler[r].at = "found" /\ handler[r].found \notin assets \cup {None}
       \/ handler[r].at = "pipeline" /\ r \notin assets
    /\ file' = IF file[r] # "none" /\ handler[r].at = "found"
               THEN [file EXCEPT ![r] = "DEAD_LETTER"]
               ELSE file
    /\ handler' = [handler EXCEPT ![r].at = "done"]
    /\ UNCHANGED <<job, link, source, assets, scan, cleaner, faults, crashes>>

Handle(r) ==
    \/ FindDuplicate(r)
    \/ AttachDuplicate(r)
    \/ CreateAsset(r)
    \/ CompleteFile(r)
    \/ HandlerFails(r)

(* ------------------------------- the cleanup --------------------------- *)
FindJobs(k) ==
    LET found == {j \in Jobs : Exists(j) /\ FolderOf[j] = cleaner[k].folder}
    IN  /\ cleaner[k].at = "idle"
        /\ cleaner' = [cleaner EXCEPT ![k].jobs = found,
                                      ![k].at = IF found = {} THEN "done" ELSE "sources"]
        /\ UNCHANGED <<job, rows, scan, handler, faults, crashes>>

\* The candidates are the assets with a source in one of the jobs.
FindCandidates(k) ==
    LET candidates == {source[r] : r \in {r \in Rows : r[1] \in cleaner[k].jobs}} \ {None}
    IN  /\ cleaner[k].at = "sources"
        /\ cleaner' = [cleaner EXCEPT ![k].deletable = candidates,
               ![k].at = IF cleaner[k].skipShared /\ candidates # {} THEN "shared" ELSE "delete"]
        /\ UNCHANGED <<job, rows, scan, handler, faults, crashes>>

\* An asset all of whose sources are in this folder, and that has one.
OnlyOf(a, folder) == {FolderOf[r[1]] : r \in {r \in Rows : source[r] = a}} = {folder}

SkipShared(k) ==
    /\ cleaner[k].at = "shared"
    /\ cleaner' = [cleaner EXCEPT ![k].at = "delete",
           ![k].deletable = {a \in @ : OnlyOf(a, cleaner[k].folder)}]
    /\ UNCHANGED <<job, rows, scan, handler, faults, crashes>>

\* The transaction.  Sources go with their asset or their file, files with
\* their job.
DeleteFolder(k) ==
    LET gone == cleaner[k].deletable
        jobs == IF cleaner[k].deleteJobs THEN cleaner[k].jobs ELSE {}
    IN  /\ cleaner[k].at = "delete"
        /\ assets' = assets \ gone
        /\ link' = [r \in Rows |-> IF r[1] \in jobs \/ link[r] \in gone THEN None ELSE link[r]]
        /\ source' = [r \in Rows |->
               IF r[1] \in jobs \/ source[r] \in gone THEN None ELSE source[r]]
        /\ file' = [r \in Rows |-> IF r[1] \in jobs THEN "none" ELSE file[r]]
        /\ job' = [j \in Jobs |-> IF j \in jobs THEN [job[j] EXCEPT !.status = "deleted"] ELSE job[j]]
        /\ cleaner' = [cleaner EXCEPT ![k].at = "done"]
        /\ UNCHANGED <<scan, handler, faults, crashes>>

CleanupByFolder(k) ==
    \/ FindJobs(k)
    \/ FindCandidates(k)
    \/ SkipShared(k)
    \/ DeleteFolder(k)

---------------------------------------------------------------------------
\* The process restarts: discoveries and requests are lost, a message that
\* was being handled comes back.
Crash ==
    /\ crashes < MaxCrashes
    /\ crashes' = crashes + 1
    /\ scan' = [j \in Jobs |-> IF scan[j].at \in Running \cup {"start"}
                               THEN [scan[j] EXCEPT !.at = "lost"] ELSE scan[j]]
    /\ cleaner' = [k \in Cleaners |-> IF cleaner[k].at = "idle" THEN cleaner[k]
                                      ELSE [cleaner[k] EXCEPT !.at = "done"]]
    /\ handler' = [r \in Rows |-> IF handler[r].at = "found"
                                  THEN [at |-> "queued", found |-> None] ELSE handler[r]]
    /\ UNCHANGED <<job, rows, faults>>

Next ==
    \/ \E j \in Jobs : CreateJob(j) \/ Discovery(j)
    \/ \E r \in Rows : Handle(r)
    \/ \E k \in Cleaners : CleanupByFolder(k)
    \/ Crash

Spec == Init /\ [][Next]_vars

\* Every await of a discovery returns or throws.
FairSpec == Spec /\ \A j \in Jobs : WF_vars(Discovery(j))

(* ------------------------------ properties ----------------------------- *)
\* What is read outside a transaction may be gone when it is used, and still:
\* a file and its source name the same asset, it exists, it has the content of
\* the file, and no content has two assets.
LinksMatchSources ==
    /\ \A r \in Rows : link[r] = source[r]
    /\ \A r \in Rows : link[r] # None =>
          link[r] \in assets /\ Content(link[r]) = Content(r) /\ file[r] # "none"
    /\ \A a, b \in assets : Content(a) = Content(b) => a = b

\* A job that is PROCESSING has found every file of its folder and queued it.
ProcessingMeansQueued ==
    \A j \in Jobs : job[j].status = "PROCESSING" =>
        \A f \in FilesOf[FolderOf[j]] : handler[<<j, f>>].at # "idle"

\* What a dry run reports is what it has left in the database, although
\* handlers and cleanups change the assets under it.
WithStatus(j, status) == Cardinality({f \in FilesOf[FolderOf[j]] : file[<<j, f>>] = status})
DryRunReportIsTrue ==
    \A j \in DryRuns : job[j].status = "COMPLETED" =>
        job[j].report = [duplicate |-> WithStatus(j, "COMPLETED"),
                         failed |-> WithStatus(j, "FAILED"),
                         expected |-> WithStatus(j, "DISCOVERED")]

\* The discovery of a SCANNING job runs, or a restart has interrupted this very
\* discovery, or its own update to FAILED has thrown: nothing else that throws,
\* and nothing a cleanup takes away meanwhile, leaves a job SCANNING.
ScanningMeansRunning ==
    \A j \in Jobs : job[j].status = "SCANNING" => scan[j].at \in Running \cup {"lost", "unsaid"}

\* And the discovery of a job that has said how it went is over.
EndMeansStopped ==
    \A j \in Jobs : job[j].status \in {"PROCESSING", "COMPLETED", "FAILED"} => scan[j].at = "done"

\* Wherever a discovery stops, and whatever stops it, every file it has written
\* down has been queued, but for at most the one it was at.
RowsAreQueued ==
    \A j \in Jobs \ DryRuns, f \in Files :
        file[<<j, f>>] # "none" /\ handler[<<j, f>>].at = "idle" => f = scan[j].file

\* What a job says of itself is so, whatever fails, restarts or is cleaned up
\* under it.
JobsTellTheTruth ==
    /\ ScanningMeansRunning /\ EndMeansStopped
    /\ ProcessingMeansQueued /\ RowsAreQueued
    /\ DryRunReportIsTrue

---------------------------------------------------------------------------
(* What the documents claim and the code does not keep.                    *)

\* skipSharedAssets: an asset with a source in another folder is not deleted.
SharedAssetsAreKept ==
    [][\A k \in Cleaners : DeleteFolder(k) /\ cleaner[k].skipShared =>
          \A r \in Rows : source[r] \in assets \ assets' =>
              FolderOf[r[1]] = cleaner[k].folder]_vars

\* "Resuming incomplete jobs": a job a restart has interrupted goes on.
EveryJobResumes == \A j \in Jobs : job[j].status = "SCANNING" ~> job[j].status # "SCANNING"

\* A cleanup that deletes the jobs leaves none of their assets behind.
EveryAssetHasASource == \A a \in assets : \E r \in Rows : source[r] = a

\* A dry run expects one call for each content the folder has.
DryRunExpectsContents ==
    \A j \in DryRuns : job[j].status = "COMPLETED" =>
        job[j].report.expected <= Cardinality({ContentOf[f] : f \in FilesOf[FolderOf[j]]})

\* A full job whose files have all ended is completed.
Settled(j) == \A f \in FilesOf[FolderOf[j]] : handler[<<j, f>>].at = "done"
EveryJobCompletes ==
    \A j \in Jobs : job[j].status = "PROCESSING" /\ Settled(j) ~>
        job[j].status \in {"COMPLETED", "deleted"}
=============================================================================
