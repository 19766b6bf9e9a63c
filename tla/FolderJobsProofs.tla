--------------------------- MODULE FolderJobsProofs ---------------------------
(***************************************************************************)
(* Proof that file rows, sources and assets never come apart, for any      *)
(* jobs, folders, files and cleanups, failures and restarts.               *)
(*                                                                         *)
(* A handler and a dry run carry the id of an asset they have found over   *)
(* an await, in which a cleanup may delete it and a handler may make       *)
(* another one of the same content.  What survives the await, and what     *)
(* the transactions need, is that the id is one of the same content.       *)
(***************************************************************************)
EXTENDS FolderJobs, FiniteSetTheorems, TLAPS

\* A discovery that works on a file names it.
ScansNameFiles ==
    \A j \in Jobs : scan[j].at \in {"enqueue", "hash", "attach"} => scan[j].file \in Files

\* What has been found has the content that was looked for.
FoundHasContent ==
    /\ \A j \in Jobs : scan[j].at = "attach" =>
          scan[j].found \in Rows /\ Content(scan[j].found) = ContentOf[scan[j].file]
    /\ \A r \in Rows : handler[r].found # None => Content(handler[r].found) = Content(r)

IInv == TypeOK /\ ScansNameFiles /\ FoundHasContent /\ LinksMatchSources

\* None is not a row and not a file.
LEMMA NoneIsNothing == None \notin Rows /\ None \notin Files
BY JobsAssumption

\* The lookup by content hash: what it returns exists and has the content,
\* and when it returns nothing there is nothing.
LEMMA AssetOfFinds ==
    ASSUME TypeOK, NEW r \in Rows
    PROVE  /\ AssetOf(r) \in Rows \cup {None}
           /\ AssetOf(r) # None => AssetOf(r) \in assets /\ Content(AssetOf(r)) = Content(r)
           /\ AssetOf(r) = None => \A a \in assets : Content(a) # Content(r)
<1>1. assets \subseteq Rows
  BY DEF TypeOK
<1>2. CASE \E a \in assets : Content(a) = Content(r)
  <2>1. AssetOf(r) \in assets /\ Content(AssetOf(r)) = Content(r)
    BY <1>2 DEF AssetOf
  <2> QED BY <1>1, <2>1, NoneIsNothing
<1>3. CASE ~ \E a \in assets : Content(a) = Content(r)
  BY <1>3 DEF AssetOf
<1> QED BY <1>2, <1>3

\* The rows of the database and their types.
RowsOK ==
    /\ file \in [Rows -> FileStates]
    /\ link \in [Rows -> Rows \cup {None}]
    /\ source \in [Rows -> Rows \cup {None}]
    /\ assets \subseteq Rows

\* Attaching a file to an existing asset of its content keeps rows and
\* sources together: a source that is already there names the same asset.
LEMMA AttachKeeps ==
    ASSUME RowsOK, LinksMatchSources, NEW r \in Rows, NEW a,
           Content(a) = Content(r), AttachToExistingAsset(r, a)
    PROVE  RowsOK' /\ LinksMatchSources'
<1>1. a \in assets /\ a \in Rows /\ a # None /\ file[r] # "none" /\ assets' = assets
  BY NoneIsNothing DEF RowsOK, AttachToExistingAsset
<1>2. source[r] # None => source[r] = a
  BY <1>1 DEF LinksMatchSources
<1>3. /\ link' = [link EXCEPT ![r] = a]
      /\ source' = [source EXCEPT ![r] = a]
      /\ file' = [file EXCEPT ![r] = "COMPLETED"]
  <2>1. source' = [source EXCEPT ![r] = IF source[r] = None THEN a ELSE source[r]]
    BY DEF AttachToExistingAsset, RowsOK
  <2> QED BY <1>2, <2>1 DEF AttachToExistingAsset
<1>4. RowsOK'
  BY <1>1, <1>3 DEF RowsOK, FileStates
<1>5. LinksMatchSources'
  BY <1>1, <1>3, <1>4 DEF RowsOK, LinksMatchSources, Content
<1> QED BY <1>4, <1>5

\* A cleanup takes links, sources and files away together.
LEMMA DeleteKeeps ==
    ASSUME RowsOK, LinksMatchSources, NEW k \in Cleaners, DeleteFolder(k)
    PROVE  RowsOK' /\ LinksMatchSources'
<1> DEFINE gone == cleaner[k].deletable
           jobs == IF cleaner[k].deleteJobs THEN cleaner[k].jobs ELSE {}
<1>1. /\ assets' = assets \ gone
      /\ link' = [r \in Rows |-> IF r[1] \in jobs \/ link[r] \in gone THEN None ELSE link[r]]
      /\ source' = [r \in Rows |->
             IF r[1] \in jobs \/ source[r] \in gone THEN None ELSE source[r]]
      /\ file' = [r \in Rows |-> IF r[1] \in jobs THEN "none" ELSE file[r]]
  BY DEF DeleteFolder
<1> HIDE DEF gone, jobs
<1>2. RowsOK'
  BY <1>1 DEF RowsOK, FileStates
<1>3. \A r \in Rows : link'[r] = source'[r]
  BY <1>1 DEF LinksMatchSources
<1>4. \A r \in Rows : link'[r] # None =>
          link'[r] \in assets' /\ Content(link'[r]) = Content(r) /\ file'[r] # "none"
  BY <1>1 DEF LinksMatchSources, Content
<1>5. \A a, b \in assets' : Content(a) = Content(b) => a = b
  BY <1>1 DEF LinksMatchSources, Content
<1> QED BY <1>2, <1>3, <1>4, <1>5 DEF LinksMatchSources, Content

\* The transaction that makes an asset.
LEMMA CreateKeeps ==
    ASSUME TypeOK, LinksMatchSources, NEW r \in Rows, CreateAsset(r)
    PROVE  RowsOK' /\ LinksMatchSources'
<1>1. RowsOK
  BY DEF TypeOK, RowsOK
<1>2. CASE AssetOf(r) = None
  <2>1. /\ file[r] # "none"
        /\ assets' = assets \cup {r}
        /\ source' = [source EXCEPT ![r] = r]
        /\ link' = [link EXCEPT ![r] = r]
        /\ file' = [file EXCEPT ![r] = "UPLOADING_TO_S3"]
    BY <1>2 DEF CreateAsset
  <2>2. \A a \in assets : Content(a) # Content(r)
    BY <1>2, AssetOfFinds
  <2>3. RowsOK'
    BY <1>1, <2>1 DEF RowsOK, FileStates
  <2>4. LinksMatchSources'
    BY <1>1, <2>1, <2>2, <2>3 DEF RowsOK, LinksMatchSources, Content
  <2> QED BY <2>3, <2>4
<1>3. CASE AssetOf(r) # None
  <2>1. UNCHANGED rows
    BY <1>3 DEF CreateAsset
  <2> QED BY <1>1, <2>1 DEF rows, RowsOK, LinksMatchSources, Content
<1> QED BY <1>2, <1>3

\* Only the status of files that exist changes.
LEMMA StatusKeeps ==
    ASSUME RowsOK, LinksMatchSources, UNCHANGED <<link, source, assets>>,
           file' \in [Rows -> FileStates],
           \A r \in Rows : file[r] # "none" => file'[r] # "none"
    PROVE  RowsOK' /\ LinksMatchSources'
BY DEF RowsOK, LinksMatchSources, Content

\* Every step keeps the rows of the database together.
LEMMA RowsStep == ASSUME IInv, Next PROVE RowsOK' /\ LinksMatchSources'
<1>1. RowsOK /\ LinksMatchSources /\ TypeOK
  BY DEF IInv, TypeOK, RowsOK
<1>2. ASSUME UNCHANGED rows PROVE RowsOK' /\ LinksMatchSources'
  BY <1>1, <1>2 DEF rows, RowsOK, LinksMatchSources, Content
<1>3. ASSUME NEW j \in Jobs, CreateJob(j) \/ Discovery(j) PROVE RowsOK' /\ LinksMatchSources'
  <2>1. CASE UpsertFile(j)
    <3>1. PICK f \in scan[j].todo :
              file' = [file EXCEPT ![<<j, f>>] = IF @ = "none" THEN "DISCOVERED" ELSE @]
      BY <2>1 DEF UpsertFile
    <3>2. file' \in [Rows -> FileStates] /\ \A r \in Rows : file[r] # "none" => file'[r] # "none"
      BY <1>1, <3>1 DEF RowsOK, FileStates
    <3> QED BY <1>1, <2>1, <3>2, StatusKeeps DEF UpsertFile
  <2>2. ASSUME scan[j].at = "hash", DryRunFile(j) PROVE RowsOK' /\ LinksMatchSources'
    <3>1. file' = file \/ file' = [file EXCEPT ![<<j, scan[j].file>>] = "DISCOVERED"]
      BY <2>2 DEF DryRunFile
    <3>2. file' \in [Rows -> FileStates] /\ \A r \in Rows : file[r] # "none" => file'[r] # "none"
      BY <1>1, <3>1 DEF RowsOK, FileStates
    <3> QED BY <1>1, <2>2, <3>2, StatusKeeps DEF DryRunFile
  <2>3. CASE DryRunAttach(j)
    <3>1. scan[j].at = "attach" /\ AttachToExistingAsset(<<j, scan[j].file>>, scan[j].found)
      BY <2>3 DEF DryRunAttach
    <3>2. <<j, scan[j].file>> \in Rows /\ Content(scan[j].found) = Content(<<j, scan[j].file>>)
      BY <3>1 DEF IInv, ScansNameFiles, FoundHasContent, Rows, Content
    <3> QED BY <1>1, <3>1, <3>2, AttachKeeps
  <2>4. CASE DryRunFileFails(j)
    <3>1. file' = [file EXCEPT ![<<j, scan[j].file>>] = "FAILED"]
      BY <2>4 DEF DryRunFileFails
    <3>2. file' \in [Rows -> FileStates] /\ \A r \in Rows : file[r] # "none" => file'[r] # "none"
      BY <1>1, <3>1 DEF RowsOK, FileStates
    <3> QED BY <1>1, <2>4, <3>2, StatusKeeps DEF DryRunFileFails
  <2>5. CASE \/ CreateJob(j) \/ StartJobDiscovery(j) \/ StartFails(j) \/ ListFiles(j)
             \/ EnqueueDiscoveredFile(j) \/ FinishDiscovery(j) \/ DiscoveryFails(j)
             \/ WriteFailed(j) \/ WriteFailedThrows(j)
    BY <1>2, <2>5 DEF CreateJob, StartJobDiscovery, StartFails, ListFiles,
       EnqueueDiscoveredFile, FinishDiscovery, DiscoveryFails, WriteFailed, WriteFailedThrows
  <2>6. DryRunFile(j) => scan[j].at = "hash"
    BY DEF DryRunFile
  <2> QED BY <1>3, <2>1, <2>2, <2>3, <2>4, <2>5, <2>6 DEF Discovery
<1>4. ASSUME NEW r \in Rows, Handle(r) PROVE RowsOK' /\ LinksMatchSources'
  <2>1. CASE FindDuplicate(r)
    BY <1>2, <2>1 DEF FindDuplicate
  <2>2. CASE AttachDuplicate(r)
    <3>1. AttachToExistingAsset(r, handler[r].found)
      BY <2>2 DEF AttachDuplicate
    <3>2. handler[r].found # None
      BY <1>1, <3>1, NoneIsNothing DEF AttachToExistingAsset, RowsOK
    <3>3. Content(handler[r].found) = Content(r)
      BY <3>2 DEF IInv, FoundHasContent
    <3> QED BY <1>1, <3>1, <3>3, AttachKeeps
  <2>3. CASE CreateAsset(r)
    BY <1>1, <2>3, CreateKeeps
  <2>4. CASE CompleteFile(r)
    <3>1. file' = [file EXCEPT ![r] = "COMPLETED"]
      BY <2>4 DEF CompleteFile
    <3>2. file' \in [Rows -> FileStates] /\ \A q \in Rows : file[q] # "none" => file'[q] # "none"
      BY <1>1, <3>1 DEF RowsOK, FileStates
    <3> QED BY <1>1, <2>4, <3>2, StatusKeeps DEF CompleteFile
  <2>5. CASE HandlerFails(r)
    <3>1. file' = file \/ file' = [file EXCEPT ![r] = "DEAD_LETTER"]
      BY <2>5 DEF HandlerFails
    <3>2. file' \in [Rows -> FileStates] /\ \A q \in Rows : file[q] # "none" => file'[q] # "none"
      BY <1>1, <3>1 DEF RowsOK, FileStates
    <3> QED BY <1>1, <2>5, <3>2, StatusKeeps DEF HandlerFails
  <2> QED BY <1>4, <2>1, <2>2, <2>3, <2>4, <2>5 DEF Handle
<1>5. ASSUME NEW k \in Cleaners, CleanupByFolder(k) PROVE RowsOK' /\ LinksMatchSources'
  <2>1. CASE DeleteFolder(k)
    BY <1>1, <2>1, DeleteKeeps
  <2>2. CASE FindJobs(k) \/ FindCandidates(k) \/ SkipShared(k)
    BY <1>2, <2>2 DEF FindJobs, FindCandidates, SkipShared
  <2> QED BY <1>5, <2>1, <2>2 DEF CleanupByFolder
<1>6. CASE Crash
  BY <1>2, <1>6 DEF Crash
<1> QED BY <1>3, <1>4, <1>5, <1>6 DEF Next

\* Discoveries keep their type, go on to files of their folder, and carry an
\* asset of the content of their file.
LEMMA ScanStep ==
    ASSUME IInv, NEW j \in Jobs, CreateJob(j) \/ Discovery(j)
    PROVE  scan' \in [Jobs -> Scan] /\ ScansNameFiles' /\
           (\A i \in Jobs : scan'[i].at = "attach" =>
               scan'[i].found \in Rows /\ Content(scan'[i].found) = ContentOf[scan'[i].file])
<1>1. scan \in [Jobs -> Scan] /\ scan[j] \in Scan /\ TypeOK
  BY DEF IInv, TypeOK
<1>2. \A f \in FilesOf[FolderOf[j]] : f \in Files
  BY JobsAssumption
<1> DEFINE Good(s) ==
       /\ s \in Scan
       /\ s.at \in {"enqueue", "hash", "attach"} => s.file \in Files
       /\ s.at = "attach" => s.found \in Rows /\ Content(s.found) = ContentOf[s.file]
<1>3. SUFFICES ASSUME TRUE PROVE \E s : scan' = [scan EXCEPT ![j] = s] /\ Good(s)
  BY <1>1 DEF IInv, ScansNameFiles, FoundHasContent, Content
<1>4. CASE CreateJob(j) \/ StartJobDiscovery(j) \/ StartFails(j) \/ FinishDiscovery(j)
           \/ DiscoveryFails(j) \/ WriteFailed(j) \/ WriteFailedThrows(j)
  <2>1. \/ scan' = [scan EXCEPT ![j] = [scan[j] EXCEPT !.at = "start"]]
        \/ scan' = [scan EXCEPT ![j] = [scan[j] EXCEPT !.at = "list"]]
        \/ scan' = [scan EXCEPT ![j] = [scan[j] EXCEPT !.at = "failing"]]
        \/ scan' = [scan EXCEPT ![j] = [scan[j] EXCEPT !.at = "unsaid"]]
        \/ scan' = [scan EXCEPT ![j] = [scan[j] EXCEPT !.at = "done"]]
    BY <1>4 DEF CreateJob, StartJobDiscovery, StartFails, FinishDiscovery, DiscoveryFails,
       WriteFailed, WriteFailedThrows
  <2>2. \A a \in {"start", "list", "failing", "unsaid", "done"} : Good([scan[j] EXCEPT !.at = a])
    BY <1>1 DEF Scan, Running
  <2> QED BY <2>1, <2>2
<1>5. CASE ListFiles(j)
  <2> DEFINE s == [scan[j] EXCEPT !.at = "files", !.todo = FilesOf[FolderOf[j]]]
  <2>1. scan' = [scan EXCEPT ![j] = s]
    BY <1>5 DEF ListFiles
  <2>2. Good(s)
    BY <1>1, <1>2 DEF Scan, Running
  <2> QED BY <2>1, <2>2
<1>6. CASE UpsertFile(j)
  <2>1. PICK f \in scan[j].todo :
            scan' = [scan EXCEPT ![j].at = IF j \in DryRuns THEN "hash" ELSE "enqueue",
                                 ![j].todo = @ \ {f}, ![j].file = f]
    BY <1>6 DEF UpsertFile
  <2> DEFINE s == [scan[j] EXCEPT !.at = IF j \in DryRuns THEN "hash" ELSE "enqueue",
                                  !.todo = scan[j].todo \ {f}, !.file = f]
  <2>2. scan' = [scan EXCEPT ![j] = s]
    BY <1>1, <2>1
  <2>3. f \in Files
    BY <1>1 DEF Scan, Running
  <2>4. Good(s)
    BY <1>1, <2>3 DEF Scan, Running
  <2> QED BY <2>2, <2>4
<1>7. CASE EnqueueDiscoveredFile(j)
  <2> DEFINE s == [scan[j] EXCEPT !.at = "files"]
  <2>1. scan' = [scan EXCEPT ![j] = s]
    BY <1>7 DEF EnqueueDiscoveredFile
  <2>2. Good(s)
    BY <1>1 DEF Scan, Running
  <2> QED BY <2>1, <2>2
<1>8. ASSUME NEW result \in {"duplicate", "failed", "expected"}, Counted(j, result)
      PROVE  \E s : scan' = [scan EXCEPT ![j] = s] /\ Good(s)
  <2> DEFINE s == [scan[j] EXCEPT !.at = "files", !.found = None,
                       !.report = [scan[j].report EXCEPT ![result] = scan[j].report[result] + 1]]
  <2>1. scan' = [scan EXCEPT ![j] = s]
    BY <1>1, <1>8 DEF Counted, Scan, Report
  <2>2. [scan[j].report EXCEPT ![result] = scan[j].report[result] + 1] \in Report
    BY <1>1 DEF Scan, Report
  <2>3. Good(s)
    BY <1>1, <2>2 DEF Scan, Running
  <2> QED BY <2>1, <2>3
<1>9. CASE DryRunFile(j)
  <2> DEFINE r == <<j, scan[j].file>>
  <2>1. scan[j].at = "hash"
    BY <1>9 DEF DryRunFile
  <2>2. scan[j].file \in Files /\ r \in Rows
    BY <2>1 DEF IInv, ScansNameFiles, Rows
  <2>3. CASE AssetOf(r) = None
    BY <1>8, <1>9, <2>3 DEF DryRunFile
  <2>4. CASE AssetOf(r) # None
    <3> DEFINE s == [scan[j] EXCEPT !.at = "attach", !.found = AssetOf(r)]
    <3>1. scan' = [scan EXCEPT ![j] = s]
      BY <1>9, <2>4 DEF DryRunFile
    <3>2. AssetOf(r) \in Rows /\ Content(AssetOf(r)) = ContentOf[scan[j].file]
      <4>1. AssetOf(r) \in Rows /\ Content(AssetOf(r)) = Content(r)
        BY <1>1, <2>2, <2>4, AssetOfFinds
      <4> QED BY <4>1 DEF Content
    <3>3. Good(s)
      <4> HIDE DEF r
      <4> QED BY <1>1, <2>2, <3>2 DEF Scan, Running
    <3> QED BY <3>1, <3>3
  <2> QED BY <2>3, <2>4
<1>10. CASE DryRunAttach(j)
  BY <1>8, <1>10 DEF DryRunAttach
<1>11. CASE DryRunFileFails(j)
  BY <1>8, <1>11 DEF DryRunFileFails
<1> QED BY <1>4, <1>5, <1>6, <1>7, <1>9, <1>10, <1>11 DEF Discovery

\* Messages keep their type and what their handlers have found.
LEMMA HandlerStep ==
    ASSUME IInv, NEW r \in Rows, Handle(r)
    PROVE  handler' \in [Rows -> Handler] /\
           (\A q \in Rows : handler'[q].found # None => Content(handler'[q].found) = Content(q))
<1>1. handler \in [Rows -> Handler] /\ handler[r] \in Handler /\ TypeOK
  BY DEF IInv, TypeOK
<1> DEFINE Good(h) == h \in Handler /\ (h.found # None => Content(h.found) = Content(r))
<1>2. SUFFICES ASSUME TRUE PROVE \E h : handler' = [handler EXCEPT ![r] = h] /\ Good(h)
  BY <1>1 DEF IInv, FoundHasContent, Content
<1>3. Good(handler[r])
  BY <1>1 DEF IInv, FoundHasContent
<1>4. AssetOf(r) \in Rows \cup {None} /\ (AssetOf(r) # None => Content(AssetOf(r)) = Content(r))
  BY <1>1, AssetOfFinds
<1>5. CASE FindDuplicate(r)
  <2> DEFINE h == [at |-> "found", found |-> AssetOf(r)]
  <2>1. handler' = [handler EXCEPT ![r] = h]
    BY <1>5 DEF FindDuplicate
  <2>2. Good(h)
    BY <1>4 DEF Handler
  <2> QED BY <2>1, <2>2
<1>6. CASE \/ AttachDuplicate(r) \/ CompleteFile(r) \/ HandlerFails(r)
           \/ CreateAsset(r) /\ AssetOf(r) = None
  <2>1. \/ handler' = [handler EXCEPT ![r] = [handler[r] EXCEPT !.at = "done"]]
        \/ handler' = [handler EXCEPT ![r] = [handler[r] EXCEPT !.at = "pipeline"]]
    BY <1>6 DEF AttachDuplicate, CompleteFile, HandlerFails, CreateAsset
  <2>2. \A a \in {"done", "pipeline"} : Good([handler[r] EXCEPT !.at = a])
    BY <1>1, <1>3 DEF Handler
  <2> QED BY <2>1, <2>2
<1>7. CASE CreateAsset(r) /\ AssetOf(r) # None
  <2> DEFINE h == [handler[r] EXCEPT !.found = AssetOf(r)]
  <2>1. handler' = [handler EXCEPT ![r] = h]
    BY <1>7 DEF CreateAsset
  <2>2. Good(h)
    BY <1>1, <1>4 DEF Handler
  <2> QED BY <2>1, <2>2
<1> QED BY <1>5, <1>6, <1>7 DEF Handle

\* A cleanup request keeps its type.
LEMMA CleanerStep ==
    ASSUME TypeOK, NEW k \in Cleaners, CleanupByFolder(k)
    PROVE  cleaner' \in [Cleaners -> Cleaner] /\ job' \in [Jobs -> Job]
<1>1. cleaner \in [Cleaners -> Cleaner] /\ cleaner[k] \in Cleaner /\ job \in [Jobs -> Job]
      /\ source \in [Rows -> Rows \cup {None}]
  BY DEF TypeOK
<1>2. CASE FindJobs(k)
  <2> DEFINE found == {j \in Jobs : Exists(j) /\ FolderOf[j] = cleaner[k].folder}
             c == [cleaner[k] EXCEPT !.jobs = found,
                       !.at = IF found = {} THEN "done" ELSE "sources"]
  <2>1. cleaner' = [cleaner EXCEPT ![k] = c] /\ job' = job
    BY <1>2 DEF FindJobs
  <2>2. found \subseteq Jobs
    OBVIOUS
  <2>3. c \in Cleaner
    <3> HIDE DEF found
    <3> QED BY <1>1, <2>2 DEF Cleaner
  <2> QED BY <1>1, <2>1, <2>3
<1>3. CASE FindCandidates(k)
  <2> DEFINE candidates == {source[r] : r \in {r \in Rows : r[1] \in cleaner[k].jobs}} \ {None}
             c == [cleaner[k] EXCEPT !.deletable = candidates,
                !.at = IF cleaner[k].skipShared /\ candidates # {} THEN "shared" ELSE "delete"]
  <2>1. cleaner' = [cleaner EXCEPT ![k] = c] /\ job' = job
    BY <1>3 DEF FindCandidates
  <2>2. candidates \subseteq Rows
    BY <1>1
  <2>3. c \in Cleaner
    <3> HIDE DEF candidates
    <3> QED BY <1>1, <2>2 DEF Cleaner
  <2> QED BY <1>1, <2>1, <2>3
<1>4. CASE SkipShared(k)
  <2> DEFINE own == {a \in cleaner[k].deletable : OnlyOf(a, cleaner[k].folder)}
             c == [cleaner[k] EXCEPT !.at = "delete", !.deletable = own]
  <2>1. cleaner' = [cleaner EXCEPT ![k] = c] /\ job' = job
    BY <1>1, <1>4 DEF SkipShared, Cleaner
  <2>2. own \subseteq Rows
    BY <1>1 DEF Cleaner
  <2>3. c \in Cleaner
    <3> HIDE DEF own
    <3> QED BY <1>1, <2>2 DEF Cleaner
  <2> QED BY <1>1, <2>1, <2>3
<1>5. CASE DeleteFolder(k)
  <2>1. cleaner' = [cleaner EXCEPT ![k] = [cleaner[k] EXCEPT !.at = "done"]]
    BY <1>5 DEF DeleteFolder
  <2>2. [cleaner[k] EXCEPT !.at = "done"] \in Cleaner
    BY <1>1 DEF Cleaner
  <2> DEFINE jobs == IF cleaner[k].deleteJobs THEN cleaner[k].jobs ELSE {}
  <2>3. job' = [j \in Jobs |-> IF j \in jobs THEN [job[j] EXCEPT !.status = "deleted"] ELSE job[j]]
    BY <1>5 DEF DeleteFolder
  <2>4. \A j \in Jobs : [job[j] EXCEPT !.status = "deleted"] \in Job
    BY <1>1 DEF Job, JobStates
  <2>5. job' \in [Jobs -> Job]
    <3> HIDE DEF jobs
    <3> QED BY <1>1, <2>3, <2>4
  <2> QED BY <1>1, <2>1, <2>2, <2>5
<1> QED BY <1>2, <1>3, <1>4, <1>5 DEF CleanupByFolder

\* The job row a discovery writes.
LEMMA JobStep ==
    ASSUME TypeOK, NEW j \in Jobs, CreateJob(j) \/ Discovery(j)
    PROVE  /\ job' \in [Jobs -> Job]
           /\ faults' \in 0..MaxFaults
           /\ crashes' \in 0..MaxCrashes
<1>1. /\ job \in [Jobs -> Job] /\ job[j] \in Job /\ scan[j] \in Scan
      /\ faults \in 0..MaxFaults /\ crashes \in 0..MaxCrashes
  BY DEF TypeOK
<1>2. MaxFaults \in Nat /\ MaxCrashes \in Nat
  BY JobsAssumption
<1>3. Throws(j) => faults' \in 0..MaxFaults
  BY <1>1, <1>2 DEF Throws
<1>4. \A status \in JobStates : SetJob(j, status) => job' \in [Jobs -> Job]
  <2>1. \A status \in JobStates : [job[j] EXCEPT !.status = status] \in Job
    BY <1>1 DEF Job
  <2> QED BY <1>1, <2>1 DEF SetJob
<1>5. CASE CreateJob(j)
  BY <1>1, <1>4, <1>5 DEF CreateJob, JobStates
<1>6. CASE StartJobDiscovery(j)
  BY <1>1, <1>4, <1>6 DEF StartJobDiscovery, JobStates
<1>7. CASE StartFails(j)
  BY <1>1, <1>2, <1>7 DEF StartFails
<1>8. CASE FinishDiscovery(j)
  <2> DEFINE new == [status |-> IF j \in DryRuns THEN "COMPLETED" ELSE "PROCESSING",
                     report |-> scan[j].report]
  <2>1. new \in Job
    BY <1>1 DEF Scan, Job, JobStates
  <2>2. job' = [job EXCEPT ![j] = new] /\ UNCHANGED <<faults, crashes>>
    BY <1>8 DEF FinishDiscovery
  <2> QED BY <1>1, <2>1, <2>2
<1>9. CASE DiscoveryFails(j)
  BY <1>1, <1>3, <1>4, <1>9 DEF DiscoveryFails, JobStates
<1>10. CASE WriteFailed(j) \/ WriteFailedThrows(j)
  BY <1>1, <1>2, <1>4, <1>10 DEF WriteFailed, WriteFailedThrows, JobStates
<1>11. CASE \/ ListFiles(j) \/ UpsertFile(j) \/ EnqueueDiscoveredFile(j)
            \/ DryRunFile(j) \/ DryRunAttach(j) \/ DryRunFileFails(j)
  BY <1>1, <1>11 DEF ListFiles, UpsertFile, EnqueueDiscoveredFile, DryRunFile, DryRunAttach,
     DryRunFileFails
<1> QED BY <1>5, <1>6, <1>7, <1>8, <1>9, <1>10, <1>11 DEF Discovery

\* A restart only stops what was under way.
LEMMA CrashStep ==
    ASSUME IInv, Crash
    PROVE  /\ scan' \in [Jobs -> Scan] /\ ScansNameFiles'
           /\ handler' \in [Rows -> Handler] /\ cleaner' \in [Cleaners -> Cleaner]
           /\ FoundHasContent' /\ crashes' \in 0..MaxCrashes
<1>1. /\ scan \in [Jobs -> Scan] /\ handler \in [Rows -> Handler]
      /\ cleaner \in [Cleaners -> Cleaner] /\ crashes \in 0..MaxCrashes
  BY DEF IInv, TypeOK
<1>2. scan' \in [Jobs -> Scan] /\ \A j \in Jobs : scan'[j].at \notin {"enqueue", "hash", "attach"}
  <2>1. \A j \in Jobs : [scan[j] EXCEPT !.at = "lost"] \in Scan
                         /\ [scan[j] EXCEPT !.at = "lost"].at = "lost"
    BY <1>1 DEF Scan
  <2>2. scan' = [j \in Jobs |-> IF scan[j].at \in Running \cup {"start"}
                                THEN [scan[j] EXCEPT !.at = "lost"] ELSE scan[j]]
    BY DEF Crash
  <2>3. {"enqueue", "hash", "attach"} \subseteq Running
    BY DEF Running
  <2> QED BY <1>1, <2>1, <2>2, <2>3
<1>3. cleaner' \in [Cleaners -> Cleaner]
  <2>1. \A k \in Cleaners : [cleaner[k] EXCEPT !.at = "done"] \in Cleaner
    BY <1>1 DEF Cleaner
  <2>2. cleaner' = [k \in Cleaners |-> IF cleaner[k].at = "idle" THEN cleaner[k]
                                       ELSE [cleaner[k] EXCEPT !.at = "done"]]
    BY DEF Crash
  <2> QED BY <1>1, <2>1, <2>2
<1>4. /\ handler' \in [Rows -> Handler]
      /\ \A r \in Rows : handler'[r].found # None => Content(handler'[r].found) = Content(r)
  <2>1. [at |-> "queued", found |-> None] \in Handler
    BY DEF Handler
  <2>2. handler' = [r \in Rows |-> IF handler[r].at = "found"
                                  THEN [at |-> "queued", found |-> None] ELSE handler[r]]
    BY DEF Crash
  <2> QED BY <1>1, <2>1, <2>2 DEF IInv, FoundHasContent
<1>5. crashes' \in 0..MaxCrashes
  BY <1>1, JobsAssumption DEF Crash
<1> QED BY <1>2, <1>3, <1>4, <1>5 DEF ScansNameFiles, FoundHasContent, Content

\* The message a discovery sends names nothing it has found.
LEMMA QueueStep ==
    ASSUME IInv, NEW j \in Jobs, CreateJob(j) \/ Discovery(j)
    PROVE  /\ handler' \in [Rows -> Handler]
           /\ \A r \in Rows : handler'[r].found # None => Content(handler'[r].found) = Content(r)
           /\ cleaner' = cleaner
<1>1. handler \in [Rows -> Handler] /\ FoundHasContent
  BY DEF IInv, TypeOK
<1>2. CASE EnqueueDiscoveredFile(j)
  <2> DEFINE r == <<j, scan[j].file>>
  <2>1. handler' = [handler EXCEPT ![r].at = "queued"] /\ cleaner' = cleaner
    BY <1>2 DEF EnqueueDiscoveredFile
  <2>2. r \in Rows
    BY <1>2 DEF EnqueueDiscoveredFile, IInv, ScansNameFiles, Rows
  <2>3. [handler[r] EXCEPT !.at = "queued"] \in Handler
        /\ [handler[r] EXCEPT !.at = "queued"].found = handler[r].found
    <3> HIDE DEF r
    <3> QED BY <1>1, <2>2 DEF Handler
  <2> HIDE DEF r
  <2> QED BY <1>1, <2>1, <2>2, <2>3 DEF FoundHasContent
<1>3. CASE \/ CreateJob(j) \/ StartJobDiscovery(j) \/ StartFails(j) \/ ListFiles(j)
           \/ UpsertFile(j) \/ DryRunFile(j) \/ DryRunAttach(j) \/ DryRunFileFails(j)
           \/ FinishDiscovery(j) \/ DiscoveryFails(j) \/ WriteFailed(j) \/ WriteFailedThrows(j)
  <2>1. handler' = handler /\ cleaner' = cleaner
    BY <1>3 DEF CreateJob, StartJobDiscovery, StartFails, ListFiles, UpsertFile, DryRunFile,
       DryRunAttach, DryRunFileFails, FinishDiscovery, DiscoveryFails, WriteFailed,
       WriteFailedThrows
  <2> QED BY <1>1, <2>1 DEF FoundHasContent
<1> QED BY <1>2, <1>3 DEF Discovery

\* It holds in the beginning.
LEMMA InitIInv == Init => IInv
<1> SUFFICES ASSUME Init PROVE IInv
  OBVIOUS
<1>1. NoReport \in Report
  BY DEF NoReport, Report
<1>2. job \in [Jobs -> Job]
  BY <1>1 DEF Init, Job, JobStates
<1>3. scan \in [Jobs -> Scan]
  BY <1>1 DEF Init, Scan
<1>4. handler \in [Rows -> Handler]
  BY DEF Init, Handler
<1>5. cleaner \in [Cleaners -> Cleaner]
  BY DEF Init
<1>6. RowsOK /\ faults \in 0..MaxFaults /\ crashes \in 0..MaxCrashes
  BY JobsAssumption DEF Init, RowsOK, FileStates
<1>7. TypeOK
  BY <1>2, <1>3, <1>4, <1>5, <1>6 DEF TypeOK, RowsOK
<1>8. ScansNameFiles /\ FoundHasContent /\ LinksMatchSources
  BY DEF Init, ScansNameFiles, FoundHasContent, LinksMatchSources
<1> QED BY <1>7, <1>8 DEF IInv

\* And every step keeps it.
LEMMA StepIInv == IInv /\ [Next]_vars => IInv'
<1> SUFFICES ASSUME IInv, [Next]_vars PROVE IInv'
  OBVIOUS
<1>1. TypeOK /\ ScansNameFiles /\ FoundHasContent
  BY DEF IInv
<1>2. CASE UNCHANGED vars
  BY <1>2 DEF vars, rows, IInv, TypeOK, ScansNameFiles, FoundHasContent, LinksMatchSources,
     Content
<1>3. CASE Next
  <2>1. RowsOK' /\ LinksMatchSources'
    BY <1>3, RowsStep
  <2>2. ASSUME NEW j \in Jobs, CreateJob(j) \/ Discovery(j) PROVE IInv'
    <3>1. /\ scan' \in [Jobs -> Scan] /\ ScansNameFiles'
          /\ \A i \in Jobs : scan'[i].at = "attach" =>
                scan'[i].found \in Rows /\ Content(scan'[i].found) = ContentOf[scan'[i].file]
      BY <2>2, ScanStep
    <3>2. job' \in [Jobs -> Job] /\ faults' \in 0..MaxFaults /\ crashes' \in 0..MaxCrashes
      BY <1>1, <2>2, JobStep
    <3>3. /\ handler' \in [Rows -> Handler] /\ cleaner' = cleaner
          /\ \A r \in Rows : handler'[r].found # None => Content(handler'[r].found) = Content(r)
      BY <2>2, QueueStep
    <3>4. TypeOK'
      BY <1>1, <2>1, <3>1, <3>2, <3>3 DEF TypeOK, RowsOK
    <3>5. FoundHasContent'
      BY <3>1, <3>3 DEF FoundHasContent, Content
    <3> QED BY <2>1, <3>1, <3>4, <3>5 DEF IInv
  <2>3. ASSUME NEW r \in Rows, Handle(r) PROVE IInv'
    <3>1. handler' \in [Rows -> Handler] /\
          \A q \in Rows : handler'[q].found # None => Content(handler'[q].found) = Content(q)
      BY <2>3, HandlerStep
    <3>2. UNCHANGED <<job, scan, cleaner, faults, crashes>>
      BY <2>3 DEF Handle, FindDuplicate, AttachDuplicate, CreateAsset, CompleteFile, HandlerFails
    <3>3. TypeOK'
      BY <1>1, <2>1, <3>1, <3>2 DEF TypeOK, RowsOK
    <3>4. ScansNameFiles' /\ FoundHasContent'
      BY <1>1, <3>1, <3>2 DEF ScansNameFiles, FoundHasContent, Content
    <3> QED BY <2>1, <3>3, <3>4 DEF IInv
  <2>4. ASSUME NEW k \in Cleaners, CleanupByFolder(k) PROVE IInv'
    <3>1. cleaner' \in [Cleaners -> Cleaner] /\ job' \in [Jobs -> Job]
      BY <1>1, <2>4, CleanerStep
    <3>2. UNCHANGED <<scan, handler, faults, crashes>>
      BY <2>4 DEF CleanupByFolder, FindJobs, FindCandidates, SkipShared, DeleteFolder
    <3>3. TypeOK'
      BY <1>1, <2>1, <3>1, <3>2 DEF TypeOK, RowsOK
    <3>4. ScansNameFiles' /\ FoundHasContent'
      BY <1>1, <3>2 DEF ScansNameFiles, FoundHasContent, Content
    <3> QED BY <2>1, <3>3, <3>4 DEF IInv
  <2>5. CASE Crash
    <3>1. /\ scan' \in [Jobs -> Scan] /\ ScansNameFiles'
          /\ handler' \in [Rows -> Handler] /\ cleaner' \in [Cleaners -> Cleaner]
          /\ FoundHasContent' /\ crashes' \in 0..MaxCrashes
      BY <2>5, CrashStep
    <3>2. UNCHANGED <<job, faults>>
      BY <2>5 DEF Crash
    <3>3. TypeOK'
      BY <1>1, <2>1, <3>1, <3>2 DEF TypeOK, RowsOK
    <3> QED BY <2>1, <3>1, <3>3 DEF IInv
  <2> QED BY <1>3, <2>2, <2>3, <2>4, <2>5 DEF Next
<1> QED BY <1>2, <1>3

\* The strengthened invariant holds of every behaviour.
THEOREM FolderInvariance == Spec => []IInv
<1>1. Init => IInv
  BY InitIInv
<1>2. IInv /\ [Next]_vars => IInv'
  BY StepIInv
<1> QED BY <1>1, <1>2, PTL DEF Spec

\* Every row, discovery, message and cleanup keeps its type.
THEOREM FilesAlwaysTyped == Spec => []TypeOK
<1>1. IInv => TypeOK
  BY DEF IInv
<1> QED BY <1>1, FolderInvariance, PTL

\* Whatever cleanups, handlers and discoveries interleave: a file and its
\* source name the same existing asset, of the content of the file, and no
\* content has two assets.
THEOREM LinksAlwaysMatch == Spec => []LinksMatchSources
<1>1. IInv => LinksMatchSources
  BY DEF IInv
<1> QED BY <1>1, FolderInvariance, PTL
-----------------------------------------------------------------------------
(* What a job says of itself.  A job is followed from its creation to the  *)
(* end of its discovery: where its discovery is, what it still has to do,  *)
(* what it has queued, and what a dry run has counted so far.              *)

FolderFiles(j) == FilesOf[FolderOf[j]]
Current(j) == IF scan[j].at \in {"enqueue", "hash", "attach"} THEN {scan[j].file} ELSE {}
Treated(j) == FolderFiles(j) \ (scan[j].todo \cup Current(j))

\* The status of a job goes with the place of its discovery.
StatusFollows(j) ==
    /\ job[j].status = "none" => scan[j].at = "idle"
    /\ scan[j].at = "start" => job[j].status \in {"CREATED", "deleted"}
    /\ scan[j].at \in Running => job[j].status \in {"SCANNING", "deleted"}
    /\ job[j].status = "SCANNING" => scan[j].at \in Running \cup {"lost", "unsaid"}
    /\ job[j].status \in {"PROCESSING", "COMPLETED", "FAILED"} => scan[j].at = "done"
    /\ job[j].status = "COMPLETED" => j \in DryRuns
    /\ j \in DryRuns => scan[j].at # "enqueue"
    /\ j \notin DryRuns => scan[j].at \notin {"hash", "attach"}
    /\ scan[j].at \in {"files", "enqueue", "hash", "attach"} => scan[j].todo \subseteq FolderFiles(j)
    /\ Current(j) \subseteq FolderFiles(j) \ scan[j].todo

\* A full job has queued what it has treated, and what has a row, but for the
\* file it is at or has stopped at; a dry run queues nothing.
Unqueued(j, f) == j \notin DryRuns /\ file[<<j, f>>] # "none" /\ handler[<<j, f>>].at = "idle"
QueueFollows(j) ==
    /\ j \in DryRuns => \A f \in Files : handler[<<j, f>>].at = "idle"
    /\ j \notin DryRuns /\ scan[j].at \in {"files", "enqueue"} =>
          \A f \in Treated(j) : handler[<<j, f>>].at # "idle"
    /\ \A f \in Files : Unqueued(j, f) =>
          /\ scan[j].at \notin {"idle", "start", "list", "files"}
          /\ f = scan[j].file
    /\ job[j].status = "PROCESSING" => \A f \in FolderFiles(j) : handler[<<j, f>>].at # "idle"

\* A dry run has counted the files it has treated, each by its status.
Now(j, status) == Cardinality({f \in Treated(j) : file[<<j, f>>] = status})
ReportFollows(j) ==
    j \in DryRuns =>
    /\ scan[j].at \in {"idle", "start", "list"} =>
          scan[j].report = NoReport /\ \A f \in FolderFiles(j) : file[<<j, f>>] = "none"
    /\ Exists(j) /\ scan[j].at \in {"files", "hash", "attach"} =>
          /\ \A f \in scan[j].todo : file[<<j, f>>] = "none"
          /\ \A f \in Current(j) : file[<<j, f>>] = "DISCOVERED"
          /\ scan[j].report = [duplicate |-> Now(j, "COMPLETED"), failed |-> Now(j, "FAILED"),
                               expected |-> Now(j, "DISCOVERED")]
    /\ job[j].status = "COMPLETED" =>
          job[j].report = [duplicate |-> WithStatus(j, "COMPLETED"),
                           failed |-> WithStatus(j, "FAILED"),
                           expected |-> WithStatus(j, "DISCOVERED")]

JobFollows(j) == StatusFollows(j) /\ QueueFollows(j) /\ ReportFollows(j)

\* What is in a folder can be counted, and so can what has been treated of it.
LEMMA FoldersAreFinite ==
    ASSUME NEW j \in Jobs
    PROVE  /\ FolderFiles(j) \subseteq Files /\ IsFiniteSet(FolderFiles(j))
           /\ \A S \in SUBSET FolderFiles(j) : IsFiniteSet(S)
<1>1. FolderOf[j] \in Folders
  BY JobsAssumption
<1>2. FolderFiles(j) \subseteq Files /\ IsFiniteSet(FolderFiles(j))
  BY <1>1, JobsAssumption DEF FolderFiles
<1> QED BY <1>2, FS_Subset

\* The messages of a job are as before; it has no new files, and the files of a
\* dry run are as before.
SameMessages(j) ==
    \A f \in Files : handler'[<<j, f>>].at = "idle" <=> handler[<<j, f>>].at = "idle"
SameFiles(j) ==
    /\ \A f \in Files : file'[<<j, f>>] # "none" => file[<<j, f>>] # "none"
    /\ j \in DryRuns => \A f \in Files : file'[<<j, f>>] = file[<<j, f>>]

\* What others do leaves a job as it is.
LEMMA OthersKeep ==
    ASSUME NEW j \in Jobs, JobFollows(j), scan'[j] = scan[j], job'[j] = job[j],
           SameMessages(j), SameFiles(j)
    PROVE  JobFollows(j)'
<1>1. FolderFiles(j) \subseteq Files
  BY FoldersAreFinite
<1>2. Treated(j)' = Treated(j) /\ Current(j)' = Current(j) /\ Treated(j) \subseteq FolderFiles(j)
  BY DEF Treated, Current, FolderFiles
<1>3. StatusFollows(j)'
  BY <1>2 DEF JobFollows, StatusFollows, FolderFiles
<1>4. QueueFollows(j)'
  BY <1>1, <1>2 DEF JobFollows, QueueFollows, Unqueued, SameMessages, SameFiles, FolderFiles
<1>5. ASSUME j \in DryRuns PROVE ReportFollows(j)'
  <2>1. \A f \in FolderFiles(j) : file'[<<j, f>>] = file[<<j, f>>]
    BY <1>1, <1>5 DEF SameFiles
  <2>2. ASSUME NEW status
        PROVE  Now(j, status)' = Now(j, status) /\ WithStatus(j, status)' = WithStatus(j, status)
    <3>1. {f \in Treated(j) : file'[<<j, f>>] = status} = {f \in Treated(j) : file[<<j, f>>] = status}
      BY <1>2, <2>1
    <3>2. {f \in FilesOf[FolderOf[j]] : file'[<<j, f>>] = status}
            = {f \in FilesOf[FolderOf[j]] : file[<<j, f>>] = status}
      BY <2>1 DEF FolderFiles
    <3> QED BY <1>2, <3>1, <3>2 DEF Now, WithStatus
  <2>3. scan[j].at \in {"files", "hash", "attach"} =>
            Current(j) \subseteq FolderFiles(j) /\ scan[j].todo \subseteq FolderFiles(j)
    BY DEF JobFollows, StatusFollows
  <2>4. ReportFollows(j) /\ Exists(j)' = Exists(j)
    BY DEF JobFollows, Exists
  <2> QED BY <1>2, <1>5, <2>1, <2>2, <2>3, <2>4 DEF ReportFollows, FolderFiles
<1> QED BY <1>3, <1>4, <1>5 DEF JobFollows, ReportFollows

\* A job a cleanup has deleted says nothing any more.
LEMMA DeletionKeeps ==
    ASSUME NEW j \in Jobs, JobFollows(j), scan'[j] = scan[j], job'[j].status = "deleted",
           SameMessages(j), \A f \in Files : file'[<<j, f>>] = "none"
    PROVE  JobFollows(j)'
<1>1. FolderFiles(j) \subseteq Files
  BY FoldersAreFinite
<1>2. Treated(j)' = Treated(j) /\ Current(j)' = Current(j) /\ Treated(j) \subseteq FolderFiles(j)
  BY DEF Treated, Current, FolderFiles
<1>3. StatusFollows(j)'
  BY <1>2 DEF JobFollows, StatusFollows, FolderFiles
<1>4. QueueFollows(j)'
  BY <1>1, <1>2 DEF JobFollows, QueueFollows, Unqueued, SameMessages, FolderFiles
<1>5. ReportFollows(j)'
  BY <1>1 DEF JobFollows, ReportFollows, Exists, FolderFiles
<1> QED BY <1>3, <1>4, <1>5 DEF JobFollows

\* A discovery that stops before it has finished, and one that is about to say
\* that it has failed: the job is left as it was, or says FAILED at the end.
StopsAs(j, at) ==
    \/ /\ at = "done"
       /\ \/ job'[j] = job[j] /\ job[j].status # "SCANNING"
          \/ job'[j].status = "FAILED"
    \/ at = "failing" /\ job'[j] = job[j] /\ job[j].status \in {"SCANNING", "deleted"}
    \/ /\ at \in {"lost", "unsaid"} /\ job'[j] = job[j]
       /\ job[j].status \notin {"PROCESSING", "COMPLETED", "FAILED"}

LEMMA StopKeeps ==
    ASSUME NEW j \in Jobs, JobFollows(j), StopsAs(j, scan'[j].at), scan'[j].file = scan[j].file,
           job'[j].status # "none", SameMessages(j), SameFiles(j)
    PROVE  JobFollows(j)'
<1>1. /\ FolderFiles(j) \subseteq Files
      /\ scan'[j].at \in {"done", "failing", "lost", "unsaid"}
      /\ job'[j] = job[j] \/ job'[j].status = "FAILED"
  BY FoldersAreFinite DEF StopsAs
<1>2. StatusFollows(j)'
  BY <1>1 DEF JobFollows, StatusFollows, StopsAs, Current, FolderFiles, Running
<1>3. QueueFollows(j)'
  <2>1. \A f \in Files : Unqueued(j, f)' => Unqueued(j, f)
    BY DEF Unqueued, SameMessages, SameFiles
  <2> QED BY <1>1, <2>1 DEF JobFollows, QueueFollows, SameMessages, FolderFiles
<1>4. ASSUME j \in DryRuns, job'[j].status = "COMPLETED", NEW status
      PROVE  WithStatus(j, status)' = WithStatus(j, status)
  <2>1. {f \in FilesOf[FolderOf[j]] : file'[<<j, f>>] = status}
          = {f \in FilesOf[FolderOf[j]] : file[<<j, f>>] = status}
    BY <1>1, <1>4 DEF SameFiles, FolderFiles
  <2> QED BY <2>1 DEF WithStatus
<1>5. ReportFollows(j)'
  BY <1>1, <1>4 DEF JobFollows, ReportFollows
<1> QED BY <1>2, <1>3, <1>5 DEF JobFollows

\* A file of a dry run gets its result in the report and the status it stands for.
FileTreated(j, result, status) ==
    /\ file' = [file EXCEPT ![<<j, scan[j].file>>] = status]
    /\ Counted(j, result)

\* The next file of a dry run is treated: it is counted once, under its status.
LEMMA OneMoreTreated ==
    ASSUME TypeOK, NEW j \in Jobs, j \in DryRuns, JobFollows(j), Exists(j), SameMessages(j),
           scan[j].at \in {"hash", "attach"}, UNCHANGED job,
           \/ FileTreated(j, "duplicate", "COMPLETED")
           \/ FileTreated(j, "failed", "FAILED")
           \/ FileTreated(j, "expected", "DISCOVERED")
    PROVE  JobFollows(j)'
<1> PICK result \in {"duplicate", "failed", "expected"}, status \in {"COMPLETED", "FAILED", "DISCOVERED"} :
         /\ <<result, status>> \in {<<"duplicate", "COMPLETED">>, <<"failed", "FAILED">>,
                                    <<"expected", "DISCOVERED">>}
         /\ file' = [file EXCEPT ![<<j, scan[j].file>>] = status]
         /\ Counted(j, result)
  BY DEF FileTreated
<1> DEFINE c == scan[j].file
           T == Treated(j)
<1>1. /\ Current(j) = {c} /\ c \in FolderFiles(j) \ scan[j].todo /\ T \subseteq FolderFiles(j)
      /\ c \notin T /\ file[<<j, c>>] = "DISCOVERED"
  BY DEF JobFollows, StatusFollows, ReportFollows, Current, Treated
<1>2. FolderFiles(j) \subseteq Files /\ \A S \in SUBSET FolderFiles(j) : IsFiniteSet(S)
  BY FoldersAreFinite
<1>3. /\ scan'[j].at = "files" /\ scan'[j].todo = scan[j].todo
      /\ scan'[j].report = [scan[j].report EXCEPT ![result] = @ + 1]
      /\ scan[j].report \in Report
  BY DEF TypeOK, Counted, Scan, Report
<1>4. Treated(j)' = T \cup {c} /\ Current(j)' = {}
  BY <1>1, <1>3 DEF Treated, Current, FolderFiles
<1>5. /\ file'[<<j, c>>] = status
      /\ \A f \in Files \ {c} : file'[<<j, f>>] = file[<<j, f>>]
  <2>1. file \in [Rows -> FileStates] /\ <<j, c>> \in Rows
    BY <1>1, <1>2 DEF TypeOK, Rows
  <2> QED BY <2>1 DEF Rows
<1>6. ASSUME NEW s
      PROVE  Now(j, s)' = IF s = status THEN Now(j, s) + 1 ELSE Now(j, s)
  <2> DEFINE S == {f \in T : file[<<j, f>>] = s}
  <2>1. {f \in T \cup {c} : file'[<<j, f>>] = s} = IF s = status THEN S \cup {c} ELSE S
    BY <1>1, <1>2, <1>5
  <2>2. IsFiniteSet(S) /\ c \notin S
    BY <1>1, <1>2
  <2>3. Cardinality(S \cup {c}) = Cardinality(S) + 1
    BY <2>2, FS_AddElement
  <2> QED BY <1>4, <2>1, <2>3 DEF Now
<1>7. \A s : Now(j, s) \in Nat
  <2> SUFFICES ASSUME NEW s PROVE Now(j, s) \in Nat
    OBVIOUS
  <2>1. {f \in T : file[<<j, f>>] = s} \in SUBSET FolderFiles(j)
    BY <1>1
  <2> QED BY <1>2, <2>1, FS_CardinalityType DEF Now
<1>8. scan[j].report = [duplicate |-> Now(j, "COMPLETED"), failed |-> Now(j, "FAILED"),
                        expected |-> Now(j, "DISCOVERED")]
  BY DEF JobFollows, ReportFollows
<1>9. scan'[j].report = [duplicate |-> Now(j, "COMPLETED")', failed |-> Now(j, "FAILED")',
                         expected |-> Now(j, "DISCOVERED")']
  <2>1. CASE result = "duplicate"
    BY <1>3, <1>6, <1>8, <2>1
  <2>2. CASE result = "failed"
    BY <1>3, <1>6, <1>8, <2>2
  <2>3. CASE result = "expected"
    BY <1>3, <1>6, <1>8, <2>3
  <2> QED BY <2>1, <2>2, <2>3
<1>10. \A f \in scan[j].todo : file'[<<j, f>>] = "none"
  BY <1>1, <1>2, <1>5 DEF JobFollows, StatusFollows, ReportFollows
<1>11. job[j].status # "COMPLETED"
  BY DEF JobFollows, StatusFollows
<1>12. StatusFollows(j)'
  BY <1>3, <1>4, <1>11 DEF JobFollows, StatusFollows, FolderFiles, Exists, Running
<1>13. QueueFollows(j)'
  BY <1>2 DEF JobFollows, QueueFollows, Unqueued, SameMessages, FolderFiles
<1>14. ReportFollows(j)'
  BY <1>3, <1>4, <1>9, <1>10, <1>11 DEF ReportFollows
<1> QED BY <1>12, <1>13, <1>14 DEF JobFollows

\* Every job, and what it says of itself.
JInv == \A j \in Jobs : JobFollows(j)

\* A step of its own discovery keeps a job true.
LEMMA OwnStepKeeps ==
    ASSUME IInv, NEW j \in Jobs, JobFollows(j), CreateJob(j) \/ Discovery(j)
    PROVE  JobFollows(j)'
<1>1. /\ TypeOK /\ scan \in [Jobs -> Scan] /\ job \in [Jobs -> Job]
      /\ handler \in [Rows -> Handler] /\ file \in [Rows -> FileStates]
  BY DEF IInv, TypeOK
<1>2. StatusFollows(j) /\ QueueFollows(j) /\ ReportFollows(j)
  BY DEF JobFollows
<1>3. /\ FolderFiles(j) \subseteq Files /\ FolderFiles(j)' = FolderFiles(j)
      /\ \A f \in Files : <<j, f>> \in Rows
  BY FoldersAreFinite DEF FolderFiles, Rows
<1>4. CASE CreateJob(j)
  <2>1. /\ scan[j].at = "idle" /\ scan'[j] = [scan[j] EXCEPT !.at = "start"]
        /\ job'[j].status = "CREATED" /\ UNCHANGED <<file, handler>>
    BY <1>1, <1>2, <1>4 DEF CreateJob, SetJob, StatusFollows, rows
  <2>2. scan'[j].at = "start" /\ scan'[j].report = scan[j].report /\ Current(j)' = {}
    BY <1>1, <2>1 DEF Scan, Current
  <2>3. StatusFollows(j)'
    BY <1>2, <2>1, <2>2 DEF StatusFollows, Running
  <2>4. QueueFollows(j)'
    BY <1>2, <1>3, <2>1, <2>2 DEF QueueFollows, Unqueued
  <2>5. ReportFollows(j)'
    BY <1>2, <1>3, <2>1, <2>2 DEF ReportFollows
  <2> QED BY <2>3, <2>4, <2>5 DEF JobFollows
<1>5. CASE StartJobDiscovery(j) /\ Exists(j)
  <2>1. /\ scan[j].at = "start" /\ scan'[j] = [scan[j] EXCEPT !.at = "list"]
        /\ job'[j].status = "SCANNING" /\ UNCHANGED <<file, handler>>
    BY <1>1, <1>5 DEF StartJobDiscovery, SetJob, Job, rows
  <2>2. scan'[j].at = "list" /\ scan'[j].report = scan[j].report /\ Current(j)' = {}
    BY <1>1, <2>1 DEF Scan, Current
  <2>3. StatusFollows(j)'
    BY <1>2, <2>1, <2>2 DEF StatusFollows, Running
  <2>4. QueueFollows(j)'
    BY <1>2, <1>3, <2>1, <2>2 DEF QueueFollows, Unqueued
  <2>5. ReportFollows(j)'
    BY <1>2, <1>3, <2>1, <2>2 DEF ReportFollows
  <2> QED BY <2>3, <2>4, <2>5 DEF JobFollows
<1>6. CASE \/ (StartJobDiscovery(j) /\ ~Exists(j)) \/ StartFails(j) \/ DiscoveryFails(j)
           \/ WriteFailed(j) \/ WriteFailedThrows(j)
  <2>1. /\ scan[j].at # "idle" /\ scan'[j].file = scan[j].file /\ UNCHANGED <<file, handler>>
        /\ job[j].status # "none"
    <3>1. /\ scan[j].at # "idle" /\ UNCHANGED <<file, handler>>
          /\ \E a \in {"done", "failing", "unsaid"} : scan' = [scan EXCEPT ![j].at = a]
      BY <1>6 DEF StartJobDiscovery, StartFails, DiscoveryFails, WriteFailed, WriteFailedThrows,
         Throws, rows
    <3>2. scan'[j].file = scan[j].file
      BY <1>1, <3>1 DEF Scan
    <3> QED BY <1>2, <3>1, <3>2 DEF StatusFollows
  <2>2. StopsAs(j, scan'[j].at) /\ job'[j].status # "none"
    <3>1. CASE (StartJobDiscovery(j) /\ ~Exists(j)) \/ StartFails(j)
      <4>1. scan[j].at = "start" /\ job' = job /\ scan'[j].at = "done"
        BY <1>1, <3>1 DEF StartJobDiscovery, StartFails, Scan
      <4> QED BY <1>2, <2>1, <4>1 DEF StatusFollows, StopsAs
    <3>2. CASE DiscoveryFails(j)
      <4>1. scan[j].at \in Running /\ job' = job /\ scan'[j].at = "failing"
        BY <1>1, <3>2 DEF DiscoveryFails, Throws, Running, Scan
      <4> QED BY <1>2, <2>1, <4>1 DEF StatusFollows, StopsAs
    <3>3. CASE WriteFailed(j)
      <4>1. scan[j].at \in Running /\ scan'[j].at = "done"
        BY <1>1, <3>3 DEF WriteFailed, Running, Scan
      <4>2. CASE Exists(j)
        <5>1. job'[j].status = "FAILED"
          BY <1>1, <3>3, <4>2 DEF WriteFailed, SetJob, Job
        <5> QED BY <4>1, <5>1 DEF StopsAs
      <4>3. CASE ~Exists(j)
        BY <1>2, <2>1, <3>3, <4>1, <4>3 DEF WriteFailed, Exists, StopsAs
      <4> QED BY <4>2, <4>3
    <3>4. CASE WriteFailedThrows(j)
      <4>1. scan[j].at \in Running /\ job' = job /\ scan'[j].at = "unsaid"
        BY <1>1, <3>4 DEF WriteFailedThrows, Running, Scan
      <4> QED BY <1>2, <2>1, <4>1 DEF StatusFollows, StopsAs
    <3> QED BY <1>6, <3>1, <3>2, <3>3, <3>4
  <2>3. SameMessages(j) /\ SameFiles(j)
    BY <2>1 DEF SameMessages, SameFiles
  <2> QED BY <2>1, <2>2, <2>3, StopKeeps
<1>7. CASE ListFiles(j)
  <2>1. /\ scan[j].at = "list" /\ UNCHANGED <<job, file, handler>>
        /\ scan'[j] = [scan[j] EXCEPT !.at = "files", !.todo = FolderFiles(j)]
    BY <1>1, <1>7 DEF ListFiles, rows, FolderFiles
  <2>2. /\ scan'[j].at = "files" /\ scan'[j].todo = FolderFiles(j) /\ scan'[j].report = scan[j].report
        /\ Current(j)' = {} /\ Treated(j)' = {}
    <3>1. /\ scan'[j].at = "files" /\ scan'[j].todo = FolderFiles(j)
          /\ scan'[j].report = scan[j].report
      BY <1>1, <2>1 DEF Scan
    <3> QED BY <1>3, <3>1 DEF Current, Treated
  <2>3. \A s : Now(j, s)' = 0
    BY <2>2, FS_EmptySet DEF Now
  <2>4. StatusFollows(j)' /\ QueueFollows(j)'
    BY <1>2, <1>3, <2>1, <2>2 DEF StatusFollows, QueueFollows, Unqueued, Running
  <2>5. ReportFollows(j)'
    BY <1>2, <2>1, <2>2, <2>3 DEF ReportFollows, StatusFollows, NoReport
  <2> QED BY <2>4, <2>5 DEF JobFollows
<1>8. CASE UpsertFile(j)
  <2>1. PICK f \in scan[j].todo :
            /\ file' = [file EXCEPT ![<<j, f>>] = IF @ = "none" THEN "DISCOVERED" ELSE @]
            /\ scan' = [scan EXCEPT ![j].at = IF j \in DryRuns THEN "hash" ELSE "enqueue",
                                    ![j].todo = @ \ {f}, ![j].file = f]
    BY <1>8 DEF UpsertFile
  <2>2. scan[j].at = "files" /\ Exists(j) /\ UNCHANGED <<job, handler>>
    BY <1>8 DEF UpsertFile
  <2>3. f \in FolderFiles(j) /\ f \in Files /\ scan[j].todo \subseteq FolderFiles(j)
    BY <1>2, <1>3, <2>1, <2>2 DEF StatusFollows
  <2>4. /\ scan'[j].at = IF j \in DryRuns THEN "hash" ELSE "enqueue"
        /\ scan'[j].todo = scan[j].todo \ {f} /\ scan'[j].file = f
        /\ scan'[j].report = scan[j].report
    BY <1>1, <2>1 DEF Scan
  <2>5. Current(j) = {} /\ Current(j)' = {f} /\ Treated(j)' = Treated(j) /\ f \notin Treated(j)
        /\ Treated(j) \subseteq FolderFiles(j)
    <3>1. Current(j) = {} /\ Current(j)' = {f}
      BY <2>2, <2>4 DEF Current
    <3> QED BY <1>3, <2>1, <2>3, <2>4, <3>1 DEF Treated
  <2>6. /\ file[<<j, f>>] = "none" => file'[<<j, f>>] = "DISCOVERED"
        /\ \A g \in Files \ {f} : file'[<<j, g>>] = file[<<j, g>>]
    BY <1>1, <1>3, <2>1, <2>3
  <2>7. \A s : Now(j, s)' = Now(j, s)
    <3> SUFFICES ASSUME NEW s PROVE Now(j, s)' = Now(j, s)
      OBVIOUS
    <3>1. {g \in Treated(j) : file'[<<j, g>>] = s} = {g \in Treated(j) : file[<<j, g>>] = s}
      BY <1>3, <2>5, <2>6
    <3> QED BY <2>5, <3>1 DEF Now
  <2>8. job[j].status \notin {"none", "COMPLETED"} /\ Exists(j)'
    BY <1>2, <2>2 DEF StatusFollows, Exists
  <2>9. StatusFollows(j)'
    BY <1>2, <1>3, <2>2, <2>3, <2>4, <2>5, <2>8 DEF StatusFollows, Running
  <2>10. QueueFollows(j)'
    <3>1. \A g \in Files : Unqueued(j, g)' => g = f
      BY <1>2, <2>2, <2>6 DEF QueueFollows, Unqueued
    <3>2. Unqueued(j, f)' => scan'[j].at = "enqueue"
      BY <2>4 DEF Unqueued
    <3> QED BY <1>2, <1>3, <2>2, <2>4, <2>5, <3>1, <3>2 DEF QueueFollows
  <2>11. ReportFollows(j)'
    <3> SUFFICES ASSUME j \in DryRuns PROVE ReportFollows(j)'
      BY DEF ReportFollows
    <3>1. /\ \A g \in scan[j].todo : file[<<j, g>>] = "none"
          /\ scan[j].report = [duplicate |-> Now(j, "COMPLETED"), failed |-> Now(j, "FAILED"),
                               expected |-> Now(j, "DISCOVERED")]
      BY <1>2, <2>2 DEF ReportFollows
    <3>2. /\ \A g \in scan'[j].todo : file'[<<j, g>>] = "none"
          /\ \A g \in Current(j)' : file'[<<j, g>>] = "DISCOVERED"
      BY <1>3, <2>1, <2>3, <2>4, <2>5, <2>6, <3>1
    <3>3. scan'[j].at = "hash" /\ job'[j].status # "COMPLETED"
      BY <2>2, <2>4, <2>8
    <3> QED BY <2>4, <2>7, <3>1, <3>2, <3>3 DEF ReportFollows
  <2> QED BY <2>9, <2>10, <2>11 DEF JobFollows
<1>9. CASE EnqueueDiscoveredFile(j)
  <2> DEFINE c == scan[j].file
  <2>1. /\ scan[j].at = "enqueue" /\ j \notin DryRuns /\ UNCHANGED job
        /\ handler' = [handler EXCEPT ![<<j, c>>].at = "queued"]
    BY <1>2, <1>9 DEF EnqueueDiscoveredFile, StatusFollows
  <2>2. scan'[j].at = "files" /\ scan'[j].todo = scan[j].todo
    BY <1>1, <1>9 DEF EnqueueDiscoveredFile, Scan
  <2>3. Current(j) = {c} /\ c \in FolderFiles(j) /\ c \in Files
    BY <1>2, <1>3, <2>1 DEF Current, StatusFollows
  <2>4. Current(j)' = {} /\ Treated(j)' \subseteq Treated(j) \cup {c}
    <3>1. Current(j)' = {}
      BY <2>2 DEF Current
    <3> QED BY <1>3, <2>2, <2>3, <3>1 DEF Treated
  <2>5. /\ handler'[<<j, c>>].at # "idle"
        /\ \A f \in Files : handler[<<j, f>>].at # "idle" => handler'[<<j, f>>].at # "idle"
    <3>1. <<j, c>> \in Rows /\ handler[<<j, c>>] \in Handler
      BY <1>1, <1>3, <2>3
    <3>2. handler'[<<j, c>>].at = "queued"
      BY <1>1, <2>1, <3>1 DEF Handler
    <3>3. \A f \in Files : f # c => handler'[<<j, f>>] = handler[<<j, f>>]
      BY <1>1, <1>3, <2>1
    <3> QED BY <3>2, <3>3
  <2>6. StatusFollows(j)'
    BY <1>2, <1>3, <2>1, <2>2, <2>4 DEF StatusFollows, Running
  <2>7. QueueFollows(j)'
    <3>1. Treated(j) \subseteq Files
      BY <1>3 DEF Treated
    <3>2. \A f \in Files : ~ Unqueued(j, f)'
      <4>1. file' = file
        BY <1>9 DEF EnqueueDiscoveredFile, rows
      <4>2. \A f \in Files : Unqueued(j, f) => f = c
        BY <1>2 DEF QueueFollows
      <4> QED BY <2>5, <4>1, <4>2 DEF Unqueued
    <3> QED BY <1>2, <1>3, <2>1, <2>4, <2>5, <3>1, <3>2 DEF QueueFollows
  <2>8. ReportFollows(j)'
    BY <2>1 DEF ReportFollows
  <2> QED BY <2>6, <2>7, <2>8 DEF JobFollows
<1>10. CASE DryRunFile(j) \/ DryRunAttach(j) \/ DryRunFileFails(j)
  <2> DEFINE r == <<j, scan[j].file>>
  <2>1. /\ scan[j].at \in {"hash", "attach"} /\ j \in DryRuns /\ UNCHANGED <<job, handler>>
        /\ file[r] # "none"
    BY <1>2, <1>10 DEF DryRunFile, DryRunAttach, DryRunFileFails, AttachToExistingAsset,
       StatusFollows
  <2>2. SameMessages(j)
    BY <2>1 DEF SameMessages
  <2>3. CASE ~Exists(j)
    <3>1. ~Exists(j)' /\ job'[j] = job[j]
      BY <2>1, <2>3 DEF Exists
    <3>2. scan'[j].at \in {"files", "attach"} /\ scan'[j].todo = scan[j].todo
          /\ scan'[j].file = scan[j].file
      BY <1>1, <1>10 DEF DryRunFile, DryRunAttach, DryRunFileFails, Counted, Scan
    <3>3. Current(j)' \subseteq Current(j)
      BY <2>1, <3>2 DEF Current
    <3>4. StatusFollows(j)'
      BY <1>2, <1>3, <2>1, <2>3, <3>1, <3>2, <3>3 DEF StatusFollows, Running, Exists
    <3>5. QueueFollows(j)'
      BY <1>2, <1>3, <2>1, <3>1 DEF QueueFollows, Unqueued
    <3>6. ReportFollows(j)'
      BY <2>3, <3>1, <3>2 DEF ReportFollows, Exists
    <3> QED BY <3>4, <3>5, <3>6 DEF JobFollows
  <2>4. CASE Exists(j) /\ DryRunFile(j) /\ AssetOf(r) # None
    <3>1. UNCHANGED file /\ scan'[j] = [scan[j] EXCEPT !.at = "attach", !.found = AssetOf(r)]
      BY <1>1, <2>4 DEF DryRunFile
    <3>2. /\ scan'[j].at = "attach" /\ scan'[j].todo = scan[j].todo
          /\ scan'[j].file = scan[j].file /\ scan'[j].report = scan[j].report
      <4> HIDE DEF r
      <4> QED BY <1>1, <3>1 DEF Scan
    <3>3. Current(j)' = Current(j) /\ Treated(j)' = Treated(j)
      <4>1. Current(j)' = Current(j)
        BY <2>1, <3>2 DEF Current
      <4> QED BY <1>3, <3>2, <4>1 DEF Treated
    <3>4. \A s : Now(j, s)' = Now(j, s)
      BY <3>1, <3>3 DEF Now
    <3>5. StatusFollows(j)'
      BY <1>2, <1>3, <2>1, <3>2, <3>3 DEF StatusFollows, Running
    <3>6. QueueFollows(j)'
      BY <1>2, <1>3, <2>1 DEF QueueFollows, Unqueued
    <3>7. ReportFollows(j)'
      <4>1. job'[j].status # "COMPLETED" /\ (Exists(j)' <=> Exists(j))
        BY <1>2, <2>1 DEF StatusFollows, Exists
      <4> QED BY <1>2, <2>1, <2>4, <3>1, <3>2, <3>3, <3>4, <4>1 DEF ReportFollows
    <3> QED BY <3>5, <3>6, <3>7 DEF JobFollows
  <2>5. ASSUME Exists(j), \/ FileTreated(j, "duplicate", "COMPLETED")
                          \/ FileTreated(j, "failed", "FAILED")
                          \/ FileTreated(j, "expected", "DISCOVERED")
        PROVE  JobFollows(j)'
    <3> HIDE DEF r
    <3> QED BY <1>1, <2>1, <2>2, <2>5, OneMoreTreated
  <2>6. CASE Exists(j) /\ DryRunFile(j) /\ AssetOf(r) = None
    <3>1. FileTreated(j, "expected", "DISCOVERED")
      BY <1>1, <2>1, <2>6 DEF DryRunFile, FileTreated
    <3> QED BY <2>5, <2>6, <3>1
  <2>7. CASE Exists(j) /\ DryRunAttach(j)
    <3>1. FileTreated(j, "duplicate", "COMPLETED")
      BY <2>7 DEF DryRunAttach, AttachToExistingAsset, FileTreated
    <3> QED BY <2>5, <2>7, <3>1
  <2>8. CASE Exists(j) /\ DryRunFileFails(j)
    <3>1. FileTreated(j, "failed", "FAILED")
      BY <2>8 DEF DryRunFileFails, FileTreated
    <3> QED BY <2>5, <2>8, <3>1
  <2> QED BY <1>10, <2>3, <2>4, <2>6, <2>7, <2>8
<1>11. CASE FinishDiscovery(j)
  <2>1. /\ scan[j].at = "files" /\ scan[j].todo = {} /\ Exists(j) /\ UNCHANGED <<file, handler>>
        /\ job'[j] = [status |-> IF j \in DryRuns THEN "COMPLETED" ELSE "PROCESSING",
                      report |-> scan[j].report]
        /\ scan'[j].at = "done"
    BY <1>1, <1>11 DEF FinishDiscovery, rows, Scan
  <2>2. Treated(j) = FolderFiles(j) /\ Current(j)' = {}
    BY <2>1 DEF Treated, Current
  <2>3. \A s : Now(j, s) = WithStatus(j, s)' /\ Now(j, s) = WithStatus(j, s)
    BY <2>1, <2>2 DEF Now, WithStatus, FolderFiles
  <2>4. StatusFollows(j)'
    BY <1>2, <2>1, <2>2 DEF StatusFollows, Running
  <2>5. QueueFollows(j)'
    BY <1>2, <1>3, <2>1, <2>2 DEF QueueFollows, Unqueued
  <2>6. ReportFollows(j)'
    BY <1>2, <2>1, <2>3 DEF ReportFollows
  <2> QED BY <2>4, <2>5, <2>6 DEF JobFollows
<1> QED BY <1>4, <1>5, <1>6, <1>7, <1>8, <1>9, <1>10, <1>11 DEF Discovery

\* A step of another job's discovery does not touch this one's rows.
LEMMA OtherDiscoveriesKeep ==
    ASSUME IInv, NEW j \in Jobs, JobFollows(j), NEW i \in Jobs, i # j, CreateJob(i) \/ Discovery(i)
    PROVE  JobFollows(j)'
<1>1. /\ scan \in [Jobs -> Scan] /\ job \in [Jobs -> Job]
      /\ handler \in [Rows -> Handler] /\ file \in [Rows -> FileStates]
      /\ \A f \in Files : <<j, f>> \in Rows
  BY DEF IInv, TypeOK, Rows
<1>2. scan'[j] = scan[j] /\ job'[j] = job[j]
  BY <1>1 DEF CreateJob, Discovery, StartJobDiscovery, StartFails, ListFiles, UpsertFile,
     EnqueueDiscoveredFile, DryRunFile, DryRunAttach, DryRunFileFails, FinishDiscovery,
     DiscoveryFails, WriteFailed, WriteFailedThrows, Counted, SetJob
<1>3. SameMessages(j)
  BY <1>1 DEF CreateJob, Discovery, StartJobDiscovery, StartFails, ListFiles, UpsertFile,
     EnqueueDiscoveredFile, DryRunFile, DryRunAttach, DryRunFileFails, FinishDiscovery,
     DiscoveryFails, WriteFailed, WriteFailedThrows, SameMessages
<1>4. SameFiles(j)
  BY <1>1 DEF CreateJob, Discovery, StartJobDiscovery, StartFails, ListFiles, UpsertFile,
     EnqueueDiscoveredFile, DryRunFile, DryRunAttach, DryRunFileFails, FinishDiscovery,
     DiscoveryFails, WriteFailed, WriteFailedThrows, AttachToExistingAsset, SameFiles, rows
<1> QED BY <1>2, <1>3, <1>4, OthersKeep

\* Handlers leave dry runs alone, which have queued nothing.
LEMMA HandlersKeep ==
    ASSUME IInv, NEW j \in Jobs, JobFollows(j), NEW r \in Rows, Handle(r)
    PROVE  JobFollows(j)'
<1>1. /\ handler \in [Rows -> Handler] /\ handler[r] \in Handler /\ file \in [Rows -> FileStates]
      /\ \A f \in Files : <<j, f>> \in Rows
  BY DEF IInv, TypeOK, Rows
<1>2. UNCHANGED <<job, scan>> /\ handler[r].at # "idle"
  BY DEF Handle, FindDuplicate, AttachDuplicate, CreateAsset, CompleteFile, HandlerFails
<1>3. handler'[r].at # "idle" /\ \A q \in Rows \ {r} : handler'[q] = handler[q]
  BY <1>1, <1>2 DEF Handle, FindDuplicate, AttachDuplicate, CreateAsset, CompleteFile, HandlerFails,
     Handler
<1>4. \A q \in Rows \ {r} : file'[q] = file[q]
  BY <1>1 DEF Handle, FindDuplicate, AttachDuplicate, CreateAsset, CompleteFile, HandlerFails,
     AttachToExistingAsset, rows
<1>5. j \in DryRuns => \A f \in Files : r # <<j, f>>
  BY <1>2 DEF JobFollows, QueueFollows
<1>6. file'[r] # "none" => file[r] # "none"
  BY <1>1 DEF Handle, FindDuplicate, AttachDuplicate, CreateAsset, CompleteFile, HandlerFails,
     AttachToExistingAsset, rows
<1>7. SameMessages(j)
  BY <1>1, <1>2, <1>3 DEF SameMessages
<1>8. SameFiles(j)
  BY <1>1, <1>4, <1>5, <1>6 DEF SameFiles
<1> QED BY <1>2, <1>7, <1>8, OthersKeep

\* A cleanup deletes a job with its files or leaves both.
LEMMA CleanupsKeep ==
    ASSUME IInv, NEW j \in Jobs, JobFollows(j), NEW k \in Cleaners, CleanupByFolder(k)
    PROVE  JobFollows(j)'
<1>1. /\ job \in [Jobs -> Job] /\ \A f \in Files : <<j, f>> \in Rows /\ <<j, f>>[1] = j
  BY DEF IInv, TypeOK, Rows
<1>2. UNCHANGED <<scan, handler>>
  BY DEF CleanupByFolder, FindJobs, FindCandidates, SkipShared, DeleteFolder
<1>3. SameMessages(j)
  BY <1>2 DEF SameMessages
<1>4. CASE FindJobs(k) \/ FindCandidates(k) \/ SkipShared(k)
  <2>1. UNCHANGED <<job, file>>
    BY <1>4 DEF FindJobs, FindCandidates, SkipShared, rows
  <2> QED BY <1>2, <1>3, <2>1, OthersKeep DEF SameFiles
<1>5. CASE DeleteFolder(k)
  <2> DEFINE jobs == IF cleaner[k].deleteJobs THEN cleaner[k].jobs ELSE {}
  <2>1. /\ file' = [r \in Rows |-> IF r[1] \in jobs THEN "none" ELSE file[r]]
        /\ job' = [i \in Jobs |-> IF i \in jobs THEN [job[i] EXCEPT !.status = "deleted"] ELSE job[i]]
    BY <1>5 DEF DeleteFolder
  <2> HIDE DEF jobs
  <2>2. CASE j \in jobs
    <3>1. job'[j].status = "deleted" /\ \A f \in Files : file'[<<j, f>>] = "none"
      BY <1>1, <2>1, <2>2 DEF Job
    <3> QED BY <1>2, <1>3, <3>1, DeletionKeeps
  <2>3. CASE j \notin jobs
    <3>1. job'[j] = job[j] /\ SameFiles(j)
      BY <1>1, <2>1, <2>3 DEF SameFiles
    <3> QED BY <1>2, <1>3, <3>1, OthersKeep
  <2> QED BY <2>2, <2>3
<1> QED BY <1>4, <1>5 DEF CleanupByFolder

\* A restart loses the discoveries that run, and no message.
LEMMA RestartKeeps ==
    ASSUME IInv, NEW j \in Jobs, JobFollows(j), Crash
    PROVE  JobFollows(j)'
<1>1. /\ scan \in [Jobs -> Scan] /\ handler \in [Rows -> Handler]
      /\ \A f \in Files : <<j, f>> \in Rows
  BY DEF IInv, TypeOK, Rows
<1>2. UNCHANGED <<job, file>>
  BY <1>1 DEF Crash, rows
<1>3. SameMessages(j) /\ SameFiles(j)
  BY <1>1, <1>2 DEF Crash, SameMessages, SameFiles
<1>4. CASE scan[j].at \notin Running \cup {"start"}
  <2>1. scan'[j] = scan[j]
    BY <1>1, <1>4 DEF Crash
  <2> QED BY <1>2, <1>3, <2>1, OthersKeep
<1>5. CASE scan[j].at \in Running \cup {"start"}
  <2>1. scan'[j].at = "lost" /\ scan'[j].file = scan[j].file
    BY <1>1, <1>5 DEF Crash, Scan
  <2>2. job[j].status \in {"CREATED", "SCANNING", "deleted"}
    BY <1>5 DEF JobFollows, StatusFollows, Running
  <2>3. StopsAs(j, scan'[j].at) /\ job'[j].status # "none"
    BY <1>2, <2>1, <2>2 DEF StopsAs
  <2> QED BY <1>3, <2>1, <2>3, StopKeeps
<1> QED BY <1>4, <1>5

\* No job has begun in the beginning.
LEMMA InitJInv == Init => JInv
<1> SUFFICES ASSUME Init, NEW j \in Jobs PROVE JobFollows(j)
  BY DEF JInv
<1>1. /\ job[j].status = "none" /\ scan[j].at = "idle" /\ scan[j].report = NoReport
      /\ \A f \in Files : handler[<<j, f>>].at = "idle" /\ file[<<j, f>>] = "none"
  BY DEF Init, Rows
<1>2. FolderFiles(j) \subseteq Files
  BY FoldersAreFinite
<1> QED BY <1>1, <1>2 DEF JobFollows, StatusFollows, QueueFollows, Unqueued, ReportFollows, Current,
   Exists, Running

\* Every step keeps what is known of the jobs.
LEMMA StepJInv == IInv /\ JInv /\ [Next]_vars => JInv'
<1> SUFFICES ASSUME IInv, JInv, [Next]_vars, NEW j \in Jobs PROVE JobFollows(j)'
  BY DEF JInv
<1>1. JobFollows(j)
  BY DEF JInv
<1>2. CASE UNCHANGED vars
  BY <1>1, <1>2, OthersKeep DEF vars, rows, SameMessages, SameFiles
<1>3. ASSUME NEW i \in Jobs, CreateJob(i) \/ Discovery(i) PROVE JobFollows(j)'
  BY <1>1, <1>3, OwnStepKeeps, OtherDiscoveriesKeep
<1>4. ASSUME NEW r \in Rows, Handle(r) PROVE JobFollows(j)'
  BY <1>1, <1>4, HandlersKeep
<1>5. ASSUME NEW k \in Cleaners, CleanupByFolder(k) PROVE JobFollows(j)'
  BY <1>1, <1>5, CleanupsKeep
<1>6. CASE Crash
  BY <1>1, <1>6, RestartKeeps
<1> QED BY <1>2, <1>3, <1>4, <1>5, <1>6 DEF Next

\* Whatever fails, restarts or is cleaned up under it: the discovery of a
\* SCANNING job runs, unless a restart has interrupted it or its own update to
\* FAILED has thrown; the discovery of a job that has said how it went is over;
\* a PROCESSING job has queued every file of its folder, and any full job every
\* file it has written down, but for at most the one it has stopped at; and what
\* a completed dry run reports is what it has left in the database.
THEOREM JobsAlwaysTellTheTruth == Spec => []JobsTellTheTruth
<1>1. Init => JInv
  BY InitJInv
<1>2. IInv /\ JInv /\ [Next]_vars => JInv'
  BY StepJInv
<1>3. ASSUME JInv PROVE JobsTellTheTruth
  <2>1. ScanningMeansRunning /\ EndMeansStopped
    BY <1>3 DEF JInv, JobFollows, StatusFollows, ScanningMeansRunning, EndMeansStopped
  <2>2. ProcessingMeansQueued
    BY <1>3 DEF JInv, JobFollows, QueueFollows, FolderFiles, ProcessingMeansQueued
  <2>3. DryRunReportIsTrue
    BY <1>3, JobsAssumption DEF JInv, JobFollows, ReportFollows, DryRunReportIsTrue
  <2>4. RowsAreQueued
    BY <1>3 DEF JInv, JobFollows, QueueFollows, Unqueued, RowsAreQueued
  <2> QED BY <2>1, <2>2, <2>3, <2>4 DEF JobsTellTheTruth
<1> QED BY <1>1, <1>2, <1>3, FolderInvariance, PTL DEF Spec
=============================================================================
