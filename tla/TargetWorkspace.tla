--------------------------- MODULE TargetWorkspace ---------------------------
(***************************************************************************)
(* The target workspace: uploads are stored under their names, one of them *)
(* is extracted into the one target directory, and a file inside that      *)
(* directory records what was selected.  Every request works on the same   *)
(* directory in several awaited steps and no lock is held, so requests     *)
(* interleave; any of them may fail and the server may stop between two    *)
(* steps.  A directory is removed one file after the other, its record     *)
(* like any file, and the record is emptied before it is written.  An      *)
(* archive is two files, told apart by the upload they came with; it is    *)
(* stored in one step here.                                                *)
(***************************************************************************)
EXTENDS Naturals, FiniteSets

CONSTANTS Uploads,         \* names archives are uploaded under
          Requests,        \* requests the server may be working on at once
          MaxVersions,     \* bound: uploads under one name
          MaxSelections    \* bound: requests to select a target

VARIABLES archive,     \* [Uploads -> how often the name was uploaded, 0 for never]
          tree,        \* the files of the target directory, or Gone
          info,        \* target-workspace.info, or Unselected
          request,     \* [Requests -> what the request is doing]
          selections,  \* requests so far
          overlap,     \* history: since it was last cleared, two requests worked on
                       \* the directory at once, or an archive was replaced meanwhile
          halved       \* history: a removal of the directory was begun and not completed

targetVars == <<archive, tree, info, request, selections, overlap, halved>>

Gone == {[name |-> "no directory", version |-> 0, part |-> 0]}
Unselected == [source |-> "none", name |-> "none", files |-> {}]
Emptied == [source |-> "emptied", name |-> "none", files |-> {}]
Resting == [at |-> "idle", name |-> "none", files |-> {}]

FilesOf(n, v) == {[name |-> n, version |-> v, part |-> k] : k \in 1..2}

TargetInit ==
    /\ archive = [n \in Uploads |-> 0]
    /\ tree = Gone
    /\ info = Unselected
    /\ request = [q \in Requests |-> Resting]
    /\ selections = 0
    /\ overlap = FALSE /\ halved = FALSE

Others(q) == \E p \in Requests \ {q} : request[p].at # "idle"
Step(q, at) == request' = [request EXCEPT ![q].at = at]
Rest(q) == request' = [request EXCEPT ![q] = Resting]

\* POST /api/workspace/upload writes the archive over an older one of the name.
Upload(n) ==
    /\ archive[n] < MaxVersions
    /\ archive' = [archive EXCEPT ![n] = @ + 1]
    /\ overlap' = (overlap \/ \E q \in Requests : request[q].at # "idle")
    /\ UNCHANGED <<tree, info, request, selections, halved>>

\* materializeUpload, once the archive was found.
Materialize(q, n) ==
    /\ request[q].at = "idle" /\ selections < MaxSelections
    /\ archive[n] > 0
    /\ request' = [request EXCEPT ![q] = [at |-> "clear", name |-> n, files |-> {}]]
    /\ selections' = selections + 1
    /\ overlap' = (overlap \/ Others(q))
    /\ UNCHANGED <<archive, tree, info, halved>>

\* selectExisting measures another directory, which the requests leave alone.
SelectExisting(q) ==
    /\ request[q].at = "idle" /\ selections < MaxSelections
    /\ request' = [request EXCEPT ![q] = [at |-> "existing", name |-> "none", files |-> {}]]
    /\ selections' = selections + 1
    /\ overlap' = (overlap \/ Others(q))
    /\ UNCHANGED <<archive, tree, info, halved>>

\* rm takes one file of the directory away, in whatever order.
RemoveFile(q) ==
    /\ request[q].at \in {"clear", "undo"}
    /\ tree # Gone
    /\ \/ \E f \in tree : tree' = tree \ {f} /\ UNCHANGED info
       \/ info # Unselected /\ info' = Unselected /\ UNCHANGED tree
    /\ halved' = TRUE
    /\ UNCHANGED <<archive, request, selections, overlap>>

\* Mutant: a removal that stopped half way counts as one that was completed.
RemovedHalf(q) ==
    /\ request[q].at = "clear"
    /\ overlap' = Others(q)
    /\ Step(q, "make")
    /\ UNCHANGED <<archive, tree, info, selections, halved>>

\* rm has emptied the directory and removes it.
Removed(q) ==
    /\ request[q].at \in {"clear", "undo"}
    /\ tree \in {Gone, {}} /\ info = Unselected
    /\ tree' = Gone /\ halved' = FALSE
    /\ overlap' = Others(q)
    /\ IF request[q].at = "clear" THEN Step(q, "make") ELSE Rest(q)
    /\ UNCHANGED <<archive, info, selections>>

Make(q) ==
    /\ request[q].at = "make"
    /\ tree' = IF tree = Gone THEN {} ELSE tree
    /\ Step(q, "part1")
    /\ UNCHANGED <<archive, info, selections, overlap, halved>>

\* tar extracts one file after the other of what is under the name by now.
Extract(q, k) ==
    LET n == request[q].name IN
    /\ request[q].at = IF k = 1 THEN "part1" ELSE "part2"
    /\ tree # Gone
    /\ tree' = tree \cup {[name |-> n, version |-> archive[n], part |-> k]}
    /\ Step(q, IF k = 1 THEN "part2" ELSE "walk")
    /\ UNCHANGED <<archive, info, selections, overlap, halved>>

\* tar fails, for a broken archive or because the directory is gone: the
\* directory is to be removed, whoever filled it.
ExtractFails(q) ==
    /\ request[q].at \in {"part1", "part2"}
    /\ Step(q, "undo")
    /\ UNCHANGED <<archive, tree, info, selections, overlap, halved>>

\* treeStats: the files that are there by now; an empty directory is removed.
Walk(q) ==
    /\ request[q].at = "walk" /\ tree # Gone
    /\ IF tree = {} /\ info = Unselected THEN Step(q, "undo")
       ELSE request' = [request EXCEPT ![q].at = "digest", ![q].files = tree]
    /\ UNCHANGED <<archive, tree, info, selections, overlap, halved>>

\* digestTree reads every file it was given.
Digest(q) ==
    /\ request[q].at = "digest"
    /\ tree # Gone /\ request[q].files \subseteq tree
    /\ Step(q, "record")
    /\ UNCHANGED <<archive, tree, info, selections, overlap, halved>>

\* writeInfo makes the directory if it has to and opens the record, emptying it.
OpenInfo(q) ==
    /\ request[q].at \in {"record", "existing"}
    /\ tree' = IF tree = Gone THEN {} ELSE tree
    /\ info' = Emptied
    /\ Step(q, IF request[q].at = "record" THEN "writeRecord" ELSE "writeExisting")
    /\ UNCHANGED <<archive, selections, overlap, halved>>

\* The record is written; one that was removed since it was opened stays away.
WriteInfo(q) ==
    /\ request[q].at \in {"writeRecord", "writeExisting"}
    /\ info' = IF info = Unselected THEN info
               ELSE [source |-> IF request[q].at = "writeRecord" THEN "upload"
                                ELSE "workspace-root",
                     name |-> request[q].name, files |-> request[q].files]
    /\ Rest(q)
    /\ UNCHANGED <<archive, tree, selections, overlap, halved>>

\* rm, mkdir, treeStats, digestTree or writeFile rejects: so does the request, and
\* what it has done so far stays as it is.
RequestFails(q) ==
    /\ request[q].at \notin {"idle", "part1", "part2", "orphan"}
    /\ Rest(q)
    /\ UNCHANGED <<archive, tree, info, selections, overlap, halved>>

\* The server stops; what is on disk stays as it is, and a tar it started may
\* outlive it.
StopServer ==
    /\ \E q \in Requests : request[q].at # "idle"
    /\ \E S \in SUBSET {q \in Requests : request[q].at = "part2"} :
        request' = [q \in Requests |->
                      IF q \in S THEN [request[q] EXCEPT !.at = "orphan"] ELSE Resting]
    /\ UNCHANGED <<archive, tree, info, selections, overlap, halved>>

\* The tar left behind writes its last file, if the directory is still there.
OrphanEnds(q) ==
    LET n == request[q].name IN
    /\ request[q].at = "orphan"
    /\ tree' = IF tree = Gone THEN tree
               ELSE tree \cup {[name |-> n, version |-> archive[n], part |-> 2]}
    /\ Rest(q)
    /\ UNCHANGED <<archive, info, selections, overlap, halved>>

TargetNext ==
    \/ \E n \in Uploads : Upload(n)
    \/ \E q \in Requests :
        \/ \E n \in Uploads : Materialize(q, n)
        \/ SelectExisting(q) \/ RemoveFile(q) \/ Removed(q) \/ Make(q)
        \/ \E k \in 1..2 : Extract(q, k)
        \/ ExtractFails(q) \/ Walk(q) \/ Digest(q) \/ OpenInfo(q) \/ WriteInfo(q)
        \/ RequestFails(q) \/ OrphanEnds(q)
    \/ StopServer

TargetSpec == TargetInit /\ [][TargetNext]_targetVars

-----------------------------------------------------------------------------
(* The record of an extracted upload names the files of one archive of that *)
(* name, and beside it lies nothing else: never a mixture of two archives,  *)
(* and no file is missing unless a removal of the directory was begun and   *)
(* not completed, by a failure or a crash or because it is still running;   *)
(* as long as requests did not overlap (materializeUpload clears before and *)
(* records last).                                                           *)
RecordDescribesTree ==
    info.source = "upload" /\ ~overlap =>
        /\ \E v \in 1..archive[info.name] : info.files = FilesOf(info.name, v)
        /\ tree \subseteq info.files
        /\ ~halved => tree = info.files
=============================================================================
