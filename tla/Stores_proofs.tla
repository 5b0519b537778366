---------------------------- MODULE Stores_proofs ----------------------------
(***************************************************************************)
(* Machine-checked proofs about the stores of a run, for every number of   *)
(* calls, processes, uploads and requests.                                 *)
(***************************************************************************)
EXTENDS RunStore, ArtifactStore, TaskAudit, TargetWorkspace, SequenceTheorems,
        FiniteSetTheorems, TLAPS

-----------------------------------------------------------------------------
(* The artifact store. *)

Places == {"idle", "opened", "written", "done"}
Ops == {"none", "create", "save", "load", "remove"}
Verdicts == {"none", "created", "present", "saved", "rejected", "loaded", "unparsable",
             "removed"}

CallRecords == [at : Places, op : Ops, pid : Pids \cup {Missing},
                fd : ArtCalls \cup {Missing}, result : Verdicts]

ArtTypeOK ==
    /\ node \in [ArtCalls -> ArtCalls \cup {Missing, Empty}]
    /\ temp \in [Pids -> ArtCalls \cup {Missing}]
    /\ named \in [{"immutable", "plain"} -> ArtCalls \cup {Missing}]
    /\ art \in [ArtCalls -> CallRecords]
    /\ shared \in BOOLEAN

\* What a call has done so far fits the place it is at.
CallInv ==
    \A c \in ArtCalls :
        /\ art[c].at = "idle" <=> art[c].op = "none"
        /\ art[c].at # "done" => art[c].result = "none"
        /\ art[c].at \in {"opened", "written"} =>
               /\ art[c].op \in {"create", "save"} /\ art[c].pid \in Pids
               /\ art[c].fd \in ArtCalls
               /\ art[art[c].fd].op = art[c].op
        /\ art[c].op = "create" => art[c].fd = c

\* Files made by create and files made by save never mix: a temporary name and the
\* plain name hold files of saves, the immutable name the file of the create that
\* was told so, and a create's file is whole once it is written.
FileInv ==
    /\ \A p \in Pids : temp[p] # Missing => art[temp[p]].op = "save"
    /\ named["plain"] # Missing => art[named["plain"]].op = "save"
    /\ \A c \in ArtCalls : art[c].op = "create" /\ art[c].at # "opened" => node[c] = c
    /\ \A c \in ArtCalls : art[c].result = "created" =>
           art[c].op = "create" /\ art[c].at = "done" /\ named["immutable"] = c

\* As long as no two saves of a process have used one file, every save has the
\* temporary name to itself until it publishes its whole file.
SoloInv ==
    shared \/
    /\ \A c \in ArtCalls : art[c].op = "save" =>
           /\ art[c].at \in {"opened", "written"} => art[c].fd = c /\ temp[art[c].pid] = c
           /\ art[c].at \in {"written", "done"} => node[c] = c
    /\ \A p \in Pids : temp[p] # Missing =>
           art[temp[p]].at \in {"opened", "written"} /\ art[temp[p]].pid = p
    /\ named["plain"] # Missing => art[named["plain"]].at = "done"
    /\ \A c \in ArtCalls : art[c].result \notin {"unparsable", "rejected"}

\* What is under the immutable name was created, so it is never half written.
ImmutableInv ==
    named["immutable"] # Missing => art[named["immutable"]].result = "created"

ArtInv == ArtTypeOK /\ CallInv /\ FileInv /\ SoloInv /\ ImmutableInv

\* load and remove answer in one step.
LEMMA OnlyRecord ==
    ASSUME NEW a \in CallRecords, NEW o \in Ops, NEW r \in Verdicts
    PROVE  [a EXCEPT !.at = "done", !.op = o, !.result = r] \in CallRecords
  BY DEF CallRecords, Places

\* An empty store satisfies the invariant.
LEMMA ArtInitInv ==
    ASSUME ArtInit
    PROVE  ArtInv
  <1>1. ArtTypeOK
    BY DEF ArtInit, ArtTypeOK, CallRecords, NewCall, Places, Ops, Verdicts
  <1>2. \A c \in ArtCalls : /\ art[c].at = "idle" /\ art[c].op = "none"
                             /\ art[c].result = "none"
    BY DEF ArtInit, NewCall
  <1>3. CallInv
    BY <1>2 DEF CallInv
  <1>4. FileInv /\ SoloInv /\ ImmutableInv
    BY <1>2 DEF ArtInit, FileInv, SoloInv, ImmutableInv
  <1> QED
    BY <1>1, <1>3, <1>4 DEF ArtInv

\* Every step of every call keeps it.
LEMMA ArtStep ==
    ASSUME ArtInv, ArtNext
    PROVE  ArtInv'
  <1> USE ArtAssumption DEF ArtInv, ArtTypeOK, CallRecords, Places, Ops, Verdicts
  <1>1. ASSUME NEW c \in ArtCalls, NEW p \in Pids, CreateOpen(c, p) PROVE ArtInv'
    <2>1. ArtTypeOK'
      BY <1>1 DEF CreateOpen
    <2>2. CallInv'
      BY <1>1 DEF CreateOpen, CallInv
    <2>3. FileInv'
      BY <1>1 DEF CreateOpen, CallInv, FileInv
    <2>4. SoloInv'
      BY <1>1 DEF CreateOpen, CallInv, FileInv, SoloInv
    <2>5. ImmutableInv'
      BY <1>1 DEF CreateOpen, CallInv, ImmutableInv
    <2> QED
      BY <2>1, <2>2, <2>3, <2>4, <2>5
  <1>2. ASSUME NEW c \in ArtCalls, NEW p \in Pids, SaveOpen(c, p) PROVE ArtInv'
    <2>1. ArtTypeOK'
      BY <1>2 DEF SaveOpen
    <2>2. CallInv'
      BY <1>2 DEF SaveOpen, CallInv, FileInv
    <2>3. FileInv'
      BY <1>2 DEF SaveOpen, CallInv, FileInv
    <2>4. SoloInv'
      <3>1. CASE shared \/ temp[p] # Missing
        BY <1>2, <3>1 DEF SaveOpen, SoloInv
      <3>2. CASE ~ shared /\ temp[p] = Missing
        <4>1. /\ art' = [art EXCEPT ![c] = [at |-> "opened", op |-> "save", pid |-> p,
                                            fd |-> c, result |-> "none"]]
              /\ temp' = [temp EXCEPT ![p] = c]
              /\ node' = [node EXCEPT ![c] = Empty]
              /\ art[c].op = "none" /\ UNCHANGED named
          BY <1>2, <3>2 DEF SaveOpen, CallInv
        <4>2. \A d \in ArtCalls : art'[d].op = "save" =>
                 /\ art'[d].at \in {"opened", "written"} => art'[d].fd = d /\ temp'[art'[d].pid] = d
                 /\ art'[d].at \in {"written", "done"} => node'[d] = d
          BY <3>2, <4>1 DEF CallInv, SoloInv
        <4>3. \A r \in Pids : temp'[r] # Missing =>
                 art'[temp'[r]].at \in {"opened", "written"} /\ art'[temp'[r]].pid = r
          BY <3>2, <4>1 DEF FileInv, SoloInv
        <4>4. named'["plain"] # Missing => art'[named'["plain"]].at = "done"
          BY <3>2, <4>1 DEF FileInv, SoloInv
        <4>5. \A d \in ArtCalls : art'[d].result \notin {"unparsable", "rejected"}
          BY <3>2, <4>1 DEF SoloInv
        <4> QED
          BY <4>2, <4>3, <4>4, <4>5 DEF SoloInv
      <3> QED
        BY <3>1, <3>2
    <2>5. ImmutableInv'
      BY <1>2 DEF SaveOpen, CallInv, ImmutableInv
    <2> QED
      BY <2>1, <2>2, <2>3, <2>4, <2>5
  <1>3. ASSUME NEW c \in ArtCalls, WriteTemp(c) PROVE ArtInv'
    <2>1. ArtTypeOK'
      BY <1>3 DEF WriteTemp, Go, CallInv
    <2>2. CallInv'
      BY <1>3 DEF WriteTemp, Go, CallInv
    <2>3. FileInv'
      BY <1>3 DEF WriteTemp, Go, CallInv, FileInv
    <2>4. SoloInv'
      BY <1>3 DEF WriteTemp, Go, CallInv, FileInv, SoloInv
    <2>5. ImmutableInv'
      BY <1>3 DEF WriteTemp, Go, CallInv, ImmutableInv
    <2> QED
      BY <2>1, <2>2, <2>3, <2>4, <2>5
  <1>4. ASSUME NEW c \in ArtCalls, Link(c) PROVE ArtInv'
    <2>1. ArtTypeOK'
      BY <1>4 DEF Link, Result, CallInv
    <2>2. CallInv'
      BY <1>4 DEF Link, Result, CallInv
    <2>3. FileInv'
      BY <1>4 DEF Link, Result, CallInv, FileInv
    <2>4. SoloInv'
      BY <1>4 DEF Link, Result, CallInv, FileInv, SoloInv
    <2>5. ImmutableInv'
      BY <1>4 DEF Link, Result, CallInv, ImmutableInv
    <2> QED
      BY <2>1, <2>2, <2>3, <2>4, <2>5
  <1>5. ASSUME NEW c \in ArtCalls, Rename(c) PROVE ArtInv'
    <2>1. ArtTypeOK'
      BY <1>5 DEF Rename, Result, CallInv
    <2>2. CallInv'
      BY <1>5 DEF Rename, Result, CallInv
    <2>3. FileInv'
      BY <1>5 DEF Rename, Result, CallInv, FileInv
    <2>4. SoloInv'
      BY <1>5 DEF Rename, Result, CallInv, FileInv, SoloInv
    <2>5. ImmutableInv'
      BY <1>5 DEF Rename, Result, CallInv, ImmutableInv
    <2> QED
      BY <2>1, <2>2, <2>3, <2>4, <2>5
  <1>6. ASSUME NEW c \in ArtCalls, NEW n \in {"immutable", "plain"}, Load(c, n) PROVE ArtInv'
    <2>1. ArtTypeOK'
      <3> DEFINE v == IF named[n] = Missing THEN Missing ELSE node[named[n]]
                 r == IF v = Empty THEN "unparsable" ELSE "loaded"
                 one == [art[c] EXCEPT !.at = "done", !.op = "load", !.result = r]
      <3>1. art' = [art EXCEPT ![c] = one] /\ UNCHANGED <<node, temp, named, shared>>
        BY <1>6 DEF Load
      <3>2. art[c] \in CallRecords /\ "load" \in Ops /\ r \in Verdicts
        OBVIOUS
      <3> HIDE DEF r, CallRecords, Ops, Verdicts
      <3>3. one \in CallRecords
        BY <3>2, OnlyRecord
      <3> HIDE DEF one
      <3> QED
        BY <3>1, <3>3
    <2>2. CallInv'
      BY <1>6 DEF Load, CallInv
    <2>3. FileInv'
      BY <1>6 DEF Load, CallInv, FileInv
    <2>4. SoloInv'
      BY <1>6 DEF Load, CallInv, FileInv, SoloInv, ImmutableInv, Empty, Missing
    <2>5. ImmutableInv'
      BY <1>6 DEF Load, CallInv, ImmutableInv
    <2> QED
      BY <2>1, <2>2, <2>3, <2>4, <2>5
  <1>7. ASSUME NEW c \in ArtCalls, Remove(c) PROVE ArtInv'
    <2>1. ArtTypeOK'
      <3>1. art' = [art EXCEPT ![c] = [@ EXCEPT !.at = "done", !.op = "remove",
                                                !.result = "removed"]]
        BY <1>7 DEF Remove
      <3> QED
        BY <1>7, <3>1 DEF Remove
    <2>2. CallInv'
      BY <1>7 DEF Remove, CallInv
    <2>3. FileInv'
      BY <1>7 DEF Remove, CallInv, FileInv
    <2>4. SoloInv'
      BY <1>7 DEF Remove, CallInv, FileInv, SoloInv
    <2>5. ImmutableInv'
      BY <1>7 DEF Remove, CallInv, ImmutableInv
    <2> QED
      BY <2>1, <2>2, <2>3, <2>4, <2>5
  <1> QED
    BY <1>1, <1>2, <1>3, <1>4, <1>5, <1>6, <1>7 DEF ArtNext

\* Whatever the interleaving of any number of calls in any number of processes, an
\* immutable artifact is the whole value of the one create that was told so, and
\* saves that do not share a temporary file are read whole (artifact-store.ts).
THEOREM Artifacts == ArtSpec => []ArtifactsWhole
  <1>1. ArtInv /\ [ArtNext]_artVars => ArtInv'
    BY ArtStep DEF artVars, ArtInv, ArtTypeOK, CallInv, FileInv, SoloInv, ImmutableInv
  <1>2. ArtInv => ArtifactsWhole
    BY DEF ArtInv, FileInv, SoloInv, ArtifactsWhole, CreatedOnce, SavedWhole
  <1> QED
    BY <1>1, <1>2, ArtInitInv, PTL DEF ArtSpec

-----------------------------------------------------------------------------
(* The target workspace. *)

Filling == {"clear", "undo", "make", "part1", "part2", "walk", "digest", "record",
            "writeRecord", "orphan"}
Steps == Filling \cup {"idle", "existing", "writeExisting"}

File(n, v, k) == [name |-> n, version |-> v, part |-> k]
FileRecords == [name : Uploads \cup {"no directory"}, version : Nat, part : 0..2]
Requested == [at : Steps, name : Uploads \cup {"none"}, files : SUBSET FileRecords]
Infos == [source : {"none", "emptied", "upload", "workspace-root"}, name : Uploads \cup {"none"},
          files : SUBSET FileRecords]

TargetTypeOK ==
    /\ archive \in [Uploads -> Nat]
    /\ tree \in SUBSET FileRecords
    /\ info \in Infos
    /\ request \in [Requests -> Requested]
    /\ overlap \in BOOLEAN /\ halved \in BOOLEAN

\* A request that extracts an archive works on one that was uploaded.
NamedInv ==
    /\ \A q \in Requests : request[q].at \in Filling =>
           request[q].name \in Uploads /\ archive[request[q].name] >= 1
    /\ info.source = "upload" => info.name \in Uploads

\* What the one busy request finds in the directory, unless another meddled.
Extracted(q) ==
    LET n == request[q].name
        at == request[q].at
        v == archive[n]
    IN /\ at \in Filling \ {"clear", "undo", "writeRecord"} => info = Unselected
       /\ at = "writeRecord" => info = Emptied
       /\ at = "make" => tree = Gone
       /\ at = "part1" => tree = {}
       /\ at \in {"part2", "orphan"} => tree = {File(n, v, 1)}
       /\ at \in {"walk", "digest", "record", "writeRecord"} =>
              tree = {File(n, v, 1), File(n, v, 2)}
       /\ at \in {"digest", "record", "writeRecord"} => request[q].files = tree

\* As long as requests have not overlapped since the directory was last cleared, one
\* request is busy at most, and the directory holds exactly what it has extracted.
AloneInv ==
    overlap \/
    /\ \A p, q \in Requests : request[p].at # "idle" /\ request[q].at # "idle" => p = q
    /\ \A q \in Requests : Extracted(q)

TargetInv == TargetTypeOK /\ NamedInv /\ AloneInv /\ RecordDescribesTree

\* Files of an upload, and the mark of a directory that is gone, which is neither
\* empty nor filled.
LEMMA FileFacts ==
    /\ \A n \in Uploads, v \in Nat, k \in 1..2 : File(n, v, k) \in FileRecords
    /\ Gone \in SUBSET FileRecords /\ Gone # {}
    /\ \A n \in Uploads, v \in Nat : /\ Gone # {File(n, v, 1)}
                                     /\ Gone # {File(n, v, 1), File(n, v, 2)}
                                     /\ FilesOf(n, v) = {File(n, v, 1), File(n, v, 2)}
  <1> DEFINE gone == [name |-> "no directory", version |-> 0, part |-> 0]
  <1>1. ASSUME NEW n \in Uploads, NEW v \in Nat, NEW k \in 1..2
        PROVE  File(n, v, k) \in FileRecords
    <2>1. k \in 0..2
      OBVIOUS
    <2> QED
      BY <2>1 DEF File, FileRecords
  <1>2. Gone \in SUBSET FileRecords /\ gone \in Gone
    BY DEF Gone, FileRecords
  <1>3. \A n \in Uploads, v \in Nat, k \in 1..2 : File(n, v, k).part = k
    BY DEF File
  <1>4. gone.part = 0
    OBVIOUS
  <1>5. \A n \in Uploads, v \in Nat : FilesOf(n, v) = {File(n, v, 1), File(n, v, 2)}
    BY DEF FilesOf, File
  <1>6. \A n \in Uploads, v \in Nat, k \in 1..2 : gone # File(n, v, k)
    <2> HIDE DEF gone
    <2> QED
      BY <1>3, <1>4
  <1> HIDE DEF gone
  <1> QED
    BY <1>1, <1>2, <1>5, <1>6

\* Nothing has been selected at first.
LEMMA TargetInitInv ==
    ASSUME TargetInit
    PROVE  TargetInv
  <1>1. TargetTypeOK
    BY FileFacts DEF TargetInit, TargetTypeOK, Requested, Infos, Steps, Resting, Unselected
  <1>2. NamedInv /\ AloneInv
    BY DEF TargetInit, NamedInv, AloneInv, Extracted, Filling, Resting, Unselected
  <1> QED
    BY <1>1, <1>2 DEF TargetInit, TargetInv, RecordDescribesTree, Unselected

\* Every step of every request keeps the types.
LEMMA TargetTypes ==
    ASSUME TargetTypeOK, NamedInv, TargetNext
    PROVE  TargetTypeOK' /\ NamedInv'
  <1> USE DEF TargetTypeOK, NamedInv, Requested, Steps, Filling
  <1>1. /\ Unselected \in Infos /\ Emptied \in Infos /\ Resting \in Requested
        /\ Unselected.source = "none" /\ Emptied.source = "emptied"
    BY DEF Unselected, Emptied, Infos, Resting
  <1>2. ASSUME NEW n \in Uploads, Upload(n) PROVE TargetTypeOK' /\ NamedInv'
    BY <1>2 DEF Upload
  <1>3. ASSUME NEW q \in Requests, NEW n \in Uploads, Materialize(q, n)
        PROVE  TargetTypeOK' /\ NamedInv'
    <2>1. [at |-> "clear", name |-> n, files |-> {}] \in Requested
      OBVIOUS
    <2> QED
      BY <1>3, <2>1 DEF Materialize, Others
  <1>4. ASSUME NEW q \in Requests, SelectExisting(q) PROVE TargetTypeOK' /\ NamedInv'
    BY <1>4 DEF SelectExisting, Others
  <1>5. ASSUME NEW q \in Requests, RemoveFile(q) \/ Removed(q) PROVE TargetTypeOK' /\ NamedInv'
    <2>1. CASE RemoveFile(q)
      BY <1>1, <2>1 DEF RemoveFile
    <2>2. CASE Removed(q)
      <3>1. /\ request' \in {[request EXCEPT ![q].at = "make"], [request EXCEPT ![q] = Resting]}
            /\ request[q].at \in Filling /\ tree' = Gone /\ info' = Unselected
            /\ overlap' \in BOOLEAN /\ halved' = FALSE /\ UNCHANGED archive
        BY <2>2 DEF Removed, Others, Step, Rest
      <3>2. request' \in [Requests -> Requested] /\ Gone \in SUBSET FileRecords
        BY <1>1, <3>1, FileFacts
      <3>3. NamedInv'
        BY <1>1, <3>1 DEF Resting
      <3> QED
        BY <1>1, <3>1, <3>2, <3>3
    <2> QED
      BY <1>5, <2>1, <2>2
  <1>6. ASSUME NEW q \in Requests, Make(q) PROVE TargetTypeOK' /\ NamedInv'
    BY <1>6 DEF Make, Step
  <1>7. ASSUME NEW q \in Requests, NEW k \in 1..2, Extract(q, k) PROVE TargetTypeOK' /\ NamedInv'
    <2> DEFINE n == request[q].name
    <2>1. /\ tree' = tree \cup {File(n, archive[n], k)} /\ n \in Uploads
          /\ UNCHANGED <<archive, info, overlap, halved>>
          /\ \E a \in {"part2", "walk"} : request' = [request EXCEPT ![q].at = a]
          /\ request[q].at \in {"part1", "part2"}
      BY <1>7 DEF Extract, Step, File
    <2>2. File(n, archive[n], k) \in FileRecords
      BY <2>1, FileFacts
    <2> QED
      BY <2>1, <2>2
  <1>8. ASSUME NEW q \in Requests, ExtractFails(q) PROVE TargetTypeOK' /\ NamedInv'
    BY <1>8 DEF ExtractFails, Step
  <1>9. ASSUME NEW q \in Requests, Walk(q) PROVE TargetTypeOK' /\ NamedInv'
    BY <1>9 DEF Walk, Step
  <1>10. ASSUME NEW q \in Requests, Digest(q) PROVE TargetTypeOK' /\ NamedInv'
    BY <1>10 DEF Digest, Step
  <1>11. ASSUME NEW q \in Requests, OpenInfo(q) \/ WriteInfo(q) PROVE TargetTypeOK' /\ NamedInv'
    <2>1. CASE OpenInfo(q)
      BY <1>1, <2>1 DEF OpenInfo, Step
    <2>2. CASE WriteInfo(q)
      <3>1. info' \in Infos /\ (info'.source = "upload" => info'.name \in Uploads)
        BY <2>2 DEF WriteInfo, Infos
      <3> QED
        BY <1>1, <2>2, <3>1 DEF WriteInfo, Rest, Resting
    <2> QED
      BY <1>11, <2>1, <2>2
  <1>12. ASSUME NEW q \in Requests, RequestFails(q) PROVE TargetTypeOK' /\ NamedInv'
    BY <1>1, <1>12 DEF RequestFails, Rest, Resting
  <1>13. ASSUME NEW q \in Requests, OrphanEnds(q) PROVE TargetTypeOK' /\ NamedInv'
    <2> DEFINE n == request[q].name
    <2>1. /\ tree' \in {tree, tree \cup {File(n, archive[n], 2)}} /\ n \in Uploads
          /\ UNCHANGED <<archive, info, overlap, halved>>
          /\ request' = [request EXCEPT ![q] = Resting]
      BY <1>13 DEF OrphanEnds, Rest, File
    <2>2. File(n, archive[n], 2) \in FileRecords
      BY <2>1, FileFacts
    <2> QED
      BY <1>1, <2>1, <2>2 DEF Resting
  <1>14. CASE StopServer
    <2>1. \A q \in Requests : \/ request'[q] = Resting
                              \/ /\ request[q].at = "part2"
                                 /\ request'[q] = [request[q] EXCEPT !.at = "orphan"]
      BY <1>14 DEF StopServer
    <2>2. request' \in [Requests -> Requested]
      <3>1. ASSUME NEW q \in Requests PROVE request'[q] \in Requested
        <4>1. request[q] \in Requested
          OBVIOUS
        <4>2. [request[q] EXCEPT !.at = "orphan"] \in Requested
          BY <4>1
        <4> QED
          BY <1>1, <2>1, <4>2
      <3>2. request' = [q \in Requests |-> request'[q]]
        BY <1>14 DEF StopServer
      <3> QED
        BY <3>1, <3>2
    <2> QED
      BY <1>14, <2>1, <2>2 DEF StopServer, Resting
  <1> QED
    BY <1>2, <1>3, <1>4, <1>5, <1>6, <1>7, <1>8, <1>9, <1>10, <1>11, <1>12, <1>13, <1>14
    DEF TargetNext

\* A request that stays alone finds what it has extracted itself.
LEMMA TargetAlone ==
    ASSUME TargetTypeOK, NamedInv, AloneInv, TargetNext
    PROVE  AloneInv'
  <1> USE DEF TargetTypeOK, Requested, Steps, Filling
  <1>1. ASSUME NEW n \in Uploads, Upload(n) PROVE AloneInv'
    BY <1>1 DEF Upload, AloneInv, Extracted
  <1>2. ASSUME NEW q \in Requests, NEW n \in Uploads, Materialize(q, n) PROVE AloneInv'
    BY <1>2 DEF Materialize, Others, AloneInv, Extracted
  <1>3. ASSUME NEW q \in Requests, SelectExisting(q) PROVE AloneInv'
    BY <1>3 DEF SelectExisting, Others, AloneInv, Extracted
  <1>4. ASSUME NEW q \in Requests, Removed(q) PROVE AloneInv'
    BY <1>4 DEF Removed, Others, Step, Rest, Resting, AloneInv, Extracted
  <1>5. ASSUME NEW q \in Requests, request[q].at # "idle", ~ overlap', overlap' = overlap,
               \A p \in Requests \ {q} : request'[p] = request[p],
               Extracted(q)'
        PROVE  AloneInv'
    <2>1. \A p \in Requests \ {q} : request[p].at = "idle"
      BY <1>5 DEF AloneInv
    <2>2. \A p \in Requests : Extracted(p)'
      BY <1>5, <2>1 DEF Extracted
    <2> QED
      BY <1>5, <2>1, <2>2 DEF AloneInv
  <1>6. ASSUME NEW q \in Requests, ~ overlap, request[q].at # "idle" PROVE Extracted(q)
    BY <1>6 DEF AloneInv
  <1>7. ASSUME NEW q \in Requests, Make(q) PROVE AloneInv'
    <2>1. CASE ~ overlap
      <3>1. Extracted(q)'
        BY <1>6, <1>7, <2>1 DEF Make, Step, Extracted
      <3> QED
        BY <1>5, <1>7, <2>1, <3>1 DEF Make, Step
    <2> QED
      BY <1>7, <2>1 DEF Make, AloneInv
  <1>8. ASSUME NEW q \in Requests, NEW k \in 1..2, Extract(q, k) PROVE AloneInv'
    <2>1. CASE ~ overlap
      <3> DEFINE n == request[q].name
      <3>1. tree' = tree \cup {File(n, archive[n], k)}
        BY <1>8 DEF Extract, File
      <3>2. Extracted(q)'
        BY <1>6, <1>8, <2>1, <3>1 DEF Extract, Step, Extracted
      <3> QED
        BY <1>5, <1>8, <2>1, <3>2 DEF Extract, Step
    <2> QED
      BY <1>8, <2>1 DEF Extract, AloneInv
  <1>9. ASSUME NEW q \in Requests, WriteInfo(q) \/ RequestFails(q) \/ OrphanEnds(q)
        PROVE AloneInv'
    <2>1. CASE ~ overlap
      <3>1. request' = [request EXCEPT ![q] = Resting] /\ request[q].at # "idle" /\ UNCHANGED overlap
        BY <1>9 DEF WriteInfo, RequestFails, OrphanEnds, Rest
      <3>2. Extracted(q)'
        BY <3>1 DEF Resting, Extracted
      <3> QED
        BY <1>5, <2>1, <3>1, <3>2
    <2> QED
      BY <1>9, <2>1 DEF WriteInfo, RequestFails, OrphanEnds, AloneInv
  <1>10. ASSUME NEW q \in Requests, Walk(q) PROVE AloneInv'
    <2>1. CASE ~ overlap
      <3>1. Extracted(q)'
        BY <1>6, <1>10, <2>1 DEF Walk, Step, Extracted
      <3> QED
        BY <1>5, <1>10, <2>1, <3>1 DEF Walk, Step
    <2> QED
      BY <1>10, <2>1 DEF Walk, AloneInv
  <1>11. ASSUME NEW q \in Requests, RemoveFile(q) \/ ExtractFails(q) \/ Digest(q) \/ OpenInfo(q)
        PROVE AloneInv'
    <2>1. CASE ~ overlap
      <3>1. CASE RemoveFile(q)
        BY <1>5, <1>6, <2>1, <3>1 DEF RemoveFile, Extracted
      <3>2. CASE ExtractFails(q)
        <4>1. Extracted(q)'
          BY <1>6, <2>1, <3>2 DEF ExtractFails, Step, Extracted
        <4> QED
          BY <1>5, <2>1, <3>2, <4>1 DEF ExtractFails, Step
      <3>3. CASE Digest(q)
        <4>1. Extracted(q)'
          BY <1>6, <2>1, <3>3 DEF Digest, Step, Extracted
        <4> QED
          BY <1>5, <2>1, <3>3, <4>1 DEF Digest, Step
      <3>4. CASE OpenInfo(q)
        <4> DEFINE n == request[q].name
        <4>1. request[q].at = "record" =>
                /\ tree = {File(n, archive[n], 1), File(n, archive[n], 2)}
                /\ request[q].files = tree /\ n \in Uploads /\ archive[n] \in Nat
          BY <1>6, <2>1, <3>4 DEF OpenInfo, NamedInv, Extracted
        <4>2. request[q].at = "record" => tree # Gone
          <5> HIDE DEF n
          <5> QED
            BY <4>1, FileFacts
        <4>3. Extracted(q)'
          BY <3>4, <4>1, <4>2 DEF OpenInfo, Step, Extracted
        <4> QED
          BY <1>5, <2>1, <3>4, <4>3 DEF OpenInfo, Step
      <3> QED
        BY <1>11, <3>1, <3>2, <3>3, <3>4
    <2> QED
      BY <1>11, <2>1 DEF RemoveFile, ExtractFails, Digest, OpenInfo, AloneInv
  <1>12. CASE StopServer
    <2>1. CASE ~ overlap
      <3>1. \A q \in Requests : \/ request'[q].at = "idle"
                                \/ /\ request[q].at = "part2" /\ request'[q].at = "orphan"
                                   /\ request'[q].name = request[q].name
        BY <1>12 DEF StopServer, Resting
      <3>2. \A q \in Requests : Extracted(q)'
        BY <1>12, <2>1, <3>1 DEF StopServer, AloneInv, Extracted
      <3> QED
        BY <2>1, <3>1, <3>2 DEF AloneInv
    <2> QED
      BY <1>12, <2>1 DEF StopServer, AloneInv
  <1> QED
    BY <1>1, <1>2, <1>3, <1>4, <1>7, <1>8, <1>9, <1>10, <1>11, <1>12 DEF TargetNext

\* The record is written last, over exactly what the request has extracted, and what
\* a removal takes away from beside it leaves no file of another archive.
LEMMA TargetRecord ==
    ASSUME TargetTypeOK, NamedInv, AloneInv, RecordDescribesTree, TargetNext
    PROVE  RecordDescribesTree'
  <1> USE DEF TargetTypeOK, Requested, Steps, Filling
  <1>1. ASSUME NEW n \in Uploads, Upload(n) PROVE RecordDescribesTree'
    <2> SUFFICES ASSUME info.source = "upload", ~ overlap
                 PROVE  RecordDescribesTree'
      BY <1>1 DEF Upload, RecordDescribesTree
    <2>1. PICK v \in 1..archive[info.name] : info.files = FilesOf(info.name, v)
      BY DEF RecordDescribesTree
    <2>2. archive'[info.name] \in Nat /\ archive'[info.name] >= archive[info.name]
      BY <1>1 DEF Upload, NamedInv
    <2>3. v \in 1..archive'[info.name]
      BY <2>1, <2>2 DEF NamedInv
    <2> QED
      BY <1>1, <2>1, <2>3 DEF Upload, RecordDescribesTree
  <1>2. ASSUME NEW q \in Requests, \/ \E n \in Uploads : Materialize(q, n)
                                   \/ SelectExisting(q) \/ ExtractFails(q) \/ Walk(q)
                                   \/ Digest(q) \/ RequestFails(q)
        PROVE  RecordDescribesTree'
    BY <1>2 DEF Materialize, SelectExisting, ExtractFails, Walk, Digest, RequestFails,
                RecordDescribesTree
  <1>3. ASSUME info' \in {Unselected, Emptied} PROVE RecordDescribesTree'
    BY <1>3 DEF Unselected, Emptied, RecordDescribesTree
  <1>4. ASSUME NEW q \in Requests, Removed(q) \/ OpenInfo(q) PROVE RecordDescribesTree'
    BY <1>3, <1>4 DEF Removed, OpenInfo
  <1>5. ASSUME NEW q \in Requests, \/ Make(q) \/ \E k \in 1..2 : Extract(q, k)
                                   \/ OrphanEnds(q)
        PROVE  RecordDescribesTree'
    <2>1. ~ overlap => info = Unselected
      BY <1>5 DEF Make, Extract, OrphanEnds, AloneInv, Extracted
    <2>2. overlap' = overlap /\ info' = info
      BY <1>5 DEF Make, Extract, OrphanEnds
    <2> QED
      BY <1>3, <2>1, <2>2 DEF RecordDescribesTree
  <1>6. ASSUME NEW q \in Requests, RemoveFile(q) PROVE RecordDescribesTree'
    <2>1. /\ info' \in {info, Unselected} /\ tree' \subseteq tree
          /\ halved' /\ UNCHANGED <<archive, overlap>>
      BY <1>6 DEF RemoveFile
    <2> QED
      BY <1>3, <2>1 DEF RecordDescribesTree
  <1>7. ASSUME NEW q \in Requests, WriteInfo(q) PROVE RecordDescribesTree'
    <2> DEFINE n == request[q].name
    <2>1. CASE request[q].at = "writeRecord" /\ ~ overlap
      <3>1. n \in Uploads /\ archive[n] \in Nat /\ archive[n] >= 1
        BY <2>1 DEF NamedInv
      <3>2. tree = {File(n, archive[n], 1), File(n, archive[n], 2)} /\ request[q].files = tree
        BY <2>1 DEF AloneInv, Extracted
      <3>3. tree = FilesOf(n, archive[n])
        BY <3>1, <3>2, FileFacts
      <3>4. /\ info' = Unselected \/ (info'.files = tree /\ info'.name = n)
            /\ UNCHANGED <<archive, tree>>
        BY <1>7, <2>1, <3>2 DEF WriteInfo
      <3>5. archive[n] \in 1..archive[n]
        BY <3>1
      <3> HIDE DEF n
      <3> QED
        BY <1>3, <3>3, <3>4, <3>5 DEF RecordDescribesTree
    <2>2. CASE request[q].at # "writeRecord"
      <3>1. info' = Unselected \/ info'.source = "workspace-root"
        BY <1>7, <2>2 DEF WriteInfo
      <3> QED
        BY <1>3, <3>1 DEF RecordDescribesTree
    <2>3. CASE overlap
      BY <1>7, <2>3 DEF WriteInfo, RecordDescribesTree
    <2> QED
      BY <2>1, <2>2, <2>3
  <1>8. CASE StopServer
    BY <1>8 DEF StopServer, RecordDescribesTree
  <1> QED
    BY <1>1, <1>2, <1>4, <1>5, <1>6, <1>7, <1>8 DEF TargetNext

\* With any number of requests, uploads, failures and server crashes, beside the record
\* of an extracted upload lie only files of that one archive, and all of them unless a
\* removal was begun and not completed, as long as requests did not overlap since the
\* directory was cleared (target-workspace.ts).
THEOREM TargetRecorded == TargetSpec => []RecordDescribesTree
  <1>1. TargetInit => TargetInv
    BY TargetInitInv
  <1>2. TargetInv /\ [TargetNext]_targetVars => TargetInv'
    <2>1. ASSUME TargetInv, UNCHANGED targetVars PROVE TargetInv'
      BY <2>1 DEF targetVars, TargetInv, TargetTypeOK, NamedInv, AloneInv, Extracted,
                  RecordDescribesTree
    <2> QED
      BY <2>1, TargetTypes, TargetAlone, TargetRecord DEF TargetInv
  <1>3. TargetInv => RecordDescribesTree
    BY DEF TargetInv
  <1> QED
    BY <1>1, <1>2, <1>3, PTL DEF TargetSpec

-----------------------------------------------------------------------------
(* The ordering audit. *)

Trails == Seq([processor : Canonical \cup {"Finalize"}, failed : BOOLEAN])

\* The fourteen processors and their places.
LEMMA CanonicalOrder ==
    /\ Len(CANONICAL_PROCESSORS) = 14
    /\ CANONICAL_PROCESSORS[1] = "Researcher" /\ CANONICAL_PROCESSORS[2] = "Planner"
    /\ CANONICAL_PROCESSORS[3] = "Refactor" /\ CANONICAL_PROCESSORS[4] = "GapAnalysis"
    /\ CANONICAL_PROCESSORS[5] = "Evaluation" /\ CANONICAL_PROCESSORS[6] = "SchemaValidation"
    /\ CANONICAL_PROCESSORS[7] = "FixtureValidation" /\ CANONICAL_PROCESSORS[8] = "GoalValidation"
    /\ CANONICAL_PROCESSORS[9] = "TripleValidation" /\ CANONICAL_PROCESSORS[10] = "Confirmed"
    /\ CANONICAL_PROCESSORS[11] = "CreateHash" /\ CANONICAL_PROCESSORS[12] = "Builder"
    /\ CANONICAL_PROCESSORS[13] = "Hash" /\ CANONICAL_PROCESSORS[14] = "Done"
  BY DEF CANONICAL_PROCESSORS

\* Every place belongs to one processor.
LEMMA CanonicalPlaces ==
    ASSUME NEW i \in 1..14
    PROVE  indexOf(CANONICAL_PROCESSORS[i]) = i
  <1>1. i \in {1, 2, 3, 4, 5, 6, 7, 8, 9, 10, 11, 12, 13, 14}
    OBVIOUS
  <1>2. \A j \in 1..14 : CANONICAL_PROCESSORS[j] = CANONICAL_PROCESSORS[i] => j = i
    <2> TAKE j \in 1..14
    <2>1. j \in {1, 2, 3, 4, 5, 6, 7, 8, 9, 10, 11, 12, 13, 14}
      OBVIOUS
    <2> QED
      BY <1>1, <2>1, CanonicalOrder
  <1>3. indexOf(CANONICAL_PROCESSORS[i]) = CHOOSE j \in 1..14 : CANONICAL_PROCESSORS[j] = CANONICAL_PROCESSORS[i]
    BY CanonicalOrder DEF indexOf
  <1> QED
    BY <1>2, <1>3

\* The places by name, and the canonical processors.
LEMMA PlaceFacts ==
    /\ Canonical = {"Researcher", "Planner", "Refactor", "GapAnalysis", "Evaluation",
                    "SchemaValidation", "FixtureValidation", "GoalValidation",
                    "TripleValidation", "Confirmed", "CreateHash", "Builder", "Hash", "Done"}
    /\ indexOf("Researcher") = 1 /\ indexOf("Planner") = 2 /\ indexOf("Refactor") = 3
    /\ indexOf("GapAnalysis") = 4 /\ indexOf("Evaluation") = 5
    /\ indexOf("SchemaValidation") = 6 /\ indexOf("FixtureValidation") = 7
    /\ indexOf("GoalValidation") = 8 /\ indexOf("TripleValidation") = 9
    /\ indexOf("Confirmed") = 10 /\ indexOf("CreateHash") = 11 /\ indexOf("Builder") = 12
    /\ indexOf("Hash") = 13 /\ indexOf("Done") = 14
  <1>1. Canonical = {"Researcher", "Planner", "Refactor", "GapAnalysis", "Evaluation",
                    "SchemaValidation", "FixtureValidation", "GoalValidation",
                    "TripleValidation", "Confirmed", "CreateHash", "Builder", "Hash", "Done"}
    <2>1. Canonical = {CANONICAL_PROCESSORS[i] : i \in 1..14}
      BY CanonicalOrder DEF Canonical
    <2>2. 1..14 = {1, 2, 3, 4, 5, 6, 7, 8, 9, 10, 11, 12, 13, 14}
      OBVIOUS
    <2>3. Canonical = {CANONICAL_PROCESSORS[i] : i \in {1, 2, 3, 4, 5, 6, 7, 8, 9, 10, 11, 12, 13, 14}}
      BY <2>1, <2>2
    <2> QED
      BY <2>3, CanonicalOrder
  <1>2. /\ indexOf(CANONICAL_PROCESSORS[1]) = 1 /\ indexOf(CANONICAL_PROCESSORS[2]) = 2
        /\ indexOf(CANONICAL_PROCESSORS[3]) = 3 /\ indexOf(CANONICAL_PROCESSORS[4]) = 4
        /\ indexOf(CANONICAL_PROCESSORS[5]) = 5 /\ indexOf(CANONICAL_PROCESSORS[6]) = 6
        /\ indexOf(CANONICAL_PROCESSORS[7]) = 7 /\ indexOf(CANONICAL_PROCESSORS[8]) = 8
        /\ indexOf(CANONICAL_PROCESSORS[9]) = 9 /\ indexOf(CANONICAL_PROCESSORS[10]) = 10
        /\ indexOf(CANONICAL_PROCESSORS[11]) = 11 /\ indexOf(CANONICAL_PROCESSORS[12]) = 12
        /\ indexOf(CANONICAL_PROCESSORS[13]) = 13 /\ indexOf(CANONICAL_PROCESSORS[14]) = 14
    BY CanonicalPlaces
  <1> QED
    BY <1>1, <1>2, CanonicalOrder

\* What must have completed before each processor.
LEMMA RequiredFacts ==
    /\ required("Researcher") = {} /\ required("Planner") = {"Researcher"}
    /\ required("Refactor") = {"Planner"} /\ required("GapAnalysis") = {"Refactor"}
    /\ required("Evaluation") = {"GapAnalysis"}
    /\ \A v \in Validators : required(v) = {"Evaluation"}
    /\ required("TripleValidation") = Validators
    /\ required("Confirmed") = {"TripleValidation"} /\ required("CreateHash") = {"Confirmed"}
    /\ required("Builder") = {"CreateHash"} /\ required("Hash") = {"Builder"}
    /\ required("Done") = {"Hash"}
  BY PlaceFacts, CanonicalOrder DEF required, Validators

\* The places between 1 and 14 that stand before a processor.
LEMMA BeforeFacts ==
    ASSUME NEW p \in Canonical, NEW q \in Canonical, indexOf(q) < indexOf(p),
           ~ ({p, q} \subseteq Validators)
    PROVE  \/ q \in required(p)
           \/ \E r \in required(p) : /\ r # "Done" /\ r \in Canonical /\ indexOf(q) < indexOf(r)
                                     /\ ~ ({r, q} \subseteq Validators)
  BY PlaceFacts, RequiredFacts DEF Validators

\* The completion at place k of a trail raises no issue.
Fine(t, k) ==
    LET earlier == {t[j].processor : j \in 1..(k - 1)}
    IN /\ t[k].processor \in Canonical
       /\ t[k].processor \in earlier => t[k].processor \in repeatable
       /\ \/ t[k].processor = "Done" /\ t[k].failed
          \/ required(t[k].processor) \subseteq earlier

\* An audit is valid when every completion is fine.
LEMMA ValidMeans ==
    ASSUME NEW t \in Trails
    PROVE  detectOrderingIssues(t) = {} <=> \A k \in 1..Len(t) : Fine(t, k)
  <1>1. \A p \in Canonical : required(p) \subseteq Canonical
    BY PlaceFacts, RequiredFacts DEF Validators
  <1> DEFINE completed(i) == {t[j].processor : j \in 1..(i - 1)} \cap Canonical
             dup == {k \in 1..Len(t) : t[k].processor \in completed(k) \ repeatable}
             unknown == {k \in 1..Len(t) : t[k].processor \notin Canonical}
             early == {k \in 1..Len(t) :
                         /\ t[k].processor \in Canonical
                         /\ ~(t[k].processor = "Done" /\ t[k].failed)
                         /\ ~(required(t[k].processor) \subseteq completed(k))}
  <1>2. detectOrderingIssues(t) = {<<i, "duplicate">> : i \in dup}
            \cup {<<i, "unknown">> : i \in unknown} \cup {<<i, "early">> : i \in early}
    BY DEF detectOrderingIssues
  <1>3. detectOrderingIssues(t) = {} <=> dup = {} /\ unknown = {} /\ early = {}
    <2> HIDE DEF dup, unknown, early
    <2> QED
      BY <1>2
  <1>4. dup = {} /\ unknown = {} /\ early = {} <=>
           \A k \in 1..Len(t) : k \notin dup /\ k \notin unknown /\ k \notin early
    OBVIOUS
  <1>5. ASSUME NEW k \in 1..Len(t)
        PROVE  k \notin dup /\ k \notin unknown /\ k \notin early <=> Fine(t, k)
    BY <1>1, <1>5 DEF Fine
  <1> HIDE DEF dup, unknown, early
  <1> QED
    BY <1>3, <1>4, <1>5

\* Recording a completion appends it and leaves the earlier ones alone.
LEMMA RecordFacts ==
    ASSUME trail \in Trails, NEW p \in Canonical \cup {"Finalize"}, NEW f \in BOOLEAN,
           Record(p, f)
    PROVE  /\ trail' \in Trails /\ Len(trail') = Len(trail) + 1
           /\ \A i \in 1..Len(trail) : trail'[i] = trail[i]
           /\ trail'[Len(trail) + 1] = [processor |-> p, failed |-> f]
           /\ Seen' = Seen \cup {p}
  <1>1. [processor |-> p, failed |-> f] \in [processor : Canonical \cup {"Finalize"}, failed : BOOLEAN]
    OBVIOUS
  <1>2. /\ trail' \in Trails /\ Len(trail') = Len(trail) + 1
        /\ \A i \in 1..Len(trail) : trail'[i] = trail[i]
        /\ trail'[Len(trail) + 1] = [processor |-> p, failed |-> f]
    BY <1>1 DEF Trails, Record
  <1>3. Len(trail) \in Nat
    BY DEF Trails
  <1>4. 1..Len(trail') = 1..Len(trail) \cup {Len(trail) + 1}
    BY <1>2, <1>3
  <1> QED
    BY <1>2, <1>4 DEF Seen

\* A longer trail is audited as the shorter one was, and its last completion.
LEMMA ValidAppend ==
    ASSUME trail \in Trails, NEW p \in Canonical \cup {"Finalize"}, NEW f \in BOOLEAN,
           Record(p, f)
    PROVE  valid' <=> /\ valid /\ p \in Canonical
                      /\ p \in Seen => p \in repeatable
                      /\ (p = "Done" /\ f) \/ required(p) \subseteq Seen
  <1> DEFINE n == Len(trail)
  <1>1. /\ trail' \in Trails /\ Len(trail') = n + 1
        /\ \A i \in 1..n : trail'[i] = trail[i]
        /\ trail'[n + 1] = [processor |-> p, failed |-> f]
        /\ n \in Nat
    <2>1. n \in Nat
      BY DEF Trails
    <2> QED
      BY <2>1, RecordFacts
  <1>2. ASSUME NEW k \in 1..n PROVE Fine(trail', k) <=> Fine(trail, k)
    <2>1. k \in Nat /\ \A j \in 1..(k - 1) : trail'[j] = trail[j]
      BY <1>1
    <2>2. {trail'[j].processor : j \in 1..(k - 1)} = {trail[j].processor : j \in 1..(k - 1)}
      BY <2>1
    <2> QED
      BY <1>1, <2>2 DEF Fine
  <1>3. {trail'[j].processor : j \in 1..(n + 1 - 1)} = Seen
    BY <1>1 DEF Seen
  <1>4. Fine(trail', n + 1) <=> /\ p \in Canonical
                                /\ p \in Seen => p \in repeatable
                                /\ (p = "Done" /\ f) \/ required(p) \subseteq Seen
    BY <1>1, <1>3 DEF Fine
  <1>5. 1..Len(trail') = 1..n \cup {n + 1}
    BY <1>1
  <1>6. valid' <=> \A k \in 1..Len(trail') : Fine(trail', k)
    BY <1>1, ValidMeans DEF valid
  <1>7. valid <=> \A k \in 1..n : Fine(trail, k)
    BY ValidMeans DEF valid
  <1> QED
    BY <1>2, <1>4, <1>5, <1>6, <1>7

\* The processors that stand before the completion at place i are all completed.
Follows(t, i) ==
    LET p == t[i].processor
    IN (p # "Done" \/ ~ t[i].failed) =>
         \A q \in Canonical :
             indexOf(q) < indexOf(p) /\ ~({p, q} \subseteq Validators)
                 => \E j \in 1..(i - 1) : t[j].processor = q

\* A valid audit stays canonical order when a completion is recorded.
LEMMA TransitiveAppend ==
    ASSUME trail \in Trails, AuditIsTransitive, NEW p \in Canonical \cup {"Finalize"},
           NEW f \in BOOLEAN, Record(p, f)
    PROVE  AuditIsTransitive'
  <1> DEFINE n == Len(trail)
  <1>1. n \in Nat
    BY DEF Trails
  <1>2. /\ trail' \in Trails /\ Len(trail') = n + 1
        /\ \A i \in 1..n : trail'[i] = trail[i]
        /\ trail'[n + 1] = [processor |-> p, failed |-> f]
    BY RecordFacts
  <1> SUFFICES ASSUME valid', NEW i \in 1..(n + 1)
               PROVE  Follows(trail', i)
    BY <1>2 DEF AuditIsTransitive, Follows
  <1>3. /\ valid /\ p \in Canonical
        /\ (p = "Done" /\ f) \/ required(p) \subseteq Seen
    BY ValidAppend
  <1>4. \A k \in 1..n : Follows(trail, k)
    BY <1>3 DEF AuditIsTransitive, Follows
  <1>5. CASE i \in 1..n
    <2>1. trail'[i] = trail[i] /\ \A j \in 1..(i - 1) : trail'[j] = trail[j]
      BY <1>1, <1>2, <1>5
    <2> QED
      BY <1>4, <1>5, <2>1 DEF Follows
  <1>6. CASE i = n + 1 /\ ~ (p = "Done" /\ f)
    <2>1. ASSUME NEW q \in Canonical, indexOf(q) < indexOf(p), ~({p, q} \subseteq Validators)
          PROVE  q \in Seen
      <3>1. CASE q \in required(p)
        BY <1>3, <1>6, <3>1
      <3>2. ASSUME NEW r \in required(p), r # "Done", r \in Canonical, indexOf(q) < indexOf(r),
                   ~ ({r, q} \subseteq Validators)
            PROVE  q \in Seen
        <4>1. PICK k \in 1..n : trail[k].processor = r
          BY <1>3, <1>6, <3>2 DEF Seen
        <4>2. PICK j \in 1..(k - 1) : trail[j].processor = q
          BY <1>4, <3>2, <4>1 DEF Follows
        <4>3. j \in 1..n
          BY <1>1, <4>1, <4>2
        <4> QED
          BY <4>2, <4>3 DEF Seen
      <3> QED
        BY <1>3, <2>1, <3>1, <3>2, BeforeFacts
    <2>2. ASSUME NEW q \in Seen PROVE \E j \in 1..(i - 1) : trail'[j].processor = q
      BY <1>1, <1>2, <1>6, <2>2 DEF Seen
    <2> QED
      BY <1>2, <1>6, <2>1, <2>2 DEF Follows
  <1>7. CASE i = n + 1 /\ p = "Done" /\ f
    BY <1>2, <1>7 DEF Follows
  <1> QED
    BY <1>1, <1>5, <1>6, <1>7

-----------------------------------------------------------------------------
(* The workflow graph's runs. *)

Last == trail[Len(trail)].processor
Opening == {"Researcher", "Planner", "Refactor"}
Closing == {"Confirmed", "CreateHash", "Builder", "Hash"}

\* Where a run of the graph stands: inside the refinement loop only the opening stages
\* and stages of the loop have completed, outside it nothing that comes later has, and
\* a run that has left the loop has joined the validators in its last round.
GraphInv ==
    source = "graph" /\ trail # <<>> =>
        /\ valid
        /\ Last \in repeatable => Seen \subseteq Opening \cup repeatable
        /\ Last \in Opening \cup Closing => \A r \in Seen : indexOf(r) <= indexOf(Last)
        /\ Last \in Closing => "TripleValidation" \in Round
        /\ Ended => Last = "Done"

\* The places of the present round.
GapPlaces == {i \in 1..Len(trail) : trail[i].processor = "GapAnalysis"}
RoundStart == IF GapPlaces = {} THEN 1 ELSE CHOOSE i \in GapPlaces : \A j \in GapPlaces : j <= i

\* There is a last Gap Analysis, if there is one.
LastGapInv == GapPlaces # {} => \E i \in GapPlaces : \A j \in GapPlaces : j <= i

AuditInv == trail \in Trails /\ LastGapInv /\ AuditIsTransitive /\ GraphInv

\* The present round begins with the last Gap Analysis, or with the run.
LEMMA RoundStartPlace ==
    ASSUME trail \in Trails, LastGapInv
    PROVE  /\ RoundStart \in 1..(Len(trail) + 1)
           /\ trail # <<>> => RoundStart \in 1..Len(trail)
           /\ Round = {trail[i].processor : i \in RoundStart..Len(trail)}
           /\ Round \subseteq Seen
           /\ trail # <<>> => Last \in Round
  <1>1. Len(trail) \in Nat /\ (trail # <<>> => Len(trail) >= 1)
    BY DEF Trails
  <1>2. /\ RoundStart \in 1..(Len(trail) + 1)
        /\ trail # <<>> => RoundStart \in 1..Len(trail)
    <2>1. CASE GapPlaces = {}
      BY <1>1, <2>1 DEF RoundStart
    <2>2. CASE GapPlaces # {}
      <3>1. RoundStart \in GapPlaces
        BY <2>2 DEF RoundStart, LastGapInv
      <3> QED
        BY <1>1, <3>1 DEF GapPlaces
    <2> QED
      BY <2>1, <2>2
  <1>3. Round = {trail[i].processor : i \in RoundStart..Len(trail)}
    BY DEF Round, RoundStart, GapPlaces
  <1>4. RoundStart..Len(trail) \subseteq 1..Len(trail)
    BY <1>1, <1>2
  <1>5. trail # <<>> => Len(trail) \in RoundStart..Len(trail)
    BY <1>1, <1>2
  <1> QED
    BY <1>2, <1>3, <1>4, <1>5 DEF Seen, Last

\* A completion that does not begin a round belongs to the present one.
LEMMA RoundFacts ==
    ASSUME trail \in Trails, LastGapInv, NEW p \in Canonical \cup {"Finalize"},
           NEW f \in BOOLEAN, Record(p, f)
    PROVE  LastGapInv' /\ (p # "GapAnalysis" => Round' = Round \cup {p})
  <1> DEFINE n == Len(trail)
  <1>1. n \in Nat
    BY DEF Trails
  <1>2. /\ Len(trail') = n + 1 /\ \A i \in 1..n : trail'[i] = trail[i]
        /\ trail'[n + 1].processor = p
    <2>1. trail'[n + 1] = [processor |-> p, failed |-> f]
      BY RecordFacts
    <2> QED
      BY <2>1, RecordFacts
  <1>3. 1..(n + 1) = 1..n \cup {n + 1}
    BY <1>1
  <1>4. CASE p = "GapAnalysis"
    <2>1. n + 1 \in GapPlaces' /\ \A j \in GapPlaces' : j <= n + 1
      BY <1>1, <1>2, <1>3, <1>4 DEF GapPlaces
    <2> QED
      BY <1>4, <2>1 DEF LastGapInv
  <1>5. CASE p # "GapAnalysis"
    <2>1. GapPlaces' = GapPlaces
      BY <1>2, <1>3, <1>5 DEF GapPlaces
    <2>2. RoundStart' = RoundStart /\ LastGapInv'
      BY <2>1 DEF RoundStart, LastGapInv
    <2>3. Round = {trail[i].processor : i \in RoundStart..n} /\ RoundStart \in 1..(n + 1)
      BY RoundStartPlace
    <2>4. Round' = {trail'[i].processor : i \in RoundStart..(n + 1)}
      BY <1>2, <2>2 DEF Round, RoundStart, GapPlaces
    <2>5. RoundStart..(n + 1) = RoundStart..n \cup {n + 1} /\ RoundStart..n \subseteq 1..n
      BY <1>1, <2>3
    <2> QED
      BY <1>2, <1>5, <2>2, <2>3, <2>4, <2>5
  <1> QED
    BY <1>4, <1>5

\* The conditions under which a completion keeps the graph's invariant.
LEMMA GraphAppend ==
    ASSUME trail \in Trails, LastGapInv, valid, ~ Ended,
           NEW p \in Canonical, NEW f \in BOOLEAN, Record(p, f),
           p \in Seen => p \in repeatable,
           (p = "Done" /\ f) \/ required(p) \subseteq Seen,
           p \in repeatable => Seen \subseteq Opening \cup repeatable,
           p \in Opening \cup Closing => \A r \in Seen : indexOf(r) <= indexOf(p),
           p \in Closing => "TripleValidation" \in Round
    PROVE  GraphInv'
  <1>1. Len(trail) \in Nat
    BY DEF Trails
  <1>2. /\ Len(trail') = Len(trail) + 1 /\ \A i \in 1..Len(trail) : trail'[i] = trail[i]
        /\ trail'[Len(trail) + 1] = [processor |-> p, failed |-> f]
        /\ Seen' = Seen \cup {p}
    BY RecordFacts
  <1>3. Last' = p
    BY <1>2 DEF Last
  <1>4. valid'
    BY ValidAppend
  <1>5. p \in Closing => "TripleValidation" \in Round'
    BY RoundFacts DEF Closing
  <1>6. Ended' => p = "Done"
    <2>1. Ended <=> "Done" \in Seen
      BY DEF Ended, Seen
    <2>2. Ended' <=> "Done" \in Seen'
      BY DEF Ended, Seen
    <2> QED
      BY <1>2, <2>1, <2>2
  <1>7. p \in repeatable => Seen' \subseteq Opening \cup repeatable
    BY <1>2
  <1>8. p \in Opening \cup Closing => \A r \in Seen' : indexOf(r) <= indexOf(p)
    <2>1. indexOf(p) <= indexOf(p)
      BY PlaceFacts
    <2> QED
      BY <1>2, <2>1
  <1> QED
    BY <1>3, <1>4, <1>5, <1>6, <1>7, <1>8 DEF GraphInv

\* What is known of a valid trail that is not empty.
LEMMA LastFacts ==
    ASSUME trail \in Trails, valid, AuditIsTransitive, trail # <<>>, Last # "Done"
    PROVE  /\ Last \in Seen /\ Seen \subseteq Canonical
           /\ \A q \in Canonical : indexOf(q) < indexOf(Last) /\ ~({Last, q} \subseteq Validators)
                                     => q \in Seen
  <1>1. Len(trail) \in Nat /\ Len(trail) >= 1
    BY DEF Trails
  <1>2. Len(trail) \in 1..Len(trail)
    BY <1>1
  <1>3. Last \in Seen
    BY <1>2 DEF Last, Seen
  <1>4. Seen \subseteq Canonical
    BY ValidMeans DEF valid, Fine, Seen
  <1>5. ASSUME NEW q \in Canonical, indexOf(q) < indexOf(Last), ~({Last, q} \subseteq Validators)
        PROVE  q \in Seen
    <2>1. PICK j \in 1..(Len(trail) - 1) : trail[j].processor = q
      BY <1>2, <1>5 DEF AuditIsTransitive, Last
    <2>2. j \in 1..Len(trail)
      BY <1>1, <2>1
    <2> QED
      BY <2>1, <2>2 DEF Seen
  <1> QED
    BY <1>3, <1>4, <1>5

\* Every completion the graph records is the one the audit expects.
LEMMA GraphStep ==
    ASSUME AuditInv, RecordGraph
    PROVE  GraphInv' /\ \E p \in Canonical, f \in BOOLEAN : Record(p, f)
  <1> USE DEF AuditInv
  <1>1. source = "graph" /\ ~ Ended /\ source' = source
    BY DEF RecordGraph
  <1>2. valid
    <2>1. CASE trail = <<>>
      BY <2>1, ValidMeans DEF valid
    <2>2. CASE trail # <<>>
      BY <1>1, <2>2 DEF GraphInv
    <2> QED
      BY <2>1, <2>2
  <1>3. "Done" \in Canonical /\ "Researcher" \in Canonical
    BY PlaceFacts
  <1>4. CASE Record("Done", TRUE)
    <2>1. "Done" \notin Seen
      BY <1>1 DEF Ended, Seen
    <2>2. "Done" \notin repeatable /\ "Done" \notin Opening \cup Closing
      BY DEF repeatable, Validators, Opening, Closing
    <2> QED
      BY <1>1, <1>2, <1>3, <1>4, <2>1, <2>2, GraphAppend
  <1>5. CASE trail = <<>> /\ Record("Researcher", FALSE)
    <2>1. Seen = {}
      BY <1>5 DEF Seen
    <2>2. required("Researcher") = {} /\ "Researcher" \notin Closing
      BY RequiredFacts DEF Closing
    <2> QED
      BY <1>1, <1>2, <1>3, <1>5, <2>1, <2>2, GraphAppend
  <1>6. ASSUME trail # <<>>
        PROVE  /\ Last # "Done" /\ Last \in Seen /\ Seen \subseteq Canonical
               /\ \A q \in Canonical : indexOf(q) < indexOf(Last) /\ ~({Last, q} \subseteq Validators)
                                         => q \in Seen
    <2>1. Len(trail) \in 1..Len(trail)
      BY <1>6 DEF Trails
    <2>2. Last # "Done"
      BY <1>1, <2>1 DEF Ended, Last
    <2> QED
      BY <1>2, <1>6, <2>2, LastFacts
  <1>7. CASE /\ trail # <<>> /\ Last \notin Validators \cup {"Evaluation"}
             /\ Record(CANONICAL_PROCESSORS[indexOf(Last) + 1], FALSE)
    <2> DEFINE p == CANONICAL_PROCESSORS[indexOf(Last) + 1]
    <2>1. /\ Last \in {"Researcher", "Planner", "Refactor", "GapAnalysis", "TripleValidation",
                       "Confirmed", "CreateHash", "Builder", "Hash"}
          /\ Last \in Seen /\ Seen \subseteq Canonical
      BY <1>6, <1>7, PlaceFacts DEF Validators
    <2>2. /\ Last \in repeatable => Seen \subseteq Opening \cup repeatable
          /\ Last \in Opening \cup Closing => \A r \in Seen : indexOf(r) <= indexOf(Last)
          /\ Last \in Closing => "TripleValidation" \in Round
          /\ Last \in Round
      BY <1>1, <1>7, RoundStartPlace DEF GraphInv
    <2>3. p \in Canonical /\ required(p) = {Last} /\ indexOf(p) = indexOf(Last) + 1
          /\ indexOf(Last) \in 1..13
      BY <2>1, PlaceFacts, CanonicalOrder, RequiredFacts
    <2>4. p \in repeatable \/ p \notin Seen
      <3>1. CASE Last \in Opening \cup Closing
        BY <2>1, <2>2, <2>3, <3>1, PlaceFacts
      <3>2. CASE Last \in repeatable
        <4>1. p \in {"Evaluation", "Confirmed"}
          BY <2>1, <3>2, PlaceFacts, CanonicalOrder DEF repeatable, Validators
        <4> QED
          BY <2>2, <3>2, <4>1 DEF repeatable, Opening, Validators
      <3> QED
        BY <2>1, <3>1, <3>2 DEF Opening, Closing, repeatable, Validators
    <2>5. p \in repeatable => Seen \subseteq Opening \cup repeatable
      <3>1. CASE Last \in repeatable
        BY <2>2, <3>1
      <3>2. CASE Last = "Refactor"
        BY <2>1, <2>2, <3>2, PlaceFacts DEF Opening
      <3>3. CASE Last \in {"Researcher", "Planner", "Confirmed", "CreateHash", "Builder", "Hash"}
        BY <3>3, PlaceFacts, CanonicalOrder DEF repeatable, Validators
      <3> QED
        BY <2>1, <3>1, <3>2, <3>3 DEF repeatable, Validators
    <2>6. p \in Opening \cup Closing => \A r \in Seen : indexOf(r) <= indexOf(p)
      <3>1. CASE Last \in Opening \cup Closing
        BY <2>1, <2>2, <2>3, <3>1, PlaceFacts
      <3>2. CASE Last = "TripleValidation"
        <4>1. indexOf(p) = 10 /\ Seen \subseteq Opening \cup repeatable
          BY <2>2, <2>3, <3>2, PlaceFacts DEF repeatable
        <4> QED
          BY <4>1, PlaceFacts DEF Opening, repeatable, Validators
      <3>3. CASE Last = "GapAnalysis"
        BY <3>3, PlaceFacts, CanonicalOrder DEF Opening, Closing
      <3> QED
        BY <2>1, <3>1, <3>2, <3>3 DEF Opening, Closing
    <2>7. p \in Closing => "TripleValidation" \in Round
      BY <2>1, <2>2, PlaceFacts, CanonicalOrder DEF Closing
    <2>8. Record(p, FALSE)
      BY <1>7
    <2> HIDE DEF p
    <2> QED
      BY <1>1, <1>2, <2>1, <2>3, <2>4, <2>5, <2>6, <2>7, <2>8, GraphAppend
  <1>8. ASSUME NEW v \in Validators \ Round, trail # <<>>, Last \in Validators \cup {"Evaluation"},
               Record(v, FALSE)
        PROVE  GraphInv' /\ \E p \in Canonical, f \in BOOLEAN : Record(p, f)
    <2>1. v \in Canonical /\ v \in repeatable /\ v \notin Opening \cup Closing
      BY PlaceFacts DEF Validators, repeatable, Opening, Closing
    <2>2. "Evaluation" \in Seen
      BY <1>6, <1>8, PlaceFacts DEF Validators
    <2>3. required(v) = {"Evaluation"}
      BY RequiredFacts
    <2>4. Seen \subseteq Opening \cup repeatable
      BY <1>1, <1>8 DEF GraphInv, repeatable
    <2> QED
      BY <1>1, <1>2, <1>8, <2>1, <2>2, <2>3, <2>4, GraphAppend
  <1>9. CASE /\ trail # <<>> /\ Validators \subseteq Round /\ "TripleValidation" \notin Round
             /\ Record("TripleValidation", FALSE)
    <2>1. /\ "TripleValidation" \in Canonical /\ "TripleValidation" \in repeatable
          /\ "TripleValidation" \notin Opening \cup Closing
          /\ required("TripleValidation") = Validators
      BY PlaceFacts, RequiredFacts DEF repeatable, Opening, Closing
    <2>2. Validators \subseteq Seen
      BY <1>9, RoundStartPlace
    <2>3. Last \in Canonical /\ Last \notin Closing /\ Last # "Done"
      BY <1>1, <1>6, <1>9 DEF GraphInv
    <2>4. Last \notin Opening
      <3>1. "GoalValidation" \in Seen /\ indexOf("GoalValidation") = 8
        BY <2>2, PlaceFacts DEF Validators
      <3> QED
        BY <1>1, <1>9, <3>1, PlaceFacts DEF GraphInv, Opening
    <2>5. Seen \subseteq Opening \cup repeatable
      <3>1. Last \in repeatable
        BY <2>3, <2>4, PlaceFacts DEF Opening, Closing, repeatable, Validators
      <3> QED
        BY <1>1, <1>9, <3>1 DEF GraphInv
    <2> QED
      BY <1>1, <1>2, <1>9, <2>1, <2>2, <2>5, GraphAppend
  <1>10. CASE trail # <<>> /\ Last = "TripleValidation" /\ Record("GapAnalysis", FALSE)
    <2>1. /\ "GapAnalysis" \in Canonical /\ "GapAnalysis" \in repeatable
          /\ "GapAnalysis" \notin Opening \cup Closing
          /\ required("GapAnalysis") = {"Refactor"}
      BY PlaceFacts, RequiredFacts DEF repeatable, Opening, Closing
    <2>2. "Refactor" \in Seen
      BY <1>6, <1>10, PlaceFacts DEF Validators
    <2>3. Seen \subseteq Opening \cup repeatable
      BY <1>1, <1>10 DEF GraphInv, repeatable
    <2> QED
      BY <1>1, <1>2, <1>10, <2>1, <2>2, <2>3, GraphAppend
  <1> QED
    BY <1>4, <1>5, <1>7, <1>8, <1>9, <1>10 DEF RecordGraph, Last

\* Every recorded completion keeps the audit's invariant.
LEMMA AuditStep ==
    ASSUME AuditInv, AuditNext
    PROVE  AuditInv'
  <1>1. ASSUME NEW p \in Canonical \cup {"Finalize"}, NEW f \in BOOLEAN, Record(p, f)
        PROVE  trail' \in Trails /\ LastGapInv' /\ AuditIsTransitive'
    BY <1>1, RecordFacts, RoundFacts, TransitiveAppend DEF AuditInv
  <1>2. CASE RecordAny
    <2>1. PICK p \in Canonical \cup {"Finalize"}, f \in BOOLEAN : Record(p, f)
      BY <1>2 DEF RecordAny
    <2>2. GraphInv'
      BY <1>2 DEF RecordAny, GraphInv
    <2> QED
      BY <1>1, <2>1, <2>2 DEF AuditInv
  <1>3. CASE RecordGraph
    BY <1>1, <1>3, GraphStep DEF AuditInv
  <1> QED
    BY <1>2, <1>3 DEF AuditNext

\* The audit and the workflow agree for trails of any length: checking each completion
\* against its neighbours is enough for canonical order, and every run of the graph is
\* found valid through any number of refinements (ordering.ts:detectOrderingIssues).
THEOREM Audit == AuditSpec => []AuditAgrees
  <1>1. AuditInit => AuditInv
    <2> SUFFICES ASSUME AuditInit PROVE AuditInv
      OBVIOUS
    <2>1. trail \in Trails /\ Len(trail) = 0 /\ trail = <<>>
      BY DEF AuditInit, Trails
    <2>2. GapPlaces = {} /\ 1..Len(trail) = {}
      BY <2>1 DEF GapPlaces
    <2> QED
      BY <2>1, <2>2 DEF AuditInv, LastGapInv, AuditIsTransitive, GraphInv
  <1>2. AuditInv /\ [AuditNext]_auditVars => AuditInv'
    <2>1. ASSUME AuditInv, UNCHANGED auditVars PROVE AuditInv'
      <3>1. trail' = trail /\ source' = source
        BY <2>1 DEF auditVars
      <3>2. /\ GapPlaces' = GapPlaces /\ valid' = valid /\ Last' = Last /\ Seen' = Seen
            /\ Ended' = Ended
        BY <3>1 DEF GapPlaces, valid, Last, Seen, Ended
      <3>3. Round' = Round
        BY <3>1 DEF Round
      <3>4. AuditIsTransitive'
        BY <2>1, <3>1, <3>2 DEF AuditInv, AuditIsTransitive
      <3>5. GraphInv'
        BY <2>1, <3>1, <3>2, <3>3 DEF AuditInv, GraphInv
      <3> QED
        BY <2>1, <3>1, <3>2, <3>4, <3>5 DEF AuditInv, LastGapInv
    <2> QED
      BY <2>1, AuditStep
  <1>3. AuditInv => AuditAgrees
    <2>1. ASSUME AuditInv, trail = <<>> PROVE valid
      BY <2>1, ValidMeans DEF AuditInv, valid
    <2> QED
      BY <2>1 DEF AuditInv, AuditAgrees, GraphRunIsValid, GraphInv
  <1> QED
    BY <1>1, <1>2, <1>3, PTL DEF AuditSpec

-----------------------------------------------------------------------------
(* The run repository and the event log. *)

Kinds == {"Running", "Completed", "Done"}
EventRecords == [seq : Nat \ {0}, by : Procs, kind : Kinds]
BusRecords(n) == [loaded : BOOLEAN, seen : SUBSET (1..n), sequence : Nat]
SnapshotsTo(n) == [status : {"none", "Running", "Done"}, evs : Seq(1..n), artifact : BOOLEAN]
Calls(n) == [at : {"idle", "get", "write", "stat", "observed", "announce"},
             op : {"none", "event", "finish", "artifact", "removeArtifact"}, ev : 0..n]

\* What a process is doing fits the place it is at, and what it has read of the
\* snapshot is a run.
DoingInv ==
    /\ doing \in [Procs -> Calls(Len(events))]
    /\ want \in SnapshotsTo(Len(events)) /\ raced \in BOOLEAN
    /\ \A p \in Procs :
           /\ doing[p].at = "idle" <=> doing[p].op = "none"
           /\ doing[p].op = "event" => doing[p].ev \in 1..Len(events)
           /\ doing[p].at = "observed" => doing[p].op = "event"
           /\ doing[p].at = "announce" => doing[p].op = "finish"
           /\ cached[p].snap = NoSnapshot \/ cached[p].snap.status # "none"
           /\ doing[p].at \in {"write", "stat"} => cached[p].snap.status # "none"

\* A process that has not died has seen what it emitted.
SeenInv == \A e \in 1..Len(events) :
    events[e].by \in restarted \/ (bus[events[e].by].loaded /\ e \in bus[events[e].by].seen)

\* There is a last readable line, if there is one.
GoodLines == {i \in 1..Len(jsonl) : jsonl[i] # 0}
LastLineInv == GoodLines # {} => \E i \in GoodLines : \A j \in GoodLines : j <= i

\* Whether a snapshot has an event, and has none twice but those of a set.
Has(s, e) == \E i \in 1..Len(s.evs) : s.evs[i] = e
Once(s, r) == \A i, j \in 1..Len(s.evs) :
    i # j /\ s.evs[i] = s.evs[j] => s.evs[i] \in r

\* An event that is about to be recorded is in no copy yet, and is recorded by one
\* process only, unless it came to a process over the stream alone.
Fresh(p) == doing[p].op = "event" /\ doing[p].ev \notin relayed
OnceInv ==
    /\ Once(file, relayed) /\ \A p \in Procs : Once(cached[p].snap, relayed)
    /\ \A p \in Procs : Fresh(p) /\ doing[p].at \in {"get", "write"} =>
           ~ Has(file, doing[p].ev) /\ \A q \in Procs : ~ Has(cached[q].snap, doing[p].ev)
    /\ \A p, q \in Procs : Fresh(p) /\ doing[q].op = "event" /\ p # q =>
           doing[p].ev # doing[q].ev

\* Unless calls have overlapped, a process that writes, or trusts its copy, has the
\* file's contents, and these are what atomic calls would have left.
CoherentInv ==
    raced \/
    /\ file = want
    /\ \A p \in Procs : doing[p].at \in {"write", "stat"} => cached[p].snap = file
    /\ \A p \in Procs : cached[p].snap = NoSnapshot \/ cached[p].newer \/ cached[p].snap = file

DoneEvents == {e \in 1..Len(events) : events[e].kind = "Done"}
Finishing(p) == ending[p] # "no" \/ doing[p].op = "finish"

\* Unless finishers have overlapped, one process is finishing at most, the status is
\* still Running when it goes on, and Done is announced after the status was written.
FinishInv ==
    /\ \A p \in Procs : ending[p] = "no" \/ doing[p].op # "finish"
    /\ raced \/
       /\ \A p, q \in Procs : Finishing(p) /\ Finishing(q) => p = q
       /\ \A p \in Procs :
              /\ ending[p] = "Running" => file.status = "Running"
              /\ doing[p].op = "finish" /\ doing[p].at \in {"get", "write"}
                     => file.status = "Running"
              /\ doing[p].op = "finish" /\ doing[p].at \in {"stat", "announce"}
                     => file.status = "Done" /\ DoneEvents = {}
       /\ DoneEvents # {} => file.status = "Done"
       /\ \A d, e \in DoneEvents : d = e

RunInv == /\ StoreTypeOK /\ DoingInv /\ SeenInv /\ LastLineInv /\ OnceInv /\ CoherentInv
          /\ FinishInv

\* Sets of values grow with the number of events.
LEMMA RunTypesGrow ==
    ASSUME NEW m \in Nat, NEW n \in Nat, m <= n
    PROVE  /\ 0..m \subseteq 0..n /\ 1..m \subseteq 1..n
           /\ SnapshotsTo(m) \subseteq SnapshotsTo(n)
           /\ BusRecords(m) \subseteq BusRecords(n) /\ Calls(m) \subseteq Calls(n)
           /\ Seq(0..m) \subseteq Seq(0..n)
  <1>1. 0..m \subseteq 0..n /\ 1..m \subseteq 1..n
    OBVIOUS
  <1>2. Seq(0..m) \subseteq Seq(0..n) /\ Seq(1..m) \subseteq Seq(1..n)
    BY <1>1, SeqMonotonic
  <1>3. SnapshotsTo(m) \subseteq SnapshotsTo(n)
    BY <1>2 DEF SnapshotsTo
  <1>4. BusRecords(m) \subseteq BusRecords(n)
    BY <1>1 DEF BusRecords
  <1>5. Calls(m) \subseteq Calls(n)
    BY <1>1 DEF Calls
  <1> QED
    BY <1>1, <1>2, <1>3, <1>4, <1>5

\* StoreTypeOK in terms of these sets.
LEMMA RunTypes ==
    StoreTypeOK <=>
    /\ events \in Seq(EventRecords)
    /\ jsonl \in Seq(0..Len(events)) /\ open \in BOOLEAN
    /\ bus \in [Procs -> BusRecords(Len(events))]
    /\ file \in SnapshotsTo(Len(events)) /\ file.status # "none"
    /\ cached \in [Procs -> [snap : SnapshotsTo(Len(events)), newer : BOOLEAN]]
    /\ ending \in [Procs -> {"no", "Running", "Done"}]
    /\ checkpoint \in 0..Len(events) /\ bridge \in [Procs -> SUBSET (1..Len(events))]
    /\ restarted \subseteq Procs /\ relayed \subseteq 1..Len(events)
  BY DEF StoreTypeOK, Snapshots, EventRecords, Kinds, BusRecords, SnapshotsTo

\* What a bus knows after it has loaded the file.
LEMMA LoadedFacts ==
    ASSUME StoreTypeOK, LastLineInv, NEW p \in Procs
    PROVE  Loaded(p) \in BusRecords(Len(events)) /\ Loaded(p).loaded
  <1>1. Len(events) \in Nat /\ Len(jsonl) \in Nat
    BY DEF StoreTypeOK
  <1>2. Readable \subseteq 1..Len(events)
    BY <1>1 DEF Readable, StoreTypeOK
  <1>3. LastLine \in Nat
    <2>1. CASE GoodLines = {}
      BY <2>1 DEF LastLine, GoodLines
    <2>2. CASE GoodLines # {}
      <3> DEFINE i == CHOOSE i \in GoodLines : \A j \in GoodLines : j <= i
      <3>1. i \in GoodLines
        BY <2>2 DEF LastLineInv
      <3>2. LastLine = events[jsonl[i]].seq
        BY <2>2 DEF LastLine, GoodLines
      <3> HIDE DEF i
      <3>3. i \in 1..Len(jsonl) /\ jsonl[i] # 0
        BY <3>1 DEF GoodLines
      <3>4. jsonl[i] \in 0..Len(events)
        BY <3>3 DEF StoreTypeOK
      <3>5. jsonl[i] \in 1..Len(events)
        BY <1>1, <3>3, <3>4
      <3>6. events[jsonl[i]] \in EventRecords
        BY <3>5, RunTypes
      <3> QED
        BY <3>2, <3>6 DEF EventRecords
    <2> QED
      BY <2>1, <2>2
  <1>4. bus[p] \in BusRecords(Len(events))
    BY RunTypes
  <1>5. CASE bus[p].loaded
    BY <1>4, <1>5 DEF Loaded
  <1>6. CASE ~ bus[p].loaded
    BY <1>2, <1>3, <1>6 DEF Loaded, BusRecords
  <1> QED
    BY <1>5, <1>6

\* What get returns is a run: the file, or a copy that was one.
LEMMA GetFacts ==
    ASSUME StoreTypeOK, DoingInv, NEW p \in Procs
    PROVE  /\ get(p) \in [snap : SnapshotsTo(Len(events)), newer : BOOLEAN]
           /\ get(p).snap.status \in {"Running", "Done"} /\ get(p).snap # NoSnapshot
           /\ get(p).snap \in {file, cached[p].snap}
           /\ CoherentInv /\ ~ raced => get(p).snap = file
  <1>1. /\ cached[p] \in [snap : SnapshotsTo(Len(events)), newer : BOOLEAN]
        /\ file \in SnapshotsTo(Len(events)) /\ file.status # "none"
    BY RunTypes
  <1>2. NoSnapshot.status = "none"
    BY DEF NoSnapshot
  <1>3. file.status \in {"Running", "Done"}
    BY <1>1 DEF SnapshotsTo
  <1>4. CASE cached[p].snap = NoSnapshot \/ cached[p].newer
    BY <1>1, <1>2, <1>3, <1>4 DEF get
  <1>5. CASE ~ (cached[p].snap = NoSnapshot \/ cached[p].newer)
    <2>1. get(p) = cached[p]
      BY <1>5 DEF get
    <2>2. cached[p].snap.status \in {"Running", "Done"}
      BY <1>1, <1>5 DEF DoingInv, SnapshotsTo
    <2> QED
      BY <1>1, <1>5, <2>1, <2>2 DEF CoherentInv
  <1> QED
    BY <1>4, <1>5

\* What a repository call makes of a snapshot.
LEMMA MutatedFacts ==
    ASSUME NEW n \in Nat, NEW s \in SnapshotsTo(n), NEW d \in Calls(n), d.op # "none",
           d.op = "event" => d.ev \in 1..n
    PROVE  /\ Mutated(s, d) \in SnapshotsTo(n)
           /\ d.op = "finish" => Mutated(s, d).status = "Done"
           /\ d.op # "finish" => Mutated(s, d).status = s.status
           /\ d.op # "event" => Mutated(s, d).evs = s.evs
           /\ d.op = "event" => Mutated(s, d).evs = Append(s.evs, d.ev)
  <1>1. CASE d.op = "event"
    <2>1. Append(s.evs, d.ev) \in Seq(1..n)
      BY <1>1 DEF SnapshotsTo
    <2>2. Mutated(s, d) = [s EXCEPT !.evs = Append(@, d.ev)]
      BY <1>1 DEF Mutated
    <2> QED
      BY <1>1, <2>1, <2>2 DEF SnapshotsTo
  <1>2. CASE d.op = "finish"
    BY <1>2 DEF Mutated, SnapshotsTo
  <1>3. CASE d.op = "artifact"
    BY <1>3 DEF Mutated, SnapshotsTo
  <1>4. CASE d.op = "removeArtifact"
    BY <1>4 DEF Mutated, SnapshotsTo
  <1> QED
    BY <1>1, <1>2, <1>3, <1>4 DEF Calls

\* A line more, readable or not, leaves a last readable line.
LEMMA LastLineKept ==
    ASSUME LastLineInv, NEW n \in Nat, jsonl \in Seq(0..n),
           jsonl' = jsonl \/ \E x \in Nat : jsonl' = Append(jsonl, x)
    PROVE  LastLineInv'
  <1>1. CASE jsonl' = jsonl
    BY <1>1 DEF LastLineInv, GoodLines
  <1>2. ASSUME NEW x \in Nat, jsonl' = Append(jsonl, x) PROVE LastLineInv'
    <2>1. /\ Len(jsonl) \in Nat /\ Len(jsonl') = Len(jsonl) + 1
          /\ jsonl'[Len(jsonl) + 1] = x /\ \A i \in 1..Len(jsonl) : jsonl'[i] = jsonl[i]
      BY <1>2
    <2>2. GoodLines' = IF x = 0 THEN GoodLines ELSE GoodLines \cup {Len(jsonl) + 1}
      BY <2>1 DEF GoodLines
    <2>3. GoodLines \subseteq 1..Len(jsonl)
      BY DEF GoodLines
    <2>4. CASE x = 0
      BY <2>2, <2>4 DEF LastLineInv
    <2>5. CASE x # 0
      <3>1. \A j \in GoodLines' : j <= Len(jsonl) + 1
        BY <2>1, <2>2, <2>3, <2>5
      <3> QED
        BY <2>2, <2>5, <3>1 DEF LastLineInv
    <2> QED
      BY <2>4, <2>5
  <1> QED
    BY <1>1, <1>2

\* What the two emitters share: a new event, its line, and the call that records it.
Grows(p, k) ==
    /\ events' = Append(events, [seq |-> Loaded(p).sequence + 1, by |-> p, kind |-> k])
    /\ bus' = [bus EXCEPT ![p] = [loaded |-> TRUE,
                                  seen |-> Loaded(p).seen \cup {Len(events) + 1},
                                  sequence |-> Loaded(p).sequence + 1]]
    /\ Appended(Len(events) + 1)
    /\ doing' = [doing EXCEPT ![p] = [at |-> "get", op |-> "event", ev |-> Len(events) + 1]]
    /\ UNCHANGED <<checkpoint, bridge, cached, file, ending, want, raced, restarted, relayed>>

LEMMA GrowsKeeps ==
    ASSUME RunInv, NEW p \in Procs, NEW k \in Kinds, Grows(p, k)
    PROVE  /\ StoreTypeOK' /\ DoingInv' /\ SeenInv' /\ LastLineInv' /\ OnceInv'
           /\ CoherentInv'
           /\ Len(events) \in Nat /\ Len(events') = Len(events) + 1
           /\ events'[Len(events) + 1].kind = k
           /\ \A e \in 1..Len(events) : events'[e] = events[e]
  <1> DEFINE n == Len(events)
             new == [seq |-> Loaded(p).sequence + 1, by |-> p, kind |-> k]
  <1>1. events \in Seq(EventRecords) /\ n \in Nat
    BY RunTypes DEF RunInv
  <1>2. Loaded(p) \in BusRecords(n)
    BY LoadedFacts DEF RunInv
  <1>3. Loaded(p).seen \subseteq 1..n /\ Loaded(p).sequence \in Nat
    BY <1>2 DEF BusRecords
  <1>4. new \in EventRecords
    BY <1>3 DEF EventRecords
  <1>5. /\ events' \in Seq(EventRecords) /\ Len(events') = n + 1 /\ events'[n + 1] = new
        /\ \A e \in 1..n : events'[e] = events[e]
    BY <1>1, <1>4 DEF Grows
  <1>6. /\ 0..n \subseteq 0..(n + 1) /\ 1..n \subseteq 1..(n + 1)
        /\ SnapshotsTo(n) \subseteq SnapshotsTo(n + 1)
        /\ BusRecords(n) \subseteq BusRecords(n + 1) /\ Calls(n) \subseteq Calls(n + 1)
        /\ Seq(0..n) \subseteq Seq(0..(n + 1))
    BY <1>1, RunTypesGrow
  <1>7. jsonl' \in Seq(0..(n + 1)) /\ open' \in BOOLEAN
        /\ (jsonl' = jsonl \/ jsonl' = Append(jsonl, n + 1))
    <2>1. jsonl \in Seq(0..(n + 1))
      BY <1>6, RunTypes DEF RunInv
    <2>2. n + 1 \in 0..(n + 1)
      BY <1>1
    <2>3. open' = FALSE /\ (jsonl' = jsonl \/ jsonl' = Append(jsonl, n + 1))
      BY DEF Grows, Appended
    <2>4. Append(jsonl, n + 1) \in Seq(0..(n + 1))
      BY <2>1, <2>2
    <2> QED
      BY <2>1, <2>3, <2>4
  <1>8. /\ bus' \in [Procs -> BusRecords(n + 1)]
        /\ bus'[p].loaded
        /\ n + 1 \in bus'[p].seen
        /\ \A q \in Procs : bus[q].loaded =>
               bus'[q].loaded /\ bus[q].seen \subseteq bus'[q].seen
    <2>1. bus \in [Procs -> BusRecords(n)]
      BY RunTypes DEF RunInv
    <2> DEFINE b == [loaded |-> TRUE, seen |-> Loaded(p).seen \cup {n + 1},
                     sequence |-> Loaded(p).sequence + 1]
    <2>2. b \in BusRecords(n + 1)
      BY <1>1, <1>3 DEF BusRecords
    <2>3. bus' = [bus EXCEPT ![p] = b]
      BY DEF Grows
    <2>5. bus[p].loaded => Loaded(p) = bus[p]
      BY DEF Loaded
    <2>6. b.loaded /\ Loaded(p).seen \subseteq b.seen /\ n + 1 \in b.seen
      OBVIOUS
    <2> HIDE DEF b
    <2>7. bus' \in [Procs -> BusRecords(n + 1)]
      BY <1>6, <2>1, <2>2, <2>3
    <2>8. bus'[p] = b /\ \A q \in Procs \ {p} : bus'[q] = bus[q]
      BY <2>1, <2>3
    <2> QED
      BY <2>5, <2>6, <2>7, <2>8
  <1> DEFINE c == [at |-> "get", op |-> "event", ev |-> n + 1]
  <1>9. /\ doing' \in [Procs -> Calls(n + 1)] /\ doing'[p] = c
        /\ \A q \in Procs \ {p} : doing'[q] = doing[q]
    <2>1. doing \in [Procs -> Calls(n)]
      BY DEF RunInv, DoingInv
    <2>2. c \in Calls(n + 1)
      BY <1>1 DEF Calls
    <2>3. doing' = [doing EXCEPT ![p] = c]
      BY DEF Grows
    <2> HIDE DEF c
    <2> QED
      BY <1>6, <2>1, <2>2, <2>3
  <1>10. /\ checkpoint' = checkpoint /\ bridge' = bridge /\ cached' = cached /\ file' = file
         /\ ending' = ending /\ want' = want /\ raced' = raced
         /\ restarted' = restarted /\ relayed' = relayed
    BY DEF Grows
  <1>11. c.at = "get" /\ c.op = "event" /\ c.ev = n + 1
    OBVIOUS
  <1> HIDE DEF c
  <1>12. n + 1 \in 1..(n + 1)
    BY <1>1
  <1>13. StoreTypeOK'
    <2>1. /\ file' \in SnapshotsTo(n + 1) /\ file'.status # "none"
          /\ cached' \in [Procs -> [snap : SnapshotsTo(n + 1), newer : BOOLEAN]]
          /\ ending' \in [Procs -> {"no", "Running", "Done"}]
          /\ checkpoint' \in 0..(n + 1) /\ bridge' \in [Procs -> SUBSET (1..(n + 1))]
          /\ restarted' \subseteq Procs /\ relayed' \subseteq 1..(n + 1)
      BY <1>6, <1>10, RunTypes DEF RunInv
    <2>2. Len(events') = n + 1
      BY <1>5
    <2> QED
      BY <1>5, <1>7, <1>8, <2>1, <2>2
         DEF StoreTypeOK, Snapshots, EventRecords, Kinds, BusRecords, SnapshotsTo
  <1>14. DoingInv'
    <2>1. want' \in SnapshotsTo(n + 1) /\ raced' \in BOOLEAN
      BY <1>6, <1>10 DEF RunInv, DoingInv
    <2>2. ASSUME NEW q \in Procs
          PROVE  /\ doing'[q].at = "idle" <=> doing'[q].op = "none"
                 /\ doing'[q].op = "event" => doing'[q].ev \in 1..(n + 1)
                 /\ doing'[q].at = "observed" => doing'[q].op = "event"
                 /\ doing'[q].at = "announce" => doing'[q].op = "finish"
                 /\ cached'[q].snap = NoSnapshot \/ cached'[q].snap.status # "none"
                 /\ doing'[q].at \in {"write", "stat"} => cached'[q].snap.status # "none"
      <3>1. cached[q].snap = NoSnapshot \/ cached[q].snap.status # "none"
        BY DEF RunInv, DoingInv
      <3>2. CASE q = p
        BY <1>9, <1>10, <1>11, <1>12, <3>1, <3>2
      <3>3. CASE q # p
        BY <1>6, <1>9, <1>10, <3>1, <3>3 DEF RunInv, DoingInv
      <3> QED
        BY <3>2, <3>3
    <2> QED
      BY <1>5, <1>9, <2>1, <2>2 DEF DoingInv
  <1>15. LastLineInv'
    <2>1. n + 1 \in Nat
      BY <1>1
    <2>2. jsonl \in Seq(0..n)
      BY RunTypes DEF RunInv
    <2> QED
      BY <1>1, <1>7, <2>1, <2>2, LastLineKept DEF RunInv
  <1>16. OnceInv'
    <2>1. \A s \in SnapshotsTo(n) : ~ Has(s, n + 1)
      <3>1. ASSUME NEW s \in SnapshotsTo(n), NEW i \in 1..Len(s.evs), s.evs[i] = n + 1
            PROVE  FALSE
        <4>1. s.evs \in Seq(1..n)
          BY DEF SnapshotsTo
        <4>2. s.evs[i] \in 1..n
          BY <4>1
        <4> QED
          BY <1>1, <3>1, <4>2
      <3> QED
        BY <3>1 DEF Has
    <2>2. file \in SnapshotsTo(n) /\ \A q \in Procs : cached[q].snap \in SnapshotsTo(n)
      BY RunTypes DEF RunInv
    <2>3. \A q \in Procs : doing[q].op = "event" => doing[q].ev # n + 1
      BY <1>1 DEF RunInv, DoingInv
    <2>4. (Once(file, relayed) /\ \A q \in Procs : Once(cached[q].snap, relayed))'
      BY <1>10 DEF RunInv, OnceInv, Once
    <2>5. ASSUME NEW q \in Procs, Fresh(q)', doing'[q].at \in {"get", "write"}
          PROVE  ~ Has(file, doing'[q].ev) /\ \A r \in Procs : ~ Has(cached[r].snap, doing'[q].ev)
      <3>1. CASE q = p
        BY <1>9, <1>11, <2>1, <2>2, <3>1
      <3>2. CASE q # p
        BY <1>9, <1>10, <2>5, <3>2 DEF RunInv, OnceInv, Fresh
      <3> QED
        BY <3>1, <3>2
    <2>6. ASSUME NEW q \in Procs, NEW r \in Procs,
                 Fresh(q)', doing'[r].op = "event", q # r
          PROVE  doing'[q].ev # doing'[r].ev
      BY <1>9, <1>10, <1>11, <2>3, <2>6 DEF RunInv, OnceInv, Fresh
    <2> QED
      BY <1>10, <2>4, <2>5, <2>6 DEF OnceInv, Has
  <1>17. CoherentInv'
    BY <1>9, <1>10, <1>11 DEF RunInv, CoherentInv
  <1>18. SeenInv'
    <2>1. ASSUME NEW e \in 1..n
          PROVE  events'[e].by \in restarted' \/
                 (bus'[events'[e].by].loaded /\ e \in bus'[events'[e].by].seen)
      <3>1. events[e] \in EventRecords /\ events'[e] = events[e]
        BY <1>1, <1>5
      <3>2. events[e].by \in Procs
        BY <3>1 DEF EventRecords
      <3> QED
        BY <1>8, <1>10, <3>1, <3>2 DEF RunInv, SeenInv
    <2>2. events'[n + 1].by = p
      BY <1>5
    <2>3. 1..(n + 1) = (1..n) \cup {n + 1}
      BY <1>1
    <2> QED
      BY <1>5, <1>8, <2>1, <2>2, <2>3 DEF SeenInv
  <1> QED
    BY <1>1, <1>5, <1>13, <1>14, <1>15, <1>16, <1>17, <1>18

LEMMA EmitKeeps ==
    ASSUME RunInv, NEW p \in Procs, Emit(p)
    PROVE  RunInv'
  <1>1. Grows(p, EmittedBy(p)) /\ EmittedBy(p) \in Kinds \ {"Done"} /\ Free(p)
    BY DEF Emit, Grows, EmittedBy, Kinds, history
  <1>2. /\ Len(events) \in Nat /\ Len(events') = Len(events) + 1
        /\ events'[Len(events) + 1].kind # "Done"
        /\ \A e \in 1..Len(events) : events'[e] = events[e]
    BY <1>1, GrowsKeeps
  <1>3. DoneEvents' = DoneEvents
    BY <1>2 DEF DoneEvents
  <1>4. /\ doing \in [Procs -> Calls(Len(events))]
        /\ doing' = [doing EXCEPT ![p] = [at |-> "get", op |-> "event", ev |-> Len(events) + 1]]
        /\ ending' = ending /\ raced' = raced /\ file' = file
    BY <1>1 DEF Grows, RunInv, DoingInv
  <1>5. doing'[p].op = "event" /\ \A q \in Procs \ {p} : doing'[q] = doing[q]
    BY <1>4
  <1>6. FinishInv'
    <2>1. \A q \in Procs : Finishing(q)' => Finishing(q)
      BY <1>4, <1>5 DEF Finishing
    <2> QED
      BY <1>3, <1>4, <1>5, <2>1 DEF RunInv, FinishInv
  <1> QED
    BY <1>1, <1>6, GrowsKeeps DEF RunInv

LEMMA AnnounceKeeps ==
    ASSUME RunInv, NEW p \in Procs, Announce(p)
    PROVE  RunInv'
  <1>1. Grows(p, "Done") /\ "Done" \in Kinds /\ doing[p].at = "announce"
    BY DEF Announce, Grows, Kinds, history
  <1>2. /\ Len(events) \in Nat /\ Len(events') = Len(events) + 1
        /\ events'[Len(events) + 1].kind = "Done"
        /\ \A e \in 1..Len(events) : events'[e] = events[e]
    BY <1>1, GrowsKeeps
  <1>3. DoneEvents' = DoneEvents \cup {Len(events) + 1}
    BY <1>2 DEF DoneEvents
  <1>4. /\ doing \in [Procs -> Calls(Len(events))]
        /\ doing' = [doing EXCEPT ![p] = [at |-> "get", op |-> "event", ev |-> Len(events) + 1]]
        /\ ending' = ending /\ raced' = raced /\ file' = file
    BY <1>1 DEF Grows, RunInv, DoingInv
  <1>5. doing'[p].op = "event" /\ \A q \in Procs \ {p} : doing'[q] = doing[q]
    BY <1>4
  <1>6. doing[p].op = "finish"
    BY <1>1 DEF RunInv, DoingInv
  <1>7. FinishInv'
    <2>1. \A q \in Procs : ~ Finishing(q)' \/ raced
      BY <1>4, <1>5, <1>6 DEF Finishing, RunInv, FinishInv
    <2>2. raced \/ (file.status = "Done" /\ DoneEvents = {})
      BY <1>1, <1>6 DEF RunInv, FinishInv
    <2> QED
      BY <1>3, <1>4, <1>5, <2>1, <2>2 DEF RunInv, FinishInv, Finishing
  <1> QED
    BY <1>1, <1>7, GrowsKeeps DEF RunInv

\* The types of a step that emits nothing, from the parts of the state it changes.
LEMMA TypesKept ==
    ASSUME StoreTypeOK, events' = events,
           jsonl' \in Seq(0..Len(events)), open' \in BOOLEAN,
           bus' \in [Procs -> BusRecords(Len(events))],
           file' \in SnapshotsTo(Len(events)), file'.status # "none",
           cached' \in [Procs -> [snap : SnapshotsTo(Len(events)), newer : BOOLEAN]],
           ending' \in [Procs -> {"no", "Running", "Done"}],
           checkpoint' \in 0..Len(events), bridge' \in [Procs -> SUBSET (1..Len(events))],
           restarted' \subseteq Procs, relayed' \subseteq 1..Len(events)
    PROVE  StoreTypeOK'
  <1>1. events' \in Seq(EventRecords) /\ Len(events') = Len(events)
    BY RunTypes
  <1> QED
    BY <1>1 DEF StoreTypeOK, Snapshots, EventRecords, Kinds, BusRecords, SnapshotsTo

\* A bus that knows more, of the same events.
LEMMA BusKnowsMore ==
    ASSUME StoreTypeOK, SeenInv, events' = events, restarted' = restarted, NEW p \in Procs,
           \A q \in Procs \ {p} : bus'[q] = bus[q],
           bus[p].loaded => bus'[p].loaded /\ bus[p].seen \subseteq bus'[p].seen
    PROVE  SeenInv'
  <1>1. ASSUME NEW e \in 1..Len(events) PROVE events[e].by \in Procs
    <2>1. events[e] \in EventRecords
      BY RunTypes
    <2> QED
      BY <2>1 DEF EventRecords
  <1>2. ASSUME NEW e \in 1..Len(events)
        PROVE  events[e].by \in restarted \/
               (bus'[events[e].by].loaded /\ e \in bus'[events[e].by].seen)
    BY <1>1 DEF SeenInv
  <1> QED
    BY <1>2 DEF SeenInv

LEMMA EmitRejectedKeeps ==
    ASSUME RunInv, NEW p \in Procs, EmitRejected(p)
    PROVE  RunInv'
  <1>1. UNCHANGED <<events, jsonl, open, checkpoint, bridge, repo, history>>
    BY DEF EmitRejected
  <1>2. UNCHANGED <<events, jsonl, open, checkpoint, bridge, cached, file, doing, ending, want,
                    raced, restarted, relayed>>
    BY <1>1 DEF repo, history
  <1> DEFINE b == [Loaded(p) EXCEPT !.sequence = @ + 1]
  <1>3. b \in BusRecords(Len(events)) /\ b.loaded /\ b.seen = Loaded(p).seen
    BY LoadedFacts DEF RunInv, BusRecords
  <1>4. bus \in [Procs -> BusRecords(Len(events))] /\ bus' = [bus EXCEPT ![p] = b]
    BY RunTypes DEF RunInv, EmitRejected
  <1>5. bus[p].loaded => Loaded(p) = bus[p]
    BY DEF Loaded
  <1> HIDE DEF b
  <1>6. /\ bus' \in [Procs -> BusRecords(Len(events))] /\ bus'[p] = b
        /\ \A q \in Procs \ {p} : bus'[q] = bus[q]
    BY <1>3, <1>4
  <1>7. StoreTypeOK'
    BY <1>2, <1>6, TypesKept, RunTypes DEF RunInv
  <1>8. DoingInv'
    BY <1>2 DEF RunInv, DoingInv
  <1>9. LastLineInv' /\ OnceInv' /\ CoherentInv'
    BY <1>2 DEF RunInv, LastLineInv, GoodLines, OnceInv, Once, Has, Fresh, CoherentInv
  <1>10. FinishInv'
    BY <1>2 DEF RunInv, FinishInv, Finishing, DoneEvents
  <1>11. SeenInv'
    BY <1>2, <1>3, <1>4, <1>5, <1>6, BusKnowsMore DEF RunInv
  <1> QED
    BY <1>7, <1>8, <1>9, <1>10, <1>11 DEF RunInv

\* What a process takes over from the stream, it has not emitted since it started.
LEMMA TakeOverKeeps ==
    ASSUME RunInv, NEW p \in Procs, NEW e \in 1..Len(events), Free(p),
           e \notin Loaded(p).seen, TakeOver(p, e),
           UNCHANGED <<events, checkpoint, bridge, cached, file, ending, want, raced, restarted>>
    PROVE  RunInv'
  <1> DEFINE n == Len(events)
             q0 == IF events[e].seq > Loaded(p).sequence THEN events[e].seq
                   ELSE Loaded(p).sequence
             b == [Loaded(p) EXCEPT !.seen = @ \cup {e}, !.sequence = q0]
             c == [at |-> "get", op |-> "event", ev |-> e]
  <1>1. n \in Nat /\ events[e] \in EventRecords /\ Loaded(p) \in BusRecords(n)
        /\ Loaded(p).loaded
    BY RunTypes, LoadedFacts DEF RunInv
  <1>2. q0 \in Nat
    BY <1>1 DEF EventRecords, BusRecords
  <1> HIDE DEF q0
  <1>3. b \in BusRecords(n) /\ b.loaded /\ b.seen = Loaded(p).seen \cup {e}
    BY <1>1, <1>2 DEF BusRecords
  <1>4. bus \in [Procs -> BusRecords(n)] /\ bus' = [bus EXCEPT ![p] = b]
    BY RunTypes DEF RunInv, TakeOver, q0
  <1>5. bus[p].loaded => Loaded(p) = bus[p]
    BY DEF Loaded
  <1>6. c \in Calls(n) /\ c.at = "get" /\ c.op = "event" /\ c.ev = e
    BY <1>1 DEF Calls
  <1>7. doing \in [Procs -> Calls(n)] /\ doing' = [doing EXCEPT ![p] = c]
    BY DEF RunInv, DoingInv, TakeOver
  <1> HIDE DEF b, c
  <1>8. /\ bus' \in [Procs -> BusRecords(n)] /\ bus'[p] = b
        /\ \A q \in Procs \ {p} : bus'[q] = bus[q]
    BY <1>3, <1>4
  <1>9. /\ doing' \in [Procs -> Calls(n)] /\ doing'[p] = c
        /\ \A q \in Procs \ {p} : doing'[q] = doing[q]
    BY <1>6, <1>7
  <1>10. events[e].by # p \/ p \in restarted
    BY <1>5 DEF RunInv, SeenInv
  <1>11. relayed' = relayed \cup {e} /\ relayed' \subseteq 1..n
    BY <1>10, RunTypes DEF TakeOver, RunInv
  <1>12. jsonl \in Seq(0..n) /\ (jsonl' = jsonl \/ jsonl' = Append(jsonl, e)) /\ open' = FALSE
    BY RunTypes DEF RunInv, TakeOver, Appended
  <1>13. jsonl' \in Seq(0..n) /\ LastLineInv'
    <2>1. e \in 0..n /\ e \in Nat
      BY <1>1
    <2>2. Append(jsonl, e) \in Seq(0..n)
      BY <1>12, <2>1
    <2> QED
      BY <1>1, <1>12, <2>1, <2>2, LastLineKept DEF RunInv
  <1>14. StoreTypeOK'
    BY <1>8, <1>11, <1>12, <1>13, TypesKept, RunTypes DEF RunInv
  <1>15. DoingInv'
    BY <1>6, <1>9 DEF RunInv, DoingInv
  <1>16. SeenInv'
    BY <1>3, <1>5, <1>8, BusKnowsMore DEF RunInv
  <1>17. OnceInv'
    <2>1. Once(file, relayed)' /\ \A q \in Procs : Once(cached[q].snap, relayed)'
      BY <1>11 DEF RunInv, OnceInv, Once
    <2>2. \A q \in Procs : Fresh(q)' => q # p /\ Fresh(q) /\ doing'[q] = doing[q]
                                        /\ doing[q].ev # e
      BY <1>6, <1>9, <1>11 DEF Fresh
    <2>3. ASSUME NEW q \in Procs, NEW r \in Procs, Fresh(q)', doing'[r].op = "event", q # r
          PROVE  doing'[q].ev # doing'[r].ev
      <3>1. CASE r = p
        BY <1>6, <1>9, <2>2, <2>3, <3>1
      <3>2. CASE r # p
        BY <1>9, <2>2, <2>3, <3>2 DEF RunInv, OnceInv, Fresh
      <3> QED
        BY <3>1, <3>2
    <2>4. \A q \in Procs : Fresh(q)' /\ doing'[q].at \in {"get", "write"} =>
              ~ Has(file, doing'[q].ev) /\ \A r \in Procs : ~ Has(cached[r].snap, doing'[q].ev)
      BY <2>2 DEF RunInv, OnceInv, Fresh
    <2> QED
      BY <2>1, <2>3, <2>4 DEF OnceInv, Has
  <1>18. CoherentInv'
    BY <1>6, <1>9 DEF RunInv, CoherentInv
  <1>19. FinishInv'
    BY <1>6, <1>9 DEF RunInv, FinishInv, Finishing, DoneEvents
  <1> QED
    BY <1>13, <1>14, <1>15, <1>16, <1>17, <1>18, <1>19 DEF RunInv

LEMMA IngestKeeps ==
    ASSUME RunInv, NEW p \in Procs, NEW e \in bridge[p], Ingest(p, e)
    PROVE  RunInv'
  <1>1. /\ UNCHANGED <<events, checkpoint, bridge, cached, file, ending, want, raced, restarted>>
        /\ Free(p)
    BY DEF Ingest
  <1>2. e \in 1..Len(events)
    BY RunTypes DEF RunInv
  <1>3. CASE e \notin Loaded(p).seen
    <2>1. TakeOver(p, e)
      BY <1>3 DEF Ingest
    <2> QED
      BY <1>1, <1>2, <1>3, <2>1, TakeOverKeeps
  <1>4. CASE e \in Loaded(p).seen
    <2>1. UNCHANGED <<jsonl, open, doing, relayed>> /\ bus' = [bus EXCEPT ![p] = Loaded(p)]
      BY <1>4 DEF Ingest
    <2>2. bus \in [Procs -> BusRecords(Len(events))] /\ Loaded(p) \in BusRecords(Len(events))
          /\ Loaded(p).loaded
      BY RunTypes, LoadedFacts DEF RunInv
    <2>3. /\ bus' \in [Procs -> BusRecords(Len(events))] /\ bus'[p] = Loaded(p)
          /\ \A q \in Procs \ {p} : bus'[q] = bus[q]
      BY <2>1, <2>2
    <2>4. bus[p].loaded => Loaded(p) = bus[p]
      BY DEF Loaded
    <2>5. StoreTypeOK'
      BY <1>1, <2>1, <2>3, TypesKept, RunTypes DEF RunInv
    <2>6. DoingInv'
      BY <1>1, <2>1 DEF RunInv, DoingInv
    <2>7. SeenInv'
      BY <1>1, <2>2, <2>3, <2>4, BusKnowsMore DEF RunInv
    <2>8. LastLineInv' /\ OnceInv' /\ CoherentInv'
      BY <1>1, <2>1 DEF RunInv, LastLineInv, GoodLines, OnceInv, Once, Has, Fresh, CoherentInv
    <2>9. FinishInv'
      BY <1>1, <2>1 DEF RunInv, FinishInv, Finishing, DoneEvents
    <2> QED
      BY <2>5, <2>6, <2>7, <2>8, <2>9 DEF RunInv
  <1> QED
    BY <1>3, <1>4

\* A step that changes nothing a property of the repository speaks of.
LEMMA RunSame ==
    ASSUME RunInv, UNCHANGED <<stored, repo, history>>
    PROVE  RunInv'
  <1>1. UNCHANGED <<events, jsonl, open, bus, checkpoint, bridge, cached, file, doing, ending,
                    want, raced, restarted, relayed>>
    BY DEF stored, repo, history
  <1>2. StoreTypeOK'
    BY <1>1, TypesKept, RunTypes DEF RunInv
  <1>3. DoingInv' /\ SeenInv'
    BY <1>1 DEF RunInv, DoingInv, SeenInv
  <1>4. LastLineInv' /\ OnceInv' /\ CoherentInv'
    BY <1>1 DEF RunInv, LastLineInv, GoodLines, OnceInv, Once, Has, Fresh, CoherentInv
  <1>5. FinishInv'
    BY <1>1 DEF RunInv, FinishInv, Finishing, DoneEvents
  <1> QED
    BY <1>2, <1>3, <1>4, <1>5 DEF RunInv

LEMMA CallKeeps ==
    ASSUME RunInv, NEW p \in Procs, NEW op \in {"artifact", "removeArtifact"}, Call(p, op)
    PROVE  RunInv'
  <1>1. UNCHANGED <<events, jsonl, open, bus, checkpoint, bridge, cached, file, ending, want, raced,
                    restarted, relayed>>
    BY DEF Call, stored, history
  <1> DEFINE c == [at |-> "get", op |-> op, ev |-> 0]
  <1>2. doing \in [Procs -> Calls(Len(events))] /\ Len(events) \in Nat
    BY RunTypes DEF RunInv, DoingInv
  <1>3. c \in Calls(Len(events)) /\ c.at = "get" /\ c.op = op
    BY <1>2 DEF Calls
  <1>4. doing' = [doing EXCEPT ![p] = c]
    BY DEF Call
  <1> HIDE DEF c
  <1>5. /\ doing' \in [Procs -> Calls(Len(events))] /\ doing'[p] = c
        /\ \A q \in Procs \ {p} : doing'[q] = doing[q]
    BY <1>2, <1>3, <1>4
  <1>6. StoreTypeOK'
    BY <1>1, TypesKept, RunTypes DEF RunInv
  <1>7. DoingInv'
    BY <1>1, <1>3, <1>5 DEF RunInv, DoingInv
  <1>8. LastLineInv' /\ CoherentInv'
    BY <1>1, <1>3, <1>5 DEF RunInv, LastLineInv, GoodLines, CoherentInv
  <1>9. OnceInv'
    BY <1>1, <1>3, <1>5 DEF RunInv, OnceInv, Once, Has, Fresh
  <1>10. FinishInv'
    BY <1>1, <1>3, <1>5 DEF RunInv, FinishInv, Finishing, DoneEvents
  <1>11. SeenInv'
    BY <1>1, <1>3, <1>5 DEF RunInv, SeenInv
  <1> QED
    BY <1>6, <1>7, <1>8, <1>9, <1>10, <1>11 DEF RunInv

\* The copy of a process is replaced by what get returns, and nothing else about the
\* snapshots changes.
Reloads(p) ==
    /\ cached' = [cached EXCEPT ![p] = get(p)]
    /\ UNCHANGED <<file, want>>

LEMMA ReloadFacts ==
    ASSUME RunInv, NEW p \in Procs, Reloads(p)
    PROVE  /\ cached' \in [Procs -> [snap : SnapshotsTo(Len(events)), newer : BOOLEAN]]
           /\ cached'[p] = get(p) /\ \A q \in Procs \ {p} : cached'[q] = cached[q]
           /\ cached'[p].snap \in {file, cached[p].snap}
           /\ cached'[p].snap.status \in {"Running", "Done"}
           /\ raced \/ cached'[p].snap = file
           /\ Once(cached'[p].snap, relayed)
           /\ \A e : ~ Has(file, e) /\ ~ Has(cached[p].snap, e) => ~ Has(cached'[p].snap, e)
  <1>1. cached \in [Procs -> [snap : SnapshotsTo(Len(events)), newer : BOOLEAN]]
    BY RunTypes DEF RunInv
  <1>2. /\ get(p) \in [snap : SnapshotsTo(Len(events)), newer : BOOLEAN]
        /\ get(p).snap.status \in {"Running", "Done"}
        /\ get(p).snap \in {file, cached[p].snap}
        /\ raced \/ get(p).snap = file
    BY GetFacts DEF RunInv
  <1>3. /\ cached' \in [Procs -> [snap : SnapshotsTo(Len(events)), newer : BOOLEAN]]
        /\ cached'[p] = get(p) /\ \A q \in Procs \ {p} : cached'[q] = cached[q]
    BY <1>1, <1>2 DEF Reloads
  <1>4. Once(file, relayed) /\ Once(cached[p].snap, relayed)
    BY DEF RunInv, OnceInv, Fresh
  <1>5. CASE get(p).snap = file
    BY <1>2, <1>3, <1>4, <1>5
  <1>6. CASE get(p).snap = cached[p].snap
    BY <1>2, <1>3, <1>4, <1>6
  <1> QED
    BY <1>2, <1>5, <1>6

LEMMA RequireKeeps ==
    ASSUME RunInv, NEW p \in Procs, Require(p)
    PROVE  RunInv'
  <1>1. /\ UNCHANGED <<events, jsonl, open, bus, checkpoint, bridge, file, ending, want, raced>>
        /\ UNCHANGED <<restarted, relayed>> /\ Reloads(p) /\ doing[p].at = "get"
    BY DEF Require, stored, Reloads, history
  <1>2. doing \in [Procs -> Calls(Len(events))] /\ Len(events) \in Nat
    BY RunTypes DEF RunInv, DoingInv
  <1> DEFINE c == doing'[p]
  <1>3. \/ c = Idle
        \/ c.at = "write" /\ c.op = doing[p].op /\ c.ev = doing[p].ev
    BY <1>2 DEF Require, Calls
  <1>4. c \in Calls(Len(events))
    BY <1>2 DEF Require, Calls, Idle
  <1>5. /\ doing' \in [Procs -> Calls(Len(events))]
        /\ \A q \in Procs \ {p} : doing'[q] = doing[q]
    BY <1>2, <1>4 DEF Require
  <1>6. Idle.at = "idle" /\ Idle.op = "none"
    BY DEF Idle
  <1> HIDE DEF c
  <1>7. doing'[p] = c
    BY DEF c
  <1>8. doing[p].op # "none"
    BY <1>1 DEF RunInv, DoingInv
  <1>9. StoreTypeOK'
    BY <1>1, TypesKept, RunTypes, ReloadFacts DEF RunInv
  <1>10. DoingInv'
    <2>1. ASSUME NEW q \in Procs
          PROVE  /\ doing'[q].at = "idle" <=> doing'[q].op = "none"
                 /\ doing'[q].op = "event" => doing'[q].ev \in 1..Len(events)
                 /\ doing'[q].at = "observed" => doing'[q].op = "event"
                 /\ doing'[q].at = "announce" => doing'[q].op = "finish"
                 /\ cached'[q].snap = NoSnapshot \/ cached'[q].snap.status # "none"
                 /\ doing'[q].at \in {"write", "stat"} => cached'[q].snap.status # "none"
      <3>1. CASE q = p
        BY <1>1, <1>3, <1>6, <1>7, <1>8, <3>1, ReloadFacts DEF RunInv, DoingInv
      <3>2. CASE q # p
        BY <1>1, <1>5, <3>2, ReloadFacts DEF RunInv, DoingInv
      <3> QED
        BY <3>1, <3>2
    <2> QED
      BY <1>1, <1>5, <2>1 DEF RunInv, DoingInv
  <1>11. LastLineInv'
    BY <1>1 DEF RunInv, LastLineInv, GoodLines
  <1>12. OnceInv'
    <2>1. \A q \in Procs : Once(cached'[q].snap, relayed)
      BY <1>1, ReloadFacts DEF RunInv, OnceInv, Fresh
    <2>2. ASSUME NEW q \in Procs, doing'[q].op = "event"
          PROVE  doing[q].op = "event" /\ doing'[q].ev = doing[q].ev
      BY <1>3, <1>5, <1>6, <1>7, <2>2
    <2>3. ASSUME NEW q \in Procs, Fresh(q)', doing'[q].at \in {"get", "write"},
                 NEW r \in Procs
          PROVE  ~ Has(file, doing'[q].ev) /\ ~ Has(cached'[r].snap, doing'[q].ev)
      <3>1. Fresh(q) /\ doing[q].at \in {"get", "write"} /\ doing'[q].ev = doing[q].ev
        BY <1>1, <1>3, <1>5, <1>6, <1>7, <2>2, <2>3 DEF Fresh
      <3>2. ~ Has(file, doing[q].ev) /\ \A s \in Procs : ~ Has(cached[s].snap, doing[q].ev)
        BY <3>1 DEF RunInv, OnceInv
      <3> QED
        BY <1>1, <3>1, <3>2, ReloadFacts
    <2> QED
      BY <1>1, <2>1, <2>2, <2>3 DEF RunInv, OnceInv, Once, Has, Fresh
  <1>13. CoherentInv'
    BY <1>1, <1>3, <1>5, <1>6, <1>7, ReloadFacts DEF RunInv, CoherentInv
  <1>14. FinishInv'
    BY <1>1, <1>3, <1>5, <1>6, <1>7 DEF RunInv, FinishInv, Finishing, DoneEvents
  <1>15. SeenInv'
    BY <1>1, <1>3, <1>5, <1>6, <1>7 DEF RunInv, SeenInv
  <1> QED
    BY <1>9, <1>10, <1>11, <1>12, <1>13, <1>14, <1>15 DEF RunInv

\* An event more in a snapshot that did not have it, or may have it twice.
LEMMA OnceAppended ==
    ASSUME NEW n \in Nat, NEW s \in SnapshotsTo(n), NEW t \in SnapshotsTo(n), NEW e \in 1..n,
           NEW r, t.evs = Append(s.evs, e), Once(s, r), e \in r \/ ~ Has(s, e)
    PROVE  Once(t, r) /\ \A f : f # e /\ ~ Has(s, f) => ~ Has(t, f)
  <1>1. s.evs \in Seq(1..n)
    BY DEF SnapshotsTo
  <1>2. /\ Len(s.evs) \in Nat /\ Len(t.evs) = Len(s.evs) + 1 /\ t.evs[Len(s.evs) + 1] = e
        /\ \A i \in 1..Len(s.evs) : t.evs[i] = s.evs[i]
    BY <1>1
  <1> DEFINE k == Len(s.evs) + 1
  <1>3. ASSUME NEW i \in 1..k, NEW j \in 1..k, i # j, t.evs[i] = t.evs[j]
        PROVE  t.evs[i] \in r
    <2>1. CASE i = k \/ j = k
      <3>1. PICK m \in 1..Len(s.evs) : s.evs[m] = e /\ t.evs[i] = e
        BY <1>2, <1>3, <2>1
      <3> QED
        BY <3>1 DEF Has
    <2>2. CASE i # k /\ j # k
      BY <1>2, <1>3, <2>2 DEF Once
    <2> QED
      BY <2>1, <2>2
  <1>4. Once(t, r)
    BY <1>2, <1>3 DEF Once
  <1> QED
    BY <1>2, <1>4 DEF Has

LEMMA PersistKeeps ==
    ASSUME RunInv, NEW p \in Procs, Persist(p)
    PROVE  RunInv'
  <1> DEFINE n == Len(events)
             s == Mutated(cached[p].snap, doing[p])
  <1>1. /\ UNCHANGED <<events, jsonl, open, bus, checkpoint, bridge, ending, restarted, relayed>>
        /\ doing[p].at = "write" /\ file' = s /\ want' = Mutated(want, doing[p])
        /\ doing' = [doing EXCEPT ![p].at = "stat"]
    BY DEF Persist, stored, history
  <1>2. PICK ticked \in BOOLEAN :
            /\ cached' = [q \in Procs |-> [snap |-> IF q = p THEN s ELSE cached[q].snap,
                                           newer |-> ticked \/ cached[q].newer]]
            /\ raced' = (raced \/ ~ticked \/ Meets(p))
    BY DEF Persist
  <1>3. doing \in [Procs -> Calls(n)] /\ n \in Nat /\ doing[p].op # "none" /\ raced \in BOOLEAN
        /\ (doing[p].op = "event" => doing[p].ev \in 1..n) /\ want \in SnapshotsTo(n)
    BY <1>1, RunTypes DEF RunInv, DoingInv
  <1>4. cached \in [Procs -> [snap : SnapshotsTo(n), newer : BOOLEAN]] /\ doing[p] \in Calls(n)
    BY <1>3, RunTypes DEF RunInv
  <1>5. /\ s \in SnapshotsTo(n)
        /\ doing[p].op = "finish" => s.status = "Done"
        /\ doing[p].op # "finish" => s.status = cached[p].snap.status
        /\ doing[p].op # "event" => s.evs = cached[p].snap.evs
        /\ doing[p].op = "event" => s.evs = Append(cached[p].snap.evs, doing[p].ev)
    BY <1>3, <1>4, MutatedFacts
  <1>6. s.status # "none"
    BY <1>1, <1>5 DEF RunInv, DoingInv
  <1>7. want' \in SnapshotsTo(n)
    BY <1>1, <1>3, <1>4, MutatedFacts
  <1>8. /\ doing' \in [Procs -> Calls(n)]
        /\ doing'[p].at = "stat" /\ doing'[p].op = doing[p].op /\ doing'[p].ev = doing[p].ev
        /\ \A q \in Procs \ {p} : doing'[q] = doing[q]
    <2>1. [doing[p] EXCEPT !.at = "stat"] \in Calls(n)
      BY <1>4 DEF Calls
    <2> QED
      BY <1>1, <1>3, <1>4, <2>1 DEF Calls
  <1>9. raced' \in BOOLEAN /\ (raced => raced')
    BY <1>2, <1>3
  <1>10. ~ raced' => \A q \in Procs \ {p} : doing[q].at \notin {"write", "stat"}
    BY <1>2 DEF Meets
  <1>11. ~ raced' => s = Mutated(file, doing[p]) /\ file = want /\ cached[p].snap = file /\ ticked
    BY <1>1, <1>2, <1>3 DEF RunInv, CoherentInv
  <1>12. Once(s, relayed) /\ \A f : ~ Has(cached[p].snap, f)
                           /\ (doing[p].op = "event" => f # doing[p].ev) => ~ Has(s, f)
    <2>1. Once(cached[p].snap, relayed) /\ cached[p].snap \in SnapshotsTo(n)
      BY <1>4 DEF RunInv, OnceInv, Fresh
    <2>2. CASE doing[p].op # "event"
      BY <1>5, <2>1, <2>2 DEF Once, Has
    <2>3. CASE doing[p].op = "event"
      <3>1. doing[p].ev \in relayed \/ ~ Has(cached[p].snap, doing[p].ev)
        BY <1>1, <2>3 DEF RunInv, OnceInv, Fresh
      <3> DEFINE c == cached[p].snap
                 e == doing[p].ev
      <3>2. /\ n \in Nat /\ c \in SnapshotsTo(n) /\ s \in SnapshotsTo(n) /\ e \in 1..n
            /\ s.evs = Append(c.evs, e) /\ Once(c, relayed) /\ (e \in relayed \/ ~ Has(c, e))
        BY <1>1, <1>3, <1>5, <2>1, <2>3, <3>1 DEF RunInv, DoingInv, Calls
      <3> HIDE DEF s, n, c, e
      <3>3. Once(s, relayed) /\ \A f : f # e /\ ~ Has(c, f) => ~ Has(s, f)
        BY ONLY <3>2, OnceAppended
      <3> QED
        BY <2>3, <3>3 DEF c, e
    <2> QED
      BY <2>2, <2>3
  <1> HIDE DEF s
  <1>13. /\ cached'[p].snap = s
         /\ \A q \in Procs \ {p} : cached'[q].snap = cached[q].snap
         /\ \A q \in Procs : cached'[q].newer = (ticked \/ cached[q].newer)
    BY <1>2, <1>4
  <1>14. cached' \in [Procs -> [snap : SnapshotsTo(n), newer : BOOLEAN]]
    BY <1>2, <1>4, <1>5
  <1>15. StoreTypeOK'
    BY <1>1, <1>5, <1>6, <1>14, TypesKept, RunTypes DEF RunInv
  <1>16. DoingInv'
    <2>1. ASSUME NEW q \in Procs
          PROVE  /\ doing'[q].at = "idle" <=> doing'[q].op = "none"
                 /\ doing'[q].op = "event" => doing'[q].ev \in 1..n
                 /\ doing'[q].at = "observed" => doing'[q].op = "event"
                 /\ doing'[q].at = "announce" => doing'[q].op = "finish"
                 /\ cached'[q].snap = NoSnapshot \/ cached'[q].snap.status # "none"
                 /\ doing'[q].at \in {"write", "stat"} => cached'[q].snap.status # "none"
      <3>1. CASE q = p
        BY <1>3, <1>6, <1>8, <1>13, <3>1
      <3>2. CASE q # p
        BY <1>8, <1>13, <3>2 DEF RunInv, DoingInv
      <3> QED
        BY <3>1, <3>2
    <2> QED
      BY <1>1, <1>7, <1>8, <1>9, <2>1 DEF RunInv, DoingInv
  <1>17. LastLineInv'
    BY <1>1 DEF RunInv, LastLineInv, GoodLines
  <1>18. OnceInv'
    <2>1. \A q \in Procs : Once(cached'[q].snap, relayed)
      BY <1>12, <1>13 DEF RunInv, OnceInv, Fresh
    <2>2. ASSUME NEW q \in Procs, Fresh(q)', doing'[q].at \in {"get", "write"},
                 NEW r \in Procs
          PROVE  ~ Has(s, doing'[q].ev) /\ ~ Has(cached'[r].snap, doing'[q].ev)
      <3>1. q # p /\ doing'[q] = doing[q] /\ Fresh(q)
        BY <1>1, <1>8, <2>2 DEF Fresh
      <3>2. \A t \in Procs : ~ Has(cached[t].snap, doing[q].ev)
        BY <2>2, <3>1 DEF RunInv, OnceInv, Fresh
      <3>3. doing[p].op = "event" => doing[q].ev # doing[p].ev
        BY <2>2, <3>1 DEF RunInv, OnceInv, Fresh
      <3>4. ~ Has(s, doing[q].ev)
        BY <1>12, <3>2, <3>3
      <3> QED
        BY <1>13, <3>1, <3>2, <3>4
    <2>3. \A q \in Procs : doing'[q].op = doing[q].op /\ doing'[q].ev = doing[q].ev
      BY <1>8
    <2>4. \A q, r \in Procs : Fresh(q)' /\ doing'[r].op = "event" /\ q # r =>
              doing'[q].ev # doing'[r].ev
      BY <1>1, <2>3 DEF RunInv, OnceInv, Fresh
    <2>5. Once(file', relayed)
      BY <1>1, <1>12
    <2> QED
      BY <1>1, <2>1, <2>2, <2>4, <2>5 DEF OnceInv, Once, Has
  <1>19. CoherentInv'
    <2>1. SUFFICES ASSUME ~ raced'
                   PROVE  /\ file' = want'
                          /\ \A q \in Procs : doing'[q].at \in {"write", "stat"} =>
                                 cached'[q].snap = file'
                          /\ \A q \in Procs : cached'[q].newer
      BY DEF CoherentInv
    <2>2. file' = want'
      BY <1>1, <1>11, <2>1
    <2>3. \A q \in Procs : doing'[q].at \in {"write", "stat"} => cached'[q].snap = file'
      BY <1>1, <1>8, <1>10, <1>13, <2>1
    <2>4. \A q \in Procs : cached'[q].newer
      BY <1>11, <1>13, <2>1
    <2> QED
      BY <2>2, <2>3, <2>4
  <1>20. FinishInv'
    <2>1. \A q \in Procs : ending'[q] = ending[q] /\ doing'[q].op = doing[q].op
      BY <1>1, <1>8
    <2>2. \A q \in Procs : Finishing(q)' = Finishing(q)
      BY <2>1 DEF Finishing
    <2>3. DoneEvents' = DoneEvents
      BY <1>1 DEF DoneEvents
    <2>4. \A q \in Procs : ending'[q] = "no" \/ doing'[q].op # "finish"
      BY <2>1 DEF RunInv, FinishInv
    <2>5. ASSUME ~ raced' PROVE
          /\ \A q \in Procs :
                 /\ ending'[q] = "Running" => file'.status = "Running"
                 /\ doing'[q].op = "finish" /\ doing'[q].at \in {"get", "write"}
                        => file'.status = "Running"
                 /\ doing'[q].op = "finish" /\ doing'[q].at \in {"stat", "announce"}
                        => file'.status = "Done" /\ DoneEvents = {}
          /\ DoneEvents # {} => file'.status = "Done"
      <3>1. CASE doing[p].op # "finish"
        <4>1. file'.status = file.status
          BY <1>1, <1>5, <1>11, <2>5, <3>1
        <4> QED
          BY <1>8, <1>9, <2>1, <2>5, <3>1, <4>1 DEF RunInv, FinishInv
      <3>2. CASE doing[p].op = "finish"
        <4>1. file'.status = "Done"
          BY <1>1, <1>5, <3>2
        <4>2. DoneEvents = {}
          BY <1>1, <1>9, <2>5, <3>2 DEF RunInv, FinishInv
        <4>3. \A q \in Procs \ {p} : ending'[q] = "no" /\ doing'[q].op # "finish"
          BY <1>9, <2>1, <2>5, <3>2 DEF RunInv, FinishInv, Finishing
        <4>4. ending'[p] = "no"
          BY <2>1, <2>4, <3>2
        <4> QED
          BY <1>8, <4>1, <4>2, <4>3, <4>4
      <3> QED
        BY <3>1, <3>2
    <2>6. ~ raced' => /\ \A q, r \in Procs : Finishing(q)' /\ Finishing(r)' => q = r
                      /\ \A d, e \in DoneEvents : d = e
      BY <1>9, <2>2 DEF RunInv, FinishInv
    <2> QED
      BY <2>3, <2>4, <2>5, <2>6 DEF FinishInv
  <1>21. SeenInv'
    BY <1>1, <1>8 DEF RunInv, SeenInv
  <1> QED
    BY <1>15, <1>16, <1>17, <1>18, <1>19, <1>20, <1>21 DEF RunInv

LEMMA NoteDiskVersionKeeps ==
    ASSUME RunInv, NEW p \in Procs, NoteDiskVersion(p)
    PROVE  RunInv'
  <1> DEFINE n == Len(events)
             c == doing'[p]
  <1>1. /\ UNCHANGED <<events, jsonl, open, bus, checkpoint, bridge, file, ending, want, raced>>
        /\ UNCHANGED <<restarted, relayed>> /\ doing[p].at = "stat" /\ cached' = [cached EXCEPT ![p].newer = FALSE]
    BY DEF NoteDiskVersion, stored, history
  <1>2. doing \in [Procs -> Calls(n)] /\ n \in Nat /\ doing[p].op # "none"
    BY <1>1, RunTypes DEF RunInv, DoingInv
  <1>3. cached \in [Procs -> [snap : SnapshotsTo(n), newer : BOOLEAN]]
    BY RunTypes DEF RunInv
  <1>4. Idle \in Calls(n) /\ Idle.at = "idle" /\ Idle.op = "none"
    BY <1>2 DEF Idle, Calls
  <1>5. /\ \/ c = Idle /\ doing[p].op \notin {"event", "finish"}
           \/ /\ c.op = doing[p].op /\ c.ev = doing[p].ev
              /\ \/ c.op = "event" /\ c.at = "observed"
                 \/ c.op = "finish" /\ c.at = "announce"
        /\ doing' \in [Procs -> Calls(n)] /\ \A q \in Procs \ {p} : doing'[q] = doing[q]
    <2>1. doing[p] \in Calls(n)
      BY <1>2
    <2>2. /\ [doing[p] EXCEPT !.at = "observed"] \in Calls(n)
          /\ [doing[p] EXCEPT !.at = "announce"] \in Calls(n)
      BY <2>1 DEF Calls
    <2>3. CASE doing[p].op = "event"
      <3>1. doing' = [doing EXCEPT ![p] = [doing[p] EXCEPT !.at = "observed"]]
        BY <1>2, <2>3 DEF NoteDiskVersion
      <3>2. doing' \in [Procs -> Calls(n)] /\ \A q \in Procs \ {p} : doing'[q] = doing[q]
        BY <1>2, <2>2, <3>1
      <3>3. c = [doing[p] EXCEPT !.at = "observed"]
        BY <1>2, <3>1
      <3> QED
        BY <2>1, <2>3, <3>2, <3>3 DEF Calls
    <2>4. CASE doing[p].op = "finish"
      <3>1. doing' = [doing EXCEPT ![p] = [doing[p] EXCEPT !.at = "announce"]]
        BY <1>2, <2>4 DEF NoteDiskVersion
      <3>2. doing' \in [Procs -> Calls(n)] /\ \A q \in Procs \ {p} : doing'[q] = doing[q]
        BY <1>2, <2>2, <3>1
      <3>3. c = [doing[p] EXCEPT !.at = "announce"]
        BY <1>2, <3>1
      <3> QED
        BY <2>1, <2>4, <3>2, <3>3 DEF Calls
    <2>5. CASE doing[p].op \notin {"event", "finish"}
      <3>1. doing' = [doing EXCEPT ![p] = Idle]
        BY <1>2, <2>5 DEF NoteDiskVersion
      <3> QED
        BY <1>2, <1>4, <2>5, <3>1
    <2> QED
      BY <2>3, <2>4, <2>5
  <1> HIDE DEF c
  <1>6. doing'[p] = c
    BY DEF c
  <1>7. /\ \A q \in Procs : cached'[q].snap = cached[q].snap
        /\ cached'[p].newer = FALSE /\ \A q \in Procs \ {p} : cached'[q].newer = cached[q].newer
        /\ cached' \in [Procs -> [snap : SnapshotsTo(n), newer : BOOLEAN]]
    BY <1>1, <1>3
  <1>8. StoreTypeOK'
    BY <1>1, <1>7, TypesKept, RunTypes DEF RunInv
  <1>9. DoingInv'
    <2>1. ASSUME NEW q \in Procs
          PROVE  /\ doing'[q].at = "idle" <=> doing'[q].op = "none"
                 /\ doing'[q].op = "event" => doing'[q].ev \in 1..n
                 /\ doing'[q].at = "observed" => doing'[q].op = "event"
                 /\ doing'[q].at = "announce" => doing'[q].op = "finish"
                 /\ doing'[q].at \in {"write", "stat"} => cached[q].snap.status # "none"
      BY <1>4, <1>5, <1>6 DEF RunInv, DoingInv
    <2>2. \A q \in Procs : cached'[q].snap = NoSnapshot \/ cached'[q].snap.status # "none"
      BY <1>7 DEF RunInv, DoingInv
    <2> QED
      BY <1>1, <1>5, <1>7, <2>1, <2>2 DEF RunInv, DoingInv
  <1>10. LastLineInv'
    BY <1>1 DEF RunInv, LastLineInv, GoodLines
  <1>11. OnceInv'
    <2>1. \A q \in Procs : doing'[q].op = "event" =>
              /\ doing[q].op = "event" /\ doing'[q].ev = doing[q].ev
              /\ doing'[q].at \in {"get", "write"} => doing[q].at \in {"get", "write"}
      BY <1>4, <1>5, <1>6
    <2> QED
      BY <1>1, <1>7, <2>1 DEF RunInv, OnceInv, Once, Has, Fresh
  <1>12. CoherentInv'
    <2>1. raced \/ cached[p].snap = file
      BY <1>1 DEF RunInv, CoherentInv
    <2>2. \A q \in Procs : doing'[q].at \in {"write", "stat"} => doing[q].at \in {"write", "stat"}
      BY <1>4, <1>5, <1>6
    <2> QED
      BY <1>1, <1>7, <2>1, <2>2 DEF RunInv, CoherentInv
  <1>13. FinishInv'
    <2>1. \A q \in Procs : doing'[q].op = "finish" =>
              /\ doing[q].op = "finish"
              /\ doing'[q].at = doing[q].at \/ (doing[q].at = "stat" /\ doing'[q].at = "announce")
      BY <1>1, <1>4, <1>5, <1>6
    <2>2. \A q \in Procs : Finishing(q)' => Finishing(q)
      BY <1>1, <2>1 DEF Finishing
    <2>3. DoneEvents' = DoneEvents
      BY <1>1 DEF DoneEvents
    <2> QED
      BY <1>1, <2>1, <2>2, <2>3 DEF RunInv, FinishInv
  <1>14. SeenInv'
    BY <1>1, <1>4, <1>5, <1>6 DEF RunInv, SeenInv
  <1> QED
    BY <1>8, <1>9, <1>10, <1>11, <1>12, <1>13, <1>14 DEF RunInv

LEMMA OnEventKeeps ==
    ASSUME RunInv, NEW p \in Procs, OnEvent(p)
    PROVE  RunInv'
  <1> DEFINE n == Len(events)
  <1>1. /\ UNCHANGED <<events, jsonl, open, bus, file, ending, want, raced, restarted, relayed>>
        /\ doing[p].at = "observed" /\ Reloads(p) /\ doing' = [doing EXCEPT ![p] = Idle]
    BY DEF OnEvent, Reloads, history
  <1>2. /\ doing \in [Procs -> Calls(n)] /\ n \in Nat
        /\ doing[p].op = "event" /\ doing[p].ev \in 1..n
    BY <1>1, RunTypes DEF RunInv, DoingInv
  <1>3. Idle \in Calls(n) /\ Idle.at = "idle" /\ Idle.op = "none"
    BY <1>2 DEF Idle, Calls
  <1>4. /\ doing' \in [Procs -> Calls(n)] /\ doing'[p] = Idle
        /\ \A q \in Procs \ {p} : doing'[q] = doing[q]
    BY <1>1, <1>2, <1>3
  <1>5. checkpoint' \in 0..n /\ bridge' \in [Procs -> SUBSET (1..n)]
    <2>1. checkpoint \in 0..n /\ bridge \in [Procs -> SUBSET (1..n)] /\ doing[p].ev \in 0..n
      BY <1>2, RunTypes DEF RunInv
    <2> QED
      BY <1>2, <2>1 DEF OnEvent
  <1>6. StoreTypeOK'
    BY <1>1, <1>5, TypesKept, RunTypes, ReloadFacts DEF RunInv
  <1>7. SeenInv'
    BY <1>1 DEF RunInv, SeenInv
  <1>8. DoingInv'
    <2>1. ASSUME NEW q \in Procs
          PROVE  /\ doing'[q].at = "idle" <=> doing'[q].op = "none"
                 /\ doing'[q].op = "event" => doing'[q].ev \in 1..n
                 /\ doing'[q].at = "observed" => doing'[q].op = "event"
                 /\ doing'[q].at = "announce" => doing'[q].op = "finish"
                 /\ cached'[q].snap = NoSnapshot \/ cached'[q].snap.status # "none"
                 /\ doing'[q].at \in {"write", "stat"} => cached'[q].snap.status # "none"
      <3>1. CASE q = p
        BY <1>1, <1>3, <1>4, <3>1, ReloadFacts
      <3>2. CASE q # p
        BY <1>1, <1>4, <3>2, ReloadFacts DEF RunInv, DoingInv
      <3> QED
        BY <3>1, <3>2
    <2> QED
      BY <1>1, <1>4, <2>1 DEF RunInv, DoingInv
  <1>9. LastLineInv'
    BY <1>1 DEF RunInv, LastLineInv, GoodLines
  <1>10. OnceInv'
    <2>1. \A q \in Procs : Once(cached'[q].snap, relayed)
      BY <1>1, ReloadFacts DEF RunInv, OnceInv, Fresh
    <2>2. \A q \in Procs : doing'[q].op = "event" => doing'[q] = doing[q]
      BY <1>3, <1>4
    <2>3. ASSUME NEW q \in Procs, Fresh(q)', doing'[q].at \in {"get", "write"},
                 NEW r \in Procs
          PROVE  ~ Has(file, doing'[q].ev) /\ ~ Has(cached'[r].snap, doing'[q].ev)
      <3>1. ~ Has(file, doing[q].ev) /\ \A s \in Procs : ~ Has(cached[s].snap, doing[q].ev)
        BY <1>1, <2>2, <2>3 DEF RunInv, OnceInv, Fresh
      <3>2. doing'[q].ev = doing[q].ev
        BY <2>2, <2>3 DEF Fresh
      <3> QED
        BY <1>1, <3>1, <3>2, ReloadFacts
    <2>4. \A q, r \in Procs : Fresh(q)' /\ doing'[r].op = "event" /\ q # r =>
              doing'[q].ev # doing'[r].ev
      BY <1>1, <2>2 DEF RunInv, OnceInv, Fresh
    <2> QED
      BY <1>1, <2>1, <2>3, <2>4 DEF RunInv, OnceInv, Once, Has, Fresh
  <1>11. CoherentInv'
    BY <1>1, <1>3, <1>4, ReloadFacts DEF RunInv, CoherentInv
  <1>12. FinishInv'
    BY <1>1, <1>3, <1>4 DEF RunInv, FinishInv, Finishing, DoneEvents
  <1> QED
    BY <1>6, <1>7, <1>8, <1>9, <1>10, <1>11, <1>12 DEF RunInv

LEMMA FinishReadKeeps ==
    ASSUME RunInv, NEW p \in Procs, FinishRead(p)
    PROVE  RunInv'
  <1> DEFINE n == Len(events)
  <1>1. /\ UNCHANGED <<events, jsonl, open, bus, checkpoint, bridge, file, doing, want>>
        /\ UNCHANGED <<restarted, relayed>>
        /\ doing[p].at = "idle" /\ ending[p] = "no" /\ Reloads(p)
        /\ ending' = [ending EXCEPT ![p] = get(p).snap.status]
        /\ raced' = (raced \/ \E q \in Procs \ {p} : ending[q] # "no" \/ doing[q].op = "finish")
    BY DEF FinishRead, stored, Reloads, Free, history
  <1>2. ending \in [Procs -> {"no", "Running", "Done"}] /\ raced \in BOOLEAN
    BY RunTypes DEF RunInv, DoingInv
  <1>3. get(p).snap.status \in {"Running", "Done"} /\ (raced \/ get(p).snap = file)
    BY GetFacts DEF RunInv
  <1>4. /\ ending' \in [Procs -> {"no", "Running", "Done"}] /\ ending'[p] = get(p).snap.status
        /\ \A q \in Procs \ {p} : ending'[q] = ending[q]
    BY <1>1, <1>2, <1>3
  <1>5. raced' \in BOOLEAN /\ (raced => raced')
    BY <1>1, <1>2
  <1>6. StoreTypeOK'
    BY <1>1, <1>4, TypesKept, RunTypes, ReloadFacts DEF RunInv
  <1>7. DoingInv' /\ SeenInv'
    <2>1. ASSUME NEW q \in Procs
          PROVE  /\ cached'[q].snap = NoSnapshot \/ cached'[q].snap.status # "none"
                 /\ doing[q].at \in {"write", "stat"} => cached'[q].snap.status # "none"
      BY <1>1, ReloadFacts DEF RunInv, DoingInv
    <2>2. DoingInv'
      BY <1>1, <1>5, <2>1 DEF RunInv, DoingInv
    <2> QED
      BY <1>1, <2>2 DEF RunInv, SeenInv
  <1>8. LastLineInv'
    BY <1>1 DEF RunInv, LastLineInv, GoodLines
  <1>9. OnceInv'
    <2>1. \A q \in Procs : Once(cached'[q].snap, relayed)
      BY <1>1, ReloadFacts DEF RunInv, OnceInv, Fresh
    <2>2. ASSUME NEW q \in Procs, Fresh(q), doing[q].at \in {"get", "write"},
                 NEW r \in Procs
          PROVE  ~ Has(file, doing[q].ev) /\ ~ Has(cached'[r].snap, doing[q].ev)
      <3>1. ~ Has(file, doing[q].ev) /\ \A s \in Procs : ~ Has(cached[s].snap, doing[q].ev)
        BY <2>2 DEF RunInv, OnceInv, Fresh
      <3> QED
        BY <1>1, <3>1, ReloadFacts
    <2> QED
      BY <1>1, <2>1, <2>2 DEF RunInv, OnceInv, Once, Has, Fresh
  <1>10. CoherentInv'
    BY <1>1, <1>5, ReloadFacts DEF RunInv, CoherentInv
  <1>11. FinishInv'
    <2>1. doing[p].op = "none"
      BY <1>1 DEF RunInv, DoingInv
    <2>2. DoneEvents' = DoneEvents
      BY <1>1 DEF DoneEvents
    <2>3. ~ raced' => \A q \in Procs \ {p} : ending'[q] = "no" /\ doing'[q].op # "finish"
      BY <1>1, <1>4
    <2>4. ~ raced' => \A q, r \in Procs : Finishing(q)' /\ Finishing(r)' => q = r
      BY <2>3 DEF Finishing
    <2>5. ~ raced' => (ending'[p] = "Running" => file'.status = "Running")
      BY <1>1, <1>3, <1>4, <1>5
    <2>6. \A q \in Procs : ending'[q] = "no" \/ doing'[q].op # "finish"
      BY <1>1, <1>4, <2>1 DEF RunInv, FinishInv
    <2> QED
      BY <1>1, <1>5, <2>1, <2>2, <2>3, <2>4, <2>5, <2>6 DEF RunInv, FinishInv
  <1> QED
    BY <1>6, <1>7, <1>8, <1>9, <1>10, <1>11 DEF RunInv

LEMMA FinishTestKeeps ==
    ASSUME RunInv, NEW p \in Procs, FinishTest(p)
    PROVE  RunInv'
  <1> DEFINE n == Len(events)
             c == IF ending[p] = "Done" THEN Idle ELSE [at |-> "get", op |-> "finish", ev |-> 0]
  <1>1. /\ UNCHANGED <<events, jsonl, open, bus, checkpoint, bridge, cached, file, want, raced>>
        /\ UNCHANGED <<restarted, relayed>> /\ doing[p].at = "idle" /\ ending[p] # "no"
        /\ ending' = [ending EXCEPT ![p] = "no"] /\ doing' = [doing EXCEPT ![p] = c]
    BY DEF FinishTest, stored, Free, history
  <1>2. /\ doing \in [Procs -> Calls(n)] /\ n \in Nat
        /\ ending \in [Procs -> {"no", "Running", "Done"}]
    BY RunTypes DEF RunInv, DoingInv
  <1>3. /\ c \in Calls(n)
        /\ \/ c.at = "idle" /\ c.op = "none"
           \/ c.at = "get" /\ c.op = "finish" /\ ending[p] = "Running"
    BY <1>1, <1>2 DEF Calls, Idle
  <1> HIDE DEF c
  <1>4. /\ doing' \in [Procs -> Calls(n)] /\ doing'[p] = c
        /\ \A q \in Procs \ {p} : doing'[q] = doing[q]
    BY <1>1, <1>2, <1>3
  <1>5. /\ ending' \in [Procs -> {"no", "Running", "Done"}] /\ ending'[p] = "no"
        /\ \A q \in Procs \ {p} : ending'[q] = ending[q]
    BY <1>1, <1>2
  <1>6. StoreTypeOK'
    BY <1>1, <1>5, TypesKept, RunTypes DEF RunInv
  <1>7. DoingInv'
    BY <1>1, <1>3, <1>4 DEF RunInv, DoingInv
  <1>8. SeenInv'
    BY <1>1, <1>3, <1>4 DEF RunInv, SeenInv
  <1>9. LastLineInv' /\ CoherentInv'
    BY <1>1, <1>3, <1>4 DEF RunInv, LastLineInv, GoodLines, CoherentInv
  <1>10. OnceInv'
    BY <1>1, <1>3, <1>4 DEF RunInv, OnceInv, Once, Has, Fresh
  <1>11. FinishInv'
    <2>1. DoneEvents' = DoneEvents
      BY <1>1 DEF DoneEvents
    <2>2. \A q \in Procs : Finishing(q)' => Finishing(q)
      BY <1>1, <1>4, <1>5 DEF Finishing
    <2>3. raced \/ (ending[p] = "Running" => file.status = "Running")
      BY DEF RunInv, FinishInv
    <2> QED
      BY <1>1, <1>3, <1>4, <1>5, <2>1, <2>2, <2>3 DEF RunInv, FinishInv
  <1> QED
    BY <1>6, <1>7, <1>8, <1>9, <1>10, <1>11 DEF RunInv

LEMMA ConnectKeeps ==
    ASSUME RunInv, Connect
    PROVE  RunInv'
  <1> DEFINE p == "server"
  <1>1. /\ UNCHANGED <<events, jsonl, open, bus, checkpoint, bridge, file, doing, ending, want,
                       raced, restarted, relayed>>
        /\ p \in Procs /\ Reloads(p)
    BY DEF Connect, stored, Reloads, Procs, history
  <1> HIDE DEF p
  <1>2. StoreTypeOK'
    BY <1>1, TypesKept, RunTypes, ReloadFacts DEF RunInv
  <1>3. DoingInv' /\ SeenInv'
    <2>1. ASSUME NEW q \in Procs
          PROVE  /\ cached'[q].snap = NoSnapshot \/ cached'[q].snap.status # "none"
                 /\ doing[q].at \in {"write", "stat"} => cached'[q].snap.status # "none"
      BY <1>1, ReloadFacts DEF RunInv, DoingInv
    <2>2. DoingInv'
      BY <1>1, <2>1 DEF RunInv, DoingInv
    <2> QED
      BY <1>1, <2>2 DEF RunInv, SeenInv
  <1>4. LastLineInv'
    BY <1>1 DEF RunInv, LastLineInv, GoodLines
  <1>5. OnceInv'
    <2>1. \A q \in Procs : Once(cached'[q].snap, relayed)
      BY <1>1, ReloadFacts DEF RunInv, OnceInv, Fresh
    <2>2. ASSUME NEW q \in Procs, Fresh(q), doing[q].at \in {"get", "write"},
                 NEW r \in Procs
          PROVE  ~ Has(file, doing[q].ev) /\ ~ Has(cached'[r].snap, doing[q].ev)
      <3>1. ~ Has(file, doing[q].ev) /\ \A s \in Procs : ~ Has(cached[s].snap, doing[q].ev)
        BY <2>2 DEF RunInv, OnceInv, Fresh
      <3> QED
        BY <1>1, <3>1, ReloadFacts
    <2> QED
      BY <1>1, <2>1, <2>2 DEF RunInv, OnceInv, Once, Has, Fresh
  <1>6. CoherentInv'
    BY <1>1, ReloadFacts DEF RunInv, CoherentInv
  <1>7. FinishInv'
    BY <1>1 DEF RunInv, FinishInv, Finishing, DoneEvents
  <1> QED
    BY <1>2, <1>3, <1>4, <1>5, <1>6, <1>7 DEF RunInv

\* A process that dies keeps no copy, no call and no bridge.
LEMMA CrashKeeps ==
    ASSUME RunInv, NEW p \in Procs, Crash(p) \/ CrashInAppend(p)
    PROVE  RunInv'
  <1> DEFINE n == Len(events)
             b == [loaded |-> FALSE, seen |-> {}, sequence |-> 0]
             c == [snap |-> NoSnapshot, newer |-> TRUE]
  <1>1. /\ UNCHANGED <<events, checkpoint, file, want, raced, relayed>> /\ Forgotten(p)
        /\ \/ jsonl' = jsonl /\ open' = open
           \/ jsonl' = Append(jsonl, 0) /\ open' = TRUE
    BY DEF Crash, CrashInAppend
  <1>2. /\ bus' = [bus EXCEPT ![p] = b] /\ cached' = [cached EXCEPT ![p] = c]
        /\ doing' = [doing EXCEPT ![p] = Idle] /\ ending' = [ending EXCEPT ![p] = "no"]
        /\ bridge' = [bridge EXCEPT ![p] = {}] /\ restarted' = restarted \cup {p}
    BY <1>1 DEF Forgotten
  <1>3. /\ n \in Nat /\ doing \in [Procs -> Calls(n)] /\ bus \in [Procs -> BusRecords(n)]
        /\ cached \in [Procs -> [snap : SnapshotsTo(n), newer : BOOLEAN]]
        /\ ending \in [Procs -> {"no", "Running", "Done"}] /\ jsonl \in Seq(0..n)
        /\ open \in BOOLEAN
    BY RunTypes DEF RunInv, DoingInv
  <1>4. b \in BusRecords(n) /\ Idle \in Calls(n) /\ Idle.at = "idle" /\ Idle.op = "none"
    BY <1>3 DEF BusRecords, Idle, Calls
  <1>5. NoSnapshot \in SnapshotsTo(n) /\ NoSnapshot.evs = <<>>
    BY <1>3 DEF NoSnapshot, SnapshotsTo
  <1>6. c \in [snap : SnapshotsTo(n), newer : BOOLEAN] /\ c.snap = NoSnapshot
    BY <1>5
  <1> HIDE DEF b, c
  <1>7. /\ bus' \in [Procs -> BusRecords(n)] /\ \A q \in Procs \ {p} : bus'[q] = bus[q]
        /\ doing' \in [Procs -> Calls(n)] /\ doing'[p] = Idle
        /\ \A q \in Procs \ {p} : doing'[q] = doing[q]
    BY <1>2, <1>3, <1>4
  <1>8. /\ cached' \in [Procs -> [snap : SnapshotsTo(n), newer : BOOLEAN]]
        /\ cached'[p].snap = NoSnapshot /\ \A q \in Procs \ {p} : cached'[q] = cached[q]
    BY <1>2, <1>3, <1>6
  <1>9. /\ ending' \in [Procs -> {"no", "Running", "Done"}] /\ ending'[p] = "no"
        /\ \A q \in Procs \ {p} : ending'[q] = ending[q]
    BY <1>2, <1>3
  <1>10. jsonl' \in Seq(0..n) /\ open' \in BOOLEAN
    <2>1. 0 \in 0..n
      BY <1>3
    <2>2. Append(jsonl, 0) \in Seq(0..n)
      BY <1>3, <2>1
    <2> QED
      BY <1>1, <1>3, <2>2
  <1>11. StoreTypeOK'
    <2>1. bridge' \in [Procs -> SUBSET (1..n)] /\ restarted' \subseteq Procs
      BY <1>2, RunTypes DEF RunInv
    <2> QED
      BY <1>1, <1>7, <1>8, <1>9, <1>10, <2>1, TypesKept, RunTypes DEF RunInv
  <1>12. DoingInv'
    <2>1. ASSUME NEW q \in Procs
          PROVE  /\ doing'[q].at = "idle" <=> doing'[q].op = "none"
                 /\ doing'[q].op = "event" => doing'[q].ev \in 1..n
                 /\ doing'[q].at = "observed" => doing'[q].op = "event"
                 /\ doing'[q].at = "announce" => doing'[q].op = "finish"
                 /\ cached'[q].snap = NoSnapshot \/ cached'[q].snap.status # "none"
                 /\ doing'[q].at \in {"write", "stat"} => cached'[q].snap.status # "none"
      BY <1>4, <1>7, <1>8 DEF RunInv, DoingInv
    <2> QED
      BY <1>1, <1>7, <2>1 DEF RunInv, DoingInv
  <1>13. SeenInv'
    <2>1. ASSUME NEW e \in 1..n PROVE events[e].by \in Procs
      <3>1. events[e] \in EventRecords
        BY RunTypes DEF RunInv
      <3> QED
        BY <3>1 DEF EventRecords
    <2>2. ASSUME NEW e \in 1..n
          PROVE  events[e].by \in restarted' \/
                 (bus'[events[e].by].loaded /\ e \in bus'[events[e].by].seen)
      BY <1>2, <1>7, <2>1 DEF RunInv, SeenInv
    <2> QED
      BY <1>1, <2>2 DEF SeenInv
  <1>14. LastLineInv'
    <2>1. 0 \in Nat
      OBVIOUS
    <2> QED
      BY <1>1, <1>3, <2>1, LastLineKept DEF RunInv
  <1>15. OnceInv'
    <2>1. Once(NoSnapshot, relayed) /\ \A e : ~ Has(NoSnapshot, e)
      BY <1>5 DEF Once, Has
    <2>2. \A q \in Procs : Once(cached'[q].snap, relayed)
      BY <1>8, <2>1 DEF RunInv, OnceInv, Fresh
    <2>3. \A q \in Procs : doing'[q].op = "event" => doing'[q] = doing[q]
      BY <1>4, <1>7
    <2>4. ASSUME NEW q \in Procs, Fresh(q)', doing'[q].at \in {"get", "write"},
                 NEW r \in Procs
          PROVE  ~ Has(file, doing'[q].ev) /\ ~ Has(cached'[r].snap, doing'[q].ev)
      <3>1. ~ Has(file, doing[q].ev) /\ \A t \in Procs : ~ Has(cached[t].snap, doing[q].ev)
        BY <1>1, <2>3, <2>4 DEF RunInv, OnceInv, Fresh
      <3>2. doing'[q].ev = doing[q].ev
        BY <2>3, <2>4 DEF Fresh
      <3> QED
        BY <1>8, <2>1, <3>1, <3>2
    <2>5. \A q, r \in Procs : Fresh(q)' /\ doing'[r].op = "event" /\ q # r =>
              doing'[q].ev # doing'[r].ev
      BY <1>1, <2>3 DEF RunInv, OnceInv, Fresh
    <2> QED
      BY <1>1, <2>2, <2>4, <2>5 DEF RunInv, OnceInv, Once, Has, Fresh
  <1>16. CoherentInv'
    BY <1>1, <1>4, <1>7, <1>8 DEF RunInv, CoherentInv
  <1>17. FinishInv'
    <2>1. DoneEvents' = DoneEvents
      BY <1>1 DEF DoneEvents
    <2>2. \A q \in Procs : Finishing(q)' => Finishing(q)
      BY <1>4, <1>7, <1>9 DEF Finishing
    <2> QED
      BY <1>1, <1>4, <1>7, <1>9, <2>1, <2>2 DEF RunInv, FinishInv
  <1> QED
    BY <1>11, <1>12, <1>13, <1>14, <1>15, <1>16, <1>17 DEF RunInv

LEMMA RunInit == StoreInit => RunInv
  <1> SUFFICES ASSUME StoreInit PROVE RunInv
    OBVIOUS
  <1>1. Len(events) = 0 /\ Len(jsonl) = 0 /\ events = <<>> /\ jsonl = <<>>
    BY DEF StoreInit
  <1>2. /\ Created \in SnapshotsTo(0) /\ NoSnapshot \in SnapshotsTo(0)
        /\ Created.status = "Running" /\ Created.evs = <<>> /\ NoSnapshot.evs = <<>>
    BY DEF Created, NoSnapshot, SnapshotsTo
  <1>3. Idle \in Calls(0) /\ Idle.at = "idle" /\ Idle.op = "none"
    BY DEF Idle, Calls
  <1>4. \A p \in Procs : /\ doing[p] = Idle /\ ending[p] = "no"
                         /\ cached[p].snap \in {Created, NoSnapshot}
                         /\ cached[p].newer \/ cached[p].snap = Created
    BY DEF StoreInit
  <1>5. StoreTypeOK
    <2>1. bus \in [Procs -> BusRecords(0)]
      BY DEF StoreInit, BusRecords
    <2>2. cached \in [Procs -> [snap : SnapshotsTo(0), newer : BOOLEAN]]
      BY <1>2 DEF StoreInit
    <2>3. ending \in [Procs -> {"no", "Running", "Done"}] /\ file = Created
      BY DEF StoreInit
    <2>4. /\ checkpoint \in 0..0 /\ bridge \in [Procs -> SUBSET (1..0)]
          /\ restarted \subseteq Procs /\ relayed \subseteq 1..0
      BY DEF StoreInit
    <2>5. events \in Seq(EventRecords) /\ jsonl \in Seq(0..0)
      BY <1>1
    <2>6. file \in SnapshotsTo(0) /\ file.status # "none"
      BY <1>2, <2>3
    <2>7. Len(events) = 0
      BY <1>1
    <2>8. open \in BOOLEAN
      BY Zenon DEF StoreInit
    <2> QED
      BY <2>1, <2>2, <2>3, <2>4, <2>5, <2>6, <2>7, <2>8, RunTypes
  <1>6. DoingInv /\ SeenInv
    <2>1. doing \in [Procs -> Calls(0)] /\ want = Created /\ raced = FALSE
      BY <1>3 DEF StoreInit
    <2>2. SeenInv
      BY <1>1 DEF SeenInv
    <2>3. DoingInv
      BY <1>1, <1>2, <1>3, <1>4, <2>1 DEF DoingInv
    <2> QED
      BY <2>2, <2>3
  <1>7. LastLineInv
    BY <1>1 DEF LastLineInv, GoodLines
  <1>8. OnceInv
    <2>1. Once(Created, relayed) /\ Once(NoSnapshot, relayed) /\ file = Created
      BY <1>2 DEF Once, StoreInit
    <2> QED
      BY <1>3, <1>4, <2>1 DEF OnceInv, Fresh
  <1>9. CoherentInv
    BY <1>3, <1>4 DEF CoherentInv, StoreInit
  <1>10. FinishInv
    <2>1. DoneEvents = {}
      BY <1>1 DEF DoneEvents
    <2> QED
      BY <1>3, <1>4, <2>1 DEF FinishInv, Finishing
  <1> QED
    BY <1>5, <1>6, <1>7, <1>8, <1>9, <1>10 DEF RunInv

LEMMA RunStep ==
    ASSUME RunInv, [StoreNext]_storeVars
    PROVE  RunInv'
  <1>1. ASSUME NEW p \in Procs, ProcNext(p) PROVE RunInv'
    BY <1>1, EmitKeeps, EmitRejectedKeeps, CallKeeps, RequireKeeps, PersistKeeps,
       NoteDiskVersionKeeps, OnEventKeeps, FinishReadKeeps, FinishTestKeeps, AnnounceKeeps,
       CrashKeeps DEF ProcNext
  <1>2. ASSUME NEW p \in Procs, NEW e \in bridge[p], Ingest(p, e) PROVE RunInv'
    BY <1>2, IngestKeeps
  <1>3. CASE Receive \/ Drop
    BY <1>3, RunSame DEF Receive, Drop
  <1>4. CASE UNCHANGED storeVars
    BY <1>4, RunSame DEF storeVars
  <1> QED
    BY <1>1, <1>2, <1>3, <1>4, ConnectKeeps DEF StoreNext

(* The record of a run agrees with what happened to it, for any number of   *)
(* events, calls and crashes: no call on the snapshot is lost as long as no *)
(* two overlap, an event is recorded once unless it reached a process over  *)
(* the stream alone, and Done is announced once by finishers that follow    *)
(* one another (run-repository.ts, event-bus.ts, event-store.ts).           *)
THEOREM RunRecorded == StoreSpec => []RunIsRecorded
  <1>1. StoreInit => RunInv
    BY RunInit
  <1>2. RunInv /\ [StoreNext]_storeVars => RunInv'
    BY RunStep
  <1>3. RunInv => RunIsRecorded
    <2> SUFFICES ASSUME RunInv PROVE RunIsRecorded
      OBVIOUS
    <2>1. StoreTypeOK /\ UnracedSnapshot /\ RecordedOnce
      BY DEF RunInv, CoherentInv, UnracedSnapshot, OnceInv, Once, RecordedOnce
    <2>2. ASSUME ~ raced PROVE Cardinality(DoneEvents) <= 1
      <3>1. \A d, e \in DoneEvents : d = e
        BY <2>2 DEF RunInv, FinishInv
      <3>2. CASE DoneEvents = {}
        BY <3>2, FS_EmptySet
      <3>3. ASSUME NEW d \in DoneEvents PROVE Cardinality(DoneEvents) = 1
        <4>1. DoneEvents = {d}
          BY <3>1
        <4> QED
          BY <4>1, FS_Singleton
      <3> QED
        BY <3>2, <3>3
    <2> QED
      BY <2>1, <2>2 DEF RunIsRecorded, DoneAnnouncedOnce, DoneEvents
  <1> QED
    BY <1>1, <1>2, <1>3, PTL DEF StoreSpec

-----------------------------------------------------------------------------
(* The browser's stream. *)

\* An event is in a sequence of events; a sequence is in the order of their numbers.
InSeq(s, e) == \E i \in 1..Len(s) : s[i] = e
Rising(ev, s) == \A i, j \in 1..Len(s) : i < j => ev[s[i]].seq < ev[s[j]].seq

\* What the browser has read last is recorded, what is on the connection is recorded,
\* later and in order; an event the server has recorded and not sent yet is later
\* still; and an event of the server the browser does not have is later than what it
\* has read last and, while it is connected, on the connection or about to be.
CarriesOn(ev, s, b, w, unsent) ==
    /\ b.last = 0 \/ \E e \in 1..Len(ev) : InSeq(s, e) /\ ev[e].seq = b.last
    /\ \A i \in 1..Len(w) : InSeq(s, w[i]) /\ ev[w[i]].seq > b.last
    /\ Rising(ev, w)
    /\ \A e \in unsent : /\ InSeq(s, e) /\ ev[e].seq > b.last
                         /\ \A i \in 1..Len(w) : ev[w[i]].seq < ev[e].seq
    /\ \A e \in 1..Len(ev) : InSeq(s, e) /\ ev[e].by = "server" =>
           e \in b.got \/ (ev[e].seq > b.last /\ (b.connected => InSeq(w, e) \/ e \in unsent))

Browsers(n) == [connected : BOOLEAN, last : Nat, got : SUBSET (1..n)]

\* More events change nothing about the recorded ones.
LEMMA CarriesMore ==
    ASSUME NEW ev \in Seq(EventRecords), NEW more \in Seq(EventRecords),
           Len(ev) <= Len(more), \A i \in 1..Len(ev) : more[i] = ev[i],
           NEW s \in Seq(1..Len(ev)), NEW b, NEW w \in Seq(1..Len(ev)),
           NEW unsent, unsent \subseteq 1..Len(ev)
    PROVE  /\ Rising(more, s) => Rising(ev, s)
           /\ CarriesOn(ev, s, b, w, unsent) => CarriesOn(more, s, b, w, unsent)
  <1>1. /\ \A i \in 1..Len(s) : s[i] \in 1..Len(ev) /\ more[s[i]] = ev[s[i]]
        /\ \A i \in 1..Len(w) : w[i] \in 1..Len(ev) /\ more[w[i]] = ev[w[i]]
        /\ \A e \in unsent : more[e] = ev[e] /\ e \in 1..Len(ev)
        /\ 1..Len(ev) \subseteq 1..Len(more)
    <2>1. Len(ev) \in Nat /\ Len(more) \in Nat
      OBVIOUS
    <2>2. /\ \A i \in 1..Len(s) : s[i] \in 1..Len(ev)
          /\ \A i \in 1..Len(w) : w[i] \in 1..Len(ev)
      OBVIOUS
    <2> QED
      BY <2>1, <2>2
  <1>2. Rising(more, s) => Rising(ev, s)
    BY <1>1 DEF Rising
  <1>3. \A e : InSeq(s, e) => e \in 1..Len(ev) /\ more[e] = ev[e]
    BY <1>1 DEF InSeq
  <1>4. ASSUME CarriesOn(ev, s, b, w, unsent) PROVE CarriesOn(more, s, b, w, unsent)
    <2>1. b.last = 0 \/ \E e \in 1..Len(more) : InSeq(s, e) /\ more[e].seq = b.last
      BY <1>1, <1>3, <1>4 DEF CarriesOn
    <2>2. \A i \in 1..Len(w) : InSeq(s, w[i]) /\ more[w[i]].seq > b.last
      BY <1>1, <1>4 DEF CarriesOn
    <2>3. Rising(more, w)
      BY <1>1, <1>4 DEF CarriesOn, Rising
    <2>4. ASSUME NEW e \in unsent
          PROVE  /\ InSeq(s, e) /\ more[e].seq > b.last
                 /\ \A i \in 1..Len(w) : more[w[i]].seq < more[e].seq
      BY <1>1, <1>4, <2>4 DEF CarriesOn
    <2>5. ASSUME NEW e \in 1..Len(more), InSeq(s, e), more[e].by = "server"
          PROVE  \/ e \in b.got
                 \/ more[e].seq > b.last /\ (b.connected => InSeq(w, e) \/ e \in unsent)
      BY <1>3, <1>4, <2>5 DEF CarriesOn
    <2> QED
      BY <2>1, <2>2, <2>3, <2>4, <2>5 DEF CarriesOn
  <1> QED
    BY <1>2, <1>4

\* Recording one event more.
LEMMA Appending ==
    ASSUME NEW n \in Nat, NEW s \in Seq(1..n), NEW e \in 1..n
    PROVE  /\ \A d : InSeq(Append(s, e), d) <=> InSeq(s, d) \/ d = e
           /\ \A ev : Rising(ev, Append(s, e)) <=>
                  Rising(ev, s) /\ \A i \in 1..Len(s) : ev[s[i]].seq < ev[e].seq
  <1> DEFINE t == Append(s, e)
  <1>0. Len(t) = Len(s) + 1 /\ Len(s) \in Nat
    OBVIOUS
  <1>1. /\ Len(t) = Len(s) + 1 /\ Len(s) \in Nat /\ t[Len(s) + 1] = e
        /\ \A i \in 1..Len(s) : t[i] = s[i]
    OBVIOUS
  <1> HIDE DEF t
  <1>2. ASSUME NEW d PROVE InSeq(t, d) <=> InSeq(s, d) \/ d = e
    BY <1>1 DEF InSeq
  <1>3. ASSUME NEW ev
        PROVE  Rising(ev, t) <=> Rising(ev, s) /\ \A i \in 1..Len(s) : ev[s[i]].seq < ev[e].seq
    <2>1. ASSUME Rising(ev, t) PROVE Rising(ev, s)
      <3> SUFFICES ASSUME NEW i \in 1..Len(s), NEW j \in 1..Len(s), i < j
                   PROVE  ev[s[i]].seq < ev[s[j]].seq
        BY DEF Rising
      <3>1. i \in 1..Len(t) /\ j \in 1..Len(t)
        BY <1>0
      <3>2. ev[t[i]].seq < ev[t[j]].seq
        BY <2>1, <3>1 DEF Rising
      <3> QED
        BY <1>1, <3>2
    <2>2. ASSUME Rising(ev, t), NEW i \in 1..Len(s) PROVE ev[s[i]].seq < ev[e].seq
      <3>1. i \in 1..Len(t) /\ Len(s) + 1 \in 1..Len(t) /\ i < Len(s) + 1
        BY <1>1
      <3> QED
        BY <1>1, <2>2, <3>1 DEF Rising
    <2>3. ASSUME Rising(ev, s), \A i \in 1..Len(s) : ev[s[i]].seq < ev[e].seq PROVE Rising(ev, t)
      <3> SUFFICES ASSUME NEW i \in 1..Len(t), NEW j \in 1..Len(t), i < j
                   PROVE  ev[t[i]].seq < ev[t[j]].seq
        BY DEF Rising
      <3>1. i \in 1..Len(s) /\ (j \in 1..Len(s) \/ j = Len(s) + 1)
        BY <1>0
      <3> QED
        BY <1>1, <2>3, <3>1 DEF Rising
    <2> QED
      BY <2>1, <2>2, <2>3
  <1> QED
    BY <1>2, <1>3 DEF t

\* The worker records an event of its own.
LEMMA CarriesWorker ==
    ASSUME NEW ev \in Seq(EventRecords), NEW s \in Seq(1..Len(ev)), NEW b,
           NEW w \in Seq(1..Len(ev)), NEW unsent, NEW d \in 1..Len(ev),
           ev[d].by # "server", CarriesOn(ev, s, b, w, unsent)
    PROVE  CarriesOn(ev, Append(s, d), b, w, unsent)
  <1>1. \A e : InSeq(Append(s, d), e) <=> InSeq(s, e) \/ e = d
    BY Appending
  <1> QED
    BY <1>1 DEF CarriesOn

\* The server records an event: it is later than all before it.
LEMMA CarriesServer ==
    ASSUME NEW ev \in Seq(EventRecords), NEW s \in Seq(1..Len(ev)), NEW b,
           NEW w \in Seq(1..Len(ev)), NEW d \in 1..Len(ev),
           Rising(ev, Append(s, d)), CarriesOn(ev, s, b, w, {})
    PROVE  CarriesOn(ev, Append(s, d), b, w, {d})
  <1>1. \A e : InSeq(Append(s, d), e) <=> InSeq(s, e) \/ e = d
    BY Appending
  <1>2. \A i \in 1..Len(s) : ev[s[i]].seq < ev[d].seq
    BY Appending
  <1>3. \A e : InSeq(s, e) => ev[e].seq < ev[d].seq
    BY <1>2 DEF InSeq
  <1>4. ev[d].seq \in Nat \ {0}
    <2>1. ev[d] \in EventRecords
      OBVIOUS
    <2> QED
      BY <2>1 DEF EventRecords
  <1>5. ev[d].seq > b.last
    BY <1>3, <1>4 DEF CarriesOn
  <1>6. \A i \in 1..Len(w) : ev[w[i]].seq < ev[d].seq
    BY <1>3 DEF CarriesOn
  <1> QED
    BY <1>1, <1>5, <1>6 DEF CarriesOn

\* The browser reads a block.
LEMMA CarriesReceive ==
    ASSUME NEW ev \in Seq(EventRecords), NEW s \in Seq(1..Len(ev)),
           NEW b \in Browsers(Len(ev)), NEW c \in Browsers(Len(ev)),
           NEW w \in Seq(1..Len(ev)), w # <<>>, NEW unsent,
           b.connected, c.connected, c.last = ev[Head(w)].seq, c.got = b.got \cup {Head(w)},
           CarriesOn(ev, s, b, w, unsent)
    PROVE  CarriesOn(ev, s, c, Tail(w), unsent)
  <1> DEFINE h == Head(w)  t == Tail(w)
  <1>1. /\ Len(w) \in Nat /\ 1 \in 1..Len(w) /\ h = w[1] /\ h \in 1..Len(ev)
        /\ Len(t) = Len(w) - 1 /\ \A i \in 1..Len(t) : t[i] = w[i + 1] /\ i + 1 \in 1..Len(w)
    BY EmptySeq
  <1> HIDE DEF h, t
  <1>2. InSeq(s, h) /\ c.last = ev[h].seq /\ c.got = b.got \cup {h}
    BY <1>1 DEF CarriesOn, h
  <1>3. \A i \in 1..Len(w) : i # 1 => ev[w[i]].seq > ev[h].seq
    BY <1>1 DEF CarriesOn, Rising
  <1>4. ASSUME NEW i \in 1..Len(t) PROVE InSeq(s, t[i]) /\ ev[t[i]].seq > c.last
    <2>1. t[i] = w[i + 1] /\ i + 1 \in 1..Len(w) /\ i + 1 # 1
      BY <1>1
    <2>2. InSeq(s, w[i + 1])
      BY <2>1 DEF CarriesOn
    <2> QED
      BY <1>2, <1>3, <2>1, <2>2
  <1>5. Rising(ev, t)
    <2> SUFFICES ASSUME NEW i \in 1..Len(t), NEW j \in 1..Len(t), i < j
                 PROVE  ev[t[i]].seq < ev[t[j]].seq
      BY DEF Rising
    <2>1. /\ t[i] = w[i + 1] /\ i + 1 \in 1..Len(w)
          /\ t[j] = w[j + 1] /\ j + 1 \in 1..Len(w)
      BY <1>1
    <2>2. i + 1 < j + 1
      BY <1>1
    <2>3. ev[w[i + 1]].seq < ev[w[j + 1]].seq
      BY <2>1, <2>2 DEF CarriesOn, Rising
    <2> QED
      BY <2>1, <2>3
  <1>6. ASSUME NEW e \in unsent
        PROVE  /\ InSeq(s, e) /\ ev[e].seq > c.last
               /\ \A i \in 1..Len(t) : ev[t[i]].seq < ev[e].seq
    <2>1. InSeq(s, e) /\ \A i \in 1..Len(w) : ev[w[i]].seq < ev[e].seq
      BY <1>6 DEF CarriesOn
    <2>2. ev[h].seq < ev[e].seq
      BY <1>1, <2>1
    <2>3. e \in 1..Len(ev)
      BY <2>1 DEF InSeq
    <2> QED
      BY <1>1, <1>2, <2>1, <2>2, <2>3 DEF EventRecords
  <1>7. ASSUME NEW e \in 1..Len(ev), InSeq(s, e), ev[e].by = "server", e \notin c.got
        PROVE  ev[e].seq > c.last /\ (c.connected => InSeq(t, e) \/ e \in unsent)
    <2>1. /\ e \notin b.got /\ e # h
      BY <1>2, <1>7
    <2>2. InSeq(w, e) \/ e \in unsent
      BY <1>7, <2>1 DEF CarriesOn
    <2>3. CASE e \in unsent
      BY <1>6, <2>3
    <2>4. ASSUME NEW i \in 1..Len(w), w[i] = e PROVE InSeq(t, e) /\ ev[e].seq > c.last
      <3>1. i # 1
        BY <1>1, <2>1, <2>4
      <3>2. ev[e].seq > ev[h].seq
        BY <1>3, <2>4, <3>1
      <3>3. i - 1 \in 1..Len(t) /\ t[i - 1] = w[(i - 1) + 1] /\ (i - 1) + 1 = i
        BY <1>1, <3>1
      <3> QED
        BY <1>2, <2>4, <3>2, <3>3 DEF InSeq
    <2> QED
      BY <2>2, <2>3, <2>4 DEF InSeq
  <1> QED
    BY <1>1, <1>2, <1>4, <1>5, <1>6, <1>7 DEF CarriesOn, t

\* The server writes the event it has recorded to the connection.
LEMMA CarriesSend ==
    ASSUME NEW ev \in Seq(EventRecords), NEW s \in Seq(1..Len(ev)), NEW b,
           NEW w \in Seq(1..Len(ev)), NEW d \in 1..Len(ev), CarriesOn(ev, s, b, w, {d})
    PROVE  /\ b.connected => CarriesOn(ev, s, b, Append(w, d), {})
           /\ ~ b.connected => CarriesOn(ev, s, b, w, {})
  <1>1. \A e : InSeq(Append(w, d), e) <=> InSeq(w, e) \/ e = d
    BY Appending
  <1>2. Rising(ev, Append(w, d))
    <2>1. Rising(ev, w) /\ \A i \in 1..Len(w) : ev[w[i]].seq < ev[d].seq
      BY DEF CarriesOn
    <2> QED
      BY <2>1, Appending
  <1>3. \A i \in 1..Len(Append(w, d)) :
            InSeq(s, Append(w, d)[i]) /\ ev[Append(w, d)[i]].seq > b.last
    <2>1. \A e : InSeq(w, e) => InSeq(s, e) /\ ev[e].seq > b.last
      BY DEF CarriesOn, InSeq
    <2>2. InSeq(s, d) /\ ev[d].seq > b.last
      BY DEF CarriesOn
    <2>3. \A i \in 1..Len(Append(w, d)) : InSeq(Append(w, d), Append(w, d)[i])
      BY DEF InSeq
    <2> QED
      BY <1>1, <2>1, <2>2, <2>3
  <1>4. ASSUME b.connected PROVE CarriesOn(ev, s, b, Append(w, d), {})
    BY <1>1, <1>2, <1>3, <1>4 DEF CarriesOn
  <1>5. ASSUME ~ b.connected PROVE CarriesOn(ev, s, b, w, {})
    BY <1>5 DEF CarriesOn
  <1> QED
    BY <1>4, <1>5

\* The connection ends, and with it what was on it.
LEMMA CarriesEnd ==
    ASSUME NEW ev \in Seq(EventRecords), NEW s \in Seq(1..Len(ev)), NEW b, NEW c,
           NEW w, NEW unsent, NEW left, left \subseteq unsent,
           ~ c.connected, c.last = b.last, c.got = b.got, CarriesOn(ev, s, b, w, unsent)
    PROVE  CarriesOn(ev, s, c, <<>>, left)
  <1>1. \A i \in 1..Len(<<>>) : FALSE
    OBVIOUS
  <1>2. Rising(ev, <<>>)
    BY <1>1 DEF Rising
  <1> QED
    BY <1>1, <1>2 DEF CarriesOn

\* The k-th member of a finite set of numbers.
UpTo(S, i) == {j \in S : j <= i}
Nth(S, k) == CHOOSE i \in S : Cardinality(UpTo(S, i)) = k

LEMMA NthFacts ==
    ASSUME NEW S, S \subseteq Nat, IsFiniteSet(S)
    PROVE  /\ Cardinality(S) \in Nat
           /\ \A k \in 1..Cardinality(S) : Nth(S, k) \in S /\ Cardinality(UpTo(S, Nth(S, k))) = k
           /\ \A i \in S : \E k \in 1..Cardinality(S) : Nth(S, k) = i
           /\ \A k, l \in 1..Cardinality(S) : k < l => Nth(S, k) < Nth(S, l)
  <1> DEFINE n == Cardinality(S)  rank(i) == Cardinality(UpTo(S, i))
  <1>1. n \in Nat
    BY FS_CardinalityType
  <1>2. ASSUME NEW i \in S PROVE IsFiniteSet(UpTo(S, i)) /\ rank(i) \in 1..n
    <2>1. UpTo(S, i) \subseteq S /\ i \in UpTo(S, i)
      BY DEF UpTo
    <2>2. IsFiniteSet(UpTo(S, i)) /\ rank(i) \in Nat /\ rank(i) <= n
      BY <2>1, FS_Subset, FS_CardinalityType
    <2>3. rank(i) # 0
      BY <2>1, <2>2, FS_EmptySet
    <2> QED
      BY <1>1, <2>2, <2>3
  <1>3. ASSUME NEW i \in S, NEW j \in S, i < j PROVE rank(i) < rank(j)
    <2>0. i \in Nat /\ j \in Nat /\ \A m \in S : m \in Nat
      OBVIOUS
    <2>1. UpTo(S, i) \subseteq UpTo(S, j) /\ j \in UpTo(S, j) /\ j \notin UpTo(S, i)
      <3>1. ASSUME NEW m \in UpTo(S, i) PROVE m \in UpTo(S, j)
        <4>1. m \in S /\ m \in Nat /\ m <= i
          BY <2>0, <3>1 DEF UpTo
        <4>2. m <= j
          BY <1>3, <2>0, <4>1
        <4> QED
          BY <4>1, <4>2 DEF UpTo
      <3>2. j <= j /\ ~ (j <= i)
        BY <1>3, <2>0
      <3> QED
        BY <3>1, <3>2 DEF UpTo
    <2>2. UpTo(S, i) # UpTo(S, j)
      BY <2>1
    <2>3. /\ IsFiniteSet(UpTo(S, j)) /\ rank(i) \in Nat /\ rank(j) \in Nat
      BY <1>2, <1>1
    <2> QED
      BY <2>1, <2>2, <2>3, FS_Subset
  <1>4. \A i, j \in S : rank(i) = rank(j) => i = j
    <2>1. ASSUME NEW i \in S, NEW j \in S, rank(i) = rank(j), i # j PROVE FALSE
      <3>1. i < j \/ j < i
        BY <2>1
      <3>2. rank(i) \in Nat /\ rank(j) \in Nat
        BY <1>1, <1>2
      <3> QED
        BY <1>3, <2>1, <3>1, <3>2
    <2> QED
      BY <2>1
  <1>5. \A k \in 1..n : \E i \in S : rank(i) = k
    <2> DEFINE f == [i \in S |-> rank(i)]
               R == {f[i] : i \in S}
    <2>1. f \in [S -> R] /\ \A i, j \in S : f[i] = f[j] => i = j
      BY <1>4
    <2>2. R \subseteq 1..n
      BY <1>2
    <2>3. f \in Bijection(S, R)
      BY <2>1 DEF Bijection, Injection, Surjection, IsInjective
    <2>4. IsFiniteSet(R) /\ Cardinality(R) = n
      BY <2>3, FS_Bijection DEF ExistsBijection
    <2>5. IsFiniteSet(1..n) /\ Cardinality(1..n) = n
      BY <1>1, FS_Interval
    <2>6. R = 1..n
      BY <2>2, <2>4, <2>5, FS_Subset
    <2> QED
      BY <2>6
  <1>6. ASSUME NEW k \in 1..n PROVE Nth(S, k) \in S /\ rank(Nth(S, k)) = k
    BY <1>5 DEF Nth
  <1>7. ASSUME NEW i \in S PROVE \E k \in 1..n : Nth(S, k) = i
    <2>1. rank(i) \in 1..n
      BY <1>2
    <2>2. Nth(S, rank(i)) \in S /\ rank(Nth(S, rank(i))) = rank(i)
      BY <1>6, <2>1
    <2>3. Nth(S, rank(i)) = i
      BY <1>4, <2>2
    <2> QED
      BY <2>1, <2>3
  <1>8. ASSUME NEW k \in 1..n, NEW l \in 1..n, k < l PROVE Nth(S, k) < Nth(S, l)
    <2>1. /\ Nth(S, k) \in S /\ rank(Nth(S, k)) = k
          /\ Nth(S, l) \in S /\ rank(Nth(S, l)) = l
      BY <1>6
    <2> DEFINE a == Nth(S, k)  c == Nth(S, l)
    <2> HIDE DEF a, c
    <2>2. a \in S /\ c \in S /\ rank(a) = k /\ rank(c) = l
      BY <2>1 DEF a, c
    <2>3. a # c /\ ~ (c < a)
      BY <1>1, <1>3, <1>8, <2>2
    <2>4. a < c
      BY <2>2, <2>3
    <2> QED
      BY <2>4 DEF a, c
  <1> QED
    BY <1>1, <1>6, <1>7, <1>8

\* What is replayed is what the snapshot has later than last, in its order.
LEMMA ReplayedFacts ==
    ASSUME events \in Seq(EventRecords), NEW s, s.evs \in Seq(1..Len(events)), NEW last \in Nat
    PROVE  /\ Replayed(s, last) \in Seq(1..Len(events))
           /\ \A e : InSeq(Replayed(s, last), e) <=> InSeq(s.evs, e) /\ events[e].seq > last
           /\ Rising(events, s.evs) => Rising(events, Replayed(s, last))
  <1> DEFINE S == Later(s, last)  n == Cardinality(S)  w == Replayed(s, last)
             at(k) == Nth(S, k)
  <1>1. Len(s.evs) \in Nat /\ \A i \in 1..Len(s.evs) : s.evs[i] \in 1..Len(events)
    OBVIOUS
  <1>2. S \subseteq 1..Len(s.evs) /\ S \subseteq Nat
    BY <1>1 DEF Later
  <1>3. IsFiniteSet(S)
    <2>1. IsFiniteSet(1..Len(s.evs))
      BY <1>1, FS_Interval
    <2>2. S \in SUBSET (1..Len(s.evs))
      BY <1>2
    <2> QED
      BY <2>1, <2>2, FS_Subset
  <1>4. /\ n \in Nat /\ \A k \in 1..n : at(k) \in S
        /\ \A i \in S : \E k \in 1..n : at(k) = i
        /\ \A k, l \in 1..n : k < l => at(k) < at(l)
    BY <1>2, <1>3, NthFacts
  <1>5. w = [k \in 1..n |-> s.evs[at(k)]]
    BY DEF Replayed, Nth, UpTo
  <1>6. \A k \in 1..n : at(k) \in 1..Len(s.evs) /\ events[s.evs[at(k)]].seq > last
    BY <1>4 DEF Later
  <1> HIDE DEF S, n, w, at
  <1>7. w \in Seq(1..Len(events)) /\ Len(w) = n /\ \A k \in 1..n : w[k] = s.evs[at(k)]
    <2>1. \A k \in 1..n : s.evs[at(k)] \in 1..Len(events)
      BY <1>1, <1>6
    <2>2. \A k \in 1..n : w[k] = s.evs[at(k)]
      BY <1>5
    <2>3. w \in [1..n -> 1..Len(events)]
      BY <1>5, <2>1
    <2>4. w \in Seq(1..Len(events)) /\ Len(w) = n
      BY <1>4, <2>3
    <2> QED
      BY <2>2, <2>4
  <1>8. ASSUME NEW e PROVE InSeq(w, e) <=> InSeq(s.evs, e) /\ events[e].seq > last
    <2>1. InSeq(w, e) => InSeq(s.evs, e) /\ events[e].seq > last
      BY <1>6, <1>7 DEF InSeq
    <2>2. ASSUME NEW i \in 1..Len(s.evs), s.evs[i] = e, events[e].seq > last PROVE InSeq(w, e)
      <3>1. i \in S
        BY <2>2 DEF S, Later
      <3> QED
        BY <1>4, <1>7, <2>2, <3>1 DEF InSeq
    <2> QED
      BY <2>1, <2>2 DEF InSeq
  <1>9. ASSUME Rising(events, s.evs) PROVE Rising(events, w)
    <2> SUFFICES ASSUME NEW k \in 1..n, NEW l \in 1..n, k < l
                 PROVE  events[w[k]].seq < events[w[l]].seq
      BY <1>7 DEF Rising
    <2>1. at(k) < at(l) /\ at(k) \in 1..Len(s.evs) /\ at(l) \in 1..Len(s.evs)
      BY <1>4, <1>6
    <2>2. events[s.evs[at(k)]].seq < events[s.evs[at(l)]].seq
      BY <1>9, <2>1 DEF Rising
    <2> QED
      BY <1>7, <2>2
  <1> QED
    BY <1>7, <1>8, <1>9 DEF w

\* A new connection replays what the browser does not have.
LEMMA CarriesConnect ==
    ASSUME events \in Seq(EventRecords), NEW s, s.evs \in Seq(1..Len(events)),
           NEW b \in Browsers(Len(events)), NEW c, c.last = b.last, c.got = b.got,
           NEW w, NEW unsent, Rising(events, s.evs), CarriesOn(events, s.evs, b, w, unsent)
    PROVE  CarriesOn(events, s.evs, c, Replayed(s, b.last), {})
  <1> DEFINE r == Replayed(s, b.last)
  <1>1. b.last \in Nat
    BY DEF Browsers
  <1>2. /\ Rising(events, r)
        /\ \A e : InSeq(r, e) <=> InSeq(s.evs, e) /\ events[e].seq > b.last
    BY <1>1, ReplayedFacts
  <1> HIDE DEF r
  <1>3. \A i \in 1..Len(r) : InSeq(r, r[i])
    BY DEF InSeq
  <1>4. CarriesOn(events, s.evs, c, r, {})
    BY <1>2, <1>3 DEF CarriesOn
  <1> QED
    BY <1>4 DEF r

\* The event the server has recorded and not yet written to the connection.
Unsent == IF doing["server"].op = "event" /\ doing["server"].at \in {"stat", "observed"}
          THEN {doing["server"].ev} ELSE {}

\* Unless calls have overlapped, what is published is recorded, what is being sent is
\* recorded, and the worker records its own events or repeats a recorded one.
Sending(p) == doing[p].op = "event" /\ doing[p].at \in {"stat", "observed"}
OwnEvents ==
    raced \/
    /\ \A p \in Procs : \A e \in bridge[p] : InSeq(file.evs, e)
    /\ \A p \in Procs : Sending(p) => InSeq(file.evs, doing[p].ev)
    /\ doing["worker"].op = "event" =>
           \/ events[doing["worker"].ev].by = "worker"
           \/ InSeq(file.evs, doing["worker"].ev)

StreamTypes == browser \in Browsers(Len(events)) /\ wire \in Seq(1..Len(events))

StreamInv ==
    /\ StreamTypes
    /\ \/ raced \/ ~ Rising(events, file.evs)
       \/ CarriesOn(events, file.evs, browser, wire, Unsent)

LEMMA StreamFacts ==
    ASSUME RunInv
    PROVE  /\ events \in Seq(EventRecords) /\ Len(events) \in Nat
           /\ file.evs \in Seq(1..Len(events))
           /\ doing \in [Procs -> Calls(Len(events))]
           /\ \A p \in Procs : doing[p].op = "event" => doing[p].ev \in 1..Len(events)
           /\ Unsent \subseteq 1..Len(events)
           /\ "server" \in Procs /\ "worker" \in Procs /\ raced \in BOOLEAN
  <1>1. "server" \in Procs /\ "worker" \in Procs
    BY DEF Procs
  <1>2. /\ events \in Seq(EventRecords) /\ file \in SnapshotsTo(Len(events))
    BY RunTypes DEF RunInv
  <1>3. file.evs \in Seq(1..Len(events)) /\ Len(events) \in Nat
    BY <1>2 DEF SnapshotsTo
  <1>4. /\ doing \in [Procs -> Calls(Len(events))] /\ raced \in BOOLEAN
        /\ \A p \in Procs : doing[p].op = "event" => doing[p].ev \in 1..Len(events)
    BY DEF RunInv, DoingInv
  <1>5. Unsent \subseteq 1..Len(events)
    BY <1>1, <1>4 DEF Unsent
  <1> QED
    BY <1>1, <1>2, <1>3, <1>4, <1>5

\* A step that touches neither the recorded events nor the stream.
LEMMA StreamFramed ==
    ASSUME RunInv, RunInv', StreamInv, file' = file, browser' = browser, wire' = wire,
           raced => raced', Unsent' = Unsent, Len(events) <= Len(events'),
           \A i \in 1..Len(events) : events'[i] = events[i]
    PROVE  StreamInv'
  <1>1. /\ events \in Seq(EventRecords) /\ events' \in Seq(EventRecords)
        /\ file.evs \in Seq(1..Len(events)) /\ wire \in Seq(1..Len(events))
        /\ Unsent \subseteq 1..Len(events)
        /\ Len(events) \in Nat /\ Len(events') \in Nat
    <2>1. events' \in Seq(EventRecords)
      BY DEF RunInv, StoreTypeOK, EventRecords, Kinds
    <2> QED
      BY <2>1, StreamFacts DEF StreamInv, StreamTypes
  <1>2. /\ Rising(events', file.evs) => Rising(events, file.evs)
        /\ CarriesOn(events, file.evs, browser, wire, Unsent)
               => CarriesOn(events', file.evs, browser, wire, Unsent)
    BY <1>1, CarriesMore
  <1>3. StreamTypes'
    <2>1. 1..Len(events) \subseteq 1..Len(events')
      BY <1>1
    <2>2. Seq(1..Len(events)) \subseteq Seq(1..Len(events'))
      BY <2>1, SeqMonotonic
    <2>3. Browsers(Len(events)) \subseteq Browsers(Len(events'))
      BY <2>1 DEF Browsers
    <2> QED
      BY <2>2, <2>3 DEF StreamInv, StreamTypes
  <1> QED
    BY <1>2, <1>3 DEF StreamInv

\* A process goes on with what it does without reaching or leaving the point between
\* recording and sending.
LEMMA DoingMoves ==
    ASSUME RunInv, NEW p \in Procs, NEW d, doing' = [doing EXCEPT ![p] = d],
           d.op = "event" => doing[p].op = "event" /\ d.ev = doing[p].ev,
           p = "server" =>
               ((d.op = "event" /\ d.at \in {"stat", "observed"}) <=>
                (doing[p].op = "event" /\ doing[p].at \in {"stat", "observed"}))
    PROVE  Unsent' = Unsent
  <1>1. doing'["server"] = (IF p = "server" THEN d ELSE doing["server"])
    BY StreamFacts
  <1> QED
    BY <1>1 DEF Unsent

\* Recording begins: a new event of the process, or one it has taken over.
LEMMA RecordingBegins ==
    ASSUME RunInv, RunInv', StreamInv, NEW p \in Procs, NEW e,
           p = "server" => Unsent = {},
           doing' = [doing EXCEPT ![p] = [at |-> "get", op |-> "event", ev |-> e]],
           Len(events) <= Len(events'), \A i \in 1..Len(events) : events'[i] = events[i],
           UNCHANGED <<file, browser, wire, raced>>
    PROVE  StreamInv'
  <1> DEFINE d == [at |-> "get", op |-> "event", ev |-> e]
  <1>1. d.at = "get" /\ d.op = "event" /\ d.ev = e /\ doing' = [doing EXCEPT ![p] = d]
    OBVIOUS
  <1> HIDE DEF d
  <1>2. doing'["server"] = (IF p = "server" THEN d ELSE doing["server"])
    BY <1>1, StreamFacts
  <1>3. Unsent' = Unsent
    BY <1>1, <1>2 DEF Unsent
  <1> QED
    BY <1>3, StreamFramed

\* Emit, Announce and Ingest.
LEMMA RecordingStream ==
    ASSUME RunInv, RunInv', StreamInv
    PROVE  /\ \A p \in Procs : Emit(p) \/ Announce(p) => StreamInv'
           /\ \A p \in Procs : \A e \in bridge[p] : Ingest(p, e) => StreamInv'
  <1>1. ASSUME NEW p \in Procs, Emit(p) \/ Announce(p) PROVE StreamInv'
    <2> DEFINE e == Len(events) + 1
    <2>1. PICK r : events' = Append(events, r)
      BY <1>1 DEF Emit, Announce
    <2>2. /\ doing' = [doing EXCEPT ![p] = [at |-> "get", op |-> "event", ev |-> e]]
          /\ UNCHANGED <<file, browser, wire, raced>>
          /\ doing[p].at \in {"idle", "announce"}
      BY <1>1 DEF Emit, Announce, Free, stream
    <2>3. /\ Len(events') = Len(events) + 1 /\ events'[e] = r
          /\ \A i \in 1..Len(events) : events'[i] = events[i]
      BY <2>1, StreamFacts
    <2>4. p = "server" => Unsent = {}
      BY <2>2 DEF Unsent
    <2> HIDE DEF e
    <2>5. Len(events) <= Len(events')
      BY <2>3, StreamFacts
    <2>7. /\ doing' = [doing EXCEPT ![p] = [at |-> "get", op |-> "event", ev |-> e]]
          /\ UNCHANGED <<file, browser, wire, raced>>
          /\ \A i \in 1..Len(events) : events'[i] = events[i]
      BY <2>2, <2>3
    <2> QED
      BY <2>4, <2>5, <2>7, RecordingBegins
  <1>2. ASSUME NEW p \in Procs, NEW e \in bridge[p], Ingest(p, e) PROVE StreamInv'
    <2>1. /\ UNCHANGED <<events, file, browser, wire, raced>> /\ doing[p].at = "idle"
          /\ \/ doing' = doing
             \/ doing' = [doing EXCEPT ![p] = [at |-> "get", op |-> "event", ev |-> e]]
      BY <1>2 DEF Ingest, TakeOver, Free, stream
    <2>2. p = "server" => Unsent = {}
      BY <2>1 DEF Unsent
    <2>3. /\ Len(events) <= Len(events') /\ \A i \in 1..Len(events) : events'[i] = events[i]
          /\ UNCHANGED <<file, browser, wire, raced>>
      BY <2>1, StreamFacts
    <2>4. CASE doing' = doing
      <3>1. Unsent' = Unsent
        BY <2>4 DEF Unsent
      <3> QED
        BY <2>3, <3>1, StreamFramed
    <2>5. CASE doing' = [doing EXCEPT ![p] = [at |-> "get", op |-> "event", ev |-> e]]
      BY <2>2, <2>3, <2>5, RecordingBegins
    <2> QED
      BY <2>1, <2>4, <2>5
  <1> QED
    BY <1>1, <1>2

\* The calls that record no event.
LEMMA QuietStream ==
    ASSUME RunInv, RunInv', StreamInv, NEW p \in Procs
    PROVE  /\ EmitRejected(p) => StreamInv'
           /\ \A op \in {"artifact", "removeArtifact"} : Call(p, op) => StreamInv'
           /\ Require(p) \/ NoteDiskVersion(p) => StreamInv'
           /\ FinishRead(p) \/ FinishTest(p) => StreamInv'
  <1>0. Len(events) \in Nat /\ raced \in BOOLEAN /\ doing \in [Procs -> Calls(Len(events))]
    BY StreamFacts
  <1>1. ASSUME NEW d, doing' = [doing EXCEPT ![p] = d],
               UNCHANGED <<events, file, browser, wire>>, raced => raced',
               d.op = "event" => doing[p].op = "event" /\ d.ev = doing[p].ev,
               (d.op = "event" /\ d.at \in {"stat", "observed"}) <=>
               (doing[p].op = "event" /\ doing[p].at \in {"stat", "observed"})
        PROVE  StreamInv'
    <2>1. Unsent' = Unsent
      BY <1>1, DoingMoves
    <2> QED
      BY <1>0, <1>1, <2>1, StreamFramed
  <1>2. ASSUME doing' = doing, UNCHANGED <<events, file, browser, wire>>, raced => raced'
        PROVE  StreamInv'
    <2>1. Unsent' = Unsent
      BY <1>2 DEF Unsent
    <2> QED
      BY <1>0, <1>2, <2>1, StreamFramed
  <1>3. ASSUME EmitRejected(p) PROVE StreamInv'
    BY <1>2, <1>3 DEF EmitRejected, repo, stream
  <1>4. ASSUME FinishRead(p) PROVE StreamInv'
    BY <1>2, <1>4 DEF FinishRead, stored, stream
  <1>5. ASSUME NEW op \in {"artifact", "removeArtifact"}, Call(p, op) PROVE StreamInv'
    <2> DEFINE d == [at |-> "get", op |-> op, ev |-> 0]
    <2>1. doing' = [doing EXCEPT ![p] = d] /\ d.op # "event" /\ doing[p].at = "idle"
      BY <1>5 DEF Call, Free
    <2>2. UNCHANGED <<events, file, browser, wire>> /\ (raced => raced')
      BY <1>5 DEF Call, stored, stream
    <2> HIDE DEF d
    <2> QED
      BY <1>1, <2>1, <2>2
  <1>6. ASSUME Require(p) PROVE StreamInv'
    <2>1. PICK d : /\ doing' = [doing EXCEPT ![p] = d]
                   /\ d \in {Idle, [doing[p] EXCEPT !.at = "write"]}
      BY <1>6 DEF Require
    <2>2. UNCHANGED <<events, file, browser, wire>> /\ (raced => raced') /\ doing[p].at = "get"
      BY <1>6 DEF Require, stored, stream
    <2>3. /\ d.op = "event" => doing[p].op = "event" /\ d.ev = doing[p].ev
          /\ d.op = "event" => d.at = "write"
      BY <1>0, <2>1 DEF Idle, Calls
    <2> QED
      BY <1>1, <2>1, <2>2, <2>3
  <1>7. ASSUME NoteDiskVersion(p) PROVE StreamInv'
    <2> DEFINE d == CASE doing[p].op = "event"  -> [doing[p] EXCEPT !.at = "observed"]
                      [] doing[p].op = "finish" -> [doing[p] EXCEPT !.at = "announce"]
                      [] OTHER -> Idle
    <2>1. doing' = [doing EXCEPT ![p] = d]
      BY <1>7 DEF NoteDiskVersion
    <2>2. UNCHANGED <<events, file, browser, wire>> /\ (raced => raced') /\ doing[p].at = "stat"
      BY <1>7 DEF NoteDiskVersion, stored, stream
    <2>3. doing[p] \in Calls(Len(events))
      BY <1>0
    <2>4. CASE doing[p].op = "event"
      <3>1. d = [doing[p] EXCEPT !.at = "observed"]
        BY <2>4
      <3>2. d.op = "event" /\ d.ev = doing[p].ev /\ d.at = "observed"
        BY <2>3, <2>4, <3>1 DEF Calls
      <3> HIDE DEF d
      <3> QED
        BY <1>1, <2>1, <2>2, <2>4, <3>2
    <2>5. CASE doing[p].op # "event"
      <3>1. d.op # "event"
        BY <2>3, <2>5 DEF Calls, Idle
      <3> HIDE DEF d
      <3> QED
        BY <1>1, <2>1, <2>2, <2>5, <3>1
    <2> QED
      BY <2>4, <2>5
  <1>8. ASSUME FinishTest(p) PROVE StreamInv'
    <2>1. PICK d : /\ doing' = [doing EXCEPT ![p] = d]
                   /\ d \in {Idle, [at |-> "get", op |-> "finish", ev |-> 0]}
      BY <1>8 DEF FinishTest
    <2>2. UNCHANGED <<events, file, browser, wire>> /\ (raced => raced') /\ doing[p].at = "idle"
      BY <1>8 DEF FinishTest, stored, stream, Free
    <2>3. d.op # "event"
      BY <2>1 DEF Idle
    <2> QED
      BY <1>1, <2>1, <2>2, <2>3
  <1> QED
    BY <1>3, <1>4, <1>5, <1>6, <1>7, <1>8

\* The snapshot is written.
LEMMA PersistStream ==
    ASSUME RunInv, RunInv', OwnEvents, StreamInv, NEW p \in Procs, Persist(p)
    PROVE  StreamInv'
  <1> DEFINE d == doing[p]  e == doing[p].ev
  <1>0. /\ events \in Seq(EventRecords) /\ Len(events) \in Nat
        /\ file.evs \in Seq(1..Len(events)) /\ d \in Calls(Len(events))
        /\ d.op = "event" => e \in 1..Len(events)
        /\ "server" \in Procs /\ "worker" \in Procs /\ wire \in Seq(1..Len(events))
    BY StreamFacts DEF StreamInv, StreamTypes
  <1>1. /\ d.at = "write" /\ file' = Mutated(cached[p].snap, d)
        /\ doing' = [doing EXCEPT ![p].at = "stat"]
        /\ UNCHANGED <<events, browser, wire>> /\ (raced => raced')
    BY DEF Persist, stored, stream
  <1>2. doing' = [doing EXCEPT ![p] = [d EXCEPT !.at = "stat"]]
    BY <1>1
  <1> DEFINE c == [d EXCEPT !.at = "stat"]
  <1>3. c.at = "stat" /\ c.op = d.op /\ c.ev = e
    BY <1>0 DEF Calls
  <1>4. /\ doing'["server"] = (IF p = "server" THEN c ELSE doing["server"])
        /\ doing'["worker"] = (IF p = "worker" THEN c ELSE doing["worker"])
    BY <1>0, <1>2, StreamFacts
  <1> HIDE DEF c
  <1>5. StreamTypes'
    BY <1>1 DEF StreamTypes, StreamInv
  <1>6. ASSUME ~ raced', Rising(events, file'.evs)
        PROVE  CarriesOn(events, file'.evs, browser, wire, Unsent')
    <2>1. ~ raced /\ cached[p].snap = file
      BY <1>1, <1>6 DEF RunInv, CoherentInv
    <2>2. file \in SnapshotsTo(Len(events)) /\ d.op # "none"
      <3>1. file \in SnapshotsTo(Len(events))
        BY RunTypes DEF RunInv
      <3> QED
        BY <1>1, <3>1 DEF RunInv, DoingInv
    <2>3. /\ d.op # "event" => file'.evs = file.evs
          /\ d.op = "event" => file'.evs = Append(file.evs, e)
      BY <1>0, <1>1, <2>1, <2>2, MutatedFacts
    <2>4. CASE d.op # "event"
      <3>1. Unsent' = Unsent
        BY <1>3, <1>4, <2>4 DEF Unsent
      <3> QED
        BY <1>6, <2>1, <2>3, <2>4, <3>1 DEF StreamInv
    <2>5. CASE d.op = "event" /\ p = "server"
      <3>1. Unsent = {} /\ Unsent' = {e}
        BY <1>1, <1>3, <1>4, <2>5 DEF Unsent
      <3>2. Rising(events, file.evs) /\ Rising(events, Append(file.evs, e))
        <4>1. Rising(events, Append(file.evs, e))
          BY <1>6, <2>3, <2>5
        <4>2. e \in 1..Len(events)
          BY <1>0, <2>5
        <4> HIDE DEF e
        <4> QED
          BY <1>0, <4>1, <4>2, Appending
      <3>3. CarriesOn(events, file.evs, browser, wire, {})
        BY <2>1, <3>1, <3>2 DEF StreamInv
      <3>4. CarriesOn(events, Append(file.evs, e), browser, wire, {e})
        BY <1>0, <2>5, <3>2, <3>3, CarriesServer
      <3> QED
        BY <2>3, <2>5, <3>1, <3>4
    <2>6. CASE d.op = "event" /\ p # "server"
      <3>1. Unsent' = Unsent
        BY <1>4, <2>6 DEF Unsent
      <3>2. Rising(events, file.evs) /\ Rising(events, Append(file.evs, e))
        <4>1. Rising(events, Append(file.evs, e))
          BY <1>6, <2>3, <2>6
        <4>2. e \in 1..Len(events)
          BY <1>0, <2>6
        <4> HIDE DEF e
        <4> QED
          BY <1>0, <4>1, <4>2, Appending
      <3>3. CarriesOn(events, file.evs, browser, wire, Unsent)
        BY <2>1, <3>2 DEF StreamInv
      <3>4. events[e].by # "server"
        <4>1. events[e].by = "worker" \/ InSeq(file.evs, e)
          BY <2>1, <2>6 DEF OwnEvents, Procs
        <4>2. e \in 1..Len(events)
          BY <1>0, <2>6
        <4>3. ~ InSeq(file.evs, e)
          <5>1. \A i \in 1..Len(file.evs) : events[file.evs[i]].seq < events[e].seq
            <6> HIDE DEF e
            <6> QED
              BY <1>0, <3>2, <4>2, Appending
          <5>2. events[e].seq \in Nat
            <6>1. events[e] \in EventRecords
              BY <1>0, <4>2
            <6> QED
              BY <6>1 DEF EventRecords
          <5> QED
            BY <5>1, <5>2 DEF InSeq
        <4> QED
          BY <4>1, <4>3
      <3>5. CarriesOn(events, Append(file.evs, e), browser, wire, Unsent)
        BY <1>0, <2>6, <3>3, <3>4, CarriesWorker
      <3> QED
        BY <2>3, <2>6, <3>1, <3>5
    <2> QED
      BY <2>4, <2>5, <2>6
  <1> QED
    BY <1>1, <1>5, <1>6 DEF StreamInv

\* The event is checkpointed and sent.
LEMMA OnEventStream ==
    ASSUME RunInv, RunInv', StreamInv, NEW p \in Procs, OnEvent(p)
    PROVE  StreamInv'
  <1> DEFINE e == doing[p].ev
  <1>0. /\ events \in Seq(EventRecords) /\ Len(events) \in Nat
        /\ file.evs \in Seq(1..Len(events)) /\ wire \in Seq(1..Len(events))
        /\ "server" \in Procs /\ "worker" \in Procs /\ raced \in BOOLEAN
    BY StreamFacts DEF StreamInv, StreamTypes
  <1>1. /\ doing[p].at = "observed" /\ doing' = [doing EXCEPT ![p] = Idle]
        /\ wire' = IF p = "server" /\ browser.connected THEN Append(wire, e) ELSE wire
        /\ UNCHANGED <<events, file, raced, browser>>
    BY DEF OnEvent
  <1>2. doing[p].op = "event" /\ e \in 1..Len(events)
    BY <1>1, StreamFacts DEF RunInv, DoingInv
  <1>3. Idle.op = "none"
    BY DEF Idle
  <1>4. doing'["server"] = (IF p = "server" THEN Idle ELSE doing["server"])
    BY <1>1, StreamFacts
  <1>6. CASE p # "server"
    <2>1. Unsent' = Unsent /\ wire' = wire
      BY <1>1, <1>4, <1>6 DEF Unsent
    <2> QED
      BY <1>0, <1>1, <2>1, StreamFramed
  <1>7. CASE p = "server"
    <2>1. Unsent = {e} /\ Unsent' = {}
      BY <1>1, <1>2, <1>3, <1>4, <1>7 DEF Unsent
    <2> HIDE DEF e
    <2>2. StreamTypes'
      <3>1. Append(wire, e) \in Seq(1..Len(events))
        BY <1>0, <1>2
      <3> QED
        BY <1>1, <3>1 DEF StreamInv, StreamTypes
    <2>3. ASSUME CarriesOn(events, file.evs, browser, wire, {e})
          PROVE  CarriesOn(events, file.evs, browser, wire', {})
      <3>1. /\ browser.connected => CarriesOn(events, file.evs, browser, Append(wire, e), {})
            /\ ~ browser.connected => CarriesOn(events, file.evs, browser, wire, {})
        BY <1>0, <1>2, <2>3, CarriesSend
      <3> QED
        BY <1>1, <1>7, <3>1
    <2> QED
      BY <1>1, <2>1, <2>2, <2>3 DEF StreamInv
  <1> QED
    BY <1>6, <1>7

\* The browser connects, reads and loses its connection.
LEMMA BrowserStream ==
    ASSUME RunInv, StreamInv, Connect \/ Receive \/ Drop
    PROVE  StreamInv'
  <1>0. /\ events \in Seq(EventRecords) /\ Len(events) \in Nat
        /\ file.evs \in Seq(1..Len(events)) /\ wire \in Seq(1..Len(events))
        /\ browser \in Browsers(Len(events)) /\ "server" \in Procs
    BY StreamFacts DEF StreamInv, StreamTypes
  <1>1. UNCHANGED <<events, file, doing, raced>>
    BY DEF Connect, Receive, Drop, stored, repo
  <1>2. Unsent' = Unsent
    BY <1>1 DEF Unsent
  <1>3. CASE Connect
    <2> DEFINE r == Replayed(get("server").snap, browser.last)
    <2>1. /\ browser' = [browser EXCEPT !.connected = TRUE] /\ wire' = r
          /\ doing["server"].at = "idle"
      BY <1>3 DEF Connect, Free
    <2>2. /\ browser' \in Browsers(Len(events))
          /\ browser'.last = browser.last /\ browser'.got = browser.got /\ browser.last \in Nat
      BY <1>0, <2>1 DEF Browsers
    <2>3. get("server").snap.evs \in Seq(1..Len(events))
      BY <1>0, GetFacts DEF RunInv, SnapshotsTo
    <2>4. r \in Seq(1..Len(events))
      BY <1>0, <2>2, <2>3, ReplayedFacts
    <2>5. ASSUME ~ raced, Rising(events, file.evs)
          PROVE  CarriesOn(events, file.evs, browser', wire', Unsent')
      <3>1. get("server").snap = file
        BY <1>0, <2>5, GetFacts DEF RunInv
      <3>2. CarriesOn(events, file.evs, browser, wire, Unsent)
        BY <2>5 DEF StreamInv
      <3>3. Unsent' = {}
        BY <1>2, <2>1 DEF Unsent
      <3>4. CarriesOn(events, file.evs, browser', Replayed(file, browser.last), {})
        BY <1>0, <2>2, <2>5, <3>2, CarriesConnect
      <3> QED
        BY <2>1, <3>1, <3>3, <3>4
    <2> QED
      BY <1>1, <1>2, <2>1, <2>2, <2>4, <2>5 DEF StreamInv, StreamTypes
  <1>4. CASE Receive
    <2> DEFINE h == Head(wire)
    <2>1. /\ browser.connected /\ wire # <<>> /\ wire' = Tail(wire)
          /\ browser' = [browser EXCEPT !.last = events[h].seq, !.got = @ \cup {h}]
      BY <1>4 DEF Receive
    <2>2. h \in 1..Len(events) /\ wire' \in Seq(1..Len(events))
      BY <1>0, <2>1
    <2>3. events[h].seq \in Nat
      <3>1. events[h] \in EventRecords
        BY <1>0, <2>2
      <3> QED
        BY <3>1 DEF EventRecords
    <2> HIDE DEF h
    <2>4. /\ browser' \in Browsers(Len(events)) /\ browser'.connected
          /\ browser'.last = events[h].seq /\ browser'.got = browser.got \cup {h}
      BY <1>0, <2>1, <2>2, <2>3 DEF Browsers
    <2>5. ASSUME CarriesOn(events, file.evs, browser, wire, Unsent)
          PROVE  CarriesOn(events, file.evs, browser', Tail(wire), Unsent)
      <3>1. browser'.last = events[Head(wire)].seq /\ browser'.got = browser.got \cup {Head(wire)}
        BY <2>4 DEF h
      <3> QED
        BY <1>0, <2>1, <2>4, <2>5, <3>1, CarriesReceive
    <2> QED
      BY <1>1, <1>2, <2>1, <2>2, <2>4, <2>5 DEF StreamInv, StreamTypes
  <1>5. CASE Drop
    <2>1. wire' = <<>> /\ browser' = [browser EXCEPT !.connected = FALSE]
      BY <1>5 DEF Drop
    <2>2. /\ browser' \in Browsers(Len(events)) /\ ~ browser'.connected
          /\ browser'.last = browser.last /\ browser'.got = browser.got
      BY <1>0, <2>1 DEF Browsers
    <2>3. ASSUME CarriesOn(events, file.evs, browser, wire, Unsent)
          PROVE  CarriesOn(events, file.evs, browser', <<>>, Unsent)
      BY <1>0, <2>2, <2>3, CarriesEnd
    <2>4. wire' \in Seq(1..Len(events))
      BY <2>1
    <2> QED
      BY <1>1, <1>2, <2>1, <2>2, <2>3, <2>4 DEF StreamInv, StreamTypes
  <1> QED
    BY <1>3, <1>4, <1>5

\* A process dies; with the server the connection.
LEMMA CrashStream ==
    ASSUME RunInv, RunInv', StreamInv, NEW p \in Procs, Crash(p) \/ CrashInAppend(p)
    PROVE  StreamInv'
  <1>0. /\ events \in Seq(EventRecords) /\ Len(events) \in Nat
        /\ file.evs \in Seq(1..Len(events)) /\ wire \in Seq(1..Len(events))
        /\ browser \in Browsers(Len(events)) /\ raced \in BOOLEAN
        /\ "server" \in Procs /\ "worker" \in Procs
    BY StreamFacts DEF StreamInv, StreamTypes
  <1>1. /\ UNCHANGED <<events, file, raced>> /\ doing' = [doing EXCEPT ![p] = Idle]
        /\ browser' = IF p = "server" THEN [browser EXCEPT !.connected = FALSE] ELSE browser
        /\ wire' = IF p = "server" THEN <<>> ELSE wire
    BY DEF Crash, CrashInAppend, Forgotten
  <1>2. /\ doing'["server"] = (IF p = "server" THEN Idle ELSE doing["server"])
        /\ doing'["worker"] = (IF p = "worker" THEN Idle ELSE doing["worker"])
        /\ Idle.op = "none"
    BY <1>1, StreamFacts DEF Idle
  <1>4. CASE p # "server"
    <2>1. Unsent' = Unsent /\ wire' = wire /\ browser' = browser
      BY <1>1, <1>2, <1>4 DEF Unsent
    <2> QED
      BY <1>0, <1>1, <2>1, StreamFramed
  <1>5. CASE p = "server"
    <2>1. Unsent' = {} /\ wire' = <<>> /\ wire' \in Seq(1..Len(events))
      BY <1>1, <1>2, <1>5 DEF Unsent
    <2>2. /\ browser' \in Browsers(Len(events)) /\ ~ browser'.connected
          /\ browser'.last = browser.last /\ browser'.got = browser.got
      BY <1>0, <1>1, <1>5 DEF Browsers
    <2>3. ASSUME CarriesOn(events, file.evs, browser, wire, Unsent)
          PROVE  CarriesOn(events, file.evs, browser', <<>>, {})
      BY <1>0, <2>2, <2>3, CarriesEnd
    <2> QED
      BY <1>1, <2>1, <2>2, <2>3 DEF StreamInv, StreamTypes
  <1> QED
    BY <1>4, <1>5

\* A step that records and publishes nothing.
LEMMA OwnFramed ==
    ASSUME RunInv, OwnEvents, UNCHANGED file, raced => raced',
           Len(events) <= Len(events'), \A i \in 1..Len(events) : events'[i] = events[i],
           \A p \in Procs : bridge'[p] \subseteq bridge[p],
           \A p \in Procs : doing'[p].op = "event" =>
               \/ /\ doing[p].op = "event" /\ doing'[p].ev = doing[p].ev
                  /\ doing'[p].at \in {"stat", "observed"} => doing[p].at \in {"stat", "observed"}
               \/ /\ doing'[p].at = "get"
                  /\ events'[doing'[p].ev].by = p \/ doing'[p].ev \in bridge[p]
    PROVE  OwnEvents'
  <1> SUFFICES ASSUME ~ raced' PROVE OwnEvents'
    BY DEF OwnEvents
  <1>1. /\ \A p \in Procs : \A e \in bridge[p] : InSeq(file.evs, e)
        /\ \A p \in Procs : Sending(p) => InSeq(file.evs, doing[p].ev)
    BY DEF OwnEvents
  <1>2. \A p \in Procs : Sending(p)' => Sending(p) /\ doing'[p].ev = doing[p].ev
    BY DEF Sending
  <1>3. ASSUME doing'["worker"].op = "event"
        PROVE  \/ events'[doing'["worker"].ev].by = "worker"
               \/ InSeq(file.evs, doing'["worker"].ev)
    <2>1. "worker" \in Procs
      BY DEF Procs
    <2>2. CASE doing[ "worker"].op = "event" /\ doing'["worker"].ev = doing["worker"].ev
      <3>1. doing["worker"].ev \in 1..Len(events)
        BY <2>1, <2>2, StreamFacts
      <3> QED
        BY <2>2, <3>1 DEF OwnEvents
    <2> QED
      BY <1>1, <1>3, <2>1, <2>2
  <1> QED
    BY <1>1, <1>2, <1>3 DEF OwnEvents

\* A process goes on to d, and nothing is recorded or published.
LEMMA OwnMoves ==
    ASSUME RunInv, OwnEvents, NEW p \in Procs, NEW d, doing' = [doing EXCEPT ![p] = d],
           UNCHANGED file, raced => raced',
           Len(events) <= Len(events'), \A i \in 1..Len(events) : events'[i] = events[i],
           \A q \in Procs : bridge'[q] \subseteq bridge[q],
           d.op = "event" =>
               \/ /\ doing[p].op = "event" /\ d.ev = doing[p].ev
                  /\ d.at \in {"stat", "observed"} => doing[p].at \in {"stat", "observed"}
               \/ d.at = "get" /\ (events'[d.ev].by = p \/ d.ev \in bridge[p])
    PROVE  OwnEvents'
  <1>1. \A q \in Procs : doing'[q] = IF q = p THEN d ELSE doing[q]
    BY StreamFacts
  <1>2. ASSUME NEW q \in Procs, doing'[q].op = "event"
        PROVE  \/ /\ doing[q].op = "event" /\ doing'[q].ev = doing[q].ev
                  /\ doing'[q].at \in {"stat", "observed"} => doing[q].at \in {"stat", "observed"}
               \/ /\ doing'[q].at = "get"
                  /\ events'[doing'[q].ev].by = q \/ doing'[q].ev \in bridge[q]
    BY <1>1, <1>2
  <1> QED
    BY <1>2, OwnFramed

LEMMA OwnPersist ==
    ASSUME RunInv, OwnEvents, NEW p \in Procs, Persist(p)
    PROVE  OwnEvents'
  <1> SUFFICES ASSUME ~ raced' PROVE OwnEvents'
    BY DEF OwnEvents
  <1> DEFINE d == doing[p]  e == doing[p].ev
  <1>1. /\ d.at = "write" /\ file' = Mutated(cached[p].snap, d)
        /\ doing' = [doing EXCEPT ![p].at = "stat"]
        /\ UNCHANGED <<events, bridge>> /\ (raced => raced')
    BY DEF Persist, stored
  <1>2. ~ raced /\ cached[p].snap = file /\ file \in SnapshotsTo(Len(events)) /\ d.op # "none"
    <2>1. file \in SnapshotsTo(Len(events)) /\ d.op # "none"
      BY <1>1, RunTypes DEF RunInv, DoingInv
    <2> QED
      BY <1>1, <2>1 DEF RunInv, CoherentInv
  <1>3. /\ file.evs \in Seq(1..Len(events)) /\ Len(events) \in Nat /\ d \in Calls(Len(events))
        /\ d.op = "event" => e \in 1..Len(events)
    BY StreamFacts
  <1>4. /\ d.op # "event" => file'.evs = file.evs
        /\ d.op = "event" => file'.evs = Append(file.evs, e)
    BY <1>1, <1>2, <1>3, MutatedFacts
  <1>5. /\ \A x : InSeq(file.evs, x) => InSeq(file'.evs, x)
        /\ d.op = "event" => InSeq(file'.evs, e)
    <2>1. ASSUME d.op = "event"
          PROVE  \A x : InSeq(Append(file.evs, e), x) <=> InSeq(file.evs, x) \/ x = e
      <3>1. e \in 1..Len(events)
        BY <1>3, <2>1
      <3> HIDE DEF e
      <3> QED
        BY <1>3, <3>1, Appending
    <2> QED
      BY <1>4, <2>1
  <1>6. \A q \in Procs : doing'[q].op = doing[q].op /\ doing'[q].ev = doing[q].ev
                         /\ (q # p => doing'[q].at = doing[q].at)
    BY <1>1, <1>3, StreamFacts DEF Calls
  <1>7. ASSUME NEW q \in Procs, Sending(q)' PROVE InSeq(file'.evs, doing'[q].ev)
    <2>1. CASE q = p
      BY <1>5, <1>6, <1>7, <2>1 DEF Sending
    <2>2. CASE q # p
      BY <1>2, <1>5, <1>6, <1>7, <2>2 DEF Sending, OwnEvents
    <2> QED
      BY <2>1, <2>2
  <1>8. \A q \in Procs : \A x \in bridge[q] : InSeq(file'.evs, x)
    BY <1>2, <1>5 DEF OwnEvents
  <1>9. "worker" \in Procs
    BY DEF Procs
  <1> QED
    BY <1>1, <1>2, <1>5, <1>6, <1>7, <1>8, <1>9 DEF OwnEvents

LEMMA OwnOnEvent ==
    ASSUME RunInv, OwnEvents, NEW p \in Procs, OnEvent(p)
    PROVE  OwnEvents'
  <1> SUFFICES ASSUME ~ raced' PROVE OwnEvents'
    BY DEF OwnEvents
  <1>1. /\ UNCHANGED <<events, file, raced>> /\ doing[p].at = "observed"
        /\ bridge' = [q \in Procs |-> bridge[q] \cup {doing[p].ev}]
        /\ doing' = [doing EXCEPT ![p] = Idle]
    BY DEF OnEvent
  <1>2. Sending(p)
    BY <1>1 DEF Sending, RunInv, DoingInv
  <1>3. \A q \in Procs : \A e \in bridge'[q] : InSeq(file.evs, e)
    BY <1>1, <1>2 DEF OwnEvents
  <1>4. \A q \in Procs : doing'[q].op = "event" => doing'[q] = doing[q]
    BY <1>1, StreamFacts DEF Idle
  <1>5. "worker" \in Procs
    BY DEF Procs
  <1> QED
    BY <1>1, <1>3, <1>4, <1>5 DEF OwnEvents, Sending

\* Every step keeps it.
LEMMA OwnStep ==
    ASSUME RunInv, OwnEvents, [StoreNext]_storeVars
    PROVE  OwnEvents'
  <1>0. Len(events) \in Nat /\ doing \in [Procs -> Calls(Len(events))]
        /\ events \in Seq(EventRecords)
    BY StreamFacts
  <1>1. ASSUME UNCHANGED <<events, file, doing, bridge>>, raced => raced' PROVE OwnEvents'
    BY <1>1 DEF OwnEvents, Sending
  <1>2. ASSUME NEW p \in Procs, NEW d, doing' = [doing EXCEPT ![p] = d],
               UNCHANGED <<events, file>>, raced => raced',
               \A q \in Procs : bridge'[q] \subseteq bridge[q],
               d.op = "event" =>
                   \/ /\ doing[p].op = "event" /\ d.ev = doing[p].ev
                      /\ d.at \in {"stat", "observed"} => doing[p].at \in {"stat", "observed"}
                   \/ d.at = "get" /\ d.ev \in bridge[p]
        PROVE  OwnEvents'
    <2>1. Len(events) <= Len(events') /\ \A i \in 1..Len(events) : events'[i] = events[i]
      BY <1>0, <1>2
    <2> QED
      BY <1>2, <2>1, OwnMoves
  <1>3. ASSUME NEW p \in Procs, Emit(p) \/ Announce(p) PROVE OwnEvents'
    <2> DEFINE e == Len(events) + 1
               d == [at |-> "get", op |-> "event", ev |-> e]
    <2>1. PICK r : r.by = p /\ events' = Append(events, r)
      BY <1>3 DEF Emit, Announce
    <2>2. doing' = [doing EXCEPT ![p] = d] /\ UNCHANGED <<file, raced, bridge>>
      BY <1>3 DEF Emit, Announce
    <2>3. /\ Len(events) <= Len(events') /\ events'[e].by = p
          /\ \A i \in 1..Len(events) : events'[i] = events[i]
      BY <1>0, <2>1
    <2>4. d.at = "get" /\ d.ev = e
      OBVIOUS
    <2> HIDE DEF d, e
    <2>5. /\ \A q \in Procs : bridge'[q] \subseteq bridge[q]
          /\ UNCHANGED file /\ (raced => raced')
          /\ d.at = "get" /\ (events'[d.ev].by = p \/ d.ev \in bridge[p])
      BY <2>2, <2>3, <2>4
    <2> QED
      BY <2>2, <2>3, <2>5, OwnMoves
  <1>4. ASSUME NEW p \in Procs, NEW e \in bridge[p], Ingest(p, e) PROVE OwnEvents'
    <2> DEFINE d == [at |-> "get", op |-> "event", ev |-> e]
    <2>1. UNCHANGED <<events, file, raced, bridge>> /\ (doing' = doing \/ doing' = [doing EXCEPT ![p] = d])
      BY <1>4 DEF Ingest, TakeOver
    <2>2. d.at = "get" /\ d.ev \in bridge[p]
      OBVIOUS
    <2> HIDE DEF d
    <2> QED
      BY <1>1, <1>2, <2>1, <2>2
  <1>5. ASSUME NEW p \in Procs, NEW op \in {"artifact", "removeArtifact"}, Call(p, op)
        PROVE  OwnEvents'
    <2> DEFINE d == [at |-> "get", op |-> op, ev |-> 0]
    <2>1. doing' = [doing EXCEPT ![p] = d] /\ d.op # "event"
      BY <1>5 DEF Call
    <2>2. UNCHANGED <<events, file, raced, bridge>>
      BY <1>5 DEF Call, stored
    <2> HIDE DEF d
    <2> QED
      BY <1>2, <2>1, <2>2
  <1>6. ASSUME NEW p \in Procs, Require(p) PROVE OwnEvents'
    <2>1. PICK d : /\ doing' = [doing EXCEPT ![p] = d]
                   /\ d \in {Idle, [doing[p] EXCEPT !.at = "write"]}
      BY <1>6 DEF Require
    <2>2. UNCHANGED <<events, file, raced, bridge>>
      BY <1>6 DEF Require, stored
    <2>3. d.op = "event" => doing[p].op = "event" /\ d.ev = doing[p].ev /\ d.at = "write"
      BY <1>0, <2>1 DEF Idle, Calls
    <2> QED
      BY <1>2, <2>1, <2>2, <2>3
  <1>7. ASSUME NEW p \in Procs, NoteDiskVersion(p) PROVE OwnEvents'
    <2>1. PICK d : /\ doing' = [doing EXCEPT ![p] = d]
                   /\ d = CASE doing[p].op = "event"  -> [doing[p] EXCEPT !.at = "observed"]
                            [] doing[p].op = "finish" -> [doing[p] EXCEPT !.at = "announce"]
                            [] OTHER -> Idle
      BY <1>7 DEF NoteDiskVersion
    <2>2. UNCHANGED <<events, file, raced, bridge>> /\ doing[p].at = "stat"
      BY <1>7 DEF NoteDiskVersion, stored
    <2>3. d.op = "event" => doing[p].op = "event" /\ d.ev = doing[p].ev
      BY <1>0, <2>1 DEF Idle, Calls
    <2> QED
      BY <1>2, <2>1, <2>2, <2>3
  <1>8. ASSUME NEW p \in Procs, FinishTest(p) PROVE OwnEvents'
    <2>1. PICK d : /\ doing' = [doing EXCEPT ![p] = d]
                   /\ d \in {Idle, [at |-> "get", op |-> "finish", ev |-> 0]}
      BY <1>8 DEF FinishTest
    <2>2. UNCHANGED <<events, file, raced, bridge>>
      BY <1>8 DEF FinishTest, stored
    <2>3. d.op # "event"
      BY <2>1 DEF Idle
    <2> QED
      BY <1>2, <2>1, <2>2, <2>3
  <1>9. ASSUME NEW p \in Procs, Crash(p) \/ CrashInAppend(p) PROVE OwnEvents'
    <2>1. /\ UNCHANGED <<events, file, raced>> /\ doing' = [doing EXCEPT ![p] = Idle]
          /\ bridge' = [bridge EXCEPT ![p] = {}]
      BY <1>9 DEF Crash, CrashInAppend, Forgotten
    <2>2. bridge \in [Procs -> SUBSET (1..Len(events))]
      BY RunTypes DEF RunInv
    <2>3. Idle.op # "event" /\ \A q \in Procs : bridge'[q] \subseteq bridge[q]
      BY <2>1, <2>2 DEF Idle
    <2> QED
      BY <1>2, <2>1, <2>3
  <1>10. ASSUME NEW p \in Procs, EmitRejected(p) \/ FinishRead(p) PROVE OwnEvents'
    <2>1. CASE EmitRejected(p)
      BY <1>1, <2>1 DEF EmitRejected, repo
    <2>2. CASE FinishRead(p)
      BY <1>1, <2>2 DEF FinishRead, stored
    <2> QED
      BY <1>10, <2>1, <2>2
  <1>11. CASE Connect \/ Receive \/ Drop
    BY <1>1, <1>11 DEF Connect, Receive, Drop, stored, repo
  <1>12. CASE UNCHANGED storeVars
    BY <1>1, <1>12 DEF storeVars, stored, repo
  <1>13. ASSUME NEW p \in Procs, ProcNext(p) PROVE OwnEvents'
    <2>1. CASE Persist(p) \/ OnEvent(p)
      BY <2>1, OwnPersist, OwnOnEvent
    <2> QED
      BY <1>3, <1>5, <1>6, <1>7, <1>8, <1>9, <1>10, <1>13, <2>1 DEF ProcNext
  <1> QED
    BY <1>4, <1>11, <1>12, <1>13 DEF StoreNext

LEMMA StreamStep ==
    ASSUME RunInv, RunInv', OwnEvents, StreamInv, [StoreNext]_storeVars
    PROVE  StreamInv'
  <1>1. ASSUME NEW p \in Procs, ProcNext(p) PROVE StreamInv'
    <2>1. CASE Emit(p) \/ Announce(p)
      BY <2>1, RecordingStream
    <2>2. CASE EmitRejected(p) \/ Require(p) \/ NoteDiskVersion(p) \/ FinishRead(p) \/ FinishTest(p)
      BY <2>2, QuietStream
    <2>3. CASE \E op \in {"artifact", "removeArtifact"} : Call(p, op)
      BY <2>3, QuietStream
    <2>4. CASE Persist(p) \/ OnEvent(p)
      BY <2>4, PersistStream, OnEventStream
    <2>5. CASE Crash(p) \/ CrashInAppend(p)
      BY <2>5, CrashStream
    <2> QED
      BY <1>1, <2>1, <2>2, <2>3, <2>4, <2>5 DEF ProcNext
  <1>2. ASSUME NEW p \in Procs, NEW e \in bridge[p], Ingest(p, e) PROVE StreamInv'
    BY <1>2, RecordingStream
  <1>3. CASE Connect \/ Receive \/ Drop
    BY <1>3, BrowserStream
  <1>4. CASE UNCHANGED storeVars
    <2>1. UNCHANGED <<events, file, doing, raced, browser, wire>>
      BY <1>4 DEF storeVars, stored, repo, stream
    <2>2. Unsent' = Unsent
      BY <2>1 DEF Unsent
    <2> QED
      BY <2>1, <2>2 DEF StreamInv, StreamTypes
  <1> QED
    BY <1>1, <1>2, <1>3, <1>4 DEF StoreNext

LEMMA StreamInit == StoreInit => OwnEvents /\ StreamInv
  <1> SUFFICES ASSUME StoreInit PROVE OwnEvents /\ StreamInv
    OBVIOUS
  <1>1. /\ events = <<>> /\ wire = <<>> /\ Len(<<>>) = 0 /\ file.evs = <<>>
        /\ browser = [connected |-> FALSE, last |-> 0, got |-> {}]
    BY DEF StoreInit, Created
  <1>2. /\ \A p \in Procs : doing[p].op = "none" /\ bridge[p] = {}
        /\ "server" \in Procs /\ "worker" \in Procs
    BY DEF StoreInit, Idle, Procs
  <1>3. StreamTypes /\ OwnEvents /\ Unsent = {}
    BY <1>1, <1>2 DEF StreamTypes, OwnEvents, Sending, Unsent, Browsers
  <1>4. \A i \in 1..Len(<<>>) : FALSE
    BY <1>1
  <1>5. CarriesOn(events, file.evs, browser, wire, Unsent)
    BY <1>1, <1>3, <1>4 DEF CarriesOn, Rising
  <1> QED
    BY <1>3, <1>5 DEF StreamInv

(* A browser that is connected and has read all of its connection has every *)
(* event the server has recorded, for any number of events, crashes and     *)
(* reconnections, as long as the recorded numbers rise and no write raced   *)
(* (http-server.ts, the events route: replay after Last-Event-ID, then      *)
(* subscribe; event-bus.ts).                                                *)
THEOREM StreamWhole == StoreSpec => []StreamIsWhole
  <1> DEFINE Inv == RunInv /\ OwnEvents /\ StreamInv
  <1>1. StoreInit => Inv
    BY RunInit, StreamInit
  <1>2. Inv /\ [StoreNext]_storeVars => Inv'
    <2> SUFFICES ASSUME RunInv, OwnEvents, StreamInv, [StoreNext]_storeVars PROVE Inv'
      OBVIOUS
    <2>1. RunInv' /\ OwnEvents'
      BY RunStep, OwnStep
    <2> QED
      BY <2>1, StreamStep
  <1>3. Inv => StreamIsWhole
    <2> SUFFICES ASSUME RunInv, StreamInv PROVE StreamIsWhole
      OBVIOUS
    <2>1. browser.got \subseteq 1..Len(events)
      BY DEF StreamInv, StreamTypes, Browsers
    <2>2. ASSUME browser.connected, wire = <<>>, Free("server"), Ordered, ~ raced,
                 NEW i \in 1..Len(file.evs), events[file.evs[i]].by = "server"
          PROVE  file.evs[i] \in browser.got
      <3>1. CarriesOn(events, file.evs, browser, wire, Unsent)
        BY <2>2 DEF StreamInv, Ordered, Rising
      <3>2. Unsent = {} /\ \A e : ~ InSeq(wire, e)
        BY <2>2 DEF Unsent, Free, InSeq
      <3>3. file.evs[i] \in 1..Len(events) /\ InSeq(file.evs, file.evs[i])
        BY StreamFacts DEF InSeq
      <3> QED
        BY <2>2, <3>1, <3>2, <3>3 DEF CarriesOn
    <2> QED
      BY <2>1, <2>2 DEF StreamIsWhole, StreamHasNoGap, HasServerEvents
  <1> QED
    BY <1>1, <1>2, <1>3, PTL DEF StoreSpec
=============================================================================
