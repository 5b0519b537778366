---------------------------- MODULE ArtifactStore ----------------------------
(***************************************************************************)
(* The artifact store of a run: create publishes an immutable artifact by  *)
(* a hard link from a file of its own, save replaces a plain artifact by   *)
(* renaming a temporary file named after the process.  A call opens its    *)
(* temporary file, writes it and publishes it in three steps that other    *)
(* calls interleave with; an open file stays the same file after a rename. *)
(***************************************************************************)
EXTENDS Naturals, FiniteSets

CONSTANTS ArtCalls,  \* calls of the store, a call is the value it writes
          Pids       \* the processes that share the directory

VARIABLES node,   \* [ArtCalls -> contents of the file a call has made]
          temp,   \* [Pids -> the file under the process's temporary name]
          named,  \* ["immutable", "plain" -> the file under the name]
          art,    \* [ArtCalls -> the call: where it is, its process, its file]
          shared  \* history: two saves of a process have used one file

artVars == <<node, temp, named, art, shared>>

Missing == "missing"
Empty == "empty"

ASSUME ArtAssumption == Missing \notin ArtCalls /\ Empty \notin ArtCalls

NewCall == [at |-> "idle", op |-> "none", pid |-> Missing, fd |-> Missing, result |-> "none"]

ArtInit ==
    /\ node = [c \in ArtCalls |-> Missing]
    /\ temp = [p \in Pids |-> Missing]
    /\ named = [n \in {"immutable", "plain"} |-> Missing]
    /\ art = [c \in ArtCalls |-> NewCall]
    /\ shared = FALSE

Go(c, at) == art' = [art EXCEPT ![c].at = at]
Result(c, r) == art' = [art EXCEPT ![c].at = "done", ![c].result = r]

(* create opens a file under a random name, so the file is the call's own. *)
CreateOpen(c, p) ==
    /\ art[c].at = "idle"
    /\ art' = [art EXCEPT ![c] = [at |-> "opened", op |-> "create", pid |-> p,
                                  fd |-> c, result |-> "none"]]
    /\ node' = [node EXCEPT ![c] = Empty]
    /\ UNCHANGED <<temp, named, shared>>

(* save opens the process's temporary file and truncates what is there. *)
SaveOpen(c, p) ==
    LET f == IF temp[p] = Missing THEN c ELSE temp[p]
    IN /\ art[c].at = "idle"
       /\ art' = [art EXCEPT ![c] = [at |-> "opened", op |-> "save", pid |-> p,
                                     fd |-> f, result |-> "none"]]
       /\ temp' = [temp EXCEPT ![p] = f]
       /\ node' = [node EXCEPT ![f] = Empty]
       /\ shared' = (shared \/ temp[p] # Missing)
       /\ UNCHANGED named

WriteTemp(c) ==
    /\ art[c].at = "opened"
    /\ node' = [node EXCEPT ![art[c].fd] = c]
    /\ Go(c, "written")
    /\ UNCHANGED <<temp, named, shared>>

(* link fails when the name exists: the first call wins. *)
Link(c) ==
    /\ art[c].at = "written" /\ art[c].op = "create"
    /\ IF named["immutable"] = Missing
       THEN named' = [named EXCEPT !["immutable"] = art[c].fd] /\ Result(c, "created")
       ELSE UNCHANGED named /\ Result(c, "present")
    /\ UNCHANGED <<node, temp, shared>>

\* Mutant: the temporary file is published before it is written.
RenameEarly(c) ==
    /\ art[c].at \in {"opened", "written"} /\ art[c].op = "save"
    /\ IF temp[art[c].pid] = Missing
       THEN Result(c, "rejected") /\ UNCHANGED <<named, temp>>
       ELSE /\ named' = [named EXCEPT !["plain"] = temp[art[c].pid]]
            /\ temp' = [temp EXCEPT ![art[c].pid] = Missing]
            /\ Result(c, "saved")
    /\ UNCHANGED <<node, shared>>

(* rename moves whatever is under the temporary name, and fails when another *)
(* save of the process has moved it already.                                 *)
Rename(c) ==
    /\ art[c].at = "written" /\ art[c].op = "save"
    /\ IF temp[art[c].pid] = Missing
       THEN Result(c, "rejected") /\ UNCHANGED <<named, temp>>
       ELSE /\ named' = [named EXCEPT !["plain"] = temp[art[c].pid]]
            /\ temp' = [temp EXCEPT ![art[c].pid] = Missing]
            /\ Result(c, "saved")
    /\ UNCHANGED <<node, shared>>

(* load parses the file; an optional artifact may be missing. *)
Load(c, n) ==
    LET v == IF named[n] = Missing THEN Missing ELSE node[named[n]]
    IN /\ art[c].at = "idle"
       /\ art' = [art EXCEPT ![c].at = "done", ![c].op = "load",
                             ![c].result = IF v = Empty THEN "unparsable" ELSE "loaded"]
       /\ UNCHANGED <<node, temp, named, shared>>

Remove(c) ==
    /\ art[c].at = "idle"
    /\ named' = [named EXCEPT !["plain"] = Missing]
    /\ art' = [art EXCEPT ![c].at = "done", ![c].op = "remove", ![c].result = "removed"]
    /\ UNCHANGED <<node, temp, shared>>

ArtNext ==
    \E c \in ArtCalls :
        \/ \E p \in Pids : CreateOpen(c, p) \/ SaveOpen(c, p)
        \/ \E n \in {"immutable", "plain"} : Load(c, n)
        \/ WriteTemp(c) \/ Link(c) \/ Rename(c) \/ Remove(c)

ArtSpec == ArtInit /\ [][ArtNext]_artVars

-----------------------------------------------------------------------------
(* An immutable artifact is the whole value of the one call that was told   *)
(* it had created it, whatever other calls of either process do meanwhile.  *)
CreatedOnce ==
    \A c \in ArtCalls : art[c].result = "created" =>
        named["immutable"] = c /\ node[c] = c

(* As long as the saves of one process do not overlap, no reader finds half *)
(* an artifact and no save fails, even with both processes saving at once.  *)
SavedWhole ==
    shared \/ \A c \in ArtCalls : art[c].result \notin {"unparsable", "rejected"}

(* Artifacts are whole, and an immutable one is created once               *)
(* (artifact-store.ts:create, save and load).                              *)
ArtifactsWhole == CreatedOnce /\ SavedWhole
=============================================================================
