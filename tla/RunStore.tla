------------------------------ MODULE RunStore ------------------------------
(***************************************************************************)
(* What the API server and the pipeline worker keep about one run, and how *)
(* a browser follows it: the event bus and the event store (one JSONL file *)
(* for both processes), the run repository (one snapshot file, a cached    *)
(* copy in each process, reloaded when the file is newer), the observer    *)
(* that ties them together, the checkpoint of task management, the queue   *)
(* bridge of the server, and the event stream of the browser.              *)
(*                                                                         *)
(* Each process runs its synchronous code to the end, but the files are    *)
(* shared, so a step is one access to a file.  Modification times are      *)
(* compared only with one another; two writes may fall into one tick of    *)
(* the file system's clock.  The write-in-place that persist falls back to *)
(* when rename fails (a locked file on Windows) is not distinguished.      *)
(***************************************************************************)
EXTENDS Naturals, Sequences, FiniteSets

CONSTANTS MaxEvents,   \* events emitted
          MaxCalls,    \* bound on finish, artifact and removeArtifact calls
          MaxFaults    \* bound on crashes of a process and broken connections

ASSUME RunStoreAssumption ==
    {MaxEvents, MaxCalls, MaxFaults} \subseteq Nat

VARIABLES events,   \* the events emitted, in order; an event is its position
          jsonl,    \* lines of the event file: an event, or 0 when unreadable
          open,     \* the last line has no newline yet
          bus,      \* [Procs -> loaded, the event ids seen, the sequence]
          cached,   \* [Procs -> the copy of the snapshot, and whether the file is newer]
          file,     \* the snapshot file
          doing,    \* [Procs -> the repository call under way]
          ending,   \* [Procs -> the status finish has read]
          checkpoint, \* the event of the last checkpoint, or 0
          bridge,   \* [Procs -> events in BullMQ's progress stream since it reads it]
          browser,  \* the browser's end of the stream
          wire,     \* events written to the open connection
          want,     \* history: the snapshot had the calls been atomic
          raced,    \* history: the two processes' calls have overlapped
          restarted, \* history: processes that have died
          relayed,  \* history: events taken over by a process that had not emitted them
          calls, faults

stored == <<events, jsonl, open, bus, checkpoint, bridge>>
repo == <<cached, file, doing, ending, want, raced>>
stream == <<browser, wire>>
history == <<restarted, relayed>>
bounds == <<calls, faults>>
storeVars == <<stored, repo, stream, history, bounds>>

Procs == {"server", "worker"}
NoSnapshot == [status |-> "none", evs |-> <<>>, artifact |-> FALSE]
Idle == [at |-> "idle", op |-> "none", ev |-> 0]

(* create(): a run starts as a snapshot without events, written by the server. *)
Created == [status |-> "Running", evs |-> <<>>, artifact |-> FALSE]

StoreInit ==
    /\ events = <<>> /\ jsonl = <<>> /\ open = FALSE
    /\ bus = [p \in Procs |-> [loaded |-> FALSE, seen |-> {}, sequence |-> 0]]
    /\ file = Created
    /\ cached = [p \in Procs |-> [snap |-> IF p = "server" THEN Created ELSE NoSnapshot,
                                  newer |-> p # "server"]]
    /\ doing = [p \in Procs |-> Idle]
    /\ ending = [p \in Procs |-> "no"]
    /\ checkpoint = 0 /\ bridge = [p \in Procs |-> {}]
    /\ browser = [connected |-> FALSE, last |-> 0, got |-> {}]
    /\ wire = <<>>
    /\ want = Created /\ raced = FALSE /\ restarted = {} /\ relayed = {}
    /\ calls = 0 /\ faults = 0

-----------------------------------------------------------------------------
(* The event store and the bus *)

(* load: the readable lines, each event once. *)
Readable == {jsonl[i] : i \in 1..Len(jsonl)} \ {0}
LastLine ==
    LET good == {i \in 1..Len(jsonl) : jsonl[i] # 0}
    IN IF good = {} THEN 0 ELSE events[jsonl[CHOOSE i \in good : \A j \in good : j <= i]].seq
Loaded(p) == IF bus[p].loaded THEN bus[p]
             ELSE [loaded |-> TRUE, seen |-> Readable, sequence |-> LastLine]

(* append: one line; what follows an unfinished line is unreadable with it. *)
Appended(e) == /\ jsonl' = IF open THEN jsonl ELSE Append(jsonl, e)
               /\ open' = FALSE

(* The process has no synchronous call under way. *)
Free(p) == doing[p].at = "idle"

(* The server passes the worker's progress on as Running events; the worker *)
(* reports the completion of its stages.                                    *)
EmittedBy(p) == IF p = "server" THEN "Running" ELSE "Completed"

(* emit up to the append; the observers are called by the steps below. *)
Emit(p) ==
    LET b == Loaded(p)
        e == Len(events) + 1
    IN /\ Free(p) /\ e <= MaxEvents
       /\ events' = Append(events, [seq |-> b.sequence + 1, by |-> p, kind |-> EmittedBy(p)])
       /\ bus' = [bus EXCEPT ![p] = [loaded |-> TRUE, seen |-> b.seen \cup {e},
                                     sequence |-> b.sequence + 1]]
       /\ Appended(e)
       /\ doing' = [doing EXCEPT ![p] = [at |-> "get", op |-> "event", ev |-> e]]
       /\ UNCHANGED <<checkpoint, bridge, cached, file, ending, want, raced, stream, history,
                      bounds>>

(* emit throws on contradictory fields, after it has taken a number. *)
EmitRejected(p) ==
    /\ Free(p) /\ calls < MaxCalls
    /\ calls' = calls + 1
    /\ bus' = [bus EXCEPT ![p] = [Loaded(p) EXCEPT !.sequence = @ + 1]]
    /\ UNCHANGED <<events, jsonl, open, checkpoint, bridge, repo, stream, history, faults>>

(* ingest of an event the bus has not seen: what emit does, with the number *)
(* the event came with.                                                     *)
TakeOver(p, e) ==
    LET b == Loaded(p)
    IN /\ bus' = [bus EXCEPT ![p] =
                     [b EXCEPT !.seen = @ \cup {e},
                               !.sequence = IF events[e].seq > @ THEN events[e].seq ELSE @]]
       /\ Appended(e)
       /\ doing' = [doing EXCEPT ![p] = [at |-> "get", op |-> "event", ev |-> e]]
       /\ relayed' = IF events[e].by # p \/ p \in restarted THEN relayed \cup {e} ELSE relayed

\* Mutant: deliveries are not deduplicated.
IngestAgain(p, e) ==
    /\ Free(p) /\ e \in bridge[p]
    /\ TakeOver(p, e)
    /\ UNCHANGED <<events, checkpoint, bridge, cached, file, ending, want, raced, stream,
                   restarted, bounds>>

(* ingest: a bus gets the events of the progress stream any number of times, *)
(* its own and those of the other process, and takes over as it is what it   *)
(* has not seen: the line is appended and the observers called once more.    *)
Ingest(p, e) ==
    LET b == Loaded(p)
    IN /\ Free(p) /\ e \in bridge[p]
       /\ IF e \in b.seen
          THEN /\ bus' = [bus EXCEPT ![p] = b]
               /\ UNCHANGED <<jsonl, open, doing, relayed>>
          ELSE TakeOver(p, e)
       /\ UNCHANGED <<events, checkpoint, bridge, cached, file, ending, want, raced, stream,
                      restarted, bounds>>

-----------------------------------------------------------------------------
(* The run repository *)

(* get: the copy in memory, unless there is none or the file is newer. *)
get(p) == IF cached[p].snap = NoSnapshot \/ cached[p].newer
          THEN [snap |-> file, newer |-> FALSE]
          ELSE cached[p]

(* What a repository call does to the snapshot it has required. *)
Mutated(s, d) ==
    CASE d.op = "event"  -> [s EXCEPT !.evs = Append(@, d.ev)]
      [] d.op = "finish" -> [s EXCEPT !.status = "Done"]
      [] d.op = "artifact" -> [s EXCEPT !.artifact = TRUE]
      [] d.op = "removeArtifact" -> [s EXCEPT !.artifact = FALSE]

(* artifact and removeArtifact *)
Call(p, op) ==
    /\ Free(p) /\ calls < MaxCalls
    /\ calls' = calls + 1
    /\ doing' = [doing EXCEPT ![p] = [at |-> "get", op |-> op, ev |-> 0]]
    /\ UNCHANGED <<stored, cached, file, ending, want, raced, stream, history, faults>>

(* require, at the start of every repository call; removeArtifact writes *)
(* only when there is something to remove.                               *)
Require(p) ==
    LET c == get(p)
        unneeded == doing[p].op = "removeArtifact" /\ ~c.snap.artifact
    IN /\ doing[p].at = "get"
       /\ cached' = [cached EXCEPT ![p] = c]
       /\ doing' = [doing EXCEPT ![p] = IF unneeded THEN Idle ELSE [@ EXCEPT !.at = "write"]]
       /\ UNCHANGED <<stored, file, ending, want, raced, stream, history,
                      bounds>>

(* A write between another process's read and its stat. *)
Meets(p) == \E q \in Procs \ {p} : doing[q].at \in {"write", "stat"}

(* persist: the whole snapshot replaces the file by a rename.  The file is   *)
(* newer than every known version, or of the same tick as the last one.      *)
Persist(p) ==
    LET s == Mutated(cached[p].snap, doing[p])
    IN /\ doing[p].at = "write"
       /\ file' = s
       /\ \E ticked \in BOOLEAN :
              /\ cached' = [q \in Procs |->
                    [snap |-> IF q = p THEN s ELSE cached[q].snap,
                     newer |-> ticked \/ cached[q].newer]]
              /\ raced' = (raced \/ ~ticked \/ Meets(p))
       /\ want' = Mutated(want, doing[p])
       /\ doing' = [doing EXCEPT ![p].at = "stat"]
       /\ UNCHANGED <<stored, ending, stream, history, bounds>>

(* noteDiskVersion, after which event goes on to the checkpoint and finish *)
(* to its announcement.                                                    *)
NoteDiskVersion(p) ==
    /\ doing[p].at = "stat"
    /\ cached' = [cached EXCEPT ![p].newer = FALSE]
    /\ doing' = [doing EXCEPT ![p] =
                    CASE @.op = "event"  -> [@ EXCEPT !.at = "observed"]
                      [] @.op = "finish" -> [@ EXCEPT !.at = "announce"]
                      [] OTHER -> Idle]
    /\ UNCHANGED <<stored, file, ending, want, raced, stream, history,
                      bounds>>

(* task.onEvent requires the snapshot again and makes a completion of the  *)
(* workflow the checkpoint; then the subscribers are called: the browser's *)
(* stream, and a run worker, which publishes the event as its job's        *)
(* progress.  A publication that fails, or a pipeline worker, which        *)
(* publishes none, is an event that is never delivered.                    *)
OnEvent(p) ==
    LET e == doing[p].ev
    IN /\ doing[p].at = "observed"
       /\ cached' = [cached EXCEPT ![p] = get(p)]
       /\ checkpoint' = IF events[e].kind = "Completed" THEN e ELSE checkpoint
       /\ wire' = IF p = "server" /\ browser.connected THEN Append(wire, e) ELSE wire
       /\ bridge' = [q \in Procs |-> bridge[q] \cup {e}]
       /\ doing' = [doing EXCEPT ![p] = Idle]
       /\ UNCHANGED <<events, jsonl, open, bus, file, ending, want, raced, browser, history,
                      bounds>>

-----------------------------------------------------------------------------

(* finish of the transition services: it reads the snapshot, waits for the   *)
(* hash proof, and finishes the run when the status it had read is not Done. *)
FinishRead(p) ==
    /\ Free(p) /\ ending[p] = "no" /\ calls < MaxCalls
    /\ calls' = calls + 1
    /\ cached' = [cached EXCEPT ![p] = get(p)]
    /\ ending' = [ending EXCEPT ![p] = get(p).snap.status]
    /\ raced' = (raced \/ \E q \in Procs \ {p} : ending[q] # "no" \/ doing[q].op = "finish")
    /\ UNCHANGED <<stored, file, doing, want, stream, history, faults>>

FinishTest(p) ==
    /\ Free(p) /\ ending[p] # "no"
    /\ ending' = [ending EXCEPT ![p] = "no"]
    /\ doing' = [doing EXCEPT ![p] = IF ending[p] = "Done" THEN Idle
                                     ELSE [at |-> "get", op |-> "finish", ev |-> 0]]
    /\ UNCHANGED <<stored, cached, file, want, raced, stream, history, bounds>>

(* Done is emitted once finish has returned, in the same turn. *)
Announce(p) ==
    LET b == Loaded(p)
        e == Len(events) + 1
    IN /\ doing[p].at = "announce" /\ e <= MaxEvents + MaxCalls
       /\ events' = Append(events, [seq |-> b.sequence + 1, by |-> p, kind |-> "Done"])
       /\ bus' = [bus EXCEPT ![p] = [loaded |-> TRUE, seen |-> b.seen \cup {e},
                                     sequence |-> b.sequence + 1]]
       /\ Appended(e)
       /\ doing' = [doing EXCEPT ![p] = [at |-> "get", op |-> "event", ev |-> e]]
       /\ UNCHANGED <<checkpoint, bridge, cached, file, ending, want, raced, stream, history,
                      bounds>>

-----------------------------------------------------------------------------
(* The browser's event stream *)

(* The events of the snapshot later than last, in its order: the k-th is the *)
(* one with k of them up to it.                                              *)
Later(s, last) == {i \in 1..Len(s.evs) : events[s.evs[i]].seq > last}
Replayed(s, last) ==
    LET later == Later(s, last)
        UpTo(i) == {j \in later : j <= i}
    IN [k \in 1..Cardinality(later) |-> s.evs[CHOOSE i \in later : Cardinality(UpTo(i)) = k]]

\* Mutant: a connection that breaks is not opened again.
ConnectOnce ==
    /\ Free("server") /\ ~browser.connected /\ faults = 0
    /\ browser' = [browser EXCEPT !.connected = TRUE]
    /\ cached' = [cached EXCEPT !["server"] = get("server")]
    /\ wire' = Replayed(get("server").snap, browser.last)
    /\ UNCHANGED <<stored, file, doing, ending, want, raced, history, bounds>>

(* GET /events with the Last-Event-ID of the previous connection: the later *)
(* events of the snapshot are replayed and the connection subscribes.       *)
Connect ==
    /\ Free("server") /\ ~browser.connected
    /\ browser' = [browser EXCEPT !.connected = TRUE]
    /\ cached' = [cached EXCEPT !["server"] = get("server")]
    /\ wire' = Replayed(get("server").snap, browser.last)
    /\ UNCHANGED <<stored, file, doing, ending, want, raced, history, bounds>>

(* A block of the stream: its id is the event's sequence number, and events *)
(* are merged by event_id.                                                  *)
Receive ==
    /\ browser.connected /\ wire # <<>>
    /\ browser' = [browser EXCEPT !.last = events[Head(wire)].seq, !.got = @ \cup {Head(wire)}]
    /\ wire' = Tail(wire)
    /\ UNCHANGED <<stored, repo, history, bounds>>

(* The connection breaks; what is on it is lost, and the browser reconnects. *)
Drop ==
    /\ browser.connected /\ faults < MaxFaults
    /\ faults' = faults + 1
    /\ browser' = [browser EXCEPT !.connected = FALSE]
    /\ wire' = <<>>
    /\ UNCHANGED <<stored, repo, history, calls>>

-----------------------------------------------------------------------------
(* A process dies and is started again: its memory is gone.  QueueEvents      *)
(* reads the progress stream from its end, so what was in it before is not    *)
(* delivered to the new process.                                              *)
Forgotten(p) ==
    /\ bus' = [bus EXCEPT ![p] = [loaded |-> FALSE, seen |-> {}, sequence |-> 0]]
    /\ cached' = [cached EXCEPT ![p] = [snap |-> NoSnapshot, newer |-> TRUE]]
    /\ doing' = [doing EXCEPT ![p] = Idle]
    /\ ending' = [ending EXCEPT ![p] = "no"]
    /\ bridge' = [bridge EXCEPT ![p] = {}]
    /\ restarted' = restarted \cup {p}
    /\ browser' = IF p = "server" THEN [browser EXCEPT !.connected = FALSE] ELSE browser
    /\ wire' = IF p = "server" THEN <<>> ELSE wire
    /\ faults < MaxFaults /\ faults' = faults + 1

Crash(p) ==
    /\ Forgotten(p)
    /\ UNCHANGED <<events, jsonl, open, checkpoint, file, want, raced, relayed, calls>>

(* The process dies while it appends a line. *)
CrashInAppend(p) ==
    /\ Free(p) /\ ~open
    /\ Forgotten(p)
    /\ jsonl' = Append(jsonl, 0) /\ open' = TRUE
    /\ UNCHANGED <<events, checkpoint, file, want, raced, relayed, calls>>

ProcNext(p) ==
    \/ Emit(p) \/ EmitRejected(p)
    \/ \E op \in {"artifact", "removeArtifact"} : Call(p, op)
    \/ Require(p) \/ Persist(p) \/ NoteDiskVersion(p) \/ OnEvent(p)
    \/ FinishRead(p) \/ FinishTest(p) \/ Announce(p)
    \/ Crash(p) \/ CrashInAppend(p)

StoreNext ==
    \/ \E p \in Procs : ProcNext(p)
    \/ \E p \in Procs : \E e \in bridge[p] : Ingest(p, e)
    \/ Connect \/ Receive \/ Drop

(* A process finishes the synchronous code it has entered, and the browser  *)
(* reconnects and reads for as long as it shows the run.                    *)
StoreFairness ==
    /\ \A p \in Procs : WF_storeVars(Require(p) \/ Persist(p) \/ NoteDiskVersion(p)
                                     \/ OnEvent(p) \/ Announce(p))
    /\ SF_storeVars(Connect) /\ WF_storeVars(Receive)

StoreSpec == StoreInit /\ [][StoreNext]_storeVars /\ StoreFairness

-----------------------------------------------------------------------------
Snapshots == [status : {"none", "Running", "Done"}, evs : Seq(1..Len(events)),
              artifact : BOOLEAN]

(* Values of the state: a process that has read the run knows its status,   *)
(* and every event in the files was emitted.                                *)
StoreTypeOK ==
    /\ events \in Seq([seq : Nat \ {0}, by : Procs, kind : {"Running", "Completed", "Done"}])
    /\ jsonl \in Seq(0..Len(events)) /\ open \in BOOLEAN
    /\ bus \in [Procs -> [loaded : BOOLEAN, seen : SUBSET (1..Len(events)), sequence : Nat]]
    /\ file \in Snapshots /\ file.status # "none"
    /\ cached \in [Procs -> [snap : Snapshots, newer : BOOLEAN]]
    /\ ending \in [Procs -> {"no", "Running", "Done"}]
    /\ checkpoint \in 0..Len(events) /\ bridge \in [Procs -> SUBSET (1..Len(events))]
    /\ restarted \subseteq Procs /\ relayed \subseteq 1..Len(events)

(* The two processes share a snapshot without a lock.  As long as no write  *)
(* of one falls between a read and the stat of the other, or into the same  *)
(* tick, reloading by modification time makes every call look atomic: no    *)
(* event, artifact or terminal status is ever lost.                         *)
UnracedSnapshot == raced \/ file = want

(* An event is recorded once in the snapshot, however often the progress    *)
(* stream delivers it, unless it reached a process over the stream alone:   *)
(* one that had loaded the run before the event was in the file, and did    *)
(* not emit it.                                                             *)
RecordedOnce ==
    \A i, j \in 1..Len(file.evs) :
        i # j /\ file.evs[i] = file.evs[j] => file.evs[i] \in relayed

(* Done is announced once when finishers follow one another: the second one *)
(* finds the status the first has written.                                  *)
DoneAnnouncedOnce ==
    raced \/ Cardinality({e \in 1..Len(events) : events[e].kind = "Done"}) <= 1

(* The snapshot holds the events in the order of their numbers. *)
Ordered == \A i, j \in 1..Len(file.evs) :
               i < j => events[file.evs[i]].seq < events[file.evs[j]].seq

(* The browser has every event the server has emitted and recorded. *)
HasServerEvents ==
    \A i \in 1..Len(file.evs) : events[file.evs[i]].by = "server" => file.evs[i] \in browser.got

(* A browser that is connected and has read everything on its connection    *)
(* has every event the server has recorded since the run began, over any    *)
(* number of reconnections: nothing falls between the replay and the        *)
(* subscription.  It rests on the numbers being in order.                   *)
StreamHasNoGap ==
    browser.connected /\ wire = <<>> /\ Free("server") /\ Ordered /\ ~raced
        => HasServerEvents

(* What the browser has was emitted, and it has all of what it should have. *)
StreamIsWhole == StreamHasNoGap /\ browser.got \subseteq 1..Len(events)

(* The record of a run agrees with what happened to it, whatever crashes    *)
(* and redeliveries there were: no call is lost, no event doubled and no    *)
(* end announced twice, each under the exceptions its part names            *)
(* (run-repository.ts, event-bus.ts).                                       *)
RunIsRecorded ==
    StoreTypeOK /\ UnracedSnapshot /\ RecordedOnce /\ DoneAnnouncedOnce

(* The browser's stream has no hole, and the browser catches up again and   *)
(* again with what the server records, unless numbers were repeated or a    *)
(* write was lost (http-server.ts, the events route).                       *)
StreamCatchesUp ==
    /\ []StreamIsWhole
    /\ []<>(HasServerEvents \/ raced \/ ~Ordered)
=============================================================================
