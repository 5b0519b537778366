--------------------------- MODULE IntentCollection ---------------------------
(***************************************************************************)
(* The server's side of a chat: IntentCollectionService, the               *)
(* ConversationStore under it and the /api/conversations endpoints.        *)
(*                                                                         *)
(* A conversation is its turns and the intent merged from them.  The store *)
(* keeps it in memory and in one JSON file per conversation (a temporary   *)
(* file renamed over it, so the file is always a whole snapshot).  addTurn *)
(* changes the object in memory before it saves it: when the save throws,  *)
(* the turn stays in memory and is not in the file.                        *)
(***************************************************************************)
EXTENDS Naturals, Sequences, SequencesExt

CONSTANTS
    Convs,   \* conversation ids the server may hand out
    Runs,    \* run ids the server may hand out
    Msgs,    \* user messages
    Vague,   \* the messages isInsufficientIntent finds no goal in
    None     \* no value

\* Snapshots of a conversation, and what is kept of the making of a run.
Conversations ==
    [turns : Seq(Msgs), intent : [revision : Nat, goal : Msgs \cup {None}, context : SUBSET Msgs]]
Origins == [conv : Convs, goal : Msgs]

ASSUME IntentAssumption ==
    /\ Vague \subseteq Msgs
    /\ None \notin Convs \cup Runs \cup Msgs
    /\ None \notin Conversations /\ None \notin Origins

VARIABLES
    mem,    \* the ConversationStore's Map: conversation id -> snapshot or None
    disk,   \* the JSON files: conversation id -> snapshot or None
    runOf   \* run id -> None, or the conversation and the goal it was made from

serverVars == <<mem, disk, runOf>>

-----------------------------------------------------------------------------

\* The intent of a conversation with no turn.
NoIntent == [revision |-> 0, goal |-> None, context |-> {}]

\* deriveGoalAndOutcome: a vague message yields neither goal nor outcome,
\* any other one yields both, so one field stands for the two.
Derived(m) == IF m \in Vague THEN None ELSE m

\* The goal is the first one any turn gave; every turn counts as a revision.
merge(intent, m) ==
    [revision |-> intent.revision + 1,
     goal |-> IF intent.goal # None THEN intent.goal ELSE Derived(m),
     context |-> intent.context \cup {m}]

\* missing_required_information is empty exactly when there is a goal.
ready_for_prompt(conv) == conv.intent.goal # None

\* The snapshot with one turn more.
Turned(conv, m) ==
    [turns |-> Append(conv.turns, m), intent |-> merge(conv.intent, m)]

\* What the store's get returns: the memory's snapshot, or else the file's.
get(c) == IF mem[c] # None THEN mem[c] ELSE disk[c]

\* The store's save: the memory first, then the file, which may fail.
save(c, conv, written) ==
    /\ mem' = [mem EXCEPT ![c] = conv]
    /\ disk' = IF written THEN [disk EXCEPT ![c] = conv] ELSE disk

-----------------------------------------------------------------------------

\* start: a new id, an empty snapshot saved, then the first turn.  A save that
\* throws leaves a conversation in memory whose id nobody was told.
start(c, m, written) ==
    /\ get(c) = None
    /\ save(c, Turned([turns |-> <<>>, intent |-> NoIntent], m), written)
    /\ UNCHANGED runOf

\* addTurn of a conversation the store has.
addTurn(c, m, written) ==
    /\ get(c) # None
    /\ save(c, Turned(get(c), m), written)
    /\ UNCHANGED runOf

\* POST /run: createPrompt refuses an intent that is not ready; otherwise a new
\* run is submitted.  Nothing asks whether the conversation has a run already.
createRun(c, r) ==
    /\ get(c) # None
    /\ ready_for_prompt(get(c))
    /\ runOf[r] = None
    /\ runOf' = [runOf EXCEPT ![r] = [conv |-> c, goal |-> get(c).intent.goal]]
    /\ mem' = [mem EXCEPT ![c] = get(c)]
    /\ UNCHANGED disk

\* GET /api/conversations/:id keeps what it read from the file in memory.
read(c) ==
    /\ mem' = [mem EXCEPT ![c] = get(c)]
    /\ UNCHANGED <<disk, runOf>>

\* The server process ends; the next one starts with an empty Map.
Restart ==
    /\ \E c \in Convs : mem[c] # None
    /\ mem' = [c \in Convs |-> None]
    /\ UNCHANGED <<disk, runOf>>

ServerInit ==
    /\ mem = [c \in Convs |-> None]
    /\ disk = [c \in Convs |-> None]
    /\ runOf = [r \in Runs |-> None]

-----------------------------------------------------------------------------

Snapshots == {s \in {mem[c] : c \in Convs} \cup {disk[c] : c \in Convs} : s # None}

\* The intent of a snapshot is the one its turns give: as many revisions as turns,
\* all of them as context, and the first turn that is not vague as the goal.
IntentOf(s) ==
    /\ s.intent.revision = Len(s.turns)
    /\ s.intent.context = Range(s.turns)
    /\ \/ s.intent.goal = None /\ \A i \in DOMAIN s.turns : s.turns[i] \in Vague
       \/ \E i \in DOMAIN s.turns :
            /\ s.intent.goal = s.turns[i] /\ s.turns[i] \notin Vague
            /\ \A j \in 1..(i - 1) : s.turns[j] \in Vague

\* The intent merged turn by turn, through failed saves, restarts and reloads,
\* is the one the whole list of turns gives (merge, addTurn and the store's get).
IntentIsOfTurns == \A s \in Snapshots : IntentOf(s)
=============================================================================
