--------------------------- MODULE ConversationState ---------------------------
(***************************************************************************)
(* The resumable state of one OpenCode session: protocol/conversation-     *)
(* state.ts with the write lane of host-history-rewrite.ts, the bindings   *)
(* of conversation-bind.ts and the calls language-model.ts makes.          *)
(*                                                                         *)
(* OpenCode loads one copy of the package per Location into one process.   *)
(* Bindings, snapshot generations and the write lane are shared by the     *)
(* copies; checkpoints are each copy's own.  A session served by another   *)
(* copy meanwhile must not resume a checkpoint that lacks the turns run    *)
(* there.                                                                  *)
(*                                                                         *)
(* A checkpoint is abstracted to the number of finished turns of the       *)
(* session it (or the host history its conversation was seeded with)       *)
(* contains.  The host runs one turn of a session at a time, in any copy;  *)
(* a helper call (title, summary, ...) hydrates beside it.                 *)
(***************************************************************************)
EXTENDS Integers, Sequences, FiniteSets

CONSTANTS
    Copies,           \* module copies
    Void,             \* no conversation, checkpoint or snapshot
    MaxTurns,         \* bound: turns that finish
    MaxConversations, \* bound: conversations, the default one (1) included
    MaxSaves,         \* bound: saves of a Run in progress
    Helpers,          \* whether helper calls hydrate beside the turn
    DiscardsFail,     \* whether discarding an older snapshot may fail
    Crowded,          \* whether other sessions may fill the caches while a turn hydrates or waits for its Run
    MaxFaults         \* bound: failed or empty reads, failed writes, evictions, restarts

VARIABLES
    bound,      \* the conversation the process has bound the session to
    record,     \* the session's SnapshotRecord
    lane,       \* queued and running snapshot writes of the session
    snapshot,   \* the snapshot file
    memory,     \* each copy's checkpoint of each conversation
    requests,   \* hydrations under way: the host's turn and a helper call
    turnRun,    \* the Run of the host's turn
    straggler,  \* a Run that was stopped or replaced and still has its last save to make
    minted,     \* conversations used so far
    finished,   \* turns the host saw finish
    dead,       \* history: conversations a reset of this process replaced
    spoilt,     \* history: a failed save left its older snapshot on disk
    saves,      \* bound: saves of a Run in progress
    faults      \* bound: faults so far

(***************************************************************************)
(* What the proofs take of the constants: nothing else is Void.            *)
(***************************************************************************)
SavedConstants ==
    /\ MaxTurns \in Nat /\ MaxConversations \in Nat \ {0}
    /\ Void \notin Copies \union Int
    /\ Void \notin [conversation : 1..MaxConversations, upto : 0..MaxTurns \union {Void}]
    /\ Void \notin [copy : Copies, conversation : 1..MaxConversations]

vars == <<bound, record, lane, snapshot, memory, requests, turnRun, straggler, minted, finished, dead, spoilt, saves, faults>>

Conversations == 1..MaxConversations
Default == 1
Requests == {"turn", "helper"}
Upto == 0..MaxTurns

NoRecord == [present |-> FALSE, generation |-> 0, unsaved |-> FALSE, held |-> [c \in Copies |-> 0], reading |-> 0]
Idle == [pc |-> "idle", copy |-> Void, bound |-> Void, conversation |-> Void, entry |-> Void, replaced |-> FALSE,
         attempt |-> 0, waits |-> 0, generation |-> 0, read |-> Void]
NoRun == [phase |-> "none", copy |-> Void, conversation |-> Void, base |-> 0, complete |-> FALSE]

(***************************************************************************)
(* The shared record                                                       *)
(***************************************************************************)

\* isActiveConversationBinding, and the conversation an unbound session binds next.
Active == IF bound = Void THEN Default ELSE bound

\* snapshotRecord: generations are never reused, also by a record made anew.
Opened == IF record.present THEN record ELSE [record EXCEPT !.present = TRUE, !.generation = @ + 1]

HoldsLatest(c) == record.present /\ record.held[c] = record.generation

\* queuedWrite: writes count from when they are requested until they finish.
Queued(by) == \E i \in DOMAIN lane : lane[i].copy \in by

\* trackedSnapshotWrite: what a write that landed, or failed, leaves.
Written(c, fails) ==
    LET g == record.generation + 1 IN [record EXCEPT !.generation = g, !.unsaved = fails, !.held[c] = g]

(***************************************************************************)
(* The write lane                                                          *)
(***************************************************************************)

Job(kind, c, k) == [kind |-> kind, copy |-> c, conversation |-> k, writing |-> FALSE, upto |-> Void]

Enqueue(job) == lane' = Append(lane, job) /\ record' = Opened

\* The head of the lane has ended: hydrations that waited for it have one write
\* less before them, and so has the Run that awaits it.
HeadEnds ==
    /\ lane' = Tail(lane)
    /\ requests' = [r \in Requests |-> [requests[r] EXCEPT !.waits = IF @ > 0 THEN @ - 1 ELSE 0]]
    /\ IF Head(lane).kind = "terminal" THEN turnRun' = NoRun /\ finished' = finished + 1
       ELSE /\ turnRun' = IF Head(lane).kind = "delete" THEN [turnRun EXCEPT !.phase = "running"] ELSE turnRun
            /\ UNCHANGED finished

\* Mutant: a late save is not checked against the binding.
SaveBegins_Superseded ==
    /\ lane # <<>> /\ Head(lane).kind # "delete" /\ ~Head(lane).writing
    /\ lane' = [lane EXCEPT ![1].writing = TRUE, ![1].upto = memory[Head(lane).copy][Head(lane).conversation]]
    /\ UNCHANGED <<bound, record, snapshot, memory, requests, turnRun, straggler, minted, finished, dead, spoilt, saves, faults>>

\* persistConversationState: a late save of a conversation a newer Run replaced is dropped.
SaveBegins ==
    /\ lane # <<>> /\ Head(lane).kind # "delete" /\ ~Head(lane).writing
    /\ IF Head(lane).conversation = Active
       THEN /\ lane' = [lane EXCEPT ![1].writing = TRUE,
                                    ![1].upto = memory[Head(lane).copy][Head(lane).conversation]]
            /\ UNCHANGED <<requests, turnRun, finished>>
       ELSE HeadEnds
    /\ UNCHANGED <<bound, record, snapshot, memory, straggler, minted, dead, spoilt, saves, faults>>

SaveLands ==
    /\ lane # <<>> /\ Head(lane).writing
    /\ snapshot' = [conversation |-> Head(lane).conversation, upto |-> Head(lane).upto]
    /\ spoilt' = FALSE
    /\ record' = Written(Head(lane).copy, FALSE)
    /\ HeadEnds
    /\ UNCHANGED <<bound, memory, straggler, minted, dead, saves, faults>>

\* A failed save discards the snapshot that lacks what it carried, unless that fails too.
SaveFails(discards) ==
    /\ discards \/ DiscardsFail
    /\ lane # <<>> /\ Head(lane).writing
    /\ faults < MaxFaults /\ faults' = faults + 1
    /\ snapshot' = IF discards THEN Void ELSE snapshot
    /\ spoilt' = (~discards /\ snapshot # Void)
    /\ record' = Written(Head(lane).copy, TRUE)
    /\ HeadEnds
    /\ UNCHANGED <<bound, memory, straggler, minted, dead, saves>>

\* deletePersistedConversation removes the snapshot of the expected conversation only.
DeleteLands ==
    /\ lane # <<>> /\ Head(lane).kind = "delete"
    /\ snapshot' = IF snapshot # Void /\ snapshot.conversation = Head(lane).conversation THEN Void ELSE snapshot
    /\ record' = Written(Head(lane).copy, FALSE)
    /\ HeadEnds
    /\ UNCHANGED <<bound, memory, straggler, minted, dead, spoilt, saves, faults>>

DeleteFails ==
    /\ lane # <<>> /\ Head(lane).kind = "delete"
    /\ faults < MaxFaults /\ faults' = faults + 1
    /\ record' = Written(Head(lane).copy, TRUE)
    /\ dead' = dead \ {Head(lane).conversation}
    /\ HeadEnds
    /\ UNCHANGED <<bound, snapshot, memory, straggler, minted, spoilt, saves>>

(***************************************************************************)
(* Hydration                                                               *)
(***************************************************************************)

\* restoreSessionState: a copy that holds the session's Run owns its state.
OwnsRun(c) == turnRun.phase \in {"running", "saving"} /\ turnRun.copy = c

\* A hydration that is over: the turn goes on with its copy, a helper is gone.
Over(r) == IF r = "turn" THEN [Idle EXCEPT !.pc = "hydrated", !.copy = requests[r].copy] ELSE Idle

\* The host moves a session to another copy only once the Run it stopped there
\* has made its last save (the drain takes at most 3 s).
BeginHydration(r, c) ==
    /\ requests[r].pc = "idle" /\ ~OwnsRun(c)
    /\ r = "helper" => Helpers
    /\ r = "turn" => /\ turnRun.phase = "none" /\ finished < MaxTurns
                     /\ (straggler # Void => straggler.copy = c)
    /\ LET now == bound # Void /\ HoldsLatest(c) /\ ~Queued(Copies \ {c})
       IN  /\ r = "helper" => ~now
           /\ requests' = [requests EXCEPT ![r] =
                  IF now THEN [Idle EXCEPT !.pc = "hydrated", !.copy = c]
                  ELSE [Idle EXCEPT !.pc = "settling", !.copy = c, !.bound = bound, !.conversation = Active,
                                    !.entry = memory[c][Active], !.attempt = 1, !.waits = Len(lane)]]
    /\ UNCHANGED <<bound, record, lane, snapshot, memory, turnRun, straggler, minted, finished, dead, spoilt, saves, faults>>

\* The stopped Run is still draining, so its copy goes on with what it has.
SkipHydration ==
    /\ requests["turn"].pc = "idle" /\ turnRun.phase = "none" /\ finished < MaxTurns
    /\ straggler # Void
    /\ requests' = [requests EXCEPT !["turn"] = [Idle EXCEPT !.pc = "hydrated", !.copy = straggler.copy]]
    /\ UNCHANGED <<bound, record, lane, snapshot, memory, turnRun, straggler, minted, finished, dead, spoilt, saves, faults>>

\* entryCheckpoint is still what the copy holds of the conversation.
SameEntry(q) ==
    LET held == memory[q.copy][q.conversation] IN IF held = Void THEN q.entry = Void ELSE q.entry # Void /\ ~q.replaced

Cleared(c, k) == [memory EXCEPT ![c][k] = Void]

\* What bindingMoved leaves of the copy's checkpoint when the binding did move.
MemoryAfterMove(q) ==
    IF ~HoldsLatest(q.copy) /\ SameEntry(q) THEN Cleared(q.copy, q.conversation) ELSE memory

\* replaceCopyState: the copy counts as holding generation g, and drops its
\* checkpoint of k where that may lack turns another copy ran.
Behind(rec, c) == rec.held[c] # 0 \/ \E o \in Copies \ {c} : rec.held[o] = rec.generation
ReplaceCopyState(rec, c, g, k, newerElsewhere) ==
    /\ record' = [rec EXCEPT !.held[c] = g]
    /\ memory' = IF newerElsewhere \/ Behind(rec, c) THEN Cleared(c, k) ELSE memory

\* The copy could not read the latest state: it gives up its older checkpoint.
GiveUp(q, rec) == ReplaceCopyState(rec, q.copy, rec.generation, q.conversation, TRUE)

Settled(r) ==
    LET q == requests[r] IN
    /\ q.pc = "settling" /\ q.waits = 0
    /\ IF q.bound # Void /\ HoldsLatest(q.copy)
       THEN requests' = [requests EXCEPT ![r] = Over(r)] /\ UNCHANGED <<record, memory>>
       ELSE IF record.unsaved
       THEN /\ requests' = [requests EXCEPT ![r] = Over(r)]
            /\ IF bound # q.bound THEN memory' = MemoryAfterMove(q) /\ UNCHANGED record
               ELSE IF HoldsLatest(q.copy) THEN UNCHANGED <<record, memory>>
               ELSE GiveUp(q, record)
       ELSE requests' = [requests EXCEPT ![r].pc = "forgetting"] /\ UNCHANGED <<record, memory>>
    /\ UNCHANGED <<bound, lane, snapshot, turnRun, straggler, minted, finished, dead, spoilt, saves, faults>>

\* The copy's cached view is gone: its read starts at the present generation.
ReadBegins(r) ==
    /\ requests[r].pc = "forgetting"
    /\ record' = [Opened EXCEPT !.reading = @ + 1]
    /\ requests' = [requests EXCEPT ![r].pc = "reading", ![r].generation = Opened.generation]
    /\ UNCHANGED <<bound, lane, snapshot, memory, turnRun, straggler, minted, finished, dead, spoilt, saves, faults>>

\* What the read sees, unless the snapshot cannot be used (expired or damaged).
ReadDisk(r, usable) ==
    /\ requests[r].pc = "reading"
    /\ usable \/ (snapshot # Void /\ faults < MaxFaults)
    /\ faults' = IF usable THEN faults ELSE faults + 1
    /\ requests' = [requests EXCEPT ![r].pc = "read", ![r].read = IF usable THEN snapshot ELSE Void]
    /\ UNCHANGED <<bound, record, lane, snapshot, memory, turnRun, straggler, minted, finished, dead, spoilt, saves>>

ReadThrows(r) ==
    LET q == requests[r]
        rec == [Opened EXCEPT !.reading = IF q.pc = "forgetting" THEN @ ELSE @ - 1]
    IN
    /\ q.pc \in {"forgetting", "reading"}
    /\ faults < MaxFaults /\ faults' = faults + 1
    /\ requests' = [requests EXCEPT ![r] = Over(r)]
    /\ IF bound # q.bound THEN memory' = MemoryAfterMove(q) /\ record' = [record EXCEPT !.reading = rec.reading]
       ELSE IF ~HoldsLatest(q.copy) /\ SameEntry(q) THEN GiveUp(q, rec)
       ELSE UNCHANGED memory /\ record' = [record EXCEPT !.reading = rec.reading]
    /\ UNCHANGED <<bound, lane, snapshot, turnRun, straggler, minted, finished, dead, spoilt, saves>>

\* A write landed or was queued during the read: what was read may be older.
ReadAgain(r) ==
    LET q == requests[r]
        rec == [record EXCEPT !.reading = @ - 1]
    IN
    /\ q.pc = "read"
    /\ record.generation # q.generation \/ Queued(Copies)
    /\ IF q.attempt < 3
       THEN /\ requests' = [requests EXCEPT ![r] = [q EXCEPT !.pc = "settling", !.attempt = @ + 1,
                                                             !.waits = Len(lane), !.generation = 0, !.read = Void]]
            /\ record' = rec
            /\ UNCHANGED memory
       ELSE /\ requests' = [requests EXCEPT ![r] = Over(r)]
            /\ IF bound # q.bound THEN memory' = MemoryAfterMove(q) /\ record' = rec ELSE GiveUp(q, rec)
    /\ UNCHANGED <<bound, lane, snapshot, turnRun, straggler, minted, finished, dead, spoilt, saves, faults>>

\* setCheckpoint stores a new array: hydrations of the copy see it replaced.
SeenReplaced(reqs, c, k) ==
    [r \in Requests |-> IF reqs[r].copy = c /\ reqs[r].conversation = k
                        THEN [reqs[r] EXCEPT !.replaced = TRUE] ELSE reqs[r]]

\* The record and the checkpoint after a read that counts, before it is restored.
Accept(q, rec) ==
    IF q.bound # Void THEN ReplaceCopyState(rec, q.copy, q.generation, q.bound, FALSE)
    ELSE IF q.read = Void /\ \A c \in Copies : rec.held[c] = 0
    THEN record' = [rec EXCEPT !.held[q.copy] = q.generation] /\ memory' = Cleared(q.copy, q.conversation)
    ELSE ReplaceCopyState(rec, q.copy, q.generation,
                          IF q.read = Void THEN q.conversation ELSE q.read.conversation, TRUE)

Restore(r) ==
    LET q == requests[r]
        rec == [record EXCEPT !.reading = @ - 1]
        over == [requests EXCEPT ![r] = Over(r)]
        replacing == rec.held[q.copy] # q.generation
    IN
    /\ q.pc = "read" /\ record.generation = q.generation /\ ~Queued(Copies)
    /\ IF bound # q.bound
       THEN memory' = MemoryAfterMove(q) /\ record' = rec /\ requests' = over /\ UNCHANGED <<bound, dead>>
       ELSE IF q.bound # Void /\ ~replacing
       THEN record' = rec /\ requests' = over /\ UNCHANGED <<memory, bound, dead>>
       ELSE IF q.read = Void \/ (q.bound # Void /\ q.read.conversation # bound)
       THEN /\ requests' = over
            /\ IF replacing THEN Accept(q, rec) ELSE record' = rec /\ UNCHANGED memory
            /\ UNCHANGED <<bound, dead>>
       ELSE LET k == q.read.conversation IN
            /\ bound' = k
            /\ dead' = dead \ {k}
            /\ record' = IF replacing THEN [rec EXCEPT !.held[q.copy] = q.generation] ELSE rec
            /\ memory' = [memory EXCEPT ![q.copy][k] =
                              IF q.read.upto # Void THEN q.read.upto ELSE IF replacing THEN Void ELSE @]
            /\ requests' = IF q.read.upto # Void THEN SeenReplaced(over, q.copy, k) ELSE over
    /\ UNCHANGED <<lane, snapshot, turnRun, straggler, minted, finished, spoilt, saves, faults>>

(***************************************************************************)
(* The turn                                                                *)
(***************************************************************************)

\* startSession: resume the copy's checkpoint, or seed the conversation from host history.
StartRun ==
    LET c == requests["turn"].copy IN
    /\ requests["turn"].pc = "hydrated"
    /\ bound' = Active
    /\ dead' = dead \ {Active}
    /\ turnRun' = [phase |-> "running", copy |-> c, conversation |-> Active,
               base |-> IF memory[c][Active] # Void THEN memory[c][Active] ELSE finished, complete |-> FALSE]
    /\ requests' = [requests EXCEPT !["turn"] = Idle]
    /\ UNCHANGED <<record, lane, snapshot, memory, straggler, minted, finished, spoilt, saves, faults>>

\* startSession with a reset (compaction, foreign history, rebase): a conversation
\* of its own, seeded from host history; the replaced one is deleted from disk.
StartReset ==
    LET c == requests["turn"].copy IN
    /\ requests["turn"].pc = "hydrated" /\ minted < MaxConversations
    /\ minted' = minted + 1
    /\ bound' = minted + 1
    /\ memory' = Cleared(c, Active)
    /\ dead' = dead \union {Active}
    /\ turnRun' = [phase |-> "clearing", copy |-> c, conversation |-> minted + 1, base |-> finished,
               complete |-> FALSE]
    /\ requests' = [requests EXCEPT !["turn"] = Idle]
    /\ Enqueue(Job("delete", c, Active))
    /\ UNCHANGED <<snapshot, straggler, finished, spoilt, saves, faults>>

\* A checkpoint frame holds this turn so far on top of what the Run started
\* from, or all of it: Cursor sends the turn's last one before TurnEnded.
RunCheckpoint(last) ==
    /\ turnRun.phase = "running" /\ ~turnRun.complete
    /\ turnRun' = [turnRun EXCEPT !.complete = last]
    /\ memory' = [memory EXCEPT ![turnRun.copy][turnRun.conversation] =
                      IF last /\ turnRun.base = finished THEN finished + 1 ELSE turnRun.base]
    /\ requests' = SeenReplaced(requests, turnRun.copy, turnRun.conversation)
    /\ UNCHANGED <<bound, record, lane, snapshot, straggler, minted, finished, dead, spoilt, saves, faults>>

\* persistRunInProgress while the host's tools run: nothing awaits it.
SaveInProgress ==
    /\ turnRun.phase = "running" /\ saves < MaxSaves
    /\ saves' = saves + 1
    /\ Enqueue(Job("progress", turnRun.copy, turnRun.conversation))
    /\ UNCHANGED <<bound, snapshot, memory, requests, turnRun, straggler, minted, finished, dead, spoilt, faults>>

\* TurnEnded: persistTerminalCheckpoint is awaited before the host's stream finishes.
RunEnds ==
    /\ turnRun.phase = "running" /\ turnRun.complete
    /\ turnRun' = [turnRun EXCEPT !.phase = "saving"]
    /\ Enqueue(Job("terminal", turnRun.copy, turnRun.conversation))
    /\ UNCHANGED <<bound, snapshot, memory, requests, straggler, minted, finished, dead, spoilt, saves, faults>>

\* The Run ends without TurnEnded: the host stopped it, a newer Run replaced it,
\* or it failed.  What is left of it may still save (cancelRun after its drain).
RunStops(leftover) ==
    /\ turnRun.phase = "running"
    /\ turnRun' = NoRun
    /\ straggler' = IF leftover THEN [copy |-> turnRun.copy, conversation |-> turnRun.conversation] ELSE straggler
    /\ leftover => straggler = Void
    /\ UNCHANGED <<bound, record, lane, snapshot, memory, requests, minted, finished, dead, spoilt, saves, faults>>

LateSave ==
    /\ straggler # Void /\ saves < MaxSaves
    /\ saves' = saves + 1
    /\ straggler' = Void
    /\ Enqueue(Job("progress", straggler.copy, straggler.conversation))
    /\ UNCHANGED <<bound, snapshot, memory, requests, turnRun, minted, finished, dead, spoilt, faults>>

(***************************************************************************)
(* The rest of the process                                                 *)
(***************************************************************************)

Fault == faults < MaxFaults /\ faults' = faults + 1

\* Other sessions push the binding out; a minted conversation's is kept.
EvictBinding ==
    /\ bound = Default /\ Fault
    /\ bound' = Void
    /\ UNCHANGED <<record, lane, snapshot, memory, requests, turnRun, straggler, minted, finished, dead, spoilt, saves>>

\* pruneSnapshotRecords, once nothing uses the record and the session is unbound.
EvictRecord ==
    /\ Crowded \/ requests["turn"].pc = "idle"
    /\ record.present /\ bound = Void /\ lane = <<>> /\ record.reading = 0
    /\ ~spoilt /\ Fault
    /\ record' = [NoRecord EXCEPT !.generation = record.generation]
    /\ UNCHANGED <<bound, lane, snapshot, memory, requests, turnRun, straggler, minted, finished, dead, spoilt, saves>>

\* The process ends at any point, except that no restart follows a save that
\* could neither be written nor discarded: nothing then tells the older snapshot.
Restart ==
    /\ ~spoilt /\ Fault
    /\ bound' = Void /\ record' = NoRecord /\ lane' = <<>>
    /\ memory' = [c \in Copies |-> [k \in Conversations |-> Void]]
    /\ requests' = [r \in Requests |-> Idle]
    /\ turnRun' = NoRun /\ straggler' = Void /\ dead' = {}
    /\ UNCHANGED <<snapshot, minted, finished, spoilt, saves>>

Init ==
    /\ bound = Void /\ record = NoRecord /\ lane = <<>> /\ snapshot = Void
    /\ memory = [c \in Copies |-> [k \in Conversations |-> Void]]
    /\ requests = [r \in Requests |-> Idle]
    /\ turnRun = NoRun /\ straggler = Void
    /\ minted = 1 /\ finished = 0 /\ dead = {} /\ spoilt = FALSE /\ saves = 0 /\ faults = 0

Next ==
    \/ SaveBegins \/ SaveLands \/ DeleteLands \/ DeleteFails
    \/ \E b \in BOOLEAN : SaveFails(b) \/ RunStops(b) \/ RunCheckpoint(b)
    \/ \E r \in Requests :
        \/ \E c \in Copies : BeginHydration(r, c)
        \/ Settled(r) \/ ReadBegins(r) \/ ReadThrows(r) \/ ReadAgain(r) \/ Restore(r)
        \/ \E usable \in BOOLEAN : ReadDisk(r, usable)
    \/ SkipHydration \/ StartRun \/ StartReset \/ SaveInProgress \/ LateSave \/ RunEnds
    \/ EvictBinding \/ EvictRecord \/ Restart

Spec == Init /\ [][Next]_vars

(***************************************************************************)
(* Properties                                                              *)
(***************************************************************************)

\* Every variable has the shape the code gives it; the record is never
\* dropped while a read of it is under way.
TypeOK ==
    /\ bound \in Conversations \union {Void}
    /\ record \in [present : BOOLEAN, generation : Nat, unsaved : BOOLEAN,
                   held : [Copies -> Nat], reading : 0..Cardinality(Requests)]
    /\ lane \in Seq([kind : {"progress", "terminal", "delete"}, copy : Copies, conversation : Conversations,
                     writing : BOOLEAN, upto : Upto \union {Void}])
    /\ snapshot \in [conversation : Conversations, upto : Upto \union {Void}] \union {Void}
    /\ memory \in [Copies -> [Conversations -> Upto \union {Void}]]
    /\ DOMAIN requests = Requests
    /\ turnRun.phase \in {"none", "clearing", "running", "saving"}
    /\ straggler \in [copy : Copies, conversation : Conversations] \union {Void}
    /\ minted \in Conversations /\ finished \in Upto /\ dead \subseteq Conversations
    /\ record.reading = Cardinality({r \in Requests : requests[r].pc \in {"reading", "read"}})

\* No Run resumes a checkpoint that lacks a turn the host has seen finish,
\* whichever copies ran the turns, whatever failed and whatever was evicted
\* (the comments of hydrateConversationState and replaceCopyState).
NeverResumesBehind == turnRun.phase # "none" => turnRun.base >= finished

\* A snapshot of a conversation that a reset replaced is on disk only until
\* the reset's own delete, which is still in the lane ("Never let that late
\* TurnEnded resurrect it").
SupersededLeavesDisk ==
    snapshot # Void /\ snapshot.conversation \in dead =>
        \E i \in DOMAIN lane : lane[i].kind = "delete" /\ lane[i].conversation = snapshot.conversation

\* No Run resumes a checkpoint that lacks a finished turn; a replaced
\* conversation leaves the disk.
TurnsKept == NeverResumesBehind /\ SupersededLeavesDisk
=============================================================================
