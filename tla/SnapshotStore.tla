---------------------------- MODULE SnapshotStore ----------------------------
(***************************************************************************)
(* The durable snapshot of one conversation                                *)
(* (src/protocol/conversation-persistence.ts).                             *)
(*                                                                         *)
(* OpenCode processes share one cache directory.  A writer replaces the    *)
(* snapshot by rename.  Whoever discards a stale one first renames it into *)
(* a quarantine directory, compares the identity of the file it moved with *)
(* the file it had inspected, and puts back what was published meanwhile;  *)
(* readers look into the quarantine when the live name is missing.         *)
(*                                                                         *)
(* The operations of one process on one file take turns (fileOperations),  *)
(* so a process is one operation at a time; an action is one file-system   *)
(* call.  A file is an inode, numbered in the order of publication, which  *)
(* stands for its updatedAt; a name is the live name (0) or a quarantine   *)
(* slot.  A writer's temporary file is no reader's business, so writing is *)
(* the rename; a writer that dies before it has changed nothing.           *)
(***************************************************************************)
EXTENDS Integers, FiniteSets

CONSTANTS
    Procs,
    Conversations, \* conversation ids; a session's may rotate
    MaxInodes,     \* bound: snapshots ever published
    MaxMoves,      \* bound: quarantine slots ever used
    Teams          \* who shares the cache, in each behaviour

Ops == {"read", "load", "delete", "collect", "recover", "invalidate", "write"}

\* The operations of each process, and bounds: the conversations, the snapshots
\* and the quarantine slots in use, the processes that die in an operation.
Team ==
    [roles: [Procs -> SUBSET Ops], conversations: SUBSET Conversations,
     inodes: 1..MaxInodes, moves: 1..MaxMoves, crashes: Nat]

ASSUME BoundsAssumption == MaxInodes \in Nat \ {0} /\ MaxMoves \in Nat \ {0}
ASSUME TeamsAssumption == Teams \subseteq Team

VARIABLES
    team,       \* one of Teams
    status,     \* what a reader of the inode finds
    conv,       \* the conversation id it holds
    live,       \* the inode under the live name, or 0
    quarantine, \* the inode in each slot, or 0
    dir,        \* the quarantine directory exists
    moves,      \* slots used so far
    proc,       \* each process's operation
    crashes,
    latest,     \* history: the newest published inode
    removed,    \* history: inodes a delete or an invalidation chose
    revoked     \* history: inodes older than an invalidation that has finished

files == <<status, conv, live, quarantine, dir, moves>>
history == <<latest, removed, revoked>>
vars == <<team, files, proc, crashes, history>>

Roles == team.roles
Inodes == 1..MaxInodes
Slots == 1..MaxMoves
LiveName == 0

\* "damaged": its metadata is readable, its payload is not.
Status == {"none", "fresh", "expired", "damaged", "invalid"}

Proc ==
    [pc: {"idle", "open", "listing", "scan", "reopen", "inspect", "unlink", "mkdir", "rename",
          "compare", "restore", "remove", "rmdir", "truncate", "last", "truncateLast", "done"},
     op: Ops \cup {"none", "reload"},
     expected: Conversations \cup {0},  \* the conversation id a delete is for
     must: SUBSET Slots,                \* entries there when the directory was opened
     seen: SUBSET Slots,
     best: Slots \cup {0},              \* the newest entry seen, the inode it was
     bestInode: Inodes \cup {0},        \* opened as and the age it was given
     newest: 0..MaxInodes,
     inode: Inodes \cup {0},            \* the inspected inode (identity, pin)
     name: Slots \cup {0},              \* the name it was opened by, or the slot in work
     attempt: 0..2,
     floor: Inodes \cup {0}]            \* history: latest when the operation began

Idle ==
    [pc |-> "idle", op |-> "none", expected |-> 0, must |-> {}, seen |-> {}, best |-> 0,
     bestInode |-> 0, newest |-> 0, inode |-> 0, name |-> 0, attempt |-> 0, floor |-> 0]

TypeOK ==
    /\ team \in Teams
    /\ status \in [Inodes -> Status]
    /\ conv \in [Inodes -> Conversations \cup {0}]
    /\ live \in Inodes \cup {0}
    /\ quarantine \in [Slots -> Inodes \cup {0}]
    /\ dir \in BOOLEAN
    /\ moves \in 0..MaxMoves
    /\ proc \in [Procs -> Proc]
    /\ crashes \in 0..team.crashes
    /\ latest \in Inodes \cup {0}
    /\ removed \in SUBSET Inodes
    /\ revoked \in SUBSET Inodes

\* A cache directory another run has left behind: nothing, or one snapshot.
Init ==
    /\ team \in Teams
    /\ \E st \in Status, b \in team.conversations :
          /\ status = [i \in Inodes |-> IF i = 1 THEN st ELSE "none"]
          /\ conv = [i \in Inodes |-> IF i = 1 /\ st # "none" THEN b ELSE 0]
          /\ live = IF st = "none" THEN 0 ELSE 1
          /\ latest = IF st = "none" THEN 0 ELSE 1
    /\ quarantine = [s \in Slots |-> 0]
    /\ dir = FALSE
    /\ moves = 0
    /\ proc = [p \in Procs |-> Idle]
    /\ crashes = 0
    /\ removed = {}
    /\ revoked = {}

-----------------------------------------------------------------------------

Occupied == {s \in Slots : quarantine[s] # 0}

Reachable == ({live} \cup {quarantine[s] : s \in Slots}) \ {0}

\* What the bounded metadata prefix tells of a file.
HeaderStale(i) == status[i] \in {"expired", "invalid"}

Age(i) == IF status[i] = "invalid" THEN 0 ELSE i

Opens(op) == op \in {"read", "load", "reload", "delete"}

At(p, pc) == proc[p].pc = pc

Goto(p, pc) == proc' = [proc EXCEPT ![p].pc = pc]

\* The file opened under a name is inspected; the scan is over.
Inspect(p, i, name) ==
    proc' = [proc EXCEPT ![p] = [Idle EXCEPT !.pc = "inspect", !.inode = i, !.name = name,
                !.op = proc[p].op, !.expected = proc[p].expected, !.floor = proc[p].floor]]

Finish(p) == proc' = [proc EXCEPT ![p] = Idle]

\* A load reads again what it finds in place of the snapshot it discarded; the
\* others are finished.
AfterDiscard(p) ==
    IF proc[p].op = "load"
    THEN proc' = [proc EXCEPT ![p] =
            [Idle EXCEPT !.pc = "open", !.op = "reload", !.floor = proc[p].floor]]
    ELSE Finish(p)

-----------------------------------------------------------------------------
(* Operations begin *)

Start(p, op, b) ==
    /\ At(p, "idle")
    /\ op \in Roles[p] \ {"write"}
    /\ IF op = "delete" THEN b \in team.conversations ELSE b = 0
    /\ proc' = [proc EXCEPT ![p] =
          [Idle EXCEPT !.op = op, !.expected = b,
                       !.floor = IF op \in {"read", "load", "invalidate"} THEN latest ELSE 0,
                       !.pc = IF op \in {"recover", "invalidate"} THEN "listing" ELSE "open"]]
    /\ UNCHANGED <<team, files, crashes, history>>

\* writeConversationFile: the rename of its temporary file.
Write(p, b) ==
    LET new == latest + 1 IN
    /\ At(p, "idle") /\ "write" \in Roles[p]
    /\ new <= team.inodes /\ b \in team.conversations
    /\ live' = new
    /\ latest' = new
    /\ status' = [status EXCEPT ![new] = "fresh"]
    /\ conv' = [conv EXCEPT ![new] = b]
    /\ UNCHANGED <<team, quarantine, dir, moves, proc, crashes, removed, revoked>>

\* The lease of a snapshot runs out; an older one's did before.
Expire(i) ==
    /\ status[i] \in {"fresh", "damaged"}
    /\ \A j \in Inodes : j < i => status[j] \notin {"fresh", "damaged"}
    /\ status' = [status EXCEPT ![i] = "expired"]
    /\ UNCHANGED <<team, conv, live, quarantine, dir, moves, proc, crashes, history>>

\* The process dies; what it did to the files stays.
Crash(p) ==
    /\ ~At(p, "idle") /\ ~At(p, "done")
    /\ crashes < team.crashes
    /\ crashes' = crashes + 1
    /\ Finish(p)
    /\ UNCHANGED <<team, files, history>>

-----------------------------------------------------------------------------
(* openConversationFile *)

OpenLive(p) ==
    /\ At(p, "open")
    /\ IF live # 0
       THEN Inspect(p, live, LiveName)
       ELSE IF proc[p].op = "collect" THEN Finish(p) ELSE Goto(p, "listing")
    /\ UNCHANGED <<team, files, crashes, history>>

\* opendir of the quarantine: it lists what is there now, and may or may not
\* list what comes later.
OpenDirectory(p) ==
    /\ At(p, "listing")
    /\ proc' = [proc EXCEPT ![p].pc = "scan", ![p].must = Occupied]
    /\ UNCHANGED <<team, files, crashes, history>>

\* A reader keeps the newest entry open; the first one whatever its age.
ConsiderEntry(p, s) ==
    LET i == quarantine[s] IN
    /\ At(p, "scan") /\ Opens(proc[p].op)
    /\ s \in Occupied \ proc[p].seen
    /\ proc' = [proc EXCEPT ![p].seen = @ \cup {s},
                            ![p].best = IF @ = 0 \/ Age(i) > proc[p].newest THEN s ELSE @,
                            ![p].bestInode = IF proc[p].best = 0 \/ Age(i) > proc[p].newest THEN i ELSE @,
                            ![p].newest = IF proc[p].best = 0 \/ Age(i) > @ THEN Age(i) ELSE @]
    /\ UNCHANGED <<team, files, crashes, history>>

ScanEnds(p) ==
    /\ At(p, "scan")
    /\ (proc[p].must \ proc[p].seen) \cap Occupied = {}
    /\ proc' = [proc EXCEPT ![p].must = {}, ![p].seen = {},
          ![p].pc = IF Opens(proc[p].op) THEN "reopen"
                    ELSE IF proc[p].op = "recover" THEN "rmdir" ELSE "last"]
    /\ UNCHANGED <<team, files, crashes, history>>

\* Mutant: what was published or restored during the scan is not looked for.
Reopen_Selected(p) ==
    /\ At(p, "reopen")
    /\ IF proc[p].best # 0
       THEN Inspect(p, proc[p].bestInode, proc[p].best)
       ELSE IF proc[p].op = "delete" THEN Finish(p) ELSE Goto(p, "done")
    /\ UNCHANGED <<team, files, crashes, history>>

\* The live name wins over the newest entry.
Reopen(p) ==
    /\ At(p, "reopen")
    /\ IF live # 0
       THEN Inspect(p, live, LiveName)
       ELSE IF proc[p].best # 0
       THEN Inspect(p, proc[p].bestInode, proc[p].best)
       ELSE IF proc[p].op = "delete" THEN Finish(p) ELSE Goto(p, "done")
    /\ UNCHANGED <<team, files, crashes, history>>

-----------------------------------------------------------------------------
(* What was opened decides *)

\* readConversationFileWithStatus; a stale one is discarded only by a load,
\* the first time.
InspectForRead(p) ==
    LET i == proc[p].inode IN
    /\ At(p, "inspect") /\ proc[p].op \in {"read", "load", "reload"}
    /\ \/ /\ status[i] = "fresh"
          /\ Goto(p, "done")
       \/ /\ status[i] # "fresh" /\ proc[p].op # "load"
          /\ proc' = [proc EXCEPT ![p].pc = "done", ![p].inode = 0]
       \/ /\ status[i] # "fresh" /\ proc[p].op = "load"
          /\ Goto(p, IF proc[p].name = LiveName THEN "mkdir" ELSE "unlink")
    /\ UNCHANGED <<team, files, crashes, history>>

\* queueDelete: only a snapshot of the expected conversation.
InspectForDelete(p) ==
    LET i == proc[p].inode IN
    /\ At(p, "inspect") /\ proc[p].op = "delete"
    /\ IF status[i] # "invalid" /\ conv[i] = proc[p].expected
       THEN /\ Goto(p, IF proc[p].name = LiveName THEN "mkdir" ELSE "unlink")
            /\ removed' = removed \cup {i}
       ELSE /\ Finish(p)
            /\ UNCHANGED removed
    /\ UNCHANGED <<team, files, crashes, latest, revoked>>

\* pruneConversationDirectory
InspectForCollect(p) ==
    /\ At(p, "inspect") /\ proc[p].op = "collect"
    /\ IF HeaderStale(proc[p].inode) THEN Goto(p, "mkdir") ELSE Finish(p)
    /\ UNCHANGED <<team, files, crashes, history>>

\* What was opened in the quarantine is unlinked there.
UnlinkSource(p) ==
    /\ At(p, "unlink")
    /\ quarantine' = [quarantine EXCEPT ![proc[p].name] = 0]
    /\ AfterDiscard(p)
    /\ UNCHANGED <<team, status, conv, live, dir, moves, crashes, history>>

-----------------------------------------------------------------------------
(* discardCacheCandidate *)

\* ensureCacheDirectory
MakeDirectory(p) ==
    /\ At(p, "mkdir")
    /\ dir' = TRUE
    /\ Goto(p, "rename")
    /\ UNCHANGED <<team, status, conv, live, quarantine, moves, crashes, history>>

\* The rename; its ENOENT means that the candidate is gone, or that another
\* collector has removed the directory, which is worth three attempts.
Quarantine(p) ==
    /\ At(p, "rename")
    /\ \/ /\ live # 0 /\ dir /\ moves < team.moves
          /\ quarantine' = [quarantine EXCEPT ![moves + 1] = live]
          /\ live' = 0
          /\ moves' = moves + 1
          /\ proc' = [proc EXCEPT ![p].pc = "compare", ![p].name = moves + 1]
       \/ /\ live = 0
          /\ AfterDiscard(p)
          /\ UNCHANGED <<quarantine, live, moves>>
       \/ /\ live # 0 /\ ~dir
          /\ IF proc[p].attempt = 2
             THEN AfterDiscard(p)
             ELSE proc' = [proc EXCEPT ![p].pc = "mkdir", ![p].attempt = @ + 1]
          /\ UNCHANGED <<quarantine, live, moves>>
    /\ UNCHANGED <<team, status, conv, dir, crashes, history>>

\* Only the very file that was inspected is removed.
Compare(p) ==
    /\ At(p, "compare")
    /\ Goto(p, IF quarantine[proc[p].name] = proc[p].inode THEN "remove" ELSE "restore")
    /\ UNCHANGED <<team, files, crashes, history>>

\* Mutant: the file is put back by rename, over whatever is there.
Restore_Clobbers(p) ==
    /\ At(p, "restore")
    /\ live' = IF quarantine[proc[p].name] # 0 THEN quarantine[proc[p].name] ELSE live
    /\ Goto(p, "remove")
    /\ UNCHANGED <<team, status, conv, quarantine, dir, moves, crashes, history>>

\* link, which fails when the live name or the entry is taken.
Restore(p) ==
    /\ At(p, "restore")
    /\ live' = IF live = 0 THEN quarantine[proc[p].name] ELSE live
    /\ Goto(p, "remove")
    /\ UNCHANGED <<team, status, conv, quarantine, dir, moves, crashes, history>>

Remove(p) ==
    /\ At(p, "remove")
    /\ quarantine' = [quarantine EXCEPT ![proc[p].name] = 0]
    /\ Goto(p, IF proc[p].op = "recover" THEN "scan" ELSE "rmdir")
    /\ UNCHANGED <<team, status, conv, live, dir, moves, crashes, history>>

\* rmdir, which fails while the directory has an entry.
RemoveDirectory(p) ==
    /\ At(p, "rmdir")
    /\ dir' = (dir /\ Occupied # {})
    /\ AfterDiscard(p)
    /\ UNCHANGED <<team, status, conv, live, quarantine, moves, crashes, history>>

-----------------------------------------------------------------------------
(* recoverQuarantine: what a crash, or a discard under way, left there *)

\* Mutant: what is not stale is left for a reader to find.
RecoverEntry_StaleOnly(p, s) ==
    /\ At(p, "scan") /\ proc[p].op = "recover"
    /\ s \in Occupied \ proc[p].seen
    /\ proc' = [proc EXCEPT ![p].seen = @ \cup {s}, ![p].name = s,
                            ![p].pc = IF HeaderStale(quarantine[s]) THEN "remove" ELSE "scan"]
    /\ UNCHANGED <<team, files, crashes, history>>

RecoverEntry(p, s) ==
    /\ At(p, "scan") /\ proc[p].op = "recover"
    /\ s \in Occupied \ proc[p].seen
    /\ proc' = [proc EXCEPT ![p].seen = @ \cup {s}, ![p].name = s,
                            ![p].pc = IF HeaderStale(quarantine[s]) THEN "remove" ELSE "restore"]
    /\ UNCHANGED <<team, files, crashes, history>>

-----------------------------------------------------------------------------
(* invalidateSessionSnapshots, invalidateCacheCandidate *)

InvalidateEntry(p, s) ==
    /\ At(p, "scan") /\ proc[p].op = "invalidate"
    /\ s \in Occupied \ proc[p].seen
    /\ proc' = [proc EXCEPT ![p].seen = @ \cup {s}, ![p].name = s,
                            ![p].pc = IF status[quarantine[s]] = "invalid" THEN "scan" ELSE "truncate"]
    /\ UNCHANGED <<team, files, crashes, history>>

\* Mutant: an entry is inspected and left as it is.
TruncateEntry_Spares(p) ==
    /\ At(p, "truncate")
    /\ Goto(p, "scan")
    /\ UNCHANGED <<team, files, crashes, history>>

\* The entry is opened again by name, and may be gone.
TruncateEntry(p) ==
    LET gone == {quarantine[proc[p].name]} \ {0} IN
    /\ At(p, "truncate")
    /\ status' = [i \in Inodes |-> IF i \in gone THEN "invalid" ELSE status[i]]
    /\ removed' = removed \cup gone
    /\ Goto(p, "scan")
    /\ UNCHANGED <<team, conv, live, quarantine, dir, moves, crashes, latest, revoked>>

Invalidated(p) ==
    /\ Finish(p)
    /\ revoked' = revoked \cup {i \in Inodes : i <= proc[p].floor}

\* The live name comes last: an entry may have been restored meanwhile.
OpenLast(p) ==
    /\ At(p, "last")
    /\ IF live = 0 \/ status[live] = "invalid"
       THEN Invalidated(p)
       ELSE /\ proc' = [proc EXCEPT ![p].pc = "truncateLast", ![p].inode = live]
            /\ UNCHANGED revoked
    /\ UNCHANGED <<team, files, crashes, latest, removed>>

\* A file that has replaced the inspected one is spared.
TruncateLast(p) ==
    LET gone == {proc[p].inode} \cap {live} IN
    /\ At(p, "truncateLast")
    /\ status' = [i \in Inodes |-> IF i \in gone THEN "invalid" ELSE status[i]]
    /\ removed' = removed \cup gone
    /\ Invalidated(p)
    /\ UNCHANGED <<team, conv, live, quarantine, dir, moves, crashes, latest>>

\* A read or a load returns what it found.
Return(p) ==
    /\ At(p, "done")
    /\ Finish(p)
    /\ UNCHANGED <<team, files, crashes, history>>

-----------------------------------------------------------------------------

Step(p) ==
    \/ OpenLive(p)
    \/ OpenDirectory(p)
    \/ \E s \in Slots : ConsiderEntry(p, s) \/ RecoverEntry(p, s) \/ InvalidateEntry(p, s)
    \/ ScanEnds(p)
    \/ Reopen(p)
    \/ InspectForRead(p)
    \/ InspectForDelete(p)
    \/ InspectForCollect(p)
    \/ UnlinkSource(p)
    \/ MakeDirectory(p)
    \/ Quarantine(p)
    \/ Compare(p)
    \/ Restore(p)
    \/ Remove(p)
    \/ RemoveDirectory(p)
    \/ TruncateEntry(p)
    \/ OpenLast(p)
    \/ TruncateLast(p)
    \/ Return(p)

Next ==
    \/ \E p \in Procs, op \in Ops, b \in Conversations \cup {0} : Start(p, op, b)
    \/ \E p \in Procs, b \in Conversations : Write(p, b)
    \/ \E p \in Procs : Step(p) \/ Crash(p)
    \/ \E i \in Inodes : Expire(i)

Spec == Init /\ [][Next]_vars

\* A process goes on with its operation, and its maintenance recurs: one that
\* does nothing else starts it again and again.
Fairness ==
    \A p \in Procs :
        WF_vars(Step(p)) /\ WF_vars(Roles[p] = {"recover"} /\ Start(p, "recover", 0))
FairSpec == Spec /\ Fairness

-----------------------------------------------------------------------------
(* What the store promises *)

\* The newest snapshot, unless its lease ran out or it was deleted on purpose,
\* is under the live name or in the quarantine, where a reader finds it:
\* maintenance "preserves concurrently published replacement files" (README.md).
NewestSurvives ==
    latest # 0 /\ status[latest] = "fresh" /\ latest \notin removed => latest \in Reachable

\* A read or load that began after a snapshot was published returns it or a
\* newer one, however often a collector moved it away and back meanwhile,
\* provided nothing since expired, was damaged or was removed on purpose.
ReaderSeesLatest ==
    \A p \in Procs :
        /\ At(p, "done") /\ proc[p].floor # 0
        /\ \A i \in proc[p].floor..latest : status[i] = "fresh" /\ i \notin removed
        => proc[p].inode >= proc[p].floor

\* "invalidates the older snapshot and its quarantined copies" (README.md): what
\* was there before an invalidation that has finished is never resumed again.
RevokedStaysRevoked ==
    \A i \in revoked : status[i] \in {"fresh", "damaged"} => i \notin Reachable

\* The newest valid snapshot is in the cache, and who reads finds it.
NewestFound == NewestSurvives /\ ReaderSeesLatest

\* What a crash left in the quarantine does not stay there: once collectors
\* move nothing more away, it is empty.
LeftoversLeave == []<>(\A s \in Slots : quarantine[s] = 0)
=============================================================================
