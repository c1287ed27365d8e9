----------------------------- MODULE SpillStore -----------------------------
(***************************************************************************)
(* The files Cursor spills its catalogs to (src/runtime-files.ts).  The      *)
(* processes of one user share the folder: a writer takes a lock file, which *)
(* holds its process id, sweeps the temporary files of writers that died,    *)
(* counts the store, writes a temporary file and renames it.  The lock of a  *)
(* process that is gone is removed by the next writer.  Within a process      *)
(* writes take turns (spillWrites).                                          *)
(***************************************************************************)
EXTENDS Naturals, FiniteSets

CONSTANTS
    Processes,   \* each with a process id of its own
    Files,       \* names of spills
    MaxFiles,    \* MAX_RUNTIME_SPILL_FILES
    MaxWrites,   \* writes of all processes
    MaxDeaths,   \* processes that die
    Interrupted  \* another process may come between a lock's check and removal

NoProcess == "none"

(* What the proofs take of the constants.                                   *)
SpillConstants == NoProcess \notin Processes /\ Files # {} /\ MaxFiles \in Nat

VARIABLES
    alive,   \* the processes that run
    pc,      \* where each process is in its write
    target,  \* the file it writes
    tries,   \* its attempts at the lock
    seen,    \* the lock it looked at, by its number
    mine,    \* the lock it made, by its number
    lock,    \* the lock file: [id, by, fresh], or NoLock
    temps,   \* writers whose temporary file exists
    spills,  \* spill files
    aged,    \* spill files past their time
    locks,   \* lock files made so far
    writes   \* writes so far
writer == <<pc, target, tries, seen, mine>>
spillsVars == <<alive, pc, target, tries, seen, mine, lock, temps, spills, aged, locks, writes>>

NoLock == [id |-> 0, by |-> NoProcess, fresh |-> FALSE]

SpillsInit ==
    /\ alive = Processes
    /\ pc = [p \in Processes |-> "idle"]
    /\ target = [p \in Processes |-> CHOOSE f \in Files : TRUE]
    /\ tries = [p \in Processes |-> 0]
    /\ seen = [p \in Processes |-> 0] /\ mine = [p \in Processes |-> 0]
    /\ lock = NoLock /\ temps = {} /\ spills = {} /\ aged = {}
    /\ locks = 0 /\ writes = 0

Advances(p, from, to) ==
    /\ p \in alive /\ pc[p] = from
    /\ pc' = [pc EXCEPT ![p] = to]

-----------------------------------------------------------------------------
(* The lock (writeSpillLocked).                                             *)

Starts(p, f) ==
    /\ writes < MaxWrites /\ Advances(p, "idle", "lock")
    /\ target' = [target EXCEPT ![p] = f]
    /\ tries' = [tries EXCEPT ![p] = 0]
    /\ writes' = writes + 1
    /\ UNCHANGED <<alive, seen, mine, lock, temps, spills, aged, locks>>

\* It makes the lock file, which is empty at first.
Creates(p) ==
    /\ lock = NoLock /\ tries[p] < 2 /\ Advances(p, "lock", "stamp")
    /\ lock' = [id |-> locks + 1, by |-> NoProcess, fresh |-> TRUE]
    /\ mine' = [mine EXCEPT ![p] = locks + 1]
    /\ locks' = locks + 1
    /\ UNCHANGED <<alive, target, tries, seen, temps, spills, aged, writes>>

\* A mutant: a lock file just made is taken for an abandoned one.
Busy_IdOnly == lock.by \in alive
\* A process id that runs, or a file just made, is a busy lock.
Busy == lock.by \in alive \/ (lock.by = NoProcess /\ lock.fresh)

\* Or it finds a lock: busy, or left by a process that is gone.
Inspects(p) ==
    /\ lock # NoLock /\ tries[p] < 2
    /\ Advances(p, "lock", IF Busy THEN "idle" ELSE "check")
    /\ seen' = [seen EXCEPT ![p] = lock.id]
    /\ UNCHANGED <<alive, target, tries, mine, lock, temps, spills, aged, locks, writes>>

\* A mutant: the lock is removed whichever it is by now.
Unchanged_Any(p) == lock # NoLock
\* The lock is still the one it looked at.
Unchanged(p) == lock.id = seen[p]

\* A lock that changed, or is gone, fails the write.
ChecksAgain(p) ==
    /\ Advances(p, "check", IF Unchanged(p) THEN "remove" ELSE "idle")
    /\ UNCHANGED <<alive, target, tries, seen, mine, lock, temps, spills, aged, locks, writes>>

\* Another process is between its check and the removal.
Removing(p) == ~Interrupted /\ \E q \in alive \ {p} : pc[q] = "remove"

Removes(p) ==
    /\ Advances(p, "remove", IF lock = NoLock THEN "idle" ELSE "lock")
    /\ lock' = NoLock
    /\ tries' = [tries EXCEPT ![p] = @ + 1]
    /\ UNCHANGED <<alive, target, seen, mine, temps, spills, aged, locks, writes>>

\* After two attempts the store counts as busy.
GivesUp(p) ==
    /\ tries[p] = 2 /\ Advances(p, "lock", "idle")
    /\ UNCHANGED <<alive, target, tries, seen, mine, lock, temps, spills, aged, locks, writes>>

\* It writes its process id into the file it made, wherever that is now.
Stamps(p) ==
    /\ Advances(p, "stamp", "count")
    /\ lock' = IF lock.id = mine[p] THEN [lock EXCEPT !.by = p] ELSE lock
    /\ UNCHANGED <<alive, target, tries, seen, mine, temps, spills, aged, locks, writes>>

-----------------------------------------------------------------------------
(* The write under the lock.                                                *)

\* A mutant: the file to be written is not counted.
Full_Others(p) == Cardinality(spills) > MaxFiles
\* The file to be written counts as new, whether it exists or not.
Full(p) == Cardinality(spills \ {target[p]}) + 1 > MaxFiles

\* Temporary files in the folder are taken for those of dead writers.
Counts(p) ==
    /\ Advances(p, "count", IF Full(p) THEN "release" ELSE "write")
    /\ temps' = {}
    /\ UNCHANGED <<alive, target, tries, seen, mine, lock, spills, aged, locks, writes>>

WritesTemporary(p) ==
    /\ Advances(p, "write", "rename")
    /\ temps' = temps \union {p}
    /\ UNCHANGED <<alive, target, tries, seen, mine, lock, spills, aged, locks, writes>>

\* A temporary file that is gone fails the write.
Renames(p) ==
    /\ Advances(p, "rename", "release")
    /\ temps' = temps \ {p}
    /\ spills' = IF p \in temps THEN spills \union {target[p]} ELSE spills
    /\ aged' = IF p \in temps THEN aged \ {target[p]} ELSE aged
    /\ UNCHANGED <<alive, target, tries, seen, mine, lock, locks, writes>>

\* It removes the lock file of that name, whosever it is.
Unlocked(p) == NoLock

Unlocks(p) ==
    /\ Advances(p, "release", "idle")
    /\ lock' = Unlocked(p)
    /\ UNCHANGED <<alive, target, tries, seen, mine, temps, spills, aged, locks, writes>>

-----------------------------------------------------------------------------
(* Deaths, time and the sweep.                                              *)

Dies(p) ==
    /\ p \in alive /\ Cardinality(Processes \ alive) < MaxDeaths
    /\ alive' = alive \ {p}
    /\ UNCHANGED <<writer, lock, temps, spills, aged, locks, writes>>

\* An empty lock file gets old when its maker is gone: a process that runs
\* writes its id at once.
LockAges ==
    /\ lock # NoLock /\ lock.fresh /\ lock.by = NoProcess
    /\ \A p \in alive : ~(pc[p] = "stamp" /\ mine[p] = lock.id)
    /\ lock' = [lock EXCEPT !.fresh = FALSE]
    /\ UNCHANGED <<alive, writer, temps, spills, aged, locks, writes>>

SpillAges(f) ==
    /\ f \in spills \ aged
    /\ aged' = aged \union {f}
    /\ UNCHANGED <<alive, writer, lock, temps, spills, locks, writes>>

\* Any process sweeps what is past its time, without the lock.
sweepRuntimeFiles(f) ==
    /\ f \in aged
    /\ spills' = spills \ {f} /\ aged' = aged \ {f}
    /\ UNCHANGED <<alive, writer, lock, temps, locks, writes>>

Writes(p) ==
    \/ \E f \in Files : Starts(p, f)
    \/ Creates(p) \/ Inspects(p) \/ ChecksAgain(p) \/ Removes(p) \/ GivesUp(p)
    \/ Stamps(p) \/ Counts(p) \/ WritesTemporary(p) \/ Renames(p) \/ Unlocks(p)

SpillsNext ==
    \/ \E p \in Processes : ~Removing(p) /\ Writes(p)
    \/ \E p \in Processes : Dies(p)
    \/ LockAges
    \/ \E f \in Files : SpillAges(f)
    \/ \E f \in Files : sweepRuntimeFiles(f)

SpillsSpec == SpillsInit /\ [][SpillsNext]_spillsVars

-----------------------------------------------------------------------------
\* A writer's temporary file stays until it renames it: the lock proves that
\* the files a writer sweeps are nobody's.
TemporaryKept == \A p \in alive : pc[p] = "rename" => p \in temps

\* The store stays within its limit, whoever writes.
LimitKept == Cardinality(spills) <= MaxFiles

\* No process sweeps a file another is writing, and the store keeps its limit.
SpillsKept == TemporaryKept /\ LimitKept
=============================================================================
