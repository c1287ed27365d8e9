------------------------- MODULE SnapshotStoreProofs -------------------------
(***************************************************************************)
(* What holds of the snapshots, for every number of processes, snapshots,   *)
(* quarantine moves and conversations, as long as one process maintains the *)
(* cache and the others only read and write snapshots; and of the blobs that *)
(* a snapshot keeps for its checkpoint, whatever blobs refer to one another, *)
(* in cycles too, and however many Runs store them.                         *)
(***************************************************************************)
EXTENDS SnapshotStore, BlobStore, TLAPS

(* The maintainer m, and what a process may be doing.                        *)

\* Whoever else shares the cache only reads and writes snapshots.
MaintainedBy(m) == \A p \in Procs \ {m} : Roles[p] \subseteq {"read", "write"}

OpFits(pc, op) ==
    /\ pc = "idle" <=> op = "none"
    /\ pc \in {"open", "inspect"} => op \in {"read", "load", "reload", "delete", "collect"}
    /\ pc \in {"listing", "scan"} => op \in {"read", "load", "reload", "delete", "recover", "invalidate"}
    /\ pc = "reopen" => op \in {"read", "load", "reload", "delete"}
    /\ pc = "unlink" => op \in {"load", "delete"}
    /\ pc \in {"mkdir", "rename", "compare"} => op \in {"load", "delete", "collect"}
    /\ pc \in {"restore", "remove", "rmdir"} => op \in {"load", "delete", "collect", "recover"}
    /\ pc \in {"truncate", "last", "truncateLast"} => op = "invalidate"
    /\ pc = "done" => op \in {"read", "load", "reload"}

OthersRead(m) == \A p \in Procs \ {m} : proc[p].op \in {"none", "read"}

\* What a process remembers was published, and it keeps the newest entry seen.
Recalls(p) ==
    /\ OpFits(proc[p].pc, proc[p].op)
    /\ proc[p].inode <= latest /\ proc[p].bestInode <= latest /\ proc[p].floor <= latest
    /\ At(p, "inspect") => proc[p].inode # 0
    /\ proc[p].pc \in {"compare", "restore", "remove", "truncate", "unlink"} => proc[p].name \in Slots
    /\ proc[p].pc \in {"open", "listing"} => proc[p].seen = {} /\ proc[p].best = 0
    /\ proc[p].best = 0 => proc[p].newest = 0
    /\ proc[p].best # 0 => proc[p].newest <= proc[p].bestInode /\ proc[p].bestInode # 0

Published ==
    /\ live <= latest /\ \A s \in Slots : quarantine[s] <= latest
    /\ \A s \in Slots : s > moves => quarantine[s] = 0

Basis(m) == TypeOK /\ Published /\ OthersRead(m) /\ \A p \in Procs : Recalls(p)

-----------------------------------------------------------------------------
(* Where the newest snapshot is.                                            *)

Good == latest # 0 /\ status[latest] = "fresh" /\ latest \notin removed
Doomed(i) == status[i] # "fresh" \/ i \in removed

\* m has opened the live name and may rename what is there.
Armed(m) ==
    proc[m].pc \in {"mkdir", "rename"} \/ (At(m, "inspect") /\ proc[m].name = LiveName)

\* m has renamed what was live.
Discards(m) == proc[m].pc \in {"compare", "restore", "remove"} /\ proc[m].op # "recover"

Own(m) == IF Discards(m) THEN {proc[m].name} ELSE {}

\* Apart from that, only what a crash left is in the quarantine.
OneLeftover(m) ==
    IF crashes = 0 THEN Occupied \subseteq Own(m)
    ELSE \E l \in Slots : Occupied \subseteq {l} \cup Own(m)

Careful(m) ==
    /\ Armed(m) => live # 0 /\ proc[m].inode # 0 /\ proc[m].inode <= live
    /\ proc[m].pc \in {"mkdir", "rename", "compare", "restore", "unlink"} /\ proc[m].op # "recover" =>
          proc[m].inode # 0 /\ Doomed(proc[m].inode)
    /\ proc[m].pc \in {"inspect", "unlink"} /\ proc[m].name # LiveName =>
          quarantine[proc[m].name] \in {0, proc[m].inode}
    /\ proc[m].pc \in {"scan", "reopen"} /\ proc[m].best # 0 =>
          quarantine[proc[m].best] \in {0, proc[m].bestInode}
    /\ At(m, "inspect") /\ proc[m].op = "collect" => proc[m].name = LiveName
    /\ proc[m].op \in {"recover", "invalidate"} => proc[m].best = 0
    /\ At(m, "remove") => LET i == quarantine[proc[m].name] IN i = 0 \/ live # 0 \/ Doomed(i)

Newest(m) ==
    /\ Good => live = latest \/ (live = 0 /\ \E s \in Slots : quarantine[s] = latest)
    /\ Good /\ live = 0 /\ Discards(m) /\ ~At(m, "remove") => quarantine[proc[m].name] = latest

Kept(m) == OneLeftover(m) /\ Careful(m) /\ Newest(m)

-----------------------------------------------------------------------------
(* What a reader finds.                                                     *)

\* p reads, and nothing since it began was removed, damaged or expired.
Intact(p) ==
    /\ proc[p].op \in {"read", "load", "reload"} /\ proc[p].floor # 0
    /\ \A i \in proc[p].floor..latest : status[i] = "fresh" /\ i \notin removed

\* Nobody moves away what p found no longer there.
Undisturbed(m, p) == Armed(m) => proc[m].inode >= proc[p].floor

\* p has seen the newest entry, or will.
Sees(p) ==
    live = 0 => \A s \in Slots : quarantine[s] = latest =>
       /\ s \in proc[p].must \cup proc[p].seen
       /\ s \in proc[p].seen => proc[p].newest >= latest

Finds(m, p) ==
    Intact(p) =>
       /\ proc[p].pc \in {"inspect", "done"} => proc[p].inode >= proc[p].floor
       /\ proc[p].pc \in {"listing", "scan", "reopen"} => Undisturbed(m, p)
       /\ At(p, "scan") => Sees(p)
       /\ At(p, "reopen") /\ live = 0 => proc[p].newest >= latest

-----------------------------------------------------------------------------
(* What an invalidation reaches.                                            *)

Valid(i) == status[i] \in {"fresh", "damaged"}

\* The entries m is to invalidate, as long as they are valid.
Before(m) == {s \in Slots : quarantine[s] \in 1..proc[m].floor /\ Valid(quarantine[s])}

Reaches(m) ==
    proc[m].op = "invalidate" =>
       /\ At(m, "scan") => Before(m) \subseteq proc[m].must \ proc[m].seen
       /\ At(m, "truncate") => Before(m) \subseteq (proc[m].must \ proc[m].seen) \cup {proc[m].name}
       /\ proc[m].pc \in {"last", "truncateLast"} => Before(m) = {}
       /\ At(m, "truncateLast") => proc[m].inode # 0 /\ (live = proc[m].inode \/ live > proc[m].floor)

Revoked(m) == revoked \subseteq 1..latest /\ RevokedStaysRevoked /\ Reaches(m)

-----------------------------------------------------------------------------
(* What each step does to the record of its process.                        *)

Pcs == {"idle", "open", "listing", "scan", "reopen", "inspect", "unlink", "mkdir", "rename",
        "compare", "restore", "remove", "rmdir", "truncate", "last", "truncateLast", "done"}

SameOp(r, o) == r.op = o.op /\ r.expected = o.expected /\ r.floor = o.floor
SameScan(r, o) ==
    /\ r.must = o.must /\ r.seen = o.seen
    /\ r.best = o.best /\ r.bestInode = o.bestInode /\ r.newest = o.newest
SameWork(r, o) == r.inode = o.inode /\ r.name = o.name /\ r.attempt = o.attempt
NoScan(r) == r.must = {} /\ r.seen = {} /\ r.best = 0 /\ r.bestInode = 0 /\ r.newest = 0
NoWork(r) == r.inode = 0 /\ r.name = 0 /\ r.attempt = 0

Puts(p) == proc' \in [Procs -> Proc] /\ \A q \in Procs \ {p} : proc'[q] = proc[q]

LEMMA Numbers ==
  /\ MaxInodes \in Nat \ {0} /\ MaxMoves \in Nat \ {0}
  /\ Inodes \subseteq Nat \ {0} /\ Slots \subseteq Nat \ {0} /\ 0 \notin Inodes /\ 0 \notin Slots
<1> QED
  BY BoundsAssumption DEF Inodes, Slots

LEMMA PutOne ==
  ASSUME proc \in [Procs -> Proc], NEW p \in Procs, NEW r \in Proc, proc' = [proc EXCEPT ![p] = r]
  PROVE  proc'[p] = r /\ Puts(p)
<1> QED
  BY DEF Puts

LEMMA RecordIs ==
  ASSUME NEW o \in Proc
  PROVE  /\ o = [pc |-> o.pc, op |-> o.op, expected |-> o.expected, must |-> o.must, seen |-> o.seen,
                 best |-> o.best, bestInode |-> o.bestInode, newest |-> o.newest, inode |-> o.inode,
                 name |-> o.name, attempt |-> o.attempt, floor |-> o.floor]
         /\ o.pc \in Pcs /\ o.op \in Ops \cup {"none", "reload"} /\ o.expected \in Conversations \cup {0}
         /\ o.must \in SUBSET Slots /\ o.seen \in SUBSET Slots
         /\ o.best \in Slots \cup {0} /\ o.bestInode \in Inodes \cup {0} /\ o.newest \in 0..MaxInodes
         /\ o.inode \in Inodes \cup {0} /\ o.name \in Slots \cup {0} /\ o.attempt \in 0..2
         /\ o.floor \in Inodes \cup {0}
<1> QED
  BY DEF Proc, Pcs

LEMMA ARecord ==
  ASSUME NEW pc \in Pcs, NEW op \in Ops \cup {"none", "reload"}, NEW expected \in Conversations \cup {0},
         NEW must \in SUBSET Slots, NEW seen \in SUBSET Slots, NEW best \in Slots \cup {0},
         NEW bestInode \in Inodes \cup {0}, NEW newest \in 0..MaxInodes, NEW inode \in Inodes \cup {0},
         NEW name \in Slots \cup {0}, NEW attempt \in 0..2, NEW floor \in Inodes \cup {0}
  PROVE  [pc |-> pc, op |-> op, expected |-> expected, must |-> must, seen |-> seen,
          best |-> best, bestInode |-> bestInode, newest |-> newest, inode |-> inode,
          name |-> name, attempt |-> attempt, floor |-> floor] \in Proc
<1> QED
  BY DEF Proc, Pcs

(* One field of a record changes. *)

LEMMA SetPc ==
  ASSUME NEW o \in Proc, NEW v \in Pcs, NEW r
  PROVE  r = [o EXCEPT !.pc = v] =>
           /\ r \in Proc
           /\ r.pc = v /\ SameOp(r, o) /\ SameScan(r, o) /\ SameWork(r, o)
<1> DEFINE c == [pc |-> v, op |-> o.op, expected |-> o.expected, must |-> o.must, seen |-> o.seen,
                  best |-> o.best, bestInode |-> o.bestInode, newest |-> o.newest, inode |-> o.inode,
                  name |-> o.name, attempt |-> o.attempt, floor |-> o.floor]
<1>1. ASSUME r = [o EXCEPT !.pc = v]
      PROVE  r = c
  BY <1>1, RecordIs
<1>2. ASSUME r = c
      PROVE  r \in Proc
  BY <1>2, RecordIs, ARecord
<1>3. ASSUME r = c
      PROVE  /\ r.pc = v /\ SameOp(r, o) /\ SameScan(r, o) /\ SameWork(r, o)
  BY <1>3 DEF SameOp, SameScan, SameWork
<1> QED
  BY <1>1, <1>2, <1>3

LEMMA SetMust ==
  ASSUME NEW o \in Proc, NEW v \in SUBSET Slots, NEW r
  PROVE  r = [o EXCEPT !.must = v] =>
           /\ r \in Proc
           /\ r.must = v /\ r.pc = o.pc /\ SameOp(r, o) /\ SameWork(r, o)
           /\ r.seen = o.seen /\ r.best = o.best /\ r.bestInode = o.bestInode /\ r.newest = o.newest
<1> DEFINE c == [pc |-> o.pc, op |-> o.op, expected |-> o.expected, must |-> v, seen |-> o.seen,
                  best |-> o.best, bestInode |-> o.bestInode, newest |-> o.newest, inode |-> o.inode,
                  name |-> o.name, attempt |-> o.attempt, floor |-> o.floor]
<1>1. ASSUME r = [o EXCEPT !.must = v]
      PROVE  r = c
  BY <1>1, RecordIs
<1>2. ASSUME r = c
      PROVE  r \in Proc
  BY <1>2, RecordIs, ARecord
<1>3. ASSUME r = c
      PROVE  /\ r.must = v /\ r.pc = o.pc /\ SameOp(r, o) /\ SameWork(r, o)
             /\ r.seen = o.seen /\ r.best = o.best /\ r.bestInode = o.bestInode /\ r.newest = o.newest
  BY <1>3 DEF SameOp, SameScan, SameWork
<1> QED
  BY <1>1, <1>2, <1>3

LEMMA SetSeen ==
  ASSUME NEW o \in Proc, NEW v \in SUBSET Slots, NEW r
  PROVE  r = [o EXCEPT !.seen = v] =>
           /\ r \in Proc
           /\ r.seen = v /\ r.pc = o.pc /\ SameOp(r, o) /\ SameWork(r, o)
           /\ r.must = o.must /\ r.best = o.best /\ r.bestInode = o.bestInode /\ r.newest = o.newest
<1> DEFINE c == [pc |-> o.pc, op |-> o.op, expected |-> o.expected, must |-> o.must, seen |-> v,
                  best |-> o.best, bestInode |-> o.bestInode, newest |-> o.newest, inode |-> o.inode,
                  name |-> o.name, attempt |-> o.attempt, floor |-> o.floor]
<1>1. ASSUME r = [o EXCEPT !.seen = v]
      PROVE  r = c
  BY <1>1, RecordIs
<1>2. ASSUME r = c
      PROVE  r \in Proc
  BY <1>2, RecordIs, ARecord
<1>3. ASSUME r = c
      PROVE  /\ r.seen = v /\ r.pc = o.pc /\ SameOp(r, o) /\ SameWork(r, o)
             /\ r.must = o.must /\ r.best = o.best /\ r.bestInode = o.bestInode /\ r.newest = o.newest
  BY <1>3 DEF SameOp, SameScan, SameWork
<1> QED
  BY <1>1, <1>2, <1>3

LEMMA SetBest ==
  ASSUME NEW o \in Proc, NEW v \in Slots \cup {0}, NEW r
  PROVE  r = [o EXCEPT !.best = v] =>
           /\ r \in Proc
           /\ r.best = v /\ r.pc = o.pc /\ SameOp(r, o) /\ SameWork(r, o)
           /\ r.must = o.must /\ r.seen = o.seen /\ r.bestInode = o.bestInode /\ r.newest = o.newest
<1> DEFINE c == [pc |-> o.pc, op |-> o.op, expected |-> o.expected, must |-> o.must, seen |-> o.seen,
                  best |-> v, bestInode |-> o.bestInode, newest |-> o.newest, inode |-> o.inode,
                  name |-> o.name, attempt |-> o.attempt, floor |-> o.floor]
<1>1. ASSUME r = [o EXCEPT !.best = v]
      PROVE  r = c
  BY <1>1, RecordIs
<1>2. ASSUME r = c
      PROVE  r \in Proc
  BY <1>2, RecordIs, ARecord
<1>3. ASSUME r = c
      PROVE  /\ r.best = v /\ r.pc = o.pc /\ SameOp(r, o) /\ SameWork(r, o)
             /\ r.must = o.must /\ r.seen = o.seen /\ r.bestInode = o.bestInode /\ r.newest = o.newest
  BY <1>3 DEF SameOp, SameScan, SameWork
<1> QED
  BY <1>1, <1>2, <1>3

LEMMA SetBestInode ==
  ASSUME NEW o \in Proc, NEW v \in Inodes \cup {0}, NEW r
  PROVE  r = [o EXCEPT !.bestInode = v] =>
           /\ r \in Proc
           /\ r.bestInode = v /\ r.pc = o.pc /\ SameOp(r, o) /\ SameWork(r, o)
           /\ r.must = o.must /\ r.seen = o.seen /\ r.best = o.best /\ r.newest = o.newest
<1> DEFINE c == [pc |-> o.pc, op |-> o.op, expected |-> o.expected, must |-> o.must, seen |-> o.seen,
                  best |-> o.best, bestInode |-> v, newest |-> o.newest, inode |-> o.inode,
                  name |-> o.name, attempt |-> o.attempt, floor |-> o.floor]
<1>1. ASSUME r = [o EXCEPT !.bestInode = v]
      PROVE  r = c
  BY <1>1, RecordIs
<1>2. ASSUME r = c
      PROVE  r \in Proc
  BY <1>2, RecordIs, ARecord
<1>3. ASSUME r = c
      PROVE  /\ r.bestInode = v /\ r.pc = o.pc /\ SameOp(r, o) /\ SameWork(r, o)
             /\ r.must = o.must /\ r.seen = o.seen /\ r.best = o.best /\ r.newest = o.newest
  BY <1>3 DEF SameOp, SameScan, SameWork
<1> QED
  BY <1>1, <1>2, <1>3

LEMMA SetNewest ==
  ASSUME NEW o \in Proc, NEW v \in 0..MaxInodes, NEW r
  PROVE  r = [o EXCEPT !.newest = v] =>
           /\ r \in Proc
           /\ r.newest = v /\ r.pc = o.pc /\ SameOp(r, o) /\ SameWork(r, o)
           /\ r.must = o.must /\ r.seen = o.seen /\ r.best = o.best /\ r.bestInode = o.bestInode
<1> DEFINE c == [pc |-> o.pc, op |-> o.op, expected |-> o.expected, must |-> o.must, seen |-> o.seen,
                  best |-> o.best, bestInode |-> o.bestInode, newest |-> v, inode |-> o.inode,
                  name |-> o.name, attempt |-> o.attempt, floor |-> o.floor]
<1>1. ASSUME r = [o EXCEPT !.newest = v]
      PROVE  r = c
  BY <1>1, RecordIs
<1>2. ASSUME r = c
      PROVE  r \in Proc
  BY <1>2, RecordIs, ARecord
<1>3. ASSUME r = c
      PROVE  /\ r.newest = v /\ r.pc = o.pc /\ SameOp(r, o) /\ SameWork(r, o)
             /\ r.must = o.must /\ r.seen = o.seen /\ r.best = o.best /\ r.bestInode = o.bestInode
  BY <1>3 DEF SameOp, SameScan, SameWork
<1> QED
  BY <1>1, <1>2, <1>3

LEMMA SetInode ==
  ASSUME NEW o \in Proc, NEW v \in Inodes \cup {0}, NEW r
  PROVE  r = [o EXCEPT !.inode = v] =>
           /\ r \in Proc
           /\ r.inode = v /\ r.pc = o.pc /\ SameOp(r, o) /\ SameScan(r, o)
           /\ r.name = o.name /\ r.attempt = o.attempt
<1> DEFINE c == [pc |-> o.pc, op |-> o.op, expected |-> o.expected, must |-> o.must, seen |-> o.seen,
                  best |-> o.best, bestInode |-> o.bestInode, newest |-> o.newest, inode |-> v,
                  name |-> o.name, attempt |-> o.attempt, floor |-> o.floor]
<1>1. ASSUME r = [o EXCEPT !.inode = v]
      PROVE  r = c
  BY <1>1, RecordIs
<1>2. ASSUME r = c
      PROVE  r \in Proc
  BY <1>2, RecordIs, ARecord
<1>3. ASSUME r = c
      PROVE  /\ r.inode = v /\ r.pc = o.pc /\ SameOp(r, o) /\ SameScan(r, o)
             /\ r.name = o.name /\ r.attempt = o.attempt
  BY <1>3 DEF SameOp, SameScan, SameWork
<1> QED
  BY <1>1, <1>2, <1>3

LEMMA SetName ==
  ASSUME NEW o \in Proc, NEW v \in Slots \cup {0}, NEW r
  PROVE  r = [o EXCEPT !.name = v] =>
           /\ r \in Proc
           /\ r.name = v /\ r.pc = o.pc /\ SameOp(r, o) /\ SameScan(r, o)
           /\ r.inode = o.inode /\ r.attempt = o.attempt
<1> DEFINE c == [pc |-> o.pc, op |-> o.op, expected |-> o.expected, must |-> o.must, seen |-> o.seen,
                  best |-> o.best, bestInode |-> o.bestInode, newest |-> o.newest, inode |-> o.inode,
                  name |-> v, attempt |-> o.attempt, floor |-> o.floor]
<1>1. ASSUME r = [o EXCEPT !.name = v]
      PROVE  r = c
  BY <1>1, RecordIs
<1>2. ASSUME r = c
      PROVE  r \in Proc
  BY <1>2, RecordIs, ARecord
<1>3. ASSUME r = c
      PROVE  /\ r.name = v /\ r.pc = o.pc /\ SameOp(r, o) /\ SameScan(r, o)
             /\ r.inode = o.inode /\ r.attempt = o.attempt
  BY <1>3 DEF SameOp, SameScan, SameWork
<1> QED
  BY <1>1, <1>2, <1>3

LEMMA SetAttempt ==
  ASSUME NEW o \in Proc, NEW v \in 0..2, NEW r
  PROVE  r = [o EXCEPT !.attempt = v] =>
           /\ r \in Proc
           /\ r.attempt = v /\ r.pc = o.pc /\ SameOp(r, o) /\ SameScan(r, o)
           /\ r.inode = o.inode /\ r.name = o.name
<1> DEFINE c == [pc |-> o.pc, op |-> o.op, expected |-> o.expected, must |-> o.must, seen |-> o.seen,
                  best |-> o.best, bestInode |-> o.bestInode, newest |-> o.newest, inode |-> o.inode,
                  name |-> o.name, attempt |-> v, floor |-> o.floor]
<1>1. ASSUME r = [o EXCEPT !.attempt = v]
      PROVE  r = c
  BY <1>1, RecordIs
<1>2. ASSUME r = c
      PROVE  r \in Proc
  BY <1>2, RecordIs, ARecord
<1>3. ASSUME r = c
      PROVE  /\ r.attempt = v /\ r.pc = o.pc /\ SameOp(r, o) /\ SameScan(r, o)
             /\ r.inode = o.inode /\ r.name = o.name
  BY <1>3 DEF SameOp, SameScan, SameWork
<1> QED
  BY <1>1, <1>2, <1>3

LEMMA IdleIs ==
  /\ Idle \in Proc /\ NoScan(Idle) /\ NoWork(Idle)
  /\ Idle.pc = "idle" /\ Idle.op = "none" /\ Idle.expected = 0 /\ Idle.floor = 0
<1> QED
  BY Numbers DEF Idle, Proc, NoScan, NoWork

LEMMA GotoDoes ==
  ASSUME TypeOK, NEW p \in Procs, NEW pc \in Pcs, Goto(p, pc)
  PROVE  /\ Puts(p) /\ proc'[p].pc = pc
         /\ SameOp(proc'[p], proc[p]) /\ SameScan(proc'[p], proc[p]) /\ SameWork(proc'[p], proc[p])
<1>1. PICK o \in Proc : o = proc[p]
  BY DEF TypeOK
<1>2. PICK r : r = [o EXCEPT !.pc = pc]
  OBVIOUS
<1>3. proc' = [proc EXCEPT ![p] = r]
  BY <1>1, <1>2 DEF Goto, TypeOK
<1>4. r = [pc |-> pc, op |-> o.op, expected |-> o.expected, must |-> o.must, seen |-> o.seen,
           best |-> o.best, bestInode |-> o.bestInode, newest |-> o.newest, inode |-> o.inode,
           name |-> o.name, attempt |-> o.attempt, floor |-> o.floor]
  BY <1>2, RecordIs
<1>5. r \in Proc
  BY <1>4, RecordIs, ARecord
<1>6. r.pc = pc /\ SameOp(r, o) /\ SameScan(r, o) /\ SameWork(r, o)
  BY <1>4 DEF SameOp, SameScan, SameWork
<1> QED
  BY <1>1, <1>3, <1>5, <1>6, PutOne DEF TypeOK

LEMMA FinishDoes ==
  ASSUME TypeOK, NEW p \in Procs, Finish(p)
  PROVE  Puts(p) /\ proc'[p] = Idle
<1> QED
  BY IdleIs, PutOne DEF Finish, TypeOK

LEMMA InspectDoes ==
  ASSUME TypeOK, NEW p \in Procs, NEW i \in Inodes, NEW name \in Slots \cup {0}, Inspect(p, i, name)
  PROVE  /\ Puts(p) /\ proc'[p].pc = "inspect" /\ SameOp(proc'[p], proc[p]) /\ NoScan(proc'[p])
         /\ proc'[p].inode = i /\ proc'[p].name = name
<1>1. PICK o \in Proc : o = proc[p]
  BY DEF TypeOK
<1>2. PICK r : r = [Idle EXCEPT !.pc = "inspect", !.inode = i, !.name = name,
                       !.op = o.op, !.expected = o.expected, !.floor = o.floor]
  OBVIOUS
<1>3. proc' = [proc EXCEPT ![p] = r]
  BY <1>1, <1>2 DEF Inspect
<1>4. r = [pc |-> "inspect", op |-> o.op, expected |-> o.expected, must |-> {}, seen |-> {},
           best |-> 0, bestInode |-> 0, newest |-> 0, inode |-> i,
           name |-> name, attempt |-> 0, floor |-> o.floor]
  BY <1>2 DEF Idle
<1>5. r \in Proc
  <2>1. {} \in SUBSET Slots /\ 0 \in 0..MaxInodes /\ 0 \in 0..2 /\ "inspect" \in Pcs
    BY Numbers DEF Pcs
  <2> QED
    BY <1>4, <2>1, RecordIs, ARecord
<1>6. r.pc = "inspect" /\ SameOp(r, o) /\ NoScan(r) /\ r.inode = i /\ r.name = name
  BY <1>4 DEF SameOp, NoScan
<1> QED
  BY <1>1, <1>3, <1>5, <1>6, PutOne DEF TypeOK

LEMMA AfterDiscardDoes ==
  ASSUME TypeOK, NEW p \in Procs, AfterDiscard(p)
  PROVE  /\ Puts(p)
         /\ proc[p].op # "load" => proc'[p] = Idle
         /\ proc[p].op = "load" =>
               /\ proc'[p].pc = "open" /\ proc'[p].op = "reload" /\ proc'[p].floor = proc[p].floor
               /\ NoScan(proc'[p]) /\ NoWork(proc'[p])
<1>1. CASE proc[p].op # "load"
  BY <1>1, FinishDoes DEF AfterDiscard
<1>2. CASE proc[p].op = "load"
  <2>1. PICK o \in Proc : o = proc[p]
    BY DEF TypeOK
  <2>2. PICK r : r = [Idle EXCEPT !.pc = "open", !.op = "reload", !.floor = o.floor]
    OBVIOUS
  <2>3. proc' = [proc EXCEPT ![p] = r]
    BY <1>2, <2>1, <2>2 DEF AfterDiscard
  <2>4. r = [pc |-> "open", op |-> "reload", expected |-> 0, must |-> {}, seen |-> {},
             best |-> 0, bestInode |-> 0, newest |-> 0, inode |-> 0,
             name |-> 0, attempt |-> 0, floor |-> o.floor]
    BY <2>2 DEF Idle
  <2>5. r \in Proc
    <3>1. {} \in SUBSET Slots /\ 0 \in 0..MaxInodes /\ 0 \in 0..2
      BY Numbers
    <3>2. o.floor \in Inodes \cup {0}
      BY DEF Proc
    <3> QED
      BY <2>4, <3>1, <3>2 DEF Proc
  <2>6. r.pc = "open" /\ r.op = "reload" /\ r.floor = o.floor /\ NoScan(r) /\ NoWork(r)
    BY <2>4 DEF NoScan, NoWork
  <2> QED
    BY <1>2, <2>1, <2>3, <2>5, <2>6, PutOne DEF TypeOK
<1> QED
  BY <1>1, <1>2

LEMMA TeamIs ==
  ASSUME TypeOK
  PROVE  /\ Roles \in [Procs -> SUBSET Ops] /\ team.conversations \subseteq Conversations
         /\ team.inodes \in 1..MaxInodes /\ team.moves \in 1..MaxMoves /\ team.crashes \in Nat
<1> QED
  BY TeamsAssumption DEF TypeOK, Team, Roles

LEMMA StartDoes ==
  ASSUME TypeOK, NEW p \in Procs, NEW op \in Ops, NEW b \in Conversations \cup {0}, Start(p, op, b)
  PROVE  /\ Puts(p) /\ proc'[p].op = op /\ op \in Roles[p] \ {"write"}
         /\ proc'[p].pc = (IF op \in {"recover", "invalidate"} THEN "listing" ELSE "open")
         /\ proc'[p].floor = (IF op \in {"read", "load", "invalidate"} THEN latest ELSE 0)
         /\ NoScan(proc'[p]) /\ NoWork(proc'[p])
<1>1. PICK r : r = [Idle EXCEPT !.op = op, !.expected = b,
                       !.floor = IF op \in {"read", "load", "invalidate"} THEN latest ELSE 0,
                       !.pc = IF op \in {"recover", "invalidate"} THEN "listing" ELSE "open"]
  OBVIOUS
<1>2. proc' = [proc EXCEPT ![p] = r]
  BY <1>1 DEF Start
<1>3. PICK pc \in Pcs : pc = IF op \in {"recover", "invalidate"} THEN "listing" ELSE "open"
  BY DEF Pcs
<1>4. PICK floor \in Inodes \cup {0} :
         floor = IF op \in {"read", "load", "invalidate"} THEN latest ELSE 0
  BY DEF TypeOK
<1>5. r = [pc |-> pc, op |-> op, expected |-> b, must |-> {}, seen |-> {},
           best |-> 0, bestInode |-> 0, newest |-> 0, inode |-> 0,
           name |-> 0, attempt |-> 0, floor |-> floor]
  BY <1>1, <1>3, <1>4 DEF Idle
<1>6. r \in Proc
  <2>1. {} \in SUBSET Slots /\ 0 \in 0..MaxInodes /\ 0 \in 0..2
        /\ op \in Ops \cup {"none", "reload"} /\ 0 \in Slots \cup {0} /\ 0 \in Inodes \cup {0}
    BY Numbers
  <2>2. [pc |-> pc, op |-> op, expected |-> b, must |-> {}, seen |-> {},
         best |-> 0, bestInode |-> 0, newest |-> 0, inode |-> 0,
         name |-> 0, attempt |-> 0, floor |-> floor] \in Proc
    BY <2>1 DEF Proc, Pcs
  <2> QED
    BY <1>5, <2>2
<1>7. r.pc = pc /\ r.op = op /\ r.floor = floor /\ NoScan(r) /\ NoWork(r)
  BY <1>5 DEF NoScan, NoWork
<1> QED
  BY <1>2, <1>3, <1>4, <1>6, <1>7, PutOne DEF TypeOK, Start

LEMMA OpenDirectoryDoes ==
  ASSUME TypeOK, NEW p \in Procs, OpenDirectory(p)
  PROVE  /\ Puts(p) /\ proc'[p].pc = "scan" /\ SameOp(proc'[p], proc[p]) /\ SameWork(proc'[p], proc[p])
         /\ proc'[p].must = Occupied /\ proc'[p].seen = proc[p].seen /\ proc'[p].best = proc[p].best
         /\ proc'[p].bestInode = proc[p].bestInode /\ proc'[p].newest = proc[p].newest
<1>1. PICK o \in Proc : o = proc[p]
  BY DEF TypeOK
<1>2. PICK must \in SUBSET Slots : must = Occupied
  BY DEF Occupied
<1>3. PICK q : q = [o EXCEPT !.pc = "scan"]
  OBVIOUS
<1>4. PICK r : r = [q EXCEPT !.must = must]
  OBVIOUS
<1>5. proc' = [proc EXCEPT ![p] = r]
  BY <1>1, <1>2, <1>3, <1>4 DEF OpenDirectory, TypeOK
<1>6. q \in Proc /\ q.pc = "scan" /\ SameOp(q, o) /\ SameScan(q, o) /\ SameWork(q, o)
  BY <1>3, SetPc DEF Pcs
<1>7. r \in Proc /\ r.must = must /\ r.pc = "scan" /\ SameOp(r, q) /\ SameWork(r, q)
      /\ r.seen = q.seen /\ r.best = q.best /\ r.bestInode = q.bestInode /\ r.newest = q.newest
  BY <1>4, <1>6, SetMust
<1> QED
  BY <1>1, <1>2, <1>5, <1>6, <1>7, PutOne DEF TypeOK, SameOp, SameScan, SameWork

LEMMA ConsiderEntryDoes ==
  ASSUME TypeOK, NEW p \in Procs, NEW s \in Slots, ConsiderEntry(p, s)
  PROVE  /\ Puts(p) /\ proc'[p].pc = "scan" /\ SameOp(proc'[p], proc[p]) /\ SameWork(proc'[p], proc[p])
         /\ proc'[p].must = proc[p].must /\ proc'[p].seen = proc[p].seen \cup {s}
         /\ IF proc[p].best = 0 \/ Age(quarantine[s]) > proc[p].newest
            THEN /\ proc'[p].best = s /\ proc'[p].bestInode = quarantine[s]
                 /\ proc'[p].newest = Age(quarantine[s])
            ELSE /\ proc'[p].best = proc[p].best /\ proc'[p].bestInode = proc[p].bestInode
                 /\ proc'[p].newest = proc[p].newest
<1>1. PICK o \in Proc : o = proc[p]
  BY DEF TypeOK
<1>2. PICK i \in Inodes : i = quarantine[s]
  BY DEF ConsiderEntry, Occupied, TypeOK
<1>3. PICK a \in 0..MaxInodes : a = Age(i)
  BY Numbers DEF Age, Inodes
<1>4. PICK newer \in BOOLEAN : newer <=> o.best = 0 \/ a > o.newest
  OBVIOUS
<1>5. PICK best \in Slots \cup {0} : best = IF newer THEN s ELSE o.best
  BY RecordIs
<1>6. PICK bestInode \in Inodes \cup {0} : bestInode = IF newer THEN i ELSE o.bestInode
  BY RecordIs
<1>7. PICK newest \in 0..MaxInodes : newest = IF newer THEN a ELSE o.newest
  BY RecordIs
<1>8. PICK r1 : r1 = [o EXCEPT !.seen = o.seen \cup {s}]
  OBVIOUS
<1>9. PICK r2 : r2 = [r1 EXCEPT !.best = best]
  OBVIOUS
<1>10. PICK r3 : r3 = [r2 EXCEPT !.bestInode = bestInode]
  OBVIOUS
<1>11. PICK r : r = [r3 EXCEPT !.newest = newest]
  OBVIOUS
<1>12. proc' = [proc EXCEPT ![p] = r]
  BY <1>1, <1>2, <1>3, <1>4, <1>5, <1>6, <1>7, <1>8, <1>9, <1>10, <1>11 DEF ConsiderEntry, TypeOK
<1>13. o.seen \cup {s} \in SUBSET Slots
  BY RecordIs
<1>14. /\ r1 \in Proc /\ r1.seen = o.seen \cup {s} /\ r1.pc = o.pc /\ SameOp(r1, o) /\ SameWork(r1, o)
       /\ r1.must = o.must
  BY <1>8, <1>13, SetSeen
<1>15. /\ r2 \in Proc /\ r2.best = best /\ r2.pc = r1.pc /\ SameOp(r2, r1) /\ SameWork(r2, r1)
       /\ r2.must = r1.must /\ r2.seen = r1.seen
  BY <1>9, <1>14, SetBest
<1>16. /\ r3 \in Proc /\ r3.bestInode = bestInode /\ r3.pc = r2.pc /\ SameOp(r3, r2) /\ SameWork(r3, r2)
       /\ r3.must = r2.must /\ r3.seen = r2.seen /\ r3.best = r2.best
  BY <1>10, <1>15, SetBestInode
<1>17. /\ r \in Proc /\ r.newest = newest /\ r.pc = r3.pc /\ SameOp(r, r3) /\ SameWork(r, r3)
       /\ r.must = r3.must /\ r.seen = r3.seen /\ r.best = r3.best /\ r.bestInode = r3.bestInode
  BY <1>11, <1>16, SetNewest
<1>18. /\ r.pc = o.pc /\ SameOp(r, o) /\ SameWork(r, o) /\ r.must = o.must /\ r.seen = o.seen \cup {s}
       /\ r.best = best /\ r.bestInode = bestInode
  BY <1>14, <1>15, <1>16, <1>17 DEF SameOp, SameWork
<1>19. o.pc = "scan"
  BY <1>1 DEF ConsiderEntry, At
<1> QED
  BY <1>1, <1>2, <1>3, <1>4, <1>5, <1>6, <1>7, <1>12, <1>17, <1>18, <1>19, PutOne DEF TypeOK

LEMMA ScanEndsDoes ==
  ASSUME TypeOK, NEW p \in Procs, ScanEnds(p)
  PROVE  /\ Puts(p) /\ SameOp(proc'[p], proc[p]) /\ SameWork(proc'[p], proc[p])
         /\ proc'[p].pc = (IF Opens(proc[p].op) THEN "reopen"
                           ELSE IF proc[p].op = "recover" THEN "rmdir" ELSE "last")
         /\ proc'[p].must = {} /\ proc'[p].seen = {} /\ proc'[p].best = proc[p].best
         /\ proc'[p].bestInode = proc[p].bestInode /\ proc'[p].newest = proc[p].newest
<1>1. PICK o \in Proc : o = proc[p]
  BY DEF TypeOK
<1>2. PICK pc \in Pcs : pc = (IF Opens(o.op) THEN "reopen"
                              ELSE IF o.op = "recover" THEN "rmdir" ELSE "last")
  BY DEF Pcs
<1>3. PICK r1 : r1 = [o EXCEPT !.must = {}]
  OBVIOUS
<1>4. PICK r2 : r2 = [r1 EXCEPT !.seen = {}]
  OBVIOUS
<1>5. PICK r : r = [r2 EXCEPT !.pc = pc]
  OBVIOUS
<1>6. proc' = [proc EXCEPT ![p] = r]
  BY <1>1, <1>2, <1>3, <1>4, <1>5 DEF ScanEnds, TypeOK
<1>7. /\ r1 \in Proc /\ r1.must = {} /\ r1.pc = o.pc /\ SameOp(r1, o) /\ SameWork(r1, o)
      /\ r1.best = o.best /\ r1.bestInode = o.bestInode /\ r1.newest = o.newest
  BY <1>3, SetMust
<1>8. /\ r2 \in Proc /\ r2.seen = {} /\ r2.must = r1.must /\ SameOp(r2, r1) /\ SameWork(r2, r1)
      /\ r2.best = r1.best /\ r2.bestInode = r1.bestInode /\ r2.newest = r1.newest
  BY <1>4, <1>7, SetSeen
<1>9. r \in Proc /\ r.pc = pc /\ SameOp(r, r2) /\ SameScan(r, r2) /\ SameWork(r, r2)
  BY <1>5, <1>8, SetPc
<1>10. /\ SameOp(r, o) /\ SameWork(r, o) /\ r.must = {} /\ r.seen = {}
       /\ r.best = o.best /\ r.bestInode = o.bestInode /\ r.newest = o.newest
  BY <1>7, <1>8, <1>9 DEF SameOp, SameScan, SameWork
<1> QED
  BY <1>1, <1>2, <1>6, <1>9, <1>10, PutOne DEF TypeOK

LEMMA FoundNothingDoes ==
  ASSUME TypeOK, NEW p \in Procs, proc' = [proc EXCEPT ![p].pc = "done", ![p].inode = 0]
  PROVE  /\ Puts(p) /\ proc'[p].pc = "done" /\ proc'[p].inode = 0
         /\ SameOp(proc'[p], proc[p]) /\ SameScan(proc'[p], proc[p]) /\ proc'[p].name = proc[p].name
<1>1. PICK o \in Proc : o = proc[p]
  BY DEF TypeOK
<1>2. PICK r1 : r1 = [o EXCEPT !.pc = "done"]
  OBVIOUS
<1>3. PICK r : r = [r1 EXCEPT !.inode = 0]
  OBVIOUS
<1>4. proc' = [proc EXCEPT ![p] = r]
  BY <1>1, <1>2, <1>3 DEF TypeOK
<1>5. r1 \in Proc /\ r1.pc = "done" /\ SameOp(r1, o) /\ SameScan(r1, o) /\ SameWork(r1, o)
  BY <1>2, SetPc DEF Pcs
<1>6. /\ r \in Proc /\ r.inode = 0 /\ r.pc = r1.pc /\ SameOp(r, r1) /\ SameScan(r, r1) /\ r.name = r1.name
  BY <1>3, <1>5, SetInode
<1> QED
  BY <1>1, <1>4, <1>5, <1>6, PutOne DEF TypeOK, SameOp, SameScan, SameWork

LEMMA RenamedDoes ==
  ASSUME TypeOK, NEW p \in Procs, NEW s \in Slots,
         proc' = [proc EXCEPT ![p].pc = "compare", ![p].name = s]
  PROVE  /\ Puts(p) /\ proc'[p].pc = "compare" /\ proc'[p].name = s
         /\ SameOp(proc'[p], proc[p]) /\ SameScan(proc'[p], proc[p]) /\ proc'[p].inode = proc[p].inode
<1>1. PICK o \in Proc : o = proc[p]
  BY DEF TypeOK
<1>2. PICK r1 : r1 = [o EXCEPT !.pc = "compare"]
  OBVIOUS
<1>3. PICK r : r = [r1 EXCEPT !.name = s]
  OBVIOUS
<1>4. proc' = [proc EXCEPT ![p] = r]
  BY <1>1, <1>2, <1>3 DEF TypeOK
<1>5. r1 \in Proc /\ r1.pc = "compare" /\ SameOp(r1, o) /\ SameScan(r1, o) /\ SameWork(r1, o)
  BY <1>2, SetPc DEF Pcs
<1>6. /\ r \in Proc /\ r.name = s /\ r.pc = r1.pc /\ SameOp(r, r1) /\ SameScan(r, r1) /\ r.inode = r1.inode
  BY <1>3, <1>5, SetName
<1> QED
  BY <1>1, <1>4, <1>5, <1>6, PutOne DEF TypeOK, SameOp, SameScan, SameWork

LEMMA TriesAgainDoes ==
  ASSUME TypeOK, NEW p \in Procs, proc[p].attempt # 2,
         proc' = [proc EXCEPT ![p].pc = "mkdir", ![p].attempt = @ + 1]
  PROVE  /\ Puts(p) /\ proc'[p].pc = "mkdir" /\ proc'[p].name = proc[p].name
         /\ SameOp(proc'[p], proc[p]) /\ SameScan(proc'[p], proc[p]) /\ proc'[p].inode = proc[p].inode
<1>1. PICK o \in Proc : o = proc[p]
  BY DEF TypeOK
<1>2. PICK a \in 0..2 : a = o.attempt + 1
  BY <1>1, RecordIs
<1>3. PICK r1 : r1 = [o EXCEPT !.pc = "mkdir"]
  OBVIOUS
<1>4. PICK r : r = [r1 EXCEPT !.attempt = a]
  OBVIOUS
<1>5. proc' = [proc EXCEPT ![p] = r]
  BY <1>1, <1>2, <1>3, <1>4 DEF TypeOK
<1>6. r1 \in Proc /\ r1.pc = "mkdir" /\ SameOp(r1, o) /\ SameScan(r1, o) /\ SameWork(r1, o)
  BY <1>3, SetPc DEF Pcs
<1>7. /\ r \in Proc /\ r.pc = r1.pc /\ SameOp(r, r1) /\ SameScan(r, r1)
      /\ r.inode = r1.inode /\ r.name = r1.name
  BY <1>4, <1>6, SetAttempt
<1> QED
  BY <1>1, <1>5, <1>6, <1>7, PutOne DEF TypeOK, SameOp, SameScan, SameWork

TakesEntry(p, s, pc) ==
    proc' = [proc EXCEPT ![p].seen = @ \cup {s}, ![p].name = s, ![p].pc = pc]

LEMMA TakesEntryDoes ==
  ASSUME TypeOK, NEW p \in Procs, NEW s \in Slots, NEW pc \in Pcs, TakesEntry(p, s, pc)
  PROVE  /\ Puts(p) /\ proc'[p].pc = pc /\ proc'[p].name = s /\ proc'[p].seen = proc[p].seen \cup {s}
         /\ SameOp(proc'[p], proc[p]) /\ proc'[p].inode = proc[p].inode /\ proc'[p].must = proc[p].must
         /\ proc'[p].best = proc[p].best /\ proc'[p].bestInode = proc[p].bestInode
         /\ proc'[p].newest = proc[p].newest
<1>1. PICK o \in Proc : o = proc[p]
  BY DEF TypeOK
<1>2. PICK seen \in SUBSET Slots : seen = o.seen \cup {s}
  BY RecordIs
<1>3. PICK r1 : r1 = [o EXCEPT !.seen = seen]
  OBVIOUS
<1>4. PICK r2 : r2 = [r1 EXCEPT !.name = s]
  OBVIOUS
<1>5. PICK r : r = [r2 EXCEPT !.pc = pc]
  OBVIOUS
<1>6. proc' = [proc EXCEPT ![p] = r]
  BY <1>1, <1>3, <1>4, <1>5, <1>2 DEF TypeOK, TakesEntry
<1>7. /\ r1 \in Proc /\ r1.seen = seen /\ SameOp(r1, o) /\ SameWork(r1, o)
      /\ r1.must = o.must /\ r1.best = o.best /\ r1.bestInode = o.bestInode /\ r1.newest = o.newest
  BY <1>3, SetSeen
<1>8. r2 \in Proc /\ r2.name = s /\ SameOp(r2, r1) /\ SameScan(r2, r1) /\ r2.inode = r1.inode
  BY <1>4, <1>7, SetName
<1>9. r \in Proc /\ r.pc = pc /\ SameOp(r, r2) /\ SameScan(r, r2) /\ SameWork(r, r2)
  BY <1>5, <1>8, SetPc
<1>10. /\ SameOp(r, o) /\ r.inode = o.inode /\ r.must = o.must /\ r.seen = seen /\ r.name = s
       /\ r.best = o.best /\ r.bestInode = o.bestInode /\ r.newest = o.newest
  BY <1>7, <1>8, <1>9 DEF SameOp, SameScan, SameWork
<1> QED
  BY <1>1, <1>6, <1>2, <1>9, <1>10, PutOne DEF TypeOK

LEMMA OpenLastDoes ==
  ASSUME TypeOK, NEW p \in Procs, NEW i \in Inodes,
         proc' = [proc EXCEPT ![p].pc = "truncateLast", ![p].inode = i]
  PROVE  /\ Puts(p) /\ proc'[p].pc = "truncateLast" /\ proc'[p].inode = i
         /\ SameOp(proc'[p], proc[p]) /\ SameScan(proc'[p], proc[p]) /\ proc'[p].name = proc[p].name
<1>1. PICK o \in Proc : o = proc[p]
  BY DEF TypeOK
<1>2. PICK r1 : r1 = [o EXCEPT !.pc = "truncateLast"]
  OBVIOUS
<1>3. PICK r : r = [r1 EXCEPT !.inode = i]
  OBVIOUS
<1>4. proc' = [proc EXCEPT ![p] = r]
  BY <1>1, <1>2, <1>3 DEF TypeOK
<1>5. r1 \in Proc /\ r1.pc = "truncateLast" /\ SameOp(r1, o) /\ SameScan(r1, o) /\ SameWork(r1, o)
  BY <1>2, SetPc DEF Pcs
<1>6. /\ r \in Proc /\ r.inode = i /\ r.pc = r1.pc /\ SameOp(r, r1) /\ SameScan(r, r1) /\ r.name = r1.name
  BY <1>3, <1>5, SetInode
<1> QED
  BY <1>1, <1>4, <1>5, <1>6, PutOne DEF TypeOK, SameOp, SameScan, SameWork

-----------------------------------------------------------------------------
(* Every step keeps types, and processes remember what was published.       *)

\* A step of p that publishes nothing keeps them, and turns no reader of the
\* snapshot into something else.
Keeps(p) ==
    /\ TypeOK' /\ Published' /\ Recalls(p)' /\ Puts(p) /\ latest' = latest /\ team' = team
    /\ proc[p].op \in {"none", "read"} => proc'[p].op \in {"none", "read"}

LEMMA ProcIs ==
  ASSUME TypeOK, NEW p \in Procs
  PROVE  /\ proc[p] \in Proc
         /\ proc[p].pc \in Pcs /\ proc[p].op \in Ops \cup {"none", "reload"}
         /\ proc[p].must \subseteq Slots /\ proc[p].seen \subseteq Slots
         /\ proc[p].best \in Slots \cup {0} /\ proc[p].bestInode \in Inodes \cup {0}
         /\ proc[p].newest \in Nat /\ proc[p].inode \in Inodes \cup {0}
         /\ proc[p].name \in Slots \cup {0} /\ proc[p].floor \in Inodes \cup {0}
<1>1. PICK o \in Proc : o = proc[p]
  BY DEF TypeOK
<1> QED
  BY <1>1, RecordIs

LEMMA QuietKeeps ==
  ASSUME TypeOK, Published, NEW p \in Procs, Puts(p), UNCHANGED <<team, files, latest, revoked>>,
         crashes' \in 0..team.crashes, removed' \in SUBSET Inodes
  PROVE  TypeOK' /\ Published'
<1> QED
  BY DEF TypeOK, Published, Puts, files, Occupied

LEMMA KeepsQuiet ==
  ASSUME TypeOK, Published, NEW p \in Procs, Puts(p), Recalls(p)', UNCHANGED <<team, files, crashes, history>>,
         proc[p].op \in {"none", "read"} => proc'[p].op \in {"none", "read"}
  PROVE  Keeps(p)
<1>1. /\ UNCHANGED <<team, files, latest, revoked>>
      /\ crashes' \in 0..team.crashes /\ removed' \in SUBSET Inodes
  BY DEF history, TypeOK
<1> QED
  BY <1>1, QuietKeeps DEF Keeps, history

\* An operation that is over remembers nothing.
LEMMA IdleRecalls ==
  ASSUME TypeOK, NEW p \in Procs, proc'[p] = Idle, latest' = latest
  PROVE  Recalls(p)' /\ proc'[p].op = "none"
<1>1. latest' \in Nat
  BY Numbers DEF TypeOK
<1> QED
  BY <1>1, IdleIs, Numbers DEF Recalls, OpFits, At, NoScan, NoWork

LEMMA FinishRecalls ==
  ASSUME TypeOK, NEW p \in Procs, Finish(p), latest' = latest
  PROVE  Recalls(p)' /\ Puts(p) /\ proc'[p].op = "none"
<1> QED
  BY FinishDoes, IdleRecalls

LEMMA AfterDiscardRecalls ==
  ASSUME TypeOK, NEW p \in Procs, Recalls(p), AfterDiscard(p), latest' = latest
  PROVE  Recalls(p)' /\ Puts(p) /\ (proc[p].op # "load" => proc'[p].op = "none")
<1>1. CASE proc[p].op # "load"
  BY <1>1, AfterDiscardDoes, IdleRecalls
<1>2. CASE proc[p].op = "load"
  <2>1. latest \in Nat
    BY Numbers DEF TypeOK
  <2> QED
    BY <1>2, <2>1, AfterDiscardDoes, ProcIs, Numbers DEF Recalls, OpFits, At, NoScan, NoWork
<1> QED
  BY <1>1, <1>2

LEMMA StartKeeps ==
  ASSUME TypeOK, Published, NEW m \in Procs, MaintainedBy(m), NEW p \in Procs,
         NEW op \in Ops, NEW b \in Conversations \cup {0}, Start(p, op, b)
  PROVE  /\ TypeOK' /\ Published' /\ Recalls(p)' /\ Puts(p) /\ latest' = latest /\ team' = team
         /\ p # m => proc'[p].op = "read"
<1>1. UNCHANGED <<team, files, crashes, history>>
  BY DEF Start
<1>2. latest \in Nat
  BY Numbers DEF TypeOK
<1>3. Recalls(p)'
  BY <1>1, <1>2, StartDoes DEF Recalls, OpFits, At, NoScan, NoWork, Ops, history
<1>4. TypeOK' /\ Published'
  BY <1>1, StartDoes, QuietKeeps DEF history, TypeOK
<1>5. p # m => proc'[p].op = "read"
  BY StartDoes DEF MaintainedBy
<1> QED
  BY <1>1, <1>3, <1>4, <1>5, StartDoes DEF history

LEMMA CrashKeeps ==
  ASSUME TypeOK, Published, NEW p \in Procs, Crash(p)
  PROVE  Keeps(p)
<1>1. Recalls(p)' /\ Puts(p) /\ proc'[p].op = "none"
  BY FinishRecalls DEF Crash, history
<1>2. /\ UNCHANGED <<team, files, latest, revoked>>
      /\ crashes' \in 0..team.crashes /\ removed' \in SUBSET Inodes /\ latest' = latest
  BY TeamIs DEF Crash, history, TypeOK
<1> QED
  BY <1>1, <1>2, QuietKeeps DEF Keeps

LEMMA OpenLiveKeeps ==
  ASSUME TypeOK, Published, NEW p \in Procs, Recalls(p), OpenLive(p)
  PROVE  Keeps(p)
<1>1. UNCHANGED <<team, files, crashes, history>>
  BY DEF OpenLive
<1>2. latest \in Nat /\ latest' = latest
  BY <1>1, Numbers DEF TypeOK, history
<1>3. CASE live # 0
  <2>1. live \in Inodes /\ Inspect(p, live, 0)
    BY <1>3 DEF OpenLive, TypeOK, LiveName
  <2>2. Recalls(p)'
    BY <1>2, <2>1, InspectDoes, ProcIs, Numbers DEF Recalls, OpFits, At, NoScan, SameOp, Published, OpenLive
  <2> QED
    BY <1>1, <2>1, <2>2, InspectDoes, KeepsQuiet DEF SameOp
<1>4. CASE live = 0 /\ proc[p].op = "collect"
  BY <1>1, <1>2, <1>4, FinishRecalls, KeepsQuiet DEF OpenLive
<1>5. CASE live = 0 /\ proc[p].op # "collect"
  <2>1. Goto(p, "listing") /\ "listing" \in Pcs
    BY <1>5 DEF OpenLive, Pcs
  <2>2. Recalls(p)'
    BY <1>2, <1>5, <2>1, GotoDoes, ProcIs DEF Recalls, OpFits, At, SameScan, SameOp, SameWork, OpenLive
  <2> QED
    BY <1>1, <2>1, <2>2, GotoDoes, KeepsQuiet DEF SameOp
<1> QED
  BY <1>3, <1>4, <1>5

LEMMA OpenDirectoryKeeps ==
  ASSUME TypeOK, Published, NEW p \in Procs, Recalls(p), OpenDirectory(p)
  PROVE  Keeps(p)
<1>1. UNCHANGED <<team, files, crashes, history>> /\ latest' = latest
  BY DEF OpenDirectory, history
<1>2. Recalls(p)'
  BY <1>1, OpenDirectoryDoes, ProcIs DEF Recalls, OpFits, At, SameOp, SameWork, OpenDirectory
<1> QED
  BY <1>1, <1>2, OpenDirectoryDoes, KeepsQuiet DEF SameOp

LEMMA AgeIs ==
  ASSUME TypeOK, NEW i \in Inodes
  PROVE  Age(i) \in 0..i
<1> QED
  BY Numbers DEF Age

LEMMA ConsiderEntryKeeps ==
  ASSUME TypeOK, Published, NEW p \in Procs, Recalls(p), NEW s \in Slots, ConsiderEntry(p, s)
  PROVE  Keeps(p)
<1>1. UNCHANGED <<team, files, crashes, history>> /\ latest' = latest
  BY DEF ConsiderEntry, history
<1>2. PICK i \in Inodes : i = quarantine[s]
  BY DEF ConsiderEntry, Occupied, TypeOK
<1>3. Age(quarantine[s]) \in 0..i /\ i <= latest /\ i # 0
  BY <1>2, AgeIs, Numbers DEF Published
<1>4. /\ OpFits(proc'[p].pc, proc'[p].op) /\ proc'[p].pc = "scan"
      /\ proc'[p].inode <= latest /\ proc'[p].floor <= latest
  BY ConsiderEntryDoes DEF Recalls, SameOp, SameWork, ConsiderEntry, At
<1>5. ASSUME proc[p].best = 0 \/ Age(quarantine[s]) > proc[p].newest
      PROVE  Recalls(p)'
  <2>1. proc'[p].best = s /\ proc'[p].bestInode = i /\ proc'[p].newest \in 0..i /\ s # 0
    BY <1>2, <1>3, <1>5, ConsiderEntryDoes, Numbers
  <2> QED
    BY <1>1, <1>2, <1>3, <1>4, <2>1, Numbers DEF Recalls, At
<1>6. ASSUME ~(proc[p].best = 0 \/ Age(quarantine[s]) > proc[p].newest)
      PROVE  Recalls(p)'
  <2>1. /\ proc'[p].best = proc[p].best /\ proc'[p].bestInode = proc[p].bestInode
        /\ proc'[p].newest = proc[p].newest
    BY <1>6, ConsiderEntryDoes
  <2> QED
    BY <1>1, <1>4, <2>1 DEF Recalls, At
<1>7. Recalls(p)'
  BY <1>5, <1>6
<1> QED
  BY <1>1, <1>7, ConsiderEntryDoes, KeepsQuiet DEF SameOp

LEMMA ScanEndsKeeps ==
  ASSUME TypeOK, Published, NEW p \in Procs, Recalls(p), ScanEnds(p)
  PROVE  Keeps(p)
<1>1. UNCHANGED <<team, files, crashes, history>> /\ latest' = latest
  BY DEF ScanEnds, history
<1>2. OpFits(proc'[p].pc, proc'[p].op) /\ proc'[p].pc \in {"reopen", "rmdir", "last"}
  <2>1. proc[p].op \in {"read", "load", "reload", "delete", "recover", "invalidate"}
    BY DEF Recalls, OpFits, ScanEnds, At
  <2> QED
    BY <2>1, ScanEndsDoes DEF OpFits, SameOp, Opens
<1>3. Recalls(p)'
  BY <1>1, <1>2, ScanEndsDoes DEF Recalls, At, SameOp, SameWork
<1> QED
  BY <1>1, <1>3, ScanEndsDoes, KeepsQuiet DEF SameOp

LEMMA ReopenKeeps ==
  ASSUME TypeOK, Published, NEW p \in Procs, Recalls(p), Reopen(p)
  PROVE  Keeps(p)
<1>1. UNCHANGED <<team, files, crashes, history>>
  BY DEF Reopen
<1>2. latest \in Nat /\ latest' = latest
  BY <1>1, Numbers DEF TypeOK, history
<1>3. ASSUME NEW i \in Inodes, NEW name \in Slots \cup {0}, Inspect(p, i, name), i <= latest
      PROVE  Keeps(p)
  <2>2. Recalls(p)'
    BY <1>2, <1>3, InspectDoes, ProcIs, Numbers DEF Recalls, OpFits, At, NoScan, SameOp, Reopen
  <2> QED
    BY <1>1, <1>3, <2>2, InspectDoes, KeepsQuiet DEF SameOp
<1>4. CASE live # 0
  <2>1. live \in Inodes /\ live <= latest /\ 0 \in Slots \cup {0} /\ Inspect(p, live, 0)
    BY <1>4 DEF Reopen, TypeOK, LiveName, Published
  <2> QED
    BY <1>3, <2>1
<1>5. CASE live = 0 /\ proc[p].best # 0
  <2>1. /\ proc[p].bestInode \in Inodes /\ proc[p].bestInode <= latest /\ proc[p].best \in Slots \cup {0}
        /\ Inspect(p, proc[p].bestInode, proc[p].best)
    BY <1>5, ProcIs DEF Reopen, Recalls
  <2> QED
    BY <1>3, <2>1
<1>6. CASE live = 0 /\ proc[p].best = 0 /\ proc[p].op = "delete"
  BY <1>1, <1>2, <1>6, FinishRecalls, KeepsQuiet DEF Reopen
<1>7. CASE live = 0 /\ proc[p].best = 0 /\ proc[p].op # "delete"
  <2>1. Goto(p, "done") /\ "done" \in Pcs
    BY <1>7 DEF Reopen, Pcs
  <2>2. Recalls(p)'
    BY <1>2, <1>7, <2>1, GotoDoes, ProcIs DEF Recalls, OpFits, At, SameScan, SameOp, SameWork, Reopen
  <2> QED
    BY <1>1, <2>1, <2>2, GotoDoes, KeepsQuiet DEF SameOp
<1> QED
  BY <1>4, <1>5, <1>6, <1>7

LEMMA InspectForReadKeeps ==
  ASSUME TypeOK, Published, NEW p \in Procs, Recalls(p), InspectForRead(p)
  PROVE  Keeps(p)
<1>1. UNCHANGED <<team, files, crashes, history>> /\ latest' = latest
  BY DEF InspectForRead, history
<1>2. latest \in Nat
  BY Numbers DEF TypeOK
<1>3. ASSUME NEW pc \in {"done", "mkdir", "unlink"}, Goto(p, pc),
             pc \in {"mkdir", "unlink"} => proc[p].op = "load",
             pc = "unlink" => proc[p].name # 0
      PROVE  Keeps(p)
  <2>1. pc \in Pcs
    BY DEF Pcs
  <2>2. Recalls(p)'
    BY <1>1, <1>3, <2>1, GotoDoes, ProcIs DEF Recalls, OpFits, At, SameScan, SameOp, SameWork, InspectForRead
  <2> QED
    BY <1>1, <1>3, <2>1, <2>2, GotoDoes, KeepsQuiet DEF SameOp
<1>4. CASE Goto(p, "done")
  BY <1>3, <1>4
<1>5. CASE proc' = [proc EXCEPT ![p].pc = "done", ![p].inode = 0]
  <2>1. /\ Puts(p) /\ proc'[p].pc = "done" /\ proc'[p].inode = 0
        /\ SameOp(proc'[p], proc[p]) /\ SameScan(proc'[p], proc[p])
    BY <1>5, FoundNothingDoes
  <2>2. proc[p].op \in {"read", "load", "reload"}
    BY DEF InspectForRead
  <2>3. Recalls(p)'
    BY <1>1, <1>2, <2>1, <2>2 DEF Recalls, OpFits, At, SameScan, SameOp
  <2> QED
    BY <1>1, <2>1, <2>3, KeepsQuiet DEF SameOp
<1>6. CASE proc[p].op = "load" /\ Goto(p, IF proc[p].name = LiveName THEN "mkdir" ELSE "unlink")
  BY <1>3, <1>6 DEF LiveName
<1> QED
  BY <1>4, <1>5, <1>6 DEF InspectForRead

LEMMA InspectForDeleteKeeps ==
  ASSUME TypeOK, Published, NEW p \in Procs, Recalls(p), InspectForDelete(p)
  PROVE  Keeps(p)
<1>1. /\ UNCHANGED <<team, files, latest, revoked>> /\ crashes' \in 0..team.crashes
      /\ proc[p].op = "delete" /\ proc[p].pc = "inspect"
  BY DEF InspectForDelete, TypeOK, At
<1>2. removed' \in SUBSET Inodes
  BY ProcIs DEF InspectForDelete, TypeOK, Recalls
<1>3. ASSUME NEW pc \in {"mkdir", "unlink"}, Goto(p, pc), pc = "unlink" => proc[p].name # 0
      PROVE  Keeps(p)
  <2>1. pc \in Pcs
    BY DEF Pcs
  <2>2. Recalls(p)'
    BY <1>1, <1>3, <2>1, GotoDoes, ProcIs DEF Recalls, OpFits, At, SameScan, SameOp, SameWork
  <2> QED
    BY <1>1, <1>2, <1>3, <2>1, <2>2, GotoDoes, QuietKeeps DEF Keeps
<1>4. CASE Goto(p, IF proc[p].name = LiveName THEN "mkdir" ELSE "unlink")
  BY <1>3, <1>4 DEF LiveName
<1>5. CASE Finish(p)
  BY <1>1, <1>2, <1>5, FinishRecalls, QuietKeeps DEF Keeps
<1> QED
  BY <1>4, <1>5 DEF InspectForDelete

LEMMA InspectForCollectKeeps ==
  ASSUME TypeOK, Published, NEW p \in Procs, Recalls(p), InspectForCollect(p)
  PROVE  Keeps(p)
<1>1. UNCHANGED <<team, files, crashes, history>> /\ latest' = latest
  BY DEF InspectForCollect, history
<1>2. CASE Goto(p, "mkdir")
  <2>1. "mkdir" \in Pcs
    BY DEF Pcs
  <2>2. Recalls(p)'
    BY <1>1, <1>2, <2>1, GotoDoes, ProcIs
       DEF Recalls, OpFits, At, SameScan, SameOp, SameWork, InspectForCollect
  <2> QED
    BY <1>1, <1>2, <2>1, <2>2, GotoDoes, KeepsQuiet DEF SameOp
<1>3. CASE Finish(p)
  BY <1>1, <1>3, FinishRecalls, KeepsQuiet
<1> QED
  BY <1>2, <1>3 DEF InspectForCollect

\* A step that only empties a slot, fills the next one or the live name.
LEMMA MoveKeeps ==
  ASSUME TypeOK, Published, NEW p \in Procs, Puts(p), Recalls(p)',
         UNCHANGED <<team, status, conv, crashes, history>>,
         live' \in Inodes \cup {0}, live' <= latest,
         quarantine' \in [Slots -> Inodes \cup {0}],
         \A s \in Slots : quarantine'[s] <= latest /\ (s > moves' => quarantine'[s] = 0),
         dir' \in BOOLEAN, moves' \in 0..MaxMoves,
         proc[p].op \in {"none", "read"} => proc'[p].op \in {"none", "read"}
  PROVE  Keeps(p)
<1>1. UNCHANGED <<latest, removed, revoked>>
  BY DEF history
<1>2. TypeOK'
  BY <1>1 DEF TypeOK, Puts
<1>3. Published'
  BY <1>1 DEF Published
<1> QED
  BY <1>1, <1>2, <1>3 DEF Keeps

LEMMA UnlinkSourceKeeps ==
  ASSUME TypeOK, Published, NEW p \in Procs, Recalls(p), UnlinkSource(p)
  PROVE  Keeps(p)
<1>1. UNCHANGED <<team, status, conv, live, dir, moves, crashes, history>> /\ latest' = latest
  BY DEF UnlinkSource, history
<1>2. Recalls(p)' /\ Puts(p)
  BY <1>1, AfterDiscardRecalls DEF UnlinkSource
<1>3. /\ quarantine' \in [Slots -> Inodes \cup {0}]
      /\ \A s \in Slots : quarantine'[s] \in {0, quarantine[s]}
  BY DEF UnlinkSource, TypeOK
<1>4. \A s \in Slots : quarantine'[s] <= latest /\ (s > moves' => quarantine'[s] = 0)
  BY <1>1, <1>3, Numbers DEF Published, TypeOK
<1>5. proc[p].op \notin {"none", "read"}
  BY DEF UnlinkSource, Recalls, OpFits, At
<1>6. live' \in Inodes \cup {0} /\ live' <= latest /\ dir' \in BOOLEAN /\ moves' \in 0..MaxMoves
  BY <1>1 DEF TypeOK, Published
<1> QED
  BY <1>1, <1>2, <1>3, <1>4, <1>5, <1>6, MoveKeeps

LEMMA MakeDirectoryKeeps ==
  ASSUME TypeOK, Published, NEW p \in Procs, Recalls(p), MakeDirectory(p)
  PROVE  Keeps(p)
<1>1. /\ UNCHANGED <<team, status, conv, live, quarantine, moves, crashes, history>> /\ latest' = latest
      /\ dir' \in BOOLEAN
  BY DEF MakeDirectory, history
<1>2. Goto(p, "rename") /\ "rename" \in Pcs
  BY DEF MakeDirectory, Pcs
<1>3. Recalls(p)' /\ proc[p].op \notin {"none", "read"}
  BY <1>1, <1>2, GotoDoes, ProcIs DEF Recalls, OpFits, At, SameScan, SameOp, SameWork, MakeDirectory
<1>4. /\ live' \in Inodes \cup {0} /\ live' <= latest /\ moves' \in 0..MaxMoves
      /\ quarantine' \in [Slots -> Inodes \cup {0}]
      /\ \A s \in Slots : quarantine'[s] <= latest /\ (s > moves' => quarantine'[s] = 0)
  BY <1>1 DEF TypeOK, Published
<1> QED
  BY <1>1, <1>2, <1>3, <1>4, GotoDoes, MoveKeeps

\* The rename comes to nothing: what p thought to be there is gone, or p
\* makes the directory anew.
LEMMA QuarantineFails ==
  ASSUME TypeOK, NEW p \in Procs, Recalls(p), Quarantine(p), UNCHANGED <<quarantine, live, moves>>,
         AfterDiscard(p) \/ (/\ proc[p].attempt # 2
                             /\ proc' = [proc EXCEPT ![p].pc = "mkdir", ![p].attempt = @ + 1])
  PROVE  Recalls(p)' /\ Puts(p)
<1>1. latest' = latest /\ proc[p].pc = "rename"
  BY DEF Quarantine, history, At
<1>2. CASE AfterDiscard(p)
  BY <1>1, <1>2, AfterDiscardRecalls
<1>3. CASE /\ proc[p].attempt # 2
           /\ proc' = [proc EXCEPT ![p].pc = "mkdir", ![p].attempt = @ + 1]
  <2>1. /\ Puts(p) /\ proc'[p].pc = "mkdir"
        /\ SameOp(proc'[p], proc[p]) /\ SameScan(proc'[p], proc[p]) /\ proc'[p].inode = proc[p].inode
    BY <1>3, TriesAgainDoes
  <2> QED
    BY <1>1, <2>1 DEF Recalls, OpFits, At, SameScan, SameOp
<1> QED
  BY <1>2, <1>3

\* What the rename does, when it succeeds.
Renames(p) ==
    /\ live # 0 /\ live' = 0 /\ moves + 1 \in Slots /\ moves' = moves + 1
    /\ quarantine' \in [Slots -> Inodes \cup {0}] /\ quarantine'[moves + 1] = live
    /\ \A s \in Slots \ {moves + 1} : quarantine'[s] = quarantine[s]
    /\ proc' = [proc EXCEPT ![p].pc = "compare", ![p].name = moves + 1]

LEMMA QuarantineDoes ==
  ASSUME TypeOK, NEW p \in Procs, Quarantine(p)
  PROVE  /\ proc[p].pc = "rename" /\ UNCHANGED <<team, status, conv, dir, crashes, history>>
         /\ \/ Renames(p)
            \/ /\ UNCHANGED <<quarantine, live, moves>>
               /\ AfterDiscard(p) \/ (/\ proc[p].attempt # 2
                                      /\ proc' = [proc EXCEPT ![p].pc = "mkdir", ![p].attempt = @ + 1])
<1>1. proc[p].pc = "rename" /\ UNCHANGED <<team, status, conv, dir, crashes, history>>
  BY DEF Quarantine, At
<1>2. ASSUME live # 0, moves < team.moves,
             quarantine' = [quarantine EXCEPT ![moves + 1] = live], live' = 0, moves' = moves + 1,
             proc' = [proc EXCEPT ![p].pc = "compare", ![p].name = moves + 1]
      PROVE  Renames(p)
  <2>1. moves + 1 \in Slots
    BY <1>2, TeamIs, Numbers DEF TypeOK, Slots
  <2> QED
    BY <1>2, <2>1 DEF Renames, TypeOK
<1> QED
  BY <1>1, <1>2 DEF Quarantine

LEMMA QuarantineKeeps ==
  ASSUME TypeOK, Published, NEW p \in Procs, Recalls(p), Quarantine(p)
  PROVE  Keeps(p)
<1>1. /\ UNCHANGED <<team, status, conv, dir, crashes, history>> /\ latest' = latest
      /\ proc[p].pc = "rename" /\ dir' \in BOOLEAN
  BY QuarantineDoes DEF history, TypeOK
<1>2. proc[p].op \notin {"none", "read"}
  BY <1>1 DEF Recalls, OpFits
<1>3. CASE Renames(p)
  <2>1. moves + 1 \in Slots /\ proc' = [proc EXCEPT ![p].pc = "compare", ![p].name = moves + 1]
    BY <1>3 DEF Renames
  <2>2. /\ Puts(p) /\ proc'[p].pc = "compare" /\ proc'[p].name = moves + 1
        /\ SameOp(proc'[p], proc[p]) /\ SameScan(proc'[p], proc[p]) /\ proc'[p].inode = proc[p].inode
    BY <2>1, RenamedDoes
  <2>3. Recalls(p)'
    BY <1>1, <2>1, <2>2 DEF Recalls, OpFits, At, SameScan, SameOp
  <2>4. /\ live' \in Inodes \cup {0} /\ live' <= latest /\ moves' \in 0..MaxMoves
        /\ quarantine' \in [Slots -> Inodes \cup {0}]
    BY <1>3, Numbers DEF Renames, TypeOK, Slots
  <2>5. \A s \in Slots : quarantine'[s] <= latest /\ (s > moves' => quarantine'[s] = 0)
    BY <1>3, Numbers DEF Renames, Published, TypeOK
  <2> QED
    BY <1>1, <1>2, <2>2, <2>3, <2>4, <2>5, MoveKeeps
<1>4. CASE /\ UNCHANGED <<quarantine, live, moves>>
           /\ AfterDiscard(p) \/ (/\ proc[p].attempt # 2
                                  /\ proc' = [proc EXCEPT ![p].pc = "mkdir", ![p].attempt = @ + 1])
  <2>1. Recalls(p)' /\ Puts(p)
    BY <1>4, QuarantineFails
  <2>2. UNCHANGED <<team, files, crashes, history>>
    BY <1>1, <1>4 DEF files
  <2> QED
    BY <1>2, <2>1, <2>2, KeepsQuiet
<1> QED
  BY <1>3, <1>4, QuarantineDoes

LEMMA CompareKeeps ==
  ASSUME TypeOK, Published, NEW p \in Procs, Recalls(p), Compare(p)
  PROVE  Keeps(p)
<1>1. UNCHANGED <<team, files, crashes, history>> /\ latest' = latest /\ proc[p].pc = "compare"
  BY DEF Compare, history, At
<1>2. PICK pc \in {"remove", "restore"} : Goto(p, pc)
  BY DEF Compare
<1>3. pc \in Pcs
  BY <1>2 DEF Pcs
<1>4. Recalls(p)'
  BY <1>1, <1>2, <1>3, GotoDoes DEF Recalls, OpFits, At, SameScan, SameOp, SameWork
<1> QED
  BY <1>1, <1>2, <1>3, <1>4, GotoDoes, KeepsQuiet DEF SameOp

LEMMA RestoreKeeps ==
  ASSUME TypeOK, Published, NEW p \in Procs, Recalls(p), Restore(p)
  PROVE  Keeps(p)
<1>1. /\ UNCHANGED <<team, status, conv, quarantine, dir, moves, crashes, history>> /\ latest' = latest
      /\ proc[p].pc = "restore" /\ Goto(p, "remove") /\ "remove" \in Pcs
      /\ live' = IF live = 0 THEN quarantine[proc[p].name] ELSE live
  BY DEF Restore, history, At, Pcs
<1>2. Recalls(p)' /\ proc[p].op \notin {"none", "read"} /\ proc[p].name \in Slots
  BY <1>1, GotoDoes DEF Recalls, OpFits, At, SameScan, SameOp, SameWork
<1>3. live' \in Inodes \cup {0} /\ live' <= latest
  BY <1>1, <1>2 DEF TypeOK, Published
<1>4. /\ quarantine' \in [Slots -> Inodes \cup {0}] /\ dir' \in BOOLEAN /\ moves' \in 0..MaxMoves
      /\ \A s \in Slots : quarantine'[s] <= latest /\ (s > moves' => quarantine'[s] = 0)
  BY <1>1 DEF TypeOK, Published
<1> QED
  BY <1>1, <1>2, <1>3, <1>4, GotoDoes, MoveKeeps

LEMMA RemoveKeeps ==
  ASSUME TypeOK, Published, NEW p \in Procs, Recalls(p), Remove(p)
  PROVE  Keeps(p)
<1>1. /\ UNCHANGED <<team, status, conv, live, dir, moves, crashes, history>> /\ latest' = latest
      /\ proc[p].pc = "remove"
  BY DEF Remove, history, At
<1>2. PICK pc \in Pcs : Goto(p, pc) /\ pc = (IF proc[p].op = "recover" THEN "scan" ELSE "rmdir")
  BY DEF Remove, Pcs
<1>3. Recalls(p)' /\ proc[p].op \notin {"none", "read"} /\ Puts(p)
  BY <1>1, <1>2, GotoDoes DEF Recalls, OpFits, At, SameScan, SameOp, SameWork
<1>4. /\ quarantine' \in [Slots -> Inodes \cup {0}]
      /\ \A s \in Slots : quarantine'[s] \in {0, quarantine[s]}
  BY DEF Remove, TypeOK
<1>5. \A s \in Slots : quarantine'[s] <= latest /\ (s > moves' => quarantine'[s] = 0)
  BY <1>1, <1>4, Numbers DEF Published, TypeOK
<1>6. live' \in Inodes \cup {0} /\ live' <= latest /\ dir' \in BOOLEAN /\ moves' \in 0..MaxMoves
  BY <1>1 DEF TypeOK, Published
<1> QED
  BY <1>1, <1>3, <1>4, <1>5, <1>6, MoveKeeps

LEMMA RemoveDirectoryKeeps ==
  ASSUME TypeOK, Published, NEW p \in Procs, Recalls(p), RemoveDirectory(p)
  PROVE  Keeps(p)
<1>1. /\ UNCHANGED <<team, status, conv, live, quarantine, moves, crashes, history>> /\ latest' = latest
      /\ AfterDiscard(p) /\ proc[p].pc = "rmdir"
  BY DEF RemoveDirectory, history, At
<1>2. Recalls(p)' /\ Puts(p) /\ proc[p].op \notin {"none", "read"}
  BY <1>1, AfterDiscardRecalls DEF Recalls, OpFits
<1>3. dir' \in BOOLEAN
  BY DEF RemoveDirectory
<1>4. /\ live' \in Inodes \cup {0} /\ live' <= latest /\ moves' \in 0..MaxMoves
      /\ quarantine' \in [Slots -> Inodes \cup {0}]
      /\ \A s \in Slots : quarantine'[s] <= latest /\ (s > moves' => quarantine'[s] = 0)
  BY <1>1 DEF TypeOK, Published
<1> QED
  BY <1>1, <1>2, <1>3, <1>4, MoveKeeps

LEMMA TakesEntryKeeps ==
  ASSUME TypeOK, Published, NEW p \in Procs, Recalls(p), NEW s \in Slots, NEW pc \in Pcs,
         At(p, "scan"), proc[p].op \in {"recover", "invalidate"}, OpFits(pc, proc[p].op), pc # "inspect",
         pc \notin {"open", "listing"}, UNCHANGED <<team, files, crashes, history>>,
         TakesEntry(p, s, pc)
  PROVE  Keeps(p)
<1>1. /\ Puts(p) /\ proc'[p].pc = pc /\ proc'[p].name = s
      /\ SameOp(proc'[p], proc[p]) /\ proc'[p].inode = proc[p].inode
      /\ proc'[p].best = proc[p].best /\ proc'[p].bestInode = proc[p].bestInode
      /\ proc'[p].newest = proc[p].newest
  BY TakesEntryDoes
<1>2. latest' = latest
  BY DEF history
<1>3. Recalls(p)'
  BY <1>1, <1>2 DEF Recalls, At, SameOp
<1> QED
  BY <1>1, <1>3, KeepsQuiet DEF SameOp

LEMMA RecoverEntryKeeps ==
  ASSUME TypeOK, Published, NEW p \in Procs, Recalls(p), NEW s \in Slots, RecoverEntry(p, s)
  PROVE  Keeps(p)
<1>1. PICK pc \in Pcs : pc = IF HeaderStale(quarantine[s]) THEN "remove" ELSE "restore"
  BY DEF Pcs
<1>2. TakesEntry(p, s, pc)
  BY <1>1 DEF RecoverEntry, TakesEntry
<1>3. /\ At(p, "scan") /\ proc[p].op = "recover" /\ UNCHANGED <<team, files, crashes, history>>
      /\ OpFits(pc, proc[p].op) /\ pc \notin {"inspect", "open", "listing"}
  BY <1>1 DEF RecoverEntry, OpFits
<1> QED
  BY <1>2, <1>3, TakesEntryKeeps

LEMMA InvalidateEntryKeeps ==
  ASSUME TypeOK, Published, NEW p \in Procs, Recalls(p), NEW s \in Slots, InvalidateEntry(p, s)
  PROVE  Keeps(p)
<1>1. PICK pc \in Pcs : pc = IF status[quarantine[s]] = "invalid" THEN "scan" ELSE "truncate"
  BY DEF Pcs
<1>2. TakesEntry(p, s, pc)
  BY <1>1 DEF InvalidateEntry, TakesEntry
<1>3. /\ At(p, "scan") /\ proc[p].op = "invalidate" /\ UNCHANGED <<team, files, crashes, history>>
      /\ OpFits(pc, proc[p].op) /\ pc \notin {"inspect", "open", "listing"}
  BY <1>1 DEF InvalidateEntry, OpFits
<1> QED
  BY <1>2, <1>3, TakesEntryKeeps

\* A step of an invalidation that only damages inodes.
LEMMA DamageKeeps ==
  ASSUME TypeOK, Published, NEW p \in Procs, Puts(p), Recalls(p)',
         UNCHANGED <<team, conv, live, quarantine, dir, moves, crashes, latest>>,
         status' \in [Inodes -> Status], removed' \in SUBSET Inodes, revoked' \in SUBSET Inodes,
         proc[p].op \notin {"none", "read"}
  PROVE  Keeps(p)
<1>1. TypeOK'
  BY DEF TypeOK, Puts
<1>2. Published'
  BY DEF Published
<1> QED
  BY <1>1, <1>2 DEF Keeps

LEMMA TruncateEntryKeeps ==
  ASSUME TypeOK, Published, NEW p \in Procs, Recalls(p), TruncateEntry(p)
  PROVE  Keeps(p)
<1>1. /\ UNCHANGED <<team, conv, live, quarantine, dir, moves, crashes, latest, revoked>>
      /\ proc[p].pc = "truncate" /\ Goto(p, "scan") /\ "scan" \in Pcs
  BY DEF TruncateEntry, At, Pcs
<1>2. Recalls(p)' /\ Puts(p) /\ proc[p].op \notin {"none", "read"}
  BY <1>1, GotoDoes DEF Recalls, OpFits, At, SameScan, SameOp, SameWork
<1>3. {quarantine[proc[p].name]} \ {0} \subseteq Inodes
  BY <1>1 DEF Recalls, TypeOK
<1>4. status' \in [Inodes -> Status] /\ removed' \in SUBSET Inodes /\ revoked' \in SUBSET Inodes
  BY <1>1, <1>3 DEF TruncateEntry, TypeOK, Status
<1> QED
  BY <1>1, <1>2, <1>4, DamageKeeps

LEMMA OpenLastKeeps ==
  ASSUME TypeOK, Published, NEW p \in Procs, Recalls(p), OpenLast(p)
  PROVE  Keeps(p)
<1>1. /\ UNCHANGED <<team, conv, live, quarantine, dir, moves, crashes, latest, status, removed>>
      /\ proc[p].pc = "last"
  BY DEF OpenLast, At, files
<1>2. status' \in [Inodes -> Status] /\ removed' \in SUBSET Inodes /\ revoked' \in SUBSET Inodes
  BY <1>1 DEF OpenLast, Invalidated, TypeOK
<1>3. proc[p].op \notin {"none", "read"}
  BY <1>1 DEF Recalls, OpFits
<1>4. CASE live = 0 \/ status[live] = "invalid"
  <2>1. Recalls(p)' /\ Puts(p)
    BY <1>1, <1>4, FinishRecalls DEF OpenLast, Invalidated
  <2> QED
    BY <1>1, <1>2, <1>3, <2>1, DamageKeeps
<1>5. CASE ~(live = 0 \/ status[live] = "invalid")
  <2>1. live \in Inodes /\ proc' = [proc EXCEPT ![p].pc = "truncateLast", ![p].inode = live]
    BY <1>5 DEF OpenLast, TypeOK
  <2>2. /\ Puts(p) /\ proc'[p].pc = "truncateLast" /\ proc'[p].inode = live
        /\ SameOp(proc'[p], proc[p]) /\ SameScan(proc'[p], proc[p])
    BY <2>1, OpenLastDoes
  <2>3. Recalls(p)'
    BY <1>1, <2>2 DEF Recalls, OpFits, At, SameScan, SameOp, Published
  <2> QED
    BY <1>1, <1>2, <1>3, <2>2, <2>3, DamageKeeps
<1> QED
  BY <1>4, <1>5

LEMMA TruncateLastKeeps ==
  ASSUME TypeOK, Published, NEW p \in Procs, Recalls(p), TruncateLast(p)
  PROVE  Keeps(p)
<1>1. /\ UNCHANGED <<team, conv, live, quarantine, dir, moves, crashes, latest>>
      /\ proc[p].pc = "truncateLast" /\ Finish(p)
  BY DEF TruncateLast, Invalidated, At
<1>2. Recalls(p)' /\ Puts(p) /\ proc[p].op \notin {"none", "read"}
  BY <1>1, FinishRecalls DEF Recalls, OpFits
<1>3. {proc[p].inode} \cap {live} \subseteq Inodes \cup {0}
  BY DEF TypeOK
<1>4. status' \in [Inodes -> Status] /\ removed' \in SUBSET Inodes /\ revoked' \in SUBSET Inodes
  BY <1>1, <1>3 DEF TruncateLast, Invalidated, TypeOK, Status
<1> QED
  BY <1>1, <1>2, <1>4, DamageKeeps

LEMMA ReturnKeeps ==
  ASSUME TypeOK, Published, NEW p \in Procs, Recalls(p), Return(p)
  PROVE  Keeps(p)
<1>1. UNCHANGED <<team, files, crashes, history>> /\ latest' = latest /\ Finish(p)
  BY DEF Return, history
<1> QED
  BY <1>1, FinishRecalls, KeepsQuiet

LEMMA StepKeeps ==
  ASSUME TypeOK, Published, NEW p \in Procs, Recalls(p), Step(p)
  PROVE  Keeps(p)
<1>1. CASE \E s \in Slots : ConsiderEntry(p, s) \/ RecoverEntry(p, s) \/ InvalidateEntry(p, s)
  BY <1>1, ConsiderEntryKeeps, RecoverEntryKeeps, InvalidateEntryKeeps
<1>2. CASE OpenLive(p) \/ OpenDirectory(p) \/ ScanEnds(p) \/ Reopen(p)
  BY <1>2, OpenLiveKeeps, OpenDirectoryKeeps, ScanEndsKeeps, ReopenKeeps
<1>3. CASE InspectForRead(p) \/ InspectForDelete(p) \/ InspectForCollect(p) \/ UnlinkSource(p)
  BY <1>3, InspectForReadKeeps, InspectForDeleteKeeps, InspectForCollectKeeps, UnlinkSourceKeeps
<1>4. CASE MakeDirectory(p) \/ Quarantine(p) \/ Compare(p) \/ Restore(p) \/ Remove(p) \/ RemoveDirectory(p)
  BY <1>4, MakeDirectoryKeeps, QuarantineKeeps, CompareKeeps, RestoreKeeps, RemoveKeeps, RemoveDirectoryKeeps
<1>5. CASE TruncateEntry(p) \/ OpenLast(p) \/ TruncateLast(p) \/ Return(p)
  BY <1>5, TruncateEntryKeeps, OpenLastKeeps, TruncateLastKeeps, ReturnKeeps
<1> QED
  BY <1>1, <1>2, <1>3, <1>4, <1>5 DEF Step

LEMMA WriteKeeps ==
  ASSUME TypeOK, Published, NEW p \in Procs, NEW b \in Conversations, Write(p, b)
  PROVE  TypeOK' /\ Published' /\ latest' = latest + 1 /\ latest' \in Inodes
<1>1. /\ latest + 1 \in Inodes /\ latest' = latest + 1 /\ live' = latest + 1
      /\ status' = [status EXCEPT ![latest + 1] = "fresh"] /\ conv' = [conv EXCEPT ![latest + 1] = b]
      /\ UNCHANGED <<team, quarantine, dir, moves, proc, crashes, removed, revoked>>
  BY TeamIs, Numbers DEF Write, TypeOK, Inodes
<1>2. TypeOK'
  BY <1>1 DEF TypeOK, Status
<1>3. latest \in Nat /\ \A s \in Slots : quarantine[s] \in Nat /\ quarantine[s] <= latest
  <2>1. \A i \in Inodes \cup {0} : i \in Nat
    BY Numbers
  <2>2. latest \in Inodes \cup {0} /\ \A s \in Slots : quarantine[s] \in Inodes \cup {0}
    BY DEF TypeOK
  <2> QED
    BY <2>1, <2>2 DEF Published
<1>4. Published'
  BY <1>1, <1>3 DEF Published
<1> QED
  BY <1>1, <1>2, <1>4

LEMMA ExpireKeeps ==
  ASSUME TypeOK, Published, NEW i \in Inodes, Expire(i)
  PROVE  TypeOK' /\ Published' /\ latest' = latest
<1>1. /\ status' = [status EXCEPT ![i] = "expired"]
      /\ UNCHANGED <<team, conv, live, quarantine, dir, moves, proc, crashes, latest, removed, revoked>>
  BY DEF Expire, history
<1> QED
  BY <1>1 DEF TypeOK, Status, Published

\* What another process remembers does not change, and publishing only adds.
LEMMA OthersRecall ==
  ASSUME TypeOK, NEW q \in Procs, Recalls(q), proc'[q] = proc[q], latest' \in Nat, latest' >= latest
  PROVE  Recalls(q)'
<1>1. latest \in Inodes \cup {0} /\ \A i \in Inodes \cup {0} : i \in Nat
  BY Numbers DEF TypeOK
<1>2. proc[q].inode \in Inodes \cup {0} /\ proc[q].bestInode \in Inodes \cup {0} /\ proc[q].floor \in Inodes \cup {0}
  BY ProcIs
<1>3. proc[q].inode \in Nat /\ proc[q].bestInode \in Nat /\ proc[q].floor \in Nat /\ latest \in Nat
  BY <1>1, <1>2
<1> QED
  BY <1>3 DEF Recalls, At

LEMMA BasisInit ==
  ASSUME NEW m \in Procs, Init
  PROVE  Basis(m)
<1>1. PICK st \in Status, b \in team.conversations :
         /\ status = [i \in Inodes |-> IF i = 1 THEN st ELSE "none"]
         /\ conv = [i \in Inodes |-> IF i = 1 /\ st # "none" THEN b ELSE 0]
         /\ live = IF st = "none" THEN 0 ELSE 1
         /\ latest = IF st = "none" THEN 0 ELSE 1
  BY DEF Init
<1>2. /\ team \in Teams /\ quarantine = [s \in Slots |-> 0] /\ dir = FALSE /\ moves = 0
      /\ proc = [p \in Procs |-> Idle] /\ crashes = 0 /\ removed = {} /\ revoked = {}
  BY DEF Init
<1>3. team.conversations \subseteq Conversations /\ team.crashes \in Nat /\ 1 \in Inodes
  BY <1>2, TeamsAssumption, BoundsAssumption DEF Team, Inodes
<1>4. TypeOK
  <2>1. status \in [Inodes -> Status] /\ conv \in [Inodes -> Conversations \cup {0}]
    BY <1>1, <1>3 DEF Status
  <2>2. live \in Inodes \cup {0} /\ latest \in Inodes \cup {0}
    BY <1>1, <1>3
  <2>3. proc \in [Procs -> Proc] /\ quarantine \in [Slots -> Inodes \cup {0}]
    BY <1>2, IdleIs
  <2>4. crashes \in 0..team.crashes /\ moves \in 0..MaxMoves
    BY <1>2, <1>3, Numbers
  <2> QED
    BY <1>2, <2>1, <2>2, <2>3, <2>4 DEF TypeOK
<1>5. Published
  BY <1>1, <1>2, Numbers DEF Published
<1>6. \A p \in Procs : Recalls(p) /\ proc[p].op = "none"
  BY <1>1, <1>2, IdleIs, Numbers DEF Recalls, OpFits, At, NoScan, NoWork
<1> QED
  BY <1>4, <1>5, <1>6 DEF Basis, OthersRead

LEMMA BasisNext ==
  ASSUME NEW m \in Procs, MaintainedBy(m), Basis(m), [Next]_vars
  PROVE  Basis(m)' /\ MaintainedBy(m)'
<1>1. TypeOK /\ Published /\ OthersRead(m) /\ \A p \in Procs : Recalls(p)
  BY DEF Basis
<1>2. latest \in Nat /\ latest >= latest
  BY <1>1, Numbers DEF TypeOK
<1>3. ASSUME NEW p \in Procs, Keeps(p)
      PROVE  Basis(m)' /\ MaintainedBy(m)'
  <2>1. \A q \in Procs \ {p} : proc'[q] = proc[q]
    BY <1>3 DEF Keeps, Puts
  <2>2. \A q \in Procs : Recalls(q)'
    BY <1>1, <1>2, <1>3, <2>1, OthersRecall DEF Keeps
  <2>3. OthersRead(m)'
    BY <1>1, <1>3, <2>1 DEF OthersRead, Keeps
  <2> QED
    BY <1>3, <2>2, <2>3 DEF Basis, Keeps, MaintainedBy, Roles
<1>4. ASSUME NEW p \in Procs, NEW op \in Ops, NEW b \in Conversations \cup {0}, Start(p, op, b)
      PROVE  Basis(m)' /\ MaintainedBy(m)'
  <2>1. /\ TypeOK' /\ Published' /\ Recalls(p)' /\ Puts(p) /\ latest' = latest /\ team' = team
        /\ p # m => proc'[p].op = "read"
    BY <1>1, <1>4, StartKeeps
  <2>2. \A q \in Procs : Recalls(q)'
    BY <1>1, <1>2, <2>1, OthersRecall DEF Puts
  <2>3. OthersRead(m)'
    BY <1>1, <2>1 DEF OthersRead, Puts
  <2> QED
    BY <2>1, <2>2, <2>3 DEF Basis, MaintainedBy, Roles
<1>5. ASSUME NEW p \in Procs, NEW b \in Conversations, Write(p, b)
      PROVE  Basis(m)' /\ MaintainedBy(m)'
  <2>1. /\ TypeOK' /\ Published' /\ latest' \in Nat /\ latest' >= latest
        /\ UNCHANGED <<team, proc>>
    <3>1. TypeOK' /\ Published' /\ latest' = latest + 1
      BY <1>1, <1>5, WriteKeeps
    <3> QED
      BY <1>2, <1>5, <3>1 DEF Write
  <2>2. \A q \in Procs : Recalls(q)'
    BY <1>1, <2>1, OthersRecall
  <2> QED
    BY <1>1, <2>1, <2>2 DEF Basis, MaintainedBy, Roles, OthersRead
<1>6. ASSUME NEW i \in Inodes, Expire(i)
      PROVE  Basis(m)' /\ MaintainedBy(m)'
  <2>1. TypeOK' /\ Published' /\ latest' = latest /\ UNCHANGED <<team, proc>>
    BY <1>1, <1>6, ExpireKeeps DEF Expire
  <2>2. \A q \in Procs : Recalls(q)'
    BY <1>1, <1>2, <2>1, OthersRecall
  <2> QED
    BY <1>1, <2>1, <2>2 DEF Basis, MaintainedBy, Roles, OthersRead
<1>7. CASE UNCHANGED vars
  BY <1>7 DEF Basis, MaintainedBy, Roles, OthersRead, vars, files, history, TypeOK, Published, Recalls, At
<1>8. CASE Next
  BY <1>1, <1>3, <1>4, <1>5, <1>6, <1>8, StepKeeps, CrashKeeps DEF Next
<1> QED
  BY <1>7, <1>8

-----------------------------------------------------------------------------
(* Every step keeps the newest snapshot.                                    *)

\* Nothing is published, and no inode becomes good again.
Fades ==
    /\ latest' = latest /\ removed \subseteq removed'
    /\ \A i \in Inodes : status'[i] = "fresh" => status[i] = "fresh"

LEMMA FadesDoes ==
  ASSUME TypeOK, Fades
  PROVE  (\A i \in Inodes : Doomed(i) => Doomed(i)') /\ (Good' => Good)
<1>1. latest # 0 => latest \in Inodes
  BY DEF TypeOK
<1> QED
  BY <1>1 DEF Fades, Doomed, Good

LEMMA NothingFades ==
  ASSUME UNCHANGED <<files, history>>
  PROVE  Fades /\ UNCHANGED <<live, quarantine>>
<1> QED
  BY DEF Fades, files, history

\* Between two moves m has nothing to be careful about.
LEMMA RestsCareful ==
  ASSUME NEW m \in Procs,
         proc'[m].pc \in {"idle", "open", "listing", "rmdir", "truncate", "last", "truncateLast", "done"},
         proc'[m].op \in {"recover", "invalidate"} => proc'[m].best = 0
  PROVE  Careful(m)' /\ ~Discards(m)'
<1> QED
  BY DEF Careful, Armed, Discards, At

\* A step of m that moves nothing.
LEMMA QuietKept ==
  ASSUME TypeOK, NEW m \in Procs, Kept(m), Fades, UNCHANGED <<live, quarantine, crashes>>,
         ~Discards(m), ~Discards(m)', Careful(m)'
  PROVE  Kept(m)'
<1>1. OneLeftover(m)'
  BY DEF Kept, OneLeftover, Own, Occupied
<1>2. Newest(m)'
  BY FadesDoes DEF Kept, Newest, Fades
<1> QED
  BY <1>1, <1>2 DEF Kept

LEMMA FinishKept ==
  ASSUME TypeOK, NEW m \in Procs, Kept(m), Fades, UNCHANGED <<live, quarantine, crashes>>,
         ~Discards(m), proc'[m] = Idle
  PROVE  Kept(m)'
<1>1. proc'[m].pc = "idle" /\ proc'[m].op = "none"
  BY IdleIs
<1>2. Careful(m)' /\ ~Discards(m)'
  BY <1>1, RestsCareful
<1> QED
  BY <1>2, QuietKept

LEMMA StartKept ==
  ASSUME TypeOK, NEW m \in Procs, Kept(m), Recalls(m),
         NEW op \in Ops, NEW b \in Conversations \cup {0}, Start(m, op, b)
  PROVE  Kept(m)'
<1>1. Fades /\ UNCHANGED <<live, quarantine, crashes>>
  BY NothingFades DEF Start
<1>2. ~Discards(m)
  BY DEF Start, At, Discards
<1>3. Careful(m)' /\ ~Discards(m)'
  BY StartDoes, RestsCareful DEF NoScan
<1> QED
  BY <1>1, <1>2, <1>3, QuietKept

LEMMA OpenLiveKept ==
  ASSUME TypeOK, NEW m \in Procs, Kept(m), Recalls(m), OpenLive(m)
  PROVE  Kept(m)'
<1>1. Fades /\ UNCHANGED <<live, quarantine, crashes>>
  BY NothingFades DEF OpenLive
<1>2. ~Discards(m) /\ proc[m].pc = "open"
  BY DEF OpenLive, At, Discards
<1>3. CASE live # 0
  <2>1. live \in Inodes /\ Inspect(m, live, 0)
    BY <1>3 DEF OpenLive, TypeOK, LiveName
  <2>2. proc'[m].pc = "inspect" /\ NoScan(proc'[m]) /\ proc'[m].inode = live /\ proc'[m].name = 0
    BY <2>1, InspectDoes
  <2>3. live \in Nat /\ live # 0 /\ live' = live
    BY <1>1, <2>1, Numbers
  <2>4. Careful(m)' /\ ~Discards(m)'
    BY <2>2, <2>3 DEF Careful, Armed, Discards, At, LiveName, NoScan
  <2> QED
    BY <1>1, <1>2, <2>4, QuietKept
<1>4. CASE live = 0 /\ proc[m].op = "collect"
  BY <1>1, <1>2, <1>4, FinishDoes, FinishKept DEF OpenLive
<1>5. CASE live = 0 /\ proc[m].op # "collect"
  <2>1. Goto(m, "listing") /\ "listing" \in Pcs
    BY <1>5 DEF OpenLive, Pcs
  <2>2. proc'[m].pc = "listing" /\ proc'[m].best = 0
    BY <1>2, <2>1, GotoDoes DEF Recalls, SameScan
  <2>3. Careful(m)' /\ ~Discards(m)'
    BY <2>2, RestsCareful
  <2> QED
    BY <1>1, <1>2, <2>3, QuietKept
<1> QED
  BY <1>3, <1>4, <1>5

LEMMA OpenDirectoryKept ==
  ASSUME TypeOK, NEW m \in Procs, Kept(m), Recalls(m), OpenDirectory(m)
  PROVE  Kept(m)'
<1>1. Fades /\ UNCHANGED <<live, quarantine, crashes>>
  BY NothingFades DEF OpenDirectory
<1>2. ~Discards(m) /\ proc[m].pc = "listing"
  BY DEF OpenDirectory, At, Discards
<1>3. proc'[m].pc = "scan" /\ proc'[m].best = 0
  BY <1>2, OpenDirectoryDoes DEF Recalls
<1>4. Careful(m)' /\ ~Discards(m)'
  BY <1>3 DEF Careful, Armed, Discards, At
<1> QED
  BY <1>1, <1>2, <1>4, QuietKept

LEMMA ConsiderEntryKept ==
  ASSUME TypeOK, NEW m \in Procs, Kept(m), Recalls(m), NEW s \in Slots, ConsiderEntry(m, s)
  PROVE  Kept(m)'
<1>1. Fades /\ UNCHANGED <<live, quarantine, crashes>>
  BY NothingFades DEF ConsiderEntry
<1>2. ~Discards(m) /\ proc[m].pc = "scan" /\ proc[m].op \notin {"recover", "invalidate"}
  BY DEF ConsiderEntry, At, Discards, Opens
<1>3. proc'[m].pc = "scan" /\ proc'[m].op = proc[m].op
  BY ConsiderEntryDoes DEF SameOp
<1>4. proc'[m].best # 0 => quarantine[proc'[m].best] \in {0, proc'[m].bestInode}
  BY <1>2, ConsiderEntryDoes DEF Kept, Careful
<1>5. Careful(m)' /\ ~Discards(m)'
  BY <1>1, <1>2, <1>3, <1>4 DEF Careful, Armed, Discards, At
<1> QED
  BY <1>1, <1>2, <1>5, QuietKept

LEMMA ScanEndsKept ==
  ASSUME TypeOK, NEW m \in Procs, Kept(m), Recalls(m), ScanEnds(m)
  PROVE  Kept(m)'
<1>1. Fades /\ UNCHANGED <<live, quarantine, crashes>>
  BY NothingFades DEF ScanEnds
<1>2. ~Discards(m) /\ proc[m].pc = "scan"
  BY DEF ScanEnds, At, Discards
<1>3. /\ proc'[m].pc \in {"reopen", "rmdir", "last"} /\ proc'[m].op = proc[m].op
      /\ proc'[m].best = proc[m].best /\ proc'[m].bestInode = proc[m].bestInode
  BY ScanEndsDoes DEF SameOp
<1>4. /\ proc[m].best # 0 => quarantine[proc[m].best] \in {0, proc[m].bestInode}
      /\ proc[m].op \in {"recover", "invalidate"} => proc[m].best = 0
  BY <1>2 DEF Kept, Careful
<1>5. Careful(m)' /\ ~Discards(m)'
  BY <1>1, <1>3, <1>4 DEF Careful, Armed, Discards, At
<1> QED
  BY <1>1, <1>2, <1>5, QuietKept

LEMMA ReopenKept ==
  ASSUME TypeOK, NEW m \in Procs, Kept(m), Recalls(m), Reopen(m)
  PROVE  Kept(m)'
<1>1. Fades /\ UNCHANGED <<live, quarantine, crashes>>
  BY NothingFades DEF Reopen
<1>2. /\ ~Discards(m) /\ proc[m].pc = "reopen"
      /\ proc[m].op \in {"read", "load", "reload", "delete"}
  BY DEF Reopen, At, Discards, Recalls, OpFits
<1>3. CASE live # 0
  <2>1. live \in Inodes /\ Inspect(m, live, 0)
    BY <1>3 DEF Reopen, TypeOK, LiveName
  <2>2. proc'[m].pc = "inspect" /\ NoScan(proc'[m]) /\ proc'[m].inode = live /\ proc'[m].name = 0
    BY <2>1, InspectDoes
  <2>3. live \in Nat /\ live # 0 /\ live' = live
    BY <1>1, <2>1, Numbers
  <2>4. Careful(m)' /\ ~Discards(m)'
    BY <2>2, <2>3 DEF Careful, Armed, Discards, At, LiveName, NoScan
  <2> QED
    BY <1>1, <1>2, <2>4, QuietKept
<1>4. CASE live = 0 /\ proc[m].best # 0
  <2>1. /\ proc[m].bestInode \in Inodes /\ proc[m].best \in Slots \cup {0}
        /\ Inspect(m, proc[m].bestInode, proc[m].best)
    BY <1>4, ProcIs DEF Reopen, Recalls
  <2>2. /\ proc'[m].pc = "inspect" /\ NoScan(proc'[m]) /\ SameOp(proc'[m], proc[m])
        /\ proc'[m].inode = proc[m].bestInode /\ proc'[m].name = proc[m].best
    BY <2>1, InspectDoes
  <2>3. quarantine'[proc[m].best] \in {0, proc[m].bestInode}
    BY <1>1, <1>2, <1>4 DEF Kept, Careful
  <2>4. Careful(m)' /\ ~Discards(m)'
    BY <1>2, <1>4, <2>2, <2>3 DEF Careful, Armed, Discards, At, LiveName, NoScan, SameOp
  <2> QED
    BY <1>1, <1>2, <2>4, QuietKept
<1>5. CASE live = 0 /\ proc[m].best = 0 /\ proc[m].op = "delete"
  BY <1>1, <1>2, <1>5, FinishDoes, FinishKept DEF Reopen
<1>6. CASE live = 0 /\ proc[m].best = 0 /\ proc[m].op # "delete"
  <2>1. Goto(m, "done") /\ "done" \in Pcs
    BY <1>6 DEF Reopen, Pcs
  <2>2. proc'[m].pc = "done" /\ proc'[m].best = 0
    BY <1>6, <2>1, GotoDoes DEF SameScan
  <2>3. Careful(m)' /\ ~Discards(m)'
    BY <2>2, RestsCareful
  <2> QED
    BY <1>1, <1>2, <2>3, QuietKept
<1> QED
  BY <1>3, <1>4, <1>5, <1>6

\* What was inspected is condemned, under the name it was opened by.
LEMMA CondemnedKept ==
  ASSUME TypeOK, NEW m \in Procs, Kept(m), Fades, UNCHANGED <<live, quarantine, crashes>>,
         At(m, "inspect"), Recalls(m), Doomed(proc[m].inode)',
         Goto(m, IF proc[m].name = LiveName THEN "mkdir" ELSE "unlink")
  PROVE  Kept(m)'
<1>1. proc[m].pc = "inspect" /\ ~Discards(m) /\ proc[m].inode # 0
  BY DEF At, Discards, Recalls
<1>2. PICK pc \in Pcs : Goto(m, pc) /\ pc = (IF proc[m].name = LiveName THEN "mkdir" ELSE "unlink")
  BY DEF Pcs
<1>3. /\ proc'[m].pc = pc /\ proc'[m].op = proc[m].op /\ proc'[m].best = proc[m].best
      /\ proc'[m].inode = proc[m].inode /\ proc'[m].name = proc[m].name
  BY <1>2, GotoDoes DEF SameOp, SameScan, SameWork
<1>4. /\ proc[m].name = LiveName => live # 0 /\ proc[m].inode <= live
      /\ proc[m].name # LiveName => quarantine[proc[m].name] \in {0, proc[m].inode}
      /\ proc[m].op \in {"recover", "invalidate"} => proc[m].best = 0
  BY <1>1 DEF Kept, Careful, Armed, At
<1>5. Careful(m)' /\ ~Discards(m)'
  BY <1>1, <1>2, <1>3, <1>4 DEF Careful, Armed, Discards, At
<1> QED
  BY <1>1, <1>5, QuietKept

LEMMA InspectForReadKept ==
  ASSUME TypeOK, NEW m \in Procs, Kept(m), Recalls(m), InspectForRead(m)
  PROVE  Kept(m)'
<1>1. Fades /\ UNCHANGED <<live, quarantine, crashes, status>>
  BY NothingFades DEF InspectForRead, files
<1>2. ~Discards(m) /\ proc[m].pc = "inspect" /\ proc[m].op \notin {"recover", "invalidate"}
  BY DEF InspectForRead, At, Discards
<1>3. ASSUME proc'[m].pc = "done", proc'[m].op = proc[m].op
      PROVE  Kept(m)'
  <2>1. Careful(m)' /\ ~Discards(m)'
    BY <1>2, <1>3, RestsCareful
  <2> QED
    BY <1>1, <1>2, <2>1, QuietKept
<1>4. CASE Goto(m, "done")
  BY <1>3, <1>4, GotoDoes DEF Pcs, SameOp
<1>5. CASE proc' = [proc EXCEPT ![m].pc = "done", ![m].inode = 0]
  BY <1>3, <1>5, FoundNothingDoes DEF SameOp
<1>6. CASE /\ status[proc[m].inode] # "fresh"
           /\ Goto(m, IF proc[m].name = LiveName THEN "mkdir" ELSE "unlink")
  <2>1. Doomed(proc[m].inode)'
    <3>1. proc'[m].inode = proc[m].inode
      <4>1. PICK pc \in Pcs : Goto(m, pc)
        BY <1>6 DEF Pcs
      <4> QED
        BY <4>1, GotoDoes DEF SameWork
    <3> QED
      BY <1>1, <1>6, <3>1 DEF Doomed
  <2> QED
    BY <1>1, <1>6, <2>1, CondemnedKept DEF InspectForRead
<1> QED
  BY <1>4, <1>5, <1>6 DEF InspectForRead

LEMMA InspectForDeleteKept ==
  ASSUME TypeOK, NEW m \in Procs, Kept(m), Recalls(m), InspectForDelete(m)
  PROVE  Kept(m)'
<1>1. UNCHANGED <<live, quarantine, crashes, status, latest>> /\ removed \subseteq removed'
  BY DEF InspectForDelete, files
<1>2. Fades
  BY <1>1 DEF Fades
<1>3. ~Discards(m) /\ proc[m].pc = "inspect"
  BY DEF InspectForDelete, At, Discards
<1>4. CASE Finish(m)
  BY <1>1, <1>2, <1>3, <1>4, FinishDoes, FinishKept
<1>5. CASE /\ removed' = removed \cup {proc[m].inode}
           /\ Goto(m, IF proc[m].name = LiveName THEN "mkdir" ELSE "unlink")
  <2>1. Doomed(proc[m].inode)'
    <3>1. proc'[m].inode = proc[m].inode
      <4>1. PICK pc \in Pcs : Goto(m, pc)
        BY <1>5 DEF Pcs
      <4> QED
        BY <4>1, GotoDoes DEF SameWork
    <3> QED
      BY <1>5, <3>1 DEF Doomed
  <2> QED
    BY <1>1, <1>2, <1>5, <2>1, CondemnedKept DEF InspectForDelete
<1> QED
  BY <1>4, <1>5 DEF InspectForDelete

LEMMA InspectForCollectKept ==
  ASSUME TypeOK, NEW m \in Procs, Kept(m), Recalls(m), InspectForCollect(m)
  PROVE  Kept(m)'
<1>1. Fades /\ UNCHANGED <<live, quarantine, crashes, status>>
  BY NothingFades DEF InspectForCollect, files
<1>2. ~Discards(m) /\ proc[m].pc = "inspect" /\ proc[m].op = "collect"
  BY DEF InspectForCollect, At, Discards
<1>3. CASE Finish(m)
  BY <1>1, <1>2, <1>3, FinishDoes, FinishKept
<1>4. CASE HeaderStale(proc[m].inode) /\ Goto(m, "mkdir")
  <2>1. proc[m].name = LiveName
    BY <1>2 DEF Kept, Careful, At
  <2>2. proc'[m].inode = proc[m].inode
    BY <1>4, GotoDoes DEF SameWork, Pcs
  <2>3. Doomed(proc[m].inode)'
    BY <1>1, <1>4, <2>2 DEF Doomed, HeaderStale
  <2> QED
    BY <1>1, <1>4, <2>1, <2>3, CondemnedKept DEF InspectForCollect
<1> QED
  BY <1>3, <1>4 DEF InspectForCollect

LEMMA AfterDiscardRests ==
  ASSUME TypeOK, NEW m \in Procs, AfterDiscard(m)
  PROVE  Careful(m)' /\ ~Discards(m)'
<1>1. proc'[m].pc \in {"idle", "open"} /\ proc'[m].op \in {"none", "reload"}
  BY AfterDiscardDoes, IdleIs
<1> QED
  BY <1>1, RestsCareful

LEMMA UnlinkSourceKept ==
  ASSUME TypeOK, NEW m \in Procs, Kept(m), Recalls(m), UnlinkSource(m)
  PROVE  Kept(m)'
<1>1. /\ UNCHANGED <<status, live, crashes, latest, removed>>
      /\ proc[m].pc = "unlink" /\ ~Discards(m) /\ AfterDiscard(m)
  BY DEF UnlinkSource, history, At, Discards
<1>2. /\ proc[m].name \in Slots /\ 0 \notin Slots /\ quarantine'[proc[m].name] = 0
      /\ \A s \in Slots \ {proc[m].name} : quarantine'[s] = quarantine[s]
  BY <1>1, Numbers DEF UnlinkSource, Recalls, TypeOK
<1>3. Careful(m)' /\ ~Discards(m)'
  BY <1>1, AfterDiscardRests
<1>4. OneLeftover(m)'
  BY <1>1, <1>2, <1>3 DEF Kept, OneLeftover, Own, Occupied
<1>5. ASSUME Good, NEW s \in Slots, quarantine[s] = latest
      PROVE  s # proc[m].name
  <2>1. /\ quarantine[proc[m].name] \in {0, proc[m].inode} /\ Doomed(proc[m].inode)
        /\ proc[m].op # "recover"
    BY <1>1, <1>2 DEF Kept, Careful, LiveName, Recalls, OpFits
  <2> QED
    BY <1>5, <2>1 DEF Good, Doomed
<1>6. Newest(m)'
  BY <1>1, <1>2, <1>3, <1>5 DEF Kept, Newest, Good
<1> QED
  BY <1>3, <1>4, <1>6 DEF Kept

LEMMA MakeDirectoryKept ==
  ASSUME TypeOK, NEW m \in Procs, Kept(m), Recalls(m), MakeDirectory(m)
  PROVE  Kept(m)'
<1>1. UNCHANGED <<status, live, quarantine, crashes, latest, removed>>
  BY DEF MakeDirectory, history
<1>2. ~Discards(m) /\ proc[m].pc = "mkdir"
  BY DEF MakeDirectory, At, Discards
<1>3. /\ proc'[m].pc = "rename" /\ proc'[m].op = proc[m].op /\ proc'[m].best = proc[m].best
      /\ proc'[m].inode = proc[m].inode /\ proc'[m].name = proc[m].name
  BY GotoDoes DEF MakeDirectory, Pcs, SameOp, SameScan, SameWork
<1>4. Careful(m)' /\ ~Discards(m)'
  BY <1>1, <1>2, <1>3 DEF Kept, Careful, Armed, Discards, At, Doomed
<1>5. Fades
  BY <1>1 DEF Fades
<1> QED
  BY <1>1, <1>2, <1>4, <1>5, QuietKept

LEMMA QuarantineKept ==
  ASSUME TypeOK, NEW m \in Procs, Kept(m), Recalls(m), Quarantine(m)
  PROVE  Kept(m)'
<1>1. UNCHANGED <<status, crashes, latest, removed>> /\ proc[m].pc = "rename"
  BY QuarantineDoes DEF history
<1>2. ~Discards(m) /\ Fades /\ proc[m].op \notin {"recover", "invalidate"}
  BY <1>1 DEF Discards, Fades, Recalls, OpFits
<1>3. CASE UNCHANGED <<quarantine, live, moves>> /\ AfterDiscard(m)
  BY <1>1, <1>2, <1>3, AfterDiscardRests, QuietKept
<1>4. CASE /\ UNCHANGED <<quarantine, live, moves>> /\ proc[m].attempt # 2
           /\ proc' = [proc EXCEPT ![m].pc = "mkdir", ![m].attempt = @ + 1]
  <2>1. /\ proc'[m].pc = "mkdir" /\ proc'[m].op = proc[m].op /\ proc'[m].best = proc[m].best
        /\ proc'[m].inode = proc[m].inode
    BY <1>4, TriesAgainDoes DEF SameOp, SameScan
  <2>2. Careful(m)' /\ ~Discards(m)'
    BY <1>1, <1>2, <1>4, <2>1 DEF Kept, Careful, Armed, Discards, At, Doomed
  <2> QED
    BY <1>1, <1>2, <1>4, <2>2, QuietKept
<1>5. CASE Renames(m)
  <2>1. /\ live # 0 /\ live' = 0 /\ moves + 1 \in Slots /\ quarantine'[moves + 1] = live
        /\ \A s \in Slots \ {moves + 1} : quarantine'[s] = quarantine[s]
        /\ proc' = [proc EXCEPT ![m].pc = "compare", ![m].name = moves + 1]
    BY <1>5 DEF Renames
  <2>2. /\ proc'[m].pc = "compare" /\ proc'[m].name = moves + 1 /\ proc'[m].op = proc[m].op
        /\ proc'[m].inode = proc[m].inode
    BY <2>1, RenamedDoes DEF SameOp
  <2>3. Careful(m)'
    BY <1>1, <1>2, <2>2 DEF Kept, Careful, Armed, Discards, At, Doomed
  <2>4. Own(m) = {} /\ Own(m)' = {moves + 1}
    BY <1>2, <2>2 DEF Own, Discards
  <2>5. OneLeftover(m)'
    <3>1. Occupied' \subseteq Occupied \cup {moves + 1}
      BY <2>1 DEF Occupied
    <3> QED
      BY <1>1, <2>4, <3>1 DEF Kept, OneLeftover
  <2>6. Newest(m)'
    BY <1>1, <2>1, <2>2 DEF Kept, Newest, Good
  <2> QED
    BY <2>3, <2>5, <2>6 DEF Kept
<1> QED
  BY <1>3, <1>4, <1>5, QuarantineDoes

LEMMA CompareKept ==
  ASSUME TypeOK, NEW m \in Procs, Kept(m), Recalls(m), Compare(m)
  PROVE  Kept(m)'
<1>1. UNCHANGED <<status, live, quarantine, crashes, latest, removed>> /\ proc[m].pc = "compare"
  BY DEF Compare, files, history, At
<1>2. PICK pc \in Pcs : /\ Goto(m, pc)
                        /\ pc = (IF quarantine[proc[m].name] = proc[m].inode THEN "remove" ELSE "restore")
  BY DEF Compare, Pcs
<1>3. /\ proc'[m].pc = pc /\ proc'[m].op = proc[m].op /\ proc'[m].best = proc[m].best
      /\ proc'[m].inode = proc[m].inode /\ proc'[m].name = proc[m].name
  BY <1>2, GotoDoes DEF SameOp, SameScan, SameWork
<1>4. Discards(m) /\ Discards(m)' /\ proc[m].op \notin {"recover", "invalidate"}
  BY <1>1, <1>2, <1>3 DEF Discards, Recalls, OpFits
<1>5. proc[m].inode # 0 /\ Doomed(proc[m].inode)
  BY <1>1, <1>4 DEF Kept, Careful
<1>6. Careful(m)'
  BY <1>1, <1>2, <1>3, <1>4, <1>5 DEF Careful, Armed, At, Doomed
<1>7. OneLeftover(m)'
  BY <1>1, <1>3, <1>4 DEF Kept, OneLeftover, Own, Occupied
<1>8. Newest(m)'
  BY <1>1, <1>3, <1>4 DEF Kept, Newest, Good, At
<1> QED
  BY <1>6, <1>7, <1>8 DEF Kept

LEMMA RestoreKept ==
  ASSUME TypeOK, Published, NEW m \in Procs, Kept(m), Recalls(m), Restore(m)
  PROVE  Kept(m)'
<1>1. /\ UNCHANGED <<status, quarantine, crashes, latest, removed>> /\ proc[m].pc = "restore"
      /\ live' = (IF live = 0 THEN quarantine[proc[m].name] ELSE live)
  BY DEF Restore, history, At
<1>2. /\ proc'[m].pc = "remove" /\ proc'[m].op = proc[m].op /\ proc'[m].best = proc[m].best
      /\ proc'[m].name = proc[m].name
  BY GotoDoes DEF Restore, Pcs, SameOp, SameScan, SameWork
<1>3. Discards(m) <=> Discards(m)'
  BY <1>1, <1>2 DEF Discards
<1>4. Own(m)' = Own(m)
  BY <1>2, <1>3 DEF Own
<1>5. OneLeftover(m)'
  BY <1>1, <1>4 DEF Kept, OneLeftover, Occupied
<1>6. Careful(m)'
  <2>1. quarantine[proc[m].name] # 0 => live' # 0
    BY <1>1
  <2>2. proc[m].op \in {"recover", "invalidate"} => proc[m].best = 0
    BY DEF Kept, Careful
  <2> QED
    BY <1>1, <1>2, <2>1, <2>2 DEF Careful, Armed, At
\* Of the leftovers there is one: what m restores is the newest.
<1>7. ASSUME Good, live = 0, quarantine[proc[m].name] # 0
      PROVE  quarantine[proc[m].name] = latest
  <2>1. PICK s \in Slots : quarantine[s] = latest
    BY <1>7 DEF Kept, Newest, Good
  <2>2. CASE Discards(m)
    BY <1>1, <1>7, <2>2 DEF Kept, Newest, At
  <2>3. CASE ~Discards(m)
    <3>1. proc[m].name \in Slots /\ proc[m].name \in Occupied /\ s \in Occupied /\ Own(m) = {}
      BY <1>1, <1>7, <2>1, <2>3 DEF Recalls, Occupied, Own, Good
    <3>2. PICK l \in Slots : Occupied \subseteq {l}
      BY <3>1 DEF Kept, OneLeftover
    <3> QED
      BY <2>1, <3>1, <3>2
  <2> QED
    BY <2>2, <2>3
<1>8. Newest(m)'
  BY <1>1, <1>2, <1>7 DEF Kept, Newest, Good, At
<1> QED
  BY <1>5, <1>6, <1>8 DEF Kept

LEMMA RemoveKept ==
  ASSUME TypeOK, NEW m \in Procs, Kept(m), Recalls(m), Remove(m)
  PROVE  Kept(m)'
<1>1. UNCHANGED <<status, live, crashes, latest, removed>> /\ proc[m].pc = "remove"
  BY DEF Remove, history, At
<1>2. /\ proc[m].name \in Slots /\ 0 \notin Slots /\ quarantine'[proc[m].name] = 0
      /\ \A s \in Slots \ {proc[m].name} : quarantine'[s] = quarantine[s]
  BY <1>1, Numbers DEF Remove, Recalls, TypeOK
<1>3. PICK pc \in Pcs : Goto(m, pc) /\ pc = (IF proc[m].op = "recover" THEN "scan" ELSE "rmdir")
  BY DEF Remove, Pcs
<1>4. proc'[m].pc = pc /\ proc'[m].op = proc[m].op /\ proc'[m].best = proc[m].best
  BY <1>3, GotoDoes DEF SameOp, SameScan
<1>5. /\ proc[m].op = "recover" => proc[m].best = 0
      /\ proc[m].op # "invalidate"
  BY <1>1 DEF Kept, Careful, Recalls, OpFits
<1>6. Careful(m)' /\ ~Discards(m)'
  BY <1>3, <1>4, <1>5 DEF Careful, Armed, Discards, At
<1>7. OneLeftover(m)'
  <2>1. Occupied' \subseteq Occupied \ {proc[m].name} /\ Own(m)' = {} /\ Own(m) \subseteq {proc[m].name}
    BY <1>2, <1>6 DEF Occupied, Own
  <2> QED
    BY <1>1, <2>1 DEF Kept, OneLeftover
<1>8. ASSUME Good, live = 0, NEW s \in Slots, quarantine[s] = latest
      PROVE  s # proc[m].name
  BY <1>1, <1>8 DEF Kept, Careful, Good, Doomed, At
<1>9. Newest(m)'
  BY <1>1, <1>2, <1>6, <1>8 DEF Kept, Newest, Good
<1> QED
  BY <1>6, <1>7, <1>9 DEF Kept

LEMMA RemoveDirectoryKept ==
  ASSUME TypeOK, NEW m \in Procs, Kept(m), Recalls(m), RemoveDirectory(m)
  PROVE  Kept(m)'
<1>1. /\ UNCHANGED <<status, live, quarantine, crashes, latest, removed>>
      /\ AfterDiscard(m) /\ ~Discards(m)
  BY DEF RemoveDirectory, history, At, Discards
<1>2. Fades
  BY <1>1 DEF Fades
<1> QED
  BY <1>1, <1>2, AfterDiscardRests, QuietKept

LEMMA RecoverEntryKept ==
  ASSUME TypeOK, NEW m \in Procs, Kept(m), Recalls(m), NEW s \in Slots, RecoverEntry(m, s)
  PROVE  Kept(m)'
<1>1. Fades /\ UNCHANGED <<live, quarantine, crashes, status>> /\ removed \subseteq removed'
  BY NothingFades DEF RecoverEntry, files, history
<1>2. ~Discards(m) /\ proc[m].pc = "scan" /\ proc[m].op = "recover"
  BY DEF RecoverEntry, At, Discards
<1>3. PICK pc \in Pcs : pc = (IF HeaderStale(quarantine[s]) THEN "remove" ELSE "restore")
  BY DEF Pcs
<1>4. TakesEntry(m, s, pc)
  BY <1>3 DEF RecoverEntry, TakesEntry
<1>5. proc'[m].pc = pc /\ proc'[m].name = s /\ proc'[m].op = "recover" /\ proc'[m].best = proc[m].best
  BY <1>2, <1>4, TakesEntryDoes DEF SameOp
<1>6. proc[m].best = 0
  BY <1>2 DEF Kept, Careful
<1>7. HeaderStale(quarantine[s]) => Doomed(quarantine[s])'
  BY <1>1 DEF HeaderStale, Doomed
<1>8. Careful(m)' /\ ~Discards(m)'
  BY <1>3, <1>5, <1>6, <1>7 DEF Careful, Armed, Discards, At
<1> QED
  BY <1>1, <1>2, <1>8, QuietKept

LEMMA InvalidateEntryKept ==
  ASSUME TypeOK, NEW m \in Procs, Kept(m), Recalls(m), NEW s \in Slots, InvalidateEntry(m, s)
  PROVE  Kept(m)'
<1>1. Fades /\ UNCHANGED <<live, quarantine, crashes>>
  BY NothingFades DEF InvalidateEntry
<1>2. ~Discards(m) /\ proc[m].pc = "scan" /\ proc[m].op = "invalidate"
  BY DEF InvalidateEntry, At, Discards
<1>3. PICK pc \in Pcs : pc = (IF status[quarantine[s]] = "invalid" THEN "scan" ELSE "truncate")
  BY DEF Pcs
<1>4. TakesEntry(m, s, pc)
  BY <1>3 DEF InvalidateEntry, TakesEntry
<1>5. proc'[m].pc \in {"scan", "truncate"} /\ proc'[m].best = proc[m].best
  BY <1>3, <1>4, TakesEntryDoes
<1>6. proc[m].best = 0
  BY <1>2 DEF Kept, Careful
<1>7. Careful(m)' /\ ~Discards(m)'
  BY <1>5, <1>6 DEF Careful, Armed, Discards, At
<1> QED
  BY <1>1, <1>2, <1>7, QuietKept

LEMMA TruncateEntryKept ==
  ASSUME TypeOK, NEW m \in Procs, Kept(m), Recalls(m), TruncateEntry(m)
  PROVE  Kept(m)'
<1>1. /\ UNCHANGED <<live, quarantine, crashes, latest>> /\ proc[m].pc = "truncate" /\ ~Discards(m)
      /\ Goto(m, "scan") /\ "scan" \in Pcs
  BY DEF TruncateEntry, At, Pcs, Discards
<1>2. Fades
  BY DEF TruncateEntry, Fades
<1>3. proc[m].op = "invalidate" /\ proc[m].best = 0
  BY <1>1 DEF Kept, Careful, Recalls, OpFits
<1>4. proc'[m].pc = "scan" /\ proc'[m].best = 0
  BY <1>1, <1>3, GotoDoes DEF SameScan
<1>5. Careful(m)' /\ ~Discards(m)'
  BY <1>4 DEF Careful, Armed, Discards, At
<1> QED
  BY <1>1, <1>2, <1>5, QuietKept

LEMMA OpenLastKept ==
  ASSUME TypeOK, NEW m \in Procs, Kept(m), Recalls(m), OpenLast(m)
  PROVE  Kept(m)'
<1>1. /\ UNCHANGED <<live, quarantine, crashes, latest, status, removed>>
      /\ proc[m].pc = "last" /\ ~Discards(m)
  BY DEF OpenLast, At, files, Discards
<1>2. Fades
  BY <1>1 DEF Fades
<1>3. CASE live = 0 \/ status[live] = "invalid"
  BY <1>1, <1>2, <1>3, FinishDoes, FinishKept DEF OpenLast, Invalidated
<1>4. CASE ~(live = 0 \/ status[live] = "invalid")
  <2>1. live \in Inodes /\ proc' = [proc EXCEPT ![m].pc = "truncateLast", ![m].inode = live]
    BY <1>4 DEF OpenLast, TypeOK
  <2>2. proc'[m].pc = "truncateLast" /\ proc'[m].op = proc[m].op /\ proc'[m].best = proc[m].best
    BY <2>1, OpenLastDoes DEF SameOp, SameScan
  <2>3. proc[m].op \in {"recover", "invalidate"} => proc[m].best = 0
    BY DEF Kept, Careful
  <2>4. Careful(m)' /\ ~Discards(m)'
    BY <2>2, <2>3, RestsCareful
  <2> QED
    BY <1>1, <1>2, <2>4, QuietKept
<1> QED
  BY <1>3, <1>4

LEMMA TruncateLastKept ==
  ASSUME TypeOK, NEW m \in Procs, Kept(m), Recalls(m), TruncateLast(m)
  PROVE  Kept(m)'
<1>1. /\ UNCHANGED <<live, quarantine, crashes, latest>> /\ ~Discards(m) /\ Finish(m)
  BY DEF TruncateLast, Invalidated, At, Discards
<1>2. Fades
  BY DEF TruncateLast, Fades
<1> QED
  BY <1>1, <1>2, FinishDoes, FinishKept

LEMMA ReturnKept ==
  ASSUME TypeOK, NEW m \in Procs, Kept(m), Return(m)
  PROVE  Kept(m)'
<1>1. Fades /\ UNCHANGED <<live, quarantine, crashes>> /\ ~Discards(m) /\ Finish(m)
  BY NothingFades DEF Return, At, Discards
<1> QED
  BY <1>1, FinishDoes, FinishKept

LEMMA StepKept ==
  ASSUME TypeOK, Published, NEW m \in Procs, Kept(m), Recalls(m), Step(m)
  PROVE  Kept(m)'
<1>1. CASE \E s \in Slots : ConsiderEntry(m, s) \/ RecoverEntry(m, s) \/ InvalidateEntry(m, s)
  BY <1>1, ConsiderEntryKept, RecoverEntryKept, InvalidateEntryKept
<1>2. CASE OpenLive(m) \/ OpenDirectory(m) \/ ScanEnds(m) \/ Reopen(m)
  BY <1>2, OpenLiveKept, OpenDirectoryKept, ScanEndsKept, ReopenKept
<1>3. CASE InspectForRead(m) \/ InspectForDelete(m) \/ InspectForCollect(m) \/ UnlinkSource(m)
  BY <1>3, InspectForReadKept, InspectForDeleteKept, InspectForCollectKept, UnlinkSourceKept
<1>4. CASE MakeDirectory(m) \/ Quarantine(m) \/ Compare(m) \/ Restore(m) \/ Remove(m) \/ RemoveDirectory(m)
  BY <1>4, MakeDirectoryKept, QuarantineKept, CompareKept, RestoreKept, RemoveKept, RemoveDirectoryKept
<1>5. CASE TruncateEntry(m) \/ OpenLast(m) \/ TruncateLast(m) \/ Return(m)
  BY <1>5, TruncateEntryKept, OpenLastKept, TruncateLastKept, ReturnKept
<1> QED
  BY <1>1, <1>2, <1>3, <1>4, <1>5 DEF Step

\* With one crash in all, what it leaves is the only leftover.
LEMMA CrashKept ==
  ASSUME TypeOK, NEW m \in Procs, Kept(m), Recalls(m), team.crashes <= 1, Crash(m)
  PROVE  Kept(m)'
<1>1. UNCHANGED <<status, live, quarantine, latest, removed>> /\ proc'[m] = Idle
  BY FinishDoes DEF Crash, files, history
<1>2. crashes = 0 /\ crashes' = 1
  BY TeamIs DEF Crash, TypeOK
<1>3. proc'[m].pc = "idle" /\ proc'[m].op = "none"
  BY <1>1, IdleIs
<1>4. Careful(m)' /\ ~Discards(m)'
  BY <1>3, RestsCareful
<1>5. Occupied \subseteq Own(m) /\ Own(m)' = {} /\ Occupied' = Occupied
  BY <1>1, <1>2, <1>4 DEF Kept, OneLeftover, Own, Occupied
<1>6. \E l \in Slots : Own(m) \subseteq {l}
  BY Numbers DEF Own, Discards, Recalls, Slots
<1>7. OneLeftover(m)'
  BY <1>2, <1>5, <1>6 DEF OneLeftover
<1>8. Newest(m)'
  BY <1>1, <1>4 DEF Kept, Newest, Good
<1> QED
  BY <1>4, <1>7, <1>8 DEF Kept

LEMMA WriteKept ==
  ASSUME TypeOK, Published, NEW m \in Procs, Kept(m), Recalls(m),
         NEW p \in Procs, NEW b \in Conversations, Write(p, b)
  PROVE  Kept(m)'
<1>1. /\ latest + 1 \in Inodes /\ latest' = latest + 1 /\ live' = latest + 1
      /\ status' = [status EXCEPT ![latest + 1] = "fresh"]
      /\ UNCHANGED <<quarantine, proc, crashes, removed>>
  BY TeamIs, Numbers DEF Write, TypeOK, Inodes
<1>2. /\ latest \in Nat /\ proc[m].inode \in Nat /\ proc[m].inode <= latest
      /\ \A s \in Slots : quarantine[s] \in Nat /\ quarantine[s] <= latest
  <2>1. \A i \in Inodes \cup {0} : i \in Nat
    BY Numbers
  <2>2. /\ latest \in Inodes \cup {0} /\ \A s \in Slots : quarantine[s] \in Inodes \cup {0}
        /\ proc[m].inode \in Inodes \cup {0}
    BY ProcIs DEF TypeOK
  <2> QED
    BY <2>1, <2>2 DEF Published, Recalls
<1>3. live' # 0 /\ proc[m].inode <= live' /\ live' = latest'
  BY <1>1, <1>2
<1>4. Doomed(proc[m].inode) => Doomed(proc[m].inode)'
  BY <1>1, <1>2 DEF Doomed, TypeOK
<1>5. Careful(m)'
  BY <1>1, <1>3, <1>4 DEF Kept, Careful, Armed, At
<1>6. OneLeftover(m)'
  BY <1>1 DEF Kept, OneLeftover, Own, Occupied, Discards
<1>7. Newest(m)'
  BY <1>3 DEF Newest
<1> QED
  BY <1>5, <1>6, <1>7 DEF Kept

LEMMA ExpireKept ==
  ASSUME TypeOK, NEW m \in Procs, Kept(m), Recalls(m), NEW i \in Inodes, Expire(i)
  PROVE  Kept(m)'
<1>1. /\ status' = [status EXCEPT ![i] = "expired"]
      /\ UNCHANGED <<live, quarantine, proc, crashes, latest, removed>>
  BY DEF Expire, history
<1>2. Fades
  BY <1>1 DEF Fades, TypeOK
<1>3. (Good' => Good) /\ \A j \in Inodes : Doomed(j) => Doomed(j)'
  BY <1>2, FadesDoes
<1>4. /\ proc[m].inode # 0 => proc[m].inode \in Inodes
      /\ At(m, "remove") => quarantine[proc[m].name] \in Inodes \cup {0}
  BY ProcIs DEF Recalls, At, TypeOK
<1>5. Careful(m)'
  BY <1>1, <1>3, <1>4 DEF Kept, Careful, Armed, At
<1>6. OneLeftover(m)'
  BY <1>1 DEF Kept, OneLeftover, Own, Occupied, Discards
<1>7. Newest(m)'
  BY <1>1, <1>3 DEF Kept, Newest, Discards, At
<1> QED
  BY <1>5, <1>6, <1>7 DEF Kept

\* Whoever only reads leaves the cache as it is.
LEMMA OthersLook ==
  ASSUME TypeOK, NEW q \in Procs, Recalls(q), proc[q].op \in {"none", "read"}, Step(q)
  PROVE  UNCHANGED <<team, files, crashes, history>>
<1>1. proc[q].pc \in {"idle", "open", "listing", "scan", "reopen", "inspect", "done"} /\ proc[q].op = "read"
  <2>1. proc[q].pc \in {"idle", "open", "listing", "scan", "reopen", "inspect", "done"}
    BY ProcIs DEF Recalls, OpFits, Pcs
  <2>2. proc[q].pc # "idle"
    BY DEF Step, At, OpenLive, OpenDirectory, ConsiderEntry, RecoverEntry, InvalidateEntry, ScanEnds,
           Reopen, InspectForRead, InspectForDelete, InspectForCollect, UnlinkSource, MakeDirectory,
           Quarantine, Compare, Restore, Remove, RemoveDirectory, TruncateEntry, OpenLast, TruncateLast,
           Return
  <2> QED
    BY <2>1, <2>2 DEF Recalls, OpFits
<1>2. CASE \E s \in Slots : ConsiderEntry(q, s) \/ RecoverEntry(q, s) \/ InvalidateEntry(q, s)
  BY <1>2 DEF ConsiderEntry, RecoverEntry, InvalidateEntry
<1>3. CASE OpenLive(q) \/ OpenDirectory(q) \/ ScanEnds(q) \/ Reopen(q) \/ InspectForRead(q) \/ Return(q)
  BY <1>3 DEF OpenLive, OpenDirectory, ScanEnds, Reopen, InspectForRead, Return
<1>4. ~(InspectForDelete(q) \/ InspectForCollect(q) \/ UnlinkSource(q))
  BY <1>1 DEF At, InspectForDelete, InspectForCollect, UnlinkSource
<1>5. ~(MakeDirectory(q) \/ Quarantine(q) \/ Compare(q) \/ Restore(q) \/ Remove(q) \/ RemoveDirectory(q))
  BY <1>1 DEF At, MakeDirectory, Quarantine, Compare, Restore, Remove, RemoveDirectory
<1>6. ~(TruncateEntry(q) \/ OpenLast(q) \/ TruncateLast(q))
  BY <1>1 DEF At, TruncateEntry, OpenLast, TruncateLast
<1> QED
  BY <1>2, <1>3, <1>4, <1>5, <1>6 DEF Step

LEMMA OthersKept ==
  ASSUME TypeOK, NEW m \in Procs, Kept(m), UNCHANGED <<files, history>>, proc'[m] = proc[m],
         crashes' = crashes \/ crashes' = crashes + 1
  PROVE  Kept(m)'
<1>1. UNCHANGED <<status, live, quarantine, latest, removed>> /\ crashes \in Nat
  BY TeamIs DEF files, history, TypeOK
<1>2. OneLeftover(m)'
  <2>1. Own(m)' = Own(m) /\ Occupied' = Occupied
    BY <1>1 DEF Own, Discards, Occupied
  <2>2. \E l \in Slots : l = l
    BY Numbers DEF Slots
  <2>3. crashes' = 0 => crashes = 0
    BY <1>1
  <2> QED
    BY <1>1, <2>1, <2>2, <2>3 DEF Kept, OneLeftover
<1>3. Careful(m)'
  BY <1>1 DEF Kept, Careful, Armed, At, Doomed
<1>4. Newest(m)'
  BY <1>1 DEF Kept, Newest, Good, Discards, At
<1> QED
  BY <1>2, <1>3, <1>4 DEF Kept

LEMMA KeptInit ==
  ASSUME NEW m \in Procs, Init
  PROVE  Kept(m)
<1>1. /\ \A s \in Slots : quarantine[s] = 0
      /\ proc[m].pc = "idle" /\ proc[m].op = "none" /\ crashes = 0 /\ live = latest
  BY IdleIs DEF Init
<1>2. OneLeftover(m)
  BY <1>1 DEF OneLeftover, Occupied
<1>3. Careful(m)
  BY <1>1 DEF Careful, Armed, At
<1>4. Newest(m)
  BY <1>1 DEF Newest, Discards
<1> QED
  BY <1>2, <1>3, <1>4 DEF Kept

LEMMA KeptNext ==
  ASSUME NEW m \in Procs, Basis(m), Kept(m), team.crashes <= 1, [Next]_vars
  PROVE  Kept(m)'
<1>1. /\ TypeOK /\ Published /\ \A p \in Procs : Recalls(p)
      /\ \A p \in Procs \ {m} : proc[p].op \in {"none", "read"}
  BY DEF Basis, OthersRead
<1>2. ASSUME NEW p \in Procs, NEW op \in Ops, NEW b \in Conversations \cup {0}, Start(p, op, b)
      PROVE  Kept(m)'
  <2>1. CASE p = m
    BY <1>1, <1>2, <2>1, StartKept
  <2>2. CASE p # m
    BY <1>1, <1>2, <2>2, StartDoes, OthersKept DEF Start, Puts
  <2> QED
    BY <2>1, <2>2
<1>3. ASSUME NEW p \in Procs, Step(p)
      PROVE  Kept(m)'
  <2>1. CASE p = m
    BY <1>1, <1>3, <2>1, StepKept
  <2>2. CASE p # m
    BY <1>1, <1>3, <2>2, StepKeeps, OthersLook, OthersKept DEF Keeps, Puts
  <2> QED
    BY <2>1, <2>2
<1>4. ASSUME NEW p \in Procs, Crash(p)
      PROVE  Kept(m)'
  <2>1. CASE p = m
    BY <1>1, <1>4, <2>1, CrashKept
  <2>2. CASE p # m
    BY <1>1, <1>4, <2>2, CrashKeeps, OthersKept DEF Keeps, Puts, Crash
  <2> QED
    BY <2>1, <2>2
<1>5. CASE \E p \in Procs, b \in Conversations : Write(p, b)
  BY <1>1, <1>5, WriteKept
<1>6. CASE \E i \in Inodes : Expire(i)
  BY <1>1, <1>6, ExpireKept
<1>7. CASE UNCHANGED vars
  BY <1>1, <1>7, OthersKept DEF vars
<1> QED
  BY <1>2, <1>3, <1>4, <1>5, <1>6, <1>7 DEF Next

-----------------------------------------------------------------------------
(* Every step lets a reader find the newest snapshot.                       *)

\* What is published comes last, and no older inode becomes good again.
Ages ==
    /\ latest <= latest' /\ removed \subseteq removed'
    /\ \A i \in Inodes : i <= latest /\ status'[i] = "fresh" => status[i] = "fresh"

LEMMA InodesAreNumbers ==
  ASSUME TypeOK
  PROVE  /\ latest \in Nat /\ live \in Nat /\ \A s \in Slots : quarantine[s] \in Nat
         /\ \A p \in Procs : proc[p].inode \in Nat /\ proc[p].bestInode \in Nat /\ proc[p].floor \in Nat
<1>1. \A i \in Inodes \cup {0} : i \in Nat
  BY Numbers
<1>2. /\ latest \in Inodes \cup {0} /\ live \in Inodes \cup {0}
      /\ \A s \in Slots : quarantine[s] \in Inodes \cup {0}
  BY DEF TypeOK
<1>3. \A p \in Procs : /\ proc[p].inode \in Inodes \cup {0} /\ proc[p].bestInode \in Inodes \cup {0}
                       /\ proc[p].floor \in Inodes \cup {0}
  BY ProcIs
<1> QED
  BY <1>1, <1>2, <1>3

LEMMA IntactIs ==
  ASSUME TypeOK, NEW p \in Procs, Recalls(p), Intact(p)
  PROVE  /\ Good /\ proc[p].floor \in Nat /\ proc[p].floor # 0 /\ proc[p].floor <= latest
         /\ \A i \in Nat : i >= proc[p].floor /\ i <= latest => ~Doomed(i)
<1>1. latest \in Nat /\ proc[p].floor \in Nat /\ proc[p].floor # 0 /\ proc[p].floor <= latest
  BY InodesAreNumbers DEF Intact, Recalls
<1>2. \A i \in Nat : i >= proc[p].floor /\ i <= latest => i \in proc[p].floor..latest
  BY <1>1
<1>3. \A i \in Nat : i >= proc[p].floor /\ i <= latest => ~Doomed(i)
  BY <1>2 DEF Intact, Doomed
<1>4. ~Doomed(latest) /\ latest # 0
  BY <1>1, <1>3
<1> QED
  BY <1>1, <1>3, <1>4 DEF Good, Doomed

LEMMA WasIntact ==
  ASSUME TypeOK, NEW p \in Procs, Recalls(p), Ages, latest' \in Nat, Intact(p)',
         proc[p].op \in {"read", "load", "reload"}, proc'[p].floor = proc[p].floor
  PROVE  Intact(p)
<1>1. latest \in Nat /\ proc[p].floor \in Nat
  BY InodesAreNumbers
<1>2. proc[p].floor..latest \subseteq Inodes
  <2>1. latest = 0 \/ latest <= MaxInodes
    BY DEF TypeOK, Inodes
  <2>2. proc[p].floor # 0
    BY DEF Intact
  <2> QED
    BY <1>1, <2>1, <2>2, Numbers DEF Inodes
<1>3. \A i \in proc[p].floor..latest : i \in proc[p].floor..latest' /\ i <= latest
  BY <1>1 DEF Ages
<1>4. \A i \in proc[p].floor..latest' : status'[i] = "fresh" /\ i \notin removed'
  BY DEF Intact
<1>5. \A i \in proc[p].floor..latest : status[i] = "fresh" /\ i \notin removed
  BY <1>2, <1>3, <1>4 DEF Ages
<1> QED
  BY <1>5 DEF Intact

LEMMA UnchangedAges ==
  ASSUME TypeOK, UNCHANGED <<files, history>>
  PROVE  Ages
<1> QED
  BY InodesAreNumbers DEF Ages, files, history

LEMMA FadesAges ==
  ASSUME TypeOK, Fades
  PROVE  Ages
<1> QED
  BY InodesAreNumbers DEF Ages, Fades

LEMMA NotReadingFinds ==
  ASSUME NEW m \in Procs, NEW p \in Procs,
         \/ proc'[p].pc \notin {"inspect", "done", "listing", "scan", "reopen"}
         \/ proc'[p].op \notin {"read", "load", "reload"}
  PROVE  Finds(m, p)'
<1> QED
  BY DEF Finds, Intact, At

\* Nobody gets armed while p goes on looking.
LEMMA StaysUndisturbed ==
  ASSUME NEW m \in Procs, NEW p \in Procs, Puts(p), proc'[p].floor = proc[p].floor,
         proc'[p].pc \in {"listing", "scan", "reopen"},
         Undisturbed(m, p) \/ ~Armed(m)
  PROVE  Undisturbed(m, p)'
<1>1. CASE m = p
  BY <1>1 DEF Undisturbed, Armed, At
<1>2. CASE m # p
  BY <1>2 DEF Undisturbed, Armed, At, Puts
<1> QED
  BY <1>1, <1>2

LEMMA OpenLiveFinds ==
  ASSUME TypeOK, NEW m \in Procs, NEW p \in Procs, Recalls(p), Kept(m), OpenLive(p)
  PROVE  Finds(m, p)'
<1>1. UNCHANGED <<files, history>> /\ Ages
  BY UnchangedAges DEF OpenLive
<1>2. live' = live /\ latest' = latest /\ latest' \in Nat
  BY <1>1, InodesAreNumbers DEF files, history
<1>3. CASE live # 0
  <2>1. live \in Inodes /\ Inspect(p, live, 0)
    BY <1>3 DEF OpenLive, TypeOK, LiveName
  <2>2. proc'[p].pc = "inspect" /\ SameOp(proc'[p], proc[p]) /\ proc'[p].inode = live
    BY <2>1, InspectDoes
  <2>3. ASSUME Intact(p)'
        PROVE  proc'[p].inode >= proc'[p].floor
    <3>1. Intact(p)
      BY <1>1, <1>2, <2>2, <2>3, WasIntact DEF Intact, SameOp
    <3>2. Good /\ proc[p].floor \in Nat /\ proc[p].floor <= latest
      BY <3>1, IntactIs
    <3>3. live = latest
      BY <1>3, <3>2 DEF Kept, Newest
    <3> QED
      BY <2>2, <3>2, <3>3 DEF SameOp
  <2> QED
    BY <2>2, <2>3 DEF Finds, At
<1>4. CASE live = 0 /\ proc[p].op = "collect"
  BY <1>4, FinishDoes, IdleIs, NotReadingFinds DEF OpenLive
<1>5. CASE live = 0 /\ proc[p].op # "collect"
  <2>1. Goto(p, "listing") /\ "listing" \in Pcs
    BY <1>5 DEF OpenLive, Pcs
  <2>2. proc'[p].pc = "listing" /\ SameOp(proc'[p], proc[p]) /\ Puts(p)
    BY <2>1, GotoDoes
  <2>3. ~Armed(m)
    BY <1>5 DEF Kept, Careful
  <2>4. Undisturbed(m, p)'
    BY <2>2, <2>3, StaysUndisturbed DEF SameOp
  <2> QED
    BY <2>2, <2>4 DEF Finds, At
<1> QED
  BY <1>3, <1>4, <1>5

LEMMA OpenDirectoryFinds ==
  ASSUME TypeOK, NEW m \in Procs, NEW p \in Procs, Recalls(p), Finds(m, p), OpenDirectory(p)
  PROVE  Finds(m, p)'
<1>1. UNCHANGED <<files, history>> /\ Ages
  BY UnchangedAges DEF OpenDirectory
<1>2. /\ live' = live /\ latest' = latest /\ latest' \in Nat /\ quarantine' = quarantine
      /\ proc[p].pc = "listing"
  BY <1>1, InodesAreNumbers DEF files, history, OpenDirectory, At
<1>3. /\ Puts(p) /\ proc'[p].pc = "scan" /\ SameOp(proc'[p], proc[p])
      /\ proc'[p].must = Occupied /\ proc'[p].seen = {}
  BY <1>2, OpenDirectoryDoes DEF Recalls
<1>4. ASSUME Intact(p)'
      PROVE  Undisturbed(m, p)' /\ Sees(p)'
  <2>1. Intact(p)
    BY <1>1, <1>2, <1>3, <1>4, WasIntact DEF Intact, SameOp
  <2>2. Undisturbed(m, p)'
    BY <1>2, <1>3, <2>1, StaysUndisturbed DEF Finds, SameOp
  <2>3. latest # 0
    BY <2>1, IntactIs DEF Good
  <2>4. Sees(p)'
    BY <1>2, <1>3, <2>3 DEF Sees, Occupied
  <2> QED
    BY <2>2, <2>4
<1> QED
  BY <1>3, <1>4 DEF Finds, At

LEMMA ConsiderEntryFinds ==
  ASSUME TypeOK, NEW m \in Procs, NEW p \in Procs, Recalls(p), Finds(m, p),
         NEW s \in Slots, ConsiderEntry(p, s)
  PROVE  Finds(m, p)'
<1>1. UNCHANGED <<files, history>> /\ Ages
  BY UnchangedAges DEF ConsiderEntry
<1>2. /\ live' = live /\ latest' = latest /\ latest' \in Nat /\ quarantine' = quarantine
      /\ proc[p].pc = "scan" /\ quarantine[s] \in Inodes
  BY <1>1, InodesAreNumbers DEF files, history, ConsiderEntry, At, TypeOK, Occupied
<1>3. /\ Puts(p) /\ proc'[p].pc = "scan" /\ SameOp(proc'[p], proc[p])
      /\ proc'[p].must = proc[p].must /\ proc'[p].seen = proc[p].seen \cup {s}
  BY ConsiderEntryDoes
<1>4. /\ proc[p].newest \in Nat /\ Age(quarantine[s]) \in Nat
      /\ proc'[p].newest >= proc[p].newest /\ proc'[p].newest >= Age(quarantine[s])
  <2>1. proc[p].newest \in Nat /\ Age(quarantine[s]) \in Nat
    <3>1. Age(quarantine[s]) \in 0..quarantine[s]
      BY <1>2, AgeIs
    <3> QED
      BY <3>1, ProcIs, InodesAreNumbers
  <2>2. proc[p].best = 0 => proc[p].newest = 0
    BY DEF Recalls
  <2>3. IF proc[p].best = 0 \/ Age(quarantine[s]) > proc[p].newest
        THEN proc'[p].newest = Age(quarantine[s])
        ELSE proc'[p].newest = proc[p].newest
    BY ConsiderEntryDoes
  <2> QED
    BY <2>1, <2>2, <2>3
<1>5. ASSUME Intact(p)'
      PROVE  Undisturbed(m, p)' /\ Sees(p)'
  <2>1. Intact(p)
    BY <1>1, <1>2, <1>3, <1>5, WasIntact DEF Intact, SameOp
  <2>2. Undisturbed(m, p) /\ Sees(p)
    BY <1>2, <2>1 DEF Finds, At
  <2>3. Undisturbed(m, p)'
    BY <1>3, <2>2, StaysUndisturbed DEF SameOp
  <2>4. quarantine[s] = latest => Age(quarantine[s]) = latest
    BY <2>1, IntactIs DEF Good, Age
  <2>5. ASSUME live' = 0, NEW t \in Slots, quarantine'[t] = latest'
        PROVE  /\ t \in proc'[p].must \cup proc'[p].seen
               /\ t \in proc'[p].seen => proc'[p].newest >= latest'
    <3>1. /\ t \in proc[p].must \cup proc[p].seen
          /\ t \in proc[p].seen => proc[p].newest >= latest
      BY <1>2, <2>2, <2>5 DEF Sees
    <3>2. CASE t = s
      <4>1. proc'[p].newest >= Age(quarantine[s]) /\ Age(quarantine[s]) = latest'
        BY <1>2, <1>4, <2>4, <2>5, <3>2
      <4> QED
        BY <1>3, <3>2, <4>1
    <3>3. CASE t # s
      <4>1. proc[p].newest >= latest => proc'[p].newest >= latest'
        <5>1. proc'[p].newest \in Nat
          BY <1>4, ConsiderEntryDoes
        <5> QED
          BY <1>2, <1>4, <5>1
      <4> QED
        BY <1>3, <3>1, <3>3, <4>1
    <3> QED
      BY <3>2, <3>3
  <2> QED
    BY <2>3, <2>5 DEF Sees
<1> QED
  BY <1>3, <1>5 DEF Finds, At

LEMMA ScanEndsFinds ==
  ASSUME TypeOK, NEW m \in Procs, NEW p \in Procs, Recalls(p), Kept(m), Finds(m, p), ScanEnds(p)
  PROVE  Finds(m, p)'
<1>1. UNCHANGED <<files, history>> /\ Ages
  BY UnchangedAges DEF ScanEnds
<1>2. /\ live' = live /\ latest' = latest /\ latest' \in Nat /\ quarantine' = quarantine
      /\ proc[p].pc = "scan"
  BY <1>1, InodesAreNumbers DEF files, history, ScanEnds, At
<1>3. /\ Puts(p) /\ SameOp(proc'[p], proc[p]) /\ proc'[p].newest = proc[p].newest
      /\ proc'[p].pc \in {"reopen", "rmdir", "last"}
  BY ScanEndsDoes
<1>4. ASSUME proc'[p].pc = "reopen"
      PROVE  Finds(m, p)'
  <2>1. ASSUME Intact(p)'
        PROVE  Undisturbed(m, p)' /\ (live' = 0 => proc'[p].newest >= latest')
    <3>1. Intact(p)
      BY <1>1, <1>2, <1>3, <2>1, WasIntact DEF Intact, SameOp
    <3>2. Undisturbed(m, p) /\ Sees(p)
      BY <1>2, <3>1 DEF Finds, At
    <3>3. Undisturbed(m, p)'
      BY <1>3, <1>4, <3>2, StaysUndisturbed DEF SameOp
    <3>4. ASSUME live = 0
          PROVE  proc[p].newest >= latest
      <4>1. Good
        BY <3>1, IntactIs
      <4>2. PICK s \in Slots : quarantine[s] = latest
        BY <3>4, <4>1 DEF Kept, Newest, Good
      <4>3. s \in Occupied /\ (proc[p].must \ proc[p].seen) \cap Occupied = {}
        BY <4>1, <4>2 DEF Occupied, Good, ScanEnds
      <4> QED
        BY <3>2, <3>4, <4>2, <4>3 DEF Sees
    <3> QED
      BY <1>2, <1>3, <3>3, <3>4
  <2> QED
    BY <1>4, <2>1 DEF Finds, At
<1> QED
  BY <1>3, <1>4, NotReadingFinds

LEMMA ReopenFinds ==
  ASSUME TypeOK, NEW m \in Procs, NEW p \in Procs, Recalls(p), Kept(m), Finds(m, p), Reopen(p)
  PROVE  Finds(m, p)'
<1>1. UNCHANGED <<files, history>> /\ Ages
  BY UnchangedAges DEF Reopen
<1>2. live' = live /\ latest' = latest /\ latest' \in Nat /\ proc[p].pc = "reopen"
  BY <1>1, InodesAreNumbers DEF files, history, Reopen, At
<1>3. ASSUME Intact(p)
      PROVE  /\ live # 0 => live = latest
             /\ live = 0 => /\ proc[p].best # 0 /\ proc[p].bestInode \in Nat
                            /\ proc[p].bestInode >= proc[p].floor
  <2>1. Good /\ proc[p].floor \in Nat /\ proc[p].floor # 0 /\ proc[p].floor <= latest
    BY <1>3, IntactIs
  <2>2. live # 0 => live = latest
    BY <2>1 DEF Kept, Newest
  <2>3. proc[p].newest \in Nat /\ latest \in Nat /\ proc[p].bestInode \in Nat
    BY ProcIs, InodesAreNumbers
  <2>4. live = 0 => proc[p].newest >= latest
    BY <1>2, <1>3 DEF Finds, At
  <2>5. live = 0 => proc[p].best # 0
    BY <2>1, <2>3, <2>4 DEF Recalls
  <2>6. live = 0 => proc[p].bestInode >= proc[p].floor
    BY <2>1, <2>3, <2>4, <2>5 DEF Recalls
  <2> QED
    BY <2>2, <2>3, <2>5, <2>6
<1>4. ASSUME NEW i \in Inodes, NEW name \in Slots \cup {0}, Inspect(p, i, name),
             Intact(p) => i >= proc[p].floor
      PROVE  Finds(m, p)'
  <2>1. proc'[p].pc = "inspect" /\ SameOp(proc'[p], proc[p]) /\ proc'[p].inode = i
    BY <1>4, InspectDoes
  <2>2. Intact(p)' => Intact(p)
    BY <1>1, <1>2, <2>1, WasIntact DEF Intact, SameOp
  <2> QED
    BY <1>4, <2>1, <2>2 DEF Finds, At, SameOp
<1>5. CASE live # 0
  <2>1. live \in Inodes /\ 0 \in Slots \cup {0} /\ Inspect(p, live, 0)
    BY <1>5 DEF Reopen, TypeOK, LiveName
  <2>2. Intact(p) => live >= proc[p].floor
    BY <1>3, <1>5, IntactIs, InodesAreNumbers
  <2> QED
    BY <1>4, <2>1, <2>2
<1>6. CASE live = 0 /\ proc[p].best # 0
  <2>1. /\ proc[p].bestInode \in Inodes /\ proc[p].best \in Slots \cup {0}
        /\ Inspect(p, proc[p].bestInode, proc[p].best)
    BY <1>6, ProcIs DEF Reopen, Recalls
  <2>2. Intact(p) => proc[p].bestInode >= proc[p].floor
    BY <1>3, <1>6
  <2> QED
    BY <1>4, <2>1, <2>2
<1>7. CASE live = 0 /\ proc[p].best = 0 /\ proc[p].op = "delete"
  BY <1>7, FinishDoes, IdleIs, NotReadingFinds DEF Reopen
<1>8. CASE live = 0 /\ proc[p].best = 0 /\ proc[p].op # "delete"
  <2>1. Goto(p, "done") /\ "done" \in Pcs
    BY <1>8 DEF Reopen, Pcs
  <2>2. SameOp(proc'[p], proc[p])
    BY <2>1, GotoDoes
  <2>3. Intact(p)' => Intact(p)
    BY <1>1, <1>2, <2>2, WasIntact DEF Intact, SameOp
  <2>4. ~Intact(p)'
    BY <1>3, <1>8, <2>3
  <2> QED
    BY <2>4 DEF Finds
<1> QED
  BY <1>5, <1>6, <1>7, <1>8

LEMMA InspectForReadFinds ==
  ASSUME TypeOK, NEW m \in Procs, NEW p \in Procs, Recalls(p), Finds(m, p), InspectForRead(p)
  PROVE  Finds(m, p)'
<1>1. UNCHANGED <<files, history>> /\ Ages
  BY UnchangedAges DEF InspectForRead
<1>2. latest' \in Nat /\ proc[p].pc = "inspect" /\ proc[p].op \in {"read", "load", "reload"}
  BY <1>1, InodesAreNumbers DEF files, history, InspectForRead, At
<1>3. ASSUME Intact(p)
      PROVE  proc[p].inode >= proc[p].floor /\ status[proc[p].inode] = "fresh"
  <2>1. proc[p].inode >= proc[p].floor
    BY <1>2, <1>3 DEF Finds
  <2>2. proc[p].inode \in Nat /\ proc[p].inode <= latest
    BY InodesAreNumbers DEF Recalls
  <2> QED
    BY <1>3, <2>1, <2>2, IntactIs DEF Doomed
<1>4. ASSUME Intact(p)', SameOp(proc'[p], proc[p])
      PROVE  Intact(p)
  BY <1>1, <1>2, <1>4, WasIntact DEF SameOp
<1>5. CASE Goto(p, "done")
  <2>1. /\ proc'[p].pc = "done" /\ SameOp(proc'[p], proc[p]) /\ proc'[p].inode = proc[p].inode
    BY <1>5, GotoDoes DEF Pcs, SameWork
  <2> QED
    BY <1>3, <1>4, <2>1 DEF Finds, At, SameOp
<1>6. CASE status[proc[p].inode] # "fresh" /\ proc' = [proc EXCEPT ![p].pc = "done", ![p].inode = 0]
  <2>1. SameOp(proc'[p], proc[p])
    BY <1>6, FoundNothingDoes
  <2>2. ~Intact(p)'
    BY <1>3, <1>4, <1>6, <2>1
  <2> QED
    BY <2>2 DEF Finds
<1>7. CASE Goto(p, IF proc[p].name = LiveName THEN "mkdir" ELSE "unlink")
  <2>1. PICK pc \in Pcs : Goto(p, pc) /\ pc \in {"mkdir", "unlink"}
    BY <1>7 DEF Pcs
  <2>2. proc'[p].pc \in {"mkdir", "unlink"}
    BY <2>1, GotoDoes
  <2> QED
    BY <2>2, NotReadingFinds
<1> QED
  BY <1>5, <1>6, <1>7 DEF InspectForRead

\* What p itself does, once its operation is under way.
LEMMA StepFinds ==
  ASSUME TypeOK, NEW m \in Procs, NEW p \in Procs, Recalls(p), Kept(m), Finds(m, p), Step(p)
  PROVE  Finds(m, p)'
<1>1. ASSUME NEW pc \in Pcs, Goto(p, pc), pc \notin {"inspect", "done", "listing", "scan", "reopen"}
      PROVE  Finds(m, p)'
  BY <1>1, GotoDoes, NotReadingFinds
<1>2. ASSUME Finish(p)
      PROVE  Finds(m, p)'
  BY <1>2, FinishDoes, IdleIs, NotReadingFinds
<1>3. ASSUME AfterDiscard(p)
      PROVE  Finds(m, p)'
  BY <1>3, AfterDiscardDoes, IdleIs, NotReadingFinds
<1>4. ASSUME NEW pc \in Pcs, Goto(p, pc), proc[p].op \in {"delete", "collect", "recover", "invalidate"}
      PROVE  Finds(m, p)'
  BY <1>4, GotoDoes, NotReadingFinds DEF SameOp
<1>5. CASE OpenLive(p) \/ OpenDirectory(p) \/ ScanEnds(p) \/ Reopen(p) \/ InspectForRead(p)
  BY <1>5, OpenLiveFinds, OpenDirectoryFinds, ScanEndsFinds, ReopenFinds, InspectForReadFinds
<1>6. CASE \E s \in Slots : ConsiderEntry(p, s) \/ RecoverEntry(p, s) \/ InvalidateEntry(p, s)
  <2>1. PICK s \in Slots : ConsiderEntry(p, s) \/ RecoverEntry(p, s) \/ InvalidateEntry(p, s)
    BY <1>6
  <2>2. CASE ConsiderEntry(p, s)
    BY <2>2, ConsiderEntryFinds
  <2>3. ASSUME NEW pc \in Pcs, TakesEntry(p, s, pc), proc[p].op \in {"recover", "invalidate"}
        PROVE  Finds(m, p)'
    BY <2>3, TakesEntryDoes, NotReadingFinds DEF SameOp
  <2>4. CASE RecoverEntry(p, s)
    <3>1. PICK pc \in Pcs : pc = IF HeaderStale(quarantine[s]) THEN "remove" ELSE "restore"
      BY DEF Pcs
    <3> QED
      BY <2>3, <2>4, <3>1 DEF RecoverEntry, TakesEntry
  <2>5. CASE InvalidateEntry(p, s)
    <3>1. PICK pc \in Pcs : pc = IF status[quarantine[s]] = "invalid" THEN "scan" ELSE "truncate"
      BY DEF Pcs
    <3> QED
      BY <2>3, <2>5, <3>1 DEF InvalidateEntry, TakesEntry
  <2> QED
    BY <2>1, <2>2, <2>4, <2>5
<1>7. CASE InspectForDelete(p)
  <2>1. PICK pc \in Pcs : pc = (IF proc[p].name = LiveName THEN "mkdir" ELSE "unlink")
    BY DEF Pcs
  <2> QED
    BY <1>2, <1>4, <1>7, <2>1 DEF InspectForDelete
<1>8. CASE InspectForCollect(p)
  BY <1>1, <1>2, <1>8 DEF InspectForCollect, Pcs
<1>9. CASE UnlinkSource(p) \/ RemoveDirectory(p)
  BY <1>3, <1>9 DEF UnlinkSource, RemoveDirectory
<1>10. CASE MakeDirectory(p) \/ Restore(p)
  BY <1>1, <1>10 DEF MakeDirectory, Restore, Pcs
<1>11. CASE Quarantine(p)
  <2>1. CASE Renames(p)
    <3>1. moves + 1 \in Slots /\ proc' = [proc EXCEPT ![p].pc = "compare", ![p].name = moves + 1]
      BY <2>1 DEF Renames
    <3> QED
      BY <3>1, RenamedDoes, NotReadingFinds
  <2>2. CASE /\ proc[p].attempt # 2
             /\ proc' = [proc EXCEPT ![p].pc = "mkdir", ![p].attempt = @ + 1]
    BY <2>2, TriesAgainDoes, NotReadingFinds
  <2> QED
    BY <1>3, <1>11, <2>1, <2>2, QuarantineDoes
<1>12. CASE Compare(p)
  <2>1. PICK pc \in Pcs : /\ Goto(p, pc) /\ pc \in {"remove", "restore"}
    BY <1>12 DEF Compare, Pcs
  <2> QED
    BY <1>1, <2>1
<1>13. CASE Remove(p)
  <2>1. PICK pc \in Pcs : Goto(p, pc) /\ pc = (IF proc[p].op = "recover" THEN "scan" ELSE "rmdir")
    BY <1>13 DEF Remove, Pcs
  <2> QED
    BY <1>1, <1>4, <2>1
<1>14. CASE TruncateEntry(p)
  <2>1. proc[p].op = "invalidate" /\ Goto(p, "scan") /\ "scan" \in Pcs
    BY <1>14 DEF TruncateEntry, At, Recalls, OpFits, Pcs
  <2> QED
    BY <1>4, <2>1
<1>15. CASE OpenLast(p)
  <2>1. ASSUME ~(live = 0 \/ status[live] = "invalid")
        PROVE  Finds(m, p)'
    <3>1. live \in Inodes /\ proc' = [proc EXCEPT ![p].pc = "truncateLast", ![p].inode = live]
      BY <1>15, <2>1 DEF OpenLast, TypeOK
    <3> QED
      BY <3>1, OpenLastDoes, NotReadingFinds
  <2> QED
    BY <1>2, <1>15, <2>1 DEF OpenLast, Invalidated
<1>16. CASE TruncateLast(p) \/ Return(p)
  BY <1>2, <1>16 DEF TruncateLast, Invalidated, Return
<1> QED
  BY <1>5, <1>6, <1>7, <1>8, <1>9, <1>10, <1>11, <1>12, <1>13, <1>14, <1>15, <1>16 DEF Step

\* The maintainer may get to rename only what is live, and only a rename
\* takes the live name or an entry away from a reader.
Arms(m) ==
    Armed(m)' => \/ Armed(m) /\ proc'[m].inode = proc[m].inode
                 \/ live # 0 /\ proc'[m].inode = live

Gentle(m) ==
    At(m, "rename") \/ (live' = 0 => live = 0 /\ \A s \in Slots : quarantine'[s] \in {0, quarantine[s]})

LEMMA RestsArms ==
  ASSUME NEW m \in Procs, proc'[m].pc \notin {"mkdir", "rename", "inspect"}
  PROVE  Arms(m)
<1> QED
  BY DEF Arms, Armed, At

LEMMA StillGentle ==
  ASSUME NEW m \in Procs, UNCHANGED <<live, quarantine>>
  PROVE  Gentle(m)
<1> QED
  BY DEF Gentle

LEMMA OpensArms ==
  ASSUME TypeOK, NEW m \in Procs, Recalls(m), Kept(m),
         OpenLive(m) \/ Reopen(m) \/ InspectForRead(m) \/ InspectForDelete(m) \/ InspectForCollect(m)
  PROVE  Arms(m)
<1>1. ASSUME Finish(m)
      PROVE  Arms(m)
  BY <1>1, FinishDoes, IdleIs, RestsArms
<1>2. ASSUME NEW pc \in Pcs \ {"mkdir", "rename", "inspect"}, Goto(m, pc)
      PROVE  Arms(m)
  BY <1>2, GotoDoes, RestsArms
<1>3. ASSUME live # 0, Inspect(m, live, LiveName)
      PROVE  Arms(m)
  <2>1. live \in Inodes /\ LiveName \in Slots \cup {0}
    BY <1>3 DEF TypeOK, LiveName
  <2>2. proc'[m].inode = live
    BY <1>3, <2>1, InspectDoes
  <2> QED
    BY <1>3, <2>2 DEF Arms
<1>4. ASSUME proc[m].best # 0, Inspect(m, proc[m].bestInode, proc[m].best)
      PROVE  Arms(m)
  <2>1. proc[m].bestInode \in Inodes /\ proc[m].best \in Slots \cup {0}
    BY <1>4, ProcIs DEF Recalls
  <2>2. proc'[m].pc = "inspect" /\ proc'[m].name # LiveName
    BY <1>4, <2>1, InspectDoes DEF LiveName
  <2> QED
    BY <2>2 DEF Arms, Armed, At
<1>5. ASSUME At(m, "inspect"), NEW pc \in Pcs, Goto(m, pc),
             pc = (IF proc[m].name = LiveName THEN "mkdir" ELSE "unlink")
      PROVE  Arms(m)
  <2>1. proc'[m].pc = pc /\ proc'[m].inode = proc[m].inode
    BY <1>5, GotoDoes DEF SameWork
  <2> QED
    BY <1>5, <2>1 DEF Arms, Armed, At
<1>6. PICK pc \in Pcs : pc = (IF proc[m].name = LiveName THEN "mkdir" ELSE "unlink")
  BY DEF Pcs
<1>7. CASE OpenLive(m)
  BY <1>1, <1>2, <1>3, <1>7 DEF OpenLive, Pcs
<1>8. CASE Reopen(m)
  BY <1>1, <1>2, <1>3, <1>4, <1>8 DEF Reopen, Pcs
<1>9. CASE InspectForRead(m)
  <2>1. ASSUME proc' = [proc EXCEPT ![m].pc = "done", ![m].inode = 0]
        PROVE  Arms(m)
    BY <2>1, FoundNothingDoes, RestsArms
  <2> QED
    BY <1>2, <1>5, <1>6, <1>9, <2>1 DEF InspectForRead, Pcs
<1>10. CASE InspectForDelete(m)
  BY <1>1, <1>5, <1>6, <1>10 DEF InspectForDelete
<1>11. CASE InspectForCollect(m)
  <2>1. At(m, "inspect") /\ proc[m].name = LiveName
    BY <1>11 DEF InspectForCollect, Kept, Careful
  <2> QED
    BY <1>1, <1>5, <1>6, <1>11, <2>1 DEF InspectForCollect
<1> QED
  BY <1>7, <1>8, <1>9, <1>10, <1>11

LEMMA StepArms ==
  ASSUME TypeOK, NEW m \in Procs, Recalls(m), Kept(m), Step(m)
  PROVE  Arms(m)
<1>1. ASSUME NEW pc \in Pcs \ {"mkdir", "rename", "inspect"}, Goto(m, pc)
      PROVE  Arms(m)
  BY <1>1, GotoDoes, RestsArms
<1>2. ASSUME Finish(m)
      PROVE  Arms(m)
  BY <1>2, FinishDoes, IdleIs, RestsArms
<1>3. ASSUME AfterDiscard(m)
      PROVE  Arms(m)
  BY <1>3, AfterDiscardDoes, IdleIs, RestsArms
<1>4. CASE OpenLive(m) \/ Reopen(m) \/ InspectForRead(m) \/ InspectForDelete(m) \/ InspectForCollect(m)
  BY <1>4, OpensArms
<1>5. CASE OpenDirectory(m) \/ ScanEnds(m)
  <2>1. proc'[m].pc \in {"scan", "reopen", "rmdir", "last"}
    BY <1>5, OpenDirectoryDoes, ScanEndsDoes
  <2> QED
    BY <2>1, RestsArms
<1>6. CASE \E s \in Slots : ConsiderEntry(m, s) \/ RecoverEntry(m, s) \/ InvalidateEntry(m, s)
  <2>1. PICK s \in Slots : ConsiderEntry(m, s) \/ RecoverEntry(m, s) \/ InvalidateEntry(m, s)
    BY <1>6
  <2>2. CASE ConsiderEntry(m, s)
    BY <2>2, ConsiderEntryDoes, RestsArms
  <2>3. ASSUME NEW pc \in Pcs \ {"mkdir", "rename", "inspect"}, TakesEntry(m, s, pc)
        PROVE  Arms(m)
    BY <2>3, TakesEntryDoes, RestsArms
  <2>4. CASE RecoverEntry(m, s)
    <3>1. PICK pc \in Pcs \ {"mkdir", "rename", "inspect"} :
             pc = IF HeaderStale(quarantine[s]) THEN "remove" ELSE "restore"
      BY DEF Pcs
    <3> QED
      BY <2>3, <2>4, <3>1 DEF RecoverEntry, TakesEntry
  <2>5. CASE InvalidateEntry(m, s)
    <3>1. PICK pc \in Pcs \ {"mkdir", "rename", "inspect"} :
             pc = IF status[quarantine[s]] = "invalid" THEN "scan" ELSE "truncate"
      BY DEF Pcs
    <3> QED
      BY <2>3, <2>5, <3>1 DEF InvalidateEntry, TakesEntry
  <2> QED
    BY <2>1, <2>2, <2>4, <2>5
<1>7. CASE UnlinkSource(m) \/ RemoveDirectory(m)
  BY <1>3, <1>7 DEF UnlinkSource, RemoveDirectory
<1>8. CASE MakeDirectory(m)
  <2>1. proc'[m].inode = proc[m].inode /\ Armed(m)
    BY <1>8, GotoDoes DEF MakeDirectory, Pcs, SameWork, Armed, At
  <2> QED
    BY <2>1 DEF Arms
<1>9. CASE Quarantine(m)
  <2>1. CASE Renames(m)
    <3>1. moves + 1 \in Slots /\ proc' = [proc EXCEPT ![m].pc = "compare", ![m].name = moves + 1]
      BY <2>1 DEF Renames
    <3> QED
      BY <3>1, RenamedDoes, RestsArms
  <2>2. CASE /\ proc[m].attempt # 2
             /\ proc' = [proc EXCEPT ![m].pc = "mkdir", ![m].attempt = @ + 1]
    <3>1. proc'[m].inode = proc[m].inode /\ Armed(m)
      BY <1>9, <2>2, TriesAgainDoes DEF Quarantine, Armed, At
    <3> QED
      BY <3>1 DEF Arms
  <2> QED
    BY <1>3, <1>9, <2>1, <2>2, QuarantineDoes
<1>10. CASE Compare(m) \/ Restore(m) \/ Remove(m) \/ TruncateEntry(m)
  <2>1. PICK pc \in {"remove", "restore", "scan", "rmdir"} : Goto(m, pc)
    BY <1>10 DEF Compare, Restore, Remove, TruncateEntry
  <2>2. pc \in Pcs \ {"mkdir", "rename", "inspect"}
    BY DEF Pcs
  <2> QED
    BY <1>1, <2>1, <2>2
<1>11. CASE OpenLast(m)
  <2>1. ASSUME ~(live = 0 \/ status[live] = "invalid")
        PROVE  Arms(m)
    <3>1. live \in Inodes /\ proc' = [proc EXCEPT ![m].pc = "truncateLast", ![m].inode = live]
      BY <1>11, <2>1 DEF OpenLast, TypeOK
    <3> QED
      BY <3>1, OpenLastDoes, RestsArms
  <2> QED
    BY <1>2, <1>11, <2>1 DEF OpenLast, Invalidated
<1>12. CASE TruncateLast(m) \/ Return(m)
  BY <1>2, <1>12 DEF TruncateLast, Invalidated, Return
<1> QED
  BY <1>4, <1>5, <1>6, <1>7, <1>8, <1>9, <1>10, <1>11, <1>12 DEF Step

LEMMA StepGentle ==
  ASSUME TypeOK, NEW m \in Procs, Recalls(m), Step(m)
  PROVE  Gentle(m) /\ Fades
<1>1. CASE \E s \in Slots : ConsiderEntry(m, s) \/ RecoverEntry(m, s) \/ InvalidateEntry(m, s)
  BY <1>1, NothingFades, StillGentle DEF ConsiderEntry, RecoverEntry, InvalidateEntry
<1>2. CASE OpenLive(m) \/ OpenDirectory(m) \/ ScanEnds(m) \/ Reopen(m) \/ InspectForRead(m)
           \/ InspectForCollect(m) \/ Compare(m) \/ Return(m)
  BY <1>2, NothingFades, StillGentle
     DEF OpenLive, OpenDirectory, ScanEnds, Reopen, InspectForRead, InspectForCollect, Compare, Return
<1>3. CASE InspectForDelete(m) \/ TruncateEntry(m) \/ OpenLast(m) \/ TruncateLast(m)
  <2>1. UNCHANGED <<live, quarantine>>
    BY <1>3 DEF InspectForDelete, TruncateEntry, OpenLast, TruncateLast, files
  <2>2. Fades
    BY <1>3 DEF InspectForDelete, TruncateEntry, OpenLast, TruncateLast, files, Fades
  <2> QED
    BY <2>1, <2>2, StillGentle
<1>4. CASE MakeDirectory(m) \/ RemoveDirectory(m)
  <2>1. UNCHANGED <<live, quarantine>> /\ Fades
    BY <1>4 DEF MakeDirectory, RemoveDirectory, Fades, history
  <2> QED
    BY <2>1, StillGentle
<1>5. CASE Quarantine(m)
  BY <1>5 DEF Quarantine, Gentle, Fades, history
<1>6. CASE UnlinkSource(m) \/ Remove(m)
  <2>1. live' = live /\ \A s \in Slots : quarantine'[s] \in {0, quarantine[s]}
    BY <1>6 DEF UnlinkSource, Remove, TypeOK
  <2>2. Fades
    BY <1>6 DEF UnlinkSource, Remove, Fades, history
  <2> QED
    BY <2>1, <2>2 DEF Gentle
<1>7. CASE Restore(m)
  <2>1. quarantine' = quarantine /\ live' = (IF live = 0 THEN quarantine[proc[m].name] ELSE live)
    BY <1>7 DEF Restore
  <2>2. Fades
    BY <1>7 DEF Restore, Fades, history
  <2> QED
    BY <2>1, <2>2 DEF Gentle
<1> QED
  BY <1>1, <1>2, <1>3, <1>4, <1>5, <1>6, <1>7 DEF Step

LEMMA MaintenanceFinds ==
  ASSUME TypeOK, NEW m \in Procs, NEW p \in Procs, Recalls(m), Recalls(p), Kept(m), Finds(m, p),
         proc'[p] = proc[p], Fades, Arms(m), Gentle(m)
  PROVE  Finds(m, p)'
<1> SUFFICES ASSUME Intact(p)'
             PROVE  Finds(m, p)'
  BY DEF Finds
<1>1. latest' = latest /\ latest \in Nat
  BY InodesAreNumbers DEF Fades
<1>2. Intact(p)
  BY <1>1, FadesAges, WasIntact DEF Intact
<1>3. /\ Good /\ proc[p].floor \in Nat /\ proc[p].floor # 0 /\ proc[p].floor <= latest
      /\ \A i \in Nat : i >= proc[p].floor /\ i <= latest => ~Doomed(i)
  BY <1>2, IntactIs
<1>4. live # 0 => live = latest
  BY <1>3 DEF Kept, Newest
<1>5. Undisturbed(m, p) => Undisturbed(m, p)'
  BY <1>1, <1>3, <1>4 DEF Arms, Undisturbed
\* m renames only what is condemned, and what p looks for is not.
<1>6. Undisturbed(m, p) => ~At(m, "rename")
  <2>1. ASSUME Undisturbed(m, p), At(m, "rename")
        PROVE  FALSE
    <3>1. proc[m].pc = "rename" /\ Armed(m) /\ proc[m].op # "recover"
      BY <2>1 DEF At, Armed, Recalls, OpFits
    <3>2. proc[m].inode >= proc[p].floor /\ Doomed(proc[m].inode)
      BY <2>1, <3>1 DEF Undisturbed, Kept, Careful
    <3>3. proc[m].inode \in Nat /\ proc[m].inode <= latest
      BY InodesAreNumbers DEF Recalls
    <3> QED
      BY <1>3, <3>2, <3>3
  <2> QED
    BY <2>1
<1>7. CASE proc[p].pc \in {"listing", "scan", "reopen"}
  <2>1. Undisturbed(m, p)
    BY <1>2, <1>7 DEF Finds
  <2>2. live' = 0 => live = 0 /\ \A s \in Slots : quarantine'[s] \in {0, quarantine[s]}
    BY <1>6, <2>1 DEF Gentle
  <2>3. At(p, "scan") => Sees(p)'
    <3>1. latest # 0
      BY <1>3 DEF Good
    <3> QED
      BY <1>1, <1>2, <2>2, <3>1 DEF Finds, Sees
  <2>4. At(p, "reopen") /\ live' = 0 => proc[p].newest >= latest
    BY <1>2, <2>2 DEF Finds
  <2> QED
    BY <1>1, <1>5, <1>7, <2>1, <2>3, <2>4 DEF Finds, At
<1>8. CASE proc[p].pc \notin {"listing", "scan", "reopen"}
  BY <1>2, <1>8 DEF Finds, At
<1> QED
  BY <1>7, <1>8

LEMMA StartFinds ==
  ASSUME TypeOK, NEW m \in Procs, NEW p \in Procs, NEW op \in Ops, NEW b \in Conversations \cup {0},
         Start(p, op, b)
  PROVE  Finds(m, p)'
<1>1. proc'[p].op = op /\ (op \in {"read", "load"} => proc'[p].pc = "open")
  BY StartDoes
<1> QED
  BY <1>1, NotReadingFinds DEF Ops

LEMMA WriteFinds ==
  ASSUME TypeOK, Published, NEW m \in Procs, NEW p \in Procs, Recalls(p), Finds(m, p),
         NEW q \in Procs, NEW b \in Conversations, Write(q, b)
  PROVE  Finds(m, p)'
<1>1. /\ latest + 1 \in Inodes /\ latest' = latest + 1 /\ live' = latest + 1
      /\ status' = [status EXCEPT ![latest + 1] = "fresh"]
      /\ UNCHANGED <<quarantine, proc, crashes, removed>>
  BY TeamIs, Numbers DEF Write, TypeOK, Inodes
<1>2. latest \in Nat
  BY InodesAreNumbers
<1>3. Ages
  BY <1>1, <1>2, Numbers DEF Ages, TypeOK
<1>4. Intact(p)' => Intact(p)
  BY <1>1, <1>2, <1>3, WasIntact DEF Intact
<1>5. live' # 0
  BY <1>1, <1>2
<1> QED
  BY <1>1, <1>4, <1>5 DEF Finds, At, Undisturbed, Armed, Sees

LEMMA ExpireFinds ==
  ASSUME TypeOK, NEW m \in Procs, NEW p \in Procs, Recalls(m), Recalls(p), Kept(m), Finds(m, p),
         NEW i \in Inodes, Expire(i)
  PROVE  Finds(m, p)'
<1>1. UNCHANGED <<live, quarantine, proc>> /\ Fades
  BY DEF Expire, Fades, TypeOK, history
<1>2. Arms(m) /\ Gentle(m)
  BY <1>1, StillGentle DEF Arms, Armed, At
<1> QED
  BY <1>1, <1>2, MaintenanceFinds

LEMMA FindsNext ==
  ASSUME NEW m \in Procs, NEW p \in Procs, Basis(m), Kept(m), Finds(m, p), [Next]_vars
  PROVE  Finds(m, p)'
<1>1. /\ TypeOK /\ Published /\ \A q \in Procs : Recalls(q)
      /\ \A q \in Procs \ {m} : proc[q].op \in {"none", "read"}
  BY DEF Basis, OthersRead
<1>2. ASSUME UNCHANGED <<files, history>>, proc'[p] = proc[p], Arms(m)
      PROVE  Finds(m, p)'
  BY <1>1, <1>2, NothingFades, StillGentle, MaintenanceFinds
<1>3. ASSUME proc'[m] = proc[m]
      PROVE  Arms(m)
  BY <1>3 DEF Arms, Armed, At
<1>4. ASSUME NEW q \in Procs, NEW op \in Ops, NEW b \in Conversations \cup {0}, Start(q, op, b)
      PROVE  Finds(m, p)'
  <2>1. UNCHANGED <<files, history>> /\ Puts(q) /\ proc'[q].pc \in {"open", "listing"}
    <3>1. Puts(q) /\ proc'[q].pc = IF op \in {"recover", "invalidate"} THEN "listing" ELSE "open"
      BY <1>1, <1>4, StartDoes
    <3>2. UNCHANGED <<files, history>>
      BY <1>4 DEF Start
    <3> QED
      BY <3>1, <3>2
  <2>2. CASE q = p
    BY <1>1, <1>4, <2>2, StartFinds
  <2>3. CASE q # p
    <3>1. Arms(m)
      BY <1>3, <2>1, RestsArms DEF Puts
    <3> QED
      BY <1>2, <2>1, <2>3, <3>1 DEF Puts
  <2> QED
    BY <2>2, <2>3
<1>5. ASSUME NEW q \in Procs, Crash(q)
      PROVE  Finds(m, p)'
  <2>1. UNCHANGED <<files, history>> /\ Puts(q) /\ proc'[q].pc = "idle"
    BY <1>1, <1>5, FinishDoes, IdleIs DEF Crash
  <2>2. CASE q = p
    BY <2>1, <2>2, NotReadingFinds
  <2>3. CASE q # p
    <3>1. Arms(m)
      BY <1>3, <2>1, RestsArms DEF Puts
    <3> QED
      BY <1>2, <2>1, <2>3, <3>1 DEF Puts
  <2> QED
    BY <2>2, <2>3
<1>6. ASSUME NEW q \in Procs, Step(q)
      PROVE  Finds(m, p)'
  <2>1. Puts(q)
    BY <1>1, <1>6, StepKeeps DEF Keeps
  <2>2. CASE q = p
    BY <1>1, <1>6, <2>2, StepFinds
  <2>3. CASE q # p /\ q = m
    BY <1>1, <1>6, <2>1, <2>3, StepArms, StepGentle, MaintenanceFinds DEF Puts
  <2>4. CASE q # p /\ q # m
    <3>1. UNCHANGED <<files, history>>
      BY <1>1, <1>6, <2>4, OthersLook
    <3> QED
      BY <1>2, <1>3, <2>1, <2>4, <3>1 DEF Puts
  <2> QED
    BY <2>2, <2>3, <2>4
<1>7. CASE \E q \in Procs, b \in Conversations : Write(q, b)
  BY <1>1, <1>7, WriteFinds
<1>8. CASE \E i \in Inodes : Expire(i)
  BY <1>1, <1>8, ExpireFinds
<1>9. CASE UNCHANGED vars
  BY <1>2, <1>3, <1>9 DEF vars
<1> QED
  BY <1>4, <1>5, <1>6, <1>7, <1>8, <1>9 DEF Next

-----------------------------------------------------------------------------
(* What is revoked stays revoked.                                           *)

LEMMA RevokedInit ==
  ASSUME NEW m \in Procs, Init
  PROVE  Revoked(m)
<1>1. revoked = {} /\ proc[m].op = "none"
  BY IdleIs DEF Init
<1> QED
  BY <1>1 DEF Revoked, RevokedStaysRevoked, Reaches

\* Files only move, and no inode becomes valid again.
Wanes ==
    /\ latest' = latest /\ Reachable' \subseteq Reachable
    /\ \A i \in Inodes : Valid(i)' => Valid(i)

LEMMA QuietWanes ==
  ASSUME UNCHANGED <<files, history>>
  PROVE  Wanes /\ UNCHANGED <<revoked, live, quarantine>>
<1> QED
  BY DEF Wanes, files, history, Reachable, Valid

\* What is gone from the cache, or no longer valid, does not come back.
LEMMA WanesRevoked ==
  ASSUME TypeOK, NEW m \in Procs, Revoked(m), Wanes, revoked' = revoked, Reaches(m)'
  PROVE  Revoked(m)'
<1>1. revoked \subseteq Inodes
  BY DEF TypeOK
<1>2. RevokedStaysRevoked'
  <2>1. \A i \in revoked : Valid(i) => i \notin Reachable
    BY DEF Revoked, RevokedStaysRevoked, Valid
  <2>2. \A i \in revoked : Valid(i)' => i \notin Reachable'
    BY <1>1, <2>1 DEF Wanes
  <2> QED
    BY <2>2 DEF RevokedStaysRevoked, Valid
<1> QED
  BY <1>2 DEF Revoked, Wanes

LEMMA NotInvalidatingReaches ==
  ASSUME NEW m \in Procs,
         proc'[m].op # "invalidate" \/ proc'[m].pc \notin {"scan", "truncate", "last", "truncateLast"}
  PROVE  Reaches(m)'
<1> QED
  BY DEF Reaches, At

LEMMA AwayReaches ==
  ASSUME TypeOK, NEW m \in Procs, Reaches(m), proc'[m] = proc[m], UNCHANGED <<live, quarantine>>,
         \A i \in Inodes : Valid(i)' => Valid(i)
  PROVE  Reaches(m)'
<1>1. Before(m)' \subseteq Before(m)
  <2>1. \A s \in Slots : quarantine[s] \in 1..proc[m].floor => quarantine[s] \in Inodes
    BY InodesAreNumbers DEF TypeOK
  <2> QED
    BY <2>1 DEF Before, Valid
<1> QED
  BY <1>1 DEF Reaches, At

LEMMA BeforeIs ==
  ASSUME TypeOK, NEW m \in Procs
  PROVE  /\ Before(m) \subseteq Occupied /\ Before(m) \subseteq Slots
         /\ \A s \in Before(m) : Valid(quarantine[s])
<1>1. \A s \in Before(m) : s \in Slots /\ quarantine[s] \in 1..proc[m].floor /\ Valid(quarantine[s])
  BY DEF Before
<1>2. \A s \in Before(m) : quarantine[s] # 0
  BY <1>1, InodesAreNumbers
<1> QED
  BY <1>1, <1>2 DEF Occupied

LEMMA OpenDirectoryRevoked ==
  ASSUME TypeOK, NEW m \in Procs, Recalls(m), Revoked(m), OpenDirectory(m)
  PROVE  Revoked(m)'
<1>1. Wanes /\ UNCHANGED <<revoked, live, quarantine, status>>
  BY QuietWanes DEF OpenDirectory, files
<1>2. /\ proc'[m].pc = "scan" /\ proc'[m].must = Occupied /\ proc'[m].seen = {}
      /\ proc'[m].floor = proc[m].floor
  BY OpenDirectoryDoes DEF Recalls, OpenDirectory, At, SameOp
<1>3. Before(m)' = Before(m)
  BY <1>1, <1>2 DEF Before, Valid
<1>4. Reaches(m)'
  BY <1>2, <1>3, BeforeIs DEF Reaches, At
<1> QED
  BY <1>1, <1>4, WanesRevoked

LEMMA ScanEndsRevoked ==
  ASSUME TypeOK, NEW m \in Procs, Recalls(m), Revoked(m), ScanEnds(m)
  PROVE  Revoked(m)'
<1>1. Wanes /\ UNCHANGED <<revoked, live, quarantine, status>>
  BY QuietWanes DEF ScanEnds, files
<1>2. /\ proc'[m].pc = (IF Opens(proc[m].op) THEN "reopen"
                        ELSE IF proc[m].op = "recover" THEN "rmdir" ELSE "last")
      /\ SameOp(proc'[m], proc[m])
  BY ScanEndsDoes
<1>3. Before(m)' = Before(m)
  BY <1>1, <1>2 DEF Before, Valid, SameOp
<1>4. proc[m].op = "invalidate" => Before(m) = {} /\ proc'[m].pc = "last"
  <2>1. ASSUME proc[m].op = "invalidate"
        PROVE  Before(m) = {} /\ proc'[m].pc = "last"
    <3>1. Before(m) \subseteq proc[m].must \ proc[m].seen
      BY <2>1 DEF Revoked, Reaches, ScanEnds
    <3>2. (proc[m].must \ proc[m].seen) \cap Occupied = {}
      BY DEF ScanEnds
    <3> QED
      BY <1>2, <2>1, <3>1, <3>2, BeforeIs DEF Opens
  <2> QED
    BY <2>1
<1>5. Reaches(m)'
  BY <1>2, <1>3, <1>4 DEF Reaches, At, SameOp
<1> QED
  BY <1>1, <1>5, WanesRevoked

LEMMA InvalidateEntryRevoked ==
  ASSUME TypeOK, NEW m \in Procs, Revoked(m), NEW s \in Slots, InvalidateEntry(m, s)
  PROVE  Revoked(m)'
<1>1. Wanes /\ UNCHANGED <<revoked, live, quarantine, status>>
  BY QuietWanes DEF InvalidateEntry, files
<1>2. PICK pc \in Pcs : pc = (IF status[quarantine[s]] = "invalid" THEN "scan" ELSE "truncate")
  BY DEF Pcs
<1>3. TakesEntry(m, s, pc)
  BY <1>2 DEF InvalidateEntry, TakesEntry
<1>4. /\ proc'[m].pc = pc /\ proc'[m].name = s /\ proc'[m].seen = proc[m].seen \cup {s}
      /\ proc'[m].must = proc[m].must /\ SameOp(proc'[m], proc[m])
  BY <1>3, TakesEntryDoes
<1>5. Before(m)' = Before(m)
  BY <1>1, <1>4 DEF Before, Valid, SameOp
<1>6. Before(m) \subseteq proc[m].must \ proc[m].seen
  BY DEF Revoked, Reaches, InvalidateEntry
<1>7. status[quarantine[s]] = "invalid" => s \notin Before(m)
  BY DEF Before, Valid
<1>8. Reaches(m)'
  BY <1>2, <1>4, <1>5, <1>6, <1>7 DEF Reaches, At
<1> QED
  BY <1>1, <1>8, WanesRevoked

LEMMA TruncateEntryRevoked ==
  ASSUME TypeOK, NEW m \in Procs, Recalls(m), Revoked(m), TruncateEntry(m)
  PROVE  Revoked(m)'
<1>1. /\ UNCHANGED <<live, quarantine, latest, revoked>> /\ proc[m].pc = "truncate"
      /\ Goto(m, "scan") /\ "scan" \in Pcs
  BY DEF TruncateEntry, At, Pcs
<1>2. /\ proc'[m].pc = "scan" /\ SameOp(proc'[m], proc[m])
      /\ proc'[m].must = proc[m].must /\ proc'[m].seen = proc[m].seen
  BY <1>1, GotoDoes DEF SameScan
<1>3. /\ status' = [i \in Inodes |->
            IF i \in {quarantine[proc[m].name]} \ {0} THEN "invalid" ELSE status[i]]
      /\ proc[m].op = "invalidate" /\ proc[m].name \in Slots
  BY <1>1 DEF TruncateEntry, Recalls, OpFits
<1>4. \A i \in Inodes : Valid(i)' => Valid(i) /\ i # quarantine[proc[m].name]
  BY <1>3, Numbers DEF Valid
<1>5. Wanes
  BY <1>1, <1>4 DEF Wanes, Reachable
<1>6. Before(m)' \subseteq Before(m) \ {proc[m].name}
  <2>1. \A s \in Slots : quarantine[s] \in 1..proc[m].floor => quarantine[s] \in Inodes
    BY InodesAreNumbers DEF TypeOK
  <2>2. \A s \in Slots : s \in Before(m)' =>
           quarantine[s] \in 1..proc[m].floor /\ quarantine[s] \in Inodes /\ Valid(quarantine[s])'
    BY <1>1, <1>2, <2>1 DEF Before, SameOp, Valid
  <2>3. \A s \in Slots : s \in Before(m)' => s \in Before(m) /\ s # proc[m].name
    <3> TAKE s \in Slots
    <3> HAVE s \in Before(m)'
    <3>1. PICK i \in Inodes : i = quarantine[s]
      BY <2>2
    <3>2. Valid(i)' /\ i \in 1..proc[m].floor
      BY <1>1, <2>2, <3>1 DEF Valid
    <3>3. Valid(i) /\ i # quarantine[proc[m].name]
      BY <1>4, <3>2
    <3> QED
      BY <3>1, <3>2, <3>3 DEF Before
  <2> QED
    BY <2>3 DEF Before
<1>7. Before(m) \subseteq (proc[m].must \ proc[m].seen) \cup {proc[m].name}
  BY <1>1, <1>3 DEF Revoked, Reaches, At
<1>8. Reaches(m)'
  BY <1>2, <1>6, <1>7 DEF Reaches, At
<1> QED
  BY <1>1, <1>5, <1>8, WanesRevoked

\* An invalidation is over: nothing it was to reach is left.
LEMMA InvalidatedRevoked ==
  ASSUME TypeOK, NEW m \in Procs, Recalls(m), Revoked(m), Invalidated(m), Wanes,
         \A i \in Inodes : i <= proc[m].floor /\ Valid(i)' => i \notin Reachable'
  PROVE  Revoked(m)'
<1>1. /\ revoked' = revoked \cup {i \in Inodes : i <= proc[m].floor} /\ revoked \subseteq Inodes
      /\ latest' = latest /\ latest \in Nat /\ proc[m].floor \in Nat /\ proc[m].floor <= latest
  BY InodesAreNumbers DEF Invalidated, TypeOK, Wanes, Recalls
<1>2. \A i \in revoked : Valid(i) => i \notin Reachable
  BY DEF Revoked, RevokedStaysRevoked, Valid
<1>3. \A i \in revoked' : Valid(i)' => i \notin Reachable'
  BY <1>1, <1>2 DEF Wanes
<1>4. RevokedStaysRevoked'
  BY <1>3 DEF RevokedStaysRevoked, Valid
<1>5. revoked' \subseteq 1..latest'
  <2>1. \A i \in Inodes : i <= proc[m].floor => i \in 1..latest
    BY <1>1, Numbers DEF Inodes
  <2> QED
    BY <1>1, <2>1 DEF Revoked
<1>6. proc'[m].op = "none"
  BY FinishDoes, IdleIs DEF Invalidated
<1> QED
  BY <1>4, <1>5, <1>6, NotInvalidatingReaches DEF Revoked

LEMMA OpenLastRevoked ==
  ASSUME TypeOK, NEW m \in Procs, Recalls(m), Revoked(m), OpenLast(m)
  PROVE  Revoked(m)'
<1>1. /\ UNCHANGED <<live, quarantine, latest, status>>
      /\ proc[m].pc = "last" /\ proc[m].op = "invalidate"
  BY DEF OpenLast, At, files, Recalls, OpFits
<1>2. Wanes
  BY <1>1 DEF Wanes, Reachable, Valid
<1>3. Before(m) = {}
  BY <1>1 DEF Revoked, Reaches
<1>4. CASE live = 0 \/ status[live] = "invalid"
  <2>1. ASSUME NEW i \in Inodes, i <= proc[m].floor, Valid(i)
        PROVE  i \notin Reachable
    <3>1. i # live
      BY <1>4, <2>1, Numbers DEF Valid
    <3>2. i \in 1..proc[m].floor
      BY <2>1, InodesAreNumbers, Numbers DEF Inodes
    <3>3. \A s \in Slots : quarantine[s] # i
      BY <1>3, <2>1, <3>2 DEF Before
    <3> QED
      BY <3>1, <3>3 DEF Reachable
  <2>2. \A i \in Inodes : i <= proc[m].floor /\ Valid(i)' => i \notin Reachable'
    BY <1>1, <2>1 DEF Reachable, Valid
  <2> QED
    BY <1>2, <1>4, <2>2, InvalidatedRevoked DEF OpenLast
<1>5. CASE ~(live = 0 \/ status[live] = "invalid")
  <2>1. /\ live \in Inodes /\ proc' = [proc EXCEPT ![m].pc = "truncateLast", ![m].inode = live]
        /\ revoked' = revoked
    BY <1>5 DEF OpenLast, TypeOK
  <2>2. proc'[m].pc = "truncateLast" /\ proc'[m].inode = live /\ SameOp(proc'[m], proc[m])
    BY <2>1, OpenLastDoes
  <2>3. Before(m)' = Before(m)
    BY <1>1, <2>2 DEF Before, Valid, SameOp
  <2>4. Reaches(m)'
    BY <1>1, <1>3, <1>5, <2>2, <2>3 DEF Reaches, At
  <2> QED
    BY <1>2, <2>1, <2>4, WanesRevoked
<1> QED
  BY <1>4, <1>5

LEMMA TruncateLastRevoked ==
  ASSUME TypeOK, NEW m \in Procs, Recalls(m), Revoked(m), TruncateLast(m)
  PROVE  Revoked(m)'
<1>1. /\ UNCHANGED <<live, quarantine, latest>> /\ Invalidated(m)
      /\ proc[m].pc = "truncateLast" /\ proc[m].op = "invalidate"
      /\ status' = [i \in Inodes |-> IF i \in {proc[m].inode} \cap {live} THEN "invalid" ELSE status[i]]
  BY DEF TruncateLast, At, Recalls, OpFits
<1>2. \A i \in Inodes : Valid(i)' => Valid(i) /\ (i = live => live # proc[m].inode)
  BY <1>1 DEF Valid
<1>3. Wanes
  BY <1>1, <1>2 DEF Wanes, Reachable
<1>4. Before(m) = {} /\ (live = proc[m].inode \/ live > proc[m].floor)
  BY <1>1 DEF Revoked, Reaches, At
<1>5. ASSUME NEW i \in Inodes, i <= proc[m].floor, Valid(i)'
      PROVE  i \notin Reachable'
  <2>1. i # live
    BY <1>2, <1>4, <1>5, InodesAreNumbers, Numbers
  <2>2. i \in 1..proc[m].floor /\ Valid(i)
    BY <1>2, <1>5, InodesAreNumbers, Numbers DEF Inodes
  <2>3. \A s \in Slots : quarantine[s] # i
    BY <1>4, <2>2 DEF Before
  <2> QED
    BY <1>1, <2>1, <2>3 DEF Reachable
<1> QED
  BY <1>1, <1>3, <1>5, InvalidatedRevoked

\* The steps that no invalidation takes.
OtherStep(m) ==
    \/ OpenLive(m) \/ Reopen(m) \/ InspectForRead(m) \/ InspectForDelete(m) \/ InspectForCollect(m)
    \/ UnlinkSource(m) \/ MakeDirectory(m) \/ Quarantine(m) \/ Compare(m) \/ Restore(m) \/ Remove(m)
    \/ RemoveDirectory(m) \/ Return(m)

\* An operation goes on as it began, until it is over.
LEMMA StepSameOp ==
  ASSUME TypeOK, NEW m \in Procs, Recalls(m),
         OtherStep(m)
  PROVE  proc[m].op # "invalidate" /\ proc'[m].op # "invalidate"
<1>1. proc[m].op # "invalidate"
  BY DEF OtherStep, Recalls, OpFits, At, OpenLive, Reopen, InspectForRead, InspectForDelete, InspectForCollect,
         UnlinkSource, MakeDirectory, Quarantine, Compare, Restore, Remove, RemoveDirectory, Return
<1> SUFFICES proc'[m].op # "invalidate"
  BY <1>1
<1>2. ASSUME NEW pc \in Pcs, Goto(m, pc)
      PROVE  proc'[m].op # "invalidate"
  BY <1>1, <1>2, GotoDoes DEF SameOp
<1>3. ASSUME Finish(m)
      PROVE  proc'[m].op # "invalidate"
  BY <1>3, FinishDoes, IdleIs
<1>4. ASSUME AfterDiscard(m)
      PROVE  proc'[m].op # "invalidate"
  BY <1>4, AfterDiscardDoes, IdleIs
<1>5. ASSUME NEW i \in Inodes, NEW name \in Slots \cup {0}, Inspect(m, i, name)
      PROVE  proc'[m].op # "invalidate"
  BY <1>1, <1>5, InspectDoes DEF SameOp
<1>6. live # 0 => live \in Inodes /\ LiveName \in Slots \cup {0}
  BY DEF TypeOK, LiveName
<1>7. (IF proc[m].name = LiveName THEN "mkdir" ELSE "unlink") \in Pcs
  BY DEF Pcs
<1>8. CASE OpenLive(m)
  BY <1>2, <1>3, <1>5, <1>6, <1>8 DEF OpenLive, Pcs
<1>9. CASE Reopen(m)
  <2>1. proc[m].best # 0 => proc[m].bestInode \in Inodes /\ proc[m].best \in Slots \cup {0}
    BY ProcIs DEF Recalls
  <2> QED
    BY <1>2, <1>3, <1>5, <1>6, <1>9, <2>1 DEF Reopen, Pcs
<1>10. CASE InspectForRead(m)
  <2>1. ASSUME proc' = [proc EXCEPT ![m].pc = "done", ![m].inode = 0]
        PROVE  proc'[m].op # "invalidate"
    BY <1>1, <2>1, FoundNothingDoes DEF SameOp
  <2> QED
    BY <1>2, <1>7, <1>10, <2>1 DEF InspectForRead, Pcs
<1>11. CASE InspectForDelete(m)
  BY <1>2, <1>3, <1>7, <1>11 DEF InspectForDelete
<1>12. CASE InspectForCollect(m)
  BY <1>2, <1>3, <1>12 DEF InspectForCollect, Pcs
<1>13. CASE UnlinkSource(m) \/ RemoveDirectory(m)
  BY <1>4, <1>13 DEF UnlinkSource, RemoveDirectory
<1>14. CASE MakeDirectory(m)
  BY <1>2, <1>14 DEF MakeDirectory, Pcs
<1>15. CASE Quarantine(m)
  <2>1. CASE Renames(m)
    <3>1. moves + 1 \in Slots /\ proc' = [proc EXCEPT ![m].pc = "compare", ![m].name = moves + 1]
      BY <2>1 DEF Renames
    <3> QED
      BY <1>1, <3>1, RenamedDoes DEF SameOp
  <2>2. CASE /\ proc[m].attempt # 2
             /\ proc' = [proc EXCEPT ![m].pc = "mkdir", ![m].attempt = @ + 1]
    BY <1>1, <2>2, TriesAgainDoes DEF SameOp
  <2> QED
    BY <1>4, <1>15, <2>1, <2>2, QuarantineDoes
<1>16. CASE Compare(m) \/ Restore(m) \/ Remove(m)
  <2>1. PICK pc \in {"remove", "restore", "scan", "rmdir"} : Goto(m, pc)
    BY <1>16 DEF Compare, Restore, Remove
  <2>2. pc \in Pcs
    BY DEF Pcs
  <2> QED
    BY <1>2, <2>1, <2>2
<1>17. CASE Return(m)
  BY <1>3, <1>17 DEF Return
<1> QED
  BY <1>8, <1>9, <1>10, <1>11, <1>12, <1>13, <1>14, <1>15, <1>16, <1>17 DEF OtherStep

LEMMA OtherStepsWane ==
  ASSUME TypeOK, NEW m \in Procs, Recalls(m),
         OtherStep(m)
  PROVE  Wanes /\ revoked' = revoked
<1>1. CASE OpenLive(m) \/ Reopen(m) \/ InspectForRead(m) \/ InspectForCollect(m) \/ Compare(m) \/ Return(m)
  BY <1>1, QuietWanes DEF OpenLive, Reopen, InspectForRead, InspectForCollect, Compare, Return
<1>2. CASE InspectForDelete(m)
  BY <1>2 DEF InspectForDelete, files, Wanes, Reachable, Valid
<1>3. ASSUME UNCHANGED <<status, history>>, Reachable' \subseteq Reachable
      PROVE  Wanes /\ revoked' = revoked
  BY <1>3 DEF Wanes, Valid, history
<1>4. CASE MakeDirectory(m) \/ RemoveDirectory(m)
  BY <1>3, <1>4 DEF MakeDirectory, RemoveDirectory, Reachable
<1>5. CASE UnlinkSource(m) \/ Remove(m)
  <2>1. live' = live /\ \A s \in Slots : quarantine'[s] \in {0, quarantine[s]}
    BY <1>5 DEF UnlinkSource, Remove, TypeOK
  <2>2. Reachable' \subseteq Reachable
    BY <2>1 DEF Reachable
  <2> QED
    BY <1>3, <1>5, <2>2 DEF UnlinkSource, Remove
<1>6. CASE Restore(m)
  <2>1. /\ quarantine' = quarantine /\ live' = (IF live = 0 THEN quarantine[proc[m].name] ELSE live)
        /\ proc[m].name \in Slots
    BY <1>6 DEF Restore, Recalls, At
  <2>2. Reachable' \subseteq Reachable
    BY <2>1 DEF Reachable
  <2> QED
    BY <1>3, <1>6, <2>2 DEF Restore
<1>7. CASE Quarantine(m)
  <2>1. UNCHANGED <<status, history>>
    BY <1>7 DEF Quarantine
  <2>2. CASE Renames(m)
    <3>1. /\ live' = 0 /\ quarantine'[moves + 1] = live
          /\ \A s \in Slots \ {moves + 1} : quarantine'[s] = quarantine[s]
      BY <2>2 DEF Renames
    <3>2. Reachable' \subseteq Reachable
      BY <3>1 DEF Reachable
    <3> QED
      BY <1>3, <2>1, <3>2
  <2>3. CASE UNCHANGED <<quarantine, live, moves>>
    BY <1>3, <2>1, <2>3 DEF Reachable
  <2> QED
    BY <1>7, <2>2, <2>3, QuarantineDoes
<1> QED
  BY <1>1, <1>2, <1>4, <1>5, <1>6, <1>7 DEF OtherStep

LEMMA StepRevoked ==
  ASSUME TypeOK, NEW m \in Procs, Recalls(m), Revoked(m), Step(m)
  PROVE  Revoked(m)'
<1>1. CASE OtherStep(m)
  BY <1>1, StepSameOp, OtherStepsWane, NotInvalidatingReaches, WanesRevoked
<1>2. CASE \E s \in Slots : ConsiderEntry(m, s) \/ RecoverEntry(m, s) \/ InvalidateEntry(m, s)
  <2>1. PICK s \in Slots : ConsiderEntry(m, s) \/ RecoverEntry(m, s) \/ InvalidateEntry(m, s)
    BY <1>2
  <2>2. CASE ConsiderEntry(m, s)
    <3>1. proc'[m].op # "invalidate"
      BY <2>2, ConsiderEntryDoes DEF ConsiderEntry, Opens, SameOp
    <3>2. Wanes /\ revoked' = revoked
      BY <2>2, QuietWanes DEF ConsiderEntry
    <3> QED
      BY <3>1, <3>2, NotInvalidatingReaches, WanesRevoked
  <2>3. CASE RecoverEntry(m, s)
    <3>1. PICK pc \in Pcs : pc = IF HeaderStale(quarantine[s]) THEN "remove" ELSE "restore"
      BY DEF Pcs
    <3>2. TakesEntry(m, s, pc) /\ proc[m].op = "recover"
      BY <2>3, <3>1 DEF RecoverEntry, TakesEntry
    <3>3. proc'[m].op # "invalidate"
      BY <3>2, TakesEntryDoes DEF SameOp
    <3>4. Wanes /\ revoked' = revoked
      BY <2>3, QuietWanes DEF RecoverEntry
    <3> QED
      BY <3>3, <3>4, NotInvalidatingReaches, WanesRevoked
  <2> QED
    BY <2>1, <2>2, <2>3, InvalidateEntryRevoked
<1>3. CASE OpenDirectory(m) \/ ScanEnds(m) \/ TruncateEntry(m) \/ OpenLast(m) \/ TruncateLast(m)
  BY <1>3, OpenDirectoryRevoked, ScanEndsRevoked, TruncateEntryRevoked, OpenLastRevoked, TruncateLastRevoked
<1> QED
  BY <1>1, <1>2, <1>3 DEF Step, OtherStep

\* What is published is newer than what an invalidation is to reach.
LEMMA WriteRevoked ==
  ASSUME TypeOK, Published, NEW m \in Procs, Recalls(m), Revoked(m),
         NEW p \in Procs, NEW b \in Conversations, Write(p, b)
  PROVE  Revoked(m)'
<1>1. /\ latest + 1 \in Inodes /\ latest' = latest + 1 /\ live' = latest + 1
      /\ status' = [status EXCEPT ![latest + 1] = "fresh"]
      /\ UNCHANGED <<quarantine, proc, revoked>>
  BY TeamIs, Numbers DEF Write, TypeOK, Inodes
<1>2. /\ latest \in Nat /\ proc[m].floor \in Nat /\ proc[m].floor <= latest
      /\ \A s \in Slots : quarantine[s] \in Nat /\ quarantine[s] <= latest
  BY InodesAreNumbers DEF Published, Recalls
<1>3. revoked \subseteq 1..latest /\ revoked \subseteq Inodes
  BY DEF Revoked, TypeOK
<1>4. \A i \in Inodes : i # latest + 1 => status'[i] = status[i]
  BY <1>1 DEF TypeOK
<1>5. ASSUME NEW i \in revoked, Valid(i)'
      PROVE  i \notin Reachable'
  <2>1. i \in Inodes /\ i # latest + 1
    BY <1>2, <1>3
  <2>2. Valid(i)
    BY <1>4, <1>5, <2>1 DEF Valid
  <2>3. i \notin Reachable
    BY <2>2 DEF Revoked, RevokedStaysRevoked, Valid
  <2> QED
    BY <1>1, <2>1, <2>3, Numbers DEF Reachable
<1>6. revoked' \subseteq 1..latest'
  BY <1>1, <1>2, <1>3
<1>7. Before(m)' = Before(m)
  <2>1. \A s \in Slots : quarantine[s] \in 1..proc[m].floor =>
           status'[quarantine[s]] = status[quarantine[s]]
    <3> TAKE s \in Slots
    <3> HAVE quarantine[s] \in 1..proc[m].floor
    <3>1. quarantine[s] \in Inodes /\ quarantine[s] # latest + 1
      BY <1>2, InodesAreNumbers DEF TypeOK
    <3> QED
      BY <1>4, <3>1
  <2> QED
    BY <1>1, <2>1 DEF Before, Valid
<1>8. live' > proc[m].floor
  BY <1>1, <1>2
<1>9. Reaches(m)'
  BY <1>1, <1>7, <1>8 DEF Revoked, Reaches, At
<1>10. RevokedStaysRevoked'
  BY <1>1, <1>5 DEF RevokedStaysRevoked, Valid
<1> QED
  BY <1>6, <1>9, <1>10 DEF Revoked

LEMMA RevokedNext ==
  ASSUME NEW m \in Procs, Basis(m), Revoked(m), [Next]_vars
  PROVE  Revoked(m)'
<1>1. /\ TypeOK /\ Published /\ Recalls(m) /\ \A q \in Procs : Recalls(q)
      /\ \A q \in Procs \ {m} : proc[q].op \in {"none", "read"}
  BY DEF Basis, OthersRead
<1>2. ASSUME UNCHANGED <<files, history>>, proc'[m] = proc[m]
      PROVE  Revoked(m)'
  <2>1. Wanes /\ UNCHANGED <<revoked, live, quarantine>>
    BY <1>2, QuietWanes
  <2>2. Reaches(m)'
    BY <1>1, <1>2, <2>1, AwayReaches DEF Revoked, Wanes
  <2> QED
    BY <1>1, <2>1, <2>2, WanesRevoked
<1>3. ASSUME UNCHANGED <<files, history>>, proc'[m].pc \in {"open", "listing", "idle"}
      PROVE  Revoked(m)'
  <2>1. Wanes /\ UNCHANGED <<revoked, live, quarantine>>
    BY <1>3, QuietWanes
  <2> QED
    BY <1>1, <1>3, <2>1, NotInvalidatingReaches, WanesRevoked
<1>4. ASSUME NEW q \in Procs, NEW op \in Ops, NEW b \in Conversations \cup {0}, Start(q, op, b)
      PROVE  Revoked(m)'
  <2>1. UNCHANGED <<files, history>> /\ Puts(q) /\ proc'[q].pc \in {"open", "listing"}
    <3>1. Puts(q) /\ proc'[q].pc = IF op \in {"recover", "invalidate"} THEN "listing" ELSE "open"
      BY <1>1, <1>4, StartDoes
    <3>2. UNCHANGED <<files, history>>
      BY <1>4 DEF Start
    <3> QED
      BY <3>1, <3>2
  <2> QED
    BY <1>2, <1>3, <2>1 DEF Puts
<1>5. ASSUME NEW q \in Procs, Crash(q)
      PROVE  Revoked(m)'
  <2>1. UNCHANGED <<files, history>> /\ Puts(q) /\ proc'[q].pc = "idle"
    BY <1>1, <1>5, FinishDoes, IdleIs DEF Crash
  <2> QED
    BY <1>2, <1>3, <2>1 DEF Puts
<1>6. ASSUME NEW q \in Procs, Step(q)
      PROVE  Revoked(m)'
  <2>1. CASE q = m
    BY <1>1, <1>6, <2>1, StepRevoked
  <2>2. CASE q # m
    BY <1>1, <1>2, <1>6, <2>2, StepKeeps, OthersLook DEF Keeps, Puts
  <2> QED
    BY <2>1, <2>2
<1>7. CASE \E q \in Procs, b \in Conversations : Write(q, b)
  BY <1>1, <1>7, WriteRevoked
<1>8. ASSUME NEW i \in Inodes, Expire(i)
      PROVE  Revoked(m)'
  <2>1. /\ UNCHANGED <<live, quarantine, proc, latest, revoked>>
        /\ status' = [status EXCEPT ![i] = "expired"]
    BY <1>8 DEF Expire, history
  <2>2. \A j \in Inodes : Valid(j)' => Valid(j)
    BY <1>1, <2>1 DEF Valid, TypeOK
  <2>3. Wanes
    BY <2>1, <2>2 DEF Wanes, Reachable
  <2>4. Reaches(m)'
    BY <1>1, <2>1, <2>2, AwayReaches DEF Revoked
  <2> QED
    BY <1>1, <2>1, <2>3, <2>4, WanesRevoked
<1>9. CASE UNCHANGED vars
  BY <1>2, <1>9 DEF vars
<1> QED
  BY <1>4, <1>5, <1>6, <1>7, <1>8, <1>9 DEF Next

-----------------------------------------------------------------------------

\* One process maintains the cache.  It may be any process, and it may itself
\* write, read, delete and invalidate.
OneMaintainer == \E m \in Procs : MaintainedBy(m)

KeptInv(m) == team.crashes <= 1 => Kept(m) /\ \A p \in Procs : Finds(m, p)

\* The inductive invariant of the theorems.
Inv == \A m \in Procs : MaintainedBy(m) => Basis(m) /\ Revoked(m) /\ KeptInv(m)

LEMMA InvInit == Init => Inv
<1> SUFFICES ASSUME Init, NEW m \in Procs
             PROVE  Basis(m) /\ Revoked(m) /\ KeptInv(m)
  BY DEF Inv
<1>1. \A p \in Procs : Finds(m, p)
  BY IdleIs DEF Init, Finds, Intact
<1> QED
  BY <1>1, BasisInit, RevokedInit, KeptInit DEF KeptInv

LEMMA InvNext == Inv /\ [Next]_vars => Inv'
<1> SUFFICES ASSUME Inv, [Next]_vars, NEW m \in Procs, MaintainedBy(m)'
             PROVE  Basis(m)' /\ Revoked(m)' /\ KeptInv(m)'
  BY DEF Inv
<1>1. team' = team
  <2>1. ASSUME NEW p \in Procs, Step(p)
        PROVE  team' = team
    BY <2>1 DEF Step, OpenLive, OpenDirectory, ConsiderEntry, RecoverEntry, InvalidateEntry, ScanEnds,
                Reopen, InspectForRead, InspectForDelete, InspectForCollect, UnlinkSource,
                MakeDirectory, Quarantine, Compare, Restore, Remove, RemoveDirectory, TruncateEntry,
                OpenLast, TruncateLast, Return
  <2> QED
    BY <2>1, ZenonT(60) DEF Next, vars, Start, Write, Expire, Crash
<1>2. MaintainedBy(m)
  BY <1>1 DEF MaintainedBy, Roles
<1>3. Basis(m) /\ Revoked(m) /\ KeptInv(m)
  BY <1>2 DEF Inv
<1>4. KeptInv(m)'
  BY <1>1, <1>3, KeptNext, FindsNext DEF KeptInv
<1> QED
  BY <1>2, <1>3, <1>4, BasisNext, RevokedNext

\* With one process that maintains the cache and at most one that dies in an
\* operation, the newest snapshot is never lost, whatever the others publish and
\* however the moves into and out of the quarantine interleave with it, and a
\* reader that began after it was published finds it or a newer one, under the
\* live name or in the quarantine (discardCacheCandidate, recoverQuarantine,
\* openConversationFile).
THEOREM SnapshotsAreFound == Spec => [](OneMaintainer /\ team.crashes <= 1 => NewestFound)
<1>1. ASSUME Inv, OneMaintainer, team.crashes <= 1
      PROVE  NewestFound
  <2>1. PICK m \in Procs : MaintainedBy(m)
    BY <1>1 DEF OneMaintainer
  <2>2. Basis(m) /\ Kept(m) /\ \A p \in Procs : Finds(m, p)
    BY <1>1, <2>1 DEF Inv, KeptInv
  <2>3. NewestSurvives
    <3>1. Good => latest \in Reachable
      BY <2>2 DEF Kept, Newest, Reachable, Good
    <3> QED
      BY <3>1 DEF NewestSurvives, Good
  <2>4. ASSUME NEW p \in Procs, At(p, "done"), proc[p].floor # 0,
               \A i \in proc[p].floor..latest : status[i] = "fresh" /\ i \notin removed
        PROVE  proc[p].inode >= proc[p].floor
    <3>1. Recalls(p)
      BY <2>2 DEF Basis
    <3>2. proc[p].op \in {"read", "load", "reload"}
      BY <2>4, <3>1 DEF Recalls, OpFits, At
    <3>3. Intact(p)
      BY <2>4, <3>2 DEF Intact
    <3> QED
      BY <2>2, <2>4, <3>3 DEF Finds, At
  <2>5. ReaderSeesLatest
    BY <2>4 DEF ReaderSeesLatest
  <2> QED
    BY <2>3, <2>5 DEF NewestFound
<1>2. Inv => (OneMaintainer /\ team.crashes <= 1 => NewestFound)
  BY <1>1
<1> QED
  BY <1>2, InvInit, InvNext, PTL DEF Spec

\* With one process that maintains the cache, which may die any number of times,
\* what was there before an invalidation that has finished is under no name any
\* more, not even after a restore, unless it is no longer valid
\* (invalidateSessionSnapshots).
THEOREM InvalidatedStaysInvalid == Spec => [](OneMaintainer => RevokedStaysRevoked)
<1>1. Inv => (OneMaintainer => RevokedStaysRevoked)
  BY DEF Inv, OneMaintainer, Revoked
<1> QED
  BY <1>1, InvInit, InvNext, PTL DEF Spec

-----------------------------------------------------------------------------
(* The blobs of a checkpoint: the walk that collects them.                  *)

\* A walk sees its roots and all that what it can read leads to; and it sees
\* no more than any set it could have ended with.
LEMMA WalkIsLeast ==
    ASSUME Constants, NEW readable, NEW roots \in SUBSET Blobs
    PROVE  /\ roots \subseteq Walk(roots, readable)
           /\ WalkEnds(Walk(roots, readable), readable)
           /\ \A seen \in SUBSET Blobs :
                  roots \subseteq seen /\ WalkEnds(seen, readable) => Walk(roots, readable) \subseteq seen
<1>1. roots \subseteq Walk(roots, readable)
  BY DEF Walk
<1>2. ASSUME NEW b \in Walk(roots, readable) \cap readable, NEW x \in Refs[b]
      PROVE  x \in Walk(roots, readable)
  <2>1. x \in Blobs
    BY <1>2 DEF Constants, Walk
  <2>2. ASSUME NEW seen \in SUBSET Blobs, roots \subseteq seen, WalkEnds(seen, readable)
        PROVE  x \in seen
    <3>1. b \in seen
      BY <2>2 DEF Walk
    <3> QED BY <1>2, <2>2, <3>1 DEF WalkEnds
  <2> QED BY <2>1, <2>2 DEF Walk
<1>3. WalkEnds(Walk(roots, readable), readable)
  BY <1>2 DEF WalkEnds
<1>4. \A seen \in SUBSET Blobs :
          roots \subseteq seen /\ WalkEnds(seen, readable) => Walk(roots, readable) \subseteq seen
  BY DEF Walk
<1> QED BY <1>1, <1>3, <1>4

\* Nothing leads nowhere.
LEMMA NothingReached == Reach({}) = {}
<1>1. WalkEnds({}, Blobs)
  BY DEF WalkEnds
<1> QED BY <1>1 DEF Reach, Walk

-----------------------------------------------------------------------------
(* Their store.                                                             *)

\* A snapshot that is compacted keeps what its checkpoint reaches.
LEMMA CompactedServes ==
    ASSUME Reach(ck) \subseteq store \cup Elsewhere
    PROVE  Reach(ck) \subseteq Compacted \cup Elsewhere
BY DEF Compacted, Collected

\* The open Run's blobs are also the conversation's.
ServedInv ==
    /\ run => Reach(base) \cup made \subseteq store \cup Elsewhere
    /\ Reach(ck) \subseteq store \cup Elsewhere
    /\ Reach(disk.ck) \subseteq disk.blobs \cup Elsewhere

\* A Run starts from a checkpoint that is served, and its next one names what
\* it started from or has stored.
LEMMA ServedNext == ServedInv /\ [BlobsNext]_blobsVars => ServedInv'
<1> SUFFICES ASSUME ServedInv, [BlobsNext]_blobsVars
             PROVE  ServedInv'
  OBVIOUS
<1> USE DEF ServedInv
<1>1. CASE RunOpens
  BY <1>1 DEF RunOpens, Reach
<1>2. ASSUME NEW b \in Blobs, SetConversationBlob(b)
      PROVE  ServedInv'
  BY <1>2 DEF SetConversationBlob, Reach
<1>3. CASE SetCheckpoint
  <2>1. PICK roots \in SUBSET Blobs :
           Reach(roots) \subseteq Reach(base) \cup made \cup Elsewhere /\ ck' = roots
    BY <1>3 DEF SetCheckpoint
  <2>2. Reach(roots) \subseteq store \cup Elsewhere
    BY <1>3, <2>1 DEF SetCheckpoint
  <2> QED BY <1>3, <2>1, <2>2 DEF SetCheckpoint, Reach
<1>4. CASE TurnEnds
  <2>1. disk'.ck = ck /\ disk'.blobs = Compacted /\ store' = Compacted
    BY <1>4 DEF TurnEnds, KeptInMemory
  <2> QED BY <1>4, <2>1, CompactedServes DEF TurnEnds, Reach
<1>5. CASE SavesInProgress
  <2>1. disk'.ck = ck /\ disk'.blobs = Compacted /\ store' = store
    BY <1>5 DEF SavesInProgress, KeptInMemory
  <2> QED BY <1>5, <2>1, CompactedServes DEF SavesInProgress, Reach
<1>6. CASE Breaks
  BY <1>6 DEF Breaks, Reach
<1>7. CASE Restarts
  BY <1>7 DEF Restarts, Reach
<1>8. CASE Resets
  <2>1. disk'.ck = {} /\ disk'.blobs = {}
    BY <1>8 DEF Resets
  <2> QED BY <1>8, <2>1, NothingReached DEF Resets, Reach
<1>9. CASE UNCHANGED blobsVars
  BY <1>9 DEF blobsVars, Reach
<1> QED BY <1>1, <1>2, <1>3, <1>4, <1>5, <1>6, <1>7, <1>8, <1>9 DEF BlobsNext

\* Whatever the open Run started from or stored, and whatever the latest and
\* the saved checkpoint reach, can be served or never came to this client.
THEOREM BlobsStayServed == BlobsSpec => []CheckpointServed
<1>1. BlobsInit => ServedInv
  <2> SUFFICES ASSUME BlobsInit
               PROVE  ServedInv
    OBVIOUS
  <2>1. ck = {} /\ disk.ck = {} /\ ~run
    BY DEF BlobsInit
  <2> QED BY <2>1, NothingReached DEF ServedInv
<1>2. ServedInv => CheckpointServed
  BY DEF ServedInv, CheckpointServed, Found
<1> QED BY <1>1, <1>2, ServedNext, PTL DEF BlobsSpec
=============================================================================
