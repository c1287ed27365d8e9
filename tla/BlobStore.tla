------------------------------ MODULE BlobStore ------------------------------
(***************************************************************************)
(* The blobs a conversation's checkpoint refers to (protocol/blob-store.ts, *)
(* blob-reachability.ts, kv.ts). Cursor stores large values with the client *)
(* and asks for them again in a later Run, so the client must keep all a    *)
(* checkpoint reaches, in memory and in the snapshot a restart reads, and   *)
(* may drop the rest.                                                       *)
(***************************************************************************)
EXTENDS Naturals

CONSTANTS
    Blobs,    \* values by their hashes
    Refs,     \* the blobs each one refers to
    Elsewhere, \* those Cursor never stored with this client
    MaxRuns   \* bound: Runs of the conversation

VARIABLES
    store,    \* the conversation's blobs in memory
    own,      \* session.blobs of the open Run
    ck,       \* the latest checkpoint: the blobs it names
    run, runs, \* a Run is open; Runs so far
    base,     \* the checkpoint it started from
    made,     \* the blobs it stored
    disk      \* the snapshot

blobsVars == <<store, own, ck, run, runs, base, made, disk>>

(* What the constants are: the proofs need no more.                          *)
Constants == Refs \in [Blobs -> SUBSET Blobs]

(* A walk that reads the blobs of a set ends when what they lead to is in.   *)
WalkEnds(seen, readable) == \A b \in seen \cap readable : Refs[b] \subseteq seen

(* All that a walk from the roots sees, and what the roots lead to.          *)
Walk(roots, readable) ==
    {b \in Blobs : \A seen \in SUBSET Blobs : roots \subseteq seen /\ WalkEnds(seen, readable) => b \in seen}
Reach(roots) == Walk(roots, Blobs)

BlobsInit ==
    /\ store = {} /\ own = {} /\ ck = {}
    /\ run = FALSE /\ runs = 0 /\ base = {} /\ made = {}
    /\ disk = [ck |-> {}, blobs |-> {}]

RunOpens ==
    /\ ~run /\ runs < MaxRuns
    /\ run' = TRUE /\ runs' = runs + 1
    /\ base' = ck /\ made' = {} /\ own' = {}
    /\ UNCHANGED <<store, ck, disk>>

(* set_blob_args.                                                            *)
SetConversationBlob(b) ==
    /\ run /\ b \notin Elsewhere
    /\ store' = store \cup {b} /\ own' = own \cup {b} /\ made' = made \cup {b}
    /\ UNCHANGED <<ck, run, runs, base, disk>>

(* get_blob_args: an unknown hash is answered with nothing.                  *)
Found(b) == b \in own \cup store

(* A checkpoint reaches what the Run started from or has stored before it.   *)
SetCheckpoint ==
    /\ run
    /\ \E roots \in SUBSET Blobs :
          /\ Reach(roots) \subseteq Reach(base) \cup made \cup Elsewhere
          /\ roots # {} /\ ck' = roots
    /\ UNCHANGED <<store, own, run, runs, base, made, disk>>

-----------------------------------------------------------------------------
(* compactConversationBlobs: a blob the walk cannot read keeps them all.     *)

(* Mutant of Collected: the walk stops at what it cannot read, and keeps that. *)
Collected_SoFar(roots) == Walk(roots, store)

(* Mutant of Collected: only what the checkpoint names itself. *)
Collected_Named(roots) == roots

Collected(roots) == IF Reach(roots) \subseteq store THEN Reach(roots) ELSE store

Compacted == IF ck = {} THEN store ELSE Collected(ck) \cap store

(* Mutant of KeptInMemory: a Run in progress is compacted in memory too. *)
KeptInMemory_Compacted(inProgress) == Compacted

KeptInMemory(inProgress) == IF inProgress THEN store ELSE Compacted

(* persistConversationState, at turn_ended and while a Run goes on.          *)
TurnEnds ==
    /\ run /\ run' = FALSE
    /\ disk' = [ck |-> ck, blobs |-> Compacted]
    /\ store' = KeptInMemory(FALSE)
    /\ own' = {} /\ made' = {} /\ base' = {}
    /\ UNCHANGED <<ck, runs>>

SavesInProgress ==
    /\ run
    /\ disk' = [ck |-> ck, blobs |-> Compacted]
    /\ store' = KeptInMemory(TRUE)
    /\ UNCHANGED <<own, ck, run, runs, base, made>>

(* The Run is lost without a save.                                           *)
Breaks ==
    /\ run /\ run' = FALSE
    /\ own' = {} /\ made' = {} /\ base' = {}
    /\ UNCHANGED <<store, ck, runs, disk>>

(* The process starts anew from the snapshot (restoreConversationBlobs).     *)
Restarts ==
    /\ store' = disk.blobs /\ ck' = disk.ck
    /\ run' = FALSE /\ own' = {} /\ made' = {} /\ base' = {}
    /\ UNCHANGED <<runs, disk>>

(* The session takes a new conversation: what the old one held is dropped.   *)
Resets ==
    /\ ~run /\ ck # {}
    /\ store' = {} /\ ck' = {} /\ disk' = [ck |-> {}, blobs |-> {}]
    /\ UNCHANGED <<own, run, runs, base, made>>

BlobsNext ==
    \/ RunOpens \/ SetCheckpoint \/ TurnEnds \/ SavesInProgress \/ Breaks \/ Restarts \/ Resets
    \/ \E b \in Blobs : SetConversationBlob(b)

BlobsSpec == BlobsInit /\ [][BlobsNext]_blobsVars

-----------------------------------------------------------------------------
(* Whatever Cursor may ask for can be served: what the open Run started      *)
(* from, what its next checkpoint may name, and what the latest and the      *)
(* saved checkpoint reach.                                                   *)
CheckpointServed ==
    /\ run => \A b \in (Reach(base) \cup made) \ Elsewhere : Found(b)
    /\ Reach(ck) \subseteq store \cup Elsewhere
    /\ Reach(disk.ck) \subseteq disk.blobs \cup Elsewhere
=============================================================================
