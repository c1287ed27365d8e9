---------------------------- MODULE HistoryImages ----------------------------
(***************************************************************************)
(* Which images of the host's history Cursor's conversation holds           *)
(* (src/protocol/sent-history-images.ts): a Run leaves out those its         *)
(* checkpoint is known to hold.  A checkpoint can be composed before an      *)
(* image arrives at Cursor and be received, or read, after it was sent.      *)
(***************************************************************************)
EXTENDS Naturals, Sequences, SequencesExt

CONSTANTS
    Attached,        \* images the user attaches
    Returned,        \* images host tools return
    MaxCheckpoints,  \* checkpoints of Cursor
    MaxEntries,      \* MAX_CHECKPOINTS_PER_SESSION
    MaxLosses        \* Runs that end with no turn_ended, restarts, resets

Images == Attached \union Returned

None == [is |-> "none"]

VARIABLES
    history,  \* images in the host's history
    entries,  \* heldBySession: [cp, hashes], newest first
    stored,   \* the checkpoint the next Run starts from, 0 for none
    disk,     \* [cp, entries] of the last save
    run,      \* the Run's view, or None
    writing,  \* the result being written: [image, before], or None
    clock,    \* the last frame arrival
    queue,    \* frames that arrived: [is, id, arrival]
    net,      \* frames on their way
    holds,    \* per checkpoint, what it really holds
    cursor,   \* images Cursor's Run has
    wire,     \* images on their way to Cursor
    settled,  \* the last turn's end: [cp, images], cp = 0 for none
    losses
vars == <<history, entries, stored, disk, run, writing, clock, queue, net, holds, cursor,
          wire, settled, losses>>

NotSettled == [cp |-> 0, images |-> {}]

Init ==
    /\ history = {} /\ entries = <<>> /\ stored = 0 /\ run = None /\ writing = None
    /\ disk = [cp |-> 0, entries |-> <<>>]
    /\ clock = 0 /\ queue = <<>> /\ net = <<>> /\ holds = <<>> /\ cursor = {} /\ wire = {}
    /\ settled = NotSettled /\ losses = 0

-----------------------------------------------------------------------------
(* The entries                                                              *)

Entry(cp) == {e \in Range(entries) : e.cp = cp}
Held(cp) == UNION {e.hashes : e \in Entry(cp)}

\* Newest first, at most MaxEntries; nothing is recorded of no images.
Recorded(cp, hashes) ==
    LET others == SelectSeq(entries, LAMBDA e : e.cp # cp)
        all == <<[cp |-> cp, hashes |-> hashes]>> \o others
    IN IF hashes = {} THEN entries ELSE SubSeq(all, 1, IF Len(all) < MaxEntries THEN Len(all) ELSE MaxEntries)

\* The first image written no earlier than the checkpoint arrived ends those it
\* may hold.
Earlier(sent, arrival) ==
    LET later == {k \in DOMAIN sent : sent[k].after >= arrival}
    IN IF later = {} THEN sent ELSE SubSeq(sent, 1, (CHOOSE k \in later : \A j \in later : k <= j) - 1)
Names(sent) == {s.image : s \in Range(sent)}

\* historyImagesHeldAt
HeldAt(r, arrival) ==
    r.held \union r.checkpointed
        \union {s.image : s \in {t \in Range(r.sent) : t.after < arrival}}

-----------------------------------------------------------------------------
(* Runs                                                                     *)

\* The user's message holds an image.
Attaches(i) ==
    /\ run = None /\ i \in Attached \ history
    /\ history' = history \union {i}
    /\ UNCHANGED <<entries, stored, disk, run, writing, clock, queue, net, holds, cursor,
                   wire, settled, losses>>

Run(held, sent, opened) ==
    [is |-> "run", held |-> held, checkpointed |-> {}, sent |-> sent, opened |-> opened,
     resume |-> 0, images |-> {}, after |-> 0, unacked |-> {}]
Sent(images) == [k \in 1..Len(SetToSeq(images)) |-> [image |-> SetToSeq(images)[k], after |-> clock]]
Truth(cp) == IF cp = 0 THEN {} ELSE holds[cp]

LeftOut == Held(stored)

\* A Run starts from the stored checkpoint and sends the images it is not known
\* to hold.
Opens ==
    LET images == history \ LeftOut
    IN /\ run = None
       /\ run' = Run(LeftOut, Sent(images), images)
       /\ cursor' = Truth(stored) \union images
       /\ UNCHANGED <<history, entries, stored, disk, writing, clock, queue, net, holds, wire,
                      settled, losses>>

\* A tool's result with an image is written; frames may arrive while it drains.
WriteBegins(i) ==
    /\ run # None /\ writing = None /\ i \in Returned \ history
    /\ writing' = [is |-> "writing", image |-> i, before |-> clock]
    /\ history' = history \union {i} /\ wire' = wire \union {i}
    /\ UNCHANGED <<entries, stored, disk, run, clock, queue, net, holds, cursor, settled, losses>>

\* A mutant: the result leaves the checkpoint usable (invalidateResumeCheckpoint).
Revoked_Not == run.resume
Revoked == 0

WriteEnds ==
    /\ writing # None
    /\ run' = [run EXCEPT !.resume = Revoked, !.images = {}, !.after = writing.before,
                          !.unacked = @ \union {[image |-> writing.image, before |-> writing.before]},
                          !.sent = Append(@, [image |-> writing.image, after |-> clock])]
    /\ writing' = None
    /\ UNCHANGED <<history, entries, stored, disk, clock, queue, net, holds, cursor, wire,
                   settled, losses>>

\* A mutant: order of receipt is proof enough.
Accepts_Any(arrival) == run.after < arrival
\* A checkpoint is taken to hold the results once Cursor completed their calls
\* (acceptResumeCheckpoint).
Accepts(arrival) == run.unacked = {} /\ run.after < arrival

\* A mutant: the images count as held before the turn ends.
NotedHeld_Now(cp, arrival) == HeldAt(run, arrival)
\* What the checkpoint of the Run's middle is known to hold.
NotedHeld(cp, arrival) == run.held

ReadsCheckpoint ==
    LET frame == Head(queue)
        earlier == Earlier(run.sent, frame.arrival)
        noted == [run EXCEPT !.checkpointed = @ \union Names(earlier),
                             !.sent = SubSeq(@, Len(earlier) + 1, Len(@))]
    IN /\ run # None /\ writing = None /\ queue # <<>> /\ frame.is = "checkpoint"
       /\ queue' = Tail(queue)
       /\ stored' = frame.id
       /\ run' = IF Accepts(frame.arrival)
                 THEN [noted EXCEPT !.resume = frame.id, !.after = 0,
                                    !.images = HeldAt(run, frame.arrival)]
                 ELSE noted
       /\ entries' = Recorded(frame.id, NotedHeld(frame.id, frame.arrival))
       /\ UNCHANGED <<history, disk, writing, clock, net, holds, cursor, wire, settled, losses>>

\* Cursor completed the call of a result (acknowledgeHostResults).
ReadsCompletion ==
    LET frame == Head(queue)
    IN /\ run # None /\ writing = None /\ queue # <<>> /\ frame.is = "completed"
       /\ queue' = Tail(queue)
       /\ run' = [run EXCEPT !.unacked = {u \in @ : u.image # frame.id \/ frame.arrival <= u.before}]
       /\ UNCHANGED <<history, entries, stored, disk, writing, clock, net, holds, cursor, wire,
                      settled, losses>>

Gone ==
    /\ writing' = None /\ queue' = <<>> /\ net' = <<>> /\ wire' = {}

\* confirmHistoryImagesAtTurnEnd, and the terminal save.
TurnEnds ==
    LET held == run.held \union run.checkpointed
        confirmed == IF run.resume # 0 THEN Recorded(run.resume, held) ELSE entries
    IN /\ run # None /\ writing = None /\ queue = <<>> /\ net = <<>> /\ wire = {}
       /\ entries' = confirmed
       /\ settled' = IF run.resume # 0 THEN [cp |-> run.resume, images |-> run.opened] ELSE settled
       /\ disk' = [cp |-> stored, entries |-> SelectSeq(confirmed, LAMBDA e : e.cp = stored)]
       /\ run' = None /\ cursor' = {}
       /\ Gone
       /\ UNCHANGED <<history, stored, clock, holds, losses>>

Loses == losses < MaxLosses /\ losses' = losses + 1

\* The Run is stopped or fails, and the next starts from what is stored.
Stops ==
    /\ run # None /\ Loses
    /\ run' = None /\ cursor' = {}
    /\ Gone
    /\ UNCHANGED <<history, entries, stored, disk, clock, holds, settled>>

\* carryHistoryImages
Carried == run.images

\* The Run is lost and resumed from the checkpoint it accepted: no image is sent.
Resumes ==
    /\ run # None /\ writing = None /\ run.resume # 0 /\ Loses
    /\ run' = [Run(Held(run.resume), <<>>, run.opened) EXCEPT
                   !.checkpointed = Carried \ Held(run.resume)]
    /\ stored' = run.resume
    /\ cursor' = Truth(run.resume)
    /\ Gone
    /\ UNCHANGED <<history, entries, disk, clock, holds, settled>>

\* The conversation is replaced: what the old one held is forgotten.
Resets ==
    /\ run = None /\ Loses
    /\ stored' = 0 /\ entries' = <<>> /\ settled' = NotSettled
    /\ disk' = [cp |-> 0, entries |-> <<>>]
    /\ UNCHANGED <<history, run, writing, clock, queue, net, holds, cursor, wire>>

\* A save in the middle of a Run holds the checkpoint's entry.
Saves ==
    /\ run # None
    /\ disk' = [cp |-> stored, entries |-> SelectSeq(entries, LAMBDA e : e.cp = stored)]
    /\ UNCHANGED <<history, entries, stored, run, writing, clock, queue, net, holds, cursor, wire,
                   settled, losses>>

Restarts ==
    /\ Loses
    /\ stored' = disk.cp /\ entries' = disk.entries /\ settled' = NotSettled
    /\ run' = None /\ cursor' = {}
    /\ Gone
    /\ UNCHANGED <<history, disk, clock, holds>>

-----------------------------------------------------------------------------
(* Cursor and the network                                                   *)

Sends(frame) == net' = Append(net, frame)

CursorTakes(i) ==
    /\ i \in wire
    /\ wire' = wire \ {i} /\ cursor' = cursor \union {i}
    /\ UNCHANGED <<history, entries, stored, disk, run, writing, clock, queue, net, holds,
                   settled, losses>>

CursorCheckpoints ==
    /\ run # None /\ Len(holds) < MaxCheckpoints
    /\ holds' = Append(holds, cursor)
    /\ Sends([is |-> "checkpoint", id |-> Len(holds) + 1])
    /\ UNCHANGED <<history, entries, stored, disk, run, writing, clock, queue, cursor, wire,
                   settled, losses>>

\* Once for each result.
CursorCompletes(i) ==
    /\ run # None /\ i \in cursor
    /\ (writing # None /\ writing.image = i) \/ \E u \in run.unacked : u.image = i
    /\ \A f \in Range(net \o queue) : f.is = "completed" => f.id # i
    /\ Sends([is |-> "completed", id |-> i])
    /\ UNCHANGED <<history, entries, stored, disk, run, writing, clock, queue, holds, cursor,
                   wire, settled, losses>>

Arrives ==
    /\ net # <<>>
    /\ clock' = clock + 1
    /\ queue' = Append(queue, [is |-> Head(net).is, id |-> Head(net).id, arrival |-> clock + 1])
    /\ net' = Tail(net)
    /\ UNCHANGED <<history, entries, stored, disk, run, writing, holds, cursor, wire, settled,
                   losses>>

Next ==
    \/ \E i \in Attached : Attaches(i)
    \/ \E i \in Returned : WriteBegins(i)
    \/ \E i \in Returned : CursorTakes(i)
    \/ \E i \in Returned : CursorCompletes(i)
    \/ Opens \/ WriteEnds \/ ReadsCheckpoint \/ ReadsCompletion \/ TurnEnds
    \/ Stops \/ Resumes \/ Resets \/ Saves \/ Restarts
    \/ CursorCheckpoints \/ Arrives

Spec == Init /\ [][Next]_vars

-----------------------------------------------------------------------------
\* An image of the host's history is in the conversation of the Run, or on its
\* way there: none is left out that Cursor does not have.
ImagesReachCursor == run # None => history \subseteq cursor \union wire

\* An image a Run opened with is not sent again once its turn has ended on a
\* checkpoint of its own, whether the Run was cut and resumed or not.
SettledNotSentAgain ==
    settled.cp # 0 /\ Entry(settled.cp) # {} => settled.images \subseteq Held(settled.cp)
=============================================================================
