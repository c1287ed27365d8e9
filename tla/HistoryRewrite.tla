--------------------------- MODULE HistoryRewrite ---------------------------
(***************************************************************************)
(* The host replaces a session's history by a summary: another model's      *)
(* compaction, told by an event (src/host-history-rewrite.ts), or one that   *)
(* this provider ran itself (resolveTurnConversationReset).  The session's   *)
(* next turn must then start a new Cursor conversation, once, also after a   *)
(* restart: the event leaves a receipt, which a request waits for until it   *)
(* is on the disk.  Receipts, saves and deletes of the snapshot take turns   *)
(* in one lane (queueConversationStateWrite).                               *)
(***************************************************************************)
EXTENDS Naturals, Sequences

CONSTANTS
    MaxRewrites,  \* compactions of the session
    MaxCopies,    \* times an event may be heard
    MaxConvs,     \* conversations
    MaxLane,      \* writes waiting
    MaxFaults     \* restarts and failed writes

VARIABLES
    era,      \* compactions the host has committed
    copies,   \* copies[e]: times the event of compaction e may still be heard
    receipt,  \* the session's receipt, or NoReceipt
    flag,     \* postCompactionRebaseBySession
    bound,    \* the conversation the session is bound to, or NoConv
    convs,    \* conversations so far
    disk,     \* the snapshot: [conv, post], or NoSnapshot
    lane,     \* writes, oldest first
    run,      \* the open Run: [conv, post, held], or NoRun
    gone,     \* a Run closed while its last save was to come, or NoRun
    request,  \* "idle", "asked", "passed": the turn being opened
    known,    \* the latest compaction this session was told of, durably
    excused,  \* the conversation is newer than the event heard first, or its
              \* delete was lost
    turn,     \* what the latest turn did
    faults    \* restarts and failed writes so far
vars == <<era, copies, receipt, flag, bound, convs, disk, lane, run, gone, request,
          known, excused, turn, faults>>

NoReceipt == [event |-> 0, pending |-> FALSE, durable |-> FALSE, saving |-> FALSE]
\* A conversation was seeded with the history of an era; a summary's
\* conversation serves no other turn.
NoConv == [id |-> 0, era |-> 0, summary |-> FALSE]
NoSnapshot == [conv |-> NoConv, post |-> FALSE]
NoRun == [conv |-> NoConv, post |-> FALSE, held |-> FALSE]
NoTurn == [did |-> "none", seeded |-> 0, reset |-> FALSE, told |-> 0, needed |-> FALSE]

Init ==
    /\ era = 0 /\ copies = [e \in 1..MaxRewrites |-> 0]
    /\ receipt = NoReceipt /\ flag = FALSE
    /\ bound = NoConv /\ convs = 0
    /\ disk = NoSnapshot /\ lane = <<>>
    /\ run = NoRun /\ gone = NoRun /\ request = "idle"
    /\ known = 0 /\ excused = FALSE /\ turn = NoTurn
    /\ faults = 0

-----------------------------------------------------------------------------
(* Receipts.                                                                *)

\* A mutant: a receipt forgets that it was consumed.
Noted_Again(e) == [event |-> e, pending |-> TRUE, durable |-> FALSE, saving |-> FALSE]

\* The event of compaction e is heard: the latest event's receipt stays.
Noted(e) == IF receipt.event = e THEN receipt
            ELSE [event |-> e, pending |-> TRUE, durable |-> FALSE, saving |-> FALSE]

\* A receipt that is not durable is saved, once at a time.
ReceiptWrite == [kind |-> "receipt", conv |-> NoConv, post |-> TRUE, begun |-> FALSE]
Saving(r) == [r EXCEPT !.saving = ~r.durable]
Queued(r) == IF r.durable \/ r.saving THEN lane ELSE Append(lane, ReceiptWrite)

\* The host commits another model's compaction; its event may be heard by
\* several copies of the plugin, or late.
HostRewrites ==
    /\ era < MaxRewrites /\ request = "idle"
    /\ era' = era + 1
    /\ copies' = [copies EXCEPT ![era + 1] = MaxCopies]
    /\ UNCHANGED <<gone, receipt, flag, bound, convs, disk, lane, run, request, known, excused, turn, faults>>

\* noteHostHistoryRewrite.
EventHeard(e) ==
    /\ copies[e] > 0 /\ Len(lane) < MaxLane
    \* Every copy of an event is heard before the next event.
    /\ \A older \in 1..(e - 1) : copies[older] = 0
    /\ copies' = [copies EXCEPT ![e] = @ - 1]
    /\ receipt' = Saving(Noted(e))
    /\ lane' = Queued(Noted(e))
    /\ excused' = (excused \/ (copies[e] = MaxCopies /\ bound.era >= e))
    /\ UNCHANGED <<gone, era, flag, bound, convs, disk, run, request, known, turn, faults>>

\* A mutant: the receipt keeps asking.
Acknowledged_Not == receipt
\* The provider has bound a new conversation.
Acknowledged == [receipt EXCEPT !.pending = FALSE]

-----------------------------------------------------------------------------
(* A request.  Title requests and helpers consume nothing: they are not      *)
(* requests here.                                                           *)

\* restoreSessionState: without a Run of its own, a session that is not
\* bound takes up the snapshot with its flag.
Asks ==
    /\ request = "idle" /\ turn' = NoTurn
    /\ run.conv # NoConv => run.held
    /\ request' = "asked"
    /\ IF run = NoRun /\ bound = NoConv /\ lane = <<>>
       THEN bound' = disk.conv /\ flag' = disk.post
       ELSE UNCHANGED <<gone, bound, flag>>
    /\ UNCHANGED <<gone, era, copies, receipt, convs, disk, lane, run, known, excused, faults>>

\* A mutant: a request does not wait for the receipt's save.
MayPass_Anytime == TRUE
\* awaitHostHistoryRewrite.
MayPass == receipt.pending => receipt.durable

\* The provider may be asked for a compaction of its own.
MaySummarize == request = "idle" /\ run = NoRun /\ era < MaxRewrites

\* A request waits for the receipt, saving it again when that failed; so does
\* a compaction.
Awaits ==
    /\ request = "asked" \/ MaySummarize
    /\ ~MayPass
    /\ ~receipt.saving /\ Len(lane) < MaxLane
    /\ receipt' = Saving(receipt) /\ lane' = Queued(receipt)
    /\ UNCHANGED <<gone, era, copies, flag, bound, convs, disk, run, request, known, excused, turn, faults>>

\* A Run that waits on the replaced history is closed.
Passes ==
    /\ request = "asked" /\ MayPass
    /\ request' = "passed"
    /\ run' = IF receipt.pending THEN NoRun ELSE run
    /\ gone' = IF receipt.pending THEN run ELSE gone
    /\ known' = IF receipt.pending THEN receipt.event ELSE known
    /\ turn' = [NoTurn EXCEPT !.told = known']
    /\ UNCHANGED <<era, copies, receipt, flag, bound, convs, disk, lane, excused, faults>>

\* The results of a step continue the Run that waits for them.
Continues ==
    /\ request = "passed" /\ run.held
    /\ run' = [run EXCEPT !.held = FALSE]
    /\ request' = "idle"
    /\ turn' = [turn EXCEPT !.did = "continued", !.seeded = run.conv.era]
    /\ UNCHANGED <<gone, era, copies, receipt, flag, bound, convs, disk, lane, known, excused, faults>>

\* A mutant: only the event asks for a new conversation.
Reset_EventOnly == receipt.pending
\* resolveTurnConversationReset, for a turn that is no compaction.
Reset == receipt.pending \/ flag

\* Whether a turn needs a new conversation: it has none, or its own is from
\* before a compaction the host has committed, or made for a summary.
Outdated == bound = NoConv \/ bound.era < era \/ bound.summary

\* A new conversation is seeded with the host's history; the old one's
\* snapshot is deleted.
Delete(conv) == [kind |-> "delete", conv |-> conv, post |-> FALSE, begun |-> FALSE]
Bind(summary) ==
    /\ convs < MaxConvs
    /\ convs' = convs + 1
    /\ bound' = [id |-> convs + 1, era |-> era, summary |-> summary]
StartOver(summary) ==
    /\ Bind(summary)
    /\ receipt' = Acknowledged
    /\ Len(lane) < MaxLane /\ lane' = Append(lane, Delete(bound))
    /\ excused' = FALSE

\* A turn opens its Run, the receipt awaited once more.
Opens ==
    /\ request = "passed" /\ ~run.held /\ MayPass
    /\ \/ Reset /\ StartOver(FALSE)
       \/ ~Reset /\ bound = NoConv /\ Bind(FALSE) /\ UNCHANGED <<receipt, lane, excused>>
       \/ ~Reset /\ bound # NoConv /\ UNCHANGED <<bound, convs, receipt, lane, excused>>
    /\ flag' = FALSE
    /\ run' = [conv |-> bound', post |-> FALSE, held |-> FALSE]
    /\ request' = "idle"
    /\ turn' = [turn EXCEPT !.did = "opened", !.seeded = bound'.era, !.reset = Reset,
                            !.needed = Outdated \/ excused]
    /\ UNCHANGED <<gone, era, copies, disk, known, faults>>

\* A mutant: the summary's conversation serves the next turn.
AfterSummary_Reused == FALSE
AfterSummary == TRUE

\* The provider runs the compaction itself, in a conversation of its own, the
\* receipt awaited.
Summarizes ==
    /\ MaySummarize /\ MayPass
    /\ StartOver(TRUE)
    /\ flag' = AfterSummary
    /\ run' = [conv |-> bound', post |-> AfterSummary, held |-> FALSE]
    /\ turn' = NoTurn
    /\ UNCHANGED <<gone, era, copies, disk, request, known, faults>>

\* The request is stopped, or the receipt's save failed.
RequestFails ==
    /\ request # "idle"
    /\ request' = "idle" /\ turn' = NoTurn
    /\ UNCHANGED <<gone, era, copies, receipt, flag, bound, convs, disk, lane, run, known, excused, faults>>

-----------------------------------------------------------------------------
(* The Run, and the snapshot's lane.                                        *)

Save(r) == [kind |-> "save", conv |-> r.conv, post |-> r.post, begun |-> FALSE]

\* A step ends on tool calls, and the Run waits; it is saved in progress.
StepEnds ==
    /\ request = "idle" /\ run # NoRun /\ ~run.held /\ ~run.conv.summary /\ Len(lane) < MaxLane
    /\ run' = [run EXCEPT !.held = TRUE]
    /\ lane' = Append(lane, Save(run))
    /\ turn' = NoTurn
    /\ UNCHANGED <<gone, era, copies, receipt, flag, bound, convs, disk, request, known, excused, faults>>

\* The turn ends, and is saved.
TurnEnds ==
    /\ request = "idle" /\ run # NoRun /\ ~run.held /\ Len(lane) < MaxLane
    /\ run' = NoRun
    /\ lane' = Append(lane, Save(run))
    /\ turn' = NoTurn
    /\ UNCHANGED <<gone, era, copies, receipt, flag, bound, convs, disk, request, known, excused, faults>>

\* A closed Run's final frame was still in flight, and saves it.
LateSave ==
    /\ gone # NoRun /\ Len(lane) < MaxLane
    /\ lane' = Append(lane, Save(gone)) /\ gone' = NoRun
    /\ UNCHANGED <<era, copies, receipt, flag, bound, convs, disk, run, request, known,
                   excused, turn, faults>>

\* The host commits the provider's summary once its turn is saved.
SummaryCommitted ==
    /\ request = "idle" /\ run = NoRun /\ lane = <<>> /\ bound.summary
    /\ era < MaxRewrites /\ bound.era = era
    /\ era' = era + 1 /\ known' = era + 1
    /\ turn' = NoTurn
    /\ UNCHANGED <<gone, copies, receipt, flag, bound, convs, disk, lane, run, request, excused, faults>>

\* A mutant: a late save is not fenced.
Superseded_Never(w) == FALSE
\* A newer Run may have bound another conversation since.
Superseded(w) == w.conv # bound

\* A save begins: it is dropped when superseded, and takes the pending
\* receipt with it.
SaveBegins ==
    /\ lane # <<>> /\ Head(lane).kind = "save" /\ ~Head(lane).begun
    /\ lane' = IF Superseded(Head(lane)) THEN Tail(lane)
               ELSE [lane EXCEPT ![1].begun = TRUE, ![1].post = @ \/ receipt.pending]
    /\ UNCHANGED <<gone, era, copies, receipt, flag, bound, convs, disk, run, request, known, excused, turn, faults>>

SaveLands ==
    /\ lane # <<>> /\ Head(lane).kind = "save" /\ Head(lane).begun
    /\ disk' = [conv |-> Head(lane).conv, post |-> Head(lane).post]
    /\ lane' = Tail(lane)
    /\ UNCHANGED <<gone, era, copies, receipt, flag, bound, convs, run, request, known, excused, turn, faults>>

\* A save that fails deletes the older snapshot.
SaveFails ==
    /\ lane # <<>> /\ Head(lane).kind = "save" /\ Head(lane).begun
    /\ faults < MaxFaults /\ faults' = faults + 1
    /\ disk' = NoSnapshot
    /\ lane' = Tail(lane)
    /\ UNCHANGED <<gone, era, copies, receipt, flag, bound, convs, run, request, known, excused, turn>>

\* The snapshot is marked; without one a restart starts from the host's
\* history anyway.
Marked(snapshot) == IF snapshot = NoSnapshot THEN snapshot ELSE [snapshot EXCEPT !.post = TRUE]

ReceiptLands ==
    /\ lane # <<>> /\ Head(lane).kind = "receipt"
    /\ disk' = Marked(disk)
    /\ receipt' = [receipt EXCEPT !.durable = TRUE, !.saving = FALSE]
    /\ known' = receipt.event
    /\ lane' = Tail(lane)
    /\ UNCHANGED <<gone, era, copies, flag, bound, convs, run, request, excused, turn, faults>>

ReceiptFails ==
    /\ lane # <<>> /\ Head(lane).kind = "receipt"
    /\ faults < MaxFaults /\ faults' = faults + 1
    /\ receipt' = [receipt EXCEPT !.saving = FALSE]
    /\ request' = IF request = "asked" THEN "idle" ELSE request
    /\ lane' = Tail(lane)
    /\ UNCHANGED <<gone, era, copies, flag, bound, convs, disk, run, known, excused, turn>>

Deleted ==
    /\ lane # <<>> /\ Head(lane).kind = "delete"
    /\ disk' = IF Head(lane).conv \in {NoConv, disk.conv} THEN NoSnapshot ELSE disk
    /\ lane' = Tail(lane)
    /\ UNCHANGED <<gone, era, copies, receipt, flag, bound, convs, run, request, known, excused, turn, faults>>

\* The process dies: events not heard yet are lost with it.
Restarts ==
    /\ faults < MaxFaults /\ faults' = faults + 1
    /\ copies' = [e \in DOMAIN copies |-> 0]
    /\ receipt' = NoReceipt /\ flag' = FALSE /\ bound' = NoConv
    /\ lane' = <<>> /\ run' = NoRun /\ gone' = NoRun
    /\ request' = "idle" /\ turn' = NoTurn
    /\ excused' = (excused \/ \E i \in DOMAIN lane : lane[i].kind = "delete")
    /\ UNCHANGED <<era, convs, disk, known>>

Next ==
    \/ HostRewrites
    \/ \E e \in 1..MaxRewrites : EventHeard(e)
    \/ Asks
    \/ Awaits
    \/ Passes
    \/ Continues
    \/ Opens
    \/ Summarizes
    \/ RequestFails
    \/ StepEnds
    \/ TurnEnds
    \/ LateSave
    \/ SummaryCommitted
    \/ SaveBegins
    \/ SaveLands
    \/ SaveFails
    \/ ReceiptLands
    \/ ReceiptFails
    \/ Deleted
    \/ Restarts

Spec == Init /\ [][Next]_vars

-----------------------------------------------------------------------------
\* No turn opens or continues a conversation from before a compaction the
\* session was told of: not by an event heard before the request, and not by
\* one whose receipt, or summary, was saved before a restart.
RewriteHonoured == turn.did # "none" => turn.seeded >= turn.told

\* And only such a turn starts over: one compaction costs one conversation,
\* however often its event is heard.
RebasedOnce == turn.reset => turn.needed
=============================================================================
