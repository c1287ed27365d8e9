--------------------------- MODULE TurnProvenance ---------------------------
(***************************************************************************)
(* Whose work the host's history ends on (src/protocol/turn-provenance.ts). *)
(*                                                                         *)
(* A session's Cursor conversation knows what Cursor produced in it.  The    *)
(* host may also answer with another model, take steps back, keep only a     *)
(* part of a step it stopped, or drop it.  So the provider records what its  *)
(* latest step handed to the host, saves that record with the conversation,  *)
(* and compares it with the last assistant message of the next turn: when    *)
(* they differ, the turn starts a new conversation from the host's history. *)
(*                                                                         *)
(* A step is the sequence of its parts, each a text, a piece of reasoning    *)
(* or a tool call, marked with the step it comes from: two steps share no    *)
(* words, but another model may repeat those of an older step.              *)
(***************************************************************************)
EXTENDS Naturals, Sequences, SequencesExt, FiniteSets

CONSTANTS
    MaxSteps,   \* steps of the session, the host's other models' included
    MaxParts,   \* parts of a step
    MaxConvs,   \* conversations of the session
    Cap,        \* words of a step that are recorded (MAX_TEXT_CHARS)
    MaxFaults,  \* crashes, evictions and failed saves
    DropsAgain  \* a stopped step may follow a stopped one, and be dropped

VARIABLES
    history,    \* the host's assistant messages: [id, whole, parts]
    entry,      \* the session's record, or NoEntry
    bound,      \* the conversation the session is bound to, 0 without one
    knows,      \* the steps that conversation's checkpoint holds
    disk,       \* the saved conversation with its record
    unsaved,    \* the latest save failed, in this process
    run,        \* "idle", "open", "streaming", "ending", "ended" or "held"
    step,       \* the current step: [id, parts]
    kept,       \* the host holds the step of an ending Run already in part
    steps,      \* steps so far
    faults,     \* faults so far
    latest,     \* the conversation's latest step in the history, 0 without
    judged,     \* what the last turn opened on
    excused     \* steps a turn opened on without a record, or without evidence
vars == <<history, entry, bound, knows, disk, unsaved, run, step, kept, steps,
          faults, latest, judged, excused>>

NoParts == <<>>
NoEntry == [conv |-> 0, parts |-> NoParts, pending |-> FALSE,
            unfinished |-> FALSE, previous |-> NoParts]
Fresh(conv) == [NoEntry EXCEPT !.conv = conv]
NoDisk == [conv |-> 0, knows |-> {}, rec |-> NoEntry]
NoJudgement == [foreign |-> FALSE, known |-> FALSE, mine |-> FALSE]

Init ==
    /\ history = <<>>
    /\ entry = NoEntry
    /\ bound = 0 /\ knows = {}
    /\ disk = NoDisk /\ unsaved = FALSE
    /\ run = "idle" /\ step = [id |-> 0, parts |-> NoParts] /\ kept = FALSE
    /\ steps = 0 /\ faults = 0
    /\ latest = 0 /\ judged = NoJudgement /\ excused = {}

-----------------------------------------------------------------------------
(* What a step says.                                                        *)

First(s) == SubSeq(s, 1, IF Len(s) < Cap THEN Len(s) ELSE Cap)
CallIds(parts) == {parts[i][2] : i \in {j \in DOMAIN parts : parts[j][1] = "call"}}
Text(parts) == First(SelectSeq(parts, LAMBDA p : p[1] = "text"))
Said(parts) == First(SelectSeq(parts, LAMBDA p : p[1] # "call"))
Words(s) == [i \in DOMAIN s |-> s[i][2]]
TextWithReasoning(parts) == Words(Said(parts))

\* After a switch of models the host replays reasoning as text.
Replayed(parts) == [i \in DOMAIN parts |-> IF parts[i][1] = "reasoning"
                                           THEN <<"text", parts[i][2]>> ELSE parts[i]]

\* A message of the host's history gives evidence when it has a call or text.
Evidence(parts) == CallIds(parts) # {} \/ Text(parts) # <<>>

sameStep(parts, host) ==
    \/ CallIds(host) \cap CallIds(parts) # {}
    \/ Text(parts) # <<>> /\ Words(Text(host)) = Words(Text(parts))
    \/ TextWithReasoning(parts) # <<>> /\ TextWithReasoning(host) = TextWithReasoning(parts)

\* A mutant: a stopped step must be in the history whole.
sameUnfinished_Whole(e, host) == FALSE

\* A stopped step: the step before it, or what the host had read of it.
sameUnfinished(e, host) ==
    \/ e.previous # NoParts /\ sameStep(e.previous, host)
    \/ /\ CallIds(host) = {}
       /\ \/ Text(host) # <<>> /\ IsPrefix(Words(Text(host)), Words(Text(e.parts)))
          \/ /\ TextWithReasoning(host) # <<>>
             /\ IsPrefix(TextWithReasoning(host), TextWithReasoning(e.parts))

\* A mutant: no record is as good as any.
detectForeignHistory_Loose(e, conv, messages) ==
    /\ e # NoEntry /\ e.conv = conv
    /\ messages # <<>>
    /\ Evidence(Last(messages))
    /\ TextWithReasoning(e.parts) # TextWithReasoning(Last(messages))

\* The host's last message is not what this conversation's record says.
detectForeignHistory(e, conv, messages) ==
    /\ e # NoEntry /\ e.conv = conv
    /\ messages # <<>>
    /\ Evidence(Last(messages))
    /\ ~sameStep(e.parts, Last(messages))
    /\ ~(e.unfinished /\ sameUnfinished(e, Last(messages)))

-----------------------------------------------------------------------------
(* The record.                                                              *)

\* A mutant: a new conversation keeps the old one's record.
entryFor_Inherits(e, conv) == [e EXCEPT !.conv = conv]

entryFor(e, conv) == IF e.conv = conv THEN e ELSE Fresh(conv)

\* A mutant: a step replaces the record when it begins.
beginEmittedStep_AtOnce(e, conv) ==
    [conv |-> conv, parts |-> NoParts, pending |-> FALSE, unfinished |-> TRUE,
     previous |-> NoParts]

beginEmittedStep(e, conv) == [entryFor(e, conv) EXCEPT !.pending = TRUE]

\* The first content of a step replaces the record.
contentEntry(e, conv) ==
    IF ~entryFor(e, conv).pending THEN entryFor(e, conv)
    ELSE [conv |-> conv, parts |-> NoParts, pending |-> FALSE, unfinished |-> TRUE,
          previous |-> entryFor(e, conv).parts]

recordEmittedPart(e, conv, part) == [contentEntry(e, conv) EXCEPT !.parts = Append(@, part)]

\* A mutant: a step stays unfinished.
finishEmittedStep_Not(e, conv) == e

finishEmittedStep(e, conv) ==
    IF e.conv # conv \/ e.pending THEN e
    ELSE [e EXCEPT !.unfinished = FALSE, !.previous = NoParts]

resumeEmittedStep(e, conv) ==
    IF e.conv # conv \/ e.pending THEN e ELSE [e EXCEPT !.unfinished = TRUE]

\* What a save takes of it.
getTurnProvenance(e) ==
    [e EXCEPT !.pending = FALSE, !.previous = IF e.unfinished THEN @ ELSE NoParts]

-----------------------------------------------------------------------------
(* A turn opens, its Run streams steps, and the host reads them.            *)

Ids(messages) == {messages[i].id : i \in DOMAIN messages}
View(replayed) == [i \in DOMAIN history |->
                      IF replayed THEN Replayed(history[i].parts) ELSE history[i].parts]

\* hydrateTurnProvenance: only an evicted record is read from the disk, and
\* not while the disk misses a save.
Hydrated == IF entry = NoEntry /\ ~unsaved THEN disk.rec ELSE entry

\* A turn opens on the bound conversation, or on a new one.
startSession(replayed) ==
    LET foreign == detectForeignHistory(Hydrated, bound, View(replayed))
        recorded == Hydrated # NoEntry /\ Hydrated.conv = bound
        evidence == history # <<>> /\ Evidence(Last(View(replayed)))
        new == bound + 1
    IN
    /\ run = "idle"
    /\ IF foreign \/ bound = 0
       THEN /\ new <= MaxConvs /\ bound' = new /\ entry' = entryFor(Hydrated, new)
            /\ knows' = Ids(history)
            /\ disk' = NoDisk /\ unsaved' = FALSE
            /\ excused' = {} /\ latest' = 0
       ELSE /\ entry' = entryFor(Hydrated, bound)
            /\ excused' = IF recorded /\ evidence THEN excused
                          ELSE excused \union Ids(history) \union knows
            /\ UNCHANGED <<bound, knows, disk, unsaved, latest>>
    /\ judged' = [foreign |-> foreign, known |-> recorded /\ evidence,
                  mine |-> history # <<>> /\ Last(history).id = latest]
    /\ run' = "open"
    /\ UNCHANGED <<history, step, kept, steps, faults>>

\* The host pulls the step's stream, or stops before.
Begins ==
    /\ run \in {"open", "held"} /\ steps < MaxSteps
    /\ entry' = beginEmittedStep(entry, bound)
    /\ run' = "streaming" /\ steps' = steps + 1
    /\ step' = [id |-> steps + 1, parts |-> NoParts] /\ kept' = FALSE
    /\ judged' = NoJudgement
    /\ UNCHANGED <<history, bound, knows, disk, unsaved, faults, latest, excused>>

Emits(kind) ==
    /\ run = "streaming" /\ Len(step.parts) < MaxParts
    /\ step' = [step EXCEPT !.parts = Append(@, <<kind, step.id>>)]
    /\ entry' = recordEmittedPart(entry, bound, <<kind, step.id>>)
    /\ UNCHANGED <<history, bound, knows, disk, unsaved, run, kept, steps, faults, latest, judged, excused>>

\* What the host has of the step; a step that left nothing is dropped.
Holds(parts, whole) ==
    IF parts = NoParts THEN history
    ELSE Append(history, [id |-> step.id, whole |-> whole, parts |-> parts])

\* A step ends on tool calls; Cursor has checkpointed it.
StepEnds ==
    /\ run = "streaming" /\ CallIds(step.parts) # {} /\ ~kept
    /\ entry' = finishEmittedStep(entry, bound)
    /\ knows' = knows \union {step.id}
    /\ history' = Holds(step.parts, TRUE)
    /\ run' = "held"
    /\ latest' = step.id
    /\ UNCHANGED <<bound, disk, unsaved, step, kept, steps, faults, judged, excused>>

\* Cursor ends the turn: the step is finished before it is saved and told.
TurnEnds ==
    /\ run = "streaming" /\ CallIds(step.parts) = {}
    /\ entry' = finishEmittedStep(entry, bound)
    /\ knows' = IF step.parts = NoParts THEN knows ELSE knows \union {step.id}
    /\ run' = "ending"
    /\ UNCHANGED <<history, bound, disk, unsaved, step, kept, steps, faults, latest, judged, excused>>

Snapshot(checkpoint, record) ==
    [conv |-> bound, knows |-> checkpoint, rec |-> getTurnProvenance(record)]

\* The turn end is saved (persistTerminalCheckpoint), a held Run after a while.
Saves ==
    /\ run \in {"ending", "held"}
    /\ disk' = Snapshot(knows, entry)
    /\ unsaved' = FALSE
    /\ run' = IF run = "ending" THEN "ended" ELSE run
    /\ UNCHANGED <<history, entry, bound, knows, step, kept, steps, faults, latest, judged, excused>>

SaveFails ==
    /\ run \in {"ending", "held"} /\ faults < MaxFaults
    /\ unsaved' = TRUE /\ faults' = faults + 1
    /\ run' = IF run = "ending" THEN "ended" ELSE run
    /\ UNCHANGED <<history, entry, bound, knows, disk, step, kept, steps, latest, judged, excused>>

\* The host has read the end of the step.
Delivered ==
    /\ run = "ended"
    /\ entry' = finishEmittedStep(entry, bound)
    /\ history' = Holds(step.parts, TRUE)
    /\ run' = "idle"
    /\ latest' = IF step.parts = NoParts THEN latest ELSE step.id
    /\ UNCHANGED <<bound, knows, disk, unsaved, step, kept, steps, faults, judged, excused>>

\* The turn goes on in the same step: a follow-up Run.
GoesOn ==
    /\ run = "ended" /\ ~kept /\ step.parts # NoParts
    /\ entry' = resumeEmittedStep(entry, bound)
    /\ knows' = knows \ {step.id}
    /\ run' = "streaming" /\ kept' = TRUE
    /\ UNCHANGED <<history, bound, disk, unsaved, step, steps, faults, latest, judged, excused>>

\* The host stops the turn and keeps the first n parts of the step.  Of a
\* step whose turn had ended it has read something.
HostStops(n) ==
    /\ run \in {"streaming", "ending", "ended"} /\ n <= Len(step.parts)
    /\ (run # "streaming" \/ kept) => n > 0 \/ step.parts = NoParts
    /\ ~DropsAgain /\ n = 0 => \/ step.parts = NoParts
                               \/ entry.previous = NoParts
                               \/ \E i \in DOMAIN history : history[i].parts = entry.previous
    /\ entry' = IF run # "streaming" THEN resumeEmittedStep(entry, bound) ELSE entry
    /\ knows' = knows \ {step.id}
    /\ history' = Holds(SubSeq(step.parts, 1, n), FALSE)
    /\ run' = "idle"
    \* The Run that was cancelled is saved.
    /\ disk' = Snapshot(knows', entry')
    /\ unsaved' = FALSE
    /\ latest' = IF n = 0 THEN latest ELSE step.id
    /\ UNCHANGED <<bound, step, kept, steps, faults, judged, excused>>

\* A Run that waits for results is stopped, and saved; one that has not
\* begun is not.
HostLeaves ==
    /\ run \in {"open", "held"}
    /\ IF run = "held"
       THEN disk' = Snapshot(knows, entry) /\ unsaved' = FALSE
       ELSE UNCHANGED <<disk, unsaved>>
    /\ run' = "idle"
    /\ judged' = NoJudgement
    /\ UNCHANGED <<history, entry, bound, knows, step, kept, steps, faults, latest, excused>>

-----------------------------------------------------------------------------
(* The host between turns, and faults.                                      *)

\* Another model answers, perhaps in the words of a step that no record
\* names any more.
OtherModel(parts) ==
    /\ run = "idle" /\ steps < MaxSteps
    /\ history' = Append(history, [id |-> steps + 1, whole |-> TRUE, parts |-> parts])
    /\ steps' = steps + 1
    /\ judged' = NoJudgement
    /\ UNCHANGED <<entry, bound, knows, disk, unsaved, run, step, kept, faults, latest, excused>>

Recent == {entry.parts, entry.previous, disk.rec.parts, disk.rec.previous}
Older == {w \in 1..steps : \A p \in Recent : \A i \in DOMAIN p : p[i][2] # w}
Answers == {<< <<"call", steps + 1>> >>, << <<"reasoning", steps + 1>> >>}
           \union {<< <<"text", w>> >> : w \in Older \union {steps + 1}}

\* The user takes back what came after message n.
HostReverts(n) ==
    /\ run = "idle" /\ n < Len(history)
    /\ history' = SubSeq(history, 1, n)
    /\ judged' = NoJudgement
    /\ UNCHANGED <<entry, bound, knows, disk, unsaved, run, step, kept, steps, faults, latest, excused>>

\* The process dies; the next one restores the disk's conversation. The host
\* has what it read of the step.
Crashes(n) ==
    /\ faults < MaxFaults /\ n <= Len(step.parts)
    /\ history' = IF run \in {"streaming", "ending", "ended"} THEN Holds(SubSeq(step.parts, 1, n), FALSE) ELSE history
    /\ bound' = disk.conv /\ knows' = disk.knows /\ entry' = disk.rec
    /\ unsaved' = FALSE
    /\ run' = "idle" /\ faults' = faults + 1
    /\ judged' = NoJudgement
    /\ latest' = IF run = "idle" /\ disk.rec = getTurnProvenance(entry) THEN latest ELSE 0
    /\ UNCHANGED <<disk, step, kept, steps, excused>>

\* Other sessions push the record out of memory.
Evicted ==
    /\ run = "idle" /\ faults < MaxFaults /\ entry # NoEntry
    /\ entry' = NoEntry /\ faults' = faults + 1
    /\ UNCHANGED <<history, bound, knows, disk, unsaved, run, step, kept, steps, latest, judged, excused>>

Next ==
    \/ \E replayed \in BOOLEAN : startSession(replayed)
    \/ Begins
    \/ \E kind \in {"text", "reasoning", "call"} : Emits(kind)
    \/ StepEnds
    \/ TurnEnds
    \/ Saves
    \/ SaveFails
    \/ Delivered
    \/ GoesOn
    \/ \E n \in 0..MaxParts : HostStops(n)
    \/ HostLeaves
    \/ \E parts \in Answers : OtherModel(parts)
    \/ \E n \in 0..MaxSteps : HostReverts(n)
    \/ \E n \in 0..MaxParts : Crashes(n)
    \/ Evicted

Spec == Init /\ [][Next]_vars

-----------------------------------------------------------------------------
\* A turn that goes on in the old conversation hides no answer of another
\* model from Cursor, nor a finished step that a crash took from the disk,
\* unless no record was left when it opened.
NothingHidden ==
    run = "open" =>
        \A i \in DOMAIN history :
            history[i].whole => history[i].id \in knows \union excused

\* Nor does Cursor still hold a step the user took back, when the history
\* ends on something that can be told.
RevertNoticed ==
    run = "open" /\ ~judged.foreign /\ judged.known =>
        knows \subseteq Ids(history) \union excused

\* And a turn whose history ends on the conversation's latest step, as far as
\* the host kept it, never loses its conversation.
OwnStepsRecognised == ~(judged.foreign /\ judged.mine)
=============================================================================
