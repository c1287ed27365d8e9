---------------------------- MODULE HostHistory ----------------------------
(***************************************************************************)
(* What Cursor has of the host's side of a session: the host's history     *)
(* where it was replaced (HistoryRewrite), its instructions (ContextEpoch) *)
(* and what OpenCode tells between its messages (HostNotes).  They share   *)
(* no state.                                                               *)
(***************************************************************************)
EXTENDS Naturals

CONSTANTS
    MaxRewrites, MaxCopies, MaxConvs, MaxLane, MaxRewriteFaults,
    Ruled, Named, MaxVersion, LosesTold,
    Notes, Spoken, MaxNoteRuns, MaxNoteSaves

VARIABLES
    \* HistoryRewrite
    era, copies, receipt, flag, histBound, convs, histDisk, histLane, histRun,
    gone, request, histKnown, excused, histTurn, histFaults,
    \* ContextEpoch
    hostSays, epoch, rule, toldCheckpoint, toldDisk, toldRun,
    \* HostNotes
    coming, noteBefore, noteHistory, noteStored, noteRun, noteFrames,
    injections, undelivered, interrupted, noteRebase, noteDisk, noteRuns,
    noteSaves, owed, noteTurn, superseded, repeated

Hist == INSTANCE HistoryRewrite WITH
    bound <- histBound, disk <- histDisk, lane <- histLane, run <- histRun,
    known <- histKnown, turn <- histTurn, faults <- histFaults,
    MaxFaults <- MaxRewriteFaults

Told == INSTANCE ContextEpoch WITH
    host <- hostSays, base <- rule, checkpoint <- toldCheckpoint,
    disk <- toldDisk, run <- toldRun

Note == INSTANCE HostNotes WITH
    before <- noteBefore, history <- noteHistory, stored <- noteStored,
    run <- noteRun, frames <- noteFrames, rebase <- noteRebase,
    disk <- noteDisk, runs <- noteRuns, saves <- noteSaves, turn <- noteTurn,
    MaxRuns <- MaxNoteRuns, MaxSaves <- MaxNoteSaves

\* What the theorems take of the constants: bounds are numbers, and a Run that
\* told of something is checkpointed before it ends.
RewriteConstants == {MaxRewrites, MaxCopies} \subseteq Nat
HostConstants == RewriteConstants /\ ~LosesTold

histVars == <<era, copies, receipt, flag, histBound, convs, histDisk,
    histLane, histRun, gone, request, histKnown, excused, histTurn,
    histFaults>>
toldVars == <<hostSays, epoch, rule, toldCheckpoint, toldDisk, toldRun>>
notesVars == <<coming, noteBefore, noteHistory, noteStored, noteRun,
    noteFrames, injections, undelivered, interrupted, noteRebase, noteDisk,
    noteRuns, noteSaves, owed, noteTurn, superseded, repeated>>

-----------------------------------------------------------------------------
\* Cursor goes by the history, the instructions and the notes the host has: it
\* starts over, once, when the host replaced the history, is told each change of
\* the instructions and each note once, and what it was told before stays as
\* it was.
HostHeard ==
    /\ Hist!RewriteHonoured /\ Hist!RebasedOnce
    /\ Told!InstructionsFollowed /\ Told!PrefixKept
    /\ Note!NoteKept /\ Note!ToldOnce
=============================================================================
