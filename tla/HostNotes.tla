------------------------------ MODULE HostNotes ------------------------------
(***************************************************************************)
(* Host notes of one OpenCode session (language-model.ts, host-notes.ts):   *)
(* what OpenCode tells the model between its messages. A note that comes    *)
(* with a step's results is injected into the Run that waits for them; one  *)
(* that comes before the user's message rides with the request. Cursor's    *)
(* checkpoint remembers a note only if the Run had it when the checkpoint   *)
(* was made, so until then the client keeps the note for the next Run, and  *)
(* a conversation that starts over has to be told again.                    *)
(*                                                                         *)
(* Cursor's frames stay in order, and it acknowledges an injection before   *)
(* it sends a checkpoint that holds it. The order of notes and the limit of *)
(* 256 sessions are left out, and so is a Run whose request fails before    *)
(* its conversation is bound.                                              *)
(***************************************************************************)
EXTENDS Naturals, Sequences, FiniteSets

CONSTANTS
    Notes,
    Spoken,   \* those OpenCode writes as user messages; a seed always has them
    MaxRuns,  \* bound: requests that open a Run
    MaxSaves  \* bound: saves while the host works, stops, and ends of the process

VARIABLES
    coming,      \* notes OpenCode has not placed yet
    before,      \* notes behind the last reply, that the next request carries
    history,     \* notes behind those, in OpenCode's history
    stored,      \* the checkpoint of the bound conversation, and the notes it holds
    run,         \* the session's Run: what Cursor knows, userTurnHostNotes, resumeCheckpoint
    frames,      \* what Cursor sent it that is not read
    injections,  \* hostNoteInjectionsBySession
    undelivered, \* undeliveredHostNotesBySession
    interrupted, \* interruptedRunHostNotesBySession
    rebase,      \* the next request starts over: the host rewrote its history
    disk,        \* the snapshot
    runs, saves,
    owed,        \* history: notes no stored checkpoint has held
    turn,        \* history: notes told by the requests of a turn that has not ended
    superseded,  \* history: injections of a Run that another took over from unread
    repeated     \* history: notes told to a conversation that had them

kept == <<injections, undelivered, interrupted>>
host == <<coming, before, history>>
truth == <<owed, turn, superseded, repeated>>
vars == <<host, stored, run, frames, kept, rebase, disk, runs, saves, truth>>

NoCheckpoint == [has |-> FALSE, holds |-> {}]
NoSnapshot == [checkpoint |-> NoCheckpoint, note |-> {}, runNote |-> {}, rebase |-> FALSE]
NoRun == [state |-> "none", knows |-> {}, carried |-> {}, own |-> FALSE]

Init ==
    /\ coming = Notes /\ before = {} /\ history = {}
    /\ stored = NoCheckpoint /\ run = NoRun /\ frames = <<>>
    /\ injections = {} /\ undelivered = {} /\ interrupted = {}
    /\ rebase = FALSE /\ disk = NoSnapshot /\ runs = 0 /\ saves = 0
    /\ owed = {} /\ turn = {} /\ superseded = {} /\ repeated = {}

-----------------------------------------------------------------------------
Entries(of) == {e \in injections : e.of = of}
NotesOf(entries) == {e.note : e \in entries}

\* Mutant of Unacked: an injection that Cursor acknowledged is done with.
Unacked_Waiting(of) == {e \in Entries(of) : ~e.delivered}

(* takeHostNoteInjections: acknowledged or not, no stored checkpoint has them. *)
Unacked(of) == Entries(of)

(* releaseHostNoteInjections of the Runs that have closed. *)
Released == NotesOf(Unacked("closed"))

(* heldRunHostNotes, with the checkpoint of an in-progress save. *)
InProgress ==
    [checkpoint |-> stored, note |-> undelivered \cup NotesOf(Unacked("open")),
     runNote |-> run.carried, rebase |-> rebase]

Terminal(checkpoint, notes) ==
    [checkpoint |-> checkpoint, note |-> notes, runNote |-> {}, rebase |-> rebase]

\* Mutant of Deferred: what the seed holds is told again.
Deferred_Again(notes, seeded, boundary) == notes \ boundary

(* A note that the seed or the user's turn has is not told twice. *)
Deferred(notes, seeded, boundary) == (notes \ seeded) \ boundary

(* prepareUserTurnHostNotes of a request to a conversation that has these   *)
(* notes: checkpointed ones are the Run's without being told. Its Run opens *)
(* and sent() is called, or it does not.                                   *)
Opens(warm, notes, boundary, has, since) ==
    LET told == Deferred(notes, IF warm THEN {} ELSE has, boundary) \cup boundary
    IN /\ run' = [state |-> "open", knows |-> has \cup told, own |-> FALSE,
                  carried |-> (IF warm THEN interrupted ELSE {}) \cup notes \cup boundary]
       /\ turn' = since \cup notes \cup boundary /\ repeated' = repeated \cup (told \cap has)
       /\ undelivered' = {} /\ interrupted' = {}

Fails(warm, notes, next, since) ==
    /\ run' = next /\ undelivered' = notes
    /\ interrupted' = IF warm THEN interrupted ELSE {}
    /\ turn' = since /\ UNCHANGED repeated

(* What a seed may hold of these notes: one that is a system message, or     *)
(* inside a tool result, only sometimes.                                   *)
Seeds(notes) == {seeded \in SUBSET notes : notes \cap Spoken \subseteq seeded}

(* The conversation starts over: another id, no checkpoint, no snapshot. *)
StartsOver == stored' = NoCheckpoint /\ disk' = NoSnapshot /\ rebase' = FALSE

(* The host's history has an answer to the request. *)
Replied == before' = {} /\ history' = history \cup before

Asks == runs < MaxRuns /\ runs' = runs + 1
-----------------------------------------------------------------------------
(* OpenCode has something to tell between turns. *)
Placed(n) ==
    /\ run.state = "none" /\ n \in coming
    /\ coming' = coming \ {n} /\ before' = before \cup {n} /\ owed' = owed \cup {n}
    /\ UNCHANGED <<history, stored, run, frames, kept, rebase, disk, runs, saves, turn,
                   superseded, repeated>>

(* A new user message while no Run is open. Its conversation goes on from   *)
(* the checkpoint, unless another model answered meanwhile.                *)
NewTurn ==
    /\ Asks /\ run.state = "none" /\ ~rebase
    /\ \/ LET notes == undelivered \cup Released
          IN /\ stored.has
             /\ Opens(TRUE, notes, before, stored.holds, turn) \/ Fails(TRUE, notes, NoRun, turn)
             /\ UNCHANGED <<stored, disk, rebase>>
       \/ LET notes == undelivered \cup Released \cup interrupted
          IN /\ \/ \E seeded \in Seeds(history) : Opens(FALSE, notes, before, seeded, turn)
                \/ Fails(FALSE, notes, NoRun, turn)
             /\ StartsOver
    /\ injections' = {} /\ frames' = <<>>
    /\ UNCHANGED <<host, saves, owed, superseded>>

(* The host rewrote its history: an open Run knows what is no longer there, *)
(* so it is closed, and the next request tells its notes again.            *)
NewTurnRewritten ==
    /\ Asks /\ run.state \in {"none", "open"} /\ rebase
    /\ LET notes == undelivered \cup Released \cup run.carried
                      \cup NotesOf(Unacked("open")) \cup interrupted
       IN \/ \E seeded \in Seeds(history) : Opens(FALSE, notes, before, seeded, turn)
          \/ Fails(FALSE, notes, NoRun, turn)
    /\ StartsOver
    /\ injections' = {} /\ frames' = <<>>
    /\ UNCHANGED <<host, saves, owed, superseded>>

(* The open Run neither ended nor could be cancelled: the history is told    *)
(* anew, results and all, and the Run closes once the new one is registered, *)
(* after the injections of closed Runs were released.                      *)
NewTurnUnfinished ==
    /\ Asks /\ run.state = "open" /\ ~rebase
    /\ Opens(FALSE, undelivered \cup Released \cup interrupted, before, history, {})
    /\ injections' = {[e EXCEPT !.of = "closed"] : e \in Unacked("open")}
    /\ superseded' = superseded \cup NotesOf(Unacked("open"))
    /\ owed' = (owed \ turn) \ history
    /\ StartsOver /\ frames' = <<>>
    /\ UNCHANGED <<host, saves>>

(* Results for a Run that is gone, or that their write ends. *)
Continuation ==
    /\ Asks /\ ~rebase
    /\ run.state = "open" \/ (run.state = "none" /\ before = {})
    /\ LET notes == undelivered \cup Released \cup NotesOf(Unacked("open")) \cup interrupted
           since == IF run.state = "open" THEN {} ELSE turn
       IN \/ \E seeded \in Seeds(history \cup before) : Opens(FALSE, notes, {}, seeded, since)
          \/ Fails(FALSE, notes, NoRun, since)
    /\ owed' = IF run.state = "open" THEN owed \ turn ELSE owed
    /\ injections' = {} /\ frames' = <<>>
    /\ StartsOver /\ Replied
    /\ UNCHANGED <<coming, saves, superseded>>
-----------------------------------------------------------------------------
Ended == \E i \in DOMAIN frames : frames[i].is = "ended"
About(n) == \E i \in DOMAIN frames : frames[i].is \in {"delivered", "declined"} /\ frames[i].note = n

(* The results of a step are delivered, and the notes behind them injected; *)
(* or Cursor has ended the turn already.                                   *)
StepDone(n) ==
    /\ run.state = "open" /\ n \in coming /\ ~rebase
    /\ coming' = coming \ {n} /\ owed' = owed \cup {n}
    /\ \/ /\ Ended /\ undelivered' = undelivered \cup {n} /\ UNCHANGED injections
       \/ /\ ~Ended /\ UNCHANGED undelivered
          /\ injections' = injections \cup {[note |-> n, of |-> "open", delivered |-> FALSE]}
    /\ before' = {} /\ history' = history \cup before \cup {n}
    /\ UNCHANGED <<stored, run, frames, interrupted, rebase, disk, runs, saves, turn,
                   superseded, repeated>>

Sends(more) == run.state = "open" /\ ~Ended /\ frames' = frames \o more
                 /\ UNCHANGED <<host, stored, kept, rebase, disk, runs, saves, truth>>

(* Cursor takes an injection into the turn, keeps it for another or refuses it. *)
CursorAnswers(e) ==
    /\ e.of = "open" /\ ~e.delivered /\ ~About(e.note) /\ Len(frames) < 2
    /\ \/ run' = [run EXCEPT !.knows = @ \cup {e.note}] /\ Sends(<<[is |-> "delivered", note |-> e.note]>>)
       \/ run' = run /\ Sends(<<[is |-> "declined", note |-> e.note]>>)

Checkpoint == [is |-> "checkpoint", holds |-> run.knows]

CursorCheckpoints == Len(frames) < 2 /\ run' = run /\ Sends(<<Checkpoint>>)

CursorEnds == Len(frames) < 2 /\ run' = run /\ Sends(<<Checkpoint, [is |-> "ended"]>>)

\* Mutant of Forgotten: a checkpoint settles what is on its way, too.
Forgotten_All == Entries("open")

(* forgetCheckpointedHostNotes. *)
Forgotten == {e \in Entries("open") : e.delivered}

ReadsCheckpoint(frame) ==
    /\ frame.is = "checkpoint"
    /\ stored' = [has |-> TRUE, holds |-> frame.holds]
    /\ run' = [run EXCEPT !.own = TRUE]
    /\ injections' = injections \ Forgotten
    /\ owed' = owed \ frame.holds /\ Replied
    /\ UNCHANGED <<coming, undelivered, interrupted, disk, turn>>

(* applyContextInjectionState. *)
ReadsInjectionState(frame) ==
    /\ frame.is \in {"delivered", "declined"}
    /\ LET mine == {e \in Entries("open") : e.note = frame.note}
       IN IF frame.is = "delivered"
          THEN /\ injections' = (injections \ mine) \cup {[e EXCEPT !.delivered = TRUE] : e \in mine}
               /\ UNCHANGED undelivered
          ELSE /\ injections' = injections \ mine
               /\ undelivered' = undelivered \cup NotesOf(mine)
    /\ UNCHANGED <<host, stored, run, interrupted, disk, owed, turn>>

(* turn_ended: keepUndeliveredHostNotes, and the terminal save. *)
ReadsEnd(frame) ==
    /\ frame.is = "ended"
    /\ undelivered' = undelivered \cup NotesOf(Unacked("open"))
    /\ injections' = injections \ Entries("open")
    /\ disk' = Terminal(stored, undelivered')
    /\ run' = NoRun /\ turn' = {}
    /\ Replied
    /\ UNCHANGED <<coming, stored, interrupted, owed>>

Reads ==
    /\ run.state = "open" /\ frames # <<>> /\ frames' = Tail(frames)
    /\ ReadsCheckpoint(Head(frames)) \/ ReadsInjectionState(Head(frames)) \/ ReadsEnd(Head(frames))
    /\ UNCHANGED <<rebase, runs, saves, superseded, repeated>>
-----------------------------------------------------------------------------
(* The stream is lost with what is unread. *)
Breaks ==
    /\ run.state = "open"
    /\ run' = [run EXCEPT !.state = "broken"] /\ frames' = <<>>
    /\ UNCHANGED <<host, stored, kept, rebase, disk, runs, saves, truth>>

\* Mutant of Reinjected: the resumed Run is left to Cursor.
Reinjected_None == {}

(* reopen from the Run's checkpoint injects again what it lacks. *)
Reinjected == {[note |-> n, of |-> "open", delivered |-> FALSE] : n \in NotesOf(Unacked("open"))}

(* What injections of closed Runs left goes to the next user turn. A write  *)
(* that fails closes the new Run: its note stays with that one, and the     *)
(* later ones are kept. Or no Run opens.                                   *)
Resumes ==
    /\ Asks /\ run.state = "broken" /\ run.own
    /\ \/ /\ run' = [run EXCEPT !.state = "open", !.knows = stored.holds]
          /\ injections' = Reinjected
          /\ undelivered' = undelivered \cup Released
          /\ repeated' = repeated \cup (NotesOf(Reinjected) \cap stored.holds)
       \/ \E e \in Reinjected :
            /\ injections' = {[e EXCEPT !.of = "closed"]}
            /\ undelivered' = undelivered \cup Released \cup (NotesOf(Reinjected) \ {e.note})
            /\ UNCHANGED <<run, repeated>>
       \/ /\ injections' = {}
          /\ undelivered' = undelivered \cup Released \cup NotesOf(Reinjected)
          /\ UNCHANGED <<run, repeated>>
    /\ UNCHANGED <<host, stored, frames, interrupted, rebase, disk, saves, owed, turn, superseded>>

\* Mutant of Transferred: only what was injected belongs to the turn.
Transferred_Injected == NotesOf(Unacked("open"))

(* reopen without a checkpoint, or when Cursor cannot load it: the notes of *)
(* the request and the injected ones are told again.                       *)
Transferred == run.carried \cup NotesOf(Unacked("open"))

Rebases ==
    /\ Asks /\ run.state = "broken"
    /\ LET notes == undelivered \cup Transferred \cup Released \cup interrupted
       IN \/ \E seeded \in Seeds(history) : Opens(FALSE, notes, before, seeded, turn)
          \/ \E seeded \in Seeds(history \cup before) : Opens(FALSE, notes, {}, seeded, turn)
          \/ Fails(FALSE, notes, run, turn)
    /\ injections' = {}
    /\ StartsOver
    /\ UNCHANGED <<host, frames, saves, owed, superseded>>

(* The failure is shown to the user. What the Run's request told is told no  *)
(* more, unless the host's history ends with that request. A request Cursor *)
(* has not checkpointed is saved.                                          *)
GivesUp ==
    /\ run.state = "broken"
    /\ disk' = InProgress \/ disk' = disk
    /\ injections' = {[e EXCEPT !.of = "closed"] : e \in injections}
    /\ run' = NoRun /\ turn' = {}
    /\ Replied \/ UNCHANGED <<before, history>>
    /\ owed' = owed \ (turn \ before')
    /\ UNCHANGED <<coming, stored, frames, undelivered, interrupted, rebase, runs, saves,
                   superseded, repeated>>
-----------------------------------------------------------------------------
Saves == saves < MaxSaves /\ saves' = saves + 1

(* A Run that waits on host tools is saved. *)
HeldRunSaved ==
    /\ Saves /\ run.state = "open" /\ disk' = InProgress
    /\ UNCHANGED <<host, stored, run, frames, kept, rebase, runs, truth>>

(* The user stops a Run that does not end by itself. *)
HostStops ==
    /\ Saves /\ run.state = "open"
    /\ undelivered' = undelivered \cup NotesOf(Unacked("open"))
    /\ injections' = injections \ Entries("open")
    /\ disk' = [Terminal(stored, undelivered') EXCEPT !.runNote = run.carried]
    /\ run' = NoRun /\ frames' = <<>> /\ turn' = {}
    /\ Replied \/ UNCHANGED <<before, history>>
    /\ owed' = IF run.own THEN owed ELSE owed \ (turn \ before')
    /\ UNCHANGED <<coming, stored, interrupted, rebase, runs, superseded, repeated>>

(* restoreSessionState in the next process. *)
Restored(snapshot) ==
    /\ stored' = snapshot.checkpoint /\ rebase' = snapshot.rebase
    /\ undelivered' = snapshot.note /\ interrupted' = snapshot.runNote \ snapshot.note
    /\ injections' = {} /\ run' = NoRun /\ frames' = <<>> /\ disk' = snapshot

(* The server shuts down while a Run is open, and saves it. A turn Cursor    *)
(* has not checkpointed is not promised to go on.                          *)
ShutsDown ==
    /\ Saves /\ run.state = "open"
    /\ Restored(InProgress)
    /\ Replied
    /\ IF run.own THEN UNCHANGED <<owed, turn>> ELSE owed' = owed \ turn /\ turn' = {}
    /\ UNCHANGED <<coming, runs, superseded, repeated>>

(* The process ends without a save: what the snapshot lacks is lost. *)
Dies ==
    /\ Saves
    /\ Restored(disk)
    /\ owed' = owed \cap (disk.note \cup before) /\ turn' = {}
    /\ UNCHANGED <<host, runs, superseded, repeated>>
-----------------------------------------------------------------------------
(* Another provider's model summarised: the history loses notes, and the     *)
(* snapshot is marked.                                                     *)
Rewritten ==
    /\ ~rebase /\ rebase' = TRUE
    /\ history' \in SUBSET history
    /\ disk' = IF disk = NoSnapshot THEN disk ELSE [disk EXCEPT !.rebase = TRUE]
    /\ UNCHANGED <<coming, before, stored, run, frames, kept, runs, saves, truth>>

(* Cursor's model summarised, in a Run of its own. The notes of an           *)
(* interrupted Run wait for the Run that starts from the summary.          *)
Compacted ==
    /\ Asks /\ run.state = "none" /\ ~rebase
    /\ rebase' = TRUE
    /\ undelivered' = undelivered \cup interrupted /\ interrupted' = {}
    /\ history' \in SUBSET history
    /\ stored' = [has |-> TRUE, holds |-> {}]
    /\ disk' = [Terminal(stored', undelivered') EXCEPT !.rebase = TRUE]
    /\ UNCHANGED <<coming, before, run, frames, injections, saves, truth>>

Next ==
    \/ \E n \in Notes : Placed(n) \/ StepDone(n)
    \/ NewTurn \/ NewTurnRewritten \/ NewTurnUnfinished \/ Continuation
    \/ \E e \in injections : CursorAnswers(e)
    \/ CursorCheckpoints \/ CursorEnds \/ Reads
    \/ Breaks \/ Resumes \/ Rebases \/ GivesUp
    \/ HeldRunSaved \/ HostStops \/ ShutsDown \/ Dies
    \/ Rewritten \/ Compacted

Spec == Init /\ [][Next]_vars
-----------------------------------------------------------------------------
(* A note is not lost while no checkpoint of the client has held it, nor     *)
(* while a conversation that starts over would have to be told it again:     *)
(* the next request, the Run, what is kept for one, or the next seed has it. *)
NoteKept == owed \cup turn \subseteq
    before \cup run.carried \cup NotesOf(injections) \cup undelivered \cup interrupted
        \cup (IF stored.has /\ ~rebase THEN {} ELSE history \cap Spoken)

(* No conversation is told a note it has, but for one injected into a Run    *)
(* that another took over from unread.                                     *)
ToldOnce == repeated \subseteq superseded

(* conversation-persistence.ts:46: the checkpoint of an interrupted Run      *)
(* holds the notes of its own request.                                     *)
InterruptedCheckpointed == stored.has /\ ~rebase => interrupted \subseteq stored.holds
=============================================================================
