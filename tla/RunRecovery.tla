---------------------------- MODULE RunRecovery ----------------------------
(***************************************************************************)
(* One user turn and every Run opened for it: doStream and pumpWithRecovery *)
(* of src/src/language-model.ts, with retry-budget.ts, offline.ts and the   *)
(* replay barriers of replay-safety.ts.                                     *)
(*                                                                         *)
(* Cursor (external) streams frames to the pump: text, a host tool (exec),  *)
(* the completion of a tool whose result it took, its own side effects      *)
(* (opaque), a checkpoint of all it knows, the end of the turn; or the      *)
(* stream fails. The host executes the tools of a step and calls doStream   *)
(* again with their results. After a failure the provider resumes a         *)
(* checkpoint, rebuilds from host history, waits for the network, leaves    *)
(* the retry to the host, or gives up.                                      *)
(*                                                                         *)
(* What a Run knows of the turn is the set of tool results (and the one     *)
(* follow-up message) it holds. Early steers and host notes are left to the *)
(* modules about them; a step emits tools and ends, it streams no text.     *)
(***************************************************************************)
EXTENDS Naturals, Sequences, FiniteSets, SequencesExt

CONSTANTS
    TurnTools,      \* the host tools the model calls in this turn
    FollowUp,       \* the message a progress-only turn is continued with
    Void,
    ServerRetries,  \* retries after server failures per turn (3 in the code)
    LinkRetries,    \* retries after transport failures per turn (10)
    MaxNoProgress,  \* resumed attempts without a checkpoint before giving up (2)
    MaxOutages,     \* bound: network outages during the turn
    MaxHeldLosses,  \* bound: Runs lost while the host executes a step
    MaxQueue        \* bound: frames on their way to the pump

(* The message is no tool, and Void is no checkpoint. *)
ASSUME TurnConstants ==
    /\ FollowUp \notin TurnTools
    /\ \A known \in SUBSET (TurnTools \union {FollowUp}) : known # Void

VARIABLES
    phase,    \* where the provider is in the turn
    newest,   \* the newest Run
    down,     \* its frames, from Cursor to the pump
    up,       \* results written to it that Cursor has not taken
    call,     \* pumpWithRecovery's locals
    budget,   \* RetryBudget, shared by every call of the turn
    host      \* what the host executed and put in its prompt

turnVars == <<phase, newest, down, up, call, budget, host>>

(* What breaks a stream; "rejected" is any failure that is not transient.   *)
Kinds == {"server", "transport", "offline", "rejected"}

NoFailure == [kind |-> "none", safe |-> TRUE, barrier |-> "none", unusable |-> FALSE]
Fails(kind, safe, barrier, unusable) ==
    [kind |-> kind, safe |-> safe, barrier |-> barrier, unusable |-> unusable]

(* CursorProviderError.transient, and the category its retry is charged to. *)
Transient(failure) == failure.kind \in {"server", "transport", "offline"}
RetryCategory(failure) == IF failure.kind = "server" THEN "server" ELSE "transport"

(* A Run just opened. `taken` is what Cursor knows, `missed` (history) what  *)
(* the turn had and this Run opened without; `own` says it is the Run this   *)
(* doStream call began with.                                                 *)
NewRun(known, own, eligible) ==
    [taken |-> known, missed |-> {}, saved |-> Void, own |-> own,
     eligible |-> eligible, open |-> TRUE,
     resume |-> Void, revoked |-> FALSE, byResult |-> FALSE, after |-> 0, unacked |-> {},
     execs |-> {}, stateful |-> FALSE, unsafe |-> FALSE, barrier |-> "none", emitted |-> {}]

(* The locals of a pumpWithRecovery call before its first attempt. *)
NewCall == [checkpoint |-> Void, resumed |-> FALSE, stuck |-> 0, renewed |-> FALSE,
            failure |-> NoFailure, shown |-> FALSE]

TurnInit ==
    /\ phase = "opening"
    /\ newest = NewRun({}, TRUE, TRUE)
    /\ down = <<>> /\ up = {}
    /\ call = NewCall
    /\ budget = [server |-> 0, transport |-> 0, outages |-> 0, losses |-> 0]
    /\ host = [done |-> {}, prompt |-> {}, trailing |-> {}, running |-> {}, lost |-> {}]

(* The turn is over: its Runs and budget are forgotten. *)
Over(outcome) ==
    /\ phase' = outcome
    /\ newest' = [NewRun({}, TRUE, FALSE) EXCEPT !.open = FALSE]
    /\ down' = <<>> /\ up' = {}
    /\ call' = NewCall
    /\ budget' = [b \in DOMAIN budget |-> 0]
    /\ host' = [host EXCEPT !.done = {}, !.prompt = {}, !.trailing = {}, !.running = {}, !.lost = {}]

-----------------------------------------------------------------------------
(* Cursor, external. It has the results the Run opened with and those it    *)
(* took; a checkpoint holds all of them; it saves one before a turn ends.   *)

StreamFrame(kind, item) == [kind |-> kind, item |-> item]
Queued(kind) == \E i \in DOMAIN down : down[i].kind = kind
Streaming ==
    /\ newest.open /\ phase \in {"pumping", "tools"}
    /\ ~Queued("end") /\ ~Queued("fail")
    /\ Len(down) < MaxQueue
Send(frame) == down' = Append(down, frame)

CursorSpeaks ==
    /\ Streaming /\ newest.barrier = "none" /\ ~Queued("text")
    /\ Send(StreamFrame("text", Void))
    /\ UNCHANGED <<phase, newest, up, call, budget, host>>

CursorActs ==
    /\ Streaming /\ ~newest.unsafe /\ ~Queued("opaque")
    /\ Send(StreamFrame("opaque", Void))
    /\ UNCHANGED <<phase, newest, up, call, budget, host>>

CursorCalls(t) ==
    /\ Streaming
    /\ t \notin newest.taken \union newest.execs /\ StreamFrame("exec", t) \notin Range(down)
    /\ Send(StreamFrame("exec", t))
    /\ UNCHANGED <<phase, newest, up, call, budget, host>>

(* Only a result with a call id gets a completion the client can match. *)
CursorTakes(t) ==
    /\ Streaming /\ t \in up
    /\ up' = up \ {t}
    /\ newest' = [newest EXCEPT !.taken = @ \union {t}]
    /\ IF \E u \in newest.unacked : u.tool = t /\ u.named
       THEN Send(StreamFrame("completed", t))
       ELSE UNCHANGED down
    /\ UNCHANGED <<phase, call, budget, host>>

CursorSaves ==
    /\ Streaming /\ newest.saved # newest.taken
    /\ newest' = [newest EXCEPT !.saved = newest.taken]
    /\ Send(StreamFrame("checkpoint", newest.taken))
    /\ UNCHANGED <<phase, up, call, budget, host>>

CursorEnds ==
    /\ Streaming /\ newest.execs \subseteq newest.taken /\ ~Queued("exec")
    /\ newest.saved = newest.taken
    /\ Send(StreamFrame("end", Void))
    /\ UNCHANGED <<phase, newest, up, call, budget, host>>

(* The stream breaks in the middle of what Cursor sent: the rest, and the   *)
(* results it had not taken, are lost. The client's idle deadline is one of *)
(* the server failures.                                                     *)
StreamBreaks(kind) ==
    /\ newest.open /\ phase \in {"pumping", "tools"} /\ ~Queued("fail")
    /\ kind = "offline" => budget.outages < MaxOutages
    /\ phase = "tools" => budget.losses < MaxHeldLosses
    /\ \E n \in 0..Len(down) : down' = Append(SubSeq(down, 1, n), StreamFrame("fail", kind))
    /\ up' = {}
    /\ budget' = [budget EXCEPT !.outages = IF kind = "offline" THEN @ + 1 ELSE @,
                                !.losses = IF phase = "tools" THEN @ + 1 ELSE @]
    /\ UNCHANGED <<phase, newest, call, host>>

-----------------------------------------------------------------------------
(* pump(): one frame.                                                       *)

(* The next frame, read: frames that arrived before a delivery run out. *)
Read(kind) ==
    /\ phase = "pumping" /\ down # <<>> /\ Head(down).kind = kind
    /\ down' = Tail(down)
Older(n) == IF n = 0 THEN 0 ELSE n - 1
Past(r) == [r EXCEPT !.after = Older(@), !.unacked = {[u EXCEPT !.after = Older(@)] : u \in @}]

(* AttemptReplaySafety.mark: the first barrier of the attempt. *)
Barrier(r, reason) ==
    IF reason = "output" THEN [r EXCEPT !.barrier = IF @ = "none" THEN "output" ELSE @]
    ELSE [r EXCEPT !.barrier = "stateful", !.stateful = TRUE]

ReadText ==
    /\ Read("text")
    /\ newest' = Barrier(Past(newest), "output")
    /\ call' = [call EXCEPT !.shown = TRUE]
    /\ UNCHANGED <<phase, up, budget, host>>

(* Work Cursor does itself: host history cannot represent it. Acknowledging *)
(* an interaction also revokes the checkpoint.                              *)
ReadOpaque ==
    /\ Read("opaque")
    /\ LET marked == [Barrier(Past(newest), "stateful") EXCEPT !.unsafe = TRUE]
       IN newest' \in {marked, [marked EXCEPT !.resume = Void, !.revoked = TRUE, !.byResult = FALSE,
                                              !.after = Len(down) - 1]}
    /\ UNCHANGED <<phase, up, call, budget, host>>

(* The exec goes to the host; the step waits for more calls or ends here. *)
ReadExec ==
    /\ Read("exec")
    /\ LET t == Head(down).item
           marked == Barrier(Past(newest), "stateful")
       IN newest' = [marked EXCEPT !.execs = @ \union {t}, !.emitted = @ \union {t},
                                   !.unsafe = @ \/ t \in newest.execs]
    /\ phase' \in {"pumping", "tools"}
    /\ host' = [host EXCEPT !.running = newest'.emitted]
    /\ UNCHANGED <<up, call, budget>>

(* No frame follows: the step that waited for more calls ends. *)
StepCloses ==
    /\ phase = "pumping" /\ newest.emitted # {} /\ down = <<>>
    /\ phase' = "tools"
    /\ UNCHANGED <<newest, down, up, call, budget, host>>

(* acknowledgeHostResults *)
ReadCompleted ==
    /\ Read("completed")
    /\ newest' = [Past(newest) EXCEPT !.unacked =
                     {[u EXCEPT !.after = Older(@)] : u \in
                         {u \in newest.unacked : ~(u.named /\ u.tool = Head(down).item /\ u.after = 0)}}]
    /\ UNCHANGED <<phase, up, call, budget, host>>

(* Mutant of Acceptable: a checkpoint may precede a result not acknowledged. *)
Acceptable_Unacked(r) == r.after = 0

(* acceptResumeCheckpoint *)
Acceptable(r) == r.unacked = {} /\ r.after = 0
ReadCheckpoint ==
    /\ Read("checkpoint")
    /\ newest' =
          IF Acceptable(newest)
          THEN [Past(newest) EXCEPT !.resume = Head(down).item, !.revoked = FALSE, !.byResult = FALSE]
          ELSE Past(newest)
    /\ UNCHANGED <<phase, up, call, budget, host>>

(* turn_ended: the turn is answered, or one that showed only progress is    *)
(* continued once, with a message, from its checkpoint on a new stream (the  *)
(* last one Cursor sent, if none could be resumed).                          *)
ReadEnd ==
    /\ phase = "pumping" /\ down # <<>> /\ Head(down).kind = "end" /\ newest.emitted = {}
    /\ Over("answered")

Continued == IF newest.resume # Void THEN newest.resume ELSE newest.saved
ReopenWithUserMessage ==
    /\ phase = "pumping" /\ down # <<>> /\ Head(down).kind = "end" /\ newest.emitted = {}
    /\ FollowUp \notin host.done /\ Continued # Void /\ newest.barrier # "none"
    /\ newest' = [newest EXCEPT
          !.taken = Continued \union {FollowUp}, !.missed = host.done \ Continued,
          !.saved = Void, !.resume = Void, !.eligible = FALSE,
          !.revoked = TRUE, !.byResult = FALSE, !.after = 0]
    /\ down' = <<>> /\ up' = {}
    /\ host' = [host EXCEPT !.done = @ \union {FollowUp}]
    /\ UNCHANGED <<phase, call, budget>>

-----------------------------------------------------------------------------
(* A failed attempt. *)

(* The catch keeps the attempt's checkpoint, forgets one it revoked, and     *)
(* counts a resumed attempt that streamed without saving a new one.          *)
Caught(failure, c) ==
    /\ phase' = "failed"
    /\ call' = [c EXCEPT
          !.failure = failure,
          !.checkpoint = IF newest.resume # Void THEN newest.resume
                         ELSE IF newest.revoked THEN Void ELSE @,
          !.stuck = IF newest.resume # Void THEN 0
                    ELSE IF Transient(failure) /\ ~newest.revoked /\ c.resumed /\ failure.barrier # "none"
                    THEN @ + 1 ELSE @]

(* finalizeFailure: what the attempt did decides whether it may be replayed; *)
(* a first attempt whose stored checkpoint Cursor could not read, reseeded.  *)
ReadFailure ==
    /\ Read("fail") /\ newest.emitted = {}
    /\ newest' = [newest EXCEPT !.open = FALSE]
    /\ \E intact \in {TRUE, newest.barrier # "none"}, blobMiss \in {FALSE, newest.eligible} :
          LET kind == Head(down).item
              unusable == blobMiss /\ newest.barrier = "none" /\ kind # "rejected"
              safe == newest.barrier = "none" /\ ~newest.stateful /\ intact
              seen == IF newest.barrier = "none" THEN "none" ELSE IF newest.stateful THEN "stateful" ELSE "output"
          IN Caught(IF unusable THEN Fails(kind, TRUE, "none", TRUE) ELSE Fails(kind, safe, seen, FALSE), call)
    /\ UNCHANGED <<up, budget, host>>

(* finishInterruptedTools: tools already emitted end the step instead. *)
FinishInterruptedTools ==
    /\ Read("fail") /\ newest.emitted # {}
    /\ newest' = [newest EXCEPT !.open = FALSE]
    /\ phase' = "tools"
    /\ UNCHANGED <<up, call, budget, host>>

(* canRebaseFromHistory *)
CanRebaseFromHistory ==
    /\ newest.own /\ host.trailing # {} /\ newest.byResult /\ ~newest.unsafe
    /\ newest.execs # {} /\ newest.execs \subseteq host.prompt

(* Mutant of HistoryRecovery: also after the failed attempt showed text. *)
HistoryRecovery_AfterOutput == CanRebaseFromHistory
HistoryRecovery == call.failure.barrier = "none" /\ CanRebaseFromHistory
Recoverable == call.failure.safe \/ call.checkpoint # Void \/ HistoryRecovery

(* Mutant of Reserve: the retry is not counted. *)
Reserve_Free(failure) ==
    /\ budget[RetryCategory(failure)] < (IF failure.kind = "server" THEN ServerRetries ELSE LinkRetries)
    /\ UNCHANGED budget

(* reserveRetry *)
Reserve(failure) ==
    /\ budget[RetryCategory(failure)] < (IF failure.kind = "server" THEN ServerRetries ELSE LinkRetries)
    /\ budget' = [budget EXCEPT ![RetryCategory(failure)] = @ + 1]
Exhausted(failure) ==
    budget[RetryCategory(failure)] >= (IF failure.kind = "server" THEN ServerRetries ELSE LinkRetries)

Goes(to) == phase' = to /\ UNCHANGED <<newest, down, up, call, host>>

(* Once per call, when the attempt did nothing; it costs no retry. *)
Renewable ==
    /\ call.failure.kind = "rejected" /\ ~call.renewed
    /\ \/ call.failure.safe
       \/ call.resumed /\ call.checkpoint # Void /\ call.failure.barrier = "none" /\ ~call.failure.unusable
RenewCredential ==
    /\ phase = "failed" /\ Renewable
    /\ phase' = "reopening"
    /\ call' = [call EXCEPT !.renewed = TRUE]
    /\ UNCHANGED <<newest, down, up, budget, host>>

WaitsForNetwork == call.failure.kind = "offline" /\ Recoverable
WaitOffline ==
    /\ phase = "failed" /\ call.stuck < MaxNoProgress /\ WaitsForNetwork
    /\ Goes("offline") /\ UNCHANGED budget

LeaveToHost ==
    /\ phase = "failed" /\ Transient(call.failure) /\ call.stuck < MaxNoProgress /\ ~Recoverable
    /\ call.failure.barrier = "output" /\ ~newest.revoked
    /\ Reserve(call.failure) /\ Goes("hostRetry")

Retry ==
    /\ phase = "failed" /\ Transient(call.failure) /\ call.stuck < MaxNoProgress
    /\ Recoverable /\ ~WaitsForNetwork
    /\ Reserve(call.failure) /\ Goes("reopening")

(* A failure that is not transient, resumed attempts without progress,      *)
(* output or state that may not be replayed, or no retry left.              *)
GiveUp ==
    /\ phase = "failed" /\ ~Renewable
    /\ \/ ~Transient(call.failure)
       \/ call.stuck >= MaxNoProgress
       \/ ~Recoverable /\ (call.failure.barrier # "output" \/ newest.revoked)
       \/ ~WaitsForNetwork /\ Exhausted(call.failure)
    /\ Over("gaveUp")

(* waitForNetwork: the network is back, or its window has passed. *)
NetworkReturns == phase = "offline" /\ Goes("reopening") /\ UNCHANGED budget
WindowEnds == phase = "offline" /\ Over("gaveUp")

-----------------------------------------------------------------------------
(* Opening Runs. *)

(* What the Run `r` opens without, of the results and messages of the turn. *)
OpensRun(r) ==
    /\ newest' = [r EXCEPT !.missed = host.done \ r.taken]
    /\ down' = <<>> /\ up' = {}

(* reopen: a resume carries what the failed Run did; a rebase starts over   *)
(* from host history, with every result, or with those of the last step.    *)
Resumes(checkpoint) ==
    /\ OpensRun([NewRun(checkpoint, FALSE, FALSE) EXCEPT
                    !.saved = checkpoint, !.execs = newest.execs,
                    !.stateful = newest.stateful, !.unsafe = newest.unsafe])
    /\ call' = [call EXCEPT !.resumed = TRUE, !.failure = NoFailure]
    /\ UNCHANGED host

(* Host history never holds the follow-up message: a rebase may drop one a   *)
(* checkpoint of the turn has held (or a rebase before it).                  *)
FollowUpAnswered ==
    IF FollowUp \in host.lost \/ (newest.saved # Void /\ FollowUp \in newest.saved)
    THEN {FollowUp} ELSE {}
Rebases(results, own) ==
    /\ OpensRun(NewRun(results, own, FALSE))
    /\ host' = [host EXCEPT !.lost = (host.prompt \ results) \union FollowUpAnswered]

Reopen ==
    /\ phase = "reopening"
    /\ phase' = "pumping"
    /\ IF call.failure.unusable \/ call.checkpoint = Void
       THEN /\ Rebases(IF call.failure.unusable \/ CanRebaseFromHistory THEN host.prompt ELSE host.trailing, FALSE)
            /\ call' = [call EXCEPT !.checkpoint = Void, !.resumed = FALSE, !.failure = NoFailure]
       ELSE Resumes(call.checkpoint)
    /\ UNCHANGED budget

(* reopenAttempt: the replacement failed to open. Unless its request may    *)
(* have arrived, the loop classifies it as the next failed attempt.         *)
ReopenFails(kind) ==
    /\ phase = "reopening"
    /\ \/ /\ kind # "rejected" /\ (kind = "offline" => budget.outages < MaxOutages)
          /\ LET kept == IF call.failure.unusable THEN Void ELSE call.checkpoint
             IN Caught(Fails(kind, TRUE, "none", FALSE),
                       [call EXCEPT !.checkpoint = kept, !.resumed = kept # Void])
          /\ budget' = [budget EXCEPT !.outages = IF kind = "offline" THEN @ + 1 ELSE @]
          /\ UNCHANGED <<newest, down, up, host>>
       \/ Over("gaveUp")

(* doStream: a Run of this call opens, or fails to before there is a stream. *)
OpenFirst ==
    /\ phase = "opening" /\ phase' = "pumping"
    /\ UNCHANGED <<newest, down, up, call, budget, host>>

OpenFails(kind) ==
    /\ phase = "opening"
    /\ \/ /\ kind = "offline" /\ budget.outages < MaxOutages
          /\ budget' = [budget EXCEPT !.outages = @ + 1]
          /\ UNCHANGED <<phase, newest, down, up, call, host>>
       \/ /\ kind \in {"server", "transport"}
          /\ Reserve(Fails(kind, TRUE, "none", FALSE)) /\ Goes("hostRetry")
       \/ Over("gaveUp")

(* The host sends the same prompt again: a continuation without a Run to     *)
(* continue rebases on the results of its last step.                         *)
HostRetries ==
    /\ phase = "hostRetry" /\ phase' = "opening"
    /\ IF host.trailing = {}
       THEN OpensRun(NewRun({}, TRUE, TRUE)) /\ UNCHANGED host
       ELSE Rebases(host.trailing, TRUE)
    /\ call' = NewCall
    /\ UNCHANGED budget

-----------------------------------------------------------------------------
(* The host, between two steps of the turn. *)

HostExecutes(t) ==
    /\ phase = "tools" /\ t \in host.running
    /\ host' = [host EXCEPT !.running = @ \ {t}, !.done = @ \union {t}]
    /\ UNCHANGED <<phase, newest, down, up, call, budget>>

Prompt == [host EXCEPT !.prompt = host.done \ {FollowUp}, !.trailing = newest.emitted]

(* deliverContinuationResults, on the Run held open: each result revokes the *)
(* checkpoint, and holds back later ones until Cursor completes its call.    *)
Deliver ==
    /\ phase = "tools" /\ host.running = {} /\ newest.open
    /\ phase' = "pumping"
    /\ up' = up \union newest.emitted
    /\ \E arrived \in 0..Len(down), nameless \in SUBSET newest.emitted :
          newest' = [newest EXCEPT
              !.emitted = {}, !.barrier = "none", !.own = TRUE, !.eligible = FALSE,
              !.resume = Void, !.byResult = ~newest.revoked \/ @, !.revoked = TRUE, !.after = arrived,
              !.unacked = @ \union
                  {[tool |-> t, named |-> t \notin nameless, after |-> arrived] : t \in newest.emitted}]
    /\ host' = Prompt
    /\ call' = NewCall
    /\ UNCHANGED <<down, budget>>

(* The held Run is gone, or the delivery failed: a fresh Run, seeded with    *)
(* the results of this step (toolResults "trailing").                        *)
RebaseContinuation ==
    /\ phase = "tools" /\ host.running = {} /\ (~newest.open \/ Queued("fail"))
    /\ phase' = "opening"
    /\ LET seed == Prompt.trailing
       IN /\ newest' = [NewRun(seed, TRUE, FALSE) EXCEPT !.missed = host.done \ seed]
          /\ host' = [Prompt EXCEPT !.lost = host.done \ seed]
    /\ down' = <<>> /\ up' = {}
    /\ call' = NewCall
    /\ UNCHANGED budget

(* Stop, from the host: whatever waits is cancelled. *)
HostStops ==
    /\ phase \in {"opening", "pumping", "tools", "offline", "reopening", "hostRetry"}
    /\ Over("stopped")

-----------------------------------------------------------------------------
Pump ==
    \/ ReadText \/ ReadOpaque \/ ReadExec \/ StepCloses \/ ReadCompleted \/ ReadCheckpoint
    \/ ReadEnd \/ ReopenWithUserMessage \/ ReadFailure \/ FinishInterruptedTools
Recovers ==
    \/ RenewCredential \/ WaitOffline \/ LeaveToHost \/ Retry \/ GiveUp
    \/ NetworkReturns \/ WindowEnds \/ Reopen \/ OpenFirst
    \/ \E kind \in Kinds : ReopenFails(kind) \/ OpenFails(kind)
Cursor ==
    \/ CursorSpeaks \/ CursorActs \/ CursorSaves \/ CursorEnds
    \/ \E t \in TurnTools : CursorCalls(t) \/ CursorTakes(t)
    \/ \E kind \in Kinds : StreamBreaks(kind)
Host ==
    \/ HostRetries \/ Deliver \/ RebaseContinuation \/ HostStops
    \/ \E t \in TurnTools : HostExecutes(t)

TurnNext == Pump \/ Recovers \/ Cursor \/ Host

(* The pump reads what arrived, recovery goes on, the host runs its tools   *)
(* and answers; Cursor sends, or the idle deadline breaks the stream.       *)
TurnFairness == WF_turnVars(Pump) /\ WF_turnVars(Recovers) /\ WF_turnVars(Cursor) /\ WF_turnVars(Host)
TurnSpec == TurnInit /\ [][TurnNext]_turnVars /\ TurnFairness

-----------------------------------------------------------------------------
Phases == {"opening", "pumping", "tools", "failed", "offline", "reopening", "hostRetry",
           "answered", "gaveUp", "stopped"}

(* Every Run opened for the turn, by resume, rebuild, retry or follow-up,    *)
(* holds each result the host delivered and the follow-up message, except    *)
(* results a rebase on the last step left out (language-model.ts:1567-1667). *)
RunsHoldResults == newest.missed \subseteq host.lost

(* Those as well: the rebased continuation "includes the completed tool      *)
(* result, so no result or advertised tool is lost" (language-model.ts:1316).*)
NoResultLost == newest.missed = {}

(* A rebuild inside a call comes only while the call has shown no text: the  *)
(* text would appear twice (language-model.ts:1797-1830, replay-safety.ts).  *)
RebaseShowsNothingTwice ==
    [][phase = "reopening" /\ phase' = "pumping" /\ ~call'.resumed => ~call.shown]_turnVars

(* Both: a lost Run's results wait with its successor, and one opened anew   *)
(* shows nothing twice.                                                      *)
LostRunRecovered == [][RunsHoldResults']_turnVars /\ RebaseShowsNothingTwice

(* The turn ends: renewals, retries left to the host and resumes draw on one *)
(* budget (retry-budget.ts:22-88), given finitely many outages.              *)
TurnOver == phase \in {"answered", "gaveUp", "stopped"}
TurnEnds == <>TurnOver
=============================================================================
