----------------------------- MODULE HostSteers -----------------------------
(***************************************************************************)
(* Messages the user sends while a step runs (src/src/host-steer.ts and its *)
(* callers). OpenCode keeps such a message until the step ends and then     *)
(* puts its own copy in the history. The provider injects it into the Run   *)
(* at once and keeps a record, so that the copy is neither sent a second    *)
(* time nor left out unanswered, across resumes, rebuilds and restarts.     *)
(***************************************************************************)
EXTENDS Naturals, FiniteSets

CONSTANTS
    Messages,
    MaxSteered   \* bound: Runs of the session

NoSteer == [run |-> 0, delivered |-> FALSE, checkpointed |-> FALSE, answered |-> FALSE, promoted |-> FALSE]

VARIABLES
    opencode, \* OpenCode: "idle", "step" (reads a Run), "tools", "boundary" (calls next)
    unsent, inbox,  \* messages to come, and those OpenCode holds
    history, tail,  \* its copies: those before the last answer or result, and those after
    left,     \* copies this call left out of its prompt
    newest, stage, \* the newest Run: "pumped", "held", "over", "broken"
    steers,   \* state.injected
    inj,      \* the injection: "no", "waiting", "sent", "taken"
    unread,   \* deliveries whose frame the pump has not read
    ctx,      \* copies of each message in the Run's conversation
    checkpoint, mine, \* and in the latest checkpoint, which this turn may have received
    answered, \* messages the model has answered
    nudged,   \* those answered in a step that went on after turn_ended
    plain,    \* messages withdrawn, or carried by history or by a Run's own user turn
    onFile    \* the snapshot on disk: the records and their checkpoint

provider == <<newest, stage, steers, inj, unread, ctx, checkpoint, mine>>
steersVars == <<opencode, unsent, inbox, history, tail, left, provider, answered, nudged, plain, onFile>>

Empty == [m \in Messages |-> 0]
NoCheckpoint == [m \in Messages |-> 9]
NoSteers == [m \in Messages |-> NoSteer]
Nothing == [steers |-> NoSteers, checkpoint |-> NoCheckpoint]
Once(S) == [m \in Messages |-> IF m \in S THEN 1 ELSE 0]
Plus(f, S) == [m \in Messages |-> f[m] + Once(S)[m]]
Tracked(m) == steers[m] # NoSteer
Keep(K) == [m \in Messages |-> IF m \in K THEN steers[m] ELSE NoSteer]

SteersInit ==
    /\ opencode = "step" /\ unsent = Messages /\ inbox = {} /\ history = {} /\ tail = {} /\ left = {}
    /\ newest = 1 /\ stage = "pumped" /\ steers = NoSteers
    /\ inj = [m \in Messages |-> "no"] /\ unread = {}
    /\ ctx = Empty /\ checkpoint = NoCheckpoint /\ mine = FALSE /\ answered = {} /\ nudged = {} /\ plain = {}
    /\ onFile = Nothing

-----------------------------------------------------------------------------
(* session.inbox.enqueued: a Run that is pumped takes the message.           *)
Sends(m) ==
    /\ m \in unsent /\ opencode \in {"step", "tools"}
    /\ unsent' = unsent \ {m} /\ inbox' = inbox \cup {m}
    /\ IF stage = "pumped"
       THEN steers' = [steers EXCEPT ![m] = [NoSteer EXCEPT !.run = newest]] /\ inj' = [inj EXCEPT ![m] = "waiting"]
       ELSE UNCHANGED <<steers, inj>>
    /\ UNCHANGED <<opencode, history, tail, left, newest, stage, unread, ctx, checkpoint, mine, answered, nudged, plain, onFile>>

(* session.inbox.cancelled: no copy will come.                               *)
Withdraws(m) ==
    /\ m \in inbox
    /\ inbox' = inbox \ {m} /\ plain' = plain \cup {m}
    /\ steers' = Keep(Messages \ {m})
    /\ UNCHANGED <<opencode, unsent, history, tail, left, newest, stage, inj, unread, ctx, checkpoint, mine, answered, nudged, onFile>>

(* The write's turn comes: it is skipped once the message was withdrawn or   *)
(* its Run ended, and what was skipped or refused is forgotten unless        *)
(* OpenCode already counts on it (forgetUndeliveredEarlySteer).              *)
Takes(m) == stage = "pumped" /\ steers[m].run = newest

(* Mutant of Forgotten: a promoted message is forgotten too. *)
Forgotten_All(m) == Keep(Messages \ {m})

Forgotten(m) == IF steers[m].delivered \/ steers[m].promoted THEN steers ELSE Keep(Messages \ {m})

Writes(m) ==
    /\ inj[m] = "waiting" /\ Tracked(m) /\ Takes(m)
    /\ inj' = [inj EXCEPT ![m] = "sent"]
    /\ UNCHANGED <<opencode, unsent, inbox, history, tail, left, newest, stage, steers, unread, ctx, checkpoint, mine, answered, nudged, plain, onFile>>

SkipsWrite(m) ==
    /\ inj[m] = "waiting" /\ stage \in {"pumped", "held"}
    /\ inj' = [inj EXCEPT ![m] = "no"]
    /\ steers' = Forgotten(m)
    /\ UNCHANGED <<opencode, unsent, inbox, history, tail, left, newest, stage, unread, ctx, checkpoint, mine, answered, nudged, plain, onFile>>

(* Cursor gives the message to the model; the pump reads of it later.        *)
Delivers(m) ==
    /\ inj[m] = "sent" /\ stage \in {"pumped", "held"}
    /\ inj' = [inj EXCEPT ![m] = "taken"] /\ unread' = unread \cup {m}
    /\ ctx' = Plus(ctx, {m})
    /\ UNCHANGED <<opencode, unsent, inbox, history, tail, left, newest, stage, steers, checkpoint, mine, answered, nudged, plain, onFile>>

ReadsDelivery(m) ==
    /\ m \in unread /\ stage = "pumped"
    /\ unread' = unread \ {m}
    /\ steers' = IF Tracked(m) THEN [steers EXCEPT ![m].delivered = TRUE] ELSE steers
    /\ UNCHANGED <<opencode, unsent, inbox, history, tail, left, newest, stage, inj, ctx, checkpoint, mine, answered, nudged, plain, onFile>>

(* markEarlySteersCheckpointed: frames keep their order, so the checkpoint   *)
(* holds the deliveries that were read.                                      *)
Checkpoints ==
    /\ stage = "pumped"
    /\ checkpoint' = [m \in Messages |-> ctx[m] - Once(unread)[m]] /\ mine' = TRUE
    /\ steers' = [m \in Messages |-> IF steers[m].run = newest /\ steers[m].delivered
                                  THEN [steers[m] EXCEPT !.checkpointed = TRUE] ELSE steers[m]]
    /\ UNCHANGED <<opencode, unsent, inbox, history, tail, left, newest, stage, inj, unread, ctx, answered, nudged, plain, onFile>>

-----------------------------------------------------------------------------
(* settleEarlySteers.                                                        *)
Undelivered == {m \in Messages : steers[m].run = newest /\ steers[m].promoted /\ ~steers[m].delivered}
Stays(m) == IF steers[m].run # newest THEN ~steers[m].answered ELSE steers[m].promoted \/ steers[m].delivered

(* Mutant of Settled: a promoted message Cursor never took counts as answered. *)
Resolved_Answered ==
    [m \in Messages |-> IF Tracked(m) /\ Stays(m) THEN [steers[m] EXCEPT !.answered = TRUE, !.delivered = TRUE]
                        ELSE NoSteer]

Resolved ==
    [m \in Messages |-> IF ~Tracked(m) \/ ~Stays(m) THEN NoSteer
                        ELSE IF steers[m].run # newest THEN steers[m]
                        ELSE IF steers[m].delivered THEN [steers[m] EXCEPT !.answered = TRUE]
                        ELSE [steers[m] EXCEPT !.delivered = TRUE]]

(* turn_ended, after the turn's last checkpoint: the snapshot is saved, and  *)
(* what OpenCode will not send again goes out in a follow-up Run.            *)
TurnDone == stage = "pumped" /\ unread = {} /\ checkpoint = ctx

SteeredTurnEnds ==
    /\ TurnDone /\ Undelivered = {}
    /\ stage' = "over" /\ steers' = Resolved /\ inj' = [m \in Messages |-> "no"]
    /\ answered' = answered \cup {m \in Messages : ctx[m] > 0}
    /\ onFile' = [steers |-> Resolved, checkpoint |-> checkpoint]
    /\ history' = history \cup tail /\ tail' = inbox /\ inbox' = {} /\ left' = {}
    /\ opencode' = IF inbox = {} THEN "idle" ELSE "boundary"
    /\ UNCHANGED <<unsent, newest, unread, ctx, checkpoint, mine, nudged, plain>>

(* The step goes on in a new Run of the same session, with what was not      *)
(* delivered or, when nothing is left to OpenCode, with a nudge to the model. *)
LeftToHost == {m \in Messages : steers[m].run = newest /\ ~steers[m].promoted /\ ~steers[m].delivered}

FollowsUp ==
    /\ TurnDone
    /\ Undelivered # {} \/ LeftToHost = {}
    /\ nudged' = nudged \cup {m \in Messages : steers[m].answered \/ Resolved[m].answered}
    /\ steers' = Resolved /\ inj' = [m \in Messages |-> "no"]
    /\ answered' = answered \cup {m \in Messages : ctx[m] > 0}
    /\ onFile' = [steers |-> Resolved, checkpoint |-> checkpoint]
    /\ ctx' = Plus(checkpoint, Undelivered)
    /\ UNCHANGED <<opencode, unsent, inbox, history, tail, left, newest, stage, unread, checkpoint, mine, plain>>

(* The step ends on tool calls; the held Run is saved.                       *)
StepEnds ==
    /\ stage = "pumped"
    /\ stage' = "held" /\ opencode' = "tools"
    /\ history' = history \cup tail /\ tail' = {} /\ left' = {}
    /\ \/ onFile' = [steers |-> steers, checkpoint |-> checkpoint]
       \/ UNCHANGED onFile
    /\ UNCHANGED <<unsent, inbox, newest, steers, inj, unread, ctx, checkpoint, mine, answered, nudged, plain>>

(* The tools are done: OpenCode promotes what it holds.                      *)
Promotes ==
    /\ opencode = "tools"
    /\ opencode' = "boundary" /\ tail' = inbox /\ inbox' = {}
    /\ UNCHANGED <<unsent, history, left, provider, answered, nudged, plain, onFile>>

-----------------------------------------------------------------------------
(* The next call while the Run is held. continuationAfterEarlySteers: the    *)
(* Run has a copy's message, so the call goes on without the copies; a       *)
(* message that came with them is sent when the turn ends.                   *)
Matched == {m \in tail : steers[m].run = newest /\ ~steers[m].answered}

Continues ==
    /\ opencode = "boundary" /\ stage = "held" /\ (tail = {} \/ Matched # {})
    /\ opencode' = "step" /\ stage' = "pumped"
    /\ steers' = [m \in Messages |->
                IF m \in Matched THEN [steers[m] EXCEPT !.promoted = TRUE]
                ELSE IF m \in tail THEN [NoSteer EXCEPT !.run = newest, !.promoted = TRUE] ELSE steers[m]]
    /\ UNCHANGED <<unsent, inbox, history, tail, left, newest, inj, unread, ctx, checkpoint, mine, answered, nudged, plain, onFile>>

(* needsHostHistory.                                                         *)

(* Mutant of NeedsHistory: a message OpenCode promoted is trusted to the     *)
(* checkpoint.                                                               *)
NeedsHistory_Not(records, open) == FALSE

NeedsHistory(records, open) ==
    \E m \in Messages :
        /\ records[m] # NoSteer /\ ~records[m].answered /\ records[m].run # open
        /\ records[m].promoted \/ records[m].checkpointed

(* A fresh Run: from host history, under a new id that takes the snapshot    *)
(* away, or from the checkpoint with the copies that are its user turn.      *)
(* Unanswered records end (clearUnansweredEarlySteers). A retry does not add *)
(* to a checkpoint what was a user turn before: how such a request is kept   *)
(* is not this module's.                                                     *)
Seed(f, rest) == [m \in Messages |-> IF m \in plain THEN f[m] ELSE Plus(f, rest)[m]]

OpensRun(records, rest, rebase) ==
    /\ newest < MaxSteered
    /\ newest' = newest + 1 /\ stage' = "pumped" /\ opencode' = "step"
    /\ ctx' = IF rebase \/ checkpoint = NoCheckpoint THEN Once(history \cup rest) ELSE Seed(checkpoint, rest)
    /\ checkpoint' = IF rebase THEN NoCheckpoint ELSE checkpoint
    /\ mine' = FALSE
    /\ unread' = {} /\ inj' = [m \in Messages |-> "no"]
    /\ steers' = [m \in Messages |-> IF records[m].answered THEN records[m] ELSE NoSteer]
    /\ plain' = plain \cup rest
    /\ onFile' = IF rebase THEN Nothing ELSE onFile

(* No early message is among the copies: a new user turn, after the held Run *)
(* was drained to its end or could not be.                                   *)
Supersedes ==
    /\ opencode = "boundary" /\ stage = "held" /\ tail # {} /\ Matched = {}
    /\ \/ /\ unread = {} /\ checkpoint = ctx
          /\ answered' = answered \cup {m \in Messages : ctx[m] > 0}
          /\ OpensRun(Resolved, tail, NeedsHistory(Resolved, 0))
       \/ OpensRun(steers, tail, TRUE) /\ UNCHANGED answered
    /\ UNCHANGED <<unsent, inbox, history, tail, left, nudged>>

(* leaveOutAnsweredEarlySteers, when no Run is held: copies of what the      *)
(* model answered are left out; if nothing else is asked, there is no Run.   *)

(* Mutant of Answered: any delivered message counts. *)
Answered_Delivered == {m \in tail : steers[m].delivered}

Answered == {m \in tail : steers[m].answered}

NothingToAsk ==
    /\ opencode = "boundary" /\ stage \in {"over", "broken"} /\ tail # {} /\ Answered = tail
    /\ opencode' = IF inbox = {} THEN "idle" ELSE "boundary"
    /\ history' = history \cup tail /\ tail' = inbox /\ inbox' = {}
    /\ onFile' = [steers |-> steers, checkpoint |-> checkpoint]
    /\ UNCHANGED <<unsent, left, provider, answered, nudged, plain>>

AsksNext ==
    /\ opencode = "boundary" /\ stage \in {"over", "broken"} /\ Answered # tail
    /\ left' = Answered
    /\ OpensRun(steers, tail \ Answered, NeedsHistory(steers, 0))
    /\ UNCHANGED <<unsent, inbox, history, tail, answered, nudged>>

(* The user's next turn.                                                     *)
AsksAnew ==
    /\ opencode = "idle"
    /\ left' = {m \in inbox : steers[m].answered}
    /\ tail' = inbox /\ inbox' = {}
    /\ OpensRun(steers, {m \in inbox : ~steers[m].answered}, NeedsHistory(steers, 0))
    /\ UNCHANGED <<unsent, history, answered, nudged>>

-----------------------------------------------------------------------------
(* handOverEarlySteers, when a failed Run is recovered.                      *)

(* Mutant of HandedOver: a message no checkpoint holds still counts as delivered. *)
HandedOver_AsIs ==
    [m \in Messages |-> IF steers[m].run = newest /\ ~steers[m].answered /\ (steers[m].checkpointed \/ steers[m].promoted)
                        THEN [steers[m] EXCEPT !.run = newest + 1]
                        ELSE IF steers[m].run # newest \/ steers[m].answered THEN steers[m] ELSE NoSteer]

HandedOver ==
    [m \in Messages |->
        IF steers[m].run # newest \/ steers[m].answered THEN steers[m]
        ELSE IF steers[m].checkpointed THEN [steers[m] EXCEPT !.run = newest + 1]
        ELSE IF steers[m].promoted THEN [steers[m] EXCEPT !.run = newest + 1, !.delivered = FALSE]
        ELSE NoSteer]

Resumes ==
    /\ stage = "pumped" /\ mine /\ newest < MaxSteered
    /\ newest' = newest + 1 /\ steers' = HandedOver /\ ctx' = checkpoint
    /\ inj' = [m \in Messages |-> "no"] /\ unread' = {}
    /\ UNCHANGED <<opencode, unsent, inbox, history, tail, left, stage, checkpoint, mine, answered, nudged, plain, onFile>>

(* appendedInjectionsInRebuild: the history must hold what the model was     *)
(* given.                                                                   *)
Rebuilt == \A m \in Messages : steers[m].run = newest /\ steers[m].delivered => steers[m].promoted

Rebuilds ==
    /\ stage = "pumped" /\ newest < MaxSteered /\ Rebuilt
    /\ newest' = newest + 1
    /\ steers' = Keep({m \in Messages : steers[m].run # newest \/ steers[m].answered})
    /\ ctx' = Once(history \cup (tail \ left)) /\ checkpoint' = NoCheckpoint /\ mine' = FALSE
    /\ plain' = plain \cup (tail \ left) /\ onFile' = Nothing
    /\ inj' = [m \in Messages |-> "no"] /\ unread' = {}
    /\ UNCHANGED <<opencode, unsent, inbox, history, tail, left, stage, answered, nudged>>

(* The turn fails, the user stops it, or the process ends: OpenCode asks the *)
(* same again or waits for the user.                                         *)
TurnFails ==
    /\ stage = "pumped"
    /\ stage' = "broken" /\ opencode' \in {"boundary", "idle"}
    /\ IF opencode' = "idle" THEN history' = history \cup tail /\ tail' = {} ELSE UNCHANGED <<history, tail>>
    /\ opencode' = "boundary" => tail # {}
    /\ inj' = [m \in Messages |-> "no"] /\ unread' = {} /\ left' = {}
    /\ UNCHANGED <<unsent, inbox, newest, steers, ctx, checkpoint, mine, answered, nudged, plain, onFile>>

(* What was promoted since the last save has become a plain part of history. *)
ProcessRestarts ==
    /\ opencode \in {"boundary", "idle"} /\ stage \in {"over", "broken", "held"} /\ (tail = {} => opencode = "idle")
    /\ stage' = "broken"
    /\ steers' = onFile.steers /\ checkpoint' = onFile.checkpoint
    /\ plain' = plain \cup {m \in Messages : steers[m].promoted /\ ~onFile.steers[m].promoted}
    /\ inj' = [m \in Messages |-> "no"] /\ unread' = {}
    /\ UNCHANGED <<opencode, unsent, inbox, history, tail, left, newest, ctx, mine, answered, nudged, onFile>>

SteersNext ==
    \/ \E m \in Messages : Sends(m) \/ Withdraws(m) \/ Writes(m) \/ SkipsWrite(m) \/ Delivers(m) \/ ReadsDelivery(m)
    \/ Checkpoints \/ SteeredTurnEnds \/ FollowsUp \/ StepEnds \/ Promotes \/ Continues \/ Supersedes
    \/ NothingToAsk \/ AsksNext \/ AsksAnew \/ Resumes \/ Rebuilds \/ TurnFails \/ ProcessRestarts

SteersSpec == SteersInit /\ [][SteersNext]_steersVars

-----------------------------------------------------------------------------
(* No conversation holds a message of the user twice, once as the injection  *)
(* and once as OpenCode's copy, unless its answer did not end the step.      *)
SteerOnce == stage = "pumped" => \A m \in Messages \ nudged : ctx[m] <= 1

(* language-model.ts: "otherwise the copies are left out of the prompt". An  *)
(* answered message is in no conversation twice.                             *)
AnsweredCopiesLeftOut == stage = "pumped" => \A m \in Messages : steers[m].answered => ctx[m] <= 1

(* When OpenCode has nothing more to ask after a turn that ended, the model  *)
(* has answered every message that it took early or that was promoted.       *)
SteerAnswered ==
    opencode = "idle" /\ stage = "over" => \A m \in Messages : m \in unsent \cup plain \cup answered

(* Each message reaches the model once, and is answered.                     *)
SteersKept == SteerOnce /\ SteerAnswered
=============================================================================
