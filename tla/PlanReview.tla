----------------------------- MODULE PlanReview -----------------------------
(***************************************************************************)
(* CreatePlan, SwitchMode and AskQuestion: protocol/interactions.ts,        *)
(* create-plan.ts, switch-mode.ts, plan-operations.ts and their handlers in *)
(* language-model.ts. Cursor asks a query and waits. The provider lets the  *)
(* host save the plan file, then lets the host ask the user, and only then  *)
(* answers; a receipt of the save is on disk before the host may write, and *)
(* until Cursor knows the outcome.                                          *)
(*                                                                         *)
(* One OpenCode session, one Run at a time; the process may restart at any  *)
(* step and keeps what is on disk.                                          *)
(***************************************************************************)
EXTENDS Naturals, FiniteSets

CONSTANTS
    Plans,       \* CreatePlan queries
    Switches,    \* SwitchMode queries for an implementing mode
    Questions,   \* AskQuestion queries
    MaxMessages, \* bound: user messages
    MaxLosses    \* bound: Runs lost to a crash, a failure or a stop

(* What the proofs take of the constants: each query is of one kind.         *)
QueriesAreApart ==
    /\ "none" \notin Plans \union Switches \union Questions
    /\ Plans \intersect Switches = {}
    /\ (Plans \union Switches) \intersect Questions = {}

Queries == Plans \union Switches \union Questions
Unset == "none"

VARIABLES
    messages,  \* user messages so far
    planRun,   \* the Run: "open", "cancelling" (cancel_action sent), "over"
    declined,  \* planReviewDeclined
    pump,      \* "reading", "saving" a receipt, "off" (host has the step), "delivering"
    saving,    \* the plan it saves
    asked,     \* queries: "new", "open", "answered"
    told,      \* what Cursor was told: Unset, "approved", "saved", "ack", "error",
               \* "answered" (a question)
    after,     \* createPlanAfterWrite of a plan: "review", "ack", "hold", "stage"
    pending,   \* host calls of the Run: [q, phase]
    host,      \* the host's part of a query's call: Unset, "running", or its result
    batch,     \* pending calls whose results are being delivered
    approvals, \* whether one of them was approved (approvedModeUpdates)
    queued,    \* queuedCreatePlanAction: Unset or the plan
    mem, onDisk, \* receipts in memory and on disk: Unset, "write", "review"
    perms,     \* the session's permissions: "ok", "denied", "unavailable"
    planMode,  \* whether Cursor's plan mode is active
    reviewer,  \* the host's review tool: "question", "plan_exit", "stage", Unset
    unsure,    \* plans the host may have written, unknown to Cursor (history)
    replayed,  \* such plans when a Run was last opened without a user message (history)
    losses     \* Runs lost so far

messageVars == <<messages, losses>>
runVars == <<planRun, declined>>
calls == <<pending, host>>
settings == <<perms, planMode, reviewer>>
plansVars == <<messages, planRun, declined, pump, saving, asked, told, after, pending, host, batch, approvals, queued, mem, onDisk, perms, planMode, reviewer, unsure, replayed, losses>>

PlansInit ==
    /\ messages = 1 /\ planRun = "open" /\ declined = FALSE
    /\ pump = "reading" /\ saving = Unset
    /\ asked = [q \in Queries |-> "new"] /\ told = [q \in Queries |-> Unset]
    /\ after = [q \in Plans |-> Unset]
    /\ pending = {} /\ host = [q \in Queries |-> Unset]
    /\ batch = {} /\ approvals = FALSE /\ queued = Unset
    /\ mem = [q \in Plans |-> Unset] /\ onDisk = mem
    /\ perms \in {"ok", "denied", "unavailable"}
    /\ planMode \in BOOLEAN /\ reviewer \in {"question", "plan_exit", "stage", Unset}
    /\ unsure = {} /\ replayed = {} /\ losses = 0

-----------------------------------------------------------------------------
(* Answers. *)

(* isPlanTurnEnding *)
Ending == planRun = "cancelling" \/ declined

Answer(q, answer) ==
    /\ asked' = [asked EXCEPT ![q] = "answered"]
    /\ told' = [told EXCEPT ![q] = answer]
    /\ unsure' = unsure \ {q}
NoAnswer == UNCHANGED <<asked, told, unsure>>

Without(receipts, q) == [receipts EXCEPT ![q] = Unset]
Call(q, phase) == [q |-> q, phase |-> phase]
Emitted(q, phase) ==
    /\ pending' = pending \union {Call(q, phase)}
    /\ host' = [host EXCEPT ![q] = "running"]

(* Nothing queued comes before the next frame of the Run. *)
Reading == pump = "reading" /\ queued = Unset /\ planRun \in {"open", "cancelling"}

PlanPending == \E p \in Plans, phase \in {"write", "review"} : Call(p, phase) \in pending

-----------------------------------------------------------------------------
(* Queries. *)

(* resolveCreatePlanBridge: how the plan is recorded and reviewed. *)
Bridge ==
    IF Ending THEN "ack"
    ELSE IF planMode /\ reviewer = "stage" THEN "stage"
    ELSE IF perms = "denied" THEN "hold"
    ELSE IF planMode /\ reviewer \in {"plan_exit", "question"} THEN "review"
    ELSE "ack"

(* handleCreatePlanQuery, answered at once: no tools, no permissions to      *)
(* judge by, no file to save to, or a plan is on its way.                    *)
CreatePlanRefused(q) ==
    /\ Reading /\ asked[q] = "new"
    /\ \/ Ending /\ Answer(q, "ack") /\ UNCHANGED declined
       \/ ~Ending /\ perms = "unavailable" /\ Answer(q, "error") /\ declined' = TRUE
       \/ ~Ending /\ perms # "unavailable" /\ Bridge # "stage"
          /\ Answer(q, "error") /\ declined' = (Bridge = "hold")
       \/ ~Ending /\ PlanPending /\ Answer(q, "error") /\ UNCHANGED declined
    /\ UNCHANGED <<messageVars, planRun, pump, saving, after, calls, batch, approvals, queued, mem, onDisk, settings, replayed>>

CreatePlanStages(q) ==
    /\ Reading /\ asked[q] = "new" /\ ~Ending /\ perms # "unavailable" /\ ~PlanPending
    /\ Bridge = "stage"
    /\ asked' = [asked EXCEPT ![q] = "open"] /\ after' = [after EXCEPT ![q] = "stage"]
    /\ Emitted(q, "review")
    /\ UNCHANGED <<messageVars, runVars, pump, saving, told, batch, approvals, queued, mem, onDisk, settings, unsure, replayed>>

(* recordPlanOperation, then persistPlanOperations is awaited. *)
CreatePlanRecords(q) ==
    /\ Reading /\ asked[q] = "new" /\ ~Ending /\ perms # "unavailable" /\ ~PlanPending
    /\ Bridge # "stage"
    /\ asked' = [asked EXCEPT ![q] = "open"]
    /\ after' = [after EXCEPT ![q] = Bridge]
    /\ mem' = [mem EXCEPT ![q] = "write"]
    /\ pump' = "saving" /\ saving' = q
    /\ UNCHANGED <<messageVars, runVars, told, calls, batch, approvals, queued, onDisk, settings, unsure, replayed>>

(* Mutant of ReceiptSaved: the host call does not wait for the disk.         *)
ReceiptSaved_Lazily(q) ==
    /\ pump = "saving" /\ saving = q /\ planRun = "open"
    /\ pump' = "reading" /\ saving' = Unset
    /\ Emitted(q, "write")
    /\ unsure' = unsure \union {q}
    /\ UNCHANGED <<messageVars, runVars, asked, told, after, batch, approvals, queued, mem, onDisk, settings, replayed>>

(* The receipt is on disk: only now may the host write. *)
ReceiptSaved(q) ==
    /\ pump = "saving" /\ saving = q /\ planRun = "open"
    /\ onDisk' = mem
    /\ pump' = "reading" /\ saving' = Unset
    /\ Emitted(q, "write")
    /\ unsure' = unsure \union {q}
    /\ UNCHANGED <<messageVars, runVars, asked, told, after, batch, approvals, queued, mem, settings, replayed>>

(* The save failed, or the conversation has a new owner: the Run fails.      *)
ReceiptFails(q) ==
    /\ pump = "saving" /\ saving = q /\ planRun = "open"
    /\ mem' = Without(mem, q)
    /\ planRun' = "over" /\ pump' = "off" /\ saving' = Unset
    /\ pending' = {} /\ queued' = Unset /\ UNCHANGED host
    /\ UNCHANGED <<messageVars, declined, asked, told, after, batch, approvals, onDisk, settings, unsure, replayed>>

(* The Run was stopped or closed during the save: the receipt goes again.    *)
ReceiptAbandoned(q) ==
    /\ pump = "saving" /\ saving = q /\ planRun = "over"
    /\ mem' = Without(mem, q) /\ onDisk' = mem'
    /\ pump' = "off" /\ saving' = Unset
    /\ UNCHANGED <<messageVars, runVars, asked, told, after, calls, batch, approvals, queued, settings, unsure, replayed>>

(* handleSwitchModeQuery: refused, approved without a host tool, or the      *)
(* host's plan_exit decides.                                                 *)
SwitchMode(q) ==
    /\ Reading /\ asked[q] = "new"
    /\ \/ Ending /\ Answer(q, "ack") /\ UNCHANGED <<declined, planMode, calls>>
       \/ ~Ending /\ perms # "ok" /\ Answer(q, "error") /\ declined' = TRUE /\ UNCHANGED <<planMode, calls>>
       \/ ~Ending /\ perms = "ok" /\ planMode /\ reviewer = "plan_exit"
          /\ asked' = [asked EXCEPT ![q] = "open"] /\ Emitted(q, "switch")
          /\ UNCHANGED <<told, unsure, declined, planMode>>
       \/ ~Ending /\ perms = "ok" /\ ~planMode /\ Answer(q, "approved") /\ UNCHANGED <<declined, planMode, calls>>
       \/ ~Ending /\ perms = "ok" /\ planMode /\ reviewer # "plan_exit" /\ Answer(q, "error")
          /\ UNCHANGED <<declined, planMode, calls>>
    /\ UNCHANGED <<messageVars, planRun, pump, saving, after, batch, approvals, queued, mem, onDisk, perms, reviewer, replayed>>

(* handleAskQuestionQuery: refused, held open, or released at once and       *)
(* completed later (run_async).                                              *)
AskQuestion(q) ==
    /\ Reading /\ asked[q] = "new"
    /\ \/ (Ending \/ reviewer # "question") /\ Answer(q, "error") /\ UNCHANGED calls
       \/ ~Ending /\ reviewer = "question" /\ Answer(q, "ack") /\ Emitted(q, "ask")
       \/ ~Ending /\ reviewer = "question" /\ Emitted(q, "ask")
          /\ asked' = [asked EXCEPT ![q] = "open"] /\ UNCHANGED <<told, unsure>>
    /\ UNCHANGED <<messageVars, runVars, pump, saving, after, batch, approvals, queued, mem, onDisk, settings, replayed>>

-----------------------------------------------------------------------------
(* The host. *)
HostStepBegins ==
    /\ Reading /\ pending # {}
    /\ pump' = "off"
    /\ UNCHANGED <<messageVars, runVars, saving, asked, told, after, calls, batch, approvals, queued, mem, onDisk, settings, unsure, replayed>>

(* A file tool succeeds or fails; a review is a yes, a no, or, in the        *)
(* question tool, feedback.                                                  *)
HostRuns(c, result) ==
    /\ c \in pending /\ host[c.q] = "running"
    /\ result = "feedback" => c.phase = "review" /\ reviewer = "question"
    /\ host' = [host EXCEPT ![c.q] = result]
    /\ UNCHANGED <<messageVars, runVars, pump, saving, asked, told, after, pending, batch, approvals, queued, mem, onDisk, settings, unsure, replayed>>

(* The host's next request carries every result of the step, and the         *)
(* permissions and tools of now.                                             *)
Continuation(allowed, tool) ==
    /\ pump = "off" /\ planRun = "open" /\ pending # {}
    /\ \A c \in pending : host[c.q] # "running"
    /\ pump' = "delivering" /\ batch' = pending /\ approvals' = FALSE
    /\ perms' = allowed /\ reviewer' = tool
    /\ UNCHANGED <<messageVars, runVars, saving, asked, told, after, calls, queued, mem, onDisk, planMode, unsure, replayed>>

-----------------------------------------------------------------------------
(* Deliveries (deliverContinuationResultsNow). *)
Delivering(c) == pump = "delivering" /\ c \in batch
Taken(c) == batch' = batch \ {c} /\ pending' = pending \ {c}

(* Mutant of ResultOf: a decline earlier in the batch is not looked at.      *)
ResultOf_Own(c) == host[c.q]

(* A No earlier in the batch decides the rest of it. *)
ResultOf(c) == IF declined THEN "no" ELSE host[c.q]

(* The plan is saved: its review is queued, a plan that may not be built is  *)
(* held, or the save is all there was to do.                                 *)
WriteDelivered(c) ==
    /\ Delivering(c) /\ c.phase = "write" /\ Taken(c)
    /\ LET saved == ResultOf(c) = "yes"
           reviewed == saved /\ after[c.q] = "review"
       IN /\ mem' = IF reviewed THEN [mem EXCEPT ![c.q] = "review"] ELSE Without(mem, c.q)
          /\ IF reviewed THEN NoAnswer
             ELSE Answer(c.q, IF saved /\ after[c.q] = "ack" THEN "saved" ELSE "error")
          /\ queued' = IF saved /\ after[c.q] # "ack" THEN c.q ELSE queued
          /\ declined' = (declined \/ ~saved \/ after[c.q] = "hold")
    /\ onDisk' = mem'
    /\ UNCHANGED <<messageVars, planRun, pump, saving, after, host, approvals, settings, replayed>>

(* Mutant of Granted: permissions are those of the query, not of the answer. *)
Granted_Anyway(c) == ResultOf(c) = "yes"

Granted(c) == ResultOf(c) = "yes" /\ perms = "ok"

(* buildCreatePlanContinuationFrame, buildSwitchModeContinuationFrame. Only  *)
(* feedback, and a refused switch, let the turn go on.                       *)
ReviewDelivered(c) ==
    /\ Delivering(c) /\ c.phase \in {"review", "switch"} /\ Taken(c)
    /\ Answer(c.q, IF Granted(c) THEN "approved" ELSE "error")
    /\ approvals' = (approvals \/ Granted(c))
    /\ declined' = (declined \/ IF c.phase = "switch" THEN perms # "ok"
                                ELSE ~Granted(c) /\ (ResultOf(c) # "feedback" \/ perms = "unavailable"))
    /\ IF c.q \in Plans THEN mem' = Without(mem, c.q) /\ onDisk' = mem' ELSE UNCHANGED <<mem, onDisk>>
    /\ UNCHANGED <<messageVars, planRun, pump, saving, after, host, queued, settings, replayed>>

(* buildAskQuestionContinuationFrame: the user's choices, whatever else the  *)
(* batch holds.                                                              *)
QuestionDelivered(c) ==
    /\ Delivering(c) /\ c.phase = "ask" /\ Taken(c)
    /\ Answer(c.q, "answered")
    /\ UNCHANGED <<messageVars, runVars, pump, saving, after, host, approvals, queued, mem, onDisk, settings, replayed>>

(* A result that cannot be saved, encoded or written closes the Run.         *)
DeliveryFails(c) ==
    /\ Delivering(c) /\ losses < MaxLosses /\ losses' = losses + 1
    /\ mem' = IF c.phase = "write" /\ ResultOf(c) = "yes" /\ after[c.q] = "review"
              THEN [mem EXCEPT ![c.q] = "review"] ELSE mem
    /\ planRun' = "over" /\ pump' = "off" /\ pending' = {} /\ batch' = {} /\ queued' = Unset
    /\ UNCHANGED <<messages, declined, saving, asked, told, after, host, approvals, onDisk, settings, unsure, replayed>>

(* Modes change once the whole batch is known, and only without a No.        *)
BatchDelivered ==
    /\ pump = "delivering" /\ batch = {} /\ planRun = "open"
    /\ planMode' = (planMode /\ (declined \/ ~approvals))
    /\ pump' = "reading" /\ approvals' = FALSE
    /\ UNCHANGED <<messageVars, runVars, saving, asked, told, after, calls, batch, queued, mem, onDisk, perms, reviewer, unsure, replayed>>

-----------------------------------------------------------------------------
(* queuedCreatePlanAction, before the pump reads a frame. *)
QueuedReview(q) ==
    /\ pump = "reading" /\ queued = q /\ after[q] = "review" /\ planRun = "open"
    /\ queued' = Unset
    /\ IF perms # "ok" \/ Ending \/ reviewer \notin {"question", "plan_exit"}
       THEN /\ Answer(q, "error") /\ declined' = TRUE
            /\ mem' = Without(mem, q) /\ onDisk' = mem' /\ UNCHANGED calls
       ELSE /\ Emitted(q, "review") /\ NoAnswer /\ UNCHANGED <<declined, mem, onDisk>>
    /\ UNCHANGED <<messageVars, planRun, pump, saving, after, batch, approvals, settings, replayed>>

QueuedHold(q) ==
    /\ pump = "reading" /\ queued = q /\ after[q] = "hold" /\ planRun = "open"
    /\ queued' = Unset /\ declined' = TRUE
    /\ UNCHANGED <<messageVars, planRun, pump, saving, asked, told, after, calls, batch, approvals, mem, onDisk, settings, unsure, replayed>>

(* A declined Run is cancelled, and ends as Cursor acknowledges that.        *)
CancelsRun ==
    /\ Reading /\ planRun = "open" /\ declined /\ pending = {}
    /\ planRun' = "cancelling"
    /\ UNCHANGED <<messageVars, declined, pump, saving, asked, told, after, calls, batch, approvals, queued, mem, onDisk, settings, unsure, replayed>>

RunOver ==
    /\ Reading /\ pending = {}
    /\ planRun' = "over" /\ pump' = "off"
    /\ onDisk' = mem
    /\ UNCHANGED <<messageVars, declined, saving, asked, told, after, calls, batch, approvals, queued, mem, settings, unsure, replayed>>

-----------------------------------------------------------------------------
(* Losses: a failed or stopped Run keeps its receipts; a restart forgets     *)
(* what is not on disk.                                                      *)
RunLost ==
    /\ planRun # "over" /\ losses < MaxLosses /\ losses' = losses + 1
    /\ planRun' = "over" /\ pump' = (IF pump = "saving" THEN pump ELSE "off")
    /\ pending' = {} /\ batch' = {} /\ queued' = Unset
    /\ onDisk' \in {onDisk, mem}
    /\ UNCHANGED <<messages, declined, saving, asked, told, after, host, approvals, mem, settings, unsure, replayed>>

Crash ==
    /\ losses < MaxLosses /\ losses' = losses + 1
    /\ planRun' = "over" /\ pump' = "off" /\ saving' = Unset
    /\ pending' = {} /\ batch' = {} /\ queued' = Unset /\ approvals' = FALSE /\ declined' = FALSE
    /\ mem' = onDisk
    /\ UNCHANGED <<messages, asked, told, after, host, onDisk, settings, unsure, replayed>>

(* The host runs what it was given also when the provider is gone.           *)

(* Mutant of Incomplete: a saved plan counts as done.                        *)
Incomplete_Write == {q \in Plans : mem[q] = "write"}

Incomplete == {q \in Plans : mem[q] # Unset}

Opens(by) ==
    /\ planRun' = "open" /\ declined' = FALSE /\ pump' = "reading"
    /\ replayed' = IF by = "results" THEN unsure ELSE {}
    /\ pending' = {} /\ batch' = {} /\ queued' = Unset /\ approvals' = FALSE
    /\ host' = [q \in Queries |-> Unset]
    /\ asked' = [q \in Queries |-> IF asked[q] = "open" THEN "new" ELSE asked[q]]

(* interruptedPlanContinuation: results of a lost Run open another one from  *)
(* host history, unless a plan's outcome is unknown.                         *)
RebaseContinuation ==
    /\ planRun = "over" /\ pump = "off" /\ losses > 0
    /\ Incomplete = {}
    /\ Opens("results")
    /\ UNCHANGED <<messageVars, saving, told, after, mem, onDisk, settings, unsure>>

(* A new message of the user abandons the review, and the prior Run.         *)
UserTurn(allowed, mode) ==
    /\ pump = "off" /\ batch = {} /\ messages < MaxMessages
    /\ messages' = messages + 1
    /\ mem' = [q \in Plans |-> Unset]
    /\ onDisk' \in {onDisk, IF planRun = "open" THEN mem' ELSE onDisk}
    /\ perms' = allowed /\ planMode' = mode
    /\ Opens("user")
    /\ told' = [q \in Queries |-> IF planRun = "open" /\ asked[q] = "open" THEN "error" ELSE told[q]]
    /\ unsure' = {}
    /\ UNCHANGED <<losses, saving, after, reviewer>>

-----------------------------------------------------------------------------
Query(q) ==
    \/ q \in Plans /\ (CreatePlanRefused(q) \/ CreatePlanStages(q) \/ CreatePlanRecords(q))
    \/ q \in Switches /\ SwitchMode(q)
    \/ q \in Questions /\ AskQuestion(q)
Receipt(q) == ReceiptSaved(q) \/ ReceiptFails(q) \/ ReceiptAbandoned(q)
Deliver(c) == WriteDelivered(c) \/ ReviewDelivered(c) \/ QuestionDelivered(c) \/ DeliveryFails(c)

PlansNext ==
    \/ \E q \in Queries : Query(q)
    \/ \E q \in Plans : Receipt(q) \/ QueuedReview(q) \/ QueuedHold(q)
    \/ HostStepBegins \/ BatchDelivered \/ CancelsRun \/ RunOver
    \/ \E c \in pending, result \in {"yes", "no", "feedback"} : HostRuns(c, result)
    \/ \E allowed \in {"ok", "denied", "unavailable"} :
           \/ \E tool \in {reviewer, Unset} : Continuation(allowed, tool)
           \/ \E mode \in BOOLEAN : UserTurn(allowed, mode)
    \/ \E c \in batch : Deliver(c)
    \/ RunLost \/ Crash \/ RebaseContinuation

PlansSpec == PlansInit /\ [][PlansNext]_plansVars

-----------------------------------------------------------------------------
(* Cursor is told that a plan or a mode is approved only by the user's Yes,  *)
(* under permissions that let the work begin when the answer is given, and   *)
(* never after a No of the same Run, also in the same batch of results       *)
(* (language-model.ts:3921, :3690-3790).                                     *)
ReviewDecides ==
    [][\A q \in Queries :
           (told'[q] = "approved" /\ told[q] # "approved") =>
               perms = "ok" /\ ~declined /\ (host[q] = "yes" \/ (q \in Switches /\ ~planMode))]_plansVars

(* A Run that the host's results open in place of a lost one never starts    *)
(* over from a point where the host may have written a plan that Cursor      *)
(* knows nothing of: it would be written and reviewed again, whatever was    *)
(* lost and when (plan-operations.ts:134, language-model.ts:1310).           *)
PlanNotReplayed == replayed = {}

(* While its Run is open, a query Cursor waits on is with the host, being    *)
(* saved or queued for its review, at exactly one of these places            *)
(* (language-model.ts:5894, :7397, :4221).                                   *)
OpenQueryOwned ==
    \A q \in Queries : planRun = "open" /\ asked[q] = "open" =>
        LET places == {c \in pending : c.q = q} \union {p \in {saving, queued} : p = q}
        IN Cardinality(places) = 1 /\ (saving = q => queued # q)

(* Only the user's Yes approves. No plan is written again after a lost Run,  *)
(* and an open query has one owner.                                          *)
PlansReviewedOnce == ReviewDecides /\ [][PlanNotReplayed' /\ OpenQueryOwned']_plansVars
=============================================================================
