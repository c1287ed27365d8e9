----------------------------- MODULE ModeSwitch -----------------------------
(***************************************************************************)
(* Cursor's mode and the host's agent in one OpenCode session               *)
(* (src/src/host-agent-mode.ts, src/src/protocol/switch-mode.ts and their   *)
(* callers). A Run that changes mode queues a switch of the host's agent;   *)
(* it is applied when that Run has ended, and starts the turn that goes on. *)
(***************************************************************************)
EXTENDS Naturals, Sequences, SequencesExt

CONSTANTS
    MaxRuns,    \* bound: Runs of the session
    MaxRequests,  \* bound: switches asked for
    Setups,     \* plugin setups that may install a switch
    Native      \* roles the host has a plan tool for: plan_enter, plan_exit

Agents == {"plan", "build"}
Roles == {"plan", "read-only", "implement"}
NoRequest == [id |-> 0, agent |-> "none", owner |-> 0]

VARIABLES
    run,        \* the session's newest Run, 0 before the first
    stage,      \* of that Run: "none", "open", "cancelled" (cancel sent), "over"
    exec,       \* what the Run waits for: "none", "tool", "native", "plan"
    runAgent,   \* hostAgent: the agent the Run was opened under
    agent,      \* the host's agent of the session
    mode,       \* activeCursorModeBySession: role and bridgedPlanEntered
    pending,    \* the queued switch
    applying,   \* the switch under way
    switched,   \* whether its agent is selected and only the next turn is missing
    regs,       \* registrations, newest last
    asked,      \* asked[i]: the Run that asked for switch i
    endedWell,  \* Runs that reached their terminal boundary
    continued,  \* continued[i]: turns that switch i started
    approvedIn  \* the last Run in which the user approved leaving plan mode

vars == <<run, stage, exec, runAgent, agent, mode, pending, applying, switched, regs, asked, endedWell,
          continued, approvedIn>>
unmoved == <<switched, endedWell, continued>>

Init ==
    /\ run = 0 /\ stage = "none" /\ exec = "none" /\ runAgent = "build" /\ agent \in Agents
    /\ mode = [role |-> "none", bridged |-> FALSE]
    /\ pending = NoRequest /\ applying = NoRequest /\ switched = FALSE /\ regs = <<>>
    /\ asked = <<>> /\ endedWell = {} /\ continued = <<>> /\ approvedIn = 0

(* hostAgentForCursorMode: a read-only mode selects no agent.                *)
AgentFor(role) == IF role = "plan" THEN "plan" ELSE IF role = "implement" THEN "build" ELSE "none"

-----------------------------------------------------------------------------
(* setHostAgentModeSwitch and its disposer, of each setup of the plugin.     *)
Installs(s) ==
    /\ s \notin Range(regs)
    /\ regs' = Append(regs, s)
    /\ UNCHANGED <<run, stage, exec, runAgent, agent, mode, pending, applying, asked, approvedIn, unmoved>>

Disposes(s) ==
    /\ s \in Range(regs)
    /\ regs' = Remove(regs, s)
    /\ pending' = IF regs' = <<>> THEN NoRequest ELSE pending
    /\ UNCHANGED <<run, stage, exec, runAgent, agent, mode, applying, asked, approvedIn, unmoved>>

(* The user selects an agent in the host.                                    *)
UserSelects(a) ==
    /\ stage # "open" /\ a # agent
    /\ agent' = a
    /\ UNCHANGED <<run, stage, exec, runAgent, mode, pending, applying, regs, asked, approvedIn, unmoved>>

-----------------------------------------------------------------------------
(* followHostPlanAgent, as a Run opens.                                      *)
Followed(previous) ==
    IF agent = "plan"
    THEN IF \/ mode.role = "plan" /\ mode.bridged
            \/ previous = "plan" /\ mode.role = "read-only"
         THEN mode ELSE [role |-> "plan", bridged |-> TRUE]
    ELSE IF previous = "plan" /\ mode.role = "plan" THEN [role |-> "implement", bridged |-> FALSE] ELSE mode

(* A turn opens a Run; a Run still open, whose turn the user abandoned, is   *)
(* superseded.                                                              *)
Opens ==
    /\ run < MaxRuns
    /\ run' = run + 1 /\ stage' = "open" /\ exec' = "none"
    /\ runAgent' = agent /\ mode' = Followed(runAgent)
    /\ UNCHANGED <<agent, pending, applying, regs, asked, approvedIn, unmoved>>

(* isHostAgentHandoffPending: every registered switch here resumes the turn. *)
Handoff == regs # <<>> /\ pending.owner # 0 /\ pending.owner = run

Working == stage = "open" /\ exec = "none" /\ ~Handoff

CallsTool(kind) ==
    /\ Working
    /\ kind = "plan" => runAgent = "plan"
    /\ exec' = kind
    /\ UNCHANGED <<run, stage, runAgent, agent, mode, pending, applying, regs, asked, approvedIn, unmoved>>

(* queueHostAgentModeSwitch, and the registered switch's accepts. The newest *)
(* request of a session replaces an older one.                              *)
Queue(role, host) ==
    IF /\ regs # <<>> /\ AgentFor(role) # "none" /\ AgentFor(role) # host
       /\ Len(asked) < MaxRequests
    THEN /\ pending' = [id |-> Len(asked) + 1, agent |-> AgentFor(role), owner |-> run]
         /\ asked' = Append(asked, run) /\ continued' = Append(continued, 0)
    ELSE UNCHANGED <<pending, asked, continued>>

(* resolveSwitchModeBridge: denied is the session's edit rule, or that it    *)
(* cannot be read.                                                          *)

(* Mutant of Bridge: the host's plan agent is not looked at. *)
Bridge_Anyone(role, denied) ==
    IF role = "read-only" THEN "approve" ELSE IF denied /\ role = "implement" THEN "reject"
    ELSE IF mode.role = role THEN "approve" ELSE IF role \in Native THEN "native" ELSE "approve"

Bridge(role, denied) ==
    IF role = "read-only" THEN "approve"
    ELSE IF denied /\ role = "implement" THEN "reject"
    ELSE IF mode.role = role THEN "approve"
    ELSE IF role \in Native THEN "native"
    ELSE IF role = "plan" THEN "approve"
    ELSE IF runAgent = "plan" THEN "reject"
    ELSE "approve"

SwitchModeApproved(role) ==
    /\ Working /\ \E denied \in BOOLEAN : Bridge(role, denied) = "approve"
    /\ mode' = [role |-> role, bridged |-> FALSE]
    /\ Queue(role, runAgent)
    /\ UNCHANGED <<run, stage, exec, runAgent, agent, applying, switched, regs, endedWell, approvedIn>>

SwitchModeNative(role) ==
    /\ Working /\ \E denied \in BOOLEAN : Bridge(role, denied) = "native"
    /\ exec' = "native"
    /\ UNCHANGED <<run, stage, runAgent, agent, mode, pending, applying, regs, asked, approvedIn, unmoved>>

(* The host's result: its own plan tool switched the mode, the user approved *)
(* a plan that CreatePlan submitted, or neither.                            *)
NativeApproved(role) ==
    /\ stage = "open" /\ exec = "native" /\ role \in Native
    /\ exec' = "none" /\ mode' = [role |-> role, bridged |-> role = "plan"]
    /\ approvedIn' = IF role = "implement" THEN run ELSE approvedIn
    /\ UNCHANGED <<run, stage, runAgent, agent, pending, applying, regs, asked, unmoved>>

PlanApproved ==
    /\ stage = "open" /\ exec = "plan"
    /\ exec' = "none" /\ mode' = [role |-> "implement", bridged |-> FALSE]
    /\ approvedIn' = run
    /\ Queue("implement", "plan")
    /\ UNCHANGED <<run, stage, runAgent, agent, applying, switched, regs, endedWell>>

Answered ==
    /\ stage = "open" /\ exec # "none"
    /\ exec' = "none"
    /\ UNCHANGED <<run, stage, runAgent, agent, mode, pending, applying, regs, asked, approvedIn, unmoved>>

-----------------------------------------------------------------------------
(* The Run ends for the switch that waits for it.                            *)

(* Mutant of ToCancel: only a declined plan cancels the Run. *)
ToCancel_Declined == FALSE

ToCancel == exec = "none" /\ Handoff

Cancels ==
    /\ stage = "open" /\ ToCancel
    /\ stage' = "cancelled"
    /\ UNCHANGED <<run, exec, runAgent, agent, mode, pending, applying, regs, asked, approvedIn, unmoved>>

(* A superseded owner's request is not applied, and not kept.                *)

(* Mutant of Stale: whichever Run ends applies the request. *)
Stale_Never == FALSE

Stale == pending.owner # 0 /\ pending.owner # run

(* The pull that saw the Run's end flushes: flushHostAgentModeSwitch.        *)
RunEnds ==
    /\ \/ stage = "open" /\ exec = "none"
       \/ stage = "cancelled"
    /\ stage' = "over" /\ endedWell' = endedWell \cup {run}
    /\ IF pending = NoRequest \/ regs = <<>> \/ applying # NoRequest THEN UNCHANGED <<pending, applying>>
       ELSE IF Stale THEN pending' = NoRequest /\ UNCHANGED applying
       ELSE applying' = pending /\ UNCHANGED pending
    /\ UNCHANGED <<run, exec, runAgent, agent, mode, switched, regs, asked, continued, approvedIn>>

(* The Run fails, or its turn is stopped: nothing is flushed.                *)
RunFails ==
    /\ stage \in {"open", "cancelled"}
    /\ stage' = "over" /\ exec' = "none"
    /\ UNCHANGED <<run, runAgent, agent, mode, pending, applying, regs, asked, approvedIn, unmoved>>

(* The switch selects the agent, then starts the turn that goes on.          *)
SelectsAgent ==
    /\ applying # NoRequest /\ ~switched
    /\ agent' = applying.agent /\ switched' = TRUE
    /\ UNCHANGED <<run, stage, exec, runAgent, mode, pending, applying, regs, asked, endedWell, continued, approvedIn>>

(* A request that came during the switch is a later one and stays.           *)

(* Mutant of AfterSwitch: an applied request stays queued. *)
AfterSwitch_Stays == [pending EXCEPT !.owner = 0]

AfterSwitch == IF pending = applying THEN NoRequest ELSE pending

Continues ==
    /\ applying # NoRequest /\ switched
    /\ continued' = [continued EXCEPT ![applying.id] = @ + 1]
    /\ pending' = AfterSwitch
    /\ applying' = NoRequest /\ switched' = FALSE
    /\ UNCHANGED <<run, stage, exec, runAgent, agent, mode, regs, asked, endedWell, approvedIn>>

(* The failed request waits, without an owner, for a later Run's end.        *)

(* Mutant of AfterFailure: whatever is queued loses its owner. *)
AfterFailure_Any == [pending EXCEPT !.owner = 0]

AfterFailure == IF pending = applying THEN [pending EXCEPT !.owner = 0] ELSE pending

SwitchFails ==
    /\ applying # NoRequest
    /\ pending' = AfterFailure
    /\ applying' = NoRequest /\ switched' = FALSE
    /\ UNCHANGED <<run, stage, exec, runAgent, agent, mode, regs, asked, endedWell, continued, approvedIn>>

(* session.deleted.                                                          *)
Deleted ==
    /\ stage = "over"
    /\ mode' = [role |-> "none", bridged |-> FALSE] /\ pending' = NoRequest
    /\ UNCHANGED <<run, stage, exec, runAgent, agent, applying, regs, asked, approvedIn, unmoved>>

Next ==
    \/ \E s \in Setups : Installs(s) \/ Disposes(s)
    \/ \E a \in Agents : UserSelects(a)
    \/ Opens \/ Cancels \/ RunEnds \/ RunFails \/ Answered \/ PlanApproved
    \/ \E k \in {"tool", "plan"} : CallsTool(k)
    \/ \E r \in Roles : SwitchModeApproved(r) \/ SwitchModeNative(r) \/ NativeApproved(r)
    \/ SelectsAgent \/ Continues \/ SwitchFails \/ Deleted

(* The host answers its tools, the Run sends its cancel, and Cursor          *)
(* acknowledges it or the stream fails.                                      *)
Fairness == WF_vars(Answered) /\ WF_vars(Cancels) /\ WF_vars(stage = "cancelled" /\ RunEnds)

Spec == Init /\ [][Next]_vars /\ Fairness

-----------------------------------------------------------------------------
(* A switch asked for by a Run that was superseded or failed before its end  *)
(* is never applied to a later turn.                                         *)
NoStaleSwitch == applying # NoRequest => asked[applying.id] \in endedWell

(* A switch starts at most one turn.                                         *)
ContinuedOnce == \A i \in DOMAIN continued : continued[i] <= 1

(* Under the host's plan agent Cursor is not told to implement unless the    *)
(* user approved leaving the plan in that Run.                               *)
PlanAgentPlans == stage = "open" /\ runAgent = "plan" /\ mode.role = "implement" => approvedIn = run

(* An agent is switched once per request, for the Run that asked, and by the *)
(* user's word.                                                              *)
SwitchesOnce == NoStaleSwitch /\ ContinuedOnce /\ PlanAgentPlans

(* A Run whose switch waits for it does not stay open.                       *)
HandoffEnds == (stage = "open" /\ Handoff) ~> ~(stage = "open" /\ Handoff)
=============================================================================
