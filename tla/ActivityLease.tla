---------------------------- MODULE ActivityLease ----------------------------
(***************************************************************************)
(* How long a Run may wait for the host (activity.ts, with the lease of     *)
(* session.ts and the events the plugins pass on). A pending exec of the    *)
(* session Root has a lease; what happens in Root or in a subagent below it *)
(* renews it, and so do a prompt the user has not answered and a host tool  *)
(* that still runs, each up to a limit of its own. SessionManager knows of  *)
(* this only that a lease lapses or is renewed.                             *)
(*                                                                         *)
(* The size limits (1,024 sessions, prompts and tools) are not reached.     *)
(***************************************************************************)
EXTENDS Integers, Sequences, FiniteSets

CONSTANTS
    Root, Below,  \* the Run's session, and the sessions that may come to be below it
    Calls,        \* host tool calls of a session
    HardCap,      \* policy.hardCapMs
    ToolCap,      \* RUNNING_TOOL_CAP_MS
    Retention,    \* ACTIVITY_RETENTION_MS
    MaxTime       \* bound: the clock

Sessions == {Root} \cup Below
None == -1

VARIABLES
    now,
    parent,   \* parentBySession
    activity, \* lastActivityBySession, in the order of insertion
    prompts,  \* openPrompts: when a session's prompt opened
    tools,    \* runningTools: when a call started
    lease,    \* of the pending exec: registeredAt, hardDeadlineAt, and its timer
    state,    \* "waiting" for the host, "answered", or "expired" with its Run
    heard,    \* history: the last event of each session
    linked,   \* history: the subagents of Root, but for those silent too long since
    opened,   \* history: since when a session's user is asked
    began     \* history: when each running call first started

tracker == <<parent, activity, prompts, tools>>
truth == <<heard, linked, opened, began>>
vars == <<now, tracker, lease, state, truth>>

Init ==
    /\ now = 0 /\ parent = [s \in Sessions |-> None] /\ activity = <<>>
    /\ prompts = [s \in Sessions |-> None]
    /\ tools = [s \in Sessions, c \in Calls |-> None]
    /\ lease = [registered |-> 0, deadline |-> HardCap, timer |-> HardCap]
    /\ state = "waiting"
    /\ heard = [s \in Sessions |-> None] /\ linked = {} /\ opened = prompts /\ began = tools

-----------------------------------------------------------------------------
At(list, s) ==
    LET found == {i \in DOMAIN list : list[i].id = s}
    IN IF found = {} THEN None ELSE list[CHOOSE i \in found : TRUE].at

(* Of two levels: a session's own, its parent's. *)
Lineage(links, s) == {s} \cup ({links[s]} \ {None})

\* Mutant of Covers: what happens in a subagent is not the session's.
Covers_Own(links, s) == s = Root

Covers(links, s) == Root \in Lineage(links, s)

(* recordActivity of one session: an older time is not recorded. *)
Put(list, s, at) ==
    IF At(list, s) >= at THEN list
    ELSE SelectSeq(list, LAMBDA x : x.id # s) \o <<[id |-> s, at |-> at]>>

recordActivity(list, links, s, at) ==
    LET own == Put(list, s, at)
    IN IF links[s] = None THEN own ELSE Put(own, links[s], at)

(* prune: entries are dropped from the front, and no further than the first  *)
(* that is young enough.                                                     *)
Old(at) == at < now - Retention
Stale(list) ==
    {list[i].id : i \in {i \in DOMAIN list : \A j \in 1..i : Old(list[j].at)}}

Kept(list) == SelectSeq(list, LAMBDA x : x.id \notin Stale(list))
Linked(list, links) == [s \in Sessions |-> IF s \in Stale(list) THEN None ELSE links[s]]

(* A session that was quiet too long has lost its link when it is heard again. *)
Tracks(list, links) == activity' = Kept(list) /\ parent' = Linked(list, links)

KeptPrompts(open) == [s \in Sessions |-> IF Old(open[s]) THEN None ELSE open[s]]
KeptTools(run) == [k \in DOMAIN run |-> IF Old(run[k]) THEN None ELSE run[k]]

Silent == {s \in Sessions : heard[s] # None /\ Old(heard[s])}

(* An event of session s. *)
Heard(s, open, run) ==
    /\ LET links == Linked(activity, parent)
       IN Tracks(recordActivity(Kept(activity), links, s, now), links)
    /\ prompts' = KeptPrompts(open) /\ tools' = KeptTools(run)
    /\ heard' = [heard EXCEPT ![s] = now] /\ linked' = linked \ Silent
    /\ UNCHANGED <<now, lease, state>>

Goes(run, s) == [k \in DOMAIN run |-> IF k[1] = s THEN None ELSE run[k]]

-----------------------------------------------------------------------------
(* The host's events: applyHostPromptEvent, applyHostToolEvent and the rest. *)
Progress(s) == Heard(s, prompts, tools) /\ UNCHANGED opened /\ began' = KeptTools(began)

OpensPrompt(s) ==
    /\ opened[s] = None
    /\ Heard(s, [prompts EXCEPT ![s] = now], tools)
    /\ opened' = [opened EXCEPT ![s] = now] /\ began' = KeptTools(began)

ClosesPrompt(s) ==
    /\ opened[s] # None
    /\ Heard(s, [prompts EXCEPT ![s] = None], tools)
    /\ opened' = [opened EXCEPT ![s] = None] /\ began' = KeptTools(began)

\* Mutant of StartedAt: a repeated start counts from now.
StartedAt_Again(s, c) == now

StartedAt(s, c) == IF tools[s, c] = None THEN now ELSE tools[s, c]

toolStarted(s, c) ==
    /\ Heard(s, prompts, [tools EXCEPT ![s, c] = StartedAt(s, c)])
    /\ began' = KeptTools([began EXCEPT ![s, c] = IF @ = None THEN now ELSE @])
    /\ UNCHANGED opened

toolEnded(s, c) ==
    /\ began[s, c] # None
    /\ Heard(s, prompts, [tools EXCEPT ![s, c] = None])
    /\ began' = KeptTools([began EXCEPT ![s, c] = None]) /\ UNCHANGED opened

endRunningTools(s) ==
    /\ Goes(tools, s) # tools
    /\ Heard(s, prompts, Goes(tools, s))
    /\ began' = KeptTools(Goes(began, s)) /\ UNCHANGED opened

(* session.created, session.updated: what the subagent did before it was     *)
(* linked counts for its parent.                                            *)
linkSession(s) ==
    LET links == [Linked(activity, parent) EXCEPT ![s] = Root]
        known == At(Kept(activity), s)
    IN /\ s # Root
       /\ Tracks(IF known = None THEN Kept(activity)
                 ELSE recordActivity(Kept(activity), links, s, known), links)
       /\ prompts' = KeptPrompts(prompts) /\ tools' = KeptTools(tools)
       /\ linked' = (linked \ Silent) \cup {s} /\ began' = KeptTools(began)
       /\ UNCHANGED <<now, lease, state, heard, opened>>

removeSession(s) ==
    /\ s # Root
    /\ parent' = [parent EXCEPT ![s] = None]
    /\ activity' = SelectSeq(activity, LAMBDA x : x.id # s)
    /\ prompts' = [prompts EXCEPT ![s] = None]
    /\ tools' = Goes(tools, s)
    /\ heard' = [heard EXCEPT ![s] = now] /\ linked' = linked \ {s}
    /\ opened' = [opened EXCEPT ![s] = None] /\ began' = Goes(began, s)
    /\ UNCHANGED <<now, lease, state>>

-----------------------------------------------------------------------------
Larger(a, b) == IF a > b THEN a ELSE b
Smaller(a, b) == IF a < b THEN a ELSE b

(* What the tracker answers once it has pruned. *)
AwaitsUser == \E s \in Sessions : KeptPrompts(prompts)[s] # None /\ Covers(parent', s)

lastActivityAt == IF AwaitsUser THEN now ELSE At(activity', Root)

(* runningToolDeadline, which is asked before anything is pruned. *)
Ceilings ==
    {tools[k] + ToolCap : k \in {k \in DOMAIN tools : tools[k] # None /\ Covers(parent, k[1])}}
Limits == {c \in Ceilings : now < c}

refreshHardDeadline ==
    LET active == IF lastActivityAt > lease.registered THEN lastActivityAt + HardCap ELSE 0
        running == IF Limits = {} THEN 0
                   ELSE Smaller(now + HardCap, CHOOSE c \in Limits : \A d \in Limits : d <= c)
    IN Larger(lease.deadline, Larger(active, running))

\* Mutant of Refreshed: the timer closes at the time it was set for.
Refreshed_Not == lease.deadline

Refreshed == refreshHardDeadline

Asked ==
    /\ Tracks(activity, parent) /\ prompts' = KeptPrompts(prompts) /\ tools' = KeptTools(tools)
    /\ began' = KeptTools(began)

(* The timer: hardDeadlineExpired closes the Run, or the timer is set anew.   *)
TimerFires ==
    /\ now >= lease.timer
    /\ Asked
    /\ IF now >= Refreshed THEN state' = "expired" /\ UNCHANGED lease
       ELSE lease' = [lease EXCEPT !.deadline = Refreshed, !.timer = Refreshed] /\ UNCHANGED state
    /\ UNCHANGED <<now, heard, linked, opened>>

(* The result comes: an expired lease refuses it. *)
ResultComes ==
    /\ Asked
    /\ lease' = [lease EXCEPT !.deadline = Refreshed]
    /\ state' = IF now >= Refreshed THEN "expired" ELSE "answered"
    /\ UNCHANGED <<now, heard, linked, opened>>

(* Timers that are due fire before the clock goes on. *)
Tick ==
    /\ now < MaxTime /\ now < lease.timer
    /\ now' = now + 1
    /\ UNCHANGED <<tracker, lease, state, truth>>

applyHostPromptEvent(s) == OpensPrompt(s) \/ ClosesPrompt(s)

applyHostToolEvent(s) ==
    endRunningTools(s) \/ \E c \in Calls : toolStarted(s, c) \/ toolEnded(s, c)

applySessionActivity(s) == Progress(s) \/ linkSession(s) \/ removeSession(s)

(* Of a closed or answered exec there is nothing left to follow. *)
Next ==
    /\ state = "waiting"
    /\ \/ \E s \in Sessions :
           applyHostPromptEvent(s) \/ applyHostToolEvent(s) \/ applySessionActivity(s)
       \/ TimerFires \/ ResultComes \/ Tick

Spec == Init /\ [][Next]_vars

-----------------------------------------------------------------------------
(* A Run is not closed while its user is asked, or while a host tool of its   *)
(* session or of a subagent is within its ceiling.                            *)
WorkKeepsRun ==
    [][state = "waiting" /\ state' = "expired" =>
          \A s \in {Root} \cup (linked \ Silent) :
             /\ opened[s] # None => Old(opened[s])
             /\ \A c \in Calls : began[s, c] # None => now >= began[s, c] + ToolCap]_vars

(* Nothing holds a Run for ever: the lease ends HardCap after the last event, *)
(* or at the ceiling of a tool, or when the prompt is too old.                 *)
LeaseBounded ==
    \/ state # "waiting" \/ lease.deadline <= HardCap
    \/ \E s \in Sessions :
        \/ heard[s] # None /\ lease.deadline <= heard[s] + HardCap
        \/ opened[s] # None /\ lease.deadline <= opened[s] + Retention + HardCap
        \/ \E c \in Calls : began[s, c] # None /\ lease.deadline <= began[s, c] + ToolCap
=============================================================================
