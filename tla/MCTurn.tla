-------------------------------- MODULE MCTurn --------------------------------
(***************************************************************************)
(* What must end, for TLC: a host step, a turn with its retries, a switch   *)
(* of agents, shell calls and their terminals, the maintenance of the       *)
(* snapshots, and the lease of a held Run. They share no state, so one of   *)
(* them runs in each behaviour; the others stay as they start.              *)
(***************************************************************************)
EXTENDS ShellCalls, Integers, TLC

VARIABLES
    part,  \* the component under way
    \* HostStep
    at, lists, listed, display, edits, fieldSeen, step, prior, rows, emitted,
    owed, released, pump, stepRun, stepOpened, stepFailed, ran, finish, split,
    wasHeld,
    \* RunRecovery
    phase, newest, down, up, call, budget, host,
    \* ModeSwitch
    run, agentStage, exec, runAgent, agent, mode, pending, applying, switched,
    regs, agentAsked, endedWell, continued, approvedIn,
    \* ManagedTerminal
    job, termRecord, claimed, ready, timedout, termFailed, done, code,
    release, launcher, report, sup, aborted, group, exit, watchdog,
    \* SnapshotStore
    team, status, conv, live, quarantine, dir, moves, proc, crashes, latest,
    removed, revoked,
    \* ActivityLease
    now, parent, activity, prompts, tools, lease, state, heard, linked,
    leaseOpened, began

CONSTANTS tool, top, below, FollowUp, Nil

\* A step of an edit and a todo list, and a later command.
Generations == "e" :> 1 @@ "b" :> 1 @@ "u" :> 2

\* One process repairs the cache for ever, another collects, a third writes.
Maintainers ==
    [roles |-> (1 :> {"recover"} @@ 2 :> {"collect", "recover"} @@ 3 :> {"write"}),
     conversations |-> {1}, inodes |-> 2, moves |-> 3, crashes |-> 1]

Step == INSTANCE HostStep WITH
    opened <- stepOpened, failed <- stepFailed, Edits <- {"e"},
    Tools <- {"u"}, Bridged <- {"b"}, CursorOwn <- {}, MaxRows <- 1,
    Gen <- Generations

Turn == INSTANCE RunRecovery WITH
    TurnTools <- {tool}, Void <- Nil, ServerRetries <- 1, LinkRetries <- 0,
    MaxNoProgress <- 1, MaxOutages <- 1, MaxHeldLosses <- 1, MaxQueue <- 1

Agent == INSTANCE ModeSwitch WITH
    stage <- agentStage, asked <- agentAsked, MaxRuns <- 2, MaxRequests <- 2,
    Setups <- {1}, Native <- {"plan"}

Term == INSTANCE ManagedTerminal WITH
    record <- termRecord, failed <- termFailed, Spawn <- FALSE,
    HardLimit <- TRUE

Snap == INSTANCE SnapshotStore WITH
    Procs <- 1..3, Conversations <- {1}, MaxInodes <- 2, MaxMoves <- 3,
    Teams <- {Maintainers}

Lease == INSTANCE ActivityLease WITH
    opened <- leaseOpened, Root <- top, Below <- {below}, Calls <- {tool},
    HardCap <- 1, ToolCap <- 2, Retention <- 3, MaxTime <- 4

stepVars == <<at, lists, listed, display, edits, fieldSeen, step, prior, rows,
    emitted, owed, released, pump, stepRun, stepOpened, stepFailed, ran,
    finish, split, wasHeld>>
turnVars == <<phase, newest, down, up, call, budget, host>>
agentVars == <<run, agentStage, exec, runAgent, agent, mode, pending,
    applying, switched, regs, agentAsked, endedWell, continued, approvedIn>>
termVars == <<job, termRecord, claimed, ready, timedout, termFailed, done,
    code, release, launcher, report, sup, aborted, group, exit, watchdog>>
snapVars == <<team, status, conv, live, quarantine, dir, moves, proc, crashes,
    latest, removed, revoked>>
leaseVars == <<now, parent, activity, prompts, tools, lease, state, heard,
    linked, leaseOpened, began>>
allVars == <<part, stepVars, turnVars, agentVars, shellsVars, termVars,
    snapVars, leaseVars>>

InitAny ==
    /\ part \in {"step", "turn", "agent", "shell", "term", "snap", "lease"}
    /\ Step!StepsInit /\ (part = "step" \/ (lists = TRUE /\ fieldSeen = TRUE))
    /\ Turn!TurnInit
    /\ Agent!Init /\ (part = "agent" \/ (agent = "build"))
    /\ ShellsInit /\ (part = "shell" \/ (\A c \in Shells : asked[c] = "k"))
    \* Commands only differ by name.
    /\ asked["a"] = "k"
    /\ Term!Init
    /\ Snap!Init /\ (part = "snap" \/ (live = 0))
    /\ Lease!Init

StepSteps ==
    /\ part = "step" /\ Step!StepsNext
    /\ UNCHANGED <<part, turnVars, agentVars, shellsVars, termVars, snapVars,
        leaseVars>>

TurnSteps ==
    /\ part = "turn" /\ Turn!TurnNext
    /\ UNCHANGED <<part, stepVars, agentVars, shellsVars, termVars, snapVars,
        leaseVars>>

AgentSteps ==
    /\ part = "agent" /\ Agent!Next
    /\ UNCHANGED <<part, stepVars, turnVars, shellsVars, termVars, snapVars,
        leaseVars>>

ShellSteps ==
    /\ part = "shell" /\ ShellsNext
    /\ UNCHANGED <<part, stepVars, turnVars, agentVars, termVars, snapVars,
        leaseVars>>

TermSteps ==
    /\ part = "term" /\ Term!Next
    /\ UNCHANGED <<part, stepVars, turnVars, agentVars, shellsVars, snapVars,
        leaseVars>>

SnapSteps ==
    /\ part = "snap" /\ Snap!Next
    /\ UNCHANGED <<part, stepVars, turnVars, agentVars, shellsVars, termVars,
        leaseVars>>

LeaseSteps ==
    /\ part = "lease" /\ Lease!Next
    /\ UNCHANGED <<part, stepVars, turnVars, agentVars, shellsVars, termVars,
        snapVars>>

NextAny == StepSteps \/ TurnSteps \/ AgentSteps \/ ShellSteps \/ TermSteps \/
    SnapSteps \/ LeaseSteps

FairnessAny ==
    /\ WF_stepVars(part = "step" /\ Step!Guard)
    /\ WF_stepVars(part = "step" /\ \E c \in released : Step!Frame(c))
    /\ WF_stepVars(part = "step" /\ Step!Continuation)
    /\ WF_turnVars(part = "turn" /\ Turn!Pump)
    /\ WF_turnVars(part = "turn" /\ Turn!Recovers)
    /\ WF_turnVars(part = "turn" /\ Turn!Cursor)
    /\ WF_turnVars(part = "turn" /\ Turn!Host)
    /\ WF_agentVars(part = "agent" /\ Agent!Answered)
    /\ WF_agentVars(part = "agent" /\ Agent!Cancels)
    /\ WF_agentVars(part = "agent" /\ agentStage = "cancelled" /\ Agent!RunEnds)
    /\ \A c \in Shells : WF_shellsVars(part = "shell" /\ stage[c] \in {"going", "created"} /\ Ends(c))
    /\ WF_termVars(part = "term" /\ Term!Fails)
    /\ WF_termVars(part = "term" /\ Term!TrapStops)
    /\ WF_termVars(part = "term" /\ Term!LifelineEnds)
    /\ WF_termVars(part = "term" /\ Term!ChecksJob)
    /\ WF_termVars(part = "term" /\ Term!WritesHeader)
    /\ WF_termVars(part = "term" /\ Term!GroupFails)
    /\ WF_termVars(part = "term" /\ Term!CommandOver)
    /\ WF_termVars(part = "term" /\ Term!StopsHelpers)
    /\ WF_termVars(part = "term" /\ Term!ClosesRecord)
    /\ WF_termVars(part = "term" /\ Term!WritesDone)
    /\ \A p \in 1..3 : WF_snapVars(part = "snap" /\ Snap!Step(p))
    /\ WF_snapVars(part = "snap" /\ Snap!Start(1, "recover", 0))

SpecAny == InitAny /\ [][NextAny]_allVars /\ FairnessAny

-----------------------------------------------------------------------------
\* The theorems about these components speak of this instance.
ASSUME Instance == Constants /\ Step!StepConstants

\* A step with a call for the host ends.
StepEnds == Step!StepEnds

\* The turn ends.
TurnEnds == <>(part = "turn" => Turn!TurnOver)

\* A Run that hands over to another agent does not stay open.
HandoffEnds == Agent!HandoffEnds

\* A stopped command does not run on, and the launcher reports what was so.
StoppedForGood == Term!StoppedForGood /\ [][Term!ReportTruthful']_allVars

\* What a crash left in the quarantine does not stay there.
LeftoversLeave == Snap!LeftoversLeave

\* What runs below a held Run keeps it, and nothing keeps it for ever.
LeaseFollowsWork == Lease!WorkKeepsRun /\ [][Lease!LeaseBounded']_allVars
=============================================================================
