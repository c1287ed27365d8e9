------------------------------ MODULE StepOrder ------------------------------
(***************************************************************************)
(* Model-order holds of a Cursor step that changes a file                  *)
(* (src/step-order.ts), with the pump of src/language-model.ts around it.  *)
(*                                                                         *)
(* Cursor sends every exec of a generation at once and the host runs the   *)
(* calls of a step concurrently.  A call the model wrote after a file      *)
(* change waits here until the file change is finished, and the file       *)
(* change waits for the earlier calls on their way; what follows a file    *)
(* change the host refused is cancelled.                                   *)
(*                                                                         *)
(* Operators on the record `order` translate the functions of              *)
(* step-order.ts; actions are the frames the pump reads, its loop around   *)
(* holds, and the host.  The sequence `held` is a set: it is kept in index *)
(* order, and neither takeCancelledExecs nor takeReleasableExecs decides   *)
(* an entry by what it did to an earlier one (a released call blocks what  *)
(* a held one blocks).                                                     *)
(*                                                                         *)
(* Assumed of Cursor: it announces the calls of a generation in model      *)
(* order, has one exec of a call outstanding at a time, sends the same     *)
(* Signals for every generation, with a step_started where an unannounced  *)
(* call may come first, and opens a generation when it knows the outcome   *)
(* of every call of the one before.                                        *)
(***************************************************************************)
EXTENDS Integers, FiniteSets

CONSTANTS
    Calls, \* model calls, numbered in the order the model wrote them
    Execs,
    Plans, \* what the model writes and Cursor sends, in each behaviour
    None

\* The call an exec belongs to; the generation of a call (1, 2, ...); calls that
\* change a file, and those whose announcement shows it; calls whose exec comes
\* without a tool_call_started; a file change's private reads, before its write;
\* what Cursor sends per generation.
Plan ==
    [callOf: UNION {[E -> Calls] : E \in SUBSET Execs}, genOf: [Calls -> Nat],
     fileChange: SUBSET Calls, shown: SUBSET Calls, silent: SUBSET Calls,
     reads: SUBSET Execs, signals: SUBSET {"count", "start"}]

ASSUME CallsAssumption == Calls \in SUBSET Nat /\ IsFiniteSet(Calls) /\ None \notin Nat
ASSUME PlansAssumption ==
    \A p \in Plans :
        /\ p \in Plan
        /\ p.shown \subseteq p.fileChange /\ p.shown \cap p.silent = {}
        /\ \A e \in p.reads : e \in DOMAIN p.callOf /\ p.callOf[e] \in p.shown
        /\ "start" \in p.signals \/ ("count" \in p.signals /\ p.silent = {})

VARIABLES
    plan,     \* one of Plans
    order,    \* StepOrderState
    phase,    \* where each exec is
    hostStep, \* no host step, one the pump fills, one the host runs
    gen,      \* the generation Cursor is sending
    counted,  \* its call count has been sent
    started,  \* calls announced, or whose exec came unannounced
    earlier,  \* history: the calls of its generation that Cursor started before each call
    over,     \* calls Cursor has completed
    withdrawn,\* execs Cursor has withdrawn
    failed,   \* calls with an exec refused or withdrawn: Cursor sends no other of theirs
    refusals, \* history: file changes the host refused
    cancelled \* history: execs cancelled behind one

vars == <<plan, order, phase, hostStep, gen, counted, started, earlier, over, withdrawn, failed, refusals, cancelled>>

cursor == <<gen, counted, started, earlier, over, withdrawn>>
history == <<failed, refusals, cancelled>>

CallOf == plan.callOf
GenOf == plan.genOf
FileChange == plan.fileChange
Shown == plan.shown
Silent == plan.silent
Reads == plan.reads
Signals == plan.signals

OrderedCall ==
    [index: Nat, fileChange: BOOLEAN,
     state: {"unknown", "announced", "held", "running", "done", "refused"}]

StepOrderState ==
    [calls: [Calls -> OrderedCall], nextIndex: Nat, listedCount: Nat \cup {None},
     execs: [Execs -> {"none", "call", "read"}], held: SUBSET Execs]

Unknown == [index |-> 0, fileChange |-> FALSE, state |-> "unknown"]

CreateStepOrder ==
    [calls |-> [c \in Calls |-> Unknown], nextIndex |-> 0, listedCount |-> None,
     execs |-> [e \in Execs |-> "none"], held |-> {}]

TypeOK ==
    /\ plan \in Plans
    /\ order \in StepOrderState
    /\ phase \in [Execs -> {"unsent", "held", "released", "host", "settled"}]
    /\ hostStep \in {"none", "open", "running"}
    /\ gen \in Nat
    /\ counted \in BOOLEAN
    /\ started \in SUBSET Calls
    /\ earlier \in [Calls -> SUBSET Calls]
    /\ over \in SUBSET Calls
    /\ withdrawn \in SUBSET Execs
    /\ failed \in SUBSET Calls
    /\ refusals \in SUBSET Calls
    /\ cancelled \in SUBSET Execs

Init ==
    /\ plan \in Plans
    /\ order = CreateStepOrder
    /\ phase = [e \in Execs |-> "unsent"]
    /\ hostStep = "none"
    /\ gen = 1
    /\ counted = FALSE
    /\ started = {}
    /\ earlier = [c \in Calls |-> {}]
    /\ over = {}
    /\ withdrawn = {}
    /\ failed = {}
    /\ refusals = {}
    /\ cancelled = {}

-----------------------------------------------------------------------------
(* step-order.ts *)

Known(o) == {c \in Calls : o.calls[c].state # "unknown"}

AllTerminal(o) == \A c \in Known(o) : o.calls[c].state \in {"done", "refused"}

\* Mutant: the generation counts as finished whatever calls are still to come.
StepFinished_Uncounted(o) == o.held = {} /\ AllTerminal(o)

StepFinished(o) ==
    /\ o.listedCount # None
    /\ o.held = {}
    /\ Cardinality(Known(o)) >= o.listedCount
    /\ AllTerminal(o)

\* Mutant: a new generation keeps the calls of the last one.
ClearStep_KeepsCalls(o) == [o EXCEPT !.listedCount = None]

\* clearStep, which leaves `held` alone (it is empty whenever this is called).
ClearStep(o) == [CreateStepOrder EXCEPT !.held = o.held]

NoteOrderedCallCount(o, n) ==
    [(IF o.listedCount # None /\ StepFinished(o) THEN ClearStep(o) ELSE o)
        EXCEPT !.listedCount = n]

StartOrderedStep(o) == IF o.held = {} /\ AllTerminal(o) THEN ClearStep(o) ELSE o

EnsureCall(o, c, fileChange) ==
    IF o.calls[c].state = "unknown"
    THEN [o EXCEPT !.nextIndex = @ + 1,
                   !.calls[c] = [index |-> o.nextIndex, fileChange |-> fileChange,
                                 state |-> "announced"]]
    ELSE [o EXCEPT !.calls[c].fileChange = @ \/ fileChange]

AnnounceCall(o, c, fileChange) ==
    EnsureCall(IF StepFinished(o) THEN ClearStep(o) ELSE o, c, fileChange)

Before(o, c) == {d \in Known(o) \ {c} : o.calls[d].index < o.calls[c].index}

\* Mutant: a file change does not wait for the earlier calls.
Blocked_Forward(o, c) ==
    \E d \in Before(o, c) :
        o.calls[d].fileChange /\ o.calls[d].state \in {"announced", "held", "running"}

Blocked(o, c) ==
    \E d \in Before(o, c) :
        \/ o.calls[d].fileChange /\ o.calls[d].state \in {"announced", "held", "running"}
        \/ o.calls[c].fileChange /\ o.calls[d].state \in {"held", "running"}

FollowsRefusal(o, c) ==
    \E d \in Before(o, c) : o.calls[d].fileChange /\ o.calls[d].state = "refused"

\* orderExec, on the order in which it has recorded the call.
OrderExec(o, c) ==
    IF FollowsRefusal(o, c) THEN "cancel" ELSE IF Blocked(o, c) THEN "hold" ELSE "run"

HoldExec(o, e) ==
    [o EXCEPT !.calls[CallOf[e]].state = "held", !.held = @ \cup {e}]

RunExec(o, e) ==
    LET c == CallOf[e] IN
    [o EXCEPT !.calls[c].state = IF @ \in {"done", "refused"} THEN @ ELSE "running",
              !.execs[e] = IF o.calls[c].fileChange /\ e \in Reads THEN "read" ELSE "call"]

FinishCall(o, c) ==
    IF o.calls[c].state \in {"unknown", "held", "refused"}
    THEN o ELSE [o EXCEPT !.calls[c].state = "done"]

RefuseCall(o, c) ==
    IF o.calls[c].state \in {"unknown", "held"}
    THEN o ELSE [o EXCEPT !.calls[c].state = IF o.calls[c].fileChange THEN "refused" ELSE "done"]

\* dropHeldExec, takeCancelledExecs: these execs will never run.
DropHeld(o, E) ==
    [o EXCEPT !.held = @ \ E,
              !.calls = [c \in Calls |->
                 IF \E e \in E : CallOf[e] = c THEN [@[c] EXCEPT !.state = "done"] ELSE @[c]]]

NoteExecResult(o, e, outcome) ==
    LET taken == [o EXCEPT !.execs[e] = "none"] IN
    IF e \in o.held THEN DropHeld(o, {e})
    ELSE IF o.execs[e] = "none" THEN o
    ELSE IF outcome = "refused" THEN RefuseCall(taken, CallOf[e])
    ELSE IF o.execs[e] = "read" THEN taken
    ELSE FinishCall(taken, CallOf[e])

\* Mutant: what follows a refusal is left held.
Cancellable_None(o) == {}

Cancellable(o) == {e \in o.held : FollowsRefusal(o, CallOf[e])}

Releasable(o) ==
    {e \in o.held : ~FollowsRefusal(o, CallOf[e]) /\ ~Blocked(o, CallOf[e])}

\* takeReleasableExecs
Released(o) ==
    LET free == Releasable(o) IN
    [o EXCEPT !.held = @ \ free,
              !.calls = [c \in Calls |->
                 IF \E e \in free : CallOf[e] = c THEN [@[c] EXCEPT !.state = "running"] ELSE @[c]]]

-----------------------------------------------------------------------------
(* Frames the pump reads *)

\* The pump reads a frame: no host step runs, the frames it released are
\* dispatched, and the top of its loop has nothing to cancel or release.
Reading ==
    /\ hostStep # "running"
    /\ \A e \in Execs : phase[e] # "released"
    /\ Cancellable(order) = {}
    /\ hostStep = "none" => Releasable(order) = {}

ExecsOf(c) == {e \in DOMAIN CallOf : CallOf[e] = c}

\* Cursor starts a call with its announcement, or its exec.
Starts(c) ==
    /\ started' = started \cup {c}
    /\ earlier' = IF c \in started THEN earlier
                  ELSE [earlier EXCEPT ![c] = {d \in started : GenOf[d] = GenOf[c]}]

\* tool_call_started, in model order.
ToolCallStarted(c) ==
    /\ Reading
    /\ GenOf[c] = gen /\ c \notin started \cup Silent
    /\ \A d \in Calls \ Silent : GenOf[d] = gen /\ d < c => d \in started
    /\ order' = AnnounceCall(order, c, c \in Shown)
    /\ Starts(c)
    /\ UNCHANGED <<plan, phase, hostStep, gen, counted, over, withdrawn, history>>

\* Cursor waits for no exec of this call.
Quiet(c) == \A e \in ExecsOf(c) : phase[e] \in {"unsent", "settled"} \/ e \in withdrawn

\* tool_call_completed, also of a call whose exec the host still runs because
\* Cursor withdrew it there.
ToolCallCompleted(c) ==
    /\ Reading
    /\ c \in started /\ c \notin over /\ Quiet(c)
    /\ order' = FinishCall(order, c)
    /\ over' = over \cup {c}
    /\ UNCHANGED <<plan, phase, hostStep, gen, counted, started, earlier, withdrawn, history>>

\* Cursor sends the next exec of a call: its private read, if any, first.
CursorSends(e) ==
    LET c == CallOf[e] IN
    /\ e \in DOMAIN CallOf /\ phase[e] = "unsent"
    /\ GenOf[c] = gen /\ c \in started \cup Silent /\ c \notin over \cup failed
    /\ \A d \in ExecsOf(c) \ {e} :
          IF d \in Reads THEN phase[d] = "settled" ELSE phase[d] = "unsent"

\* What dispatching an exec makes of it: the host runs it; the pump refuses it
\* (disposeExecCall); or it answers an edit's read itself
\* (recoverCorrelatedEditRead), which leaves the call to its write.
Dispatch(o, e) ==
    \/ /\ order' = RunExec(o, e)
       /\ phase' = [phase EXCEPT ![e] = "host"]
       /\ hostStep' = "open"
       /\ UNCHANGED failed
    \/ /\ order' = FinishCall(RunExec(o, e), CallOf[e])
       /\ phase' = [phase EXCEPT ![e] = "settled"]
       /\ failed' = failed \cup {CallOf[e]}
       /\ UNCHANGED hostStep
    \/ /\ e \in Reads
       /\ order' = RunExec(o, e)
       /\ phase' = [phase EXCEPT ![e] = "settled"]
       /\ UNCHANGED <<hostStep, failed>>

ExecArrives(e) ==
    LET c == CallOf[e]
        o == EnsureCall(order, c, c \in FileChange \ (IF e \in Reads THEN FileChange ELSE {}))
        decision == OrderExec(o, c)
    IN
    /\ Reading /\ CursorSends(e)
    /\ \/ decision = "run" /\ Dispatch(o, e) /\ UNCHANGED cancelled
       \/ /\ decision = "hold"
          /\ order' = FinishCall(HoldExec(o, e), c)   \* disposeParallelCall
          /\ phase' = [phase EXCEPT ![e] = "held"]
          /\ UNCHANGED <<hostStep, failed, cancelled>>
       \/ /\ decision = "cancel"
          /\ order' = FinishCall(o, c)
          /\ phase' = [phase EXCEPT ![e] = "settled"]
          /\ failed' = failed \cup {c}
          /\ cancelled' = cancelled \cup {e}
          /\ UNCHANGED hostStep
    /\ Starts(c)
    /\ UNCHANGED <<plan, gen, counted, over, withdrawn, refusals>>

\* exec_server_control_message abort: the pump's, or the held reader's while
\* the host runs a step.
ExecWithdrawn(e) ==
    /\ Reading \/ hostStep = "running"
    /\ phase[e] \in {"held", "host"} /\ e \notin withdrawn
    /\ withdrawn' = withdrawn \cup {e}
    /\ failed' = failed \cup {CallOf[e]}
    /\ IF e \in order.held
       THEN /\ order' = DropHeld(order, {e})
            /\ phase' = [phase EXCEPT ![e] = "settled"]
       ELSE UNCHANGED <<order, phase>>   \* markExecAborted: the host still runs it
    /\ UNCHANGED <<plan, hostStep, gen, counted, started, earlier, over, refusals, cancelled>>

\* tool_requests_listed, once per generation: before, between or after its calls.
ToolRequestsListed ==
    /\ Reading
    /\ "count" \in Signals /\ ~counted
    /\ order' = NoteOrderedCallCount(order, Cardinality({c \in Calls : GenOf[c] = gen}))
    /\ counted' = TRUE
    /\ UNCHANGED <<plan, phase, hostStep, gen, started, earlier, over, withdrawn, history>>

\* Cursor knows the outcome of a call: it completed it, or has its last result.
Answered(c) ==
    /\ Quiet(c)
    /\ \/ c \in over
       \/ \E e \in ExecsOf(c) \ Reads : phase[e] = "settled" /\ e \notin withdrawn

\* step_started of the next generation.
StepStarted ==
    /\ Reading
    /\ \A c \in Calls : GenOf[c] = gen => c \in started /\ Answered(c)
    /\ \E c \in Calls : GenOf[c] = gen + 1
    /\ "count" \in Signals => counted
    /\ gen' = gen + 1
    /\ counted' = FALSE
    /\ order' = IF "start" \in Signals THEN StartOrderedStep(order) ELSE order
    /\ UNCHANGED <<plan, phase, hostStep, started, earlier, over, withdrawn, history>>

-----------------------------------------------------------------------------
(* The top of the pump's loop, and the host *)

CancelHeld ==
    LET E == Cancellable(order) IN
    /\ hostStep # "running" /\ E # {}
    /\ order' = DropHeld(order, E)
    /\ phase' = [e \in Execs |-> IF e \in E THEN "settled" ELSE phase[e]]
    /\ failed' = failed \cup {CallOf[e] : e \in E}
    /\ cancelled' = cancelled \cup E
    /\ UNCHANGED <<plan, hostStep, cursor, refusals>>

ReleaseHeld ==
    /\ hostStep = "none"
    /\ Cancellable(order) = {} /\ Releasable(order) # {}
    /\ order' = Released(order)
    /\ phase' = [e \in Execs |-> IF e \in Releasable(order) THEN "released" ELSE phase[e]]
    /\ hostStep' = "open"
    /\ UNCHANGED <<plan, cursor, history>>

\* A released frame is dispatched again, without orderExec.
Redispatch(e) ==
    /\ phase[e] = "released"
    /\ Dispatch(order, e)
    /\ UNCHANGED <<plan, cursor, refusals, cancelled>>

\* The host step closes: full, idle, or emptied by refusals.
HostStepCloses ==
    /\ hostStep = "open" /\ \A e \in Execs : phase[e] # "released"
    /\ Cancellable(order) = {}
    /\ hostStep' = IF \E e \in Execs : phase[e] = "host" THEN "running" ELSE "none"
    /\ UNCHANGED <<plan, order, phase, cursor, history>>

\* A host result is delivered: done, or refused by the user or by a stop.
HostResult(e, outcome) ==
    /\ hostStep # "open"
    /\ phase[e] = "host"
    /\ order' = NoteExecResult(order, e, outcome)
    /\ phase' = [phase EXCEPT ![e] = "settled"]
    /\ IF outcome = "refused"
       THEN /\ failed' = failed \cup {CallOf[e]}
            /\ refusals' = refusals \cup ({CallOf[e]} \cap FileChange)
            /\ UNCHANGED cancelled
       ELSE UNCHANGED history
    /\ UNCHANGED <<plan, hostStep, cursor>>

\* The host's continuation: a pump reads the Run again.
PumpResumes ==
    /\ hostStep = "running"
    /\ hostStep' = "none"
    /\ UNCHANGED <<plan, order, phase, cursor, history>>

-----------------------------------------------------------------------------

CallStep(c) == ToolCallStarted(c) \/ ToolCallCompleted(c)

ExecStep(e) ==
    \/ ExecArrives(e)
    \/ ExecWithdrawn(e)
    \/ Redispatch(e)
    \/ \E outcome \in {"done", "refused"} : HostResult(e, outcome)

Next ==
    \/ \E c \in Calls : CallStep(c)
    \/ \E e \in Execs : ExecStep(e)
    \/ ToolRequestsListed
    \/ StepStarted
    \/ CancelHeld
    \/ ReleaseHeld
    \/ HostStepCloses
    \/ PumpResumes

Spec == Init /\ [][Next]_vars

\* Cursor completes the calls it waits for nothing of, the host answers, the
\* pump goes on.
FairSpec ==
    /\ Spec
    /\ \A c \in Calls : WF_vars(ToolCallCompleted(c))
    /\ \A e \in Execs :
          WF_vars(Redispatch(e)) /\ WF_vars(\E outcome \in {"done", "refused"} : HostResult(e, outcome))
    /\ WF_vars(CancelHeld) /\ WF_vars(ReleaseHeld)
    /\ WF_vars(HostStepCloses) /\ WF_vars(PumpResumes)

-----------------------------------------------------------------------------
(* What the holds promise *)

Dispatched(e) == phase[e] # "host" /\ phase'[e] = "host"

\* No outcome yet: not completed by Cursor, not refused, its last exec not answered.
Unfinished(c) ==
    /\ c \notin over \cup failed
    /\ \A e \in ExecsOf(c) \ Reads : phase[e] # "settled"

\* The host never starts a call while a file change the model wrote before it
\* is still to land: announced, held, or running on the host.
LaterCallsWait ==
    [][\A e \in Execs : Dispatched(e) =>
          \A f \in earlier'[CallOf[e]] \cap Shown : ~Unfinished(f)]_vars

\* The host never starts a file change while a call the model wrote before it
\* is held or running.
FileChangeWaits ==
    [][\A e \in Execs : Dispatched(e) /\ CallOf[e] \in FileChange =>
          \A c \in earlier'[CallOf[e]] \ over : \A d \in ExecsOf(c) :
             phase[d] \notin {"held", "released", "host"}]_vars

\* Once the host has refused a file change, no later call of its generation
\* starts, also when it arrives only after the host step was split.
RefusalCancelsRest ==
    [][\A e \in Execs : Dispatched(e) =>
          earlier'[CallOf[e]] \cap Shown \cap refusals = {}]_vars

\* A call is cancelled only for a refusal before it in its own generation.
RefusalStaysInGeneration ==
    \A e \in cancelled : \E f \in refusals :
        GenOf[f] = GenOf[CallOf[e]] /\ f \in earlier[CallOf[e]]

\* `held` and the states of the calls agree with what became of the execs.
HoldsAgree ==
    /\ order.held = {e \in Execs : phase[e] = "held"}
    /\ \A e \in Execs : phase[e] = "held" => order.calls[CallOf[e]].state = "held"
    /\ \A e \in Execs : phase[e] \in {"released", "host"} =>
          order.calls[CallOf[e]].state # "held"

\* What the host starts follows the model's order, also after a refusal.
ModelOrderKept == LaterCallsWait /\ FileChangeWaits /\ RefusalCancelsRest

\* What the holds say is what became of the calls; refusals stay in their step.
HoldsTruthful == HoldsAgree /\ RefusalStaysInGeneration

\* Nothing releases a held call on a timer, and nothing needs to.
HeldCallsLeave == \A e \in Execs : phase[e] = "held" ~> phase[e] # "held"
=============================================================================
