------------------------------ MODULE HostStep ------------------------------
(***************************************************************************)
(* The host steps of one Run: parallel-step.ts, early-tool-rows.ts and the  *)
(* frame loop of language-model.ts. Cursor sends the calls of a generation  *)
(* one by one; OpenCode takes them in steps that end with `tool-calls`. A   *)
(* step ends when as many calls are disposed of as Cursor listed, when an   *)
(* idle guard fires, or with the turn. An edit that is still being written  *)
(* may have opened a row the host already shows.                            *)
(*                                                                         *)
(* Whether an exec runs, is held behind a file change, refused or released  *)
(* is StepOrder's; here it is any choice.                                   *)
(***************************************************************************)
EXTENDS Integers, FiniteSets

CONSTANTS
    Edits,   \* Cursor's edit calls
    Tools,   \* the other calls that reach the client as execs
    Bridged, \* calls Cursor runs itself and the host mirrors (todo lists)
    CursorOwn, \* calls Cursor runs itself
    Gen,     \* the generation each call belongs to
    MaxRows  \* bound: rows opened for one call

AllCalls == Edits \union Tools \union Bridged \union CursorOwn
NoCount == -1

\* A call is of one kind.
StepConstants ==
    /\ IsFiniteSet(AllCalls) /\ Gen \in [AllCalls -> Int]
    /\ (Edits \union Tools) \intersect (Bridged \union CursorOwn) = {}

VARIABLES
    at,        \* how far Cursor is with each call
    lists,     \* whether it lists counts on this Run
    listed,    \* generations whose count it has listed
    display,   \* displayToolCalls
    edits,     \* editToolCalls: edits the host has not run and that did not fail
    fieldSeen, \* toolRequestsListedSeen
    step,      \* parallelStep
    prior,     \* priorParallelStepCallIds
    rows,      \* earlyRows of this pump
    emitted,   \* emittedHostTools of this pump
    owed,      \* registered execs: "no", "host", "held"
    released,  \* held calls whose frames are dispatched again, before any other
    pump,      \* "reading" or "off": the host has the step
    stepRun,   \* "open", "ending" (its end waits for the host's results), "over"
    opened,    \* how often a row of each edit's id was opened (history)
    failed,    \* how often each edit was shown as failed (history)
    ran,       \* calls the host was given to run (history)
    finish,    \* how the last step ended (history)
    split,     \* generations a step ended in the middle of (history)
    wasHeld    \* calls released so far (history)

stepsVars == <<at, lists, listed, display, edits, fieldSeen, step, prior, rows, emitted, owed, released, pump, stepRun, opened, failed, ran, finish, split, wasHeld>>
cursor == <<at, lists, listed>>
ended == <<pump, stepRun, finish, split>>
shown == <<opened, failed, ran, wasHeld>>

NoStep == [listed |-> NoCount, of |-> NoCount, resolved |-> {}, emitted |-> {}, unbilled |-> FALSE, open |-> FALSE]
NewStep == [NoStep EXCEPT !.open = TRUE]

StepsInit ==
    /\ at = [c \in AllCalls |-> "new"] /\ lists \in BOOLEAN /\ listed = {}
    /\ display = {} /\ edits = {}
    /\ fieldSeen \in BOOLEAN
    /\ step = NoStep /\ prior = {}
    /\ rows = [c \in AllCalls |-> "none"] /\ emitted = {}
    /\ owed = [c \in AllCalls |-> "no"] /\ released = {}
    /\ pump = "reading" /\ stepRun = "open"
    /\ opened = [c \in AllCalls |-> 0] /\ failed = [c \in AllCalls |-> 0] /\ ran = {}
    /\ finish = [by |-> "none", left |-> {}, emitted |-> {}, unbilled |-> FALSE, clean |-> TRUE]
    /\ split = {} /\ wasHeld = {}

-----------------------------------------------------------------------------
(* The step. *)
InGen(g) == {c \in AllCalls : Gen[c] = g}

(* A generation begins once the one before is done, and listed.              *)
Current(c) == \A d \in AllCalls : Gen[d] < Gen[c] => at[d] = "done" /\ (lists => Gen[d] \in listed)

CountMet(s) == s.listed # NoCount /\ Cardinality(s.resolved) >= s.listed

(* shouldHoldParallelStep *)
ShouldHold(s, human) ==
    /\ human => s.listed # NoCount
    /\ fieldSeen \/ s.listed # NoCount
    /\ ~CountMet(s)
Holding == step.open /\ ShouldHold(step, FALSE)

(* disposeParallelCall: a completion of an earlier step's call is ignored,   *)
(* an exec is not.                                                           *)
Dispose(c, currentExec) ==
    IF ~currentExec /\ c \in prior THEN step
    ELSE [step EXCEPT !.open = TRUE, !.resolved = @ \union {c}]

(* Mutant of PriorAfter: the calls of a step are forgotten with it.          *)
PriorAfter_Forgets(s) == prior

PriorAfter(s) == prior \union s.resolved

(* Mutant of Failing: a failed row leaves the edit listed for Cursor's own   *)
(* failure.                                                                  *)
Failing_Listed(set) ==
    /\ failed' = [c \in AllCalls |-> failed[c] + IF c \in set THEN 1 ELSE 0]
    /\ UNCHANGED edits

(* closeEarlyRow with an error: the row failed, and no other may. *)
Failing(set) ==
    /\ failed' = [c \in AllCalls |-> failed[c] + IF c \in set THEN 1 ELSE 0]
    /\ edits' = edits \ set

OpenRows == {c \in AllCalls : rows[c] = "open"}
Closed(set) == [c \in AllCalls |-> IF c \in set THEN "closed" ELSE rows[c]]

(* AllCalls of the generation the step's frames are from that have no           *)
(* disposition yet.                                                          *)
Undisposed(s) ==
    {c \in AllCalls : Current(c) /\ at[c] # "done" /\ c \notin prior \union s.resolved}

GensOf(calls) == {Gen[c] : c \in calls}

(* No call of the step, or of the generation it was counted for, left with   *)
(* an earlier step, and it has no call of another generation that was split. *)
Clean(s) ==
    /\ (s.resolved \union InGen(s.of)) \intersect prior = {}
    /\ (GensOf(s.resolved) \ {s.of}) \intersect split = {}

(* Generations that the end of a step leaves calls of for the next one.      *)
Splits(s) == GensOf({c \in Undisposed(s) : s.listed # NoCount \/ Gen[c] \in GensOf(s.resolved)})

(* finishToolStep: the host takes the step; emitFinish settles open rows as  *)
(* deferred.                                                                 *)
Finishes(s, by) ==
    /\ step' = NoStep /\ prior' = PriorAfter(s)
    /\ rows' = Closed(OpenRows)
    /\ pump' = "off" /\ UNCHANGED stepRun
    /\ finish' = [by |-> by, left |-> Undisposed(s), emitted |-> s.emitted, unbilled |-> s.unbilled,
                  clean |-> Clean(s)]
    /\ split' = split \union Splits(s)

(* clearParallelStep, for a step the host has no call of.                    *)
Dropped(s, r) ==
    /\ step' = NoStep /\ prior' = PriorAfter(s)
    /\ rows' = r
    /\ split' = split \union Splits(s)
    /\ UNCHANGED <<pump, stepRun, finish>>

StaysOpen(s, r) == step' = s /\ prior' = prior /\ rows' = r /\ UNCHANGED ended

(* Mutant of CloseIfComplete: a complete step is dropped, also one the host  *)
(* has calls of.                                                             *)
CloseIfComplete_Drops(s, r) ==
    IF s.open /\ CountMet(s) THEN Dropped(s, r) ELSE StaysOpen(s, r)

(* closeIfParallelStepComplete *)
CloseIfComplete(s, r) ==
    IF s.open /\ CountMet(s)
    THEN IF s.emitted = {} THEN Dropped(s, r) ELSE Finishes(s, "count")
    ELSE StaysOpen(s, r)

(* finishStepOrContinue, after call c went to the host. *)
FinishOrContinue(c, human, r) ==
    LET s == [step EXCEPT !.open = TRUE, !.resolved = @ \union {c}, !.emitted = @ \union {c}]
    IN IF ShouldHold(s, human) THEN StaysOpen(s, r)
       ELSE Finishes(s, IF CountMet(s) THEN "count" ELSE "single")

-----------------------------------------------------------------------------
(* Frames that announce calls. *)

(* Mutant of Reading: a released frame may come after others.                *)
Reading_Any == pump = "reading"

Reading == pump = "reading" /\ released = {}

(* partial_tool_call with the edit's path; one follows for each piece of the *)
(* arguments. A row whose call reads through the host first is skipped: the  *)
(* read would close it.                                                      *)
Announced(c) ==
    /\ Reading /\ Current(c) /\ at[c] \in {"new", "started", "read"}
    /\ rows[c] \notin {"open", "skipped"}
    /\ Holding \/ (emitted = {} /\ \A d \in AllCalls : owed[d] = "no")
    /\ \/ opened[c] < MaxRows /\ opened' = [opened EXCEPT ![c] = @ + 1] /\ rows' = [rows EXCEPT ![c] = "open"]
       \/ rows' = [rows EXCEPT ![c] = "skipped"] /\ UNCHANGED opened
    /\ UNCHANGED <<cursor, display, edits, fieldSeen, step, prior, emitted, owed, released, ended, failed, ran, wasHeld>>

Started(c) ==
    /\ Reading /\ Current(c) /\ at[c] = "new"
    /\ at' = [at EXCEPT ![c] = "started"]
    /\ display' = display \union {c}
    /\ edits' = edits \union ({c} \intersect Edits)
    /\ UNCHANGED <<lists, listed, fieldSeen, step, prior, rows, emitted, owed, released, ended, shown>>

(* tool_requests_listed *)
Listed(g) ==
    /\ Reading /\ lists /\ g \notin listed
    /\ \A c \in InGen(g) : Current(c)
    /\ listed' = listed \union {g} /\ fieldSeen' = TRUE
    /\ CloseIfComplete([step EXCEPT !.open = TRUE, !.listed = Cardinality(InGen(g)), !.of = g], rows)
    /\ UNCHANGED <<at, lists, display, edits, emitted, owed, released, shown>>

-----------------------------------------------------------------------------
(* Execs. A released call's frame is dispatched again. *)
Dispatches(c) ==
    /\ pump = "reading"
    /\ \/ c \in released
       \/ released = {} /\ owed[c] = "no" /\ at[c] \in {"started", "read"}
Undispatched(c) == released' = released \ {c}

(* recoverCorrelatedEditRead: an edit's read of a missing file is answered   *)
(* without the host.                                                         *)
ReadAnswered(c) ==
    /\ Reading /\ c \in Edits /\ at[c] = "started" /\ owed[c] = "no"
    /\ at' = [at EXCEPT ![c] = "read"]
    /\ UNCHANGED <<lists, listed, display, edits, fieldSeen, step, prior, rows, emitted, owed, released, ended, shown>>

(* The exec becomes a host tool call. The call's row is bound to it when it  *)
(* predicted the tool, or completes with a note; the other rows settle when  *)
(* the step ends here.                                                       *)
Emits(c, to, human) ==
    /\ Dispatches(c) /\ Undispatched(c)
    /\ at' = [at EXCEPT ![c] = to]
    /\ display' = display \ {c}
    /\ edits' = IF to = "running" THEN edits \ {c} ELSE edits
    /\ owed' = [owed EXCEPT ![c] = "host"]
    /\ emitted' = emitted \union {c}
    /\ ran' = IF to = "running" THEN ran \union {c} ELSE ran
    /\ FinishOrContinue(c, human, Closed(IF Holding THEN OpenRows \intersect {c} ELSE OpenRows))
    /\ UNCHANGED <<lists, listed, fieldSeen, opened, failed, wasHeld>>

EmitsTool(c) ==
    /\ c \in Edits \union Tools
    /\ \E human \in BOOLEAN : (human => c \in Tools) /\ Emits(c, "running", human)
EmitsRead(c) == c \in Edits /\ at[c] = "started" /\ Emits(c, "reading", FALSE)

(* rejectExec, or an answer the provider has itself: the exec never reaches  *)
(* the host. A refusal fails the call's row.                                 *)
Refuses(c) ==
    /\ c \in Edits \union Tools /\ Dispatches(c) /\ Undispatched(c)
    /\ at' = [at EXCEPT ![c] = "answered"]
    /\ Failing(OpenRows \intersect {c})
    /\ owed' = [owed EXCEPT ![c] = "no"]
    /\ CloseIfComplete(Dispose(c, TRUE), Closed({c} \intersect OpenRows))
    /\ UNCHANGED <<lists, listed, display, fieldSeen, emitted, opened, ran, wasHeld>>

(* holdExec: it counts for this step and runs in a later one. *)
Holds(c) ==
    /\ c \in Edits \union Tools /\ Reading /\ Dispatches(c)
    /\ owed' = [owed EXCEPT ![c] = "held"]
    /\ CloseIfComplete(Dispose(c, TRUE), rows)
    /\ UNCHANGED <<cursor, display, edits, fieldSeen, emitted, released, shown>>

(* takeCancelledExecs: a call held behind a refused one is refused as well.  *)
CancelsHeld(c) ==
    /\ Reading /\ owed[c] = "held"
    /\ owed' = [owed EXCEPT ![c] = "no"]
    /\ at' = [at EXCEPT ![c] = "answered"]
    /\ Failing(OpenRows \intersect {c})
    /\ rows' = Closed(OpenRows \intersect {c})
    /\ UNCHANGED <<lists, listed, display, fieldSeen, step, prior, emitted, released, ended, opened, ran, wasHeld>>

(* takeReleasableExecs: released calls make a step of their own. *)
Releases(set) ==
    /\ Reading /\ ~step.open
    /\ set # {} /\ \A c \in set : owed[c] = "held"
    /\ released' = set
    /\ owed' = [c \in AllCalls |-> IF c \in set THEN "no" ELSE owed[c]]
    /\ prior' = prior \ set
    /\ step' = [NewStep EXCEPT !.listed = Cardinality(set), !.unbilled = TRUE]
    /\ wasHeld' = wasHeld \union set
    /\ UNCHANGED <<cursor, display, edits, fieldSeen, rows, emitted, ended, opened, failed, ran>>

-----------------------------------------------------------------------------
(* tool_call_completed: an edit's row takes Cursor's outcome; without one an *)
(* edit that failed before the host ran it is shown as failed.               *)
Completable(c) ==
    /\ Reading
    /\ \/ at[c] = "answered"
       \/ c \in Edits /\ at[c] \in {"started", "read"} /\ owed[c] = "no"
       \/ c \in Bridged \union CursorOwn /\ at[c] = "started"

ShowsOutcome(c, outcome) ==
    LET fails == {d \in {c} : IF rows[d] = "open" THEN outcome # "success"
                              ELSE d \in edits /\ outcome = "error"}
    IN /\ failed' = [d \in AllCalls |-> failed[d] + IF d \in fails THEN 1 ELSE 0]
       /\ edits' = edits \ {c}

Completed(c, outcome) ==
    /\ Completable(c)
    /\ at' = [at EXCEPT ![c] = "done"]
    /\ ShowsOutcome(c, outcome)
    /\ display' = display \ {c}
    /\ LET r == Closed(OpenRows \intersect {c})
       IN IF c \in Bridged /\ c \in display /\ c \notin prior
          THEN /\ owed' = [owed EXCEPT ![c] = "host"] /\ emitted' = emitted \union {c}
               /\ ran' = ran \union {c}
               /\ FinishOrContinue(c, FALSE, r)
          ELSE /\ IF c \in prior THEN StaysOpen(step, r)
                  ELSE CloseIfComplete(Dispose(c, FALSE), r)
               /\ UNCHANGED <<owed, emitted, ran>>
    /\ UNCHANGED <<lists, listed, fieldSeen, released, opened, wasHeld>>

-----------------------------------------------------------------------------
(* The ends of a step and of the Run. *)

(* guardCloseParallelStep: 1.5 s without progress. *)
Guard ==
    /\ Reading /\ Holding
    /\ IF step.emitted = {}
       THEN Dropped(step, rows) ELSE Finishes(step, "guard")
    /\ UNCHANGED <<cursor, display, edits, fieldSeen, emitted, owed, released, shown>>

(* turn_ended, a failure or the end of the stream: open rows fail. With      *)
(* calls of this step for the host, the step ends first and the Run's end    *)
(* waits.                                                                    *)
Ends ==
    /\ Reading /\ stepRun = "open"
    /\ Failing(OpenRows)
    /\ rows' = Closed(OpenRows)
    /\ step' = NoStep /\ prior' = PriorAfter(step)
    /\ pump' = "off" /\ stepRun' = IF emitted = {} THEN "over" ELSE "ending"
    /\ finish' = [finish EXCEPT !.by = "end", !.left = {}, !.emitted = {}, !.unbilled = FALSE]
    /\ UNCHANGED <<cursor, display, fieldSeen, emitted, owed, released, opened, ran, wasHeld, split>>

(* The host has run the step; its results are delivered and a new pump       *)
(* reads, or finds the end that waited.                                      *)
Continuation ==
    /\ pump = "off" /\ stepRun # "over"
    /\ at' = [c \in AllCalls |-> IF owed[c] # "host" THEN at[c]
                              ELSE IF at[c] = "reading" THEN "read"
                              ELSE IF at[c] = "running" THEN "answered" ELSE at[c]]
    /\ owed' = [c \in AllCalls |-> IF owed[c] = "host" THEN "no" ELSE owed[c]]
    /\ rows' = [c \in AllCalls |-> "none"] /\ emitted' = {}
    /\ IF stepRun = "ending" THEN stepRun' = "over" /\ UNCHANGED pump
       ELSE pump' = "reading" /\ UNCHANGED stepRun
    /\ UNCHANGED <<lists, listed, display, edits, fieldSeen, step, prior, released, shown, finish, split>>

-----------------------------------------------------------------------------
Frame(c) ==
    \/ c \in Edits /\ Announced(c)
    \/ Started(c) \/ ReadAnswered(c) \/ EmitsTool(c) \/ EmitsRead(c) \/ Refuses(c) \/ Holds(c)
    \/ \E outcome \in {"success", "error", "none"} :
           (c \in Edits \/ outcome = "success") /\ Completed(c, outcome)

StepsNext ==
    \/ \E c \in AllCalls : Frame(c) \/ CancelsHeld(c)
    \/ \E g \in {Gen[c] : c \in AllCalls} : Listed(g)
    \/ \E set \in SUBSET (Edits \union Tools) : Releases(set)
    \/ Guard \/ Ends \/ Continuation

(* Frames come as Cursor sends them; the guard's timer and the host's        *)
(* continuation do come.                                                     *)
StepsFairness == WF_stepsVars(Guard) /\ WF_stepsVars(\E c \in released : Frame(c)) /\ WF_stepsVars(Continuation)
StepsSpec == StepsInit /\ [][StepsNext]_stepsVars /\ StepsFairness

-----------------------------------------------------------------------------
(* No row stays open for a host that has the step. An edit is shown as       *)
(* failed at most once, and not beside a host call that makes the change:    *)
(* refused, cancelled, deferred, failed by Cursor or cut off                 *)
(* (language-model.ts:5613, :5638, :6414-6426, README.md:646).               *)
EarlyRowsAccounted ==
    /\ pump = "off" => OpenRows = {}
    /\ \A c \in Edits : failed[c] <= 1 /\ (failed[c] = 1 => c \notin ran)

(* A step that ends by its count leaves no call of its generation behind,    *)
(* also with late frames of earlier steps, calls held or released and calls  *)
(* of the next generation about (parallel-step.ts:4-8, :67-113,              *)
(* language-model.ts:5266-5278, :6433). It may when its calls or others of   *)
(* their generation left with an earlier step.                              *)
CountedStepWhole ==
    (finish.by = "count" /\ ~finish.unbilled /\ finish.clean) => finish.left = {}

(* The same of every step that ends by its count (parallel-step.ts:4-8).     *)
CountMeansWhole == (finish.by = "count" /\ ~finish.unbilled) => finish.left = {}

(* A step of released calls books nothing, and runs nothing else: their      *)
(* Cursor step was booked with the one that held them (parallel-step.ts:28). *)
ReleasedStepsUnbilled == finish.unbilled => finish.emitted \subseteq wasHeld

(* A host step closes on its own calls, and a row run early is accounted     *)
(* for.                                                                      *)
StepsCounted == CountedStepWhole /\ EarlyRowsAccounted /\ ReleasedStepsUnbilled

(* A step with a call for the host ends, whatever Cursor sends or omits      *)
(* (parallel-step.ts:124).                                                   *)
StepEnds == (emitted # {} /\ pump = "reading") ~> (pump = "off")

(* A deferred row's call runs later "under its own id": the row's id is not  *)
(* shown a second time (early-tool-rows.ts:22).                              *)
RowOpensOnce == \A c \in AllCalls : opened[c] <= 1
=============================================================================
