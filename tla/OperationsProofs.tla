---------------------------- MODULE OperationsProofs ----------------------------
(***************************************************************************)
(* Four of the provider's operations, proved for every value of their      *)
(* constants.  Host steps: a step closes on the calls it was counted for,  *)
(* a step of released calls runs nothing else, and an edit is shown as     *)
(* failed once at most and never beside a run of it.  Agent switches: a    *)
(* host agent is switched once per request, for a Run that asked for it    *)
(* and came to its end.  Spills: the lock keeps a writer's temporary file  *)
(* from the others' sweeps, and the store within its limit.  Lost Runs:    *)
(* what takes their place holds every result the host delivered, and one   *)
(* rebuilt in place repeats no text.                                       *)
(***************************************************************************)
EXTENDS ModeSwitch, HostStep, SpillStore, RunRecovery, FiniteSetTheorems, SequenceTheorems, TLAPS

-----------------------------------------------------------------------------
(* Host steps.                                                               *)

Steps == [listed : Nat \cup {NoCount}, of : Int, resolved : SUBSET AllCalls, emitted : SUBSET AllCalls,
          unbilled : BOOLEAN, open : BOOLEAN]

StepTypeOK ==
    /\ at \in [AllCalls -> {"new", "started", "read", "reading", "running", "answered", "done"}]
    /\ lists \in BOOLEAN /\ listed \in SUBSET GensOf(AllCalls)
    /\ edits \in SUBSET Edits /\ fieldSeen \in BOOLEAN
    /\ step \in Steps /\ prior \in SUBSET AllCalls
    /\ rows \in [AllCalls -> {"none", "open", "skipped", "closed"}]
    /\ owed \in [AllCalls -> {"no", "host", "held"}] /\ released \in SUBSET AllCalls
    /\ pump \in {"reading", "off"} /\ stepRun \in {"open", "ending", "over"}
    /\ failed \in [AllCalls -> Nat] /\ ran \in SUBSET AllCalls
    /\ wasHeld \in SUBSET AllCalls

\* A pump reads only while its Run goes on.
PumpOfRun == stepRun # "open" => pump = "off"

\* A call that is held, or whose frames are dispatched again, has not run.
HeldWait ==
    /\ \A c \in AllCalls : c \in released \/ owed[c] = "held"
          => c \in Edits \cup Tools /\ at[c] \in {"started", "read"}
    /\ \A c \in released : owed[c] = "no"

\* An edit that was shown as failed, or that runs, has no row to fail again.
EditAccounted(c) ==
    /\ failed[c] <= 1
    /\ failed[c] = 1 =>
           /\ c \notin edits \cup ran /\ rows[c] # "open"
           /\ stepRun = "open" => at[c] \in {"answered", "done"}
    /\ c \in ran => c \notin edits /\ rows[c] # "open" /\ at[c] \in {"running", "answered", "done"}

EditsAccounted == \A c \in Edits : EditAccounted(c)

RowsInv == PumpOfRun /\ HeldWait /\ EditsAccounted /\ (pump = "off" => OpenRows = {})

\* Cursor begins a generation after the one before.
CallsInTurn == \A c \in AllCalls : at[c] # "new" => Current(c)

\* What a step takes has begun, and what is done or held was taken.
TakenInTurn ==
    /\ \A c \in prior \cup step.resolved \cup released : at[c] # "new"
    /\ \A c \in AllCalls : at[c] = "done" \/ owed[c] = "held" => c \in prior \cup step.resolved

\* An open step waits for more calls.
OpenStepWaits ==
    /\ ~step.open => step = NoStep
    /\ step.open => pump = "reading" /\ ~CountMet(step)

\* A step of released calls has them all, and nothing else.
ReleasedStep ==
    /\ step.unbilled <=> released # {}
    /\ step.emitted \subseteq step.resolved
    /\ step.unbilled =>
           /\ step.listed = Cardinality(step.resolved \cup released)
           /\ step.resolved \intersect released = {}
           /\ step.resolved \cup released \subseteq wasHeld

\* A count is the count of a generation that has begun.
Counted(s) == s.listed # NoCount /\ ~s.unbilled
CountsGeneration ==
    /\ listed # {} => lists
    /\ Counted(step) =>
           /\ step.of \in listed /\ step.listed = Cardinality(InGen(step.of))
           /\ \A c \in InGen(step.of) : Current(c)

\* Calls that left with an earlier step; those released count until they do again.
Taken == prior \cup IF step.unbilled THEN step.resolved \cup released ELSE {}

\* A generation that was not split left as a whole or not at all. Once listed,
\* it left, or the step in progress waits for it.
Whole(g) ==
    /\ InGen(g) \intersect Taken = {} \/ InGen(g) \subseteq Taken
    /\ g \in listed => InGen(g) \subseteq Taken \/ (Counted(step) /\ step.of = g)

WholeGenerations == stepRun = "open" => \A g \in GensOf(AllCalls) \ split : Whole(g)

\* How the last step may have ended.
Outcomes == [by : {"none", "count", "guard", "single", "end"}, left : SUBSET AllCalls, emitted : SUBSET AllCalls,
             unbilled : BOOLEAN, clean : BOOLEAN]

CountsInv ==
    /\ finish \in Outcomes
    /\ CallsInTurn /\ TakenInTurn /\ OpenStepWaits /\ ReleasedStep /\ CountsGeneration /\ WholeGenerations
    /\ CountedStepWhole /\ ReleasedStepsUnbilled

StepInv == StepTypeOK /\ RowsInv /\ CountsInv

-----------------------------------------------------------------------------
(* What a step may do to the host step. *)

\* The step goes on as s.
StaysOn(s) == step' = s /\ prior' = prior /\ ~CountMet(s) /\ UNCHANGED ended

\* The step is over, whether the host takes it or it had nothing for the host.
Clears(s) ==
    /\ step' = NoStep /\ prior' = PriorAfter(s)
    /\ split' = split \union Splits(s) /\ stepRun' = stepRun /\ pump' \in {pump, "off"}
    /\ \/ finish' = finish
       \/ \E by \in {"count", "guard", "single"} :
              /\ finish' = [by |-> by, left |-> Undisposed(s), emitted |-> s.emitted, unbilled |-> s.unbilled,
                            clean |-> Clean(s)]
              /\ by = "count" => CountMet(s)

\* The step with one more call, which the host may have been given.
With(c) == [step EXCEPT !.open = TRUE, !.resolved = @ \union {c}]
Given(c) == [With(c) EXCEPT !.emitted = @ \union {c}]

\* Call c is disposed of in the step. One of released calls ends with the last of them.
TakesAs(c, s) ==
    /\ StaysOn(s) \/ Clears(s)
    /\ step.listed # NoCount => StaysOn(s) \/ CountMet(s)

Takes(c) ==
    /\ pump = "reading" /\ at[c] # "new"
    /\ released # {} => c \in released
    /\ released' = released \ {c} /\ UNCHANGED <<lists, listed, wasHeld>>
    /\ TakesAs(c, With(c)) \/ TakesAs(c, Given(c))

Keeps ==
    /\ UNCHANGED <<lists, listed, step, prior, released, finish, split, wasHeld>>
    /\ \/ UNCHANGED <<pump, stepRun>>
       \/ pump = "off" /\ (stepRun' = "open" => stepRun = "open") /\ (stepRun' # "open" => pump' = "off")

CountsOf(g) ==
    LET s == [step EXCEPT !.open = TRUE, !.listed = Cardinality(InGen(g)), !.of = g]
    IN /\ Reading /\ lists /\ g \notin listed
       /\ \A c \in InGen(g) : Current(c)
       /\ listed' = listed \union {g} /\ UNCHANGED <<lists, released, wasHeld>>
       /\ StaysOn(s) \/ (CountMet(s) /\ Clears(s))


-----------------------------------------------------------------------------
(* closeIfParallelStepComplete and finishStepOrContinue. *)

\* A step that is dropped or finished clears it.
LEMMA DropClears ==
    ASSUME NEW s, NEW r, Dropped(s, r)
    PROVE  Clears(s)
BY DEF Dropped, Clears

LEMMA FinishClears ==
    ASSUME NEW s, NEW by \in {"count", "guard", "single"}, by = "count" => CountMet(s), Finishes(s, by)
    PROVE  Clears(s)
BY DEF Finishes, Clears

\* A complete step closes, any other goes on.
LEMMA CloseDoes ==
    ASSUME NEW s, NEW r, s.open, CloseIfComplete(s, r)
    PROVE  StaysOn(s) \/ (CountMet(s) /\ Clears(s))
<1>1. CASE CountMet(s)
  <2>1. Dropped(s, r) \/ Finishes(s, "count")
    BY <1>1 DEF CloseIfComplete
  <2> QED BY <1>1, <2>1, DropClears, FinishClears
<1>2. CASE ~CountMet(s)
  BY <1>2 DEF CloseIfComplete, StaysOpen, StaysOn
<1> QED BY <1>1, <1>2

\* A call that went to the host ends the step, unless a count says that more
\* calls come. A counted one it ends only when they came.
LEMMA FinishDoes ==
    ASSUME StepTypeOK, NEW c \in AllCalls, NEW human \in BOOLEAN, NEW r, FinishOrContinue(c, human, r)
    PROVE  TakesAs(c, Given(c))
<1> DEFINE s == [step EXCEPT !.open = TRUE, !.resolved = @ \union {c}, !.emitted = @ \union {c}]
<1>1. s = Given(c) /\ s.listed = step.listed
  BY DEF Given, With, StepTypeOK, Steps
<1>2. CASE ShouldHold(s, human)
  BY <1>1, <1>2 DEF FinishOrContinue, ShouldHold, StaysOpen, StaysOn, TakesAs
<1>3. CASE ~ShouldHold(s, human)
  <2>1. Finishes(s, IF CountMet(s) THEN "count" ELSE "single")
    BY <1>3 DEF FinishOrContinue
  <2>2. Clears(s)
    BY <2>1, FinishClears
  <2>3. step.listed # NoCount => CountMet(s)
    BY <1>1, <1>3 DEF ShouldHold
  <2> QED BY <1>1, <2>2, <2>3 DEF TakesAs
<1> QED BY <1>2, <1>3

\* The rows become r, and the pump goes on; or it ends, and none stays open.
RowsBecome(r) ==
    /\ stepRun' = stepRun
    /\ (rows' = r /\ pump' = pump) \/ rows' = Closed(OpenRows)

LEMMA CloseRows ==
    ASSUME NEW s, NEW r, CloseIfComplete(s, r)
    PROVE  RowsBecome(r)
BY DEF CloseIfComplete, Dropped, Finishes, StaysOpen, ended, RowsBecome

LEMMA FinishRows ==
    ASSUME NEW c, NEW human, NEW r, FinishOrContinue(c, human, r)
    PROVE  RowsBecome(r)
BY DEF FinishOrContinue, Finishes, StaysOpen, ended, RowsBecome

RowKinds == {"none", "open", "skipped", "closed"}

\* Closing rows opens none.
LEMMA ClosedRows ==
    ASSUME StepTypeOK, NEW set
    PROVE  /\ Closed(set) \in [AllCalls -> RowKinds]
           /\ \A c \in AllCalls : Closed(set)[c] = "open" => rows[c] = "open" /\ c \notin set
           /\ rows' = Closed(OpenRows) => OpenRows' = {}
BY DEF StepTypeOK, Closed, OpenRows, RowKinds

\* A step is well typed, whatever becomes of it.
LEMMA StepTyped ==
    ASSUME StepTypeOK, NEW s \in Steps, StaysOn(s) \/ Clears(s)
    PROVE  step' \in Steps /\ prior' \in SUBSET AllCalls /\ pump' \in {"reading", "off"} /\ stepRun' = stepRun
<1>1. CASE StaysOn(s)
  BY <1>1 DEF StepTypeOK, StaysOn, ended
<1>2. CASE Clears(s)
  <2>1. NoStep \in Steps
    BY DEF NoStep, NoCount, Steps
  <2>2. s.resolved \in SUBSET AllCalls
    BY DEF Steps
  <2>3. step' = NoStep /\ prior' = prior \cup s.resolved /\ stepRun' = stepRun /\ pump' \in {pump, "off"}
    BY <1>2 DEF Clears, PriorAfter
  <2> QED BY <2>1, <2>2, <2>3 DEF StepTypeOK
<1> QED BY <1>1, <1>2

LEMMA TakenTyped ==
    ASSUME StepTypeOK, NEW c \in AllCalls
    PROVE  /\ With(c) \in Steps /\ Given(c) \in Steps
           /\ With(c).open /\ Given(c).open
BY DEF StepTypeOK, Steps, With, Given

LEMMA TakesTyped ==
    ASSUME StepTypeOK, NEW c \in AllCalls, TakesAs(c, With(c)) \/ TakesAs(c, Given(c))
    PROVE  step' \in Steps /\ prior' \in SUBSET AllCalls /\ pump' \in {"reading", "off"} /\ stepRun' = stepRun
BY StepTyped, TakenTyped DEF TakesAs

\* disposeParallelCall of a call of this step.
LEMMA DisposeTakes ==
    ASSUME StepTypeOK, NEW c \in AllCalls, NEW now \in BOOLEAN, now \/ c \notin prior, NEW r,
           CloseIfComplete(Dispose(c, now), r)
    PROVE  TakesAs(c, With(c))
<1>1. Dispose(c, now) = With(c)
  BY DEF Dispose, With
<1> QED BY <1>1, CloseDoes, TakenTyped DEF TakesAs

\* tool_requests_listed gives the step its count.
LEMMA ListedCounts ==
    ASSUME StepConstants, StepTypeOK, NEW g \in GensOf(AllCalls), Listed(g)
    PROVE  CountsOf(g) /\ step' \in Steps /\ prior' \in SUBSET AllCalls /\ pump' \in {"reading", "off"} /\ stepRun' = stepRun
<1> DEFINE s == [step EXCEPT !.open = TRUE, !.listed = Cardinality(InGen(g)), !.of = g]
<1>1. Cardinality(InGen(g)) \in Nat
  BY FS_Subset, FS_CardinalityType DEF StepConstants, InGen
<1>2. g \in Int
  BY DEF StepConstants, GensOf
<1>3. s \in Steps /\ s.open
  BY <1>1, <1>2 DEF StepTypeOK, Steps
<1>4. StaysOn(s) \/ (CountMet(s) /\ Clears(s))
  BY <1>3, CloseDoes DEF Listed
<1> QED BY <1>3, <1>4, StepTyped DEF CountsOf, Listed, shown

-----------------------------------------------------------------------------
(* Every action keeps the step, takes a call in it, or gives it its count;   *)
(* the guard, the turn's end and released calls are on their own.            *)

Typed == StepTypeOK /\ HeldWait

LEMMA DispatchedBegan ==
    ASSUME Typed, NEW c \in AllCalls, Dispatches(c)
    PROVE  /\ at[c] \in {"started", "read"} /\ pump = "reading" /\ owed[c] # "held"
           /\ released # {} => c \in released
BY DEF Typed, StepTypeOK, HeldWait, Dispatches

LEMMA EmitsTakes ==
    ASSUME Typed, NEW c \in AllCalls, NEW to, NEW human \in BOOLEAN, Emits(c, to, human)
    PROVE  Takes(c) /\ TakesAs(c, Given(c))
<1>1. TakesAs(c, Given(c))
  BY FinishDoes DEF Emits, Typed
<1>2. UNCHANGED <<lists, listed, wasHeld>> /\ Dispatches(c) /\ released' = released \ {c}
  BY DEF Emits, Undispatched
<1> QED BY <1>1, <1>2, DispatchedBegan DEF Takes

LEMMA RefusesTakes ==
    ASSUME Typed, NEW c \in AllCalls, Refuses(c)
    PROVE  Takes(c) /\ TakesAs(c, With(c))
<1>1. TakesAs(c, With(c))
  BY DisposeTakes DEF Refuses, Typed
<1>2. UNCHANGED <<lists, listed, wasHeld>> /\ Dispatches(c) /\ released' = released \ {c}
  BY DEF Refuses, Undispatched
<1> QED BY <1>1, <1>2, DispatchedBegan DEF Takes

LEMMA HoldsTakes ==
    ASSUME Typed, NEW c \in AllCalls, Holds(c)
    PROVE  Takes(c) /\ TakesAs(c, With(c))
<1>1. TakesAs(c, With(c))
  BY DisposeTakes DEF Holds, Typed
<1>2. UNCHANGED <<lists, listed, wasHeld>> /\ Dispatches(c) /\ released' = released \ {c}
  BY DEF Holds, cursor, shown, Reading
<1> QED BY <1>1, <1>2, DispatchedBegan DEF Takes

\* A completion counts, but for a call that left with an earlier step.
LEMMA CompletedTakes ==
    ASSUME Typed, NEW c \in AllCalls, NEW outcome, Completed(c, outcome)
    PROVE  (c \in prior /\ Keeps) \/ (c \notin prior /\ Takes(c))
<1>1. /\ UNCHANGED <<lists, listed, wasHeld>> /\ released' = released \ {c}
      /\ pump = "reading" /\ released = {} /\ at[c] # "new"
  BY DEF Completed, Completable, Reading
<1>2. CASE c \in prior
  <2>1. \E r : StaysOpen(step, r)
    BY <1>2 DEF Completed
  <2> QED BY <1>1, <1>2, <2>1 DEF StaysOpen, ended, Keeps
<1>3. CASE c \notin prior
  <2>1. CASE c \in Bridged /\ c \in display
    <3>1. \E r : FinishOrContinue(c, FALSE, r)
      BY <1>3, <2>1 DEF Completed
    <3>2. TakesAs(c, Given(c))
      BY <3>1, FinishDoes DEF Typed
    <3> QED BY <1>1, <1>3, <3>2 DEF Takes
  <2>2. CASE ~(c \in Bridged /\ c \in display)
    <3>1. \E r : CloseIfComplete(Dispose(c, FALSE), r)
      BY <1>3, <2>2 DEF Completed
    <3>2. TakesAs(c, With(c))
      BY <1>3, <3>1, DisposeTakes DEF Typed
    <3> QED BY <1>1, <1>3, <3>2 DEF Takes
  <2> QED BY <2>1, <2>2
<1> QED BY <1>2, <1>3

\* The idle guard ends a step of calls as they come.
GuardClears == Reading /\ Clears(step) /\ UNCHANGED <<lists, listed, released, wasHeld>>

LEMMA StepKinds ==
    ASSUME StepConstants, Typed, StepsNext
    PROVE  \/ Keeps \/ GuardClears \/ Ends
           \/ \E c \in AllCalls : Takes(c)
           \/ \E g \in GensOf(AllCalls) : CountsOf(g)
           \/ \E set \in SUBSET (Edits \union Tools) : Releases(set)
<1>1. ASSUME NEW c \in AllCalls, Frame(c)
      PROVE  Keeps \/ Takes(c)
  <2>1. CASE Announced(c)
    BY <2>1 DEF Announced, cursor, ended, Keeps
  <2>2. CASE Started(c) \/ ReadAnswered(c)
    BY <2>2 DEF Started, ReadAnswered, ended, shown, Keeps
  <2>3. CASE EmitsTool(c) \/ EmitsRead(c)
    BY <2>3, EmitsTakes DEF EmitsTool, EmitsRead
  <2>4. CASE Refuses(c) \/ Holds(c)
    BY <2>4, RefusesTakes, HoldsTakes
  <2>5. CASE \E outcome \in {"success", "error", "none"} : Completed(c, outcome)
    BY <2>5, CompletedTakes
  <2> QED BY <1>1, <2>1, <2>2, <2>3, <2>4, <2>5 DEF Frame
<1>2. ASSUME NEW c \in AllCalls, CancelsHeld(c)
      PROVE  Keeps
  BY <1>2 DEF CancelsHeld, ended, Keeps
<1>3. CASE Guard
  <2>1. Clears(step)
    BY <1>3, DropClears, FinishClears DEF Guard
  <2> QED BY <1>3, <2>1 DEF Guard, GuardClears, cursor, shown
<1>4. CASE Continuation
  BY <1>4 DEF Continuation, Keeps, shown, Typed, StepTypeOK
<1>5. ASSUME NEW g \in GensOf(AllCalls), Listed(g)
      PROVE  CountsOf(g)
  BY <1>5, ListedCounts DEF Typed
<1> QED BY <1>1, <1>2, <1>3, <1>4, <1>5 DEF StepsNext, GensOf

-----------------------------------------------------------------------------
(* Types, and how far Cursor is. *)

\* Cursor's calls only go on, and its frames and counts stay.
Progress ==
    /\ lists' = lists /\ listed \subseteq listed'
    /\ \A c \in AllCalls :
           /\ at[c] = "done" => at'[c] = "done"
           /\ at[c] # "new" => at'[c] # "new"
           /\ at[c] = "new" /\ at'[c] # "new" => Current(c)

LEMMA FailingTyped ==
    ASSUME StepTypeOK, NEW set, Failing(set)
    PROVE  failed' \in [AllCalls -> Nat] /\ edits' \in SUBSET Edits
BY DEF StepTypeOK, Failing

LEMMA OutcomeTyped ==
    ASSUME StepTypeOK, NEW c, NEW outcome, ShowsOutcome(c, outcome)
    PROVE  failed' \in [AllCalls -> Nat] /\ edits' \in SUBSET Edits
<1> DEFINE fails == {d \in {c} : IF rows[d] = "open" THEN outcome # "success" ELSE d \in edits /\ outcome = "error"}
<1>1. /\ failed' = [d \in AllCalls |-> failed[d] + IF d \in fails THEN 1 ELSE 0]
      /\ edits' = edits \ {c}
  BY DEF ShowsOutcome
<1> QED BY <1>1 DEF StepTypeOK

LEMMA BecomeTyped ==
    ASSUME StepTypeOK, NEW r \in [AllCalls -> RowKinds], RowsBecome(r)
    PROVE  rows' \in [AllCalls -> RowKinds] /\ stepRun' = stepRun
BY ClosedRows DEF RowsBecome

\* An action that takes a call: its variables but for those of the step.
LEMMA EmitsTyped ==
    ASSUME Typed, NEW c \in AllCalls, NEW to \in {"running", "reading"}, NEW human \in BOOLEAN, Emits(c, to, human)
    PROVE  StepTypeOK' /\ Progress
<1> DEFINE r == Closed(IF Holding THEN OpenRows \intersect {c} ELSE OpenRows)
<1>1. r \in [AllCalls -> RowKinds]
  BY ClosedRows DEF Typed
<1>2. rows' \in [AllCalls -> RowKinds] /\ stepRun' = stepRun
  <2>1. FinishOrContinue(c, human, r)
    BY DEF Emits
  <2> HIDE DEF r
  <2> QED BY <1>1, <2>1, FinishRows, BecomeTyped DEF Typed
<1>3. step' \in Steps /\ prior' \in SUBSET AllCalls /\ pump' \in {"reading", "off"}
  BY EmitsTakes, TakesTyped DEF Typed
<1>4. /\ at' = [at EXCEPT ![c] = to] /\ UNCHANGED <<lists, listed, fieldSeen, failed, wasHeld>>
      /\ edits' \in {edits, edits \ {c}} /\ ran' \in {ran, ran \union {c}}
      /\ owed' = [owed EXCEPT ![c] = "host"] /\ released' = released \ {c}
      /\ at[c] \in {"started", "read"}
  BY DispatchedBegan DEF Emits, Undispatched
<1>5. StepTypeOK'
  BY <1>2, <1>3, <1>4 DEF Typed, StepTypeOK, RowKinds
<1>6. Progress
  BY <1>4 DEF Typed, StepTypeOK, Progress
<1> QED BY <1>5, <1>6

LEMMA RefusesTyped ==
    ASSUME Typed, NEW c \in AllCalls, Refuses(c)
    PROVE  StepTypeOK' /\ Progress
<1> DEFINE r == Closed({c} \intersect OpenRows)
<1>1. r \in [AllCalls -> RowKinds]
  BY ClosedRows DEF Typed
<1>2. rows' \in [AllCalls -> RowKinds] /\ stepRun' = stepRun
  <2>1. CloseIfComplete(Dispose(c, TRUE), r)
    BY DEF Refuses
  <2> HIDE DEF r
  <2> QED BY <1>1, <2>1, CloseRows, BecomeTyped DEF Typed
<1>3. step' \in Steps /\ prior' \in SUBSET AllCalls /\ pump' \in {"reading", "off"}
  BY RefusesTakes, TakesTyped DEF Typed
<1>4. /\ at' = [at EXCEPT ![c] = "answered"] /\ UNCHANGED <<lists, listed, fieldSeen, ran, wasHeld>>
      /\ owed' = [owed EXCEPT ![c] = "no"] /\ released' = released \ {c}
      /\ at[c] \in {"started", "read"}
  BY DispatchedBegan DEF Refuses, Undispatched
<1>5. failed' \in [AllCalls -> Nat] /\ edits' \in SUBSET Edits
  BY FailingTyped DEF Refuses, Typed
<1>6. StepTypeOK'
  BY <1>2, <1>3, <1>4, <1>5 DEF Typed, StepTypeOK, RowKinds
<1>7. Progress
  BY <1>4 DEF Typed, StepTypeOK, Progress
<1> QED BY <1>6, <1>7

LEMMA HoldsTyped ==
    ASSUME Typed, NEW c \in AllCalls, Holds(c)
    PROVE  StepTypeOK' /\ Progress
<1>1. rows' \in [AllCalls -> RowKinds] /\ stepRun' = stepRun
  <2>1. CloseIfComplete(Dispose(c, TRUE), rows)
    BY DEF Holds
  <2>2. rows \in [AllCalls -> RowKinds]
    BY DEF Typed, StepTypeOK, RowKinds
  <2> QED BY <2>1, <2>2, CloseRows, BecomeTyped DEF Typed
<1>2. step' \in Steps /\ prior' \in SUBSET AllCalls /\ pump' \in {"reading", "off"}
  BY HoldsTakes, TakesTyped DEF Typed
<1>3. /\ UNCHANGED <<at, lists, listed, edits, fieldSeen, released, failed, ran, wasHeld>>
      /\ owed' = [owed EXCEPT ![c] = "held"]
  BY DEF Holds, cursor, shown
<1>4. StepTypeOK'
  BY <1>1, <1>2, <1>3 DEF Typed, StepTypeOK, RowKinds
<1>5. Progress
  BY <1>3 DEF Progress
<1> QED BY <1>4, <1>5

LEMMA CompletedTyped ==
    ASSUME Typed, NEW c \in AllCalls, NEW outcome, Completed(c, outcome)
    PROVE  StepTypeOK' /\ Progress /\ at' = [at EXCEPT ![c] = "done"]
<1> DEFINE r == Closed(OpenRows \intersect {c})
<1>1. r \in [AllCalls -> RowKinds]
  BY ClosedRows DEF Typed
<1>2. RowsBecome(r)
  <2>1. FinishOrContinue(c, FALSE, r) \/ StaysOpen(step, r) \/ CloseIfComplete(Dispose(c, FALSE), r)
    BY DEF Completed
  <2> HIDE DEF r
  <2>2. StaysOpen(step, r) => RowsBecome(r)
    BY DEF StaysOpen, RowsBecome, ended
  <2> QED BY <2>1, <2>2, FinishRows, CloseRows
<1>3. rows' \in [AllCalls -> RowKinds] /\ stepRun' = stepRun
  <2> HIDE DEF r
  <2> QED BY <1>1, <1>2, BecomeTyped DEF Typed
<1>4. step' \in Steps /\ prior' \in SUBSET AllCalls /\ pump' \in {"reading", "off"}
  <2>1. CASE Keeps
    <3>1. pump' = pump
      BY <2>1 DEF Completed, Completable, Reading, Keeps
    <3> QED BY <2>1, <3>1 DEF Keeps, Typed, StepTypeOK
  <2>2. CASE Takes(c)
    BY <2>2, TakesTyped DEF Typed, Takes
  <2> QED BY <2>1, <2>2, CompletedTakes
<1>5. /\ at' = [at EXCEPT ![c] = "done"] /\ UNCHANGED <<lists, listed, fieldSeen, released, wasHeld>>
      /\ owed' \in {owed, [owed EXCEPT ![c] = "host"]} /\ ran' \in {ran, ran \cup {c}}
      /\ at[c] # "new"
  BY DEF Completed, Completable
<1>6. failed' \in [AllCalls -> Nat] /\ edits' \in SUBSET Edits
  BY OutcomeTyped DEF Completed, Typed
<1>7. StepTypeOK'
  BY <1>3, <1>4, <1>5, <1>6 DEF Typed, StepTypeOK, RowKinds
<1>8. Progress
  BY <1>5 DEF Typed, StepTypeOK, Progress
<1> QED BY <1>5, <1>7, <1>8

LEMMA TypeNext == StepConstants /\ Typed /\ [StepsNext]_stepsVars => StepTypeOK' /\ Progress
<1> SUFFICES ASSUME StepConstants, Typed, [StepsNext]_stepsVars
             PROVE  StepTypeOK' /\ Progress
  OBVIOUS
<1>1. ASSUME NEW c \in AllCalls, Announced(c)
      PROVE  StepTypeOK' /\ Progress
  <2>1. rows' \in [AllCalls -> RowKinds]
    BY <1>1 DEF Announced, Typed, StepTypeOK, RowKinds
  <2>2. UNCHANGED <<at, lists, listed, edits, fieldSeen, step, prior, owed, released, pump,
                    stepRun, failed, ran, wasHeld>>
    BY <1>1 DEF Announced, cursor, ended
  <2> QED BY <2>1, <2>2 DEF Typed, StepTypeOK, Progress, RowKinds
<1>2. ASSUME NEW c \in AllCalls, Started(c)
      PROVE  StepTypeOK' /\ Progress
  <2>1. /\ at' = [at EXCEPT ![c] = "started"] /\ Current(c) /\ edits' \in SUBSET Edits
        /\ UNCHANGED <<lists, listed, fieldSeen, step, prior, rows, owed, released, pump, stepRun,
                       failed, ran, wasHeld>>
        /\ at[c] = "new"
    BY <1>2 DEF Started, shown, ended, Typed, StepTypeOK
  <2> QED BY <2>1 DEF Typed, StepTypeOK, Progress
<1>3. ASSUME NEW c \in AllCalls, ReadAnswered(c)
      PROVE  StepTypeOK' /\ Progress
  <2>1. /\ at' = [at EXCEPT ![c] = "read"] /\ at[c] = "started"
        /\ UNCHANGED <<lists, listed, edits, fieldSeen, step, prior, rows, owed, released, pump,
                       stepRun, failed, ran, wasHeld>>
    BY <1>3 DEF ReadAnswered, shown, ended
  <2> QED BY <2>1 DEF Typed, StepTypeOK, Progress
<1>4. ASSUME NEW c \in AllCalls, CancelsHeld(c)
      PROVE  StepTypeOK' /\ Progress
  <2>1. rows' \in [AllCalls -> RowKinds]
    BY <1>4, ClosedRows DEF CancelsHeld, Typed
  <2>2. failed' \in [AllCalls -> Nat] /\ edits' \in SUBSET Edits
    BY <1>4, FailingTyped DEF CancelsHeld, Typed
  <2>3. /\ at' = [at EXCEPT ![c] = "answered"] /\ owed' = [owed EXCEPT ![c] = "no"]
        /\ UNCHANGED <<lists, listed, fieldSeen, step, prior, released, pump, stepRun, ran, wasHeld>>
        /\ at[c] \in {"started", "read"}
    BY <1>4 DEF CancelsHeld, ended, Typed, HeldWait
  <2> QED BY <2>1, <2>2, <2>3 DEF Typed, StepTypeOK, Progress, RowKinds
<1>5. ASSUME NEW g \in GensOf(AllCalls), Listed(g)
      PROVE  StepTypeOK' /\ Progress
  <2>1. step' \in Steps /\ prior' \in SUBSET AllCalls /\ pump' \in {"reading", "off"} /\ stepRun' = stepRun
    BY <1>5, ListedCounts DEF Typed
  <2>2. rows' \in [AllCalls -> RowKinds]
    <3>1. \E s : CloseIfComplete(s, rows)
      BY <1>5 DEF Listed
    <3>2. rows \in [AllCalls -> RowKinds]
      BY DEF Typed, StepTypeOK, RowKinds
    <3> QED BY <3>1, <3>2, CloseRows, BecomeTyped DEF Typed
  <2>3. /\ listed' = listed \cup {g} /\ fieldSeen' = TRUE
        /\ UNCHANGED <<at, lists, edits, owed, released, failed, ran, wasHeld>>
    BY <1>5 DEF Listed, shown
  <2> QED BY <2>1, <2>2, <2>3 DEF Typed, StepTypeOK, Progress, RowKinds
<1>6. ASSUME NEW set \in SUBSET (Edits \union Tools), Releases(set)
      PROVE  StepTypeOK' /\ Progress
  <2>1. set \subseteq AllCalls /\ Cardinality(set) \in Nat
    BY FS_Subset, FS_CardinalityType DEF StepConstants, AllCalls
  <2>2. step' \in Steps
    <3>1. step' = [listed |-> Cardinality(set), of |-> NoCount, resolved |-> {}, emitted |-> {}, unbilled |-> TRUE, open |-> TRUE]
      BY <1>6 DEF Releases, NewStep, NoStep
    <3> QED BY <2>1, <3>1 DEF NoCount, Steps
  <2>3. owed' \in [AllCalls -> {"no", "host", "held"}]
    BY <1>6 DEF Releases, Typed, StepTypeOK
  <2>4. /\ released' = set /\ prior' = prior \ set /\ wasHeld' = wasHeld \cup set
        /\ UNCHANGED <<at, lists, listed, edits, fieldSeen, rows, pump, stepRun, failed, ran>>
    BY <1>6 DEF Releases, cursor, ended
  <2> QED BY <2>1, <2>2, <2>3, <2>4 DEF Typed, StepTypeOK, Progress
<1>7. CASE Guard
  <2>1. Clears(step) /\ UNCHANGED <<at, lists, listed, edits, fieldSeen, owed, released, failed,
                                    ran, wasHeld>>
    BY <1>7, DropClears, FinishClears DEF Guard, cursor, shown
  <2>2. step' \in Steps /\ prior' \in SUBSET AllCalls /\ pump' \in {"reading", "off"} /\ stepRun' = stepRun
    BY <2>1, StepTyped DEF Typed, StepTypeOK
  <2>3. rows' \in [AllCalls -> RowKinds]
    BY <1>7, ClosedRows DEF Guard, Dropped, Finishes, Typed, StepTypeOK, RowKinds
  <2> QED BY <2>1, <2>2, <2>3 DEF Typed, StepTypeOK, Progress, RowKinds
<1>8. CASE Ends
  <2>1. rows' \in [AllCalls -> RowKinds]
    BY <1>8, ClosedRows DEF Ends, Typed
  <2>2. failed' \in [AllCalls -> Nat] /\ edits' \in SUBSET Edits
    BY <1>8, FailingTyped DEF Ends, Typed
  <2>3. step' \in Steps /\ prior' \in SUBSET AllCalls
    BY <1>8 DEF Ends, NoStep, NoCount, Steps, PriorAfter, Typed, StepTypeOK
  <2>4. /\ pump' = "off" /\ stepRun' \in {"over", "ending"}
        /\ UNCHANGED <<at, lists, listed, fieldSeen, owed, released, ran, wasHeld>>
    BY <1>8 DEF Ends, cursor
  <2> QED BY <2>1, <2>2, <2>3, <2>4 DEF Typed, StepTypeOK, Progress, RowKinds
<1>9. CASE Continuation
  <2>1. /\ at' \in [AllCalls -> {"new", "started", "read", "reading", "running", "answered", "done"}]
        /\ owed' \in [AllCalls -> {"no", "host", "held"}]
        /\ rows' \in [AllCalls -> RowKinds]
    BY <1>9 DEF Continuation, Typed, StepTypeOK, RowKinds
  <2>2. /\ pump' \in {pump, "reading"} /\ stepRun' \in {stepRun, "over"}
        /\ UNCHANGED <<lists, listed, edits, fieldSeen, step, prior, released, failed, ran, wasHeld>>
    BY <1>9 DEF Continuation, shown
  <2>3. Progress
    BY <1>9 DEF Continuation, Progress, Typed, StepTypeOK
  <2> QED BY <2>1, <2>2, <2>3 DEF Typed, StepTypeOK, RowKinds
<1>10. CASE UNCHANGED stepsVars
  BY <1>10 DEF stepsVars, Typed, StepTypeOK, Progress
<1>11. ASSUME NEW c \in AllCalls, Frame(c)
       PROVE  StepTypeOK' /\ Progress
  BY <1>1, <1>2, <1>3, <1>11, EmitsTyped, RefusesTyped, HoldsTyped, CompletedTyped DEF Frame,
     EmitsTool, EmitsRead
<1> QED BY <1>4, <1>5, <1>6, <1>7, <1>8, <1>9, <1>10, <1>11 DEF StepsNext, GensOf

-----------------------------------------------------------------------------
(* Early rows, and calls that wait. *)

\* A row that is open was open before, and none is once the host has the step.
RowsOnlyClose ==
    /\ \A c \in AllCalls : rows'[c] = "open" => rows[c] = "open"
    /\ pump' = "off" => OpenRows' = {}

LEMMA BecomeCloses ==
    ASSUME StepTypeOK, pump = "reading", NEW set, RowsBecome(Closed(set))
    PROVE  RowsOnlyClose /\ \A c \in set : c \in AllCalls => rows'[c] # "open"
<1>1. CASE rows' = Closed(set) /\ pump' = pump
  BY <1>1, ClosedRows DEF RowsOnlyClose
<1>2. CASE rows' = Closed(OpenRows)
  BY <1>2, ClosedRows DEF RowsOnlyClose, OpenRows
<1> QED BY <1>1, <1>2 DEF RowsBecome

LEMMA BecomeSame ==
    ASSUME StepTypeOK, pump = "reading", RowsBecome(rows)
    PROVE  RowsOnlyClose
<1>1. CASE rows' = rows /\ pump' = pump
  BY <1>1 DEF RowsOnlyClose
<1>2. CASE rows' = Closed(OpenRows)
  BY <1>2, ClosedRows DEF RowsOnlyClose, OpenRows
<1> QED BY <1>1, <1>2 DEF RowsBecome

\* An edit that is left alone stays accounted for.
LEMMA LeftAccounted ==
    ASSUME RowsInv, RowsOnlyClose, NEW c \in Edits,
           failed'[c] = failed[c], edits' \subseteq edits, c \in ran'
                 => c \in ran, stepRun' = "open" => stepRun = "open",
           at'[c] = at[c] \/ (at[c] = "running" /\ at'[c] = "answered") \/ at'[c] = "done"
    PROVE  EditAccounted(c)'
BY DEF RowsInv, EditsAccounted, EditAccounted, RowsOnlyClose, AllCalls

LEMMA EmitsAccounted ==
    ASSUME StepTypeOK, RowsInv, NEW c \in Edits
               \cup Tools, NEW to \in {"running", "reading"}, NEW human \in BOOLEAN, Emits(c, to, human)
    PROVE  HeldWait' /\ EditsAccounted' /\ (pump' = "off" => OpenRows' = {})
<1> DEFINE set == IF Holding THEN OpenRows \intersect {c} ELSE OpenRows
<1>0. Typed /\ c \in AllCalls
  BY DEF Typed, RowsInv, AllCalls
<1>1. /\ at' = [at EXCEPT ![c] = to] /\ owed' = [owed EXCEPT ![c] = "host"] /\ released' = released \ {c}
      /\ at[c] \in {"started", "read"} /\ pump = "reading" /\ stepRun' = stepRun /\ failed' = failed
      /\ edits' = (IF to = "running" THEN edits \ {c} ELSE edits)
      /\ ran' = (IF to = "running" THEN ran \cup {c} ELSE ran)
  <2>1. stepRun' = stepRun
    BY <1>0, EmitsTakes, TakesTyped DEF Typed
  <2> QED BY <1>0, <2>1, DispatchedBegan DEF Emits, Undispatched
<1>2. RowsOnlyClose /\ rows'[c] # "open"
  <2>1. FinishOrContinue(c, human, Closed(set))
    BY DEF Emits
  <2>2. RowsBecome(Closed(set)) /\ pump = "reading"
    BY <1>1, <2>1, FinishRows
  <2>3. rows[c] = "open" => c \in set
    BY <1>0 DEF OpenRows
  <2> HIDE DEF set
  <2> QED BY <1>0, <2>2, <2>3, BecomeCloses DEF RowsOnlyClose
<1>3. HeldWait'
  BY <1>0, <1>1 DEF StepTypeOK, RowsInv, HeldWait
<1>4. ASSUME NEW d \in Edits
      PROVE  EditAccounted(d)'
  <2>1. stepRun = "open"
    BY <1>1 DEF RowsInv, PumpOfRun
  <2>2. CASE d = c
    <3>1. failed[c] = 0 /\ c \notin ran
      BY <1>0, <1>1, <2>1, <2>2 DEF StepTypeOK, RowsInv, EditsAccounted, EditAccounted
    <3> QED BY <1>0, <1>1, <1>2, <2>2, <3>1 DEF EditAccounted, StepTypeOK
  <2>3. CASE d # c
    BY <1>0, <1>1, <1>2, <2>1, <2>3, LeftAccounted DEF StepTypeOK, AllCalls
  <2> QED BY <2>2, <2>3
<1> QED BY <1>2, <1>3, <1>4 DEF EditsAccounted, RowsOnlyClose

LEMMA RefusesAccounted ==
    ASSUME StepTypeOK, RowsInv, NEW c \in AllCalls, Refuses(c)
    PROVE  HeldWait' /\ EditsAccounted' /\ (pump' = "off" => OpenRows' = {})
<1>0. Typed
  BY DEF Typed, RowsInv
<1>1. /\ at' = [at EXCEPT ![c] = "answered"] /\ owed' = [owed EXCEPT ![c] = "no"] /\ released' = released \ {c}
      /\ at[c] \in {"started", "read"} /\ pump = "reading" /\ stepRun' = stepRun /\ ran' = ran
  <2>1. stepRun' = stepRun
    BY <1>0, RefusesTakes, TakesTyped DEF Typed
  <2> QED BY <1>0, <2>1, DispatchedBegan DEF Refuses, Undispatched
<1>2. /\ failed' = [d \in AllCalls |-> failed[d] + IF d \in OpenRows \cap {c} THEN 1 ELSE 0]
      /\ edits' = edits \ (OpenRows \cap {c})
  BY DEF Refuses, Failing
<1>3. RowsOnlyClose /\ rows'[c] # "open"
  <2>1. RowsBecome(Closed({c} \cap OpenRows))
    BY CloseRows DEF Refuses
  <2>2. rows[c] = "open" => c \in {c} \cap OpenRows
    BY DEF OpenRows
  <2> QED BY <1>1, <2>1, <2>2, BecomeCloses DEF RowsOnlyClose
<1>4. HeldWait'
  BY <1>1 DEF StepTypeOK, RowsInv, HeldWait
<1>5. ASSUME NEW d \in Edits
      PROVE  EditAccounted(d)'
  <2>0. d \in AllCalls
    BY DEF AllCalls
  <2>1. stepRun = "open"
    BY <1>1 DEF RowsInv, PumpOfRun
  <2>2. CASE d = c
    <3>1. failed[c] = 0 /\ c \notin ran
      BY <1>1, <2>0, <2>1, <2>2 DEF StepTypeOK, RowsInv, EditsAccounted, EditAccounted
    <3>2. failed'[c] = (IF rows[c] = "open" THEN 1 ELSE 0)
      BY <1>2, <3>1 DEF OpenRows
    <3>3. failed'[c] = 1 => c \notin edits'
      BY <1>2, <3>2 DEF OpenRows
    <3> QED BY <1>1, <1>3, <2>0, <2>2, <3>1, <3>2, <3>3 DEF EditAccounted, StepTypeOK
  <2>3. CASE d # c
    <3>1. failed'[d] = failed[d]
      BY <1>2, <2>0, <2>3 DEF StepTypeOK
    <3> QED BY <1>1, <1>2, <1>3, <2>0, <2>3, <3>1, LeftAccounted DEF StepTypeOK
  <2> QED BY <2>2, <2>3
<1> QED BY <1>3, <1>4, <1>5 DEF EditsAccounted, RowsOnlyClose

LEMMA HoldsAccounted ==
    ASSUME StepTypeOK, RowsInv, NEW c \in AllCalls, Holds(c)
    PROVE  HeldWait' /\ EditsAccounted' /\ (pump' = "off" => OpenRows' = {})
<1>0. Typed
  BY DEF Typed, RowsInv
<1>1. /\ owed' = [owed EXCEPT ![c] = "held"] /\ c \in Edits \cup Tools /\ released = {}
      /\ UNCHANGED <<at, stepRun, released, failed, edits, ran>>
      /\ at[c] \in {"started", "read"} /\ pump = "reading"
  <2>1. stepRun' = stepRun
    BY <1>0, HoldsTakes, TakesTyped DEF Typed
  <2> QED BY <1>0, <2>1, DispatchedBegan DEF Holds, Reading, cursor, shown
<1>2. RowsOnlyClose
  BY <1>1, CloseRows, BecomeSame DEF Holds
<1>3. HeldWait'
  BY <1>1 DEF StepTypeOK, RowsInv, HeldWait
<1>4. ASSUME NEW d \in Edits
      PROVE  EditAccounted(d)'
  BY <1>1, <1>2, LeftAccounted
<1> QED BY <1>2, <1>3, <1>4 DEF EditsAccounted, RowsOnlyClose

LEMMA CompletedAccounted ==
    ASSUME StepConstants, StepTypeOK, RowsInv, NEW c \in AllCalls, NEW outcome, Completed(c, outcome)
    PROVE  HeldWait' /\ EditsAccounted' /\ (pump' = "off" => OpenRows' = {})
<1>0. Typed
  BY DEF Typed, RowsInv
<1>1. /\ at' = [at EXCEPT ![c] = "done"] /\ UNCHANGED released
      /\ released = {} /\ pump = "reading" /\ stepRun' = stepRun
  BY <1>0, CompletedTyped, CompletedTakes, TakesTyped DEF Completed, Completable, Reading, Keeps,
     Takes, Typed
<1>2. \/ UNCHANGED <<owed, ran>>
      \/ c \in Bridged /\ owed' = [owed EXCEPT ![c] = "host"] /\ ran' = ran \cup {c}
  BY DEF Completed
<1>3. owed[c] # "held"
  BY DEF Completed, Completable, RowsInv, HeldWait, StepConstants, StepTypeOK
<1>4. RowsOnlyClose /\ rows'[c] # "open"
  <2> DEFINE set == OpenRows \cap {c}
  <2>1. FinishOrContinue(c, FALSE, Closed(set)) \/ StaysOpen(step, Closed(set)) \/ CloseIfComplete(Dispose(c, FALSE), Closed(set))
    BY DEF Completed
  <2>2. rows[c] = "open" => c \in set
    BY DEF OpenRows
  <2> HIDE DEF set
  <2>3. StaysOpen(step, Closed(set)) => RowsBecome(Closed(set))
    BY DEF StaysOpen, RowsBecome, ended
  <2> QED BY <1>1, <2>1, <2>2, <2>3, FinishRows, CloseRows, BecomeCloses DEF RowsOnlyClose
<1>5. HeldWait'
  BY <1>1, <1>2, <1>3 DEF StepTypeOK, RowsInv, HeldWait
<1>6. \E fails \in SUBSET {c} :
        /\ \A d \in fails : rows[d] = "open" \/ d \in edits
        /\ failed' = [d \in AllCalls |-> failed[d] + IF d \in fails THEN 1 ELSE 0]
        /\ edits' = edits \ {c}
  BY DEF Completed, ShowsOutcome
<1>7. PICK fails \in SUBSET {c} :
        /\ \A d \in fails : rows[d] = "open" \/ d \in edits
        /\ failed' = [d \in AllCalls |-> failed[d] + IF d \in fails THEN 1 ELSE 0]
        /\ edits' = edits \ {c}
  BY <1>6
<1>8. ASSUME NEW d \in Edits
      PROVE  EditAccounted(d)'
  <2>0. d \in AllCalls /\ d \notin Bridged
    BY DEF AllCalls, StepConstants
  <2>1. CASE d = c
    <3>1. c \notin edits' /\ ran' = ran /\ at'[c] = "done"
      BY <1>1, <1>2, <1>7, <2>0, <2>1 DEF StepTypeOK
    <3>2. failed[c] <= 1 /\ (c \in fails => failed[c] = 0)
      BY <1>7, <2>0, <2>1 DEF StepTypeOK, RowsInv, EditsAccounted, EditAccounted
    <3>3. failed'[c] = failed[c] + IF c \in fails THEN 1 ELSE 0
      BY <1>7
    <3>4. failed'[c] <= 1
      BY <3>2, <3>3 DEF StepTypeOK
    <3>5. failed'[c] = 1 => c \notin ran
      BY <1>7, <2>1, <3>2, <3>3 DEF StepTypeOK, RowsInv, EditsAccounted, EditAccounted
    <3> QED BY <1>4, <2>1, <3>1, <3>4, <3>5 DEF EditAccounted
  <2>2. CASE d # c
    <3>1. failed'[d] = failed[d]
      BY <1>7, <2>0, <2>2 DEF StepTypeOK
    <3>2. edits' \subseteq edits /\ (d \in ran' => d \in ran) /\ at'[d] = at[d]
      BY <1>1, <1>2, <1>7, <2>0, <2>2 DEF StepTypeOK
    <3> QED BY <1>1, <1>4, <3>1, <3>2, LeftAccounted
  <2> QED BY <2>1, <2>2
<1> QED BY <1>4, <1>5, <1>8 DEF EditsAccounted, RowsOnlyClose

LEMMA AnnouncedAccounted ==
    ASSUME StepTypeOK, RowsInv, NEW c \in Edits, Announced(c)
    PROVE  HeldWait' /\ EditsAccounted' /\ (pump' = "off" => OpenRows' = {})
<1>1. /\ at[c] \in {"new", "started", "read"} /\ pump = "reading"
      /\ UNCHANGED <<at, edits, owed, released, pump, stepRun, failed, ran>>
      /\ \A d \in AllCalls : d # c => rows'[d] = rows[d]
  BY DEF Announced, Reading, cursor, ended, StepTypeOK
<1>2. HeldWait'
  BY <1>1 DEF RowsInv, HeldWait
<1>3. ASSUME NEW d \in Edits
      PROVE  EditAccounted(d)'
  BY <1>1 DEF StepTypeOK, RowsInv, PumpOfRun, EditsAccounted, EditAccounted, AllCalls
<1> QED BY <1>1, <1>2, <1>3 DEF EditsAccounted

LEMMA StartedAccounted ==
    ASSUME StepTypeOK, RowsInv, NEW c \in AllCalls, Started(c) \/ ReadAnswered(c)
    PROVE  HeldWait' /\ EditsAccounted' /\ (pump' = "off" => OpenRows' = {})
<1>1. /\ at[c] \in {"new", "started"} /\ pump = "reading" /\ at' \in {[at EXCEPT ![c] = "started"], [at EXCEPT ![c] = "read"]}
      /\ edits' \subseteq edits \cup {c} /\ (at[c] = "started" => at' = [at EXCEPT ![c] = "read"])
      /\ UNCHANGED <<rows, owed, released, pump, stepRun, failed, ran>>
  BY DEF Started, ReadAnswered, Reading, ended, shown, StepTypeOK
<1>2. HeldWait'
  BY <1>1 DEF StepTypeOK, RowsInv, HeldWait
<1>3. ASSUME NEW d \in Edits
      PROVE  EditAccounted(d)'
  BY <1>1 DEF StepTypeOK, RowsInv, PumpOfRun, EditsAccounted, EditAccounted, AllCalls
<1> QED BY <1>1, <1>2, <1>3 DEF EditsAccounted

LEMMA CancelsAccounted ==
    ASSUME StepTypeOK, RowsInv, NEW c \in AllCalls, CancelsHeld(c)
    PROVE  HeldWait' /\ EditsAccounted' /\ (pump' = "off" => OpenRows' = {})
<1>1. /\ at' = [at EXCEPT ![c] = "answered"] /\ owed' = [owed EXCEPT ![c] = "no"] /\ UNCHANGED released
      /\ at[c] \in {"started", "read"} /\ pump = "reading" /\ UNCHANGED <<pump, stepRun, ran>>
  BY DEF CancelsHeld, Reading, ended, RowsInv, HeldWait
<1>2. /\ failed' = [d \in AllCalls |-> failed[d] + IF d \in OpenRows \cap {c} THEN 1 ELSE 0]
      /\ edits' = edits \ (OpenRows \cap {c})
  BY DEF CancelsHeld, Failing
<1>3. RowsOnlyClose /\ rows'[c] # "open"
  <2>1. RowsBecome(Closed(OpenRows \cap {c}))
    BY <1>1 DEF CancelsHeld, RowsBecome
  <2>2. rows[c] = "open" => c \in OpenRows \cap {c}
    BY DEF OpenRows
  <2> QED BY <1>1, <2>1, <2>2, BecomeCloses DEF RowsOnlyClose
<1>4. HeldWait'
  BY <1>1 DEF StepTypeOK, RowsInv, HeldWait, CancelsHeld
<1>5. ASSUME NEW d \in Edits
      PROVE  EditAccounted(d)'
  <2>0. d \in AllCalls
    BY DEF AllCalls
  <2>1. stepRun = "open"
    BY <1>1 DEF RowsInv, PumpOfRun
  <2>2. CASE d = c
    <3>1. failed[c] = 0 /\ c \notin ran
      BY <1>1, <2>0, <2>1, <2>2 DEF StepTypeOK, RowsInv, EditsAccounted, EditAccounted
    <3>2. failed'[c] = (IF rows[c] = "open" THEN 1 ELSE 0)
      BY <1>2, <3>1 DEF OpenRows
    <3>3. failed'[c] = 1 => c \notin edits'
      BY <1>2, <3>2 DEF OpenRows
    <3> QED BY <1>1, <1>3, <2>0, <2>2, <3>1, <3>2, <3>3 DEF EditAccounted, StepTypeOK
  <2>3. CASE d # c
    <3>1. failed'[d] = failed[d]
      BY <1>2, <2>0, <2>3 DEF StepTypeOK
    <3> QED BY <1>1, <1>2, <1>3, <2>0, <2>3, <3>1, LeftAccounted DEF StepTypeOK
  <2> QED BY <2>2, <2>3
<1> QED BY <1>3, <1>4, <1>5 DEF EditsAccounted, RowsOnlyClose

\* The end of the Run fails what is still shown open, and nothing else.
LEMMA EndsAccounted ==
    ASSUME StepTypeOK, RowsInv, Ends
    PROVE  HeldWait' /\ EditsAccounted' /\ OpenRows' = {}
<1>1. /\ failed' = [d \in AllCalls |-> failed[d] + IF d \in OpenRows THEN 1 ELSE 0]
      /\ edits' = edits \ OpenRows /\ rows' = Closed(OpenRows) /\ stepRun' # "open" /\ stepRun = "open"
      /\ UNCHANGED <<at, owed, released, ran>>
  BY DEF Ends, Failing, cursor
<1>2. OpenRows' = {}
  BY <1>1, ClosedRows
<1>3. ASSUME NEW d \in Edits
      PROVE  EditAccounted(d)'
  <2>0. d \in AllCalls
    BY DEF AllCalls
  <2>1. failed'[d] = failed[d] + IF rows[d] = "open" THEN 1 ELSE 0
    BY <1>1, <2>0 DEF OpenRows
  <2>2. EditAccounted(d) /\ failed[d] \in Nat /\ rows'[d] # "open"
    BY <1>2, <2>0 DEF StepTypeOK, RowsInv, EditsAccounted, OpenRows
  <2>3. failed'[d] <= 1 /\ (failed'[d] = 1 => d \notin edits' \cup ran)
    BY <1>1, <2>0, <2>1, <2>2 DEF EditAccounted, OpenRows
  <2> QED BY <1>1, <2>2, <2>3 DEF EditAccounted
<1>4. HeldWait'
  BY <1>1 DEF RowsInv, HeldWait
<1> QED BY <1>2, <1>3, <1>4 DEF EditsAccounted

LEMMA RowsNext == StepConstants /\ StepTypeOK /\ RowsInv /\ [StepsNext]_stepsVars => RowsInv'
<1> SUFFICES ASSUME StepConstants, StepTypeOK, RowsInv, [StepsNext]_stepsVars
             PROVE  RowsInv'
  OBVIOUS
<1>0. Typed
  BY DEF Typed, RowsInv
<1> DEFINE Goal == HeldWait' /\ EditsAccounted' /\ (pump' = "off" => OpenRows' = {})
<1>1. ASSUME NEW c \in AllCalls, Frame(c)
      PROVE  Goal
  <2>1. CASE Announced(c) /\ c \in Edits
    BY <2>1, AnnouncedAccounted
  <2>2. CASE Started(c) \/ ReadAnswered(c)
    BY <2>2, StartedAccounted
  <2>3. CASE EmitsTool(c) \/ EmitsRead(c)
    BY <2>3, EmitsAccounted DEF EmitsTool, EmitsRead
  <2>4. CASE Refuses(c) \/ Holds(c) \/ \E outcome \in {"success", "error", "none"} : Completed(c, outcome)
    BY <2>4, RefusesAccounted, HoldsAccounted, CompletedAccounted
  <2> QED BY <1>1, <2>1, <2>2, <2>3, <2>4 DEF Frame
<1>2. ASSUME NEW g \in GensOf(AllCalls), Listed(g)
      PROVE  Goal
  <2>1. pump = "reading" /\ UNCHANGED <<at, owed, released, failed, edits, ran>> /\ stepRun' = stepRun
    BY <1>0, <1>2, ListedCounts DEF Listed, Reading, shown
  <2>2. RowsOnlyClose
    BY <1>2, <2>1, CloseRows, BecomeSame DEF Listed
  <2>3. HeldWait'
    BY <2>1 DEF RowsInv, HeldWait
  <2> QED BY <2>1, <2>2, <2>3, LeftAccounted DEF EditsAccounted, RowsOnlyClose
<1>3. ASSUME NEW set \in SUBSET (Edits \union Tools), Releases(set)
      PROVE  Goal
  <2>1. UNCHANGED <<at, rows, pump, stepRun, failed, edits, ran>> /\ pump = "reading"
    BY <1>3 DEF Releases, Reading, cursor, ended
  <2>2. HeldWait'
    BY <1>3, <2>1 DEF Releases, StepTypeOK, RowsInv, HeldWait, AllCalls
  <2>3. EditsAccounted'
    BY <2>1 DEF RowsInv, EditsAccounted, EditAccounted
  <2> QED BY <2>1, <2>2, <2>3
<1>4. ASSUME Guard
      PROVE  Goal
  <2>1. UNCHANGED <<at, owed, released, failed, edits, ran>> /\ pump = "reading" /\ stepRun' = stepRun
    BY <1>4 DEF Guard, Reading, cursor, shown, Dropped, Finishes
  <2>2. RowsOnlyClose
    <3>1. RowsBecome(rows)
      BY <1>4 DEF Guard, Dropped, Finishes, RowsBecome
    <3> QED BY <2>1, <3>1, BecomeSame
  <2>3. HeldWait'
    BY <2>1 DEF RowsInv, HeldWait
  <2> QED BY <2>1, <2>2, <2>3, LeftAccounted DEF EditsAccounted, RowsOnlyClose
<1>5. ASSUME Ends
      PROVE  Goal
  BY <1>5, EndsAccounted
<1>6. ASSUME Continuation
      PROVE  Goal
  <2>1. rows' = [c \in AllCalls |-> "none"] /\ UNCHANGED <<released, failed, edits,
                                                           ran>> /\ (stepRun' = "open" => stepRun = "open")
    BY <1>6 DEF Continuation, shown
  <2>2. /\ \A c \in AllCalls : at'[c] = at[c] \/ owed[c] = "host"
        /\ \A c \in AllCalls : owed'[c] = "held" <=> owed[c] = "held"
        /\ \A c \in AllCalls : owed[c] = "no" => owed'[c] = "no"
    BY <1>6 DEF Continuation, StepTypeOK
  <2>3. HeldWait'
    BY <2>1, <2>2 DEF StepTypeOK, RowsInv, HeldWait
  <2>4. ASSUME NEW d \in Edits
        PROVE  EditAccounted(d)'
    <3>1. at'[d] \in {at[d], "read", "answered"} /\ (at'[d] # at[d] => at[d] \in {"reading", "running"})
          /\ (at[d] = "running" => at'[d] # "read")
      BY <1>6 DEF Continuation, StepTypeOK, AllCalls
    <3>2. rows'[d] # "open"
      BY <2>1 DEF AllCalls
    <3> QED BY <2>1, <3>1, <3>2 DEF RowsInv, EditsAccounted, EditAccounted
  <2> QED BY <2>1, <2>3, <2>4 DEF EditsAccounted, OpenRows
<1>7. ASSUME UNCHANGED stepsVars
      PROVE  Goal
  BY <1>7 DEF stepsVars, RowsInv, HeldWait, EditsAccounted, EditAccounted, OpenRows
<1>8. ASSUME NEW c \in AllCalls, CancelsHeld(c)
      PROVE  Goal
  BY <1>8, CancelsAccounted
<1>9. Goal
  BY <1>1, <1>2, <1>3, <1>4, <1>5, <1>6, <1>7, <1>8 DEF StepsNext, GensOf
<1>10. PumpOfRun'
  <2>1. CASE StepsNext
    <3>1. CASE Keeps
      BY <3>1 DEF Keeps, RowsInv, PumpOfRun
    <3>2. CASE \E c \in AllCalls : Takes(c)
      BY <3>2, TakesTyped DEF Takes, StepTypeOK, RowsInv, PumpOfRun
    <3>3. CASE GuardClears \/ \E g \in GensOf(AllCalls) : CountsOf(g)
      BY <3>3 DEF GuardClears, CountsOf, StaysOn, Clears, Reading, ended, RowsInv, PumpOfRun
    <3>4. CASE Ends
      BY <3>4 DEF Ends, PumpOfRun
    <3>5. CASE \E set \in SUBSET (Edits \union Tools) : Releases(set)
      BY <3>5 DEF Releases, Reading, ended, RowsInv, PumpOfRun
    <3> QED BY <1>0, <2>1, <3>1, <3>2, <3>3, <3>4, <3>5, StepKinds
  <2>2. CASE UNCHANGED stepsVars
    BY <2>2 DEF stepsVars, RowsInv, PumpOfRun
  <2> QED BY <2>1, <2>2
<1> QED BY <1>9, <1>10 DEF RowsInv

-----------------------------------------------------------------------------
(* Generations leave in order. *)

\* A generation that began stays begun.
LEMMA CurrentStays ==
    ASSUME Progress, NEW c, Current(c)
    PROVE  Current(c)'
BY DEF Progress, Current

LEMMA GenFinite ==
    ASSUME StepConstants, NEW g
    PROVE  /\ IsFiniteSet(InGen(g)) /\ Cardinality(InGen(g)) \in Nat
           /\ \A s \in SUBSET AllCalls : IsFiniteSet(s) /\ Cardinality(s) \in Nat
BY FS_Subset, FS_CardinalityType DEF StepConstants, InGen

\* An open step that was counted lacks a call of its generation.
LEMMA CountedLacks ==
    ASSUME StepConstants, StepInv, Counted(step)
    PROVE  ~(InGen(step.of) \subseteq step.resolved)
<1>1. step.open
  <2>1. NoStep.listed = NoCount
    BY DEF NoStep
  <2> QED BY <2>1 DEF StepInv, CountsInv, OpenStepWaits, Counted
<1>2. step.listed = Cardinality(InGen(step.of)) /\ ~CountMet(step) /\ step.listed # NoCount
  BY <1>1 DEF StepInv, CountsInv, OpenStepWaits, CountsGeneration, Counted
<1>3. IsFiniteSet(step.resolved) /\ Cardinality(step.resolved) \in Nat
  BY GenFinite DEF StepInv, StepTypeOK, Steps
<1>4. SUFFICES ASSUME InGen(step.of) \subseteq step.resolved
               PROVE  FALSE
  OBVIOUS
<1>5. Cardinality(InGen(step.of)) <= Cardinality(step.resolved)
  BY <1>3, <1>4, FS_Subset
<1> QED BY <1>2, <1>3, <1>5, GenFinite DEF CountMet

\* When a generation has begun, those before it are done and listed, and left
\* as a whole unless they were split.
LEMMA LeftBefore ==
    ASSUME StepConstants, StepInv, pump = "reading", ~step.unbilled, lists,
           NEW g \in GensOf(AllCalls), \A c \in InGen(g) : Current(c),
           NEW f \in GensOf(AllCalls) \ split, f < g
    PROVE  InGen(f) \subseteq prior
<1>1. PICK m \in AllCalls : Gen[m] = g /\ Current(m)
  BY DEF GensOf, InGen
<1>2. f \in listed
  BY <1>1 DEF Current, GensOf
<1>3. \A c \in InGen(f) : at[c] = "done"
  BY <1>1 DEF Current, InGen
<1>4. InGen(f) \subseteq prior \cup step.resolved
  BY <1>3 DEF StepInv, CountsInv, TakenInTurn, InGen
<1>5. stepRun = "open" /\ Taken = prior
  BY DEF StepInv, RowsInv, PumpOfRun, Taken
<1>6. Whole(f)
  BY <1>5 DEF StepInv, CountsInv, WholeGenerations
<1>7. CASE Counted(step) /\ step.of = f
  <2>1. InGen(f) \intersect prior = {} \/ InGen(f) \subseteq prior
    BY <1>5, <1>6 DEF Whole
  <2> QED BY <1>4, <1>7, <2>1, CountedLacks
<1>8. CASE ~(Counted(step) /\ step.of = f)
  BY <1>2, <1>5, <1>6, <1>8 DEF Whole
<1> QED BY <1>7, <1>8

\* A step that closes on the count of a generation whose calls are all its own
\* leaves none of them.
LEMMA ClosesWhole ==
    ASSUME StepConstants, StepInv, pump = "reading", ~step.unbilled, lists,
           NEW s \in Steps, s.of \in GensOf(AllCalls), s.listed = Cardinality(InGen(s.of)),
           \A c \in InGen(s.of) \cup s.resolved : Current(c),
           \A c \in AllCalls : Current(c) => Gen[c] <= s.of,
           CountMet(s), Clean(s)
    PROVE  Undisposed(s) = {}
<1> DEFINE g == s.of
<1>0. Gen \in [AllCalls -> Int] /\ g \in Int
  BY DEF StepConstants, GensOf
<1>1. ASSUME NEW r \in s.resolved
      PROVE  r \in InGen(g)
  <2>1. r \in AllCalls /\ Gen[r] <= g
    BY <1>1 DEF Steps
  <2>2. CASE Gen[r] < g
    <3>1. Gen[r] \in GensOf(AllCalls) \ split
      BY <1>0, <1>1, <2>1, <2>2 DEF Clean, GensOf
    <3>2. InGen(Gen[r]) \subseteq prior
      BY <2>2, <3>1, LeftBefore
    <3>3. r \in prior
      BY <2>1, <3>2 DEF InGen
    <3> QED BY <1>1, <3>3 DEF Clean
  <2> QED BY <1>0, <2>1, <2>2 DEF InGen
<1>2. SUFFICES ASSUME NEW y \in Undisposed(s)
               PROVE  FALSE
  OBVIOUS
<1>3. y \in AllCalls /\ Current(y) /\ at[y] # "done" /\ y \notin s.resolved /\ Gen[y] <= g
  BY DEF Undisposed
<1>4. PICK m \in AllCalls : Gen[m] = g /\ Current(m)
  BY DEF GensOf, InGen
<1>5. Gen[y] = g
  BY <1>0, <1>3, <1>4 DEF Current
<1>6. s.resolved \subseteq InGen(g) /\ y \in InGen(g) \ s.resolved
  BY <1>1, <1>3, <1>5 DEF InGen
<1>7. Cardinality(s.resolved) <= Cardinality(InGen(g)) /\ Cardinality(s.resolved) # Cardinality(InGen(g))
  BY <1>6, GenFinite, FS_Subset
<1>8. Cardinality(s.resolved) \in Nat /\ Cardinality(InGen(g)) \in Nat
  BY GenFinite DEF Steps
<1> QED BY <1>7, <1>8 DEF CountMet

\* What the end of a step leaves of a generation that it or its count touched
\* splits that generation; the others stay whole.
LEMMA ClearsWhole ==
    ASSUME StepConstants, StepInv, pump = "reading", ~step.unbilled,
           NEW s \in Steps, step.resolved \subseteq s.resolved, \A c \in s.resolved : Current(c), Clears(s),
           \A f \in listed' \ split : InGen(f) \subseteq prior \/ (s.listed # NoCount /\ \A c \in InGen(f) : Current(c))
    PROVE  WholeGenerations'
<1>1. stepRun = "open" /\ Taken = prior
  BY DEF StepInv, RowsInv, PumpOfRun, Taken
<1>2. Taken' = prior \cup s.resolved /\ split' = split \cup Splits(s)
  BY DEF Taken, Clears, PriorAfter, NoStep
<1>3. SUFFICES ASSUME NEW g \in GensOf(AllCalls) \ split'
               PROVE  Whole(g)'
  BY DEF WholeGenerations
<1>4. g \notin split /\ g \notin Splits(s) /\ Whole(g)
  BY <1>1, <1>2 DEF StepInv, CountsInv, WholeGenerations
<1>5. ASSUME NEW y \in InGen(g), Current(y), y \notin prior \cup s.resolved
      PROVE  s.listed = NoCount /\ g \notin GensOf(s.resolved)
  <2>1. at[y] # "done"
    BY <1>5 DEF StepInv, CountsInv, TakenInTurn, InGen
  <2>2. y \in Undisposed(s) /\ Gen[y] = g
    BY <1>5, <2>1 DEF Undisposed, InGen
  <2> QED BY <1>4, <2>2 DEF Splits, GensOf
<1>6. InGen(g) \cap (prior \cup s.resolved) = {} \/ InGen(g) \subseteq prior \cup s.resolved
  <2>1. SUFFICES ASSUME NEW x \in InGen(g), x \in s.resolved, NEW y \in InGen(g), y \notin prior \cup s.resolved
                 PROVE  FALSE
    BY <1>1, <1>4 DEF Whole
  <2>2. Current(y)
    BY <2>1 DEF Current, InGen
  <2>3. g \in GensOf(s.resolved)
    BY <2>1 DEF GensOf, InGen
  <2> QED BY <1>5, <2>1, <2>2, <2>3
<1>7. ASSUME g \in listed'
      PROVE  InGen(g) \subseteq prior \cup s.resolved
  BY <1>4, <1>5, <1>7
<1> QED BY <1>2, <1>6, <1>7 DEF Whole

\* A step that ends by its count.
CountEnds(s) == CountMet(s) /\ finish' = [by |-> "count", left |-> Undisposed(s), emitted |-> s.emitted,
                                          unbilled |-> s.unbilled, clean |-> Clean(s)]

LEMMA FinishTyped ==
    ASSUME StepInv, NEW s \in Steps, Clears(s)
    PROVE  finish' \in Outcomes
<1>1. Undisposed(s) \in SUBSET AllCalls /\ Clean(s) \in BOOLEAN /\ s.emitted \in SUBSET AllCalls /\ s.unbilled \in BOOLEAN
  BY DEF Undisposed, Clean, Steps
<1>2. CASE finish' = finish
  BY <1>2 DEF StepInv, CountsInv
<1>3. CASE \E by \in {"count", "guard", "single"} :
              /\ finish' = [by |-> by, left |-> Undisposed(s), emitted |-> s.emitted, unbilled |-> s.unbilled,
                            clean |-> Clean(s)]
              /\ by = "count" => CountMet(s)
  BY <1>1, <1>3 DEF Outcomes
<1> QED BY <1>2, <1>3 DEF Clears

\* A finished step keeps what is said of counts.
LEMMA FinishWhole ==
    ASSUME StepInv, NEW s, Clears(s), CountEnds(s) /\ ~s.unbilled /\ Clean(s) => Undisposed(s) = {}
    PROVE  CountedStepWhole'
<1>1. CASE finish' = finish
  BY <1>1 DEF StepInv, CountsInv, CountedStepWhole
<1>2. CASE \E by \in {"count", "guard", "single"} :
              /\ finish' = [by |-> by, left |-> Undisposed(s), emitted |-> s.emitted, unbilled |-> s.unbilled,
                            clean |-> Clean(s)]
              /\ by = "count" => CountMet(s)
  BY <1>2 DEF CountedStepWhole, CountEnds
<1> QED BY <1>1, <1>2 DEF Clears

\* A step of released calls gave the host no other.
LEMMA FinishUnbilled ==
    ASSUME StepInv, NEW s, Clears(s), s.unbilled => s.emitted \subseteq wasHeld, wasHeld' = wasHeld
    PROVE  ReleasedStepsUnbilled'
<1>1. CASE finish' = finish
  BY <1>1 DEF StepInv, CountsInv, ReleasedStepsUnbilled
<1>2. CASE \E by \in {"count", "guard", "single"} :
              /\ finish' = [by |-> by, left |-> Undisposed(s), emitted |-> s.emitted, unbilled |-> s.unbilled,
                            clean |-> Clean(s)]
              /\ by = "count" => CountMet(s)
  BY <1>2 DEF ReleasedStepsUnbilled
<1> QED BY <1>1, <1>2 DEF Clears

-----------------------------------------------------------------------------
(* A call is taken. *)

\* What a step is about.
StepPart ==
    /\ finish \in Outcomes
    /\ OpenStepWaits /\ ReleasedStep /\ CountsGeneration /\ WholeGenerations
    /\ CountedStepWhole /\ ReleasedStepsUnbilled

\* The step with one more call, whichever frame brought it.
Took(c, s) ==
    /\ s \in Steps /\ s.listed = step.listed /\ s.of = step.of /\ s.unbilled = step.unbilled /\ s.open
    /\ s.resolved = step.resolved \cup {c} /\ s.emitted \subseteq step.emitted \cup {c}
    /\ StaysOn(s) \/ Clears(s)
    /\ step.listed # NoCount => StaysOn(s) \/ CountMet(s)

LEMMA TakesTook ==
    ASSUME StepTypeOK, NEW c \in AllCalls, Takes(c)
    PROVE  \E s : Took(c, s)
<1>1. CASE TakesAs(c, With(c))
  <2>1. Took(c, With(c))
    BY <1>1, TakenTyped DEF Took, TakesAs, With, StepTypeOK, Steps
  <2> QED BY <2>1
<1>2. CASE TakesAs(c, Given(c))
  <2>1. Took(c, Given(c))
    BY <1>2, TakenTyped DEF Took, TakesAs, Given, With, StepTypeOK, Steps
  <2> QED BY <2>1
<1> QED BY <1>1, <1>2 DEF Takes

\* The released calls are all there when the step of them ends, and not before.
LEMMA LastReleased ==
    ASSUME StepConstants, StepInv, NEW c \in AllCalls, Takes(c), NEW s, Took(c, s), step.unbilled
    PROVE  /\ c \in released
           /\ CountMet(s) <=> released = {c}
           /\ StaysOn(s) \/ CountMet(s)
<1>1. released # {} /\ c \in released /\ step.listed = Cardinality(step.resolved \cup released)
      /\ step.resolved \cap released = {}
  BY DEF StepInv, CountsInv, ReleasedStep, Takes
<1>2. IsFiniteSet(step.resolved \cup released) /\ Cardinality(step.resolved \cup released) \in Nat
  BY GenFinite DEF StepInv, StepTypeOK, Steps
<1>3. s.resolved \subseteq step.resolved \cup released /\ s.resolved = step.resolved
          \cup {c} /\ s.listed = step.listed
  BY <1>1 DEF Took
<1>4. Cardinality(s.resolved) <= Cardinality(step.resolved \cup released) /\ Cardinality(s.resolved) \in Nat
      /\ (Cardinality(s.resolved) = Cardinality(step.resolved \cup released)
            => s.resolved = step.resolved \cup released)
  BY <1>2, <1>3, FS_Subset, GenFinite DEF Took, Steps
<1>5. CountMet(s) <=> s.resolved = step.resolved \cup released
  BY <1>1, <1>2, <1>3, <1>4 DEF CountMet, NoCount
<1>6. s.resolved = step.resolved \cup released <=> released = {c}
  BY <1>1, <1>3
<1>7. step.listed # NoCount
  BY <1>1, <1>2 DEF NoCount
<1> QED BY <1>1, <1>5, <1>6, <1>7 DEF Took

LEMMA TakesGoes ==
    ASSUME StepConstants, StepInv, Progress, NEW c \in AllCalls, Takes(c), NEW s, Took(c, s), StaysOn(s)
    PROVE  StepPart'
<1>1. step' = s /\ prior' = prior /\ UNCHANGED <<pump, stepRun, finish, split>> /\ ~CountMet(s)
  BY DEF StaysOn, ended
<1>2. pump = "reading" /\ released' = released \ {c} /\ UNCHANGED <<lists, listed, wasHeld>>
      /\ (released # {} => c \in released)
  BY DEF Takes
<1>3. OpenStepWaits'
  BY <1>1, <1>2 DEF Took, OpenStepWaits, CountMet
<1>4. (s.unbilled <=> released' # {}) /\ (s.unbilled => c \in released)
  <2>1. CASE step.unbilled
    <3>1. c \in released /\ released # {c}
      BY <1>1, <2>1, LastReleased
    <3>2. s.unbilled = step.unbilled
      BY DEF Took
    <3> QED BY <1>2, <2>1, <3>1, <3>2
  <2>2. CASE ~step.unbilled
    BY <1>2, <2>2 DEF Took, StepInv, CountsInv, ReleasedStep
  <2> QED BY <2>1, <2>2
<1>5. ReleasedStep'
  <2>1. step.emitted \subseteq step.resolved
        /\ (step.unbilled => /\ step.listed = Cardinality(step.resolved \cup released)
                             /\ step.resolved \cap released = {} /\ step.resolved
                                   \cup released \subseteq wasHeld)
    BY DEF StepInv, CountsInv, ReleasedStep
  <2>2. s.unbilled => s.resolved \cup released' = step.resolved \cup released
    BY <1>2, <1>4 DEF Took
  <2>3. s.emitted \subseteq s.resolved
    BY <2>1 DEF Took
  <2>4. s.unbilled => s.resolved \cap released' = {}
    BY <1>2, <2>1 DEF Took
  <2> QED BY <1>1, <1>2, <1>4, <2>1, <2>2, <2>3, <2>4 DEF Took, ReleasedStep
<1>6. CountsGeneration'
  <2>1. Counted(s) => Counted(step)
    BY DEF Took, Counted
  <2>2. \A d \in AllCalls : Current(d) => Current(d)'
    BY CurrentStays
  <2> QED BY <1>1, <1>2, <2>1, <2>2 DEF StepInv, CountsInv, CountsGeneration, Took, Counted, InGen
<1>7. WholeGenerations'
  <2>1. Taken' = Taken
    BY <1>1, <1>2, <1>4 DEF Taken, Took
  <2>2. Counted(step') <=> Counted(step)
    BY <1>1 DEF Took, Counted
  <2> QED BY <1>1, <1>2, <2>1, <2>2 DEF Took, StepInv, CountsInv, WholeGenerations, Whole, Counted
<1>8. finish' \in Outcomes /\ CountedStepWhole' /\ ReleasedStepsUnbilled'
  BY <1>1, <1>2 DEF StepInv, CountsInv, CountedStepWhole, ReleasedStepsUnbilled
<1> QED BY <1>3, <1>5, <1>6, <1>7, <1>8 DEF StepPart

LEMMA TakesClears ==
    ASSUME StepConstants, StepInv, Progress, NEW c \in AllCalls, Takes(c), NEW s, Took(c, s), Clears(s)
    PROVE  StepPart'
<1>1. step' = NoStep /\ prior' = prior \cup s.resolved /\ split' = split
          \cup Splits(s) /\ stepRun' = stepRun
  BY DEF Clears, PriorAfter
<1>2. pump = "reading" /\ released' = released \ {c} /\ UNCHANGED <<lists, listed, wasHeld>>
      /\ (released # {} => c \in released) /\ at[c] # "new"
  BY DEF Takes
<1>3. OpenStepWaits'
  BY <1>1 DEF OpenStepWaits, NoStep
<1>4. \A x \in s.resolved : Current(x)
  BY <1>2 DEF Took, StepInv, CountsInv, CallsInTurn, TakenInTurn, StepTypeOK, Steps
<1>5. step.unbilled => released = {c} /\ released' = {}
  <2>1. step.unbilled => step.listed # NoCount
    <3>1. Cardinality(step.resolved \cup released) \in Nat
      BY GenFinite DEF StepInv, StepTypeOK, Steps
    <3> QED BY <3>1 DEF StepInv, CountsInv, ReleasedStep, NoCount
  <2>2. step.unbilled => CountMet(s)
    BY <1>1, <2>1 DEF Took, StaysOn, NoStep
  <2> QED BY <1>2, <2>2, LastReleased
<1>6. released' = {}
  BY <1>2, <1>5 DEF StepInv, CountsInv, ReleasedStep
<1>7. ReleasedStep'
  BY <1>1, <1>6 DEF ReleasedStep, NoStep
<1>8. CountsGeneration'
  BY <1>1, <1>2 DEF StepInv, CountsInv, CountsGeneration, Counted, NoStep
<1>9. WholeGenerations'
  <2>1. CASE step.unbilled
    <3>1. Taken' = Taken
      BY <1>1, <1>5, <2>1 DEF Taken, Took, NoStep
    <3> QED BY <1>1, <1>2, <2>1, <3>1 DEF StepInv, CountsInv, WholeGenerations, Whole, Counted
  <2>2. CASE ~step.unbilled
    <3>1. ASSUME NEW f \in listed' \ split
          PROVE  InGen(f) \subseteq prior \/ (s.listed # NoCount /\ \A d \in InGen(f) : Current(d))
      <4>1. f \in GensOf(AllCalls) \ split /\ stepRun = "open" /\ Taken = prior /\ f \in listed
        BY <1>2, <2>2, <3>1 DEF StepInv, StepTypeOK, RowsInv, PumpOfRun, Taken
      <4>2. Whole(f)
        BY <4>1 DEF StepInv, CountsInv, WholeGenerations
      <4>3. CASE Counted(step) /\ step.of = f
        BY <4>3 DEF Took, Counted, StepInv, CountsInv, CountsGeneration
      <4> QED BY <4>1, <4>2, <4>3 DEF Whole
    <3> QED BY <1>2, <1>4, <2>2, <3>1, ClearsWhole DEF Took
  <2> QED BY <2>1, <2>2
<1>10. CountEnds(s) /\ ~s.unbilled /\ Clean(s) => Undisposed(s) = {}
  <2> SUFFICES ASSUME CountMet(s), ~s.unbilled, Clean(s)
               PROVE  Undisposed(s) = {}
    BY DEF CountEnds
  <2>1. Counted(step) /\ ~step.unbilled /\ s.of = step.of /\ s.listed = step.listed
    BY DEF Took, Counted, CountMet
  <2>2. step.of \in listed /\ lists /\ step.listed = Cardinality(InGen(step.of)) /\ \A d \in InGen(step.of) : Current(d)
    BY <2>1 DEF StepInv, CountsInv, CountsGeneration
  <2>3. s.of \in GensOf(AllCalls)
    BY <2>1, <2>2 DEF StepInv, StepTypeOK
  <2>4. ASSUME NEW d \in AllCalls, Current(d), ~(Gen[d] <= s.of)
        PROVE  FALSE
    <3>1. s.of < Gen[d]
      BY <2>3, <2>4 DEF StepConstants, GensOf
    <3>2. \A x \in InGen(s.of) : at[x] = "done"
      BY <2>4, <3>1 DEF Current, InGen
    <3>3. InGen(s.of) \subseteq prior \cup step.resolved
      BY <3>2 DEF StepInv, CountsInv, TakenInTurn, InGen
    <3>4. InGen(s.of) \subseteq step.resolved
      BY <3>3 DEF Clean
    <3> QED BY <2>1, <3>4, CountedLacks
  <2> QED BY <1>2, <1>4, <2>1, <2>2, <2>3, <2>4, ClosesWhole DEF Took
<1>11. s.unbilled => s.emitted \subseteq wasHeld
  BY <1>5 DEF Took, StepInv, CountsInv, ReleasedStep
<1>12. finish' \in Outcomes
  BY FinishTyped DEF Took
<1> QED BY <1>2, <1>3, <1>7, <1>8, <1>9, <1>10, <1>11, <1>12, FinishWhole, FinishUnbilled DEF StepPart

-----------------------------------------------------------------------------
(* The step gets its count. *)

\* A generation that is counted finds those counted before it gone.
LEMMA ListedLeft ==
    ASSUME StepConstants, StepInv, NEW g \in GensOf(AllCalls), CountsOf(g), NEW f \in listed \ split
    PROVE  InGen(f) \subseteq prior
<1>1. pump = "reading" /\ released = {} /\ lists /\ g \notin listed /\ \A c \in InGen(g) : Current(c)
  BY DEF CountsOf, Reading
<1>2. ~step.unbilled /\ f \in GensOf(AllCalls) \ split /\ stepRun = "open" /\ Taken = prior
  BY <1>1 DEF StepInv, CountsInv, ReleasedStep, StepTypeOK, RowsInv, PumpOfRun, Taken
<1>3. Whole(f)
  BY <1>2 DEF StepInv, CountsInv, WholeGenerations
<1>4. CASE Counted(step) /\ step.of = f
  <2>1. PICK m \in AllCalls : Gen[m] = f
    BY <1>2 DEF GensOf
  <2>2. Current(m)
    BY <1>4, <2>1 DEF StepInv, CountsInv, CountsGeneration, InGen
  <2>3. ~(g < f)
    <3>1. PICK n \in AllCalls : Gen[n] = g
      BY DEF GensOf
    <3> QED BY <1>1, <2>1, <2>2, <3>1 DEF Current
  <2>4. f < g
    BY <1>1, <1>2, <2>3 DEF StepConstants, GensOf
  <2> QED BY <1>1, <1>2, <2>4, LeftBefore
<1>5. CASE ~(Counted(step) /\ step.of = f)
  BY <1>2, <1>3, <1>5 DEF Whole
<1> QED BY <1>4, <1>5

LEMMA CountsStep ==
    ASSUME StepConstants, StepInv, Progress, NEW g \in GensOf(AllCalls), CountsOf(g)
    PROVE  StepPart'
<1> DEFINE s == [step EXCEPT !.open = TRUE, !.listed = Cardinality(InGen(g)), !.of = g]
<1>1. /\ pump = "reading" /\ released = {} /\ lists /\ g \notin listed /\ \A c \in InGen(g) : Current(c)
      /\ listed' = listed \union {g} /\ UNCHANGED <<lists, released, wasHeld>>
      /\ StaysOn(s) \/ (CountMet(s) /\ Clears(s))
  BY DEF CountsOf, Reading
<1>2. ~step.unbilled /\ stepRun = "open" /\ Taken = prior /\ step.emitted \subseteq step.resolved
  BY <1>1 DEF StepInv, CountsInv, ReleasedStep, RowsInv, PumpOfRun, Taken
<1>3. Cardinality(InGen(g)) \in Nat /\ g \in Int
  BY GenFinite DEF StepConstants, GensOf
<1>4. /\ s \in Steps /\ s.open /\ s.of = g /\ s.listed = Cardinality(InGen(g)) /\ s.listed # NoCount
      /\ s.unbilled = step.unbilled /\ s.resolved = step.resolved /\ s.emitted = step.emitted
  <2>1. step \in Steps
    BY DEF StepInv, StepTypeOK
  <2>2. s \in Steps /\ s.open
    BY <1>3, <2>1 DEF Steps
  <2>3. s.of = g
    BY <2>1 DEF Steps
  <2>4. s.listed = Cardinality(InGen(g))
    BY <2>1 DEF Steps
  <2>5. s.unbilled = step.unbilled /\ s.resolved = step.resolved /\ s.emitted = step.emitted
    BY <2>1 DEF Steps
  <2>6. s.listed # NoCount
    <3> HIDE DEF s
    <3> QED BY <1>3, <2>4 DEF NoCount
  <2> QED BY <2>2, <2>3, <2>4, <2>5, <2>6
<1> HIDE DEF s
<1>5. \A d \in AllCalls : Current(d) => Current(d)'
  BY CurrentStays
<1>6. CASE StaysOn(s)
  <2>1. step' = s /\ prior' = prior /\ UNCHANGED <<pump, stepRun, finish, split>> /\ ~CountMet(s)
    BY <1>6 DEF StaysOn, ended
  <2>2. OpenStepWaits'
    BY <1>1, <1>4, <2>1 DEF OpenStepWaits, CountMet
  <2>3. ReleasedStep'
    BY <1>1, <1>2, <1>4, <2>1 DEF ReleasedStep
  <2>4. CountsGeneration'
    BY <1>1, <1>4, <1>5, <2>1 DEF CountsGeneration, InGen
  <2>5. WholeGenerations'
    <3>1. Taken' = Taken
      BY <1>1, <1>2, <1>4, <2>1 DEF Taken
    <3>2. Counted(step') /\ step'.of = g
      BY <1>2, <1>4, <2>1 DEF Counted
    <3>3. ASSUME NEW f \in GensOf(AllCalls) \ split
          PROVE  Whole(f)'
      <4>1. Whole(f)
        BY <1>2 DEF StepInv, CountsInv, WholeGenerations
      <4>2. f \in listed => InGen(f) \subseteq prior
        BY ListedLeft
      <4> QED BY <1>1, <1>2, <3>1, <3>2, <4>1, <4>2 DEF Whole, Counted
    <3> QED BY <2>1, <3>3 DEF WholeGenerations
  <2>6. finish' \in Outcomes /\ CountedStepWhole' /\ ReleasedStepsUnbilled'
    BY <1>1, <2>1 DEF StepInv, CountsInv, CountedStepWhole, ReleasedStepsUnbilled
  <2> QED BY <2>2, <2>3, <2>4, <2>5, <2>6 DEF StepPart
<1>7. CASE CountMet(s) /\ Clears(s)
  <2>1. step' = NoStep /\ prior' = prior \cup s.resolved /\ split' = split
            \cup Splits(s) /\ stepRun' = stepRun
    BY <1>7 DEF Clears, PriorAfter
  <2>2. OpenStepWaits' /\ ReleasedStep' /\ CountsGeneration'
    BY <1>1, <2>1 DEF OpenStepWaits, ReleasedStep, CountsGeneration, Counted, NoStep
  <2>3. \A x \in s.resolved : Current(x)
    BY <1>4 DEF StepInv, CountsInv, CallsInTurn, TakenInTurn, StepTypeOK, Steps
  <2>4. WholeGenerations'
    <3>1. ASSUME NEW f \in listed' \ split
          PROVE  InGen(f) \subseteq prior \/ (s.listed # NoCount /\ \A d \in InGen(f) : Current(d))
      BY <1>1, <1>4, <3>1, ListedLeft
    <3> QED BY <1>1, <1>2, <1>4, <1>7, <2>3, <3>1, ClearsWhole
  <2>5. Clean(s) => Undisposed(s) = {}
    <3>1. ASSUME NEW d \in AllCalls, Current(d)
          PROVE  Gen[d] <= s.of
      <4>1. ~(g < Gen[d])
        <5>1. PICK n \in AllCalls : Gen[n] = g
          BY DEF GensOf
        <5> QED BY <1>1, <3>1, <5>1 DEF Current
      <4> QED BY <1>3, <1>4, <4>1 DEF StepConstants
    <3>2. \A x \in InGen(s.of) \cup s.resolved : Current(x)
      BY <1>1, <1>4, <2>3
    <3>3. s.of \in GensOf(AllCalls) /\ s.listed = Cardinality(InGen(s.of))
      BY <1>4
    <3> QED BY <1>1, <1>2, <1>4, <1>7, <3>1, <3>2, <3>3, ClosesWhole
  <2> QED BY <1>1, <1>2, <1>4, <1>7, <2>2, <2>4, <2>5, FinishTyped, FinishWhole, FinishUnbilled DEF StepPart
<1> QED BY <1>1, <1>6, <1>7

-----------------------------------------------------------------------------
(* The guard, the end of the Run, and released calls. *)

LEMMA GuardStep ==
    ASSUME StepConstants, StepInv, Progress, GuardClears
    PROVE  StepPart'
<1>1. /\ pump = "reading" /\ released = {} /\ Clears(step)
      /\ UNCHANGED <<lists, listed, released, wasHeld>>
  BY DEF GuardClears, Reading
<1>2. ~step.unbilled /\ stepRun = "open" /\ Taken = prior /\ step \in Steps
  BY <1>1 DEF StepInv, CountsInv, ReleasedStep, StepTypeOK, RowsInv, PumpOfRun, Taken
<1>3. step' = NoStep
  BY <1>1 DEF Clears
<1>4. OpenStepWaits' /\ ReleasedStep' /\ CountsGeneration'
  BY <1>1, <1>3 DEF OpenStepWaits, ReleasedStep, CountsGeneration, Counted, NoStep, StepInv,
     CountsInv
<1>5. \A x \in step.resolved : Current(x)
  BY DEF StepInv, CountsInv, CallsInTurn, TakenInTurn, StepTypeOK, Steps
<1>6. WholeGenerations'
  <2>1. ASSUME NEW f \in listed' \ split
        PROVE  InGen(f) \subseteq prior \/ (step.listed # NoCount /\ \A d \in InGen(f) : Current(d))
    <3>1. f \in GensOf(AllCalls) \ split /\ f \in listed
      BY <1>1, <2>1 DEF StepInv, StepTypeOK
    <3>2. Whole(f)
      BY <1>2, <3>1 DEF StepInv, CountsInv, WholeGenerations
    <3>3. CASE Counted(step) /\ step.of = f
      BY <3>3 DEF Counted, StepInv, CountsInv, CountsGeneration
    <3> QED BY <1>2, <3>1, <3>2, <3>3 DEF Whole
  <2> QED BY <1>1, <1>2, <1>5, <2>1, ClearsWhole
<1>7. CountEnds(step) => FALSE
  <2>1. NoStep.listed = NoCount
    BY DEF NoStep
  <2> QED BY <2>1 DEF CountEnds, CountMet, StepInv, CountsInv, OpenStepWaits
<1> QED BY <1>1, <1>2, <1>4, <1>6, <1>7, FinishTyped, FinishWhole, FinishUnbilled DEF StepPart

LEMMA EndsStep ==
    ASSUME StepInv, Ends
    PROVE  StepPart'
<1>1. /\ step' = NoStep /\ stepRun' # "open" /\ released = {} /\ UNCHANGED <<lists, listed,
                                                                             released, wasHeld>>
      /\ finish' = [finish EXCEPT !.by = "end", !.left = {}, !.emitted = {}, !.unbilled = FALSE]
  BY DEF Ends, Reading, cursor
<1>2. OpenStepWaits' /\ ReleasedStep' /\ CountsGeneration' /\ WholeGenerations'
  BY <1>1 DEF OpenStepWaits, ReleasedStep, CountsGeneration, Counted, NoStep, WholeGenerations,
     StepInv, CountsInv
<1>3. finish' \in Outcomes /\ finish'.by = "end" /\ finish'.unbilled = FALSE
  BY <1>1 DEF StepInv, CountsInv, Outcomes
<1> QED BY <1>1, <1>2, <1>3 DEF StepPart, CountedStepWhole, ReleasedStepsUnbilled

\* Released calls make a step of their own, and do not leave meanwhile.
LEMMA ReleasesStep ==
    ASSUME StepConstants, StepInv, NEW set \in SUBSET (Edits \union Tools), Releases(set)
    PROVE  StepPart' /\ set \subseteq prior
<1>1. /\ pump = "reading" /\ released = {} /\ ~step.open /\ set # {} /\ \A c \in set : owed[c] = "held"
      /\ released' = set /\ prior' = prior \ set /\ wasHeld' = wasHeld \union set
      /\ UNCHANGED <<at, lists, listed, pump, stepRun, finish, split>>
      /\ step' = [NewStep EXCEPT !.listed = Cardinality(set), !.unbilled = TRUE]
  BY DEF Releases, Reading, cursor, ended
<1>2. step = NoStep
  BY <1>1 DEF StepInv, CountsInv, OpenStepWaits
<1>3. step' = [listed |-> Cardinality(set), of |-> NoCount, resolved |-> {}, emitted |-> {}, unbilled |-> TRUE, open |-> TRUE]
  BY <1>1 DEF NewStep, NoStep
<1>4. /\ step'.listed = Cardinality(set) /\ step'.resolved = {} /\ step'.emitted = {}
      /\ step'.unbilled = TRUE /\ step'.open = TRUE
  BY <1>3
<1>4a. Cardinality(set) \in Nat /\ Cardinality(set) # 0 /\ Cardinality({}) = 0
  <2>1. IsFiniteSet(set)
    BY FS_Subset DEF StepConstants, AllCalls
  <2> QED BY <1>1, <2>1, FS_EmptySet, FS_CardinalityType
<1>5. set \subseteq prior
  BY <1>1, <1>2 DEF StepInv, CountsInv, TakenInTurn, NoStep, AllCalls
<1>6. OpenStepWaits'
  <2>1. ~CountMet(step')
    BY <1>4, <1>4a DEF CountMet
  <2>2. pump' = "reading" /\ step'.open
    BY <1>1, <1>4
  <2> QED BY <2>1, <2>2 DEF OpenStepWaits, CountMet
<1>7. ReleasedStep' /\ CountsGeneration'
  <2>1. step'.resolved \cup released' = set /\ step'.resolved \intersect released' = {}
    BY <1>1, <1>4
  <2>2. step'.unbilled /\ released' # {} /\ step'.emitted \subseteq step'.resolved
    BY <1>1, <1>4
  <2>3. step'.listed = Cardinality(step'.resolved \cup released') /\ set \subseteq wasHeld'
    BY <1>1, <1>4, <2>1
  <2>4. ReleasedStep'
    BY <2>1, <2>2, <2>3 DEF ReleasedStep
  <2>5. CountsGeneration'
    BY <1>1, <2>2 DEF CountsGeneration, Counted, StepInv, CountsInv
  <2> QED BY <2>4, <2>5
<1>8. WholeGenerations'
  <2>1. Taken' = Taken
    <3>1. Taken = prior
      BY <1>2 DEF Taken, NoStep
    <3>2. Taken' = prior' \cup (step'.resolved \cup released')
      BY <1>4 DEF Taken
    <3>3. Taken' = (prior \ set) \cup ({} \cup set)
      BY <1>1, <1>4, <3>2
    <3> QED BY <1>5, <3>1, <3>3
  <2>2. ~Counted(step) /\ ~Counted(step)'
    BY <1>2, <1>3 DEF Counted, NoStep
  <2> QED BY <1>1, <2>1, <2>2 DEF StepInv, CountsInv, WholeGenerations, Whole
<1>9. finish' \in Outcomes /\ CountedStepWhole' /\ ReleasedStepsUnbilled'
  BY <1>1 DEF StepInv, CountsInv, CountedStepWhole, ReleasedStepsUnbilled
<1> QED BY <1>5, <1>6, <1>7, <1>8, <1>9 DEF StepPart

LEMMA KeepsStep ==
    ASSUME StepInv, Progress, Keeps
    PROVE  StepPart'
<1>1. /\ UNCHANGED <<lists, listed, step, prior, released, finish, split, wasHeld>>
      /\ (stepRun' = "open" => stepRun = "open") /\ (pump = "reading" => pump' = "reading")
  BY DEF Keeps
<1>2. OpenStepWaits' /\ ReleasedStep'
  BY <1>1 DEF StepInv, CountsInv, OpenStepWaits, ReleasedStep, CountMet
<1>3. CountsGeneration'
  <2>1. \A d \in AllCalls : Current(d) => Current(d)'
    BY CurrentStays
  <2> QED BY <1>1, <2>1 DEF StepInv, CountsInv, CountsGeneration, Counted, InGen
<1>4. WholeGenerations'
  BY <1>1 DEF StepInv, CountsInv, WholeGenerations, Whole, Taken, Counted
<1>5. finish' \in Outcomes /\ CountedStepWhole' /\ ReleasedStepsUnbilled'
  BY <1>1 DEF StepInv, CountsInv, CountedStepWhole, ReleasedStepsUnbilled
<1> QED BY <1>2, <1>3, <1>4, <1>5 DEF StepPart

-----------------------------------------------------------------------------
(* What is done or held was taken. *)

\* A call that is taken is in the step or left with it, and no other leaves them.
LEMMA TakesKeeps ==
    ASSUME StepTypeOK, NEW c \in AllCalls, Takes(c)
    PROVE  prior' \cup step'.resolved = prior \cup step.resolved \cup {c}
<1>1. PICK s : Took(c, s)
  BY TakesTook
<1>2. CASE StaysOn(s)
  BY <1>1, <1>2 DEF Took, StaysOn
<1>3. CASE Clears(s)
  BY <1>1, <1>3 DEF Took, Clears, PriorAfter, NoStep
<1> QED BY <1>1, <1>2, <1>3 DEF Took

LEMMA OthersKeep ==
    ASSUME StepTypeOK, Keeps \/ GuardClears \/ Ends \/ \E g \in GensOf(AllCalls) : CountsOf(g)
    PROVE  prior' \cup step'.resolved = prior \cup step.resolved
<1>1. CASE Keeps
  BY <1>1 DEF Keeps
<1>2. CASE GuardClears \/ Ends
  BY <1>2 DEF GuardClears, Clears, Ends, PriorAfter, NoStep
<1>3. ASSUME NEW g \in GensOf(AllCalls), CountsOf(g)
      PROVE  prior' \cup step'.resolved = prior \cup step.resolved
  <2> DEFINE s == [step EXCEPT !.open = TRUE, !.listed = Cardinality(InGen(g)), !.of = g]
  <2>1. s.resolved = step.resolved
    BY DEF StepTypeOK, Steps
  <2>2. StaysOn(s) \/ Clears(s)
    BY <1>3 DEF CountsOf
  <2> HIDE DEF s
  <2> QED BY <2>1, <2>2 DEF StaysOn, Clears, PriorAfter, NoStep
<1> QED BY <1>1, <1>2, <1>3

\* Only a completion finishes a call, and only a hold holds one.
LEMMA NewlyTaken ==
    ASSUME StepConstants, Typed, StepsNext, NEW c \in AllCalls, at'[c] = "done" \/ owed'[c] = "held"
    PROVE  at[c] = "done" \/ owed[c] = "held" \/ c \in prior \/ Takes(c)
<1>1. ASSUME NEW d \in AllCalls, Frame(d)
      PROVE  at[c] = "done" \/ owed[c] = "held" \/ c \in prior \/ Takes(c)
  <2>1. CASE Announced(d)
    BY <2>1 DEF Announced, cursor
  <2>2. CASE Started(d) \/ ReadAnswered(d)
    BY <2>2 DEF Started, ReadAnswered, Typed, StepTypeOK
  <2>3. CASE EmitsTool(d) \/ EmitsRead(d)
    <3>1. at'[c] = "done" => at[c] = "done"
      BY <2>3 DEF EmitsTool, EmitsRead, Emits, Typed, StepTypeOK
    <3>2. owed'[c] = "held" => owed[c] = "held"
      BY <2>3 DEF EmitsTool, EmitsRead, Emits, Typed, StepTypeOK
    <3> QED BY <3>1, <3>2
  <2>4. CASE Refuses(d)
    BY <2>4 DEF Refuses, Typed, StepTypeOK
  <2>5. CASE Holds(d)
    <3>1. owed' = [owed EXCEPT ![d] = "held"] /\ at' = at
      BY <2>5 DEF Holds, cursor
    <3> QED BY <2>5, <3>1, HoldsTakes DEF Typed, StepTypeOK
  <2>6. CASE \E outcome \in {"success", "error", "none"} : Completed(d, outcome)
    <3>1. at' = [at EXCEPT ![d] = "done"] /\ owed' \in {owed, [owed EXCEPT ![d] = "host"]}
      BY <2>6 DEF Completed
    <3>2. d \in prior \/ Takes(d)
      BY <2>6, CompletedTakes
    <3> QED BY <3>1, <3>2 DEF Typed, StepTypeOK
  <2> QED BY <1>1, <2>1, <2>2, <2>3, <2>4, <2>5, <2>6 DEF Frame
<1>2. ASSUME NEW d \in AllCalls, CancelsHeld(d)
      PROVE  at[c] = "done" \/ owed[c] = "held"
  BY <1>2 DEF CancelsHeld, Typed, StepTypeOK
<1>3. ASSUME Guard \/ Ends \/ Continuation \/ \E g \in GensOf(AllCalls) : Listed(g)
      PROVE  at[c] = "done" \/ owed[c] = "held"
  BY <1>3 DEF Guard, Ends, Continuation, Listed, cursor, Typed, StepTypeOK
<1>4. ASSUME NEW set \in SUBSET (Edits \union Tools), Releases(set)
      PROVE  at[c] = "done" \/ owed[c] = "held"
  BY <1>4 DEF Releases, cursor, Typed, StepTypeOK
<1> QED BY <1>1, <1>2, <1>3, <1>4 DEF StepsNext, GensOf

-----------------------------------------------------------------------------
(* Every step keeps the counts. *)

LEMMA StepPartNext ==
    ASSUME StepConstants, StepInv, [StepsNext]_stepsVars
    PROVE  StepPart' /\ Progress
<1>1. Typed
  BY DEF StepInv, RowsInv, Typed
<1>2. Progress
  BY <1>1, TypeNext
<1>3. CASE UNCHANGED stepsVars
  <2>1. Keeps
    BY <1>3 DEF stepsVars, Keeps
  <2> QED BY <1>2, <2>1, KeepsStep
<1>4. CASE StepsNext
  <2>1. ASSUME NEW c \in AllCalls, Takes(c)
        PROVE  StepPart'
    <3>1. PICK s : Took(c, s)
      BY <1>1, <2>1, TakesTook DEF Typed
    <3>2. StaysOn(s) \/ Clears(s)
      BY <3>1 DEF Took
    <3> QED BY <1>2, <2>1, <3>1, <3>2, TakesGoes, TakesClears
  <2>2. ASSUME NEW g \in GensOf(AllCalls), CountsOf(g)
        PROVE  StepPart'
    BY <1>2, <2>2, CountsStep
  <2>3. CASE GuardClears
    BY <1>2, <2>3, GuardStep
  <2>4. CASE Ends
    BY <1>2, <2>4, EndsStep
  <2>5. CASE Keeps
    BY <1>2, <2>5, KeepsStep
  <2> QED BY <1>1, <1>2, <1>4, <2>1, <2>2, <2>3, <2>4, <2>5, ReleasesStep, StepKinds
<1> QED BY <1>2, <1>3, <1>4

LEMMA CallsInTurnNext ==
    ASSUME StepConstants, StepInv, [StepsNext]_stepsVars
    PROVE  CallsInTurn'
<1> SUFFICES ASSUME NEW c \in AllCalls, at'[c] # "new"
             PROVE  Current(c)'
  BY DEF CallsInTurn
<1>1. Progress
  BY StepPartNext
<1>2. Current(c)
  BY <1>1 DEF Progress, StepInv, CountsInv, CallsInTurn
<1> QED BY <1>1, <1>2, CurrentStays

LEMMA TakenInTurnNext ==
    ASSUME StepConstants, StepInv, [StepsNext]_stepsVars
    PROVE  TakenInTurn'
<1>1. Typed /\ StepTypeOK /\ Progress /\ TakenInTurn
  BY StepPartNext DEF StepInv, RowsInv, CountsInv, Typed
<1>2. \A c \in AllCalls : at[c] # "new" => at'[c] # "new"
  BY <1>1 DEF Progress
<1>3. prior \in SUBSET AllCalls /\ step.resolved \in SUBSET AllCalls /\ released \in SUBSET AllCalls
  BY <1>1 DEF StepTypeOK, Steps
<1>4. CASE UNCHANGED stepsVars
  BY <1>1, <1>4 DEF stepsVars, TakenInTurn
<1>5. ASSUME StepsNext, NEW set \in SUBSET (Edits \union Tools), Releases(set)
      PROVE  TakenInTurn'
  <2>1. set \subseteq prior
    BY <1>5, ReleasesStep
  <2>2. /\ released' = set /\ prior' = prior \ set /\ step'.resolved = {} /\ at' = at /\ ~step.open
        /\ \A c \in set : owed[c] = "held"
    BY <1>5 DEF Releases, NewStep, NoStep, cursor
  <2>3. step.resolved = {}
    BY <2>2 DEF StepInv, CountsInv, OpenStepWaits, NoStep
  <2>4. \A c \in set : c \in AllCalls /\ at[c] \in {"started", "read"} /\ owed'[c] = "no"
    BY <1>1, <1>5 DEF Typed, HeldWait, Releases, AllCalls
  <2>5. \A c \in AllCalls : owed'[c] = "held" => owed[c] = "held"
    BY <1>5 DEF Releases
  <2> QED BY <1>1, <2>1, <2>2, <2>3, <2>4, <2>5 DEF TakenInTurn
<1>6. ASSUME StepsNext, ~ \E set \in SUBSET (Edits \union Tools) : Releases(set)
      PROVE  TakenInTurn'
  <2>1. (\E c \in AllCalls : Takes(c)) \/ Keeps \/ GuardClears \/ Ends \/ (\E g \in GensOf(AllCalls) : CountsOf(g))
    BY <1>1, <1>6, StepKinds
  <2>2. prior \cup step.resolved \subseteq prior' \cup step'.resolved
    BY <1>1, <2>1, TakesKeeps, OthersKeep
  <2>3. \A c \in AllCalls : Takes(c) => c \in prior' \cup step'.resolved
    BY <1>1, TakesKeeps
  <2>4. released' \subseteq released
    BY <2>1 DEF Takes, Keeps, GuardClears, Ends, CountsOf
  <2>5. \A c \in prior' \cup step'.resolved : c \in prior
            \cup step.resolved \/ (c \in AllCalls /\ at[c] # "new")
    <3>1. \A c \in AllCalls : Takes(c) => at[c] # "new"
      BY DEF Takes
    <3> QED BY <1>1, <2>1, <3>1, TakesKeeps, OthersKeep
  <2>6. \A c \in AllCalls : at'[c] = "done" \/ owed'[c] = "held" => c \in prior' \cup step'.resolved
    BY <1>1, <1>6, <2>2, <2>3, NewlyTaken DEF TakenInTurn
  <2>7. \A c \in prior' \cup step'.resolved \cup released' : at'[c] # "new"
    BY <1>1, <1>2, <1>3, <2>4, <2>5 DEF TakenInTurn
  <2> QED BY <2>6, <2>7 DEF TakenInTurn
<1> QED BY <1>4, <1>5, <1>6

LEMMA StepNext == StepConstants /\ StepInv /\ [StepsNext]_stepsVars => StepInv'
<1> SUFFICES ASSUME StepConstants, StepInv, [StepsNext]_stepsVars
             PROVE  StepInv'
  OBVIOUS
<1>1. StepTypeOK'
  BY TypeNext DEF StepInv, RowsInv, Typed
<1>2. RowsInv'
  BY RowsNext DEF StepInv
<1>3. CountsInv'
  BY StepPartNext, CallsInTurnNext, TakenInTurnNext DEF StepPart, CountsInv
<1> QED BY <1>1, <1>2, <1>3 DEF StepInv

LEMMA StepInit == StepConstants /\ StepsInit => StepInv
<1> SUFFICES ASSUME StepConstants, StepsInit
             PROVE  StepInv
  OBVIOUS
<1>1. NoStep \in Steps /\ NoStep.resolved = {} /\ NoStep.emitted = {} /\ NoStep.unbilled = FALSE
      /\ NoStep.open = FALSE /\ NoStep.listed = NoCount
  BY DEF NoStep, Steps, NoCount
<1>2. StepTypeOK
  BY <1>1 DEF StepsInit, StepTypeOK
<1>3. RowsInv
  BY DEF StepsInit, RowsInv, PumpOfRun, HeldWait, EditsAccounted, EditAccounted, OpenRows,
     AllCalls
<1>4. finish \in Outcomes /\ CountedStepWhole /\ ReleasedStepsUnbilled
  BY DEF StepsInit, Outcomes, CountedStepWhole, ReleasedStepsUnbilled
<1>5. CallsInTurn /\ TakenInTurn
  BY <1>1 DEF StepsInit, CallsInTurn, TakenInTurn
<1>6. OpenStepWaits /\ ReleasedStep /\ CountsGeneration
  BY <1>1 DEF StepsInit, OpenStepWaits, ReleasedStep, CountsGeneration, Counted
<1>7. WholeGenerations
  BY <1>1 DEF StepsInit, WholeGenerations, Whole, Taken, Counted
<1> QED BY <1>2, <1>3, <1>4, <1>5, <1>6, <1>7 DEF StepInv, CountsInv

-----------------------------------------------------------------------------
(* The theorem. *)

\* With calls of one kind each, as many as Cursor makes and in any generations,
\* a step that ends by its count leaves no call of its generation behind; a step
\* of released calls gives the host nothing else; an edit is shown as failed
\* once at most and never beside the host's run of it, and no row stays open for
\* a host that has the step (parallel-step.ts, early-tool-rows.ts).
THEOREM StepsStayCounted ==
    ASSUME StepConstants
    PROVE  StepsSpec => []StepsCounted
<1>1. StepsInit => StepInv
  BY StepInit
<1>2. StepInv /\ [StepsNext]_stepsVars => StepInv'
  BY StepNext
<1>3. StepInv => StepsCounted
  BY DEF StepInv, CountsInv, RowsInv, EditsAccounted, EditAccounted, EarlyRowsAccounted,
     StepsCounted
<1> QED BY <1>1, <1>2, <1>3, PTL DEF StepsSpec

-----------------------------------------------------------------------------
(* Agent switches.                                                           *)

Requests == [id : Nat, agent : Agents \cup {"none"}, owner : Nat]

SwitchTypeOK ==
    /\ run \in Nat /\ stage \in {"none", "open", "cancelled", "over"}
    /\ asked \in Seq(Nat) /\ continued \in Seq(Nat) /\ Len(continued) = Len(asked)
    /\ pending \in Requests /\ applying \in Requests
    /\ endedWell \in SUBSET Nat

\* A Run that is open has a number.
RunCounted == stage = "open" => run # 0

\* A request is on record, and no turn goes on for it yet.
OnRecord(r) == r.id \in DOMAIN asked /\ continued[r.id] = 0

\* The queued switch waits for the Run that asked for it, or came back from
\* a switch that failed after that Run's end.
PendingAccounted ==
    pending # NoRequest =>
        /\ OnRecord(pending)
        /\ IF pending.owner = 0 THEN asked[pending.id] \in endedWell
           ELSE asked[pending.id] = pending.owner

\* The switch under way was asked for by a Run that came to its end.
ApplyingAccounted ==
    applying # NoRequest => OnRecord(applying) /\ asked[applying.id] \in endedWell

\* What is queued during a switch is that switch, or another one.
OneOfEach ==
    pending # NoRequest /\ applying # NoRequest /\ pending.id = applying.id => pending = applying

RequestsInv == SwitchTypeOK /\ RunCounted /\ PendingAccounted /\ ApplyingAccounted /\ OneOfEach

SwitchInv == RequestsInv /\ ContinuedOnce /\ PlanAgentPlans

-----------------------------------------------------------------------------
(* The steps. *)

\* A step that leaves the requests and what they count on keeps them.
LEMMA RequestsUntouched ==
    ASSUME RequestsInv, UNCHANGED <<asked, continued, pending, applying, endedWell>>,
           run' \in Nat, stage' \in {"none", "open", "cancelled", "over"}, RunCounted'
    PROVE  RequestsInv'
BY DEF RequestsInv, SwitchTypeOK, PendingAccounted, ApplyingAccounted, OneOfEach, OnRecord

\* So does one that drops the queued request.
LEMMA PendingDropped ==
    ASSUME RequestsInv, UNCHANGED <<run, stage, asked, continued, applying, endedWell>>,
           pending' = NoRequest
    PROVE  RequestsInv'
<1>1. NoRequest \in Requests
  BY DEF NoRequest, Requests
<1> QED BY <1>1 DEF RequestsInv, SwitchTypeOK, RunCounted, PendingAccounted, ApplyingAccounted, OneOfEach,
                    OnRecord

\* A new request has a number of its own, and the open Run as its owner.
LEMMA QueueKeepsRequests ==
    ASSUME RequestsInv, NEW role, NEW asker, stage = "open", Queue(role, asker),
           UNCHANGED <<run, stage, applying, endedWell>>
    PROVE  RequestsInv' /\ (ContinuedOnce => ContinuedOnce')
<1> DEFINE n == Len(asked) + 1
           r == [id |-> n, agent |-> AgentFor(role), owner |-> run]
<1>0. SwitchTypeOK /\ RunCounted /\ PendingAccounted /\ ApplyingAccounted /\ OneOfEach
  BY DEF RequestsInv
<1>1. CASE UNCHANGED <<pending, asked, continued>>
  <2>1. RunCounted'
    BY <1>0 DEF RunCounted
  <2> QED BY <1>0, <1>1, <2>1, RequestsUntouched DEF SwitchTypeOK, ContinuedOnce
<1>2. CASE pending' = r /\ asked' = Append(asked, run) /\ continued' = Append(continued, 0)
  <2>1. /\ run \in Nat \ {0} /\ n \in Nat \ {0}
        /\ asked \in Seq(Nat) /\ continued \in Seq(Nat) /\ Len(continued) = Len(asked)
    BY <1>0 DEF SwitchTypeOK, RunCounted
  <2>2. /\ asked' \in Seq(Nat) /\ continued' \in Seq(Nat)
        /\ DOMAIN asked = 1..n - 1 /\ DOMAIN asked' = 1..n /\ DOMAIN continued' = 1..n
        /\ DOMAIN continued = 1..n - 1
        /\ Len(asked') = n /\ Len(continued') = n
        /\ asked'[n] = run /\ continued'[n] = 0
        /\ \A i \in 1..n - 1 : asked'[i] = asked[i] /\ continued'[i] = continued[i]
    BY <1>2, <2>1
  <2>3. r \in Requests /\ r.id = n /\ r.owner = run
    BY <2>1 DEF Requests, AgentFor, Agents
  <2> HIDE DEF r
  <2> HIDE DEF n
  <2>4. SwitchTypeOK'
    BY <1>0, <1>2, <2>2, <2>3 DEF SwitchTypeOK
  <2>5. PendingAccounted'
    BY <1>2, <2>1, <2>2, <2>3 DEF PendingAccounted, OnRecord
  <2>6. applying # NoRequest => applying.id \in 1..n - 1
    BY <1>0, <2>2 DEF ApplyingAccounted, OnRecord
  <2>7. ApplyingAccounted'
    BY <1>0, <2>1, <2>2, <2>6 DEF ApplyingAccounted, OnRecord
  <2>8. OneOfEach'
    BY <1>2, <2>1, <2>3, <2>6 DEF OneOfEach
  <2>9. ContinuedOnce => ContinuedOnce'
    BY <2>1, <2>2 DEF ContinuedOnce
  <2> QED BY <1>0, <2>4, <2>5, <2>7, <2>8, <2>9 DEF RequestsInv, RunCounted
<1> QED BY <1>1, <1>2 DEF Queue

\* The end of a Run flushes what it asked for, and no other Run's request.
LEMMA RunEndsKeepsRequests ==
    ASSUME RequestsInv, RunEnds
    PROVE  RequestsInv' /\ (ContinuedOnce => ContinuedOnce')
<1>0. SwitchTypeOK /\ RunCounted /\ PendingAccounted /\ ApplyingAccounted /\ OneOfEach
  BY DEF RequestsInv
<1>1. /\ stage' = "over" /\ endedWell' = endedWell \cup {run}
      /\ UNCHANGED <<run, asked, continued>>
  BY DEF RunEnds
<1>2. \/ UNCHANGED <<pending, applying>>
      \/ pending' = NoRequest /\ UNCHANGED applying
      \/ pending # NoRequest /\ ~Stale /\ applying' = pending /\ UNCHANGED pending
  BY DEF RunEnds
<1>3. NoRequest \in Requests
  BY DEF NoRequest, Requests
<1>4. SwitchTypeOK' /\ RunCounted'
  BY <1>0, <1>1, <1>2, <1>3 DEF SwitchTypeOK, RunCounted
<1>5. PendingAccounted'
  BY <1>0, <1>1, <1>2 DEF PendingAccounted, OnRecord
<1>6. ApplyingAccounted'
  BY <1>0, <1>1, <1>2 DEF PendingAccounted, ApplyingAccounted, OnRecord, Stale
<1>7. OneOfEach'
  BY <1>0, <1>2 DEF OneOfEach
<1> QED BY <1>1, <1>4, <1>5, <1>6, <1>7 DEF RequestsInv, ContinuedOnce

\* The turn of a switch is started once, and the switch is over.
LEMMA ContinuesKeepsRequests ==
    ASSUME RequestsInv, ContinuedOnce, Continues
    PROVE  RequestsInv' /\ ContinuedOnce'
<1>0. SwitchTypeOK /\ RunCounted /\ PendingAccounted /\ ApplyingAccounted /\ OneOfEach
  BY DEF RequestsInv
<1>1. /\ applying # NoRequest /\ applying' = NoRequest
      /\ continued' = [continued EXCEPT ![applying.id] = continued[applying.id] + 1]
      /\ pending' = IF pending = applying THEN NoRequest ELSE pending
      /\ UNCHANGED <<run, stage, asked, endedWell>>
  BY DEF Continues, AfterSwitch
<1>2. /\ applying.id \in DOMAIN continued /\ continued[applying.id] = 0
      /\ DOMAIN continued = DOMAIN asked
  BY <1>0, <1>1 DEF SwitchTypeOK, ApplyingAccounted, OnRecord
<1>3. /\ continued' \in Seq(Nat) /\ Len(continued') = Len(continued)
      /\ continued'[applying.id] = 1
      /\ \A i \in DOMAIN continued \ {applying.id} : continued'[i] = continued[i]
      /\ DOMAIN continued' = DOMAIN continued
  BY <1>0, <1>1, <1>2 DEF SwitchTypeOK
<1>4. NoRequest \in Requests
  BY DEF NoRequest, Requests
<1>5. SwitchTypeOK' /\ RunCounted'
  BY <1>0, <1>1, <1>3, <1>4 DEF SwitchTypeOK, RunCounted
<1>6. pending' # NoRequest => pending' = pending /\ pending.id # applying.id
  BY <1>0, <1>1 DEF OneOfEach
<1>7. PendingAccounted'
  BY <1>0, <1>1, <1>2, <1>3, <1>6 DEF PendingAccounted, OnRecord
<1>8. ApplyingAccounted' /\ OneOfEach'
  BY <1>1 DEF ApplyingAccounted, OneOfEach
<1>9. ContinuedOnce'
  BY <1>3 DEF ContinuedOnce
<1> QED BY <1>5, <1>7, <1>8, <1>9 DEF RequestsInv

\* A switch that failed waits for a later end, with its own Run's end on record.
LEMMA SwitchFailsKeepsRequests ==
    ASSUME RequestsInv, SwitchFails
    PROVE  RequestsInv' /\ (ContinuedOnce => ContinuedOnce')
<1> DEFINE freed == [pending EXCEPT !.owner = 0]
<1>0. SwitchTypeOK /\ RunCounted /\ PendingAccounted /\ ApplyingAccounted /\ OneOfEach
  BY DEF RequestsInv
<1>1. /\ applying # NoRequest /\ applying' = NoRequest
      /\ pending' = IF pending = applying THEN freed ELSE pending
      /\ UNCHANGED <<run, stage, asked, endedWell, continued>>
  BY DEF SwitchFails, AfterFailure
<1>2. NoRequest \in Requests
  BY DEF NoRequest, Requests
<1>3. freed \in Requests /\ freed.id = pending.id /\ freed.owner = 0
  BY <1>0 DEF SwitchTypeOK, Requests
<1> HIDE DEF freed
<1>4. SwitchTypeOK' /\ RunCounted'
  BY <1>0, <1>1, <1>2, <1>3 DEF SwitchTypeOK, RunCounted
<1>5. PendingAccounted'
  BY <1>0, <1>1, <1>3 DEF PendingAccounted, ApplyingAccounted, OnRecord
<1>6. ApplyingAccounted' /\ OneOfEach'
  BY <1>1 DEF ApplyingAccounted, OneOfEach
<1> QED BY <1>1, <1>4, <1>5, <1>6 DEF RequestsInv, ContinuedOnce

\* The other steps ask for nothing, or forget what was asked.
LEMMA RequestsNext ==
    ASSUME RequestsInv, ContinuedOnce, [Next]_vars
    PROVE  RequestsInv' /\ ContinuedOnce'
<1>0. SwitchTypeOK /\ RunCounted
  BY DEF RequestsInv
<1>1. ASSUME UNCHANGED <<asked, continued, pending, applying, endedWell>>,
             \/ UNCHANGED <<run, stage>>
             \/ run' = run + 1
             \/ run' = run /\ stage' \in {"cancelled", "over"},
             stage' \in {"none", "open", "cancelled", "over"}
      PROVE  RequestsInv' /\ ContinuedOnce'
  <2>1. run' \in Nat /\ RunCounted'
    BY <1>0, <1>1 DEF SwitchTypeOK, RunCounted
  <2> QED BY <1>1, <2>1, RequestsUntouched DEF ContinuedOnce
<1>2. ASSUME UNCHANGED <<run, stage, asked, continued, applying, endedWell>>,
             pending' \in {pending, NoRequest}
      PROVE  RequestsInv' /\ ContinuedOnce'
  <2>1. CASE pending' = NoRequest
    BY <1>2, <2>1, PendingDropped DEF ContinuedOnce
  <2>2. CASE pending' = pending
    BY <1>0, <1>1, <1>2, <2>2 DEF SwitchTypeOK
  <2> QED BY <1>2, <2>1, <2>2
<1>3. ASSUME NEW s \in Setups, Installs(s) \/ Disposes(s)
      PROVE  RequestsInv' /\ ContinuedOnce'
  BY <1>2, <1>3 DEF Installs, Disposes, unmoved
<1>4. ASSUME NEW a \in Agents, UserSelects(a)
      PROVE  RequestsInv' /\ ContinuedOnce'
  BY <1>2, <1>4 DEF UserSelects, unmoved
<1>5. CASE Opens
  BY <1>1, <1>5 DEF Opens, unmoved
<1>6. CASE Cancels
  BY <1>1, <1>6 DEF Cancels, unmoved
<1>7. CASE RunFails
  BY <1>1, <1>7 DEF RunFails, unmoved
<1>8. CASE Answered
  BY <1>2, <1>8 DEF Answered, unmoved
<1>9. CASE PlanApproved
  BY <1>9, QueueKeepsRequests DEF PlanApproved
<1>10. ASSUME NEW k, CallsTool(k)
       PROVE  RequestsInv' /\ ContinuedOnce'
  BY <1>2, <1>10 DEF CallsTool, unmoved
<1>11. ASSUME NEW r \in Roles, SwitchModeApproved(r)
       PROVE  RequestsInv' /\ ContinuedOnce'
  BY <1>11, QueueKeepsRequests DEF SwitchModeApproved, Working
<1>12. ASSUME NEW r \in Roles, SwitchModeNative(r) \/ NativeApproved(r)
       PROVE  RequestsInv' /\ ContinuedOnce'
  BY <1>2, <1>12 DEF SwitchModeNative, NativeApproved, unmoved
<1>13. CASE SelectsAgent
  BY <1>2, <1>13 DEF SelectsAgent
<1>14. CASE Deleted
  BY <1>2, <1>14 DEF Deleted, unmoved
<1>15. CASE UNCHANGED vars
  BY <1>2, <1>15 DEF vars
<1> QED BY <1>3, <1>4, <1>5, <1>6, <1>7, <1>8, <1>9, <1>10, <1>11, <1>12, <1>13, <1>14, <1>15,
           RunEndsKeepsRequests, ContinuesKeepsRequests, SwitchFailsKeepsRequests DEF Next

-----------------------------------------------------------------------------
\* A bridge that tells Cursor to implement under the plan agent has told it so
\* before, in the same Run.
LEMMA BridgeAsksUser ==
    ASSUME NEW denied \in BOOLEAN, Bridge("implement", denied) = "approve", runAgent = "plan"
    PROVE  mode.role = "implement"
BY DEF Bridge

\* No step makes Cursor implement under the plan agent without the user's word.
LEMMA PlanAgentNext ==
    ASSUME PlanAgentPlans, [Next]_vars
    PROVE  PlanAgentPlans'
<1>1. ASSUME UNCHANGED <<run, runAgent, mode, approvedIn>>, stage' # "open" \/ stage = "open"
      PROVE  PlanAgentPlans'
  BY <1>1 DEF PlanAgentPlans
<1>2. ASSUME NEW s \in Setups, Installs(s) \/ Disposes(s)
      PROVE  PlanAgentPlans'
  BY <1>1, <1>2 DEF Installs, Disposes
<1>3. ASSUME NEW a \in Agents, UserSelects(a)
      PROVE  PlanAgentPlans'
  BY <1>1, <1>3 DEF UserSelects
<1>4. CASE Opens
  <2>1. CASE agent = "plan"
    <3>1. mode'.role # "implement"
      BY <1>4, <2>1 DEF Opens, Followed
    <3> QED BY <3>1 DEF PlanAgentPlans
  <2>2. CASE agent # "plan"
    BY <1>4, <2>2 DEF Opens, PlanAgentPlans
  <2> QED BY <2>1, <2>2
<1>5. CASE Cancels \/ RunEnds \/ RunFails
  BY <1>5 DEF Cancels, RunEnds, RunFails, PlanAgentPlans
<1>6. CASE Answered
  BY <1>1, <1>6 DEF Answered
<1>7. CASE PlanApproved
  BY <1>7 DEF PlanApproved, PlanAgentPlans
<1>8. ASSUME NEW k, CallsTool(k)
      PROVE  PlanAgentPlans'
  BY <1>1, <1>8 DEF CallsTool
<1>9. ASSUME NEW r \in Roles, SwitchModeApproved(r)
      PROVE  PlanAgentPlans'
  <2>1. mode' = [role |-> r, bridged |-> FALSE] /\ UNCHANGED <<run, stage, runAgent, approvedIn>>
    BY <1>9 DEF SwitchModeApproved
  <2>2. mode'.role = r
    BY <2>1
  <2>3. CASE r = "implement" /\ runAgent = "plan"
    <3>1. mode.role = "implement"
      BY <1>9, <2>3, BridgeAsksUser DEF SwitchModeApproved
    <3> QED BY <2>1, <3>1 DEF PlanAgentPlans
  <2> QED BY <2>1, <2>2, <2>3 DEF PlanAgentPlans
<1>10. ASSUME NEW r \in Roles, SwitchModeNative(r)
       PROVE  PlanAgentPlans'
  BY <1>1, <1>10 DEF SwitchModeNative
<1>11. ASSUME NEW r \in Roles, NativeApproved(r)
       PROVE  PlanAgentPlans'
  <2>1. mode'.role = r
    BY <1>11 DEF NativeApproved
  <2> QED BY <1>11, <2>1 DEF NativeApproved, PlanAgentPlans
<1>12. CASE SelectsAgent \/ Continues \/ SwitchFails
  BY <1>1, <1>12 DEF SelectsAgent, Continues, SwitchFails
<1>13. CASE Deleted
  BY <1>13 DEF Deleted, PlanAgentPlans
<1>14. CASE UNCHANGED vars
  BY <1>1, <1>14 DEF vars
<1> QED BY <1>2, <1>3, <1>4, <1>5, <1>6, <1>7, <1>8, <1>9, <1>10, <1>11, <1>12, <1>13, <1>14 DEF Next

\* Nothing is asked for at first.
LEMMA SwitchInit == Init => SwitchInv
<1> SUFFICES ASSUME Init
             PROVE  SwitchInv
  OBVIOUS
<1>1. NoRequest \in Requests /\ pending = NoRequest /\ applying = NoRequest
  BY DEF Init, NoRequest, Requests
<1>2. RequestsInv
  BY <1>1 DEF Init, RequestsInv, SwitchTypeOK, RunCounted, PendingAccounted, ApplyingAccounted,
     OneOfEach
<1>3. ContinuedOnce /\ PlanAgentPlans
  BY DEF Init, ContinuedOnce, PlanAgentPlans
<1> QED BY <1>2, <1>3 DEF SwitchInv

\* Every step keeps the invariant.
LEMMA SwitchNext == SwitchInv /\ [Next]_vars => SwitchInv'
BY RequestsNext, PlanAgentNext DEF SwitchInv

\* A request switches the agent for at most one turn, never once its Run was
\* superseded or failed, and Cursor implements under the plan agent only by
\* the user's word.
THEOREM AgentSwitchedOnce == Spec => []SwitchesOnce
<1>1. SwitchInv => SwitchesOnce
  BY DEF SwitchInv, RequestsInv, ApplyingAccounted, SwitchesOnce, NoStaleSwitch
<1> QED BY <1>1, SwitchInit, SwitchNext, PTL DEF Spec

-----------------------------------------------------------------------------
(* Spills.                                                                   *)

Locked == [id : Nat \ {0}, by : Processes \cup {NoProcess}, fresh : BOOLEAN]

SpillTypeOK ==
    /\ alive \in SUBSET Processes
    /\ pc \in [Processes -> {"idle", "lock", "stamp", "check", "remove", "count", "write", "rename", "release"}]
    /\ target \in [Processes -> Files] /\ tries \in [Processes -> Nat]
    /\ seen \in [Processes -> Nat] /\ mine \in [Processes -> Nat]
    /\ lock \in Locked \cup {NoLock}
    /\ temps \in SUBSET Processes /\ spills \in SUBSET Files /\ IsFiniteSet(spills)
    /\ locks \in Nat

\* A writer past its lock, from the file it made to the file it removes.
Inside(p) == p \in alive /\ pc[p] \in {"stamp", "count", "write", "rename", "release"}

\* Locks are numbered as they are made.
LocksNumbered ==
    /\ lock.id <= locks
    /\ \A p \in Processes : seen[p] <= locks /\ mine[p] <= locks

\* A writer past its lock holds it, and it shows that.
LockHeld ==
    \A p \in Processes : Inside(p) =>
        /\ lock # NoLock /\ lock.id = mine[p]
        /\ IF pc[p] = "stamp" THEN lock.by = NoProcess /\ lock.fresh ELSE lock.by = p

\* One writer at a time is past the lock.
OneInside == \A p, q \in Processes : Inside(p) /\ Inside(q) => p = q

\* A lock that was taken for abandoned is, as long as it is there; the one to be
\* removed is there.
AbandonedStays ==
    \A p \in alive : pc[p] \in {"check", "remove"} =>
        /\ seen[p] # 0
        /\ lock.id = seen[p] => ~Busy
        /\ pc[p] = "remove" => lock.id = seen[p]

\* The file about to be written has its place.
RoomForOne ==
    \A p \in Processes : Inside(p) /\ pc[p] \in {"write", "rename"}
          => Cardinality(spills \ {target[p]}) < MaxFiles

SpillInv ==
    /\ SpillTypeOK /\ LocksNumbered /\ LockHeld /\ OneInside /\ AbandonedStays /\ RoomForOne
    /\ TemporaryKept /\ LimitKept

\* What a file more, or one less, makes of the store's count.
LEMMA SpillCounts ==
    ASSUME IsFiniteSet(spills), NEW f
    PROVE  /\ IsFiniteSet(spills \ {f}) /\ Cardinality(spills \ {f}) \in Nat
           /\ Cardinality(spills) \in Nat /\ Cardinality(spills \ {f}) <= Cardinality(spills)
           /\ IsFiniteSet(spills \cup {f})
           /\ Cardinality(spills \cup {f}) <= Cardinality(spills \ {f}) + 1
<1>1. IsFiniteSet(spills \ {f}) /\ Cardinality(spills \ {f}) <= Cardinality(spills)
  BY FS_Subset
<1>2. Cardinality(spills \ {f}) \in Nat /\ Cardinality(spills) \in Nat
  BY <1>1, FS_CardinalityType
<1>3. spills \cup {f} = (spills \ {f}) \cup {f} /\ f \notin spills \ {f}
  OBVIOUS
<1>4. IsFiniteSet((spills \ {f}) \cup {f}) /\ Cardinality((spills \ {f})
          \cup {f}) = Cardinality(spills \ {f}) + 1
  BY <1>1, <1>3, FS_AddElement
<1> QED BY <1>1, <1>2, <1>3, <1>4

\* A step of one writer that leaves the lock and the store alone, and does not
\* take it past the lock, keeps the invariant.
LEMMA SpillStays ==
    ASSUME SpillInv, SpillTypeOK', NEW p \in Processes,
           UNCHANGED <<alive, mine, lock, temps, spills, locks>>,
           \A q \in Processes \ {p} : pc'[q] = pc[q] /\ seen'[q] = seen[q] /\ target'[q] = target[q],
           pc'[p] \in {"idle", "lock", "check", "remove", "release"},
           pc'[p] = "release" => Inside(p) /\ pc[p] # "stamp",
           seen'[p] <= locks,
           pc'[p] \in {"check", "remove"} => seen'[p] # 0 /\ (lock.id = seen'[p] => ~Busy),
           pc'[p] = "remove" => lock.id = seen'[p]
    PROVE  SpillInv'
<1> USE DEF SpillInv
<1>1. \A q \in Processes : Inside(q)'
          => Inside(q) /\ ((pc'[q] = pc[q] /\ target'[q] = target[q]) \/ (q = p /\ pc'[p] = "release"))
  BY DEF Inside
<1>2. LocksNumbered'
  BY DEF LocksNumbered, SpillTypeOK
<1>3. LockHeld'
  BY <1>1 DEF LockHeld, Inside
<1>4. OneInside'
  BY <1>1 DEF OneInside
<1>5. Busy' = Busy
  BY DEF Busy
<1>6. AbandonedStays'
  BY <1>5 DEF AbandonedStays, SpillTypeOK
<1>7. RoomForOne'
  BY <1>1 DEF RoomForOne
<1>8. TemporaryKept' /\ LimitKept'
  BY DEF TemporaryKept, LimitKept, SpillTypeOK
<1> QED BY <1>2, <1>3, <1>4, <1>6, <1>7, <1>8

LEMMA StartsSpill == ASSUME SpillInv, NEW p \in Processes, NEW f \in Files, Starts(p, f) PROVE SpillInv'
<1>1. SpillTypeOK'
  BY DEF SpillInv, SpillTypeOK, Starts, Advances
<1> QED BY <1>1, SpillStays DEF SpillInv, SpillTypeOK, LocksNumbered, Starts, Advances

LEMMA InspectsSpill == ASSUME SpillInv, NEW p \in Processes, Inspects(p) PROVE SpillInv'
<1>1. SpillTypeOK'
  BY DEF SpillInv, SpillTypeOK, Inspects, Advances, Locked
<1>2. seen'[p] = lock.id /\ lock.id \in Nat \ {0} /\ pc'[p] \in {"idle", "check"} /\ (pc'[p] = "check" => ~Busy)
  BY DEF SpillInv, SpillTypeOK, Inspects, Advances, Locked
<1> QED BY <1>1, <1>2, SpillStays DEF SpillInv, SpillTypeOK, LocksNumbered, Inspects, Advances

LEMMA ChecksSpill == ASSUME SpillInv, NEW p \in Processes, ChecksAgain(p) PROVE SpillInv'
<1>1. SpillTypeOK'
  BY DEF SpillInv, SpillTypeOK, ChecksAgain, Advances
<1> QED BY <1>1, SpillStays DEF SpillInv, SpillTypeOK, LocksNumbered, AbandonedStays, ChecksAgain,
           Advances, Unchanged

LEMMA GivesUpSpill == ASSUME SpillInv, NEW p \in Processes, GivesUp(p) PROVE SpillInv'
<1>1. SpillTypeOK'
  BY DEF SpillInv, SpillTypeOK, GivesUp, Advances
<1> QED BY <1>1, SpillStays DEF SpillInv, SpillTypeOK, LocksNumbered, GivesUp, Advances

\* A lock is made where there is none, so nobody is past one.
LEMMA CreatesSpill ==
    ASSUME SpillConstants, SpillInv, NEW p \in Processes, Creates(p), ~Removing(p), ~Interrupted
    PROVE  SpillInv'
<1> USE DEF SpillInv
<1>1. /\ lock = NoLock /\ p \in alive /\ pc[p] = "lock" /\ locks \in Nat
      /\ lock' = [id |-> locks + 1, by |-> NoProcess, fresh |-> TRUE]
      /\ pc' = [pc EXCEPT ![p] = "stamp"] /\ mine' = [mine EXCEPT ![p] = locks + 1] /\ locks' = locks + 1
      /\ UNCHANGED <<alive, target, tries, seen, temps, spills>>
  BY DEF Creates, Advances, SpillTypeOK
<1>2. SpillTypeOK'
  BY <1>1 DEF SpillTypeOK, Locked
<1>3. \A q \in Processes : ~Inside(q)
  BY <1>1 DEF LockHeld
<1>4. \A q \in Processes : Inside(q)' => q = p
  BY <1>1, <1>3 DEF Inside, SpillTypeOK
<1>5. LocksNumbered'
  BY <1>1 DEF LocksNumbered, SpillTypeOK
<1>6. LockHeld'
  BY <1>1, <1>4 DEF LockHeld, SpillTypeOK, NoLock
<1>7. OneInside'
  BY <1>4 DEF OneInside
<1>8. AbandonedStays'
  <2> SUFFICES ASSUME NEW q \in alive', pc'[q] \in {"check", "remove"}
               PROVE  seen'[q] # 0 /\ lock'.id # seen'[q] /\ pc'[q] # "remove"
    BY DEF AbandonedStays
  <2>1. q # p /\ q \in alive /\ q \in Processes /\ pc[q] = pc'[q] /\ seen[q] <= locks /\ seen[q] \in Nat
    BY <1>1 DEF SpillTypeOK, LocksNumbered
  <2>2. pc[q] # "remove"
    BY <2>1 DEF Removing
  <2> QED BY <1>1, <2>1, <2>2 DEF AbandonedStays
<1>9. RoomForOne' /\ TemporaryKept' /\ LimitKept'
  BY <1>1, <1>4 DEF RoomForOne, TemporaryKept, LimitKept, SpillTypeOK
<1> QED BY <1>2, <1>5, <1>6, <1>7, <1>8, <1>9

\* A lock that is removed as abandoned is nobody's.
LEMMA RemovesSpill ==
    ASSUME SpillConstants, SpillInv, NEW p \in Processes, Removes(p), ~Removing(p), ~Interrupted
    PROVE  SpillInv'
<1> USE DEF SpillInv
<1>1. /\ p \in alive /\ pc[p] = "remove" /\ lock.id = seen[p] /\ seen[p] # 0 /\ ~Busy
      /\ lock' = NoLock /\ pc'[p] \in {"idle", "lock"} /\ pc' = [pc EXCEPT ![p] = pc'[p]]
      /\ tries' = [tries EXCEPT ![p] = @ + 1]
      /\ UNCHANGED <<alive, target, seen, mine, temps, spills, locks>>
  BY DEF Removes, Advances, AbandonedStays, SpillTypeOK
<1>2. SpillTypeOK'
  BY <1>1 DEF SpillTypeOK
<1>3. \A q \in Processes : ~Inside(q)
  BY <1>1 DEF LockHeld, Busy, Inside
<1>4. \A q \in Processes : ~Inside(q)'
  BY <1>1, <1>3 DEF Inside, SpillTypeOK
<1>5. LocksNumbered'
  BY <1>1 DEF LocksNumbered, SpillTypeOK, NoLock
<1>6. AbandonedStays'
  <2> SUFFICES ASSUME NEW q \in alive', pc'[q] \in {"check", "remove"}
               PROVE  seen'[q] # 0 /\ lock'.id # seen'[q] /\ pc'[q] # "remove"
    BY DEF AbandonedStays
  <2>1. q # p /\ q \in alive /\ q \in Processes /\ pc[q] = pc'[q]
    BY <1>1 DEF SpillTypeOK
  <2>2. pc[q] # "remove"
    BY <2>1 DEF Removing
  <2> QED BY <1>1, <2>1, <2>2 DEF AbandonedStays, NoLock
<1>7. LockHeld' /\ OneInside' /\ RoomForOne' /\ TemporaryKept' /\ LimitKept'
  BY <1>1, <1>4 DEF LockHeld, OneInside, RoomForOne, TemporaryKept, LimitKept, Inside, SpillTypeOK
<1> QED BY <1>2, <1>5, <1>6, <1>7

\* The file a writer stamps is its own.
LEMMA StampsSpill ==
    ASSUME SpillConstants, SpillInv, NEW p \in Processes, Stamps(p)
    PROVE  SpillInv'
<1> USE DEF SpillInv
<1>1. /\ Inside(p) /\ pc[p] = "stamp" /\ lock # NoLock /\ lock.id = mine[p] /\ Busy
      /\ lock \in Locked /\ lock' = [lock EXCEPT !.by = p]
      /\ pc' = [pc EXCEPT ![p] = "count"] /\ UNCHANGED <<alive, target, tries, seen, mine, temps,
                                                         spills, locks>>
  BY DEF Stamps, Advances, LockHeld, Inside, Busy, SpillTypeOK
<1>2. lock' \in Locked /\ lock'.id = lock.id /\ lock'.by = p /\ lock' # NoLock
  BY <1>1 DEF Locked, NoLock
<1>3. SpillTypeOK'
  BY <1>1, <1>2 DEF SpillTypeOK
<1>4. \A q \in Processes : Inside(q)' => q = p
  BY <1>1 DEF OneInside, Inside, SpillTypeOK
<1>5. LocksNumbered'
  BY <1>1, <1>2 DEF LocksNumbered
<1>6. LockHeld'
  BY <1>1, <1>2, <1>4 DEF LockHeld, SpillTypeOK
<1>7. AbandonedStays'
  BY <1>1, <1>2 DEF AbandonedStays, SpillTypeOK
<1>8. OneInside' /\ RoomForOne' /\ TemporaryKept' /\ LimitKept'
  BY <1>1, <1>4 DEF OneInside, RoomForOne, TemporaryKept, LimitKept, SpillTypeOK
<1> QED BY <1>3, <1>5, <1>6, <1>7, <1>8

\* A step of the one writer past the lock that keeps the lock and what its own
\* next step needs keeps the invariant.
LEMMA InsideStays ==
    ASSUME SpillInv, SpillTypeOK', NEW p \in Processes, Inside(p), pc[p] # "stamp",
           UNCHANGED <<alive, target, seen, mine, lock, locks>>,
           \A q \in Processes \ {p} : pc'[q] = pc[q],
           pc'[p] \in {"write", "rename", "release"},
           pc'[p] \in {"write", "rename"} => Cardinality(spills' \ {target[p]}) < MaxFiles,
           pc'[p] = "rename" => p \in temps',
           LimitKept'
    PROVE  SpillInv'
<1> USE DEF SpillInv
<1>1. \A q \in Processes : Inside(q)' => q = p
  BY DEF OneInside, Inside
<1>2. LocksNumbered'
  BY DEF LocksNumbered
<1>3. LockHeld'
  BY <1>1 DEF LockHeld
<1>4. OneInside'
  BY <1>1 DEF OneInside
<1>5. Busy' = Busy
  BY DEF Busy
<1>6. AbandonedStays'
  BY <1>5 DEF AbandonedStays, SpillTypeOK
<1>7. RoomForOne'
  BY <1>1 DEF RoomForOne
<1>8. TemporaryKept'
  BY <1>1 DEF TemporaryKept, Inside, SpillTypeOK
<1> QED BY <1>2, <1>3, <1>4, <1>6, <1>7, <1>8

LEMMA CountsSpill ==
    ASSUME SpillConstants, SpillInv, NEW p \in Processes, Counts(p) PROVE SpillInv'
<1>1. SpillTypeOK' /\ IsFiniteSet(spills) /\ target[p] \in Files
  BY DEF SpillInv, SpillTypeOK, Counts, Advances
<1>2. Inside(p) /\ pc[p] = "count" /\ LimitKept'
  BY DEF SpillInv, Inside, Counts, Advances, LimitKept
<1>3. Cardinality(spills \ {target[p]}) \in Nat
  BY <1>1, SpillCounts
<1>4. pc'[p] \in {"write", "release"} /\ (pc'[p] = "write" => Cardinality(spills \ {target[p]}) < MaxFiles)
  BY <1>3 DEF SpillInv, SpillTypeOK, Counts, Advances, Full, SpillConstants
<1>5. \A q \in Processes \ {p} : pc'[q] = pc[q]
  BY DEF SpillInv, SpillTypeOK, Counts, Advances
<1>6. UNCHANGED <<alive, target, seen, mine, lock, locks, spills>>
  BY DEF Counts
<1> QED BY <1>1, <1>2, <1>4, <1>5, <1>6, InsideStays

LEMMA WritesSpill == ASSUME SpillInv, NEW p \in Processes, WritesTemporary(p) PROVE SpillInv'
<1>1. SpillTypeOK'
  BY DEF SpillInv, SpillTypeOK, WritesTemporary, Advances
<1>2. Inside(p) /\ pc[p] = "write" /\ LimitKept' /\ Cardinality(spills \ {target[p]}) < MaxFiles
  BY DEF SpillInv, Inside, WritesTemporary, Advances, LimitKept, RoomForOne
<1>3. pc'[p] = "rename" /\ p \in temps' /\ \A q \in Processes \ {p} : pc'[q] = pc[q]
  BY DEF SpillInv, SpillTypeOK, WritesTemporary, Advances
<1>4. UNCHANGED <<alive, target, seen, mine, lock, locks, spills>>
  BY DEF WritesTemporary
<1> QED BY <1>1, <1>2, <1>3, <1>4, InsideStays

LEMMA RenamesSpill ==
    ASSUME SpillConstants, SpillInv, NEW p \in Processes, Renames(p) PROVE SpillInv'
<1>1. /\ Inside(p) /\ pc[p] = "rename" /\ IsFiniteSet(spills) /\ target[p] \in Files
      /\ Cardinality(spills \ {target[p]}) < MaxFiles /\ Cardinality(spills) <= MaxFiles
  BY DEF SpillInv, SpillTypeOK, Inside, Renames, Advances, LimitKept, RoomForOne
<1>2. /\ Cardinality(spills \ {target[p]}) \in Nat /\ IsFiniteSet(spills \cup {target[p]})
      /\ Cardinality(spills \cup {target[p]}) <= Cardinality(spills \ {target[p]}) + 1
      /\ Cardinality(spills \cup {target[p]}) \in Nat
  BY <1>1, SpillCounts, FS_CardinalityType
<1>3. spills' \in {spills, spills \cup {target[p]}}
  BY DEF Renames
<1>4. SpillTypeOK'
  <2>1. IsFiniteSet(spills') /\ spills' \in SUBSET Files
    BY <1>1, <1>2, <1>3 DEF SpillInv, SpillTypeOK
  <2> QED BY <2>1 DEF SpillInv, SpillTypeOK, Renames, Advances
<1>5. LimitKept'
  BY <1>1, <1>2, <1>3 DEF LimitKept, SpillConstants
<1>6. pc'[p] = "release" /\ \A q \in Processes \ {p} : pc'[q] = pc[q]
  BY DEF SpillInv, SpillTypeOK, Renames, Advances
<1>7. UNCHANGED <<alive, target, seen, mine, lock, locks>>
  BY DEF Renames
<1> QED BY <1>1, <1>4, <1>5, <1>6, <1>7, InsideStays

\* A writer done removes its own lock.
LEMMA UnlocksSpill == ASSUME SpillInv, NEW p \in Processes, Unlocks(p) PROVE SpillInv'
<1> USE DEF SpillInv
<1>1. /\ Inside(p) /\ pc[p] = "release" /\ lock # NoLock /\ lock.id = mine[p] /\ lock.by = p /\ p \in alive
      /\ lock' = NoLock /\ pc' = [pc EXCEPT ![p] = "idle"]
      /\ UNCHANGED <<alive, target, tries, seen, mine, temps, spills, locks>>
  BY DEF Unlocks, Unlocked, Advances, LockHeld, Inside, SpillTypeOK
<1>2. SpillTypeOK'
  BY <1>1 DEF SpillTypeOK
<1>3. \A q \in Processes : ~Inside(q)'
  BY <1>1 DEF OneInside, Inside, SpillTypeOK
<1>4. LocksNumbered'
  BY <1>1 DEF LocksNumbered, SpillTypeOK, NoLock
<1>5. AbandonedStays'
  <2> SUFFICES ASSUME NEW q \in alive', pc'[q] \in {"check", "remove"}
               PROVE  seen'[q] # 0 /\ lock'.id # seen'[q] /\ pc'[q] # "remove"
    BY DEF AbandonedStays
  <2>1. q \in alive /\ pc[q] = pc'[q] /\ seen[q] # 0
    BY <1>1 DEF SpillTypeOK, AbandonedStays
  <2>2. pc[q] # "remove"
    BY <1>1, <2>1 DEF AbandonedStays, Busy
  <2> QED BY <1>1, <2>1, <2>2 DEF NoLock
<1>6. LockHeld' /\ OneInside' /\ RoomForOne' /\ TemporaryKept' /\ LimitKept'
  BY <1>1, <1>3 DEF LockHeld, OneInside, RoomForOne, TemporaryKept, LimitKept, Inside, SpillTypeOK
<1> QED BY <1>2, <1>4, <1>5, <1>6

\* A step of the store's files only, to no more of them, keeps the invariant.
LEMMA StoreShrinks ==
    ASSUME SpillConstants, SpillInv, UNCHANGED <<alive, writer, lock, temps, locks>>,
                                                 spills' \in SUBSET spills
    PROVE  SpillInv'
<1> USE DEF SpillInv
<1>1. IsFiniteSet(spills') /\ Cardinality(spills') <= Cardinality(spills) /\ Cardinality(spills') \in Nat
      /\ Cardinality(spills) \in Nat
  BY FS_Subset, FS_CardinalityType DEF SpillTypeOK
<1>2. SpillTypeOK'
  BY <1>1 DEF SpillTypeOK, writer
<1>3. LimitKept'
  BY <1>1 DEF LimitKept, SpillConstants
<1>4. RoomForOne'
  <2> SUFFICES ASSUME NEW p \in Processes, Inside(p), pc[p] \in {"write", "rename"}
               PROVE  Cardinality(spills' \ {target[p]}) < MaxFiles
    BY DEF RoomForOne, Inside, writer
  <2>1. spills' \ {target[p]} \in SUBSET (spills \ {target[p]}) /\ IsFiniteSet(spills \ {target[p]})
    BY FS_Subset DEF SpillTypeOK
  <2>2. /\ Cardinality(spills' \ {target[p]}) <= Cardinality(spills \ {target[p]})
        /\ Cardinality(spills' \ {target[p]}) \in Nat /\ Cardinality(spills \ {target[p]}) \in Nat
    BY <2>1, FS_Subset, FS_CardinalityType
  <2>3. Cardinality(spills \ {target[p]}) < MaxFiles
    BY DEF RoomForOne
  <2> QED BY <2>2, <2>3 DEF SpillConstants
<1>5. LocksNumbered' /\ LockHeld' /\ OneInside' /\ AbandonedStays' /\ TemporaryKept'
  BY DEF LocksNumbered, LockHeld, OneInside, AbandonedStays, TemporaryKept, Inside, Busy, writer
<1> QED BY <1>2, <1>3, <1>4, <1>5

LEMMA DiesSpill == ASSUME SpillInv, NEW p \in Processes, Dies(p) PROVE SpillInv'
<1> USE DEF SpillInv
<1>1. /\ alive' = alive \ {p}
      /\ UNCHANGED <<pc, target, tries, seen, mine, lock, temps, spills, locks>>
  BY DEF Dies, writer
<1>2. \A q \in Processes : Inside(q)' => Inside(q)
  BY <1>1 DEF Inside
<1>3. Busy' => Busy
  BY <1>1 DEF Busy
<1>4. SpillTypeOK' /\ LocksNumbered' /\ LimitKept'
  BY <1>1 DEF SpillTypeOK, LocksNumbered, LimitKept
<1>5. LockHeld' /\ OneInside' /\ RoomForOne'
  BY <1>1, <1>2 DEF LockHeld, OneInside, RoomForOne
<1>6. AbandonedStays' /\ TemporaryKept'
  BY <1>1, <1>3 DEF AbandonedStays, TemporaryKept
<1> QED BY <1>4, <1>5, <1>6

LEMMA AgesSpill == ASSUME SpillInv, LockAges PROVE SpillInv'
<1> USE DEF SpillInv
<1>1. /\ lock # NoLock /\ lock.fresh /\ lock.by = NoProcess /\ lock \in Locked
      /\ \A p \in alive : ~(pc[p] = "stamp" /\ mine[p] = lock.id)
      /\ lock' = [lock EXCEPT !.fresh = FALSE]
      /\ UNCHANGED <<alive, pc, target, tries, seen, mine, temps, spills, locks>>
  BY DEF LockAges, writer, SpillTypeOK
<1>2. lock' \in Locked /\ lock'.id = lock.id /\ lock'.by = lock.by /\ ~lock'.fresh /\ lock' # NoLock
  BY <1>1 DEF Locked, NoLock
<1>3. SpillTypeOK'
  BY <1>1, <1>2 DEF SpillTypeOK
<1>4. LockHeld'
  BY <1>1, <1>2 DEF LockHeld, Inside
<1>5. AbandonedStays'
  BY <1>1, <1>2 DEF AbandonedStays, Busy
<1>6. LocksNumbered' /\ OneInside' /\ RoomForOne' /\ TemporaryKept' /\ LimitKept'
  BY <1>1, <1>2 DEF LocksNumbered, OneInside, RoomForOne, TemporaryKept, LimitKept, Inside
<1> QED BY <1>3, <1>4, <1>5, <1>6

LEMMA SpillInit == ASSUME SpillConstants, SpillsInit PROVE SpillInv
<1>1. (CHOOSE f \in Files : TRUE) \in Files
  BY DEF SpillConstants
<1>2. IsFiniteSet({}) /\ Cardinality({}) = 0
  BY FS_EmptySet
<1>3. SpillTypeOK
  BY <1>1, <1>2 DEF SpillsInit, SpillTypeOK
<1> QED BY <1>2, <1>3 DEF SpillConstants, SpillsInit, SpillInv, LocksNumbered, LockHeld, OneInside,
           AbandonedStays,
        RoomForOne, TemporaryKept, LimitKept, Inside, NoLock

LEMMA SpillNext ==
    ASSUME SpillConstants, ~Interrupted, SpillInv, [SpillsNext]_spillsVars
    PROVE  SpillInv'
<1>1. ASSUME NEW p \in Processes, ~Removing(p), Writes(p) PROVE SpillInv'
  BY <1>1, StartsSpill, CreatesSpill, InspectsSpill, ChecksSpill, RemovesSpill, GivesUpSpill,
     StampsSpill,
     CountsSpill, WritesSpill, RenamesSpill, UnlocksSpill DEF Writes
<1>2. ASSUME NEW p \in Processes, Dies(p) PROVE SpillInv'
  BY <1>2, DiesSpill
<1>3. CASE LockAges
  BY <1>3, AgesSpill
<1>4. ASSUME NEW f \in Files, SpillAges(f) \/ sweepRuntimeFiles(f) PROVE SpillInv'
  <2>1. spills' \in SUBSET spills /\ UNCHANGED <<alive, writer, lock, temps, locks>>
    BY <1>4 DEF SpillAges, sweepRuntimeFiles
  <2> QED BY <2>1, StoreShrinks
<1>5. CASE UNCHANGED spillsVars
  <2>1. spills' \in SUBSET spills /\ UNCHANGED <<alive, writer, lock, temps, locks>>
    BY <1>5 DEF spillsVars, writer
  <2> QED BY <2>1, StoreShrinks
<1> QED BY <1>1, <1>2, <1>3, <1>4, <1>5 DEF SpillsNext

\* Whatever processes share the folder, and wherever they die: no writer's
\* temporary file is swept while it lives, because one living writer at a time
\* is past the lock and a lock is only removed as abandoned when its maker is
\* gone; and the store keeps its limit (writeSpillLocked of runtime-files.ts).
\* Between a lock's check and its removal no other process takes a step.
THEOREM SpillsStayKept ==
    ASSUME SpillConstants, ~Interrupted
    PROVE  SpillsSpec => []SpillsKept
<1>1. SpillsInit => SpillInv
  BY SpillInit
<1>2. SpillInv /\ [SpillsNext]_spillsVars => SpillInv'
  BY SpillNext
<1>3. SpillInv => SpillsKept
  BY DEF SpillInv, SpillsKept
<1> QED BY <1>1, <1>2, <1>3, PTL DEF SpillsSpec

-----------------------------------------------------------------------------
(* Lost Runs.                                                               *)

\* What a Run can hold of a turn: results of its tools, and the follow-up message.
Known == TurnTools \union {FollowUp}
Checkpoints == (SUBSET Known) \union {Void}
Barriers == {"none", "output", "stateful"}
StreamFrames ==
    [kind : {"text", "opaque", "end"}, item : {Void}]
    \union [kind : {"exec", "completed"}, item : TurnTools]
    \union [kind : {"checkpoint"}, item : SUBSET Known]
    \union [kind : {"fail"}, item : Kinds]
Failures == [kind : Kinds \union {"none"}, safe : BOOLEAN, barrier : Barriers, unusable : BOOLEAN]
Runs == [taken : SUBSET Known, missed : SUBSET Known, saved : Checkpoints, own : BOOLEAN,
         eligible : BOOLEAN, open : BOOLEAN, resume : Checkpoints, revoked : BOOLEAN,
         byResult : BOOLEAN, after : Nat,
         unacked : SUBSET [tool : TurnTools, named : BOOLEAN, after : Nat],
         execs : SUBSET TurnTools, stateful : BOOLEAN, unsafe : BOOLEAN, barrier : Barriers,
         emitted : SUBSET TurnTools]

TurnTypeOK ==
    /\ phase \in Phases
    /\ newest \in Runs
    /\ down \in Seq(StreamFrames)
    /\ up \subseteq TurnTools
    /\ call \in [checkpoint : Checkpoints, resumed : BOOLEAN, stuck : Nat, renewed : BOOLEAN,
                 failure : Failures, shown : BOOLEAN]
    /\ host \in [done : SUBSET Known, prompt : SUBSET TurnTools, trailing : SUBSET TurnTools,
                 running : SUBSET TurnTools, lost : SUBSET Known]

\* What the host has given the turn's Runs, but for what a rebase left out.
Delivered == (host.done \ host.lost) \ newest.emitted
\* The calls whose results Cursor has yet to acknowledge.
Waiting == {u.tool : u \in newest.unacked}

CompletedBefore(t, i) == \E j \in 1..(i - 1) : down[j] = StreamFrame("completed", t)
\* A checkpoint under way was saved, of what Cursor had taken.
CheckpointsSaved ==
    /\ newest.saved # Void => newest.saved \subseteq newest.taken
    /\ \A i \in DOMAIN down : down[i].kind = "checkpoint" =>
          newest.saved # Void /\ down[i].item \subseteq newest.saved
\* A completion is of a result Cursor took.
CompletionsTaken ==
    \A i \in DOMAIN down : down[i].kind = "completed" => down[i].item \in newest.taken
\* Cursor calls a tool once in a Run, and holds no result of one the host still has.
CalledOnce ==
    /\ newest.emitted \subseteq newest.execs /\ up \subseteq newest.execs
    /\ Waiting \subseteq newest.execs
    /\ newest.emitted \intersect (newest.taken \union up) = {}
    /\ \A i \in DOMAIN down : down[i].kind = "exec" =>
          /\ down[i].item \notin newest.taken \union newest.execs
          /\ \A j \in DOMAIN down : down[j] = down[i] => j = i
\* The end comes after every result was taken and saved.
EndIsLast ==
    Queued("end") =>
       /\ newest.saved = newest.taken /\ newest.execs \subseteq newest.taken
       /\ ~Queued("exec")
StreamOK == CheckpointsSaved /\ CompletionsTaken /\ CalledOnce /\ EndIsLast

\* What was delivered has been taken, or waits.
DeliveredKnown == Delivered \subseteq newest.taken \union Waiting
\* A checkpoint under way holds it, but for what waits: what Cursor completes
\* before it is not acknowledged before.
CheckpointsServe ==
    \A i \in DOMAIN down : down[i].kind = "checkpoint" =>
        \A t \in Delivered : t \in down[i].item \/ (t \in Waiting /\ ~CompletedBefore(t, i))
\* A checkpoint that may be resumed holds all of it.
ResumeServes ==
    /\ newest.resume # Void => Delivered \subseteq newest.resume
    /\ call.checkpoint # Void =>
          \/ Delivered \subseteq call.checkpoint
          \/ phase \in {"pumping", "tools"} /\ (newest.revoked \/ newest.resume # Void)
\* The host's prompt has every result but those of the open step.
HostOK ==
    /\ host.done \ newest.emitted \subseteq host.prompt \union {FollowUp}
    /\ host.running \subseteq newest.emitted
    /\ host.trailing = {} => host.prompt = {}
    /\ phase = "tools" => newest.emitted # {}
    /\ phase \notin {"pumping", "tools"} => newest.emitted = {}
    /\ newest.emitted # {} => newest.stateful

HoldsOK == RunsHoldResults /\ DeliveredKnown /\ CheckpointsServe /\ ResumeServes

\* The follow-up message is in no checkpoint yet: the Run may not be resumed, nor
\* replayed, nor rebuilt, and a failed one is given up.
Pending ==
    /\ newest.revoked /\ ~newest.byResult /\ newest.resume = Void
    /\ newest.barrier # "none" \/ newest.stateful
    /\ phase \in {"pumping", "tools", "failed"}
    /\ phase = "failed" => ~call.failure.safe /\ call.checkpoint = Void
\* A message sent is in a checkpoint or pending, and the host's retry rebases.
FollowUpKept ==
    /\ FollowUp \in Delivered =>
          /\ Pending \/ (newest.saved # Void /\ FollowUp \in newest.saved)
          /\ ~newest.eligible /\ ~call.failure.unusable
          /\ phase # "opening"
          /\ phase = "hostRetry" => host.trailing # {}
          /\ host.trailing # {} \/ newest.revoked \/ call.checkpoint # Void
                \/ (phase \in {"pumping", "tools"} /\ newest.resume # Void)
    /\ phase \in {"opening", "pumping", "tools"} => ~call.failure.unusable

\* A call that showed text failed with a barrier or has a checkpoint to resume.
ShownOnce ==
    /\ phase = "opening" => ~call.shown
    /\ phase \in {"failed", "offline", "reopening"} /\ call.checkpoint # Void =>
          newest.resume # Void \/ ~newest.revoked
    /\ call.shown /\ phase = "pumping" =>
          newest.barrier # "none" \/ (call.checkpoint # Void /\ ~newest.revoked /\ ~newest.eligible)
    /\ call.shown /\ phase = "failed" =>
          /\ ~call.failure.unusable
          /\ call.checkpoint # Void \/ (~call.failure.safe /\ call.failure.barrier # "none")
    /\ call.shown /\ phase \in {"offline", "reopening"} =>
          ~call.failure.unusable /\ call.checkpoint # Void

TurnInv == TurnTypeOK /\ StreamOK /\ HostOK /\ HoldsOK /\ FollowUpKept /\ ShownOnce

\* A Run just opened is a Run.
LEMMA NewRunTyped ==
    ASSUME NEW known \in SUBSET Known, NEW own \in BOOLEAN, NEW eligible \in BOOLEAN
    PROVE  NewRun(known, own, eligible) \in Runs
BY DEF NewRun, Runs, Checkpoints, Barriers

\* What is read leaves the rest of the frames.
LEMMA RestTyped ==
    ASSUME NEW S, NEW s \in Seq(S), s # <<>>
    PROVE  /\ Head(s) \in S /\ Tail(s) \in Seq(S) /\ Len(s) \in Nat \ {0} /\ Len(Tail(s)) = Len(s) - 1
           /\ Head(s) = s[1] /\ \A i \in 1..Len(Tail(s)) : Tail(s)[i] = s[i + 1]
OBVIOUS

\* A call starts with nothing held back and no failure.
LEMMA CallTyped == 
    /\ NewCall \in [checkpoint : Checkpoints, resumed : BOOLEAN, stuck : Nat, renewed : BOOLEAN,
                 failure : Failures, shown : BOOLEAN]
    /\ NoFailure \in Failures
BY DEF NewCall, Checkpoints, NoFailure, Failures, Barriers

\* What the catch leaves is typed.
LEMMA CaughtTyped ==
    ASSUME newest \in Runs, NEW failure \in Failures,
           NEW c \in [checkpoint : Checkpoints, resumed : BOOLEAN, stuck : Nat, renewed : BOOLEAN,
                 failure : Failures, shown : BOOLEAN],
           Caught(failure, c)
    PROVE  /\ phase' \in Phases
           /\ call' \in [checkpoint : Checkpoints, resumed : BOOLEAN, stuck : Nat, renewed : BOOLEAN,
                 failure : Failures, shown : BOOLEAN]
<1> DEFINE checkpoint == IF newest.resume # Void THEN newest.resume ELSE IF newest.revoked THEN Void ELSE c.checkpoint
           stuck == IF newest.resume # Void THEN 0
                    ELSE IF Transient(failure) /\ ~newest.revoked /\ c.resumed /\ failure.barrier # "none"
                    THEN c.stuck + 1 ELSE c.stuck
<1>1. call' = [c EXCEPT !.failure = failure, !.checkpoint = checkpoint, !.stuck = stuck]
  BY DEF Caught
<1>2. checkpoint \in Checkpoints /\ stuck \in Nat
  BY DEF Runs, Checkpoints
<1> HIDE DEF checkpoint, stuck
<1> QED
  BY <1>1, <1>2 DEF Caught, Phases

\* Every end of the turn leaves the empty state.
LEMMA OverTyped ==
    ASSUME TurnTypeOK, NEW outcome \in Phases, Over(outcome)
    PROVE  TurnTypeOK'
<1>1. NewRun({}, TRUE, FALSE) \in Runs
  BY NewRunTyped
<1>2. newest' \in Runs
  BY <1>1 DEF Over, Runs
<1>3. phase' \in Phases /\ down' \in Seq(StreamFrames) /\ up' \subseteq TurnTools
  BY DEF Over
<1>4. host' \in [done : SUBSET Known, prompt : SUBSET TurnTools, trailing : SUBSET TurnTools,
                 running : SUBSET TurnTools, lost : SUBSET Known]
  BY DEF Over, TurnTypeOK
<1>5. call' = NewCall
  BY DEF Over
<1> QED
  BY <1>2, <1>3, <1>4, <1>5, CallTyped DEF TurnTypeOK

\* Cursor sends frames and takes results.
LEMMA CursorTyped ==
    ASSUME TurnTypeOK, Cursor
    PROVE  TurnTypeOK'
<1> USE DEF TurnTypeOK
<1>1. ASSUME NEW f \in StreamFrames, Send(f) PROVE down' \in Seq(StreamFrames)
  BY <1>1 DEF Send
<1>2. CASE CursorSpeaks
  BY <1>1, <1>2 DEF CursorSpeaks, StreamFrame, StreamFrames
<1>3. CASE CursorActs
  BY <1>1, <1>3 DEF CursorActs, StreamFrame, StreamFrames
<1>4. ASSUME NEW t \in TurnTools, CursorCalls(t) PROVE TurnTypeOK'
  BY <1>1, <1>4 DEF CursorCalls, StreamFrame, StreamFrames
<1>5. ASSUME NEW t \in TurnTools, CursorTakes(t) PROVE TurnTypeOK'
  <2>1. newest' \in Runs
    BY <1>5 DEF CursorTakes, Runs, Known
  <2>2. down' \in Seq(StreamFrames)
    BY <1>1, <1>5 DEF CursorTakes, StreamFrame, StreamFrames
  <2> QED
    BY <1>5, <2>1, <2>2 DEF CursorTakes
<1>6. CASE CursorSaves
  <2>1. newest' \in Runs
    BY <1>6 DEF CursorSaves, Runs, Checkpoints
  <2>2. down' \in Seq(StreamFrames)
    BY <1>1, <1>6 DEF CursorSaves, StreamFrame, StreamFrames, Runs
  <2> QED
    BY <1>6, <2>1, <2>2 DEF CursorSaves
<1>7. CASE CursorEnds
  BY <1>1, <1>7 DEF CursorEnds, StreamFrame, StreamFrames
<1>8. ASSUME NEW kind \in Kinds, StreamBreaks(kind) PROVE TurnTypeOK'
  <2>1. PICK n \in 0..Len(down) : down' = Append(SubSeq(down, 1, n), StreamFrame("fail", kind))
    BY <1>8 DEF StreamBreaks
  <2>2. SubSeq(down, 1, n) \in Seq(StreamFrames)
    OBVIOUS
  <2>3. down' \in Seq(StreamFrames)
    BY <2>1, <2>2 DEF StreamFrame, StreamFrames
  <2> QED
    BY <1>8, <2>3 DEF StreamBreaks
<1> QED
  BY <1>2, <1>3, <1>4, <1>5, <1>6, <1>7, <1>8 DEF Cursor

\* Reading a frame lowers what is counted in frames.
LEMMA PastTyped ==
    ASSUME NEW r \in Runs
    PROVE  Past(r) \in Runs
<1>1. \A u \in r.unacked : [u EXCEPT !.after = Older(@)] \in [tool : TurnTools, named : BOOLEAN, after : Nat]
  BY DEF Runs, Older
<1>2. Older(r.after) \in Nat
  BY DEF Runs, Older
<1>3. {[u EXCEPT !.after = Older(@)] : u \in r.unacked} \in SUBSET [tool : TurnTools, named : BOOLEAN, after : Nat]
  BY <1>1
<1> QED
  <2> DEFINE moved == {[u EXCEPT !.after = Older(@)] : u \in r.unacked}
             after == Older(r.after)
  <2>1. Past(r) = [r EXCEPT !.after = after, !.unacked = moved]
    BY DEF Past, Runs
  <2>2. moved \in SUBSET [tool : TurnTools, named : BOOLEAN, after : Nat] /\ after \in Nat
    BY <1>2, <1>3
  <2> HIDE DEF moved, after
  <2> QED
    BY <2>1, <2>2 DEF Runs

\* A barrier is marked.
LEMMA BarrierTyped ==
    ASSUME NEW r \in Runs, NEW reason
    PROVE  Barrier(r, reason) \in Runs
BY DEF Barrier, Runs, Barriers

\* The pump reads frames.
LEMMA PumpTyped ==
    ASSUME TurnTypeOK, Pump
    PROVE  TurnTypeOK'
<1> USE DEF TurnTypeOK
<1>1. ASSUME NEW kind, Read(kind)
      PROVE  /\ down' \in Seq(StreamFrames) /\ Head(down) \in StreamFrames /\ Head(down).kind = kind
             /\ Len(down) - 1 \in Nat
  BY <1>1, RestTyped DEF Read
<1>2. CASE ReadText
  <2>1. newest' \in Runs
    BY <1>2, PastTyped, BarrierTyped DEF ReadText
  <2> QED
    BY <1>1, <1>2, <2>1 DEF ReadText
<1>3. CASE ReadOpaque
  <2> DEFINE marked == Barrier(Past(newest), "stateful")
  <2>1. marked \in Runs
    BY PastTyped, BarrierTyped
  <2>2. newest' \in {[marked EXCEPT !.unsafe = TRUE],
            [[marked EXCEPT !.unsafe = TRUE] EXCEPT !.resume = Void, !.revoked = TRUE, !.byResult = FALSE,
                                           !.after = Len(down) - 1]}
    BY <1>3 DEF ReadOpaque
  <2>3. newest' \in Runs
    <3> DEFINE left == Len(down) - 1
    <3>1. left \in Nat /\ Void \in Checkpoints
      BY <1>1, <1>3 DEF ReadOpaque, Checkpoints
    <3> HIDE DEF marked, left
    <3>2. [marked EXCEPT !.unsafe = TRUE] \in Runs
      BY <2>1 DEF Runs
    <3>3. [[marked EXCEPT !.unsafe = TRUE] EXCEPT !.resume = Void, !.revoked = TRUE, !.byResult = FALSE,
                                           !.after = left] \in Runs
      BY <3>1, <3>2 DEF Runs
    <3> QED
      BY <2>2, <3>2, <3>3 DEF left
  <2> QED
    BY <1>1, <1>3, <2>3 DEF ReadOpaque
<1>4. CASE ReadExec
  <2> DEFINE marked == Barrier(Past(newest), "stateful")
             t == Head(down).item
  <2>1. marked \in Runs
    BY PastTyped, BarrierTyped
  <2>2. t \in TurnTools
    <3>1. Head(down) \in StreamFrames /\ Head(down).kind = "exec"
      BY <1>1, <1>4 DEF ReadExec
    <3> QED
      BY <3>1 DEF StreamFrames
  <2>3. newest' = [marked EXCEPT !.execs = @ \union {t}, !.emitted = @ \union {t},
                                !.unsafe = @ \/ t \in newest.execs]
    BY <1>4 DEF ReadExec
  <2>4. newest' \in Runs
    <3> HIDE DEF marked, t
    <3> QED
      BY <2>1, <2>2, <2>3 DEF Runs
  <2>5. host' = [host EXCEPT !.running = newest'.emitted] /\ newest'.emitted \in SUBSET TurnTools
    BY <1>4, <2>4 DEF ReadExec, Runs
  <2> QED
    BY <1>1, <1>4, <2>4, <2>5 DEF ReadExec, Phases
<1>5. CASE StepCloses
  BY <1>5 DEF StepCloses, Phases
<1>6. CASE ReadCompleted
  <2>1. Past(newest) \in Runs
    BY PastTyped
  <2>2. newest' \in Runs
    BY <1>6, <2>1 DEF ReadCompleted, Runs, Older
  <2> QED
    BY <1>1, <1>6, <2>2 DEF ReadCompleted
<1>7. CASE ReadCheckpoint
  <2>1. Past(newest) \in Runs
    BY PastTyped
  <2>2. Head(down).item \in SUBSET Known
    BY <1>1, <1>7 DEF ReadCheckpoint, StreamFrames
  <2>3. newest' \in Runs
    BY <1>7, <2>1, <2>2 DEF ReadCheckpoint, Runs, Checkpoints
  <2> QED
    BY <1>1, <1>7, <2>3 DEF ReadCheckpoint
<1>8. CASE ReadEnd
  BY <1>8, OverTyped DEF ReadEnd, Phases
<1>9. CASE ReopenWithUserMessage
  <2>1. Continued \in SUBSET Known
    BY <1>9 DEF ReopenWithUserMessage, Continued, Runs, Checkpoints
  <2>2. newest' \in Runs
    BY <1>9, <2>1 DEF ReopenWithUserMessage, Runs, Checkpoints, Known
  <2> QED
    BY <1>9, <2>2 DEF ReopenWithUserMessage, Known
<1>10. CASE ReadFailure
  <2>1. newest' \in Runs
    BY <1>10 DEF ReadFailure, Runs
  <2>2. Head(down).item \in Kinds
    BY <1>1, <1>10 DEF ReadFailure, StreamFrames
  <2>3. \A failure \in Failures : Caught(failure, call) => phase' \in Phases /\
          call' \in [checkpoint : Checkpoints, resumed : BOOLEAN, stuck : Nat, renewed : BOOLEAN,
                 failure : Failures, shown : BOOLEAN]
    BY CaughtTyped
  <2>4. \E failure \in Failures : Caught(failure, call)
    BY <1>10, <2>2 DEF ReadFailure, Failures, Fails, Barriers, Runs
  <2> QED
    BY <1>1, <1>10, <2>1, <2>3, <2>4 DEF ReadFailure
<1>11. CASE FinishInterruptedTools
  <2>1. newest' \in Runs
    BY <1>11 DEF FinishInterruptedTools, Runs
  <2> QED
    BY <1>1, <1>11, <2>1 DEF FinishInterruptedTools, Phases
<1> QED
  BY <1>2, <1>3, <1>4, <1>5, <1>6, <1>7, <1>8, <1>9, <1>10, <1>11 DEF Pump

\* Recovery opens Runs in place.
LEMMA RecoversTyped ==
    ASSUME TurnTypeOK, Recovers
    PROVE  TurnTypeOK'
<1> USE DEF TurnTypeOK
<1> DEFINE Calls == [checkpoint : Checkpoints, resumed : BOOLEAN, stuck : Nat, renewed : BOOLEAN,
                 failure : Failures, shown : BOOLEAN]
<1>1. ASSUME NEW to \in Phases, Goes(to) PROVE TurnTypeOK'
  BY <1>1 DEF Goes
<1>2. ASSUME NEW failure \in Failures, NEW c \in Calls, Caught(failure, c)
      PROVE  phase' \in Phases /\ call' \in Calls
  BY <1>2, CaughtTyped
<1>3. ASSUME NEW r \in Runs, OpensRun(r)
      PROVE  newest' \in Runs /\ down' \in Seq(StreamFrames) /\ up' \subseteq TurnTools
  BY <1>3 DEF OpensRun, Runs
<1>4. ASSUME NEW results \in SUBSET TurnTools, NEW own \in BOOLEAN, Rebases(results, own)
      PROVE  /\ newest' \in Runs /\ down' \in Seq(StreamFrames) /\ up' \subseteq TurnTools
             /\ host' \in [done : SUBSET Known, prompt : SUBSET TurnTools, trailing : SUBSET TurnTools,
                 running : SUBSET TurnTools, lost : SUBSET Known]
  BY <1>3, <1>4, NewRunTyped DEF Rebases, Known, FollowUpAnswered
<1>5. CASE RenewCredential
  BY <1>5 DEF RenewCredential, Phases
<1>6. CASE WaitOffline \/ LeaveToHost \/ Retry \/ NetworkReturns
  BY <1>1, <1>6 DEF WaitOffline, LeaveToHost, Retry, NetworkReturns, Phases
<1>7. CASE GiveUp \/ WindowEnds
  BY <1>7, OverTyped DEF GiveUp, WindowEnds, Phases
<1>8. CASE Reopen
  <2>1. CASE call.failure.unusable \/ call.checkpoint = Void
    <3>1. \E results \in SUBSET TurnTools : Rebases(results, FALSE)
      BY <1>8, <2>1 DEF Reopen
    <3>2. call' = [call EXCEPT !.checkpoint = Void, !.resumed = FALSE, !.failure = NoFailure]
      BY <1>8, <2>1 DEF Reopen
    <3>3. call' \in Calls
      BY <3>2, CallTyped DEF Checkpoints
    <3> QED
      BY <1>4, <1>8, <3>1, <3>3 DEF Reopen, Phases
  <2>2. CASE ~(call.failure.unusable \/ call.checkpoint = Void)
    <3>1. Resumes(call.checkpoint) /\ call.checkpoint \in SUBSET Known
      BY <1>8, <2>2 DEF Reopen, Checkpoints
    <3>2. [NewRun(call.checkpoint, FALSE, FALSE) EXCEPT
                 !.saved = call.checkpoint, !.execs = newest.execs,
                 !.stateful = newest.stateful, !.unsafe = newest.unsafe] \in Runs
      <4>1. NewRun(call.checkpoint, FALSE, FALSE) \in Runs /\ call.checkpoint \in Checkpoints
        BY <3>1, NewRunTyped DEF Checkpoints
      <4> QED
        BY <4>1 DEF Runs
    <3>3. call' \in Calls
      BY <3>1, CallTyped DEF Resumes
    <3> QED
      BY <1>3, <1>8, <3>1, <3>2, <3>3 DEF Resumes, Reopen, Phases
  <2> QED
    BY <2>1, <2>2
<1>9. CASE OpenFirst
  BY <1>9 DEF OpenFirst, Phases
<1>10. ASSUME NEW kind \in Kinds, ReopenFails(kind) PROVE TurnTypeOK'
  <2>1. CASE Over("gaveUp")
    BY <2>1, OverTyped DEF Phases
  <2>2. CASE ~Over("gaveUp")
    <3> DEFINE kept == IF call.failure.unusable THEN Void ELSE call.checkpoint
    <3>1. Caught(Fails(kind, TRUE, "none", FALSE), [call EXCEPT !.checkpoint = kept, !.resumed = kept # Void])
      BY <1>10, <2>2 DEF ReopenFails
    <3>2. [call EXCEPT !.checkpoint = kept, !.resumed = kept # Void] \in Calls
      BY DEF Checkpoints
    <3>3. Fails(kind, TRUE, "none", FALSE) \in Failures
      BY DEF Fails, Failures, Barriers
    <3> QED
      BY <1>2, <1>10, <2>2, <3>1, <3>2, <3>3 DEF ReopenFails
  <2> QED
    BY <2>1, <2>2
<1>11. ASSUME NEW kind \in Kinds, OpenFails(kind) PROVE TurnTypeOK'
  BY <1>1, <1>11, OverTyped DEF OpenFails, Phases
<1> QED
  BY <1>5, <1>6, <1>7, <1>8, <1>9, <1>10, <1>11 DEF Recovers

\* The host answers, sends its prompt again, or stops.
LEMMA HostTyped ==
    ASSUME TurnTypeOK, Host
    PROVE  TurnTypeOK'
<1> USE DEF TurnTypeOK
<1>1. CASE HostRetries
  <2>1. ASSUME NEW r \in Runs, OpensRun(r)
      PROVE  newest' \in Runs /\ down' \in Seq(StreamFrames) /\ up' \subseteq TurnTools
    BY <2>1 DEF OpensRun, Runs
  <2>2. ASSUME NEW results \in SUBSET TurnTools, NEW own \in BOOLEAN, Rebases(results, own)
      PROVE  /\ newest' \in Runs /\ down' \in Seq(StreamFrames) /\ up' \subseteq TurnTools
             /\ host' \in [done : SUBSET Known, prompt : SUBSET TurnTools, trailing : SUBSET TurnTools,
                 running : SUBSET TurnTools, lost : SUBSET Known]
    BY <2>1, <2>2, NewRunTyped DEF Rebases, Known, FollowUpAnswered
  <2> QED
    BY <1>1, <2>1, <2>2, CallTyped, NewRunTyped DEF HostRetries, Phases
<1>2. CASE Deliver
  <2>1. PICK arrived \in 0..Len(down), nameless \in SUBSET newest.emitted :
          newest' = [newest EXCEPT
              !.emitted = {}, !.barrier = "none", !.own = TRUE, !.eligible = FALSE,
              !.resume = Void, !.byResult = ~newest.revoked \/ @, !.revoked = TRUE, !.after = arrived,
              !.unacked = @ \union {[tool |-> t, named |-> t \notin nameless, after |-> arrived] : t \in newest.emitted}]
    BY <1>2 DEF Deliver
  <2>2. newest' \in Runs
    <3> DEFINE unacked == newest.unacked \union
                    {[tool |-> t, named |-> t \notin nameless, after |-> arrived] : t \in newest.emitted}
    <3>1. arrived \in Nat /\ newest.emitted \in SUBSET TurnTools
      BY DEF Runs
    <3>2. unacked \in SUBSET [tool : TurnTools, named : BOOLEAN, after : Nat] /\ Void \in Checkpoints
      <4>1. \A t \in newest.emitted : [tool |-> t, named |-> t \notin nameless, after |-> arrived]
                 \in [tool : TurnTools, named : BOOLEAN, after : Nat]
        BY <3>1
      <4>2. newest.unacked \in SUBSET [tool : TurnTools, named : BOOLEAN, after : Nat]
        BY DEF Runs
      <4> QED
        BY <4>1, <4>2 DEF Checkpoints
    <3>3. newest' = [newest EXCEPT
              !.emitted = {}, !.barrier = "none", !.own = TRUE, !.eligible = FALSE,
              !.resume = Void, !.byResult = ~newest.revoked \/ @, !.revoked = TRUE, !.after = arrived,
              !.unacked = unacked]
      BY <2>1 DEF Runs
    <3> HIDE DEF unacked
    <3> QED
      BY <3>1, <3>2, <3>3 DEF Runs, Barriers
  <2> QED
    BY <1>2, <2>2, CallTyped DEF Deliver, Prompt, Phases, Runs, Known
<1>3. CASE RebaseContinuation
  <2>1. NewRun(newest.emitted, TRUE, FALSE) \in Runs
    BY NewRunTyped DEF Runs, Known
  <2>2. newest' \in Runs
    BY <1>3, <2>1 DEF RebaseContinuation, Prompt, Runs
  <2>3. host' \in [done : SUBSET Known, prompt : SUBSET TurnTools, trailing : SUBSET TurnTools,
                 running : SUBSET TurnTools, lost : SUBSET Known]
    BY <1>3 DEF RebaseContinuation, Prompt, Runs, Known
  <2>4. phase' = "opening" /\ down' = <<>> /\ up' = {} /\ call' = NewCall
    BY <1>3 DEF RebaseContinuation
  <2> QED
    BY <2>2, <2>3, <2>4, CallTyped DEF Phases
<1>4. CASE HostStops
  BY <1>4, OverTyped DEF HostStops, Phases
<1>5. ASSUME NEW t \in TurnTools, HostExecutes(t) PROVE TurnTypeOK'
  BY <1>5 DEF HostExecutes, Known
<1> QED
  BY <1>1, <1>2, <1>3, <1>4, <1>5 DEF Host

\* A turn stays typed.
LEMMA TurnTyped ==
    ASSUME TurnTypeOK, TurnNext
    PROVE  TurnTypeOK'
BY CursorTyped, PumpTyped, RecoversTyped, HostTyped DEF TurnNext

\* A frame sent comes after those on their way.
LEMMA FramesSent ==
    ASSUME NEW S, NEW s \in Seq(S), NEW f
    PROVE  /\ DOMAIN s = 1..Len(s) /\ Len(s) \in Nat /\ DOMAIN Append(s, f) = 1..(Len(s) + 1)
           /\ Append(s, f)[Len(s) + 1] = f
           /\ \A i \in DOMAIN s : i \in DOMAIN Append(s, f) /\ Append(s, f)[i] = s[i]
           /\ \A i \in DOMAIN Append(s, f) : i \in DOMAIN s \/ i = Len(s) + 1
OBVIOUS

\* A stream that breaks ends with that.
LEMMA FramesBroken ==
    ASSUME NEW S, NEW s \in Seq(S), NEW n \in 0..Len(s), NEW f
    PROVE  LET b == Append(SubSeq(s, 1, n), f)
           IN /\ DOMAIN b = 1..(n + 1) /\ b[n + 1] = f
              /\ \A i \in DOMAIN b : (i \in DOMAIN s /\ b[i] = s[i]) \/ (i = n + 1 /\ b[i] = f)
OBVIOUS

\* Cursor's frames are in order: a checkpoint holds what it took before it, a
\* completion is of a result it took, a tool is called once, and the end comes
\* last, after a checkpoint of everything.
LEMMA CursorStream ==
    ASSUME TurnTypeOK, TurnTypeOK', StreamOK, Cursor
    PROVE  StreamOK'
<1> USE DEF TurnTypeOK
<1>1. down \in Seq(StreamFrames) /\ newest \in Runs /\ newest' \in Runs
  OBVIOUS
<1>2. ASSUME NEW f, Send(f), UNCHANGED <<newest, up>>, f.kind \in {"text", "opaque", "fail"}
      PROVE  StreamOK'
  BY <1>1, <1>2, FramesSent DEF Send, StreamOK, CheckpointsSaved, CompletionsTaken, CalledOnce,
     EndIsLast, Queued, Waiting
<1>3. CASE CursorSpeaks
  BY <1>2, <1>3 DEF CursorSpeaks, StreamFrame
<1>4. CASE CursorActs
  BY <1>2, <1>4 DEF CursorActs, StreamFrame
<1>5. ASSUME NEW t \in TurnTools, CursorCalls(t) PROVE StreamOK'
  <2>1. /\ down' = Append(down, StreamFrame("exec", t)) /\ UNCHANGED <<newest, up>>
        /\ t \notin newest.taken \union newest.execs /\ ~Queued("end")
        /\ \A i \in DOMAIN down : down[i] # StreamFrame("exec", t)
    BY <1>5 DEF CursorCalls, Send, Range, Streaming
  <2>2. CheckpointsSaved' /\ CompletionsTaken' /\ EndIsLast'
    BY <1>1, <2>1, FramesSent DEF StreamFrame, StreamOK, CheckpointsSaved, CompletionsTaken,
       EndIsLast, Queued
  <2>3. CalledOnce'
    BY <1>1, <2>1, FramesSent DEF StreamFrame, StreamOK, CalledOnce, Waiting
  <2> QED
    BY <2>2, <2>3 DEF StreamOK
<1>6. ASSUME NEW t \in TurnTools, CursorTakes(t) PROVE StreamOK'
  <2>1. /\ down' = Append(down, StreamFrame("completed", t)) \/ down' = down
        /\ t \in up /\ up' = up \ {t} /\ newest' = [newest EXCEPT !.taken = @ \union {t}]
        /\ ~Queued("end")
    BY <1>6 DEF CursorTakes, Send, Streaming
  <2>2. newest'.taken = newest.taken \union {t} /\ newest'.saved = newest.saved /\ newest'.execs = newest.execs
        /\ newest'.emitted = newest.emitted /\ newest'.unacked = newest.unacked
    BY <1>1, <2>1 DEF Runs
  <2>3. \A i \in DOMAIN down' : (i \in DOMAIN down /\ down'[i] = down[i])
                                \/ down'[i] = StreamFrame("completed", t)
    <3>1. CASE down' = down
      BY <3>1
    <3>2. CASE down' = Append(down, StreamFrame("completed", t))
      BY <1>1, <3>2, FramesSent
    <3> QED
      BY <2>1, <3>1, <3>2
  <2>4. CheckpointsSaved' /\ CompletionsTaken'
    BY <2>2, <2>3 DEF StreamFrame, StreamOK, CheckpointsSaved, CompletionsTaken
  <2>5. EndIsLast'
    BY <2>1, <2>3 DEF StreamFrame, EndIsLast, Queued
  <2>6. \A i \in DOMAIN down' : down'[i].kind = "exec" => i \in DOMAIN down /\ down'[i] = down[i]
    BY <2>3 DEF StreamFrame
  <2>7. t \in newest.execs /\ t \notin newest.emitted
    BY <2>1 DEF StreamOK, CalledOnce
  <2>8. CalledOnce'
    BY <2>1, <2>2, <2>6, <2>7 DEF StreamOK, CalledOnce, Waiting
  <2> QED
    BY <2>4, <2>5, <2>8 DEF StreamOK
<1>7. CASE CursorSaves
  <2>1. /\ down' = Append(down, StreamFrame("checkpoint", newest.taken))
        /\ up' = up /\ newest' = [newest EXCEPT !.saved = newest.taken]
        /\ ~Queued("end")
    BY <1>7 DEF CursorSaves, Send, Streaming
  <2>2. newest'.taken = newest.taken /\ newest'.saved = newest.taken /\ newest'.execs = newest.execs
        /\ newest'.emitted = newest.emitted /\ newest'.unacked = newest.unacked
        /\ newest.taken \in SUBSET Known
    BY <1>1, <2>1 DEF Runs
  <2>3. CompletionsTaken' /\ EndIsLast'
    BY <1>1, <2>1, <2>2, FramesSent DEF StreamFrame, StreamOK, CompletionsTaken, EndIsLast, Queued
  <2>4. CheckpointsSaved'
    BY <1>1, <2>1, <2>2, FramesSent, TurnConstants DEF StreamFrame, StreamOK, CheckpointsSaved,
       Known
  <2>5. CalledOnce'
    BY <1>1, <2>1, <2>2, FramesSent DEF StreamFrame, StreamOK, CalledOnce, Waiting
  <2> QED
    BY <2>3, <2>4, <2>5 DEF StreamOK
<1>8. CASE CursorEnds
  <2>1. /\ down' = Append(down, StreamFrame("end", Void)) /\ UNCHANGED <<newest, up>>
        /\ newest.execs \subseteq newest.taken /\ newest.saved = newest.taken /\ ~Queued("exec")
    BY <1>8 DEF CursorEnds, Send
  <2>2. CheckpointsSaved' /\ CompletionsTaken' /\ EndIsLast'
    BY <1>1, <2>1, FramesSent DEF StreamFrame, StreamOK, CheckpointsSaved, CompletionsTaken,
       EndIsLast, Queued
  <2>3. CalledOnce'
    BY <1>1, <2>1, FramesSent DEF StreamFrame, StreamOK, CalledOnce, Waiting
  <2> QED
    BY <2>2, <2>3 DEF StreamOK
<1>9. ASSUME NEW kind \in Kinds, StreamBreaks(kind) PROVE StreamOK'
  <2>1. PICK n \in 0..Len(down) : down' = Append(SubSeq(down, 1, n), StreamFrame("fail", kind))
    BY <1>9 DEF StreamBreaks
  <2>2. newest' = newest /\ up' = {}
    BY <1>9 DEF StreamBreaks
  <2>3. \A i \in DOMAIN down' : (i \in DOMAIN down /\ down'[i] = down[i]) \/ down'[i] = StreamFrame("fail", kind)
    BY <1>1, <2>1, FramesBroken
  <2>4. CheckpointsSaved' /\ CompletionsTaken'
    BY <2>2, <2>3 DEF StreamFrame, StreamOK, CheckpointsSaved, CompletionsTaken
  <2>6. EndIsLast'
    <3>1. \A i \in DOMAIN down' : down'[i].kind \in {"end", "exec"}
              => i \in DOMAIN down /\ down'[i] = down[i]
      BY <2>3 DEF StreamFrame
    <3>2. (Queued("end")' => Queued("end")) /\ (Queued("exec")' => Queued("exec"))
      BY <3>1 DEF Queued
    <3> QED
      BY <2>2, <3>2 DEF StreamOK, EndIsLast
  <2>5. CalledOnce'
    BY <2>2, <2>3 DEF StreamFrame, StreamOK, CalledOnce, Waiting
  <2> QED
    BY <2>4, <2>5, <2>6 DEF StreamOK
<1> QED
  BY <1>3, <1>4, <1>5, <1>6, <1>7, <1>8, <1>9 DEF Cursor

\* Reading a frame that calls no tool.
LEMMA ReadKeepsStream ==
    ASSUME TurnTypeOK, TurnTypeOK', StreamOK, down # <<>>, down' = Tail(down), up' = up,
           newest'.taken = newest.taken, newest'.saved = newest.saved, newest'.execs = newest.execs,
           newest'.emitted = newest.emitted, Waiting' \subseteq Waiting
    PROVE  StreamOK'
<1>1. \A i \in DOMAIN down' : i + 1 \in DOMAIN down /\ down'[i] = down[i + 1] /\ i \in Nat
  BY RestTyped DEF TurnTypeOK
<1>2. CheckpointsSaved' /\ CompletionsTaken' /\ EndIsLast'
  BY <1>1 DEF StreamOK, CheckpointsSaved, CompletionsTaken, EndIsLast, Queued
<1>3. CalledOnce'
  BY <1>1 DEF StreamOK, CalledOnce
<1> QED
  BY <1>2, <1>3 DEF StreamOK

\* A new stream carries nothing yet.
LEMMA FreshStream ==
    ASSUME down' = <<>>, up' = {}, newest'.emitted = {},
           newest'.saved # Void => newest'.saved \subseteq newest'.taken,
           Waiting' \subseteq newest'.execs
    PROVE  StreamOK'
BY DEF StreamOK, CheckpointsSaved, CompletionsTaken, EndIsLast, CalledOnce, Queued

\* No stream outlives the turn.
LEMMA OverStream ==
    ASSUME NEW outcome, Over(outcome)
    PROVE  StreamOK'
BY FreshStream DEF Over, NewRun, Waiting

SameWork ==
    /\ newest'.taken = newest.taken /\ newest'.saved = newest.saved /\ newest'.missed = newest.missed
    /\ newest'.eligible = newest.eligible
SameCalls == newest'.execs = newest.execs /\ newest'.emitted = newest.emitted
SameResume ==
    /\ newest'.resume = newest.resume /\ newest'.revoked = newest.revoked
    /\ newest'.byResult = newest.byResult
SameDeeds == newest'.barrier = newest.barrier /\ newest'.stateful = newest.stateful
Reads(kind) ==
    /\ phase = "pumping" /\ down # <<>> /\ Head(down).kind = kind /\ down' = Tail(down) /\ up' = up
    /\ SameWork

\* What reading a frame leaves of the Run.
LEMMA PastFields ==
    ASSUME NEW r \in Runs
    PROVE  LET p == Past(r)
           IN /\ p.taken = r.taken /\ p.saved = r.saved /\ p.missed = r.missed /\ p.eligible = r.eligible
              /\ p.execs = r.execs /\ p.emitted = r.emitted /\ p.resume = r.resume /\ p.revoked = r.revoked
              /\ p.byResult = r.byResult /\ p.barrier = r.barrier /\ p.stateful = r.stateful
              /\ {u.tool : u \in p.unacked} = {u.tool : u \in r.unacked}
<1> DEFINE moved == {[u EXCEPT !.after = Older(@)] : u \in r.unacked}
           after == Older(r.after)
<1>1. Past(r) = [r EXCEPT !.after = after, !.unacked = moved]
  BY DEF Past, Runs
<1>2. \A u \in r.unacked : [u EXCEPT !.after = Older(@)].tool = u.tool
  BY DEF Runs
<1>3. {u.tool : u \in moved} = {u.tool : u \in r.unacked}
  BY <1>2
<1> HIDE DEF moved, after
<1> QED
  BY <1>1, <1>3 DEF Runs

\* What a barrier leaves of the Run.
LEMMA BarrierFields ==
    ASSUME NEW r \in Runs, NEW reason
    PROVE  LET b == Barrier(r, reason)
           IN /\ b.taken = r.taken /\ b.saved = r.saved /\ b.missed = r.missed /\ b.eligible = r.eligible
              /\ b.execs = r.execs /\ b.emitted = r.emitted /\ b.resume = r.resume /\ b.revoked = r.revoked
              /\ b.byResult = r.byResult /\ b.unacked = r.unacked
              /\ b.barrier # "none" /\ (r.stateful => b.stateful)
              /\ reason # "output" => b.stateful
              /\ reason = "output" => b.stateful = r.stateful
BY DEF Barrier, Runs

Marks(marked) ==
    /\ marked \in Runs /\ marked.taken = newest.taken /\ marked.saved = newest.saved
    /\ marked.missed = newest.missed /\ marked.eligible = newest.eligible
    /\ marked.execs = newest.execs /\ marked.emitted = newest.emitted /\ marked.resume = newest.resume
    /\ marked.revoked = newest.revoked /\ marked.byResult = newest.byResult
    /\ marked.barrier # "none" /\ {u.tool : u \in marked.unacked} = Waiting

\* Both, of the newest Run.
LEMMA MarkedFields ==
    ASSUME TurnTypeOK, NEW reason
    PROVE  LET marked == Barrier(Past(newest), reason)
           IN /\ Marks(marked)
              /\ reason # "output" => marked.stateful
              /\ reason = "output" => marked.stateful = newest.stateful
<1> DEFINE past == Past(newest)
           marked == Barrier(past, reason)
<1>1. newest \in Runs /\ past \in Runs /\ marked \in Runs
  BY PastTyped, BarrierTyped DEF TurnTypeOK
<1>2. /\ past.taken = newest.taken /\ past.saved = newest.saved /\ past.missed = newest.missed
      /\ past.eligible = newest.eligible /\ past.execs = newest.execs /\ past.emitted = newest.emitted
      /\ past.resume = newest.resume /\ past.revoked = newest.revoked
      /\ past.byResult = newest.byResult /\ past.stateful = newest.stateful
      /\ {u.tool : u \in past.unacked} = Waiting
  BY <1>1, PastFields DEF Waiting
<1>3. /\ marked.taken = past.taken /\ marked.saved = past.saved /\ marked.missed = past.missed
      /\ marked.eligible = past.eligible /\ marked.execs = past.execs /\ marked.emitted = past.emitted
      /\ marked.resume = past.resume /\ marked.revoked = past.revoked
      /\ marked.byResult = past.byResult /\ marked.unacked = past.unacked
      /\ marked.barrier # "none"
      /\ reason # "output" => marked.stateful
      /\ reason = "output" => marked.stateful = past.stateful
  BY <1>1, BarrierFields
<1> HIDE DEF past, marked
<1>4. Marks(marked) /\ (reason # "output" => marked.stateful)
      /\ (reason = "output" => marked.stateful = newest.stateful)
  BY <1>1, <1>2, <1>3 DEF Marks
<1> QED
  BY <1>4 DEF marked, past

\* What reading a frame changes of the Run: text,
LEMMA ReadTextDoes ==
    ASSUME TurnTypeOK, ReadText
    PROVE  /\ Reads("text") /\ SameCalls /\ SameResume /\ Waiting' = Waiting
           /\ newest'.barrier # "none" /\ newest'.stateful = newest.stateful
<1> DEFINE marked == Barrier(Past(newest), "output")
<1>1. newest' = marked
  BY DEF ReadText
<1>2. Marks(marked) /\ marked.stateful = newest.stateful
  BY MarkedFields
<1> HIDE DEF marked
<1> QED
  BY <1>1, <1>2 DEF ReadText, Read, Reads, Marks, SameWork, SameCalls, SameResume, Waiting

\* Cursor's own work,
LEMMA ReadOpaqueDoes ==
    ASSUME TurnTypeOK, ReadOpaque
    PROVE  /\ Reads("opaque") /\ SameCalls /\ Waiting' = Waiting
           /\ newest'.barrier # "none" /\ newest'.stateful
           /\ SameResume \/ (newest'.resume = Void /\ newest'.revoked /\ ~newest'.byResult)
<1> DEFINE marked == Barrier(Past(newest), "stateful")
<1>1. newest \in Runs /\ Past(newest) \in Runs /\ marked \in Runs
  BY PastTyped, BarrierTyped DEF TurnTypeOK
<1>2. PICK again \in {[marked EXCEPT !.unsafe = TRUE],
            [[marked EXCEPT !.unsafe = TRUE] EXCEPT !.resume = Void, !.revoked = TRUE, !.byResult = FALSE,
                                           !.after = Len(down) - 1]} : newest' = again
  BY DEF ReadOpaque
<1>3. Marks(marked) /\ marked.stateful
  BY MarkedFields
<1> HIDE DEF marked
<1>4. newest'.unacked = marked.unacked
  BY <1>1, <1>2 DEF Runs
<1>5. Waiting' = Waiting
  BY <1>3, <1>4 DEF Waiting, Marks
<1>6. SameWork /\ SameCalls /\ newest'.barrier # "none" /\ newest'.stateful
  <2>1. newest'.barrier = marked.barrier /\ newest'.stateful = marked.stateful
    BY <1>1, <1>2 DEF Runs
  <2>2. /\ newest'.taken = marked.taken /\ newest'.saved = marked.saved /\ newest'.missed = marked.missed
        /\ newest'.eligible = marked.eligible /\ newest'.execs = marked.execs /\ newest'.emitted = marked.emitted
    BY <1>1, <1>2 DEF Runs
  <2> QED
    BY <1>3, <2>1, <2>2 DEF Marks, SameWork, SameCalls
<1>7. SameResume \/ (newest'.resume = Void /\ newest'.revoked /\ ~newest'.byResult)
  <2>1. CASE newest' = [marked EXCEPT !.unsafe = TRUE]
    <3>1. /\ newest'.resume = marked.resume /\ newest'.revoked = marked.revoked
          /\ newest'.byResult = marked.byResult
      BY <1>1, <2>1 DEF Runs
    <3> QED
      BY <1>3, <3>1 DEF SameResume, Marks
  <2>2. CASE newest' = [[marked EXCEPT !.unsafe = TRUE] EXCEPT !.resume = Void, !.revoked = TRUE,
                                           !.byResult = FALSE, !.after = Len(down) - 1]
    BY <1>1, <2>2 DEF Runs
  <2> QED
    BY <1>2, <2>1, <2>2
<1> QED
  BY <1>5, <1>6, <1>7 DEF ReadOpaque, Read, Reads

\* a call for the host,
LEMMA ReadExecDoes ==
    ASSUME TurnTypeOK, ReadExec
    PROVE  /\ Reads("exec") /\ SameResume /\ Waiting' = Waiting
           /\ newest'.execs = newest.execs \union {Head(down).item}
           /\ newest'.emitted = newest.emitted \union {Head(down).item}
           /\ newest'.barrier # "none" /\ newest'.stateful
           /\ phase' \in {"pumping", "tools"} /\ call' = call
           /\ host' = [host EXCEPT !.running = newest'.emitted]
<1> DEFINE marked == Barrier(Past(newest), "stateful")
           t == Head(down).item
<1>1. newest \in Runs /\ Past(newest) \in Runs /\ marked \in Runs
  BY PastTyped, BarrierTyped DEF TurnTypeOK
<1>2. newest' = [marked EXCEPT !.execs = @ \union {t}, !.emitted = @ \union {t},
                                !.unsafe = @ \/ t \in newest.execs]
  BY DEF ReadExec
<1>3. Marks(marked) /\ marked.stateful
  BY MarkedFields
<1> HIDE DEF marked
<1>4. newest'.unacked = marked.unacked
  BY <1>1, <1>2 DEF Runs
<1>5. Waiting' = Waiting
  BY <1>3, <1>4 DEF Waiting, Marks
<1>6. SameWork /\ SameResume /\ newest'.barrier # "none" /\ newest'.stateful
  BY <1>1, <1>2, <1>3 DEF Runs, SameWork, SameResume, Marks
<1>7. newest'.execs = newest.execs \union {t} /\ newest'.emitted = newest.emitted \union {t}
  BY <1>1, <1>2, <1>3 DEF Runs, Marks
<1> QED
  BY <1>5, <1>6, <1>7 DEF ReadExec, Read, Reads

\* the completion of a call,
LEMMA ReadCompletedDoes ==
    ASSUME TurnTypeOK, ReadCompleted
    PROVE  /\ Reads("completed") /\ SameCalls /\ SameResume /\ SameDeeds
           /\ Waiting' \subseteq Waiting /\ Waiting \ {Head(down).item} \subseteq Waiting'
<1> DEFINE left == {u \in newest.unacked : ~(u.named /\ u.tool = Head(down).item /\ u.after = 0)}
           moved == {[u EXCEPT !.after = Older(@)] : u \in left}
<1>1. newest \in Runs /\ Past(newest) \in Runs
  BY PastTyped DEF TurnTypeOK
<1>2. newest' = [Past(newest) EXCEPT !.unacked = moved]
  BY DEF ReadCompleted
<1>3. \A u \in left : [u EXCEPT !.after = Older(@)].tool = u.tool
  BY <1>1 DEF Runs
<1>4. {u.tool : u \in moved} \subseteq Waiting /\ Waiting \ {Head(down).item} \subseteq {u.tool : u \in moved}
  BY <1>3 DEF Waiting
<1> HIDE DEF moved
<1>5. newest'.unacked = moved
  BY <1>1, <1>2 DEF Runs
<1>6. SameWork /\ SameCalls /\ SameResume /\ SameDeeds
  BY <1>1, <1>2, PastFields DEF Runs, SameWork, SameCalls, SameResume, SameDeeds
<1> QED
  BY <1>4, <1>5, <1>6 DEF ReadCompleted, Read, Reads, Waiting

\* and a checkpoint.
LEMMA ReadCheckpointDoes ==
    ASSUME TurnTypeOK, ReadCheckpoint
    PROVE  /\ Reads("checkpoint") /\ SameCalls /\ SameDeeds /\ Waiting' = Waiting
           /\ \/ SameResume
              \/ /\ Waiting = {} /\ newest'.resume = Head(down).item /\ newest'.resume # Void
                 /\ ~newest'.revoked /\ ~newest'.byResult
<1>1. newest \in Runs /\ Past(newest) \in Runs
  BY PastTyped DEF TurnTypeOK
<1>2. newest' = Past(newest)
      \/ (Acceptable(newest) /\ newest' = [Past(newest) EXCEPT !.resume = Head(down).item, !.revoked = FALSE, !.byResult = FALSE])
  BY DEF ReadCheckpoint
<1>3. newest'.unacked = Past(newest).unacked
  BY <1>1, <1>2 DEF Runs
<1>4. Waiting' = Waiting
  BY <1>1, <1>3, PastFields DEF Waiting
<1>5. SameWork /\ SameCalls /\ SameDeeds
  BY <1>1, <1>2, PastFields DEF Runs, SameWork, SameCalls, SameDeeds
<1>6. Head(down) \in StreamFrames /\ Head(down).kind = "checkpoint"
  BY RestTyped DEF ReadCheckpoint, Read, TurnTypeOK
<1>7. Head(down).item # Void
  BY <1>6, TurnConstants DEF StreamFrames, Known
<1>8. SameResume \/ (/\ Waiting = {} /\ newest'.resume = Head(down).item
                     /\ ~newest'.revoked /\ ~newest'.byResult)
  BY <1>1, <1>2, PastFields DEF Runs, SameResume, Acceptable, Waiting
<1> QED
  BY <1>4, <1>5, <1>7, <1>8 DEF ReadCheckpoint, Read, Reads

\* A Run opened anew.
Opened(known) ==
    /\ newest'.taken = known /\ newest'.missed = host.done \ known /\ newest'.resume = Void
    /\ ~newest'.revoked /\ ~newest'.byResult /\ Waiting' = {} /\ newest'.emitted = {}
    /\ newest'.barrier = "none" /\ down' = <<>> /\ up' = {}
    /\ newest'.saved = Void \/ newest'.saved = known

\* A resume opens with its checkpoint and what the failed Run did.
LEMMA ResumesDoes ==
    ASSUME TurnTypeOK, NEW checkpoint \in SUBSET Known, Resumes(checkpoint)
    PROVE  /\ Opened(checkpoint) /\ newest'.saved = checkpoint /\ ~newest'.eligible
           /\ newest'.execs = newest.execs /\ newest'.stateful = newest.stateful
           /\ call' = [call EXCEPT !.resumed = TRUE, !.failure = NoFailure] /\ host' = host
<1> DEFINE new == NewRun(checkpoint, FALSE, FALSE)
           r == [new EXCEPT !.saved = checkpoint, !.execs = newest.execs,
                            !.stateful = newest.stateful, !.unsafe = newest.unsafe]
<1>1. new \in Runs
  BY NewRunTyped
<1>2. newest' = [r EXCEPT !.missed = host.done \ r.taken] /\ down' = <<>> /\ up' = {}
  BY DEF Resumes, OpensRun
<1>3. /\ new.taken = checkpoint /\ new.eligible = FALSE /\ new.resume = Void
      /\ new.revoked = FALSE /\ new.byResult = FALSE /\ new.unacked = {}
      /\ new.barrier = "none" /\ new.emitted = {}
  BY DEF NewRun
<1> HIDE DEF new
<1>4. /\ newest'.taken = checkpoint /\ newest'.missed = host.done \ checkpoint
      /\ newest'.eligible = FALSE /\ newest'.resume = Void
      /\ newest'.revoked = FALSE /\ newest'.byResult = FALSE /\ newest'.unacked = {}
      /\ newest'.barrier = "none" /\ newest'.emitted = {}
      /\ newest'.saved = checkpoint /\ newest'.execs = newest.execs /\ newest'.stateful = newest.stateful
  BY <1>1, <1>2, <1>3 DEF Runs
<1> QED
  BY <1>2, <1>4 DEF Resumes, Opened, Waiting

\* A rebuild opens with results of the host, and leaves the others out.
LEMMA RebasesDoes ==
    ASSUME TurnTypeOK, NEW results \in SUBSET TurnTools, NEW own \in BOOLEAN, Rebases(results, own)
    PROVE  /\ Opened(results) /\ newest'.saved = Void /\ ~newest'.eligible /\ newest'.execs = {}
           /\ host' = [host EXCEPT !.lost = (host.prompt \ results) \union FollowUpAnswered]
<1> DEFINE new == NewRun(results, own, FALSE)
<1>1. new \in Runs
  BY NewRunTyped DEF Known
<1>2. newest' = [new EXCEPT !.missed = host.done \ new.taken] /\ down' = <<>> /\ up' = {}
  BY DEF Rebases, OpensRun
<1>3. /\ new.taken = results /\ new.eligible = FALSE /\ new.resume = Void /\ new.saved = Void /\ new.execs = {}
      /\ new.revoked = FALSE /\ new.byResult = FALSE /\ new.unacked = {}
      /\ new.barrier = "none" /\ new.emitted = {}
  BY DEF NewRun
<1> HIDE DEF new
<1>4. /\ newest'.taken = results /\ newest'.missed = host.done \ results
      /\ newest'.eligible = FALSE /\ newest'.resume = Void
      /\ newest'.revoked = FALSE /\ newest'.byResult = FALSE /\ newest'.unacked = {}
      /\ newest'.barrier = "none" /\ newest'.emitted = {}
      /\ newest'.saved = Void /\ newest'.execs = {}
  BY <1>1, <1>2, <1>3 DEF Runs
<1> QED
  BY <1>2, <1>4 DEF Rebases, Opened, Waiting

\* The host sends its prompt again.
LEMMA HostRetriesDoes ==
    ASSUME TurnTypeOK, HostRetries
    PROVE  /\ phase = "hostRetry" /\ phase' = "opening" /\ call' = NewCall /\ newest'.execs = {}
           /\ newest'.saved = Void
           /\ \/ host.trailing = {} /\ Opened({}) /\ host' = host
              \/ /\ host.trailing # {} /\ Opened(host.trailing) /\ ~newest'.eligible
                 /\ host' = [host EXCEPT !.lost = (host.prompt \ host.trailing) \union FollowUpAnswered]
<1>1. CASE host.trailing = {}
  <2> DEFINE new == NewRun({}, TRUE, TRUE)
  <2>1. new \in Runs
    BY NewRunTyped
  <2>2. newest' = [new EXCEPT !.missed = host.done \ new.taken] /\ down' = <<>> /\ up' = {} /\ host' = host
    BY <1>1 DEF HostRetries, OpensRun
  <2>3. /\ new.taken = {} /\ new.resume = Void /\ new.saved = Void /\ new.execs = {}
        /\ new.revoked = FALSE /\ new.byResult = FALSE /\ new.unacked = {}
        /\ new.barrier = "none" /\ new.emitted = {}
    BY DEF NewRun
  <2> HIDE DEF new
  <2>4. /\ newest'.taken = {} /\ newest'.missed = host.done \ {} /\ newest'.resume = Void
        /\ newest'.revoked = FALSE /\ newest'.byResult = FALSE /\ newest'.unacked = {}
        /\ newest'.barrier = "none" /\ newest'.emitted = {}
        /\ newest'.saved = Void /\ newest'.execs = {}
    BY <2>1, <2>2, <2>3 DEF Runs
  <2> QED
    BY <1>1, <2>2, <2>4 DEF HostRetries, Opened, Waiting
<1>2. CASE host.trailing # {}
  <2>1. Rebases(host.trailing, TRUE) /\ host.trailing \in SUBSET TurnTools
    BY <1>2 DEF HostRetries, TurnTypeOK
  <2> QED
    BY <1>2, <2>1, RebasesDoes DEF HostRetries
<1> QED
  BY <1>1, <1>2

\* The loop opens the next Run: it rebuilds, or resumes.
LEMMA ReopenDoes ==
    ASSUME TurnTypeOK, Reopen
    PROVE  /\ phase = "reopening" /\ phase' = "pumping"
           /\ call'.shown = call.shown /\ call'.failure = NoFailure /\ ~newest'.eligible
           /\ \/ /\ call.failure.unusable \/ call.checkpoint = Void
                 /\ newest'.execs = {} /\ newest'.saved = Void /\ call'.checkpoint = Void
                 /\ \E results \in SUBSET TurnTools : Opened(results) /\
                       host' = [host EXCEPT !.lost = (host.prompt \ results) \union FollowUpAnswered]
              \/ /\ ~call.failure.unusable /\ call.checkpoint # Void /\ call.checkpoint \in SUBSET Known
                 /\ call'.checkpoint = call.checkpoint /\ call'.resumed
                 /\ newest'.saved = call.checkpoint
                 /\ newest'.execs = newest.execs /\ newest'.stateful = newest.stateful
                 /\ Opened(call.checkpoint) /\ host' = host
<1>1. CASE call.failure.unusable \/ call.checkpoint = Void
  <2> DEFINE results == IF call.failure.unusable \/ CanRebaseFromHistory THEN host.prompt ELSE host.trailing
  <2>1. Rebases(results, FALSE) /\ results \in SUBSET TurnTools
    BY <1>1 DEF Reopen, TurnTypeOK
  <2>2. call' = [call EXCEPT !.checkpoint = Void, !.resumed = FALSE, !.failure = NoFailure]
    BY <1>1 DEF Reopen
  <2>3. call'.checkpoint = Void /\ call'.shown = call.shown /\ call'.failure = NoFailure
    BY <2>2 DEF TurnTypeOK
  <2> HIDE DEF results
  <2>4. Opened(results) /\ newest'.saved = Void /\ ~newest'.eligible /\ newest'.execs = {}
        /\ host' = [host EXCEPT !.lost = (host.prompt \ results) \union FollowUpAnswered]
    BY <2>1, RebasesDoes
  <2> QED
    BY <1>1, <2>1, <2>3, <2>4 DEF Reopen
<1>2. CASE ~(call.failure.unusable \/ call.checkpoint = Void)
  <2>1. Resumes(call.checkpoint) /\ call.checkpoint \in SUBSET Known
    BY <1>2 DEF Reopen, TurnTypeOK, Checkpoints
  <2>2. Opened(call.checkpoint) /\ newest'.saved = call.checkpoint /\ ~newest'.eligible
        /\ newest'.execs = newest.execs /\ newest'.stateful = newest.stateful
        /\ call' = [call EXCEPT !.resumed = TRUE, !.failure = NoFailure] /\ host' = host
    BY <2>1, ResumesDoes
  <2>3. call'.checkpoint = call.checkpoint /\ call'.shown = call.shown /\ call'.failure = NoFailure /\ call'.resumed
    BY <2>2 DEF TurnTypeOK
  <2> QED
    BY <1>2, <2>1, <2>2, <2>3 DEF Reopen
<1> QED
  BY <1>1, <1>2

\* The message continues the turn from a checkpoint.
LEMMA ReopenWithUserMessageDoes ==
    ASSUME TurnTypeOK, ReopenWithUserMessage
    PROVE  /\ phase = "pumping" /\ phase' = phase /\ call' = call /\ Queued("end") /\ newest.emitted = {}
           /\ FollowUp \notin host.done /\ newest.barrier # "none"
           /\ Continued # Void /\ Continued \in SUBSET Known
           /\ down' = <<>> /\ up' = {} /\ host' = [host EXCEPT !.done = @ \union {FollowUp}]
           /\ newest'.taken = Continued \union {FollowUp} /\ newest'.missed = host.done \ Continued
           /\ newest'.saved = Void /\ newest'.resume = Void /\ newest'.revoked /\ ~newest'.byResult
           /\ ~newest'.eligible /\ Waiting' = Waiting /\ SameCalls /\ SameDeeds
<1>1. Continued # Void /\ Continued \in SUBSET Known
  BY DEF ReopenWithUserMessage, Continued, TurnTypeOK, Runs, Checkpoints
<1>2. newest' = [newest EXCEPT !.taken = Continued \union {FollowUp}, !.missed = host.done \ Continued,
                          !.saved = Void, !.resume = Void, !.eligible = FALSE,
                          !.revoked = TRUE, !.byResult = FALSE, !.after = 0]
  BY DEF ReopenWithUserMessage
<1>3. newest'.taken = Continued \union {FollowUp} /\ newest'.missed = host.done \ Continued
      /\ newest'.saved = Void /\ newest'.resume = Void /\ newest'.revoked = TRUE /\ newest'.byResult = FALSE
      /\ newest'.eligible = FALSE /\ newest'.unacked = newest.unacked /\ SameCalls /\ SameDeeds
  BY <1>2 DEF TurnTypeOK, Runs, SameCalls, SameDeeds
<1>4. Queued("end")
  <2>1. 1 \in DOMAIN down /\ Head(down) = down[1]
    BY RestTyped DEF ReopenWithUserMessage, TurnTypeOK
  <2> QED
    BY <2>1 DEF ReopenWithUserMessage, Queued
<1> QED
  BY <1>1, <1>3, <1>4 DEF ReopenWithUserMessage, Waiting

\* The results of a step are written to the held Run.
LEMMA DeliverDoes ==
    ASSUME TurnTypeOK, Deliver
    PROVE  /\ phase = "tools" /\ phase' = "pumping" /\ call' = NewCall /\ down' = down
           /\ host.running = {} /\ up' = up \union newest.emitted
           /\ newest'.taken = newest.taken /\ newest'.saved = newest.saved /\ newest'.missed = newest.missed
           /\ newest'.execs = newest.execs /\ newest'.stateful = newest.stateful
           /\ newest'.emitted = {} /\ newest'.resume = Void /\ newest'.revoked /\ ~newest'.eligible
           /\ newest'.byResult = (~newest.revoked \/ newest.byResult)
           /\ Waiting' = Waiting \union newest.emitted
           /\ host' = [host EXCEPT !.prompt = host.done \ {FollowUp}, !.trailing = newest.emitted]
<1>1. PICK arrived \in 0..Len(down), nameless \in SUBSET newest.emitted :
          newest' = [newest EXCEPT
              !.emitted = {}, !.barrier = "none", !.own = TRUE, !.eligible = FALSE,
              !.resume = Void, !.byResult = ~newest.revoked \/ @, !.revoked = TRUE, !.after = arrived,
              !.unacked = @ \union {[tool |-> t, named |-> t \notin nameless, after |-> arrived] : t \in newest.emitted}]
  BY DEF Deliver
<1> DEFINE more == {[tool |-> t, named |-> t \notin nameless, after |-> arrived] : t \in newest.emitted}
<1>2. {u.tool : u \in more} = newest.emitted
  <2>1. ASSUME NEW t \in newest.emitted PROVE \E u \in more : u.tool = t
    <3>1. [tool |-> t, named |-> t \notin nameless, after |-> arrived] \in more
      OBVIOUS
    <3>2. [tool |-> t, named |-> t \notin nameless, after |-> arrived].tool = t
      OBVIOUS
    <3> HIDE DEF more
    <3> QED
      BY <3>1, <3>2
  <2>2. \A u \in more : u.tool \in newest.emitted
    OBVIOUS
  <2> HIDE DEF more
  <2> QED
    BY <2>1, <2>2
<1> HIDE DEF more
<1>3. newest' = [newest EXCEPT
              !.emitted = {}, !.barrier = "none", !.own = TRUE, !.eligible = FALSE,
              !.resume = Void, !.byResult = ~newest.revoked \/ @, !.revoked = TRUE, !.after = arrived,
              !.unacked = newest.unacked \union more]
  BY <1>1 DEF more, TurnTypeOK, Runs
<1>4. /\ newest'.taken = newest.taken /\ newest'.saved = newest.saved /\ newest'.missed = newest.missed
      /\ newest'.execs = newest.execs /\ newest'.stateful = newest.stateful
      /\ newest'.emitted = {} /\ newest'.resume = Void /\ newest'.revoked = TRUE /\ newest'.eligible = FALSE
      /\ newest'.byResult = (~newest.revoked \/ newest.byResult)
      /\ newest'.unacked = newest.unacked \union more
  BY <1>3 DEF TurnTypeOK, Runs
<1>5. Waiting' = Waiting \union newest.emitted
  BY <1>2, <1>4 DEF Waiting
<1> QED
  BY <1>4, <1>5 DEF Deliver, Prompt

\* The results of a step go to a fresh Run.
LEMMA RebaseContinuationDoes ==
    ASSUME TurnTypeOK, RebaseContinuation
    PROVE  /\ phase = "tools" /\ phase' = "opening" /\ call' = NewCall /\ host.running = {}
           /\ Opened(newest.emitted) /\ newest'.saved = Void /\ newest'.execs = {} /\ ~newest'.eligible
           /\ host' = [host EXCEPT !.prompt = host.done \ {FollowUp}, !.trailing = newest.emitted,
                                   !.lost = host.done \ newest.emitted]
<1> DEFINE new == NewRun(newest.emitted, TRUE, FALSE)
<1>1. new \in Runs
  BY NewRunTyped DEF TurnTypeOK, Runs, Known
<1>2. Prompt.trailing = newest.emitted
  BY DEF Prompt, TurnTypeOK
<1>3. newest' = [new EXCEPT !.missed = host.done \ newest.emitted] /\ down' = <<>> /\ up' = {}
      /\ host' = [Prompt EXCEPT !.lost = host.done \ newest.emitted]
  BY <1>2 DEF RebaseContinuation
<1>4. /\ new.taken = newest.emitted /\ new.eligible = FALSE /\ new.resume = Void /\ new.saved = Void /\ new.execs = {}
      /\ new.revoked = FALSE /\ new.byResult = FALSE /\ new.unacked = {}
      /\ new.barrier = "none" /\ new.emitted = {}
  BY DEF NewRun
<1> HIDE DEF new
<1>5. /\ newest'.taken = newest.emitted /\ newest'.missed = host.done \ newest.emitted
      /\ newest'.eligible = FALSE /\ newest'.resume = Void
      /\ newest'.revoked = FALSE /\ newest'.byResult = FALSE /\ newest'.unacked = {}
      /\ newest'.barrier = "none" /\ newest'.emitted = {}
      /\ newest'.saved = Void /\ newest'.execs = {}
  BY <1>1, <1>3, <1>4 DEF Runs
<1>6. host' = [host EXCEPT !.prompt = host.done \ {FollowUp}, !.trailing = newest.emitted,
                                   !.lost = host.done \ newest.emitted]
  BY <1>3 DEF Prompt
<1> QED
  BY <1>3, <1>5, <1>6 DEF RebaseContinuation, Opened, Waiting

\* What the pump reads leaves the rest in order.
LEMMA PumpStream ==
    ASSUME TurnTypeOK, TurnTypeOK', StreamOK, Pump
    PROVE  StreamOK'
<1>1. CASE ReadText
  BY <1>1, ReadTextDoes, ReadKeepsStream DEF Reads, SameWork, SameCalls
<1>2. CASE ReadOpaque
  BY <1>2, ReadOpaqueDoes, ReadKeepsStream DEF Reads, SameWork, SameCalls
<1>3. CASE ReadExec
  <2> DEFINE t == Head(down).item
  <2>1. /\ Reads("exec") /\ Waiting' = Waiting
        /\ newest'.execs = newest.execs \union {t} /\ newest'.emitted = newest.emitted \union {t}
    BY <1>3, ReadExecDoes
  <2>2. down[1].kind = "exec" /\ down[1].item = t /\ 1 \in DOMAIN down
    BY <2>1, RestTyped DEF Reads, TurnTypeOK
  <2>3. \A i \in DOMAIN down' : i + 1 \in DOMAIN down /\ down'[i] = down[i + 1] /\ i \in Nat /\ i + 1 # 1
    BY <2>1, RestTyped DEF Reads, TurnTypeOK
  <2>4. down[1] = [kind |-> "exec", item |-> t] /\ \A i \in DOMAIN down : down[i] \in StreamFrames
    BY <2>2 DEF TurnTypeOK, StreamFrames
  <2>5. \A f \in StreamFrames : f.kind = "exec" => f = [kind |-> "exec", item |-> f.item]
    BY DEF StreamFrames
  <2>6. t \notin newest.taken \union newest.execs
        /\ \A i \in DOMAIN down' : down'[i].kind = "exec" => down'[i].item # t
    BY <2>2, <2>3, <2>4, <2>5 DEF StreamOK, CalledOnce
  <2>7. CheckpointsSaved' /\ CompletionsTaken'
    BY <2>1, <2>3 DEF StreamOK, CheckpointsSaved, CompletionsTaken, Reads, SameWork
  <2>8. Queued("exec")
    BY <2>2 DEF Queued
  <2>9. EndIsLast'
    BY <2>1, <2>3, <2>8 DEF StreamOK, EndIsLast, Queued
  <2>10. CalledOnce'
    BY <2>1, <2>3, <2>6 DEF StreamOK, CalledOnce, Reads, SameWork
  <2> QED
    BY <2>7, <2>9, <2>10 DEF StreamOK
<1>4. CASE StepCloses
  BY <1>4 DEF StepCloses, StreamOK, CheckpointsSaved, CompletionsTaken, EndIsLast, CalledOnce,
     Queued, Waiting
<1>5. CASE ReadCompleted
  BY <1>5, ReadCompletedDoes, ReadKeepsStream DEF Reads, SameWork, SameCalls
<1>6. CASE ReadCheckpoint
  BY <1>6, ReadCheckpointDoes, ReadKeepsStream DEF Reads, SameWork, SameCalls
<1>7. CASE ReadEnd
  BY <1>7, OverStream DEF ReadEnd
<1>8. CASE ReopenWithUserMessage
  BY <1>8, ReopenWithUserMessageDoes, FreshStream DEF SameCalls, StreamOK, CalledOnce
<1>9. CASE ReadFailure \/ FinishInterruptedTools
  <2>1. newest' = [newest EXCEPT !.open = FALSE] /\ down # <<>> /\ down' = Tail(down) /\ up' = up
    BY <1>9 DEF ReadFailure, FinishInterruptedTools, Read
  <2> QED
    BY <2>1, ReadKeepsStream DEF Waiting, TurnTypeOK, Runs
<1> QED
  BY <1>1, <1>2, <1>3, <1>4, <1>5, <1>6, <1>7, <1>8, <1>9 DEF Pump

\* A Run opened in place has a stream of its own.
LEMMA RecoversStream ==
    ASSUME TurnTypeOK, TurnTypeOK', StreamOK, Recovers
    PROVE  StreamOK'
<1>1. ASSUME UNCHANGED <<newest, down, up>> PROVE StreamOK'
  BY <1>1 DEF StreamOK, CheckpointsSaved, CompletionsTaken, EndIsLast, CalledOnce, Queued, Waiting
<1>2. CASE RenewCredential
  BY <1>1, <1>2 DEF RenewCredential
<1>3. CASE WaitOffline \/ LeaveToHost \/ Retry \/ NetworkReturns \/ OpenFirst
  BY <1>1, <1>3 DEF WaitOffline, LeaveToHost, Retry, NetworkReturns, OpenFirst, Goes
<1>4. CASE GiveUp \/ WindowEnds
  BY <1>4, OverStream DEF GiveUp, WindowEnds
<1>5. CASE Reopen
  BY <1>5, ReopenDoes, FreshStream DEF Opened
<1>6. ASSUME NEW kind \in Kinds, ReopenFails(kind) \/ OpenFails(kind) PROVE StreamOK'
  BY <1>1, <1>6, OverStream DEF ReopenFails, OpenFails, Goes
<1> QED
  BY <1>2, <1>3, <1>4, <1>5, <1>6 DEF Recovers

\* The results of a step wait behind the frames that arrived before them.
LEMMA HostStream ==
    ASSUME TurnTypeOK, TurnTypeOK', StreamOK, Host
    PROVE  StreamOK'
<1>1. CASE HostRetries
  BY <1>1, HostRetriesDoes, FreshStream DEF Opened
<1>2. CASE Deliver
  <2>1. /\ down' = down /\ up' = up \union newest.emitted
        /\ newest'.taken = newest.taken /\ newest'.saved = newest.saved
        /\ newest'.execs = newest.execs /\ newest'.emitted = {} /\ Waiting' = Waiting \union newest.emitted
    BY <1>2, DeliverDoes
  <2> QED
    BY <2>1 DEF StreamOK, CheckpointsSaved, CompletionsTaken, EndIsLast, CalledOnce, Queued
<1>3. CASE RebaseContinuation
  BY <1>3, RebaseContinuationDoes, FreshStream DEF Opened
<1>4. CASE HostStops
  BY <1>4, OverStream DEF HostStops
<1>5. ASSUME NEW t \in TurnTools, HostExecutes(t) PROVE StreamOK'
  BY <1>5 DEF HostExecutes, StreamOK, CheckpointsSaved, CompletionsTaken, EndIsLast, CalledOnce,
     Queued, Waiting
<1> QED
  BY <1>1, <1>2, <1>3, <1>4, <1>5 DEF Host

\* The stream stays in order.
LEMMA StreamKept ==
    ASSUME TurnTypeOK, TurnTypeOK', StreamOK, TurnNext
    PROVE  StreamOK'
BY CursorStream, PumpStream, RecoversStream, HostStream DEF TurnNext

\* The attempt's checkpoint, when it fails.
KeptAfter(checkpoint) ==
    IF newest.resume # Void THEN newest.resume ELSE IF newest.revoked THEN Void ELSE checkpoint

SameRun == SameWork /\ SameCalls /\ SameResume /\ SameDeeds /\ Waiting' = Waiting

\* Cursor changes what it took and saved of the Run, and nothing else of it.
LEMMA CursorDoes ==
    ASSUME TurnTypeOK, Cursor
    PROVE  /\ phase' = phase /\ call' = call /\ host' = host
           /\ newest'.missed = newest.missed /\ newest'.eligible = newest.eligible
           /\ SameCalls /\ SameResume /\ SameDeeds /\ Waiting' = Waiting
           /\ newest.taken \subseteq newest'.taken
           /\ newest'.saved = newest.saved \/ newest'.saved = newest'.taken
<1> USE DEF TurnTypeOK, Runs, SameCalls, SameResume, SameDeeds, Waiting
<1>1. CASE UNCHANGED newest /\ UNCHANGED <<phase, call, host>>
  BY <1>1
<1>2. ASSUME NEW t \in TurnTools, CursorTakes(t)
      PROVE  newest' = [newest EXCEPT !.taken = @ \union {t}] /\ UNCHANGED <<phase, call, host>>
  BY <1>2 DEF CursorTakes
<1>3. ASSUME CursorSaves
      PROVE  newest' = [newest EXCEPT !.saved = newest.taken] /\ UNCHANGED <<phase, call, host>>
  BY <1>3 DEF CursorSaves
<1>4. ASSUME NEW t \in TurnTools, newest' = [newest EXCEPT !.taken = @ \union {t}], UNCHANGED <<phase, call, host>>
      PROVE  /\ phase' = phase /\ call' = call /\ host' = host
             /\ newest'.missed = newest.missed /\ newest'.eligible = newest.eligible
             /\ SameCalls /\ SameResume /\ SameDeeds /\ Waiting' = Waiting
             /\ newest.taken \subseteq newest'.taken
             /\ newest'.saved = newest.saved
  BY <1>4
<1>5. ASSUME newest' = [newest EXCEPT !.saved = newest.taken], UNCHANGED <<phase, call, host>>
      PROVE  /\ phase' = phase /\ call' = call /\ host' = host
             /\ newest'.missed = newest.missed /\ newest'.eligible = newest.eligible
             /\ SameCalls /\ SameResume /\ SameDeeds /\ Waiting' = Waiting
             /\ newest.taken = newest'.taken
             /\ newest'.saved = newest'.taken
  BY <1>5
<1>6. CASE CursorSpeaks \/ CursorActs \/ CursorEnds \/ (\E t \in TurnTools : CursorCalls(t))
           \/ (\E kind \in Kinds : StreamBreaks(kind))
  BY <1>1, <1>6 DEF CursorSpeaks, CursorActs, CursorEnds, CursorCalls, StreamBreaks
<1>7. CASE CursorSaves
  BY <1>3, <1>5, <1>7
<1>8. ASSUME NEW t \in TurnTools, CursorTakes(t)
      PROVE  /\ phase' = phase /\ call' = call /\ host' = host
             /\ newest'.missed = newest.missed /\ newest'.eligible = newest.eligible
             /\ SameCalls /\ SameResume /\ SameDeeds /\ Waiting' = Waiting
             /\ newest.taken \subseteq newest'.taken
             /\ newest'.saved = newest.saved
  BY <1>2, <1>4, <1>8
<1> QED
  BY <1>6, <1>7, <1>8 DEF Cursor

\* What the catch keeps of the attempt.
LEMMA CaughtDoes ==
    ASSUME TurnTypeOK, NEW failure,
           NEW c \in [checkpoint : Checkpoints, resumed : BOOLEAN, stuck : Nat, renewed : BOOLEAN,
                 failure : Failures, shown : BOOLEAN],
           Caught(failure, c)
    PROVE  /\ phase' = "failed" /\ call'.failure = failure /\ call'.shown = c.shown
           /\ call'.checkpoint = KeptAfter(c.checkpoint)
<1> DEFINE stuck == IF newest.resume # Void THEN 0
                    ELSE IF Transient(failure) /\ ~newest.revoked /\ c.resumed /\ failure.barrier # "none"
                    THEN c.stuck + 1 ELSE c.stuck
<1>1. call' = [c EXCEPT !.failure = failure, !.checkpoint = KeptAfter(c.checkpoint), !.stuck = stuck]
  BY DEF Caught, KeptAfter
<1> HIDE DEF stuck
<1> QED
  BY <1>1 DEF Caught

\* An attempt that did something is not safe to replay, nor unusable.
LEMMA ReadFailureDoes ==
    ASSUME TurnTypeOK, ReadFailure
    PROVE  /\ phase = "pumping" /\ phase' = "failed" /\ Reads("fail") /\ SameRun /\ newest.emitted = {}
           /\ host' = host /\ call'.shown = call.shown /\ call'.checkpoint = KeptAfter(call.checkpoint)
           /\ call'.failure.unusable => newest.eligible /\ newest.barrier = "none"
           /\ ~call'.failure.unusable =>
                 /\ call'.failure.safe => newest.barrier = "none" /\ ~newest.stateful
                 /\ newest.barrier # "none" => call'.failure.barrier # "none"
<1>1. newest' = [newest EXCEPT !.open = FALSE]
  BY DEF ReadFailure
<1>2. SameRun
  BY <1>1 DEF TurnTypeOK, Runs, SameRun, SameWork, SameCalls, SameResume, SameDeeds, Waiting
<1>3. PICK intact \in {TRUE, newest.barrier # "none"}, blobMiss \in {FALSE, newest.eligible} :
          LET kind == Head(down).item
              unusable == blobMiss /\ newest.barrier = "none" /\ kind # "rejected"
              safe == newest.barrier = "none" /\ ~newest.stateful /\ intact
              met == IF newest.barrier = "none" THEN "none" ELSE IF newest.stateful THEN "stateful" ELSE "output"
          IN Caught(IF unusable THEN Fails(kind, TRUE, "none", TRUE) ELSE Fails(kind, safe, met, FALSE), call)
  BY DEF ReadFailure
<1> DEFINE kind == Head(down).item
           unusable == blobMiss /\ newest.barrier = "none" /\ kind # "rejected"
           safe == newest.barrier = "none" /\ ~newest.stateful /\ intact
           met == IF newest.barrier = "none" THEN "none" ELSE IF newest.stateful THEN "stateful" ELSE "output"
           failure == IF unusable THEN Fails(kind, TRUE, "none", TRUE) ELSE Fails(kind, safe, met, FALSE)
<1>4. Caught(failure, call)
  BY <1>3
<1>5. /\ failure.unusable => newest.eligible /\ newest.barrier = "none"
      /\ ~failure.unusable =>
            /\ failure.safe => newest.barrier = "none" /\ ~newest.stateful
            /\ newest.barrier # "none" => failure.barrier # "none"
  BY DEF Fails
<1> HIDE DEF failure
<1>6. /\ phase' = "failed" /\ call'.failure = failure /\ call'.shown = call.shown
      /\ call'.checkpoint = KeptAfter(call.checkpoint)
  BY <1>4, CaughtDoes DEF TurnTypeOK
<1> QED
  BY <1>2, <1>5, <1>6 DEF ReadFailure, Read, Reads, SameRun

\* A replacement that does not open did nothing.
LEMMA ReopenFailsDoes ==
    ASSUME TurnTypeOK, NEW kind, ReopenFails(kind)
    PROVE  \/ Over("gaveUp")
           \/ /\ phase = "reopening" /\ phase' = "failed" /\ UNCHANGED <<newest, down, up, host>>
              /\ call'.failure = Fails(kind, TRUE, "none", FALSE) /\ call'.shown = call.shown
              /\ call'.checkpoint = KeptAfter(IF call.failure.unusable THEN Void ELSE call.checkpoint)
<1>1. CASE ~Over("gaveUp")
  <2> DEFINE kept == IF call.failure.unusable THEN Void ELSE call.checkpoint
             c == [call EXCEPT !.checkpoint = kept, !.resumed = kept # Void]
  <2>1. Caught(Fails(kind, TRUE, "none", FALSE), c)
    BY <1>1 DEF ReopenFails
  <2>2. c \in [checkpoint : Checkpoints, resumed : BOOLEAN, stuck : Nat, renewed : BOOLEAN,
                 failure : Failures, shown : BOOLEAN] /\ c.checkpoint = kept /\ c.shown = call.shown
    BY DEF TurnTypeOK, Checkpoints
  <2> HIDE DEF c
  <2>3. /\ phase' = "failed" /\ call'.failure = Fails(kind, TRUE, "none", FALSE) /\ call'.shown = call.shown
        /\ call'.checkpoint = KeptAfter(kept)
    BY <2>1, <2>2, CaughtDoes
  <2> QED
    BY <1>1, <2>3 DEF ReopenFails
<1> QED
  BY <1>1

\* Calls the host already has end the step.
LEMMA InterruptedDoes ==
    ASSUME TurnTypeOK, FinishInterruptedTools
    PROVE  /\ phase = "pumping" /\ phase' = "tools" /\ Reads("fail") /\ SameRun /\ newest.emitted # {}
           /\ UNCHANGED <<call, host>>
BY DEF FinishInterruptedTools, Read, Reads, SameRun, SameWork, SameCalls, SameResume, SameDeeds,
   Waiting, TurnTypeOK, Runs

\* What the end of a turn forgets.
LEMMA OverDoes ==
    ASSUME TurnTypeOK, NEW outcome, Over(outcome)
    PROVE  /\ phase' = outcome /\ newest'.emitted = {} /\ newest'.missed = {} /\ newest'.resume = Void
           /\ down' = <<>> /\ ~call'.failure.unusable /\ ~call'.shown /\ call'.checkpoint = Void
           /\ host'.done = {} /\ host'.prompt = {} /\ host'.running = {}
BY DEF Over, NewRun, NewCall, NoFailure, TurnTypeOK

\* A call starts without a checkpoint, a failure or text.
LEMMA NewCallFields ==
    NewCall.checkpoint = Void /\ ~NewCall.shown /\ NewCall.failure = NoFailure
    /\ NoFailure.unusable = FALSE
BY DEF NewCall, NoFailure

\* Opening a Run leaves what the host did.
LEMMA OpenedHost ==
    ASSUME TurnTypeOK, HostOK, newest.emitted = {}, newest'.emitted = {}, phase' # "tools",
           host'.done = host.done, host'.prompt = host.prompt, host'.running = host.running,
           host'.trailing = host.trailing
    PROVE  HostOK'
BY DEF HostOK

\* What the host did is in its prompt once delivered; calls it still has are the
\* open step, and mark the Run as stateful.
LEMMA HostKept ==
    ASSUME TurnTypeOK, TurnTypeOK', HostOK, TurnNext
    PROVE  HostOK'
<1>1. CASE Cursor
  BY <1>1, CursorDoes DEF HostOK, SameCalls, SameDeeds
<1>2. ASSUME phase' \in {"tools", "pumping"}, phase = "pumping", SameCalls, newest.stateful
          => newest'.stateful,
             phase' = "pumping" \/ newest.emitted # {}, host' = host
      PROVE  HostOK'
  BY <1>2 DEF HostOK, SameCalls
<1>3. CASE ReadText
  BY <1>2, <1>3, ReadTextDoes DEF ReadText, Reads
<1>4. CASE ReadOpaque
  BY <1>2, <1>4, ReadOpaqueDoes DEF ReadOpaque, Reads
<1>5. CASE ReadExec
  <2>1. host'.done = host.done /\ host'.prompt = host.prompt /\ host'.trailing = host.trailing
        /\ host'.running = newest'.emitted /\ phase' \in {"pumping", "tools"}
        /\ newest'.emitted = newest.emitted \union {Head(down).item} /\ newest'.stateful
    BY <1>5, ReadExecDoes DEF TurnTypeOK
  <2> QED
    BY <2>1 DEF HostOK
<1>6. CASE StepCloses
  BY <1>2, <1>6 DEF StepCloses, SameCalls
<1>7. CASE ReadCompleted
  BY <1>2, <1>7, ReadCompletedDoes DEF ReadCompleted, Reads, SameDeeds
<1>8. CASE ReadCheckpoint
  BY <1>2, <1>8, ReadCheckpointDoes DEF ReadCheckpoint, Reads, SameDeeds
<1>9. ASSUME NEW outcome \in {"answered", "gaveUp", "stopped"}, Over(outcome) PROVE HostOK'
  BY <1>9, OverDoes DEF HostOK
<1>10. CASE ReadEnd \/ GiveUp \/ WindowEnds \/ HostStops
  BY <1>9, <1>10 DEF ReadEnd, GiveUp, WindowEnds, HostStops
<1>11. CASE ReopenWithUserMessage
  <2>1. phase' = "pumping" /\ newest.emitted = {} /\ SameCalls /\ host'.done = host.done \union {FollowUp}
        /\ host'.prompt = host.prompt /\ host'.trailing = host.trailing /\ host'.running = host.running
    BY <1>11, ReopenWithUserMessageDoes DEF TurnTypeOK
  <2> QED
    BY <2>1 DEF HostOK, SameCalls
<1>12. CASE ReadFailure
  BY <1>12, ReadFailureDoes DEF HostOK, SameRun, SameCalls
<1>13. CASE FinishInterruptedTools
  BY <1>2, <1>13, InterruptedDoes DEF SameRun, SameDeeds
<1>14. ASSUME phase \notin {"pumping", "tools"}, phase' # "tools", UNCHANGED <<newest, host>>
       PROVE  HostOK'
  BY <1>14 DEF HostOK
<1>15. CASE RenewCredential
  BY <1>14, <1>15 DEF RenewCredential
<1>16. CASE WaitOffline \/ LeaveToHost \/ Retry \/ NetworkReturns \/ OpenFirst
  BY <1>14, <1>16 DEF WaitOffline, LeaveToHost, Retry, NetworkReturns, OpenFirst, Goes
<1>17. CASE Reopen
  <2>1. /\ phase = "reopening" /\ phase' = "pumping" /\ newest'.emitted = {}
        /\ \/ host' = host
           \/ \E lost : host' = [host EXCEPT !.lost = lost]
    BY <1>17, ReopenDoes DEF Opened
  <2>2. host'.done = host.done /\ host'.prompt = host.prompt /\ host'.trailing = host.trailing
        /\ host'.running = host.running
    BY <2>1 DEF TurnTypeOK
  <2> QED
    BY <2>1, <2>2, OpenedHost DEF HostOK
<1>18. ASSUME NEW kind \in Kinds, ReopenFails(kind) PROVE HostOK'
  BY <1>9, <1>14, <1>18, ReopenFailsDoes
<1>19. ASSUME NEW kind \in Kinds, OpenFails(kind) PROVE HostOK'
  BY <1>9, <1>14, <1>19 DEF OpenFails, Goes
<1>20. CASE HostRetries
  <2>1. /\ phase = "hostRetry" /\ phase' = "opening" /\ newest'.emitted = {}
        /\ \/ host' = host
           \/ \E lost : host' = [host EXCEPT !.lost = lost]
    BY <1>20, HostRetriesDoes DEF Opened
  <2>2. host'.done = host.done /\ host'.prompt = host.prompt /\ host'.trailing = host.trailing
        /\ host'.running = host.running
    BY <2>1 DEF TurnTypeOK
  <2> QED
    BY <2>1, <2>2, OpenedHost DEF HostOK
<1>21. CASE Deliver
  <2>1. phase = "tools" /\ phase' = "pumping" /\ host.running = {} /\ newest'.emitted = {}
        /\ host'.done = host.done /\ host'.prompt = host.done \ {FollowUp} /\ host'.trailing = newest.emitted
        /\ host'.running = host.running
    BY <1>21, DeliverDoes DEF TurnTypeOK
  <2> QED
    BY <2>1 DEF HostOK
<1>22. CASE RebaseContinuation
  <2>1. phase = "tools" /\ phase' = "opening" /\ host.running = {} /\ newest'.emitted = {}
        /\ host'.done = host.done /\ host'.prompt = host.done \ {FollowUp} /\ host'.trailing = newest.emitted
        /\ host'.running = host.running
    BY <1>22, RebaseContinuationDoes DEF TurnTypeOK, Opened
  <2> QED
    BY <2>1 DEF HostOK
<1>23. ASSUME NEW t \in TurnTools, HostExecutes(t) PROVE HostOK'
  <2>1. phase = "tools" /\ phase' = phase /\ newest' = newest /\ t \in host.running
        /\ host'.done = host.done \union {t} /\ host'.prompt = host.prompt /\ host'.trailing = host.trailing
        /\ host'.running = host.running \ {t}
    BY <1>23 DEF HostExecutes, TurnTypeOK
  <2> QED
    BY <2>1 DEF HostOK
<1> QED
  BY <1>1, <1>3, <1>4, <1>5, <1>6, <1>7, <1>8, <1>10, <1>11, <1>12, <1>13, <1>15, <1>16, <1>17,
     <1>18,
     <1>19, <1>20, <1>21, <1>22, <1>23 DEF TurnNext, Pump, Recovers, Host

\* A checkpoint Cursor saves serves: what the host delivered is in it, or waits
\* to be taken behind it.
LEMMA CursorHolds ==
    ASSUME TurnTypeOK, TurnTypeOK', StreamOK, HoldsOK, Cursor
    PROVE  HoldsOK'
<1>1. /\ phase' = phase /\ call' = call /\ host' = host /\ newest'.missed = newest.missed
      /\ newest'.emitted = newest.emitted /\ newest'.resume = newest.resume /\ newest'.revoked = newest.revoked
      /\ Waiting' = Waiting /\ newest.taken \subseteq newest'.taken
  BY CursorDoes DEF SameCalls, SameResume
<1>2. Delivered' = Delivered
  BY <1>1 DEF Delivered
<1>3. RunsHoldResults' /\ DeliveredKnown' /\ ResumeServes'
  BY <1>1, <1>2 DEF HoldsOK, RunsHoldResults, DeliveredKnown, ResumeServes
<1>4. ASSUME NEW f, down' = Append(down, f),
             f.kind = "checkpoint" => f.item = newest.taken
      PROVE  CheckpointsServe'
  <2> SUFFICES ASSUME NEW i \in DOMAIN down', down'[i].kind = "checkpoint", NEW t \in Delivered,
                      t \notin down'[i].item
               PROVE  t \in Waiting /\ ~CompletedBefore(t, i)'
    BY <1>1, <1>2 DEF CheckpointsServe
  <2>1. down \in Seq(StreamFrames) /\ DOMAIN down = 1..Len(down) /\ Len(down) \in Nat
        /\ \A j \in 1..Len(down) : down'[j] = down[j]
    BY <1>4, FramesSent DEF TurnTypeOK
  <2>2. CASE i \in DOMAIN down
    <3>1. t \in Waiting /\ ~CompletedBefore(t, i)
      BY <1>4, <2>1, <2>2 DEF HoldsOK, CheckpointsServe
    <3>2. \A j \in 1..(i - 1) : down'[j] = down[j]
      BY <2>1, <2>2
    <3> QED
      BY <3>1, <3>2 DEF CompletedBefore
  <2>3. CASE i = Len(down) + 1
    <3>1. down'[i] = f
      BY <1>4, <2>1, <2>3, FramesSent
    <3>2. t \notin newest.taken /\ t \in Waiting
      BY <1>4, <2>3, <3>1 DEF HoldsOK, DeliveredKnown
    <3>3. ASSUME NEW j \in 1..(i - 1), down'[j] = StreamFrame("completed", t) PROVE FALSE
      <4>1. j \in DOMAIN down /\ down[j] = StreamFrame("completed", t)
        BY <2>1, <2>3, <3>3
      <4> QED
        BY <3>2, <4>1 DEF StreamOK, CompletionsTaken, StreamFrame
    <3> QED
      BY <3>2, <3>3 DEF CompletedBefore
  <2> QED
    BY <1>4, <2>2, <2>3, FramesSent, <2>1 DEF TurnTypeOK
<1>5. ASSUME NEW kind, NEW item, Send(StreamFrame(kind, item)), kind # "checkpoint"
      PROVE  CheckpointsServe'
  <2>1. StreamFrame(kind, item).kind # "checkpoint"
    BY <1>5 DEF StreamFrame
  <2> QED
    BY <1>4, <1>5, <2>1 DEF Send
<1>10. ASSUME CursorSpeaks PROVE CheckpointsServe'
  <2>1. Send(StreamFrame("text", Void))
    BY <1>10 DEF CursorSpeaks
  <2> QED
    BY <1>5, <2>1
<1>11. ASSUME CursorActs PROVE CheckpointsServe'
  <2>1. Send(StreamFrame("opaque", Void))
    BY <1>11 DEF CursorActs
  <2> QED
    BY <1>5, <2>1
<1>12. ASSUME CursorEnds PROVE CheckpointsServe'
  <2>1. Send(StreamFrame("end", Void))
    BY <1>12 DEF CursorEnds
  <2> QED
    BY <1>5, <2>1
<1>13. ASSUME NEW t \in TurnTools, CursorCalls(t) PROVE CheckpointsServe'
  BY <1>5, <1>13 DEF CursorCalls
<1>6. ASSUME CursorSaves PROVE CheckpointsServe'
  <2>1. StreamFrame("checkpoint", newest.taken).item = newest.taken
    BY DEF StreamFrame
  <2>2. down' = Append(down, StreamFrame("checkpoint", newest.taken))
    BY <1>6 DEF CursorSaves, Send
  <2> QED
    BY <1>4, <2>1, <2>2
<1>7. ASSUME NEW t \in TurnTools, CursorTakes(t) PROVE CheckpointsServe'
  <2>1. CASE down' = down
    BY <1>1, <1>2, <2>1 DEF HoldsOK, CheckpointsServe, CompletedBefore
  <2>2. CASE down' = Append(down, StreamFrame("completed", t))
    <3>1. StreamFrame("completed", t).kind # "checkpoint"
      BY DEF StreamFrame
    <3> QED
      BY <1>4, <2>2, <3>1
  <2> QED
    BY <1>7, <2>1, <2>2 DEF CursorTakes, Send
<1>8. ASSUME NEW kind \in Kinds, StreamBreaks(kind) PROVE CheckpointsServe'
  <2> SUFFICES ASSUME NEW i \in DOMAIN down', down'[i].kind = "checkpoint", NEW t \in Delivered,
                      t \notin down'[i].item
               PROVE  t \in Waiting /\ ~CompletedBefore(t, i)'
    BY <1>1, <1>2 DEF CheckpointsServe
  <2>1. PICK n \in 0..Len(down) : down' = Append(SubSeq(down, 1, n), StreamFrame("fail", kind))
    BY <1>8 DEF StreamBreaks
  <2>2. /\ DOMAIN down' = 1..(n + 1) /\ down'[n + 1] = StreamFrame("fail", kind)
        /\ \A j \in 1..n : j \in DOMAIN down /\ down'[j] = down[j]
    BY <2>1 DEF TurnTypeOK
  <2>3. i # n + 1
    BY <2>2 DEF StreamFrame
  <2>4. i \in 1..n
    BY <2>1, <2>2, <2>3
  <2>5. t \in Waiting /\ ~CompletedBefore(t, i)
    BY <2>2, <2>4 DEF HoldsOK, CheckpointsServe
  <2>6. \A j \in 1..(i - 1) : down'[j] = down[j]
    BY <2>2, <2>4
  <2> QED
    BY <2>5, <2>6 DEF CompletedBefore
<1>9. CheckpointsServe'
  <2>1. CASE \E t \in TurnTools : CursorCalls(t) \/ CursorTakes(t)
    BY <1>7, <1>13, <2>1
  <2>2. CASE \E kind \in Kinds : StreamBreaks(kind)
    BY <1>8, <2>2
  <2> QED
    BY <1>6, <1>10, <1>11, <1>12, <2>1, <2>2 DEF Cursor
<1> QED
  BY <1>3, <1>9 DEF HoldsOK

\* Reading a frame leaves those behind it as they serve.
LEMMA RestServes ==
    ASSUME TurnTypeOK, HoldsOK, down # <<>>, down' = Tail(down), Delivered' \subseteq Delivered,
           \/ Waiting' = Waiting
           \/ Head(down).kind = "completed" /\ Waiting \ {Head(down).item} \subseteq Waiting'
    PROVE  CheckpointsServe'
<1> SUFFICES ASSUME NEW i \in DOMAIN down', down'[i].kind = "checkpoint", NEW t \in Delivered,
                    t \notin down'[i].item
             PROVE  t \in Waiting' /\ ~CompletedBefore(t, i)'
  BY DEF CheckpointsServe
<1>1. /\ i \in Nat /\ i > 0 /\ i + 1 \in DOMAIN down /\ down[i + 1] = down'[i] /\ down[1] = Head(down)
      /\ \A j \in 1..(i - 1) : down'[j] = down[j + 1]
      /\ Head(down) \in StreamFrames
  BY RestTyped DEF TurnTypeOK
<1>2. t \in Waiting /\ ~CompletedBefore(t, i + 1)
  BY <1>1 DEF HoldsOK, CheckpointsServe
<1>3. ~CompletedBefore(t, i)'
  <2> SUFFICES ASSUME NEW j \in 1..(i - 1), down'[j] = StreamFrame("completed", t) PROVE FALSE
    BY DEF CompletedBefore
  <2>1. j + 1 \in 1..((i + 1) - 1) /\ down[j + 1] = StreamFrame("completed", t)
    BY <1>1
  <2> QED
    BY <1>2, <2>1 DEF CompletedBefore
<1>4. t \in Waiting'
  <2>1. ASSUME Head(down).kind = "completed", Head(down).item = t PROVE FALSE
    <3>1. down[1] = StreamFrame("completed", t)
      BY <1>1, <2>1 DEF StreamFrames, StreamFrame
    <3>2. 1 \in 1..((i + 1) - 1)
      BY <1>1
    <3> QED
      BY <1>2, <3>1, <3>2 DEF CompletedBefore
  <2> QED
    BY <1>2, <2>1
<1> QED
  BY <1>3, <1>4

\* A Run rebuilt from host history holds what the host delivered.
LEMMA RebaseHolds ==
    ASSUME TurnTypeOK, HostOK, FollowUpKept, phase \in {"reopening", "hostRetry"},
           NEW results \in SUBSET TurnTools, Opened(results),
           host' = [host EXCEPT !.lost = (host.prompt \ results) \union FollowUpAnswered]
    PROVE  newest'.missed \subseteq host'.lost /\ Delivered' \subseteq results
<1>1. newest.emitted = {} /\ newest'.emitted = {} /\ newest'.missed = host.done \ results
  BY DEF HostOK, Opened
<1>2. host'.done = host.done /\ host'.lost = (host.prompt \ results) \union FollowUpAnswered
  BY DEF TurnTypeOK
<1>3. host.done \subseteq host.prompt \union {FollowUp}
  BY <1>1 DEF HostOK
<1>4. FollowUp \in host.done => FollowUp \in FollowUpAnswered
  BY <1>1, TurnConstants DEF FollowUpKept, Pending, Delivered, FollowUpAnswered
<1> QED
  BY <1>1, <1>2, <1>3, <1>4 DEF Delivered

\* A checkpoint the pump accepts holds every result delivered, because none waits
\* for an acknowledgement; the follow-up message is sent on such a checkpoint.
LEMMA PumpHolds ==
    ASSUME TurnTypeOK, TurnTypeOK', StreamOK, HostOK, HoldsOK, FollowUpKept, Pump
    PROVE  HoldsOK'
<1>1. ASSUME NEW kind, Reads(kind), phase' \in {"pumping", "tools"}, call'.checkpoint = call.checkpoint,
             host' = host, SameCalls, Waiting' = Waiting,
             SameResume \/ (newest'.resume = Void /\ newest'.revoked)
      PROVE  HoldsOK'
  <2>1. Delivered' = Delivered
    BY <1>1 DEF Delivered, SameCalls
  <2>2. CheckpointsServe'
    BY <1>1, <2>1, RestServes DEF Reads
  <2>3. RunsHoldResults' /\ DeliveredKnown'
    BY <1>1, <2>1 DEF HoldsOK, RunsHoldResults, DeliveredKnown, Reads, SameWork
  <2>4. ResumeServes'
    BY <1>1, <2>1 DEF HoldsOK, ResumeServes, Reads, SameResume
  <2> QED
    BY <2>2, <2>3, <2>4 DEF HoldsOK
<1>2. CASE ReadText
  <2>1. Reads("text") /\ SameCalls /\ SameResume /\ Waiting' = Waiting /\ phase' = phase /\ host' = host
    BY <1>2, ReadTextDoes DEF ReadText
  <2>2. call'.checkpoint = call.checkpoint
    BY <1>2 DEF ReadText, TurnTypeOK
  <2> QED
    BY <1>1, <2>1, <2>2 DEF Reads
<1>3. CASE ReadOpaque
  BY <1>1, <1>3, ReadOpaqueDoes DEF ReadOpaque, Read
<1>4. CASE ReadExec
  <2>1. /\ Reads("exec") /\ SameResume /\ Waiting' = Waiting /\ newest.emitted \subseteq newest'.emitted
        /\ phase' \in {"pumping", "tools"} /\ call' = call /\ host'.done = host.done /\ host'.lost = host.lost
    BY <1>4, ReadExecDoes DEF TurnTypeOK
  <2>2. Delivered' \subseteq Delivered
    BY <2>1 DEF Delivered
  <2>3. CheckpointsServe'
    BY <2>1, <2>2, RestServes DEF Reads
  <2>4. RunsHoldResults' /\ DeliveredKnown'
    BY <2>1, <2>2 DEF HoldsOK, RunsHoldResults, DeliveredKnown, Reads, SameWork
  <2>5. ResumeServes'
    BY <2>1, <2>2 DEF HoldsOK, ResumeServes, Reads, SameResume
  <2> QED
    BY <2>3, <2>4, <2>5 DEF HoldsOK
<1>5. CASE StepCloses
  BY <1>5 DEF StepCloses, HoldsOK, RunsHoldResults, DeliveredKnown, CheckpointsServe,
     CompletedBefore, ResumeServes,
     Delivered, Waiting
<1>6. CASE ReadCompleted
  <2>1. /\ Reads("completed") /\ SameCalls /\ SameResume /\ Waiting \ {Head(down).item} \subseteq Waiting'
        /\ phase' = phase /\ call' = call /\ host' = host
    BY <1>6, ReadCompletedDoes DEF ReadCompleted
  <2>2. Delivered' = Delivered
    BY <2>1 DEF Delivered, SameCalls
  <2>3. CheckpointsServe'
    BY <2>1, <2>2, RestServes DEF Reads
  <2>4. Head(down).item \in newest.taken
    BY <2>1, RestTyped DEF Reads, TurnTypeOK, StreamOK, CompletionsTaken
  <2>5. RunsHoldResults' /\ DeliveredKnown'
    BY <2>1, <2>2, <2>4 DEF HoldsOK, RunsHoldResults, DeliveredKnown, Reads, SameWork
  <2>6. ResumeServes'
    BY <2>1, <2>2 DEF HoldsOK, ResumeServes, Reads, SameResume
  <2> QED
    BY <2>3, <2>5, <2>6 DEF HoldsOK
<1>7. CASE ReadCheckpoint
  <2>1. /\ Reads("checkpoint") /\ SameCalls /\ Waiting' = Waiting /\ phase' = phase /\ call' = call /\ host' = host
    BY <1>7, ReadCheckpointDoes DEF ReadCheckpoint
  <2>2. CASE SameResume
    BY <1>1, <2>1, <2>2 DEF Reads
  <2>3. CASE Waiting = {} /\ newest'.resume = Head(down).item /\ newest'.resume # Void
    <3>1. Delivered' = Delivered
      BY <2>1 DEF Delivered, SameCalls
    <3>2. CheckpointsServe'
      BY <2>1, <3>1, RestServes DEF Reads
    <3>3. Delivered \subseteq Head(down).item
      BY <2>1, <2>3, RestTyped DEF Reads, TurnTypeOK, HoldsOK, CheckpointsServe
    <3>4. RunsHoldResults' /\ DeliveredKnown'
      BY <2>1, <3>1 DEF HoldsOK, RunsHoldResults, DeliveredKnown, Reads, SameWork
    <3>5. ResumeServes'
      BY <2>1, <2>3, <3>1, <3>3 DEF ResumeServes, Reads
    <3> QED
      BY <3>2, <3>4, <3>5 DEF HoldsOK
  <2> QED
    BY <1>7, <2>2, <2>3, ReadCheckpointDoes
<1>8. CASE ReadEnd
  BY <1>8, OverDoes DEF ReadEnd, HoldsOK, RunsHoldResults, DeliveredKnown, CheckpointsServe,
     ResumeServes, Delivered
<1>9. CASE ReopenWithUserMessage
  <2>1. /\ phase' = "pumping" /\ call' = call /\ newest.emitted = {} /\ down' = <<>>
        /\ newest'.taken = Continued \union {FollowUp} /\ newest'.missed = host.done \ Continued
        /\ newest'.resume = Void /\ newest'.revoked /\ Waiting' = Waiting /\ newest'.emitted = newest.emitted
        /\ host'.done = host.done \union {FollowUp} /\ host'.lost = host.lost
    BY <1>9, ReopenWithUserMessageDoes DEF TurnTypeOK, SameCalls
  <2>2. Queued("end")
    BY <1>9, ReopenWithUserMessageDoes
  <2>3. Delivered \subseteq newest.taken /\ newest.saved = newest.taken
    BY <2>2 DEF StreamOK, EndIsLast, CalledOnce, HoldsOK, DeliveredKnown
  <2>4. Delivered \subseteq Continued
    BY <2>3 DEF Continued, HoldsOK, ResumeServes
  <2>5. Delivered' \subseteq Continued \union {FollowUp}
    BY <2>1, <2>4 DEF Delivered
  <2>6. RunsHoldResults'
    BY <2>1, <2>4 DEF RunsHoldResults, Delivered
  <2>7. DeliveredKnown' /\ CheckpointsServe' /\ ResumeServes'
    BY <2>1, <2>5 DEF DeliveredKnown, CheckpointsServe, ResumeServes
  <2> QED
    BY <2>6, <2>7 DEF HoldsOK
<1>10. CASE ReadFailure
  <2>1. /\ phase = "pumping" /\ Reads("fail") /\ SameRun /\ host' = host
        /\ call'.checkpoint = KeptAfter(call.checkpoint)
    BY <1>10, ReadFailureDoes
  <2>2. Delivered' = Delivered
    BY <2>1 DEF Delivered, SameRun, SameCalls
  <2>3. CheckpointsServe'
    BY <2>1, <2>2, RestServes DEF Reads, SameRun
  <2>4. RunsHoldResults' /\ DeliveredKnown'
    BY <2>1, <2>2 DEF HoldsOK, RunsHoldResults, DeliveredKnown, Reads, SameWork, SameRun
  <2>5. ResumeServes'
    BY <2>1, <2>2 DEF HoldsOK, ResumeServes, SameRun, SameResume, KeptAfter
  <2> QED
    BY <2>3, <2>4, <2>5 DEF HoldsOK
<1>11. CASE FinishInterruptedTools
  <2>1. /\ Reads("fail") /\ phase' = "tools" /\ call' = call /\ host' = host /\ SameRun
    BY <1>11, InterruptedDoes
  <2> QED
    BY <1>1, <2>1 DEF SameRun
<1> QED
  BY <1>2, <1>3, <1>4, <1>5, <1>6, <1>7, <1>8, <1>9, <1>10, <1>11 DEF Pump

\* A Run opened in place holds what was delivered, or counts it as left out.
LEMMA RecoversHolds ==
    ASSUME TurnTypeOK, TurnTypeOK', StreamOK, HostOK, HoldsOK, FollowUpKept, Recovers
    PROVE  HoldsOK'
<1>1. ASSUME UNCHANGED <<newest, down, host>>, phase \notin {"pumping", "tools"} \/ phase' = phase,
             call'.checkpoint = call.checkpoint
      PROVE  HoldsOK'
  BY <1>1 DEF HoldsOK, RunsHoldResults, DeliveredKnown, CheckpointsServe, CompletedBefore,
     ResumeServes,
     Delivered, Waiting
<1>2. ASSUME NEW outcome, Over(outcome) PROVE HoldsOK'
  BY <1>2, OverDoes DEF HoldsOK, RunsHoldResults, DeliveredKnown, CheckpointsServe, ResumeServes,
     Delivered
<1>3. CASE RenewCredential
  BY <1>1, <1>3 DEF RenewCredential, TurnTypeOK
<1>4. CASE WaitOffline \/ LeaveToHost \/ Retry \/ NetworkReturns \/ OpenFirst
  BY <1>1, <1>4 DEF WaitOffline, LeaveToHost, Retry, NetworkReturns, OpenFirst, Goes
<1>5. CASE GiveUp \/ WindowEnds
  BY <1>2, <1>5 DEF GiveUp, WindowEnds
<1>6. CASE Reopen
  <2>1. CASE /\ newest'.saved = Void /\ call'.checkpoint = Void
             /\ \E results \in SUBSET TurnTools : Opened(results) /\
                   host' = [host EXCEPT !.lost = (host.prompt \ results) \union FollowUpAnswered]
    <3>1. PICK results \in SUBSET TurnTools : Opened(results) /\
                   host' = [host EXCEPT !.lost = (host.prompt \ results) \union FollowUpAnswered]
      BY <2>1
    <3>2. phase = "reopening"
      BY <1>6, ReopenDoes
    <3>3. newest'.missed \subseteq host'.lost /\ Delivered' \subseteq results
      BY <3>1, <3>2, RebaseHolds
    <3> QED
      BY <2>1, <3>1, <3>3 DEF HoldsOK, RunsHoldResults, DeliveredKnown, CheckpointsServe,
         ResumeServes, Opened
  <2>2. CASE /\ call.checkpoint # Void /\ call'.checkpoint = call.checkpoint
             /\ Opened(call.checkpoint) /\ host' = host
    <3>1. newest.emitted = {} /\ newest'.emitted = {} /\ phase = "reopening"
      BY <1>6, <2>2, ReopenDoes DEF HostOK, Opened
    <3>2. Delivered' = Delivered /\ Delivered \subseteq call.checkpoint
      BY <2>2, <3>1 DEF Delivered, HoldsOK, ResumeServes
    <3>3. RunsHoldResults'
      BY <2>2, <3>1, <3>2 DEF RunsHoldResults, Delivered, Opened
    <3> QED
      BY <2>2, <3>2, <3>3 DEF HoldsOK, DeliveredKnown, CheckpointsServe, ResumeServes, Opened
  <2> QED
    BY <1>6, <2>1, <2>2, ReopenDoes
<1>7. ASSUME NEW kind \in Kinds, ReopenFails(kind) PROVE HoldsOK'
  <2>1. CASE /\ phase = "reopening" /\ phase' = "failed" /\ UNCHANGED <<newest, down, up, host>>
             /\ call'.checkpoint = KeptAfter(IF call.failure.unusable THEN Void ELSE call.checkpoint)
    <3>1. Delivered' = Delivered /\ Waiting' = Waiting
      BY <2>1 DEF Delivered, Waiting
    <3>2. RunsHoldResults' /\ DeliveredKnown' /\ CheckpointsServe'
      BY <2>1, <3>1 DEF HoldsOK, RunsHoldResults, DeliveredKnown, CheckpointsServe,
         CompletedBefore
    <3>3. ResumeServes'
      BY <2>1, <3>1 DEF HoldsOK, ResumeServes, KeptAfter
    <3> QED
      BY <3>2, <3>3 DEF HoldsOK
  <2> QED
    BY <1>2, <1>7, <2>1, ReopenFailsDoes
<1>8. ASSUME NEW kind \in Kinds, OpenFails(kind) PROVE HoldsOK'
  BY <1>1, <1>2, <1>8 DEF OpenFails, Goes
<1> QED
  BY <1>3, <1>4, <1>5, <1>6, <1>7, <1>8 DEF Recovers

\* A delivery adds results that wait, and revokes the checkpoint.
LEMMA HostHolds ==
    ASSUME TurnTypeOK, TurnTypeOK', StreamOK, HostOK, HoldsOK, FollowUpKept, Host
    PROVE  HoldsOK'
<1>1. CASE HostRetries
  <2>1. phase = "hostRetry" /\ call' = NewCall /\ newest.emitted = {}
    BY <1>1, HostRetriesDoes DEF HostOK
  <2>2. CASE host.trailing = {} /\ Opened({}) /\ host' = host
    <3>1. Delivered = {}
      BY <2>1, <2>2 DEF Delivered, HostOK, FollowUpKept
    <3>2. Delivered' = {} /\ newest'.missed = host.done
      BY <2>1, <2>2, <3>1 DEF Delivered, Opened
    <3>3. RunsHoldResults'
      BY <2>1, <2>2, <3>1, <3>2 DEF Delivered, RunsHoldResults
    <3> QED
      BY <2>1, <2>2, <3>2, <3>3, NewCallFields DEF HoldsOK, DeliveredKnown, CheckpointsServe,
         ResumeServes, Opened
  <2>3. CASE Opened(host.trailing) /\
             host' = [host EXCEPT !.lost = (host.prompt \ host.trailing) \union FollowUpAnswered]
    <3>1. newest'.missed \subseteq host'.lost /\ Delivered' \subseteq host.trailing
      BY <2>1, <2>3, RebaseHolds DEF TurnTypeOK
    <3> QED
      BY <2>1, <2>3, <3>1, NewCallFields
         DEF HoldsOK, RunsHoldResults, DeliveredKnown, CheckpointsServe, ResumeServes, Opened
  <2> QED
    BY <1>1, <2>2, <2>3, HostRetriesDoes
<1>2. CASE Deliver
  <2>1. /\ call' = NewCall /\ down' = down /\ newest'.taken = newest.taken /\ newest'.missed = newest.missed
        /\ newest'.emitted = {} /\ newest'.resume = Void /\ Waiting' = Waiting \union newest.emitted
        /\ host'.done = host.done /\ host'.lost = host.lost
    BY <1>2, DeliverDoes DEF TurnTypeOK
  <2>2. Delivered' \subseteq Delivered \union newest.emitted
    BY <2>1 DEF Delivered
  <2>3. CheckpointsServe'
    <3> SUFFICES ASSUME NEW i \in DOMAIN down, down[i].kind = "checkpoint", NEW t \in Delivered',
                        t \notin down[i].item
                 PROVE  t \in Waiting' /\ ~CompletedBefore(t, i)'
      BY <2>1 DEF CheckpointsServe
    <3>1. CASE t \in Delivered
      BY <2>1, <3>1 DEF HoldsOK, CheckpointsServe, CompletedBefore
    <3>2. CASE t \in newest.emitted
      <4>1. \A j \in DOMAIN down : down[j] # StreamFrame("completed", t)
        BY <3>2 DEF StreamOK, CompletionsTaken, CalledOnce, StreamFrame
      <4>2. \A j \in 1..(i - 1) : j \in DOMAIN down
        BY DEF TurnTypeOK
      <4> QED
        BY <2>1, <3>2, <4>1, <4>2 DEF CompletedBefore
    <3> QED
      BY <2>2, <3>1, <3>2
  <2>4. RunsHoldResults' /\ DeliveredKnown'
    BY <2>1, <2>2 DEF HoldsOK, RunsHoldResults, DeliveredKnown
  <2>5. ResumeServes'
    BY <2>1, NewCallFields DEF ResumeServes
  <2> QED
    BY <2>3, <2>4, <2>5 DEF HoldsOK
<1>3. CASE RebaseContinuation
  <2>1. /\ call' = NewCall /\ Opened(newest.emitted) /\ host'.done = host.done
        /\ host'.lost = host.done \ newest.emitted
    BY <1>3, RebaseContinuationDoes DEF TurnTypeOK
  <2>2. Delivered' \subseteq newest.emitted
    BY <2>1 DEF Delivered
  <2> QED
    BY <2>1, <2>2, NewCallFields
       DEF HoldsOK, RunsHoldResults, DeliveredKnown, CheckpointsServe, ResumeServes, Opened
<1>4. CASE HostStops
  BY <1>4, OverDoes DEF HostStops, HoldsOK, RunsHoldResults, DeliveredKnown, CheckpointsServe,
     ResumeServes, Delivered
<1>5. ASSUME NEW t \in TurnTools, HostExecutes(t) PROVE HoldsOK'
  <2>1. /\ t \in host.running /\ UNCHANGED <<phase, newest, down, call>>
        /\ host'.done = host.done \union {t} /\ host'.lost = host.lost
    BY <1>5 DEF HostExecutes, TurnTypeOK
  <2>2. Delivered' = Delivered /\ Waiting' = Waiting
    BY <2>1 DEF HostOK, Delivered, Waiting
  <2> QED
    BY <2>1, <2>2 DEF HoldsOK, RunsHoldResults, DeliveredKnown, CheckpointsServe,
       CompletedBefore, ResumeServes
<1> QED
  BY <1>1, <1>2, <1>3, <1>4, <1>5 DEF Host

\* Every Run holds what the host delivered, or counts it as left out.
LEMMA HoldsKept ==
    ASSUME TurnTypeOK, TurnTypeOK', StreamOK, HostOK, HoldsOK, FollowUpKept, TurnNext
    PROVE  HoldsOK'
BY CursorHolds, PumpHolds, RecoversHolds, HostHolds DEF TurnNext

\* A checkpoint of the turn holds the follow-up message.
FollowUpSaved == newest.saved # Void /\ FollowUp \in newest.saved

\* What a step leaves as it was decides whether the message is kept.
\* The follow-up message is kept where nothing of it changes.
LEMMA FollowUpStays ==
    ASSUME FollowUpKept, FollowUp \in Delivered, phase \in {"pumping", "tools"}, phase' \in {"pumping", "tools"},
           SameResume, newest'.barrier # "none" \/ SameDeeds, FollowUpSaved => FollowUpSaved',
           newest'.eligible = newest.eligible, call'.checkpoint = call.checkpoint,
           call'.failure = call.failure, host'.trailing = host.trailing
    PROVE  FollowUpKept'
BY DEF FollowUpKept, Pending, SameResume, SameDeeds, FollowUpSaved

\* Executing and reading leave the message as it is.
LEMMA FollowUpNotSent ==
    ASSUME TurnTypeOK, TurnTypeOK', host'.done = host.done, host'.lost = host.lost
    PROVE  FollowUp \in Delivered' <=> FollowUp \in Delivered
BY TurnConstants DEF Delivered, TurnTypeOK, Runs

\* No message outlives the turn.
LEMMA OverKeepsFollowUp ==
    ASSUME TurnTypeOK, NEW outcome \in {"answered", "gaveUp", "stopped"}, Over(outcome)
    PROVE  FollowUpKept'
BY OverDoes DEF FollowUpKept, Delivered

\* A checkpoint Cursor saves later holds the message as well.
LEMMA CursorKeepsFollowUp ==
    ASSUME TurnTypeOK, TurnTypeOK', StreamOK, FollowUpKept, Cursor
    PROVE  FollowUpKept'
<1>1. FollowUp \in Delivered' <=> FollowUp \in Delivered
  BY CursorDoes, FollowUpNotSent
<1>2. FollowUpSaved => FollowUpSaved'
  BY CursorDoes, TurnConstants DEF FollowUpSaved, StreamOK, CheckpointsSaved, TurnTypeOK, Runs,
     Known
<1> QED
  BY <1>1, <1>2, CursorDoes DEF FollowUpKept, Pending, SameResume, SameDeeds, FollowUpSaved

\* Until a checkpoint with the message is read, none of the turn may be resumed,
\* and what the Run showed keeps it from being replayed.
LEMMA PumpKeepsFollowUp ==
    ASSUME TurnTypeOK, TurnTypeOK', StreamOK, HoldsOK, FollowUpKept, Pump
    PROVE  FollowUpKept'
<1>1. ASSUME NEW kind, Reads(kind), phase' \in {"pumping", "tools"}, call'.checkpoint = call.checkpoint,
             call'.failure = call.failure, host'.done = host.done, host'.lost = host.lost,
             host'.trailing = host.trailing, SameResume, newest'.barrier # "none" \/ SameDeeds
      PROVE  FollowUpKept'
  <2>1. FollowUp \in Delivered' <=> FollowUp \in Delivered
    BY <1>1, FollowUpNotSent
  <2>2. CASE FollowUp \in Delivered
    BY <1>1, <2>2, FollowUpStays DEF Reads, SameWork, FollowUpSaved
  <2>3. CASE FollowUp \notin Delivered
    BY <1>1, <2>1, <2>3 DEF FollowUpKept, Reads
  <2> QED
    BY <2>2, <2>3
<1>2. CASE ReadText
  <2>1. call'.checkpoint = call.checkpoint /\ call'.failure = call.failure /\ phase' = phase /\ host' = host
    BY <1>2 DEF ReadText, TurnTypeOK
  <2> QED
    BY <1>1, <1>2, <2>1, ReadTextDoes DEF Reads
<1>3. CASE ReadOpaque
  <2>1. /\ Reads("opaque") /\ newest'.barrier # "none" /\ UNCHANGED <<phase, call, host>>
    BY <1>3, ReadOpaqueDoes DEF ReadOpaque
  <2>2. CASE SameResume
    BY <1>1, <2>1, <2>2 DEF Reads
  <2>3. CASE newest'.resume = Void /\ newest'.revoked /\ ~newest'.byResult
    <3>1. FollowUp \in Delivered' <=> FollowUp \in Delivered
      BY <2>1, FollowUpNotSent
    <3> QED
      BY <2>1, <2>3, <3>1 DEF FollowUpKept, Pending, Reads, SameWork
  <2> QED
    BY <1>3, <2>2, <2>3, ReadOpaqueDoes
<1>4. CASE ReadExec
  <2>1. /\ Reads("exec") /\ SameResume /\ newest'.barrier # "none" /\ phase' \in {"pumping", "tools"} /\ call' = call
        /\ host'.done = host.done /\ host'.lost = host.lost /\ host'.trailing = host.trailing
    BY <1>4, ReadExecDoes DEF TurnTypeOK
  <2> QED
    BY <1>1, <2>1
<1>5. CASE StepCloses
  BY <1>5 DEF StepCloses, FollowUpKept, Pending, Delivered
<1>6. CASE ReadCompleted
  BY <1>1, <1>6, ReadCompletedDoes DEF ReadCompleted, Reads
<1>7. CASE ReadCheckpoint
  <2>1. /\ Reads("checkpoint") /\ SameDeeds /\ UNCHANGED <<phase, call, host>>
    BY <1>7, ReadCheckpointDoes DEF ReadCheckpoint
  <2>2. CASE SameResume
    BY <1>1, <2>1, <2>2 DEF Reads
  <2>3. CASE Waiting = {} /\ newest'.resume = Head(down).item /\ newest'.resume # Void
    <3>1. FollowUp \in Delivered' <=> FollowUp \in Delivered
      BY <2>1, FollowUpNotSent
    <3>2. FollowUp \in Delivered => FollowUp \in Head(down).item
      BY <2>1, <2>3, RestTyped DEF Reads, TurnTypeOK, HoldsOK, CheckpointsServe
    <3>3. newest.saved # Void /\ Head(down).item \subseteq newest.saved
      BY <2>1, RestTyped DEF Reads, TurnTypeOK, StreamOK, CheckpointsSaved
    <3> QED
      BY <2>1, <2>3, <3>1, <3>2, <3>3 DEF FollowUpKept, Reads, SameWork
  <2> QED
    BY <1>7, <2>2, <2>3, ReadCheckpointDoes
<1>8. CASE ReadEnd
  BY <1>8, OverKeepsFollowUp DEF ReadEnd
<1>9. CASE ReopenWithUserMessage
  <2>1. /\ phase = "pumping" /\ phase' = "pumping" /\ call' = call /\ newest'.resume = Void /\ newest'.revoked
        /\ ~newest'.byResult /\ ~newest'.eligible /\ newest'.barrier # "none"
    BY <1>9, ReopenWithUserMessageDoes DEF SameDeeds
  <2> QED
    BY <2>1 DEF FollowUpKept, Pending
<1>10. CASE ReadFailure
  <2>1. /\ phase = "pumping" /\ phase' = "failed" /\ SameRun /\ host' = host
        /\ call'.checkpoint = KeptAfter(call.checkpoint)
        /\ call'.failure.unusable => newest.eligible
        /\ ~call'.failure.unusable /\ call'.failure.safe => newest.barrier = "none" /\ ~newest.stateful
    BY <1>10, ReadFailureDoes
  <2>2. FollowUp \in Delivered' <=> FollowUp \in Delivered
    BY <2>1, FollowUpNotSent
  <2>3. CASE FollowUp \in Delivered
    <3>1. ~call'.failure.unusable
      BY <2>1, <2>3 DEF FollowUpKept
    <3>2. Pending => Pending'
      BY <2>1, <3>1 DEF Pending, KeptAfter, SameRun, SameResume, SameDeeds
    <3> QED
      BY <2>1, <2>3, <3>1, <3>2 DEF FollowUpKept, KeptAfter, SameRun, SameResume, SameWork
  <2>4. CASE FollowUp \notin Delivered
    BY <2>1, <2>2, <2>4 DEF FollowUpKept
  <2> QED
    BY <2>3, <2>4
<1>11. CASE FinishInterruptedTools
  BY <1>1, <1>11, InterruptedDoes DEF SameRun
<1> QED
  BY <1>2, <1>3, <1>4, <1>5, <1>6, <1>7, <1>8, <1>9, <1>10, <1>11 DEF Pump

\* A rebuild drops a follow-up message Cursor has answered.
LEMMA RebaseDropsFollowUp ==
    ASSUME TurnTypeOK, HostOK, FollowUpKept, phase \in {"reopening", "hostRetry"}, NEW results,
           host' = [host EXCEPT !.lost = (host.prompt \ results) \union FollowUpAnswered]
    PROVE  FollowUp \notin Delivered'
<1>1. host'.done = host.done /\ FollowUpAnswered \subseteq host'.lost
  BY DEF TurnTypeOK
<1>2. FollowUp \in host.done => FollowUp \in FollowUpAnswered
  BY TurnConstants DEF FollowUpKept, Pending, Delivered, FollowUpAnswered, HostOK
<1> QED
  BY <1>1, <1>2 DEF Delivered

\* A Run without the message is opened only once a checkpoint has held it: before
\* that, a failure is given up.
LEMMA RecoversKeepsFollowUp ==
    ASSUME TurnTypeOK, TurnTypeOK', HostOK, HoldsOK, FollowUpKept, Recovers
    PROVE  FollowUpKept'
<1>1. ASSUME UNCHANGED <<newest, host>>, phase \notin {"pumping", "tools"},
             phase' \notin {"pumping", "tools", "opening", "hostRetry", "failed"},
             call'.checkpoint = call.checkpoint, call'.failure = call.failure,
             FollowUp \in Delivered => ~Pending
      PROVE  FollowUpKept'
  BY <1>1 DEF FollowUpKept, Delivered
<1>2. Recoverable => ~(phase = "failed" /\ Pending)
  BY DEF Recoverable, HistoryRecovery, CanRebaseFromHistory, Pending
<1>3. CASE RenewCredential
  BY <1>1, <1>3 DEF RenewCredential, Renewable, Pending, TurnTypeOK
<1>4. CASE WaitOffline \/ Retry
  BY <1>1, <1>2, <1>4 DEF WaitOffline, Retry, WaitsForNetwork, Goes
<1>5. CASE NetworkReturns
  BY <1>1, <1>5 DEF NetworkReturns, Goes, Pending
<1>6. CASE LeaveToHost
  <2>1. /\ phase = "failed" /\ phase' = "hostRetry" /\ UNCHANGED <<newest, call, host>> /\ ~newest.revoked
        /\ call.checkpoint = Void
    BY <1>6 DEF LeaveToHost, Recoverable, Goes
  <2> QED
    BY <2>1 DEF FollowUpKept, Delivered, Pending
<1>7. CASE GiveUp \/ WindowEnds
  BY <1>7, OverKeepsFollowUp DEF GiveUp, WindowEnds
<1>8. CASE Reopen
  <2>1. CASE /\ call'.failure = NoFailure /\ \E results \in SUBSET TurnTools : Opened(results) /\
                   host' = [host EXCEPT !.lost = (host.prompt \ results) \union FollowUpAnswered]
    BY <1>8, <2>1, RebaseDropsFollowUp, ReopenDoes, NewCallFields DEF FollowUpKept
  <2>2. CASE /\ call.checkpoint # Void /\ call'.checkpoint = call.checkpoint /\ newest'.saved = call.checkpoint
             /\ Opened(call.checkpoint) /\ host' = host
    <3>1. phase = "reopening" /\ phase' = "pumping" /\ ~newest'.eligible /\ ~call'.failure.unusable
      BY <1>8, ReopenDoes, NewCallFields
    <3>2. FollowUp \in Delivered' => FollowUp \in call.checkpoint
      BY <2>2, <3>1, FollowUpNotSent DEF HoldsOK, ResumeServes
    <3> QED
      BY <2>2, <3>1, <3>2 DEF FollowUpKept
  <2> QED
    BY <1>8, <2>1, <2>2, ReopenDoes
<1>9. ASSUME NEW kind \in Kinds, ReopenFails(kind) PROVE FollowUpKept'
  <2>1. CASE /\ phase = "reopening" /\ phase' = "failed" /\ UNCHANGED <<newest, down, up, host>>
             /\ call'.failure = Fails(kind, TRUE, "none", FALSE)
             /\ call'.checkpoint = KeptAfter(IF call.failure.unusable THEN Void ELSE call.checkpoint)
    <3>1. ~call'.failure.unusable /\ ~Pending
      BY <2>1 DEF Fails, Pending
    <3>2. FollowUp \in Delivered' <=> FollowUp \in Delivered
      BY <2>1, FollowUpNotSent
    <3> QED
      BY <2>1, <3>1, <3>2 DEF FollowUpKept, KeptAfter
  <2> QED
    BY <1>9, <2>1, ReopenFailsDoes, OverKeepsFollowUp
<1>10. CASE OpenFirst
  BY <1>10 DEF OpenFirst, FollowUpKept, Delivered
<1>11. ASSUME NEW kind \in Kinds, OpenFails(kind) PROVE FollowUpKept'
  <2>1. CASE UNCHANGED <<newest, call, host>> /\ phase = "opening" /\ phase' \in {"opening", "hostRetry"}
    BY <2>1 DEF FollowUpKept, Delivered
  <2> QED
    BY <1>11, <2>1, OverKeepsFollowUp DEF OpenFails, Goes
<1> QED
  BY <1>3, <1>4, <1>5, <1>6, <1>7, <1>8, <1>9, <1>10, <1>11 DEF Recovers

\* A step delivered while the message is not yet saved leaves the Run stateful.
LEMMA HostKeepsFollowUp ==
    ASSUME TurnTypeOK, TurnTypeOK', HostOK, FollowUpKept, Host
    PROVE  FollowUpKept'
<1>1. ASSUME FollowUp \notin Delivered', call' = NewCall PROVE FollowUpKept'
  BY <1>1, NewCallFields DEF FollowUpKept
<1>2. CASE HostRetries
  <2>1. phase = "hostRetry" /\ call' = NewCall
    BY <1>2, HostRetriesDoes
  <2>2. CASE host.trailing = {} /\ host' = host
    BY <1>1, <2>1, <2>2, FollowUpNotSent DEF FollowUpKept
  <2>3. CASE host' = [host EXCEPT !.lost = (host.prompt \ host.trailing) \union FollowUpAnswered]
    BY <1>1, <2>1, <2>3, RebaseDropsFollowUp
  <2> QED
    BY <1>2, <2>2, <2>3, HostRetriesDoes
<1>3. CASE Deliver
  <2>1. /\ phase = "tools" /\ phase' = "pumping" /\ call' = NewCall /\ newest'.resume = Void /\ newest'.revoked
        /\ newest'.saved = newest.saved /\ newest'.stateful = newest.stateful /\ ~newest'.eligible
        /\ newest'.byResult = (~newest.revoked \/ newest.byResult)
        /\ host'.done = host.done /\ host'.lost = host.lost
    BY <1>3, DeliverDoes DEF TurnTypeOK
  <2>2. newest.stateful
    BY <2>1 DEF HostOK
  <2>3. FollowUp \in Delivered' <=> FollowUp \in Delivered
    BY <2>1, FollowUpNotSent
  <2>4. Pending => Pending'
    BY <2>1, <2>2 DEF Pending
  <2> QED
    BY <2>1, <2>3, <2>4, NewCallFields DEF FollowUpKept
<1>4. CASE RebaseContinuation
  <2>1. call' = NewCall /\ host'.done = host.done /\ host'.lost = host.done \ newest.emitted
        /\ newest.emitted \subseteq TurnTools
    BY <1>4, RebaseContinuationDoes DEF TurnTypeOK, Runs
  <2> QED
    BY <1>1, <2>1, TurnConstants DEF Delivered
<1>5. CASE HostStops
  BY <1>5, OverKeepsFollowUp DEF HostStops
<1>6. ASSUME NEW t \in TurnTools, HostExecutes(t) PROVE FollowUpKept'
  <2>1. /\ UNCHANGED <<phase, newest, call>> /\ host'.trailing = host.trailing
        /\ host'.done = host.done \union {t} /\ host'.lost = host.lost
    BY <1>6 DEF HostExecutes, TurnTypeOK
  <2>2. FollowUp \in Delivered' <=> FollowUp \in Delivered
    BY <2>1, TurnConstants DEF Delivered
  <2> QED
    BY <2>1, <2>2 DEF FollowUpKept, Pending
<1> QED
  BY <1>2, <1>3, <1>4, <1>5, <1>6 DEF Host

\* The message is kept.
LEMMA FollowUpStaysKept ==
    ASSUME TurnTypeOK, TurnTypeOK', StreamOK, HostOK, HoldsOK, FollowUpKept, TurnNext
    PROVE  FollowUpKept'
BY CursorKeepsFollowUp, PumpKeepsFollowUp, RecoversKeepsFollowUp, HostKeepsFollowUp DEF TurnNext

\* No text outlives the turn.
LEMMA OverShowsNothing ==
    ASSUME TurnTypeOK, NEW outcome \in {"answered", "gaveUp", "stopped"}, Over(outcome)
    PROVE  ShownOnce'
BY OverDoes DEF ShownOnce

\* An attempt that showed text has a barrier, or resumes a checkpoint.
LEMMA PumpShowsOnce ==
    ASSUME TurnTypeOK, ShownOnce, Pump
    PROVE  ShownOnce'
<1>1. ASSUME phase = "pumping", phase' = "pumping", newest'.barrier # "none" PROVE ShownOnce'
  BY <1>1 DEF ShownOnce
<1>2. ASSUME phase' = "tools" PROVE ShownOnce'
  BY <1>2 DEF ShownOnce
<1>3. CASE ReadText
  BY <1>1, <1>3, ReadTextDoes DEF ReadText, Reads
<1>4. CASE ReadOpaque
  BY <1>1, <1>4, ReadOpaqueDoes DEF ReadOpaque, Reads
<1>5. CASE ReadExec
  BY <1>1, <1>2, <1>5, ReadExecDoes DEF Reads
<1>6. CASE StepCloses
  BY <1>2, <1>6 DEF StepCloses
<1>7. ASSUME phase = "pumping", phase' = "pumping", call' = call, SameDeeds, newest'.eligible = newest.eligible,
             newest'.revoked => newest.revoked
      PROVE  ShownOnce'
  BY <1>7 DEF ShownOnce, SameDeeds
<1>8. CASE ReadCompleted
  BY <1>7, <1>8, ReadCompletedDoes DEF ReadCompleted, Reads, SameWork, SameResume
<1>9. CASE ReadCheckpoint
  BY <1>7, <1>9, ReadCheckpointDoes DEF ReadCheckpoint, Reads, SameWork, SameResume
<1>10. CASE ReadEnd
  BY <1>10, OverShowsNothing DEF ReadEnd
<1>11. CASE ReopenWithUserMessage
  BY <1>1, <1>11, ReopenWithUserMessageDoes DEF SameDeeds
<1>12. CASE ReadFailure
  <2>1. /\ phase = "pumping" /\ phase' = "failed" /\ SameRun /\ call'.shown = call.shown
        /\ call'.checkpoint = KeptAfter(call.checkpoint)
        /\ call'.failure.unusable => newest.eligible /\ newest.barrier = "none"
        /\ ~call'.failure.unusable =>
              /\ call'.failure.safe => newest.barrier = "none"
              /\ newest.barrier # "none" => call'.failure.barrier # "none"
    BY <1>12, ReadFailureDoes
  <2>2. call'.checkpoint # Void => newest'.resume # Void \/ ~newest'.revoked
    BY <2>1 DEF KeptAfter, SameRun, SameResume
  <2>3. ASSUME call.shown
        PROVE  /\ ~call'.failure.unusable
               /\ call'.checkpoint # Void \/ (~call'.failure.safe /\ call'.failure.barrier # "none")
    <3>1. CASE newest.barrier # "none"
      BY <2>1, <3>1
    <3>2. CASE call.checkpoint # Void /\ ~newest.revoked /\ ~newest.eligible
      BY <2>1, <3>2 DEF KeptAfter
    <3> QED
      BY <2>1, <2>3, <3>1, <3>2 DEF ShownOnce
  <2> QED
    BY <2>1, <2>2, <2>3 DEF ShownOnce
<1>13. CASE FinishInterruptedTools
  BY <1>2, <1>13, InterruptedDoes
<1> QED
  BY <1>3, <1>4, <1>5, <1>6, <1>8, <1>9, <1>10, <1>11, <1>12, <1>13 DEF Pump

\* Only a checkpoint replaces an attempt after text.
LEMMA RecoversShowsOnce ==
    ASSUME TurnTypeOK, ShownOnce, Recovers
    PROVE  ShownOnce'
<1>1. ASSUME phase = "failed", phase' \in {"offline", "reopening"}, UNCHANGED newest,
             call.failure.safe \/ call.checkpoint # Void \/ call.failure.barrier = "none",
             call'.checkpoint = call.checkpoint, call'.failure = call.failure, call'.shown = call.shown
      PROVE  ShownOnce'
  BY <1>1 DEF ShownOnce
<1>2. CASE RenewCredential
  BY <1>1, <1>2 DEF RenewCredential, Renewable, TurnTypeOK
<1>3. CASE WaitOffline \/ Retry
  BY <1>1, <1>3 DEF WaitOffline, Retry, WaitsForNetwork, Recoverable, HistoryRecovery, Goes
<1>4. CASE NetworkReturns
  BY <1>4 DEF NetworkReturns, Goes, ShownOnce
<1>5. CASE LeaveToHost
  BY <1>5 DEF LeaveToHost, Goes, ShownOnce
<1>6. CASE GiveUp \/ WindowEnds
  BY <1>6, OverShowsNothing DEF GiveUp, WindowEnds
<1>7. CASE Reopen
  <2>1. phase = "reopening" /\ phase' = "pumping" /\ call'.shown = call.shown /\ ~newest'.eligible
    BY <1>7, ReopenDoes
  <2>2. ASSUME call.shown PROVE ~call.failure.unusable /\ call.checkpoint # Void
    BY <2>1, <2>2 DEF ShownOnce
  <2>3. ASSUME call.shown PROVE call'.checkpoint # Void /\ ~newest'.revoked
    BY <1>7, <2>2, <2>3, ReopenDoes DEF Opened
  <2> QED
    BY <2>1, <2>3 DEF ShownOnce
<1>8. ASSUME NEW kind \in Kinds, ReopenFails(kind) PROVE ShownOnce'
  <2>1. CASE /\ phase = "reopening" /\ phase' = "failed" /\ UNCHANGED <<newest, down, up, host>>
             /\ call'.failure = Fails(kind, TRUE, "none", FALSE) /\ call'.shown = call.shown
             /\ call'.checkpoint = KeptAfter(IF call.failure.unusable THEN Void ELSE call.checkpoint)
    <3>1. ~call'.failure.unusable
      BY <2>1 DEF Fails
    <3>2. call'.checkpoint # Void => newest'.resume # Void \/ ~newest'.revoked
      BY <2>1 DEF KeptAfter
    <3>3. call.shown => call'.checkpoint # Void
      BY <2>1 DEF KeptAfter, ShownOnce
    <3> QED
      BY <2>1, <3>1, <3>2, <3>3 DEF ShownOnce
  <2> QED
    BY <1>8, <2>1, ReopenFailsDoes, OverShowsNothing
<1>9. CASE OpenFirst
  BY <1>9 DEF OpenFirst, ShownOnce
<1>10. ASSUME NEW kind \in Kinds, OpenFails(kind) PROVE ShownOnce'
  <2>1. CASE UNCHANGED <<newest, call>> /\ phase = "opening" /\ phase' \in {"opening", "hostRetry"}
    BY <2>1 DEF ShownOnce
  <2> QED
    BY <1>10, <2>1, OverShowsNothing DEF OpenFails, Goes
<1> QED
  BY <1>2, <1>3, <1>4, <1>5, <1>6, <1>7, <1>8, <1>9, <1>10 DEF Recovers

\* Text of a call is shown once.
LEMMA StaysShownOnce ==
    ASSUME TurnTypeOK, ShownOnce, TurnNext
    PROVE  ShownOnce'
<1>1. CASE Cursor
  BY <1>1, CursorDoes DEF ShownOnce, SameResume, SameDeeds
<1>2. ASSUME call' = NewCall PROVE ShownOnce'
  BY <1>2, NewCallFields DEF ShownOnce
<1>3. CASE HostRetries \/ Deliver \/ RebaseContinuation
  BY <1>2, <1>3 DEF HostRetries, Deliver, RebaseContinuation
<1>4. CASE HostStops
  BY <1>4, OverShowsNothing DEF HostStops
<1>5. CASE \E t \in TurnTools : HostExecutes(t)
  BY <1>5 DEF HostExecutes, ShownOnce
<1> QED
  BY <1>1, <1>3, <1>4, <1>5, PumpShowsOnce, RecoversShowsOnce DEF TurnNext, Host

\* A turn starts so.
LEMMA TurnStarts ==
    ASSUME TurnInit
    PROVE  TurnInv
<1>1. newest = NewRun({}, TRUE, TRUE) /\ call = NewCall /\ down = <<>> /\ phase = "opening"
      /\ host = [done |-> {}, prompt |-> {}, trailing |-> {}, running |-> {}, lost |-> {}] /\ up = {}
  BY DEF TurnInit
<1>2. NewRun({}, TRUE, TRUE) \in Runs
  BY NewRunTyped
<1>3. TurnTypeOK
  <2>1. phase \in Phases /\ down \in Seq(StreamFrames) /\ up \subseteq TurnTools
    BY <1>1 DEF Phases
  <2>2. host \in [done : SUBSET Known, prompt : SUBSET TurnTools, trailing : SUBSET TurnTools,
                  running : SUBSET TurnTools, lost : SUBSET Known]
    BY <1>1
  <2> QED
    BY <1>1, <1>2, <2>1, <2>2, CallTyped DEF TurnTypeOK
<1>4. newest.emitted = {} /\ newest.saved = Void /\ newest.taken = {} /\ newest.missed = {} /\ newest.resume = Void
      /\ newest.unacked = {} /\ newest.execs = {}
  BY <1>1 DEF NewRun
<1>5. StreamOK /\ HostOK
  <2>1. DOMAIN down = {} /\ Waiting = {}
    <3>1. down = <<>> /\ newest.unacked = {}
      BY <1>1, <1>4
    <3>2. Waiting = {}
      BY <3>1, Zenon DEF Waiting
    <3>3. DOMAIN down = {}
      BY <3>1
    <3> QED
      BY <3>2, <3>3
  <2>2. StreamOK
    BY <1>1, <1>4, <2>1 DEF StreamOK, CheckpointsSaved, CompletionsTaken, CalledOnce, EndIsLast,
       Queued
  <2>3. HostOK
    BY <1>1, <1>4 DEF HostOK
  <2> QED
    BY <2>2, <2>3
<1>6. HoldsOK /\ FollowUpKept /\ ShownOnce
  BY <1>1, <1>4, NewCallFields DEF HoldsOK, RunsHoldResults, DeliveredKnown, CheckpointsServe,
     ResumeServes,
     FollowUpKept, ShownOnce, Delivered
<1> QED
  BY <1>3, <1>5, <1>6 DEF TurnInv

\* Every step of a turn keeps it so.
LEMMA TurnStaysKept ==
    ASSUME TurnInv, [TurnNext]_turnVars
    PROVE  TurnInv'
<1>1. CASE TurnNext
  <2>1. TurnTypeOK'
    BY <1>1, TurnTyped DEF TurnInv
  <2> QED
    BY <1>1, <2>1, StreamKept, HostKept, HoldsKept, FollowUpStaysKept, StaysShownOnce DEF TurnInv
<1>2. CASE UNCHANGED turnVars
  BY <1>2 DEF turnVars, TurnInv, TurnTypeOK, StreamOK, CheckpointsSaved, CompletionsTaken,
     CalledOnce, EndIsLast,
     Queued, Waiting, HostOK, HoldsOK, RunsHoldResults, DeliveredKnown, CheckpointsServe, CompletedBefore,
     ResumeServes, Delivered, FollowUpKept, Pending, ShownOnce
<1> QED
  BY <1>1, <1>2

\* A Run is rebuilt in place only while its call has shown nothing.
LEMMA RebuildsUnseen ==
    ASSUME TurnInv, TurnNext, phase = "reopening", phase' = "pumping", ~call'.resumed
    PROVE  ~call.shown
<1>1. Reopen
  <2>1. ~Cursor
    BY CursorDoes DEF TurnInv
  <2>2. ~Pump
    BY DEF Pump, ReadText, ReadOpaque, ReadExec, StepCloses, ReadCompleted, ReadCheckpoint,
       ReadEnd,
       ReopenWithUserMessage, ReadFailure, FinishInterruptedTools, Read
  <2>3. ~Host
    BY DEF Host, HostRetries, Deliver, RebaseContinuation, HostStops, HostExecutes, Over
  <2> QED
    BY <2>1, <2>2, <2>3 DEF TurnNext, Recovers, RenewCredential, WaitOffline, LeaveToHost, Retry,
       GiveUp,
       NetworkReturns, WindowEnds, OpenFirst, ReopenFails, Caught, OpenFails, Over, Goes
<1> QED
  BY <1>1, ReopenDoes DEF TurnInv, ShownOnce

\* Every Run that takes another's place, by a resume, a rebuild from host history,
\* a retry left to the host or a follow-up message, holds each result the host
\* delivered and the message, but for results a rebase on the last step leaves
\* out; and a Run is rebuilt in place only while its call has shown no text.
\* Whatever breaks the streams, wherever, and however often (pumpWithRecovery,
\* reopen and deliverContinuationResultsNow of language-model.ts).
THEOREM LostRunsRecovered == TurnSpec => LostRunRecovered
<1>1. TurnInit => TurnInv
  BY TurnStarts
<1>2. TurnInv /\ [TurnNext]_turnVars => TurnInv'
  BY TurnStaysKept
<1>3. TurnInv' => RunsHoldResults'
  BY DEF TurnInv, HoldsOK
<1>4. TurnInv /\ [TurnNext]_turnVars
      => [phase = "reopening" /\ phase' = "pumping" /\ ~call'.resumed => ~call.shown]_turnVars
  BY RebuildsUnseen
<1> QED
  BY <1>1, <1>2, <1>3, <1>4, PTL DEF TurnSpec, LostRunRecovered, RebaseShowsNothingTwice
===============================================================================
