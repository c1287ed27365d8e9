-------------------------- MODULE StepOrderProofs --------------------------
(***************************************************************************)
(* Theorems about the order tool calls take.  The model-order holds, for   *)
(* whatever Cursor may send; and shells, for any number of calls and       *)
(* commands: a create takes the wrap of its own call, and no reserved      *)
(* record is forgotten.                                                    *)
(*                                                                         *)
(* The holds' invariant says, of the generation Cursor is sending: the     *)
(* order record's calls are those Cursor started, in that order            *)
(* (Generations); a call's state says what became of it (CallsAgree); an   *)
(* exec is where its call's state says, and waits for no earlier one once  *)
(* it was released (ExecsAgree).  What a call sends, it sends one by one   *)
(* (OneByOne).                                                             *)
(***************************************************************************)
EXTENDS StepOrder, ShellCalls, FiniteSetTheorems, SequenceTheorems, TLAPS

Terminal == {"done", "refused"}

InGen(g) == {c \in Calls : GenOf[c] = g}

\* The calls Cursor has started in the generation it is sending.
Live == started \cap InGen(gen)

\* Cursor has the answer of the call's last exec.
LastSettled(c) == \E e \in ExecsOf(c) \ Reads : phase[e] = "settled"

-----------------------------------------------------------------------------
(* What Cursor sends. *)

\* A call's private reads are over before its own exec is sent, which is its
\* last; of any two execs of a call one is over, or not sent.
OneByOne ==
    /\ \A e \in Execs : phase[e] # "unsent" => e \in DOMAIN CallOf /\ CallOf[e] \in started
    /\ \A e, d \in DOMAIN CallOf : CallOf[e] = CallOf[d] /\ e # d /\ phase[e] # "unsent" =>
          /\ phase[e] = "settled" \/ phase[d] \in {"unsent", "settled"}
          /\ e \notin Reads => phase[d] = IF d \in Reads THEN "settled" ELSE "unsent"

\* What is over was started before, in this generation or an older one.
History ==
    /\ \A c \in started : GenOf[c] <= gen
    /\ over \subseteq started /\ refusals \subseteq failed /\ failed \subseteq started
    /\ \A e \in withdrawn : phase[e] \in {"host", "settled"} /\ CallOf[e] \in failed
    /\ \A e \in cancelled : phase[e] = "settled"

-----------------------------------------------------------------------------
(* The order record. *)

\* The record's calls are the live ones, or those of a finished generation
\* that the next announcement or count will clear.
Current ==
    /\ Known(order) = Live
    /\ order.listedCount = IF counted THEN Cardinality(InGen(gen)) ELSE None
    /\ \A c \in Live : order.calls[c].index < order.nextIndex /\ Before(order, c) = earlier[c]

Leftover ==
    /\ Silent = {} /\ "count" \in Signals
    /\ ~counted /\ Live = {} /\ StepFinished(order)

Generations == Current \/ Leftover

CallAgrees(c) ==
    /\ c \in Shown => order.calls[c].fileChange
    /\ order.calls[c].fileChange => c \in FileChange
    /\ c \in over \/ LastSettled(c) => order.calls[c].state \in Terminal
    /\ order.calls[c].state \in Terminal => c \in over \cup failed \/ LastSettled(c)
    /\ order.calls[c].state = "held" => \E e \in ExecsOf(c) : phase[e] = "held"
    /\ order.calls[c].state = "refused" => c \in refusals
    /\ c \in refusals \cap Shown => order.calls[c].state = "refused"

CallsAgree == \A c \in Live : CallAgrees(c)

ExecAgrees(e) ==
    /\ e \in order.held <=> phase[e] = "held"
    /\ order.execs[e] = "call" => e \notin Reads
    /\ order.execs[e] = "read" => e \in Reads
    /\ phase[e] \in {"held", "released"} =>
          /\ CallOf[e] \in Live \ (over \cup failed)
          /\ CallOf[e] \in FileChange => order.calls[CallOf[e]].fileChange
    /\ phase[e] = "held" => order.calls[CallOf[e]].state = "held"
    /\ phase[e] = "released" =>
          /\ hostStep = "open" /\ order.calls[CallOf[e]].state = "running"
          /\ ~Blocked(order, CallOf[e]) /\ ~FollowsRefusal(order, CallOf[e])
    /\ phase[e] = "host" /\ CallOf[e] \in Live =>
          /\ order.execs[e] # "none"
          /\ order.calls[CallOf[e]].state = "running"
                \/ (order.calls[CallOf[e]].state \in Terminal /\ CallOf[e] \in over)

ExecsAgree == \A e \in Execs : ExecAgrees(e)

OrderInv ==
    /\ TypeOK /\ OneByOne /\ History /\ Generations /\ CallsAgree /\ ExecsAgree
    /\ RefusalStaysInGeneration

-----------------------------------------------------------------------------
(* What the functions of step-order.ts do to the record, call by call. *)

\* p has the calls of o, in their order; only their states may differ.
SameCalls(o, p) ==
    /\ p \in StepOrderState /\ p.nextIndex = o.nextIndex /\ p.listedCount = o.listedCount
    /\ \A c \in Calls :
          /\ p.calls[c].index = o.calls[c].index
          /\ p.calls[c].fileChange = o.calls[c].fileChange
          /\ p.calls[c].state = "unknown" <=> o.calls[c].state = "unknown"

StateOnly(o, p, c, s) ==
    /\ p.calls[c].state = s
    /\ \A d \in Calls \ {c} : p.calls[d].state = o.calls[d].state

\* The states of the calls of E, all in o.held, become s, and the rest stay.
StatesOf(o, p, E, s) ==
    \A c \in Calls : p.calls[c].state = IF \E e \in E : CallOf[e] = c THEN s ELSE o.calls[c].state

\* What Cursor sends has the types of PlansAssumption.
PlanTyped ==
    /\ DOMAIN CallOf \subseteq Execs
    /\ \A e \in DOMAIN CallOf : CallOf[e] \in Calls
    /\ \A c \in Calls : GenOf[c] \in Nat
    /\ FileChange \subseteq Calls /\ Shown \subseteq FileChange /\ Shown \cap Silent = {}
    /\ \A e \in Reads : e \in DOMAIN CallOf /\ CallOf[e] \in Shown
    /\ "start" \in Signals \/ ("count" \in Signals /\ Silent = {})

LEMMA PlanIsTyped == ASSUME plan \in Plans PROVE PlanTyped
<1>1. plan \in Plan /\ Shown \subseteq FileChange /\ Shown \cap Silent = {}
  BY PlansAssumption DEF Shown, FileChange, Silent
<1>2. \A e \in Reads : e \in DOMAIN CallOf /\ CallOf[e] \in Shown
  BY PlansAssumption DEF Shown, Reads, CallOf
<1>3. "start" \in Signals \/ ("count" \in Signals /\ Silent = {})
  BY PlansAssumption DEF Signals, Silent
<1>4. CallOf \in UNION {[E -> Calls] : E \in SUBSET Execs}
  BY <1>1 DEF Plan, CallOf
<1>5. PICK E \in SUBSET Execs : CallOf \in [E -> Calls]
  BY <1>4
<1>6. GenOf \in [Calls -> Nat] /\ FileChange \subseteq Calls
  BY <1>1 DEF Plan, GenOf, FileChange
<1> QED
  BY <1>1, <1>2, <1>3, <1>5, <1>6 DEF PlanTyped

LEMMA OrderFields ==
  ASSUME NEW o \in StepOrderState
  PROVE  /\ o = [calls |-> o.calls, nextIndex |-> o.nextIndex, listedCount |-> o.listedCount,
                 execs |-> o.execs, held |-> o.held]
         /\ o.calls \in [Calls -> OrderedCall] /\ o.nextIndex \in Nat
         /\ o.listedCount \in Nat \cup {None} /\ o.held \in SUBSET Execs
         /\ o.execs \in [Execs -> {"none", "call", "read"}]
  BY DEF StepOrderState

LEMMA CallFields ==
  ASSUME NEW k \in OrderedCall
  PROVE  /\ k = [index |-> k.index, fileChange |-> k.fileChange, state |-> k.state]
         /\ k.index \in Nat /\ k.fileChange \in BOOLEAN
         /\ k.state \in {"unknown", "announced", "held", "running", "done", "refused"}
  BY DEF OrderedCall

\* o with the states of the calls of C, the execs and the holds set.
Set(o, C, s, x, h) ==
    [calls |-> [c \in Calls |-> IF c \in C THEN [o.calls[c] EXCEPT !.state = s] ELSE o.calls[c]],
     nextIndex |-> o.nextIndex, listedCount |-> o.listedCount, execs |-> x, held |-> h]

Settable(o, C, s, x, h) ==
    /\ o \in StepOrderState
    /\ s \in {"announced", "held", "running", "done", "refused"}
    /\ x \in [Execs -> {"none", "call", "read"}] /\ h \in SUBSET Execs
    /\ C \subseteq Calls
    /\ \A c \in C : o.calls[c].state # "unknown"

IsSet(o, p, C, s, x, h) ==
    /\ SameCalls(o, p) /\ p.execs = x /\ p.held = h
    /\ \A c \in Calls : p.calls[c].state = IF c \in C THEN s ELSE o.calls[c].state

\* That leaves the calls in their order.
LEMMA SetStates ==
  ASSUME NEW o, NEW C, NEW s, NEW x, NEW h, Settable(o, C, s, x, h)
  PROVE  IsSet(o, Set(o, C, s, x, h), C, s, x, h)
<1> DEFINE p == Set(o, C, s, x, h)
<1>0. o \in StepOrderState
  BY DEF Settable
<1>1. \A c \in Calls : /\ [o.calls[c] EXCEPT !.state = s] \in OrderedCall
                       /\ [o.calls[c] EXCEPT !.state = s].state = s
                       /\ [o.calls[c] EXCEPT !.state = s].index = o.calls[c].index
                       /\ [o.calls[c] EXCEPT !.state = s].fileChange = o.calls[c].fileChange
  BY <1>0, OrderFields DEF OrderedCall, Settable
<1>2. p.calls \in [Calls -> OrderedCall]
  BY <1>1, <1>0, OrderFields DEF Set
<1>3. p \in StepOrderState /\ p.nextIndex = o.nextIndex /\ p.listedCount = o.listedCount
  BY <1>2, <1>0, OrderFields DEF StepOrderState, Set, Settable
<1>4. \A c \in Calls : /\ p.calls[c].index = o.calls[c].index
                       /\ p.calls[c].fileChange = o.calls[c].fileChange
                       /\ p.calls[c].state = IF c \in C THEN s ELSE o.calls[c].state
  BY <1>1 DEF Set
<1>5. p.execs = x /\ p.held = h
  BY DEF Set
<1>6. SameCalls(o, p)
  BY <1>3, <1>4 DEF SameCalls, Settable
<1> QED
  BY <1>4, <1>5, <1>6 DEF IsSet

\* The same calls stand in the same order.
LEMMA SameOrder ==
  ASSUME NEW o, NEW p, SameCalls(o, p)
  PROVE  /\ Known(p) = Known(o)
         /\ \A c \in Calls : Before(p, c) = Before(o, c)
<1>1. Known(p) = Known(o)
  BY DEF SameCalls, Known
<1> QED
  BY <1>1 DEF SameCalls, Before, Known

\* Whatever an operator sets one call's state to.
LEMMA SetState ==
  ASSUME NEW o \in StepOrderState, NEW c \in Calls, o.calls[c].state # "unknown",
         NEW s \in {"announced", "held", "running", "done", "refused"}, NEW p,
         p = [o EXCEPT !.calls[c].state = s]
  PROVE  /\ SameCalls(o, p) /\ p.execs = o.execs /\ p.held = o.held
         /\ StateOnly(o, p, c, s)
<1>1. p = Set(o, {c}, s, o.execs, o.held)
  BY OrderFields DEF Set
<1>2. Settable(o, {c}, s, o.execs, o.held)
  BY OrderFields DEF Settable
<1>3. IsSet(o, p, {c}, s, o.execs, o.held)
  BY <1>1, <1>2, SetStates
<1> QED
  BY <1>3 DEF StateOnly, IsSet

\* runExec: the call runs, unless it is over, and its exec is known.
LEMMA RunExecDoes ==
  ASSUME NEW o \in StepOrderState, NEW e \in Execs, CallOf[e] \in Calls,
         o.calls[CallOf[e]].state \in {"announced", "held", "running"}
  PROVE  /\ SameCalls(o, RunExec(o, e)) /\ RunExec(o, e).held = o.held
         /\ StateOnly(o, RunExec(o, e), CallOf[e], "running")
         /\ RunExec(o, e).execs =
               [o.execs EXCEPT ![e] = IF o.calls[CallOf[e]].fileChange /\ e \in Reads
                                      THEN "read" ELSE "call"]
<1> DEFINE c == CallOf[e]
           x == [o.execs EXCEPT ![e] = IF o.calls[c].fileChange /\ e \in Reads THEN "read" ELSE "call"]
           q == [o EXCEPT !.calls[c].state = "running"]
           p == RunExec(o, e)
<1>1. q = Set(o, {c}, "running", o.execs, o.held)
  BY OrderFields DEF Set
<1>2. p = [q EXCEPT !.execs = x]
  BY <1>1, OrderFields DEF RunExec, Set
<1>3. p = Set(o, {c}, "running", x, o.held)
  BY <1>1, <1>2 DEF Set
<1>4. Settable(o, {c}, "running", x, o.held)
  BY OrderFields DEF Settable
<1> HIDE DEF p, x
<1>5. IsSet(o, p, {c}, "running", x, o.held)
  BY <1>3, <1>4, SetStates
<1> QED
  BY <1>5 DEF IsSet, StateOnly, p, x

\* finishCall: done, unless it is held, refused or unknown.
LEMMA FinishCallDoes ==
  ASSUME NEW o \in StepOrderState, NEW c \in Calls
  PROVE  /\ SameCalls(o, FinishCall(o, c))
         /\ FinishCall(o, c).execs = o.execs /\ FinishCall(o, c).held = o.held
         /\ StateOnly(o, FinishCall(o, c), c,
                      IF o.calls[c].state \in {"unknown", "held", "refused"}
                      THEN o.calls[c].state ELSE "done")
<1>1. CASE o.calls[c].state \in {"unknown", "held", "refused"}
  BY <1>1 DEF FinishCall, SameCalls, StateOnly
<1>2. CASE o.calls[c].state \notin {"unknown", "held", "refused"}
  <2>1. FinishCall(o, c) = [o EXCEPT !.calls[c].state = "done"]
    BY <1>2 DEF FinishCall
  <2> QED
    BY <1>2, <2>1, SetState
<1> QED
  BY <1>1, <1>2

\* refuseCall: a file change is refused, another call done.
LEMMA RefuseCallDoes ==
  ASSUME NEW o \in StepOrderState, NEW c \in Calls
  PROVE  /\ SameCalls(o, RefuseCall(o, c))
         /\ RefuseCall(o, c).execs = o.execs /\ RefuseCall(o, c).held = o.held
         /\ StateOnly(o, RefuseCall(o, c), c,
                      IF o.calls[c].state \in {"unknown", "held"} THEN o.calls[c].state
                      ELSE IF o.calls[c].fileChange THEN "refused" ELSE "done")
<1>1. CASE o.calls[c].state \in {"unknown", "held"}
  BY <1>1 DEF RefuseCall, SameCalls, StateOnly
<1>2. CASE o.calls[c].state \notin {"unknown", "held"}
  <2> DEFINE s == IF o.calls[c].fileChange THEN "refused" ELSE "done"
  <2>1. RefuseCall(o, c) = [o EXCEPT !.calls[c].state = s]
    BY <1>2 DEF RefuseCall
  <2>2. s \in {"announced", "held", "running", "done", "refused"}
    OBVIOUS
  <2> HIDE DEF s
  <2>3. /\ SameCalls(o, RefuseCall(o, c)) /\ RefuseCall(o, c).execs = o.execs
        /\ RefuseCall(o, c).held = o.held /\ StateOnly(o, RefuseCall(o, c), c, s)
    BY <1>2, <2>1, <2>2, SetState
  <2> QED
    BY <1>2, <2>3 DEF s
<1> QED
  BY <1>1, <1>2

\* holdExec: the call and its exec wait.
LEMMA HoldExecDoes ==
  ASSUME NEW o \in StepOrderState, NEW e \in Execs, CallOf[e] \in Calls,
         o.calls[CallOf[e]].state # "unknown"
  PROVE  /\ SameCalls(o, HoldExec(o, e)) /\ HoldExec(o, e).execs = o.execs
         /\ HoldExec(o, e).held = o.held \cup {e}
         /\ StateOnly(o, HoldExec(o, e), CallOf[e], "held")
<1> DEFINE c == CallOf[e]
           h == o.held \cup {e}
           q == [o EXCEPT !.calls[c].state = "held"]
           p == HoldExec(o, e)
<1>1. q = Set(o, {c}, "held", o.execs, o.held)
  BY OrderFields DEF Set
<1>2. p = [q EXCEPT !.held = h]
  BY <1>1, OrderFields DEF HoldExec, Set
<1>3. p = Set(o, {c}, "held", o.execs, h)
  BY <1>1, <1>2 DEF Set
<1>4. Settable(o, {c}, "held", o.execs, h)
  BY OrderFields DEF Settable
<1> HIDE DEF p, h
<1>5. IsSet(o, p, {c}, "held", o.execs, h)
  BY <1>3, <1>4, SetStates
<1> QED
  BY <1>5 DEF IsSet, StateOnly, p, h

\* The calls of the execs of E.
CallsOf(E) == {c \in Calls : \E e \in E : CallOf[e] = c}

Releases(o, E, s) ==
    /\ o \in StepOrderState /\ s \in {"running", "done"}
    /\ \A e \in E : CallOf[e] \in Calls /\ o.calls[CallOf[e]].state # "unknown"

\* o without the execs of E held, and their calls in state s.
Without(o, E, s) ==
    [o EXCEPT !.held = @ \ E,
              !.calls = [c \in Calls |->
                 IF \E e \in E : CallOf[e] = c THEN [@[c] EXCEPT !.state = s] ELSE @[c]]]

LEMMA WithoutDoes ==
  ASSUME NEW o, NEW E, NEW s, Releases(o, E, s)
  PROVE  /\ SameCalls(o, Without(o, E, s)) /\ Without(o, E, s).execs = o.execs
         /\ Without(o, E, s).held = o.held \ E
         /\ StatesOf(o, Without(o, E, s), E, s)
<1> DEFINE p == Without(o, E, s)
           C == CallsOf(E)
           h == o.held \ E
           q == [o EXCEPT !.held = h]
           k == [c \in Calls |-> IF \E e \in E : CallOf[e] = c THEN [o.calls[c] EXCEPT !.state = s]
                                 ELSE o.calls[c]]
<1>0. o \in StepOrderState
  BY DEF Releases
<1>a. /\ o = [calls |-> o.calls, nextIndex |-> o.nextIndex, listedCount |-> o.listedCount,
             execs |-> o.execs, held |-> o.held]
      /\ o.held \in SUBSET Execs /\ o.execs \in [Execs -> {"none", "call", "read"}]
  BY <1>0, OrderFields
<1>1. q = [calls |-> o.calls, nextIndex |-> o.nextIndex, listedCount |-> o.listedCount,
           execs |-> o.execs, held |-> h]
  BY <1>a
<1>2. p = [q EXCEPT !.calls = k]
  BY <1>1 DEF Without
<1>3. k = [c \in Calls |-> IF c \in C THEN [o.calls[c] EXCEPT !.state = s] ELSE o.calls[c]]
  BY DEF CallsOf
<1> HIDE DEF p, q, k
<1>4. p = [calls |-> k, nextIndex |-> o.nextIndex, listedCount |-> o.listedCount,
           execs |-> o.execs, held |-> h]
  BY <1>1, <1>2
<1> HIDE DEF h, C
<1>5. p = Set(o, C, s, o.execs, h)
  BY <1>3, <1>4 DEF Set
<1>6. Settable(o, C, s, o.execs, h)
  BY <1>0, <1>a DEF Settable, C, h, CallsOf, Releases
<1>7. IsSet(o, p, C, s, o.execs, h)
  BY <1>5, <1>6, SetStates
<1> QED
  BY <1>7 DEF IsSet, StatesOf, p, h, C, CallsOf

\* dropHeldExec and takeCancelledExecs: the calls of the execs are done.
LEMMA DropHeldDoes ==
  ASSUME NEW o, NEW E, Releases(o, E, "done")
  PROVE  /\ SameCalls(o, DropHeld(o, E)) /\ DropHeld(o, E).execs = o.execs
         /\ DropHeld(o, E).held = o.held \ E
         /\ StatesOf(o, DropHeld(o, E), E, "done")
<1>1. DropHeld(o, E) = Without(o, E, "done")
  BY DEF DropHeld, Without
<1> QED
  BY <1>1, WithoutDoes

\* takeReleasableExecs: the calls of the free execs run.
LEMMA ReleasedDoes ==
  ASSUME NEW o, Releases(o, Releasable(o), "running")
  PROVE  /\ SameCalls(o, Released(o)) /\ Released(o).execs = o.execs
         /\ Released(o).held = o.held \ Releasable(o)
         /\ StatesOf(o, Released(o), Releasable(o), "running")
<1>1. Released(o) = Without(o, Releasable(o), "running")
  BY DEF Released, Without
<1> QED
  BY <1>1, WithoutDoes

\* clearStep: nothing is known; what is held stays.
LEMMA ClearStepDoes ==
  ASSUME NEW o \in StepOrderState
  PROVE  /\ ClearStep(o) \in StepOrderState /\ Known(ClearStep(o)) = {}
         /\ ClearStep(o).listedCount = None /\ ClearStep(o).held = o.held
         /\ ClearStep(o).execs = [e \in Execs |-> "none"]
         /\ ClearStep(o).nextIndex = 0
<1>1. ClearStep(o) = [calls |-> [c \in Calls |-> Unknown], nextIndex |-> 0,
                      listedCount |-> None, execs |-> [e \in Execs |-> "none"], held |-> o.held]
  BY DEF ClearStep, CreateStepOrder
<1>2. Unknown \in OrderedCall /\ Unknown.state = "unknown"
  BY DEF Unknown, OrderedCall
<1>3. ClearStep(o) \in StepOrderState
  BY <1>1, <1>2, OrderFields DEF StepOrderState
<1> QED
  BY <1>1, <1>2, <1>3 DEF Known

\* p is o with the call c ensured: known, last if it is new, a file change if
\* it was or now is.
Ensured(o, p, c, fc) ==
    /\ p \in StepOrderState
    /\ p.listedCount = o.listedCount /\ p.execs = o.execs /\ p.held = o.held
    /\ o.calls[c].state = "unknown" =>
          /\ p.nextIndex = o.nextIndex + 1
          /\ p.calls[c].index = o.nextIndex /\ p.calls[c].state = "announced"
          /\ p.calls[c].fileChange = fc
    /\ o.calls[c].state # "unknown" =>
          /\ p.nextIndex = o.nextIndex
          /\ p.calls[c].index = o.calls[c].index /\ p.calls[c].state = o.calls[c].state
          /\ p.calls[c].fileChange = (o.calls[c].fileChange \/ fc)
    /\ \A d \in Calls \ {c} : p.calls[d] = o.calls[d]

LEMMA EnsureCallDoes ==
  ASSUME NEW o \in StepOrderState, NEW c \in Calls, NEW fc \in BOOLEAN
  PROVE  Ensured(o, EnsureCall(o, c, fc), c, fc)
<1> DEFINE p == EnsureCall(o, c, fc)
           k == o.calls[c]
<1>1. /\ o = [calls |-> o.calls, nextIndex |-> o.nextIndex, listedCount |-> o.listedCount,
             execs |-> o.execs, held |-> o.held]
      /\ o.calls \in [Calls -> OrderedCall] /\ o.nextIndex \in Nat
  BY OrderFields
<1>2. k \in OrderedCall
  BY <1>1
<1>3. k = [index |-> k.index, fileChange |-> k.fileChange, state |-> k.state]
      /\ k.index \in Nat /\ k.fileChange \in BOOLEAN
      /\ k.state \in {"unknown", "announced", "held", "running", "done", "refused"}
  BY <1>2, CallFields
<1>4. CASE k.state = "unknown"
  <2> DEFINE new == [index |-> o.nextIndex, fileChange |-> fc, state |-> "announced"]
             f == [o.calls EXCEPT ![c] = new]
             q == [o EXCEPT !.nextIndex = o.nextIndex + 1]
  <2>1. q = [calls |-> o.calls, nextIndex |-> o.nextIndex + 1, listedCount |-> o.listedCount,
             execs |-> o.execs, held |-> o.held]
    BY <1>1
  <2>2. p = [q EXCEPT !.calls = f]
    BY <1>4, <2>1 DEF EnsureCall
  <2>3. new \in OrderedCall
    BY <1>1 DEF OrderedCall
  <2> HIDE DEF p, q, f
  <2>4. p = [calls |-> f, nextIndex |-> o.nextIndex + 1, listedCount |-> o.listedCount,
             execs |-> o.execs, held |-> o.held]
    BY <2>1, <2>2
  <2>5. f \in [Calls -> OrderedCall] /\ f[c] = new /\ \A d \in Calls \ {c} : f[d] = o.calls[d]
    BY <1>1, <2>3 DEF f
  <2>6. p \in StepOrderState
    BY <1>1, <2>4, <2>5 DEF StepOrderState
  <2> QED
    BY <1>4, <2>4, <2>5, <2>6 DEF Ensured, p
<1>5. CASE k.state # "unknown"
  <2> DEFINE v == k.fileChange \/ fc
             new == [index |-> k.index, fileChange |-> v, state |-> k.state]
             f == [o.calls EXCEPT ![c] = new]
  <2>1. v \in BOOLEAN
    BY <1>3
  <2>2. new \in OrderedCall
    BY <1>3, <2>1 DEF OrderedCall
  <2> HIDE DEF v
  <2>3. [k EXCEPT !.fileChange = v] = new
    BY <1>3
  <2>4. p = [o EXCEPT !.calls = [o.calls EXCEPT ![c] = [k EXCEPT !.fileChange = v]]]
    BY <1>5 DEF EnsureCall, v
  <2>5. p = [o EXCEPT !.calls = f]
    BY <2>3, <2>4
  <2> HIDE DEF p, f
  <2>6. p = [calls |-> f, nextIndex |-> o.nextIndex, listedCount |-> o.listedCount,
             execs |-> o.execs, held |-> o.held]
    BY <1>1, <2>5
  <2>7. f \in [Calls -> OrderedCall] /\ f[c] = new /\ \A d \in Calls \ {c} : f[d] = o.calls[d]
    BY <1>1, <2>2 DEF f
  <2>8. p \in StepOrderState
    BY <1>1, <2>6, <2>7 DEF StepOrderState
  <2>9. /\ p.nextIndex = o.nextIndex /\ p.listedCount = o.listedCount
        /\ p.execs = o.execs /\ p.held = o.held
        /\ p.calls[c] = new /\ \A d \in Calls \ {c} : p.calls[d] = o.calls[d]
    BY <2>6, <2>7
  <2>10. new.index = k.index /\ new.state = k.state /\ new.fileChange = v
    OBVIOUS
  <2> QED
    BY <1>5, <2>8, <2>9, <2>10 DEF Ensured, p, v
<1> QED
  BY <1>4, <1>5

-----------------------------------------------------------------------------
(* What a step that leaves a thing alone keeps of it. *)

\* An exec that moves was under way and is not sent again.
LEMMA OneByOneKept ==
  ASSUME TypeOK, OneByOne, UNCHANGED plan, started \subseteq started',
         \A e \in Execs : \/ phase'[e] = phase[e]
                          \/ phase[e] \notin {"unsent", "settled"} /\ phase'[e] # "unsent"
  PROVE  OneByOne'
<1>1. CallOf' = CallOf /\ Reads' = Reads /\ DOMAIN CallOf \subseteq Execs
  BY PlanIsTyped DEF TypeOK, PlanTyped, CallOf, Reads
<1>2. \A e \in Execs : phase'[e] # "unsent" => phase[e] # "unsent"
  OBVIOUS
<1>3. \A e \in Execs : phase'[e] # "unsent" => e \in DOMAIN CallOf /\ CallOf[e] \in started'
  BY <1>2 DEF OneByOne
<1>4. ASSUME NEW e \in DOMAIN CallOf, NEW d \in DOMAIN CallOf,
             CallOf[e] = CallOf[d] /\ e # d /\ phase'[e] # "unsent"
      PROVE  /\ phase'[e] = "settled" \/ phase'[d] \in {"unsent", "settled"}
             /\ e \notin Reads => phase'[d] = IF d \in Reads THEN "settled" ELSE "unsent"
  <2>1. e \in Execs /\ d \in Execs /\ phase[e] # "unsent"
    BY <1>1, <1>2, <1>4
  <2>2. /\ phase[e] = "settled" \/ phase[d] \in {"unsent", "settled"}
        /\ e \notin Reads => phase[d] = IF d \in Reads THEN "settled" ELSE "unsent"
    BY <1>4, <2>1 DEF OneByOne
  <2> QED
    BY <2>1, <2>2
<1> QED
  BY <1>1, <1>3, <1>4 DEF OneByOne

\* The record of the generation that is sent, when no call starts.
LEMMA CurrentKept ==
  ASSUME TypeOK, Current, SameCalls(order, order'),
         UNCHANGED <<plan, gen, counted, started, earlier>>
  PROVE  Current'
<1>1. Known(order') = Known(order) /\ \A c \in Calls : Before(order', c) = Before(order, c)
  BY SameOrder
<1>2. Live' = Live /\ InGen(gen)' = InGen(gen) /\ Live \subseteq Calls
  BY DEF Live, InGen, GenOf, TypeOK
<1>3. Cardinality(InGen(gen))' = Cardinality(InGen(gen))
  BY <1>2
<1>4. /\ order'.listedCount = order.listedCount /\ order'.nextIndex = order.nextIndex
      /\ \A c \in Calls : order'.calls[c].index = order.calls[c].index
  BY DEF SameCalls
<1>5. Known(order)' = Live'
  BY <1>1, <1>2 DEF Current, Known
<1>6. order'.listedCount = IF counted' THEN Cardinality(InGen(gen))' ELSE None
  BY <1>3, <1>4 DEF Current
<1>7. \A c \in Live' : order'.calls[c].index < order'.nextIndex /\ Before(order', c) = earlier'[c]
  BY <1>1, <1>2, <1>4 DEF Current
<1> QED
  BY <1>5, <1>6, <1>7 DEF Current

\* The record of a finished generation, whose calls stay finished.
LEMMA LeftoverKept ==
  ASSUME TypeOK, Leftover, SameCalls(order, order'), order'.held = {},
         \A c \in Known(order) : order'.calls[c].state \in Terminal,
         UNCHANGED <<plan, gen, counted, started>>
  PROVE  Leftover'
<1>1. Known(order') = Known(order)
  BY SameOrder
<1>2. Live' = Live /\ Silent' = Silent /\ Signals' = Signals
  BY DEF Live, InGen, GenOf, Silent, Signals
<1>3. order'.listedCount = order.listedCount
  BY DEF SameCalls
<1>4. StepFinished(order')
  BY <1>1, <1>3 DEF Leftover, StepFinished, AllTerminal, Terminal
<1> QED
  BY <1>2, <1>4 DEF Leftover

\* A call whose state, execs and outcomes stay.
CallStays(c) ==
    /\ UNCHANGED plan
    /\ order'.calls[c].fileChange = order.calls[c].fileChange
    /\ order'.calls[c].state = order.calls[c].state
    /\ c \in over' <=> c \in over
    /\ c \in failed => c \in failed'
    /\ c \in refusals' <=> c \in refusals
    /\ \A e \in ExecsOf(c) : phase'[e] = phase[e]

LEMMA CallKept ==
  ASSUME NEW c \in Calls, CallAgrees(c), CallStays(c)
  PROVE  CallAgrees(c)'
<1>1. /\ Shown' = Shown /\ FileChange' = FileChange /\ ExecsOf(c)' = ExecsOf(c) /\ Reads' = Reads
      /\ LastSettled(c)' = LastSettled(c)
  BY DEF CallStays, Shown, FileChange, ExecsOf, CallOf, Reads, LastSettled
<1>2. (\E e \in ExecsOf(c) : phase[e] = "held") => \E e \in ExecsOf(c)' : phase'[e] = "held"
  BY <1>1 DEF CallStays
<1> QED
  BY <1>1, <1>2 DEF CallAgrees, CallStays

\* An exec that stays where it is, and its call with it.
ExecStays(e) ==
    /\ UNCHANGED <<plan, gen>>
    /\ e \in order'.held <=> e \in order.held
    /\ order'.execs[e] = order.execs[e]
    /\ phase'[e] = phase[e]
    /\ order'.calls[CallOf[e]].fileChange = order.calls[CallOf[e]].fileChange
    /\ order'.calls[CallOf[e]].state = order.calls[CallOf[e]].state
    /\ CallOf[e] \in over' <=> CallOf[e] \in over
    /\ CallOf[e] \in failed' <=> CallOf[e] \in failed
    /\ CallOf[e] \in started' <=> CallOf[e] \in started
    /\ phase[e] = "released" =>
          /\ hostStep' = hostStep
          /\ Blocked(order', CallOf[e]) => Blocked(order, CallOf[e])
          /\ FollowsRefusal(order', CallOf[e]) => FollowsRefusal(order, CallOf[e])

LEMMA ExecKept ==
  ASSUME NEW e \in Execs, ExecAgrees(e), ExecStays(e)
  PROVE  ExecAgrees(e)'
<1>1. /\ CallOf' = CallOf /\ FileChange' = FileChange /\ Reads' = Reads
      /\ CallOf[e] \in Live' <=> CallOf[e] \in Live
  BY DEF ExecStays, CallOf, FileChange, Reads, Live, InGen, GenOf
<1>2. /\ Blocked(order, CallOf[e])' => Blocked(order', CallOf[e])
      /\ FollowsRefusal(order, CallOf[e])' => FollowsRefusal(order', CallOf[e])
  BY <1>1 DEF Blocked, FollowsRefusal, Before, Known
<1> QED
  BY <1>1, <1>2 DEF ExecAgrees, ExecStays

\* An exec that is not under way.
LEMMA ExecIdle ==
  ASSUME NEW e \in Execs, phase'[e] \in {"unsent", "settled"}, e \notin order'.held,
         order'.execs[e] = "call" => e \notin Reads',
         order'.execs[e] = "read" => e \in Reads'
  PROVE  ExecAgrees(e)'
  BY DEF ExecAgrees

\* A refusal stays in its generation while what was started stays in place.
LEMMA RefusalsKept ==
  ASSUME TypeOK, OneByOne, History, RefusalStaysInGeneration, UNCHANGED plan,
         refusals \subseteq refusals',
         \A c \in started : earlier'[c] = earlier[c],
         \A e \in cancelled' : e \notin cancelled =>
            \E f \in refusals' : GenOf[f] = GenOf[CallOf[e]] /\ f \in earlier'[CallOf[e]]
  PROVE  RefusalStaysInGeneration'
<1>1. CallOf' = CallOf /\ GenOf' = GenOf
  BY DEF CallOf, GenOf
<1>2. ASSUME NEW e \in cancelled'
      PROVE  \E f \in refusals' : GenOf[f] = GenOf[CallOf[e]] /\ f \in earlier'[CallOf[e]]
  <2>1. CASE e \in cancelled
    <3>1. CallOf[e] \in started
      BY <2>1 DEF TypeOK, OneByOne, History
    <3>2. PICK f \in refusals : GenOf[f] = GenOf[CallOf[e]] /\ f \in earlier[CallOf[e]]
      BY <2>1 DEF RefusalStaysInGeneration
    <3> QED
      BY <3>1, <3>2
  <2> QED
    BY <2>1
<1> QED
  BY <1>1, <1>2 DEF RefusalStaysInGeneration

-----------------------------------------------------------------------------
(* Cursor starts a call. *)

\* The record o has c among the calls of its generation, in Cursor's order.
Arrived(o, c) ==
    /\ o \in StepOrderState
    /\ o.held = order.held /\ o.execs = order.execs /\ o.listedCount = order.listedCount
    /\ Known(o) = started' \cap InGen(gen)
    /\ \A d \in Known(o) : o.calls[d].index < o.nextIndex /\ Before(o, d) = earlier'[d]
    /\ \A d \in Calls \ {c} : o.calls[d] = order.calls[d]
    /\ o.calls[c].state = IF c \in started THEN order.calls[c].state ELSE "announced"
    /\ o.calls[c].fileChange => c \in FileChange
    /\ c \in Shown => o.calls[c].fileChange

LEMMA LiveKnown ==
  ASSUME TypeOK, Current, NEW c \in Calls, GenOf[c] = gen
  PROVE  c \in Known(order) <=> c \in started
  BY DEF Current, Live, InGen

LEMMA Arrives ==
  ASSUME TypeOK, History, Current, CallsAgree, NEW c \in Calls, GenOf[c] = gen, Starts(c),
         NEW fc \in BOOLEAN, fc => c \in FileChange, c \in Shown /\ c \notin started => fc
  PROVE  /\ Arrived(EnsureCall(order, c, fc), c)
         /\ fc => EnsureCall(order, c, fc).calls[c].fileChange
<1> DEFINE o == EnsureCall(order, c, fc)
<1>1. order \in StepOrderState
  BY DEF TypeOK
<1>2. Ensured(order, o, c, fc)
  BY <1>1, EnsureCallDoes
<1>3. Known(order) = Live /\ (c \in Known(order) <=> c \in started)
  BY LiveKnown DEF Current
<1>4. order.calls[c].state = "unknown" <=> c \notin started
  BY <1>3 DEF Known
<1> HIDE DEF o
<1>5. started' = started \cup {c} /\ c \in InGen(gen)
  BY DEF Starts, InGen
<1>6. \A d \in Calls : o.calls[d].state # "unknown" <=> d \in Known(order) \cup {c}
  BY <1>2, <1>3, <1>4 DEF Ensured, Known
<1>7. Known(o) = started' \cap InGen(gen)
  BY <1>3, <1>5, <1>6 DEF Known, Live, InGen
<1>8. \A d \in Known(order) : order.calls[d].index < order.nextIndex /\ Before(order, d) = earlier[d]
  BY <1>3 DEF Current
<1>9. \A d \in Known(o) : o.calls[d].index < o.nextIndex /\ Before(o, d) = earlier'[d]
  <2>1. CASE c \in started
    <3>1. /\ \A d \in Calls : o.calls[d].index = order.calls[d].index
          /\ o.nextIndex = order.nextIndex /\ Known(o) = Known(order) /\ earlier' = earlier
      BY <2>1, <1>2, <1>3, <1>4, <1>6 DEF Ensured, Known, Starts
    <3>2. \A d \in Known(o) : Before(o, d) = Before(order, d)
      BY <3>1 DEF Before, Known
    <3> QED
      BY <3>1, <3>2, <1>8 DEF Known
  <2>2. CASE c \notin started
    <3>1. /\ \A d \in Calls \ {c} : o.calls[d].index = order.calls[d].index
          /\ o.nextIndex = order.nextIndex + 1 /\ o.calls[c].index = order.nextIndex
          /\ Known(o) = Known(order) \cup {c} /\ c \notin Known(order)
      BY <2>2, <1>2, <1>3, <1>4, <1>6 DEF Ensured, Known
    <3>2. /\ order.nextIndex \in Nat
          /\ \A d \in Calls : order.calls[d].index \in Nat
      BY <1>1, OrderFields, CallFields
    <3>3. Before(o, c) = Known(order)
      BY <3>1, <3>2, <1>8 DEF Before, Known
    <3>4. \A d \in Known(order) : Before(o, d) = Before(order, d)
      <4> TAKE d \in Known(order)
      <4>1. d # c /\ d \in Calls /\ o.calls[d].index = order.calls[d].index
        BY <3>1 DEF Known
      <4>2. order.calls[d].index < order.nextIndex
        BY <1>8
      <4>3. \A x \in Known(o) : o.calls[x].index < o.calls[d].index <=>
               x \in Known(order) /\ order.calls[x].index < order.calls[d].index
        BY <3>1, <3>2, <4>1, <4>2 DEF Known
      <4> QED
        BY <3>1, <4>3 DEF Before
    <3>5. earlier'[c] = {d \in started : GenOf[d] = GenOf[c]}
          /\ \A d \in Calls \ {c} : earlier'[d] = earlier[d]
      BY <2>2 DEF Starts, TypeOK
    <3>6. earlier'[c] = Known(order)
      BY <3>5, <1>3 DEF Live, InGen, TypeOK
    <3>7. o.calls[c].index < o.nextIndex /\ Before(o, c) = earlier'[c]
      BY <3>1, <3>2, <3>3, <3>6
    <3>8. ASSUME NEW d \in Known(order)
          PROVE  o.calls[d].index < o.nextIndex /\ Before(o, d) = earlier'[d]
      <4>1. d \in Calls \ {c}
        BY <3>1, <3>8 DEF Known
      <4>2. order.calls[d].index < order.nextIndex /\ Before(order, d) = earlier[d]
        BY <1>8, <3>8
      <4>3. o.calls[d].index = order.calls[d].index /\ order.calls[d].index \in Nat
        BY <3>1, <3>2, <4>1
      <4>4. Before(o, d) = Before(order, d)
        BY <3>4, <3>8
      <4>5. earlier'[d] = earlier[d]
        BY <3>5, <4>1
      <4> QED
        BY <3>1, <3>2, <4>2, <4>3, <4>4, <4>5
    <3> QED
      BY <3>1, <3>7, <3>8
  <2> QED
    BY <2>1, <2>2
<1>10. /\ o.calls[c].state = IF c \in started THEN order.calls[c].state ELSE "announced"
       /\ o.calls[c].fileChange => c \in FileChange
       /\ c \in Shown => o.calls[c].fileChange
       /\ fc => o.calls[c].fileChange
  <2>1. c \in started => c \in Live
    BY <1>5 DEF Live
  <2>2. c \in started => /\ order.calls[c].fileChange => c \in FileChange
                         /\ c \in Shown => order.calls[c].fileChange
    BY <2>1 DEF CallsAgree, CallAgrees
  <2>3. CASE c \in started
    BY <2>2, <2>3, <1>2, <1>4 DEF Ensured
  <2>4. CASE c \notin started
    BY <2>4, <1>2, <1>4 DEF Ensured
  <2> QED
    BY <2>3, <2>4
<1>11. /\ o \in StepOrderState /\ o.held = order.held /\ o.execs = order.execs
       /\ o.listedCount = order.listedCount
       /\ \A d \in Calls \ {c} : o.calls[d] = order.calls[d]
  BY <1>2 DEF Ensured
<1> QED
  BY <1>7, <1>9, <1>10, <1>11 DEF Arrived, o

\* While calls of the generation are still to come, it is not finished.
LEMMA NotFinished ==
  ASSUME TypeOK, Current, NEW c \in Calls, GenOf[c] = gen, c \notin started
  PROVE  ~StepFinished(order)
<1>1. Live \subseteq InGen(gen) \ {c} /\ c \in InGen(gen) /\ InGen(gen) \subseteq Calls
  BY DEF Live, InGen
<1>2. IsFiniteSet(InGen(gen))
  BY <1>1, CallsAssumption, FS_Subset
<1>3. IsFiniteSet(InGen(gen) \ {c}) /\ Cardinality(InGen(gen) \ {c}) = Cardinality(InGen(gen)) - 1
  BY <1>1, <1>2, FS_RemoveElement
<1>4. Cardinality(Live) <= Cardinality(InGen(gen) \ {c}) /\ IsFiniteSet(Live)
  BY <1>1, <1>3, FS_Subset
<1>5. Cardinality(Live) \in Nat /\ Cardinality(InGen(gen)) \in Nat
  BY <1>2, <1>4, FS_CardinalityType
<1>6. Cardinality(Live) < Cardinality(InGen(gen))
  BY <1>3, <1>4, <1>5
<1> QED
  BY <1>5, <1>6 DEF StepFinished, Current

LEMMA CountTyped ==
  ASSUME TypeOK
  PROVE  \A g : Cardinality(InGen(g)) \in Nat /\ IsFiniteSet(InGen(g))
<1> TAKE g
<1>1. InGen(g) \subseteq Calls
  BY DEF InGen
<1> QED
  BY <1>1, CallsAssumption, FS_Subset, FS_CardinalityType

LEMMA SettledStarted ==
  ASSUME TypeOK, OneByOne, NEW c \in Calls, c \notin started
  PROVE  (\A e \in ExecsOf(c) : phase[e] = "unsent") /\ ~LastSettled(c)
<1>1. \A e \in ExecsOf(c) : e \in Execs /\ CallOf[e] = c
  BY PlanIsTyped DEF TypeOK, PlanTyped, ExecsOf
<1>2. \A e \in ExecsOf(c) : phase[e] = "unsent"
  BY <1>1 DEF OneByOne
<1> QED
  BY <1>2 DEF LastSettled

\* tool_call_started.
LEMMA ToolCallStartedKeeps ==
  ASSUME OrderInv, NEW c \in Calls, ToolCallStarted(c)
  PROVE  OrderInv'
<1> DEFINE fc == c \in Shown
<1>1. /\ TypeOK /\ OneByOne /\ History /\ Generations /\ CallsAgree /\ ExecsAgree
      /\ RefusalStaysInGeneration
  BY DEF OrderInv
<1>2. /\ UNCHANGED <<plan, phase, hostStep, gen, counted, over, withdrawn, failed, refusals, cancelled>>
      /\ GenOf[c] = gen /\ c \notin started /\ Starts(c) /\ Reading
      /\ order' = AnnounceCall(order, c, fc)
  BY DEF ToolCallStarted, history
<1>3. /\ started' = started \cup {c} /\ earlier' = [earlier EXCEPT ![c] = {d \in started : GenOf[d] = gen}]
  BY <1>2 DEF Starts
<1>4. PlanTyped /\ order \in StepOrderState
  BY <1>1, PlanIsTyped DEF TypeOK
<1>5. /\ CallOf' = CallOf /\ GenOf' = GenOf /\ FileChange' = FileChange /\ Shown' = Shown
      /\ Silent' = Silent /\ Reads' = Reads /\ Signals' = Signals /\ InGen(gen)' = InGen(gen)
      /\ \A d \in Calls : ExecsOf(d)' = ExecsOf(d)
  BY <1>2 DEF CallOf, GenOf, FileChange, Shown, Silent, Reads, Signals, InGen, ExecsOf
<1>6. Live' = Live \cup {c} /\ c \notin Live
  BY <1>2, <1>3, <1>5 DEF Live, InGen
<1>7. /\ \A e \in ExecsOf(c) : phase[e] = "unsent"
      /\ ~LastSettled(c) /\ LastSettled(c)' = LastSettled(c)
  BY <1>1, <1>2, <1>5, SettledStarted DEF LastSettled
<1>8. c \notin over /\ c \notin failed /\ c \notin refusals
  BY <1>1, <1>2 DEF History
<1>9. \A e \in Execs : phase[e] # "unsent" => CallOf[e] # c
  BY <1>1, <1>2 DEF OneByOne
<1>10. fc \in BOOLEAN /\ (fc <=> c \in Shown) /\ (fc => c \in FileChange)
  BY <1>4 DEF PlanTyped
<1> HIDE DEF fc
\* The record afterwards, in both cases of Generations.
<1> DEFINE New == /\ order' \in StepOrderState /\ order'.held = order.held
                  /\ order'.calls[c].state = "announced"
                  /\ order'.calls[c].fileChange => c \in FileChange
                  /\ c \in Shown => order'.calls[c].fileChange
                  /\ \A d \in Live : order'.calls[d] = order.calls[d]
                  /\ \A e \in Execs : \/ order'.execs[e] = order.execs[e]
                                      \/ order'.execs[e] = "none" /\ Live = {}
                  /\ Current'
<1>11. ASSUME Current
       PROVE  New
  <2>1. ~StepFinished(order)
    BY <1>1, <1>2, <1>11, NotFinished
  <2>2. order' = EnsureCall(order, c, fc)
    BY <1>2, <2>1 DEF AnnounceCall
  <2>3. Arrived(order', c)
    BY <1>1, <1>2, <1>10, <1>11, <2>2, Arrives
  <2>4. Known(order)' = Live'
    BY <2>3, <1>3, <1>5, <1>2 DEF Arrived, Live, Known, InGen
  <2>5. Cardinality(InGen(gen))' = Cardinality(InGen(gen))
    BY <1>5
  <2>6. order'.listedCount = IF counted' THEN Cardinality(InGen(gen))' ELSE None
    BY <1>2, <1>11, <2>3, <2>5 DEF Arrived, Current
  <2>7. Known(order') = Live'
    BY <2>4 DEF Known
  <2>8. \A d \in Live' : order'.calls[d].index < order'.nextIndex /\ Before(order', d) = earlier'[d]
    BY <2>3, <2>7 DEF Arrived
  <2>9. Current'
    BY <2>4, <2>6, <2>8 DEF Current
  <2>10. \A d \in Live : order'.calls[d] = order.calls[d]
    BY <1>6, <2>3 DEF Arrived, Live, InGen
  <2>11. /\ order' \in StepOrderState /\ order'.held = order.held /\ order'.execs = order.execs
         /\ order'.calls[c].state = "announced"
    BY <1>2, <2>3 DEF Arrived
  <2>12. /\ order'.calls[c].fileChange => c \in FileChange
         /\ c \in Shown => order'.calls[c].fileChange
    BY <2>3 DEF Arrived
  <2> QED
    BY <2>9, <2>10, <2>11, <2>12
<1>12. ASSUME Leftover
       PROVE  New
  <2> DEFINE q == ClearStep(order)
  <2>1. /\ q \in StepOrderState /\ Known(q) = {} /\ q.listedCount = None /\ q.held = order.held
        /\ q.execs = [e \in Execs |-> "none"] /\ q.nextIndex = 0
    BY <1>4, ClearStepDoes
  <2>2. order' = EnsureCall(q, c, fc)
    BY <1>2, <1>12 DEF AnnounceCall, Leftover
  <2> HIDE DEF q
  <2>3. Ensured(q, order', c, fc)
    BY <1>10, <2>1, <2>2, EnsureCallDoes
  <2>4. \A d \in Calls : q.calls[d].state = "unknown"
    BY <2>1 DEF Known
  <2>5. Known(order') = {c} /\ Live = {} /\ Live' = {c}
    BY <1>6, <1>12, <2>3, <2>4 DEF Ensured, Known, Leftover
  <2>6. /\ order' \in StepOrderState /\ order'.held = order.held /\ order'.listedCount = None
        /\ order'.execs = [e \in Execs |-> "none"] /\ order'.nextIndex = 1
        /\ order'.calls[c].index = 0 /\ order'.calls[c].state = "announced"
        /\ order'.calls[c].fileChange = fc
    BY <2>1, <2>3, <2>4 DEF Ensured
  <2>7. Before(order', c) = {}
    BY <2>5 DEF Before
  <2>8. earlier'[c] = {}
    BY <1>1, <1>3, <2>5 DEF Live, InGen, TypeOK
  <2>9. ~counted'
    BY <1>2, <1>12 DEF Leftover
  <2>10. Known(order)' = Live'
    BY <2>5 DEF Known
  <2>11. Current'
    BY <2>5, <2>6, <2>7, <2>8, <2>9, <2>10 DEF Current
  <2>12. /\ order'.calls[c].fileChange => c \in FileChange
         /\ c \in Shown => order'.calls[c].fileChange
    BY <1>10, <2>6
  <2> QED
    BY <2>5, <2>6, <2>11, <2>12
<1>13. New
  BY <1>1, <1>11, <1>12 DEF Generations
<1> HIDE DEF New
<1>14. TypeOK'
  <2>1. {d \in started : GenOf[d] = gen} \in SUBSET Calls
    BY <1>1 DEF TypeOK
  <2>2. earlier' \in [Calls -> SUBSET Calls] /\ started' \in SUBSET Calls
    BY <1>1, <1>3, <2>1 DEF TypeOK
  <2> QED
    BY <1>1, <1>2, <1>13, <2>2 DEF TypeOK, New
<1>15. OneByOne'
  BY <1>1, <1>2, <1>3, OneByOneKept
<1>16. History'
  BY <1>1, <1>2, <1>3, <1>5, <1>4 DEF History, PlanTyped, TypeOK
<1>17. CallsAgree'
  <2>1. CallAgrees(c)'
    BY <1>2, <1>5, <1>7, <1>8, <1>13 DEF CallAgrees, New, Terminal
  <2>2. ASSUME NEW d \in Live
        PROVE  CallAgrees(d)'
    <3>1. CallStays(d) /\ d \in Calls /\ CallAgrees(d)
      BY <1>1, <1>2, <1>13 DEF New, CallStays, CallsAgree, Live, InGen
    <3> QED
      BY <3>1, CallKept
  <2> QED
    BY <1>6, <2>1, <2>2 DEF CallsAgree
<1>18. ExecsAgree'
  <2>1. ASSUME NEW e \in Execs
        PROVE  ExecAgrees(e)'
    <3>1. ExecAgrees(e) /\ phase[e] # "released" /\ phase'[e] = phase[e]
      BY <1>1, <1>2, <2>1 DEF ExecsAgree, Reading
    <3>2. /\ e \in order'.held <=> phase'[e] = "held"
          /\ order'.execs[e] = "call" => e \notin Reads'
          /\ order'.execs[e] = "read" => e \in Reads'
      BY <1>5, <1>13, <3>1 DEF New, ExecAgrees
    <3>3. CASE phase[e] = "held"
      <4>1. CallOf[e] \in Live /\ CallOf[e] \notin over \cup failed
            /\ (CallOf[e] \in FileChange => order.calls[CallOf[e]].fileChange)
            /\ order.calls[CallOf[e]].state = "held"
        BY <3>1, <3>3 DEF ExecAgrees
      <4>2. order'.calls[CallOf[e]] = order.calls[CallOf[e]]
        BY <4>1, <1>13 DEF New
      <4> QED
        BY <1>2, <1>5, <1>6, <3>1, <3>2, <3>3, <4>1, <4>2 DEF ExecAgrees
    <3>4. CASE phase[e] = "host"
      <4>1. CallOf[e] \in Live' => CallOf[e] \in Live
        BY <1>6, <1>9, <3>4
      <4>2. CallOf[e] \in Live => order'.calls[CallOf[e]] = order.calls[CallOf[e]]
                                  /\ order'.execs[e] = order.execs[e]
        BY <1>13 DEF New
      <4> QED
        BY <1>2, <1>5, <3>1, <3>2, <3>4, <4>1, <4>2 DEF ExecAgrees
    <3>5. CASE phase[e] \notin {"held", "host", "released"}
      BY <3>1, <3>2, <3>5 DEF ExecAgrees
    <3> QED
      BY <3>1, <3>3, <3>4, <3>5
  <2> QED
    BY <2>1 DEF ExecsAgree
<1>19. RefusalStaysInGeneration'
  <2>1. \A d \in started : earlier'[d] = earlier[d]
    BY <1>1, <1>2, <1>3 DEF TypeOK
  <2> QED
    BY <1>1, <1>2, <2>1, RefusalsKept
<1> QED
  BY <1>13, <1>14, <1>15, <1>16, <1>17, <1>18, <1>19 DEF OrderInv, New, Generations

\* An exec of a call outside the generation is at most on the host.
LEMMA ExecOutside ==
  ASSUME NEW e \in Execs, phase'[e] \notin {"held", "released"}, e \notin order'.held,
         phase'[e] = "host" => (CallOf[e])' \notin Live',
         order'.execs[e] = "call" => e \notin Reads',
         order'.execs[e] = "read" => e \in Reads'
  PROVE  ExecAgrees(e)'
  BY DEF ExecAgrees

\* What an unchanged plan leaves unchanged.
LEMMA PlanKept ==
  ASSUME UNCHANGED plan
  PROVE  /\ CallOf' = CallOf /\ GenOf' = GenOf /\ FileChange' = FileChange /\ Shown' = Shown
         /\ Silent' = Silent /\ Reads' = Reads /\ Signals' = Signals
         /\ \A g : InGen(g)' = InGen(g)
         /\ \A d : ExecsOf(d)' = ExecsOf(d)
  BY DEF CallOf, GenOf, FileChange, Shown, Silent, Reads, Signals, InGen, ExecsOf

\* Of a call Cursor waits for nothing of, nothing is held.
LEMMA QuietIdle ==
  ASSUME TypeOK, History, NEW c \in Calls, Quiet(c), NEW e \in ExecsOf(c)
  PROVE  phase[e] \notin {"held"}
  BY DEF Quiet, History

\* tool_call_completed.
LEMMA ToolCallCompletedKeeps ==
  ASSUME OrderInv, NEW c \in Calls, ToolCallCompleted(c)
  PROVE  OrderInv'
<1>1. /\ TypeOK /\ OneByOne /\ History /\ Generations /\ CallsAgree /\ ExecsAgree
      /\ RefusalStaysInGeneration
  BY DEF OrderInv
<1>2. /\ UNCHANGED <<plan, phase, hostStep, gen, counted, started, earlier, withdrawn, failed, refusals, cancelled>>
      /\ c \in started /\ c \notin over /\ Quiet(c) /\ Reading
      /\ order' = FinishCall(order, c) /\ over' = over \cup {c}
  BY DEF ToolCallCompleted, history
<1>3. PlanTyped /\ order \in StepOrderState
  BY <1>1, PlanIsTyped DEF TypeOK
<1>4. /\ CallOf' = CallOf /\ GenOf' = GenOf /\ FileChange' = FileChange /\ Shown' = Shown
      /\ Silent' = Silent /\ Reads' = Reads /\ Signals' = Signals /\ InGen(gen)' = InGen(gen)
      /\ \A d : ExecsOf(d)' = ExecsOf(d)
  BY <1>2, PlanKept
<1>5. Live' = Live /\ \A d : LastSettled(d)' = LastSettled(d)
  BY <1>2, <1>4 DEF Live, LastSettled
<1>6. /\ SameCalls(order, order') /\ order'.execs = order.execs /\ order'.held = order.held
      /\ StateOnly(order, order', c, IF order.calls[c].state \in {"unknown", "held", "refused"}
                                     THEN order.calls[c].state ELSE "done")
  BY <1>2, <1>3, FinishCallDoes
<1>7. \A d \in Calls : order'.calls[d].fileChange = order.calls[d].fileChange
  BY <1>6 DEF SameCalls
<1>8. Generations'
  <2>1. CASE Current
    BY <1>1, <1>2, <1>6, <2>1, CurrentKept DEF Generations
  <2>2. CASE Leftover
    <3>1. \A d \in Known(order) : order.calls[d].state \in Terminal /\ order.held = {}
      BY <2>2 DEF Leftover, StepFinished, AllTerminal, Terminal
    <3>2. \A d \in Known(order) : order'.calls[d].state \in Terminal
      BY <1>6, <3>1 DEF StateOnly, Known, Terminal
    <3>3. order'.held = {}
      BY <1>6, <2>2 DEF Leftover, StepFinished
    <3> QED
      BY <1>1, <1>2, <1>6, <2>2, <3>2, <3>3, LeftoverKept DEF Generations
  <2> QED
    BY <1>1, <2>1, <2>2 DEF Generations
<1>9. TypeOK'
  BY <1>1, <1>2, <1>6 DEF TypeOK, SameCalls
<1>10. OneByOne'
  BY <1>1, <1>2, OneByOneKept
<1>11. History'
  BY <1>1, <1>2, <1>4 DEF History
\* A live call that is completed holds nothing, and ends.
<1>12. c \in Live => /\ order.calls[c].state \notin {"unknown", "held"}
                     /\ order'.calls[c].state \in Terminal
                     /\ order'.calls[c].state = "refused" <=> order.calls[c].state = "refused"
  <2> SUFFICES ASSUME c \in Live
               PROVE  /\ order.calls[c].state \notin {"unknown", "held"}
                      /\ order'.calls[c].state \in Terminal
                      /\ order'.calls[c].state = "refused" <=> order.calls[c].state = "refused"
    OBVIOUS
  <2>1. order.calls[c].state # "unknown"
    BY <1>1 DEF Generations, Current, Leftover, Known
  <2>2. order.calls[c].state # "held"
    BY <1>1, <1>2, QuietIdle DEF CallsAgree, CallAgrees
  <2> QED
    BY <1>6, <2>1, <2>2 DEF StateOnly, Terminal
<1>13. CallsAgree'
  <2>1. ASSUME NEW d \in Live
        PROVE  CallAgrees(d)'
    <3>1. CallAgrees(d) /\ d \in Calls
      BY <1>1 DEF CallsAgree, Live, InGen
    <3>2. CASE d = c
      BY <1>2, <1>4, <1>5, <1>7, <1>12, <2>1, <3>1, <3>2 DEF CallAgrees, Terminal
    <3>3. CASE d # c
      <4>1. CallStays(d)
        BY <1>2, <1>6, <1>7, <3>1, <3>3 DEF CallStays, StateOnly
      <4> QED
        BY <3>1, <4>1, CallKept
    <3> QED
      BY <3>2, <3>3
  <2> QED
    BY <1>5, <2>1 DEF CallsAgree
<1>14. ExecsAgree'
  <2>1. ASSUME NEW e \in Execs
        PROVE  ExecAgrees(e)'
    <3>1. ExecAgrees(e) /\ phase[e] # "released" /\ phase'[e] = phase[e]
      BY <1>1, <1>2, <2>1 DEF ExecsAgree, Reading
    <3>2. CASE phase[e] \in {"unsent", "settled"}
      BY <1>2, <1>4, <1>6, <3>1, <3>2, ExecIdle DEF ExecAgrees
    <3>3. CASE phase[e] \in {"held", "host"} /\ CallOf[e] # c
      <4>1. CallOf[e] \in Calls
        BY <1>1, <1>3, <3>3 DEF OneByOne, PlanTyped
      <4>2. ExecStays(e)
        BY <1>2, <1>6, <1>7, <3>1, <3>3, <4>1 DEF ExecStays, StateOnly
      <4> QED
        BY <3>1, <4>2, ExecKept
    <3>4. CASE phase[e] \in {"held", "host"} /\ CallOf[e] = c
      <4>1. e \in ExecsOf(c)
        BY <1>1, <3>4 DEF OneByOne, ExecsOf
      <4>2. phase[e] = "host" /\ e \notin order'.held
        BY <1>1, <1>2, <1>6, <3>1, <3>4, <4>1, QuietIdle DEF ExecAgrees
      <4>3. /\ order'.execs[e] = "call" => e \notin Reads'
            /\ order'.execs[e] = "read" => e \in Reads'
        BY <1>4, <1>6, <3>1 DEF ExecAgrees
      <4>4. CASE c \notin Live
        BY <1>4, <1>5, <3>1, <3>4, <4>2, <4>3, <4>4, ExecOutside
      <4>5. CASE c \in Live
        BY <1>2, <1>4, <1>5, <1>6, <1>12, <3>1, <3>4, <4>2, <4>3, <4>5 DEF ExecAgrees
      <4> QED
        BY <4>4, <4>5
    <3> QED
      BY <1>1, <3>1, <3>2, <3>3, <3>4 DEF TypeOK
  <2> QED
    BY <2>1 DEF ExecsAgree
<1>15. RefusalStaysInGeneration'
  BY <1>1, <1>2, RefusalsKept
<1> QED
  BY <1>8, <1>9, <1>10, <1>11, <1>13, <1>14, <1>15 DEF OrderInv

-----------------------------------------------------------------------------
(* Execs move; no call starts or is completed. *)

\* Only the execs of E move, each of them under way, and only their calls change.
Moves(E) ==
    /\ UNCHANGED <<plan, gen, counted, started, earlier, over>>
    /\ SameCalls(order, order')
    /\ E \subseteq Execs
    /\ \A e \in E : phase[e] \in {"held", "released", "host"} /\ phase'[e] # "unsent"
    /\ \A c \in Calls \ CallsOf(E) :
          /\ order'.calls[c].state = order.calls[c].state
          /\ c \in failed' <=> c \in failed
          /\ c \in refusals' <=> c \in refusals
    /\ \A d \in Execs \ E :
          /\ phase'[d] = phase[d] /\ order'.execs[d] = order.execs[d]
          /\ d \in order'.held <=> d \in order.held

\* What has to be shown of the execs that move.
Moved(E) ==
    /\ Leftover => /\ order'.held = {}
                   /\ \A c \in Known(order) : order'.calls[c].state \in Terminal
    /\ \A c \in Live \cap CallsOf(E) : CallAgrees(c)'
    /\ \A e \in E : ExecAgrees(e)'
    /\ \A d \in Execs \ E : phase[d] = "released" =>
          /\ hostStep' = hostStep
          /\ Blocked(order', CallOf[d]) => Blocked(order, CallOf[d])
          /\ FollowsRefusal(order', CallOf[d]) => FollowsRefusal(order, CallOf[d])

\* Calls end without a refusal, or go on waiting.
Calms(o, p) ==
    /\ SameCalls(o, p)
    /\ \A c \in Calls : \/ p.calls[c].state = o.calls[c].state \/ p.calls[c].state = "done"
                        \/ {o.calls[c].state, p.calls[c].state} \subseteq {"held", "running"}

\* That blocks nothing.
LEMMA CalmsUnblock ==
  ASSUME NEW o, NEW p, Calms(o, p), NEW c, c \in Calls
  PROVE  /\ Blocked(p, c) => Blocked(o, c)
         /\ FollowsRefusal(p, c) => FollowsRefusal(o, c)
<1>1. Before(p, c) = Before(o, c) /\ Before(o, c) \subseteq Calls
  BY SameOrder DEF Calms, Before, Known
<1>2. \A d \in Calls : p.calls[d].fileChange = o.calls[d].fileChange
  BY DEF Calms, SameCalls
<1>3. \A d \in Calls : p.calls[d].state \in {"announced", "held", "running", "refused"} =>
        \/ p.calls[d].state = o.calls[d].state
        \/ o.calls[d].state \in {"held", "running"} /\ p.calls[d].state \in {"held", "running"}
  BY DEF Calms
<1>4. Blocked(p, c) => Blocked(o, c)
  BY <1>1, <1>2, <1>3 DEF Blocked
<1>5. FollowsRefusal(p, c) => FollowsRefusal(o, c)
  BY <1>1, <1>2, <1>3 DEF FollowsRefusal
<1> QED
  BY <1>4, <1>5

LEMMA MovesKeep ==
  ASSUME OrderInv, NEW E, Moves(E), Moved(E)
  PROVE  OneByOne' /\ Generations' /\ CallsAgree' /\ ExecsAgree'
<1>1. TypeOK /\ OneByOne /\ Generations /\ CallsAgree /\ ExecsAgree
  BY DEF OrderInv
<1>2. UNCHANGED <<plan, gen, counted, started, earlier, over>> /\ SameCalls(order, order')
  BY DEF Moves
<1>3. PlanTyped
  BY <1>1, PlanIsTyped DEF TypeOK
<1>4. /\ CallOf' = CallOf /\ Reads' = Reads /\ Live' = Live /\ \A d : ExecsOf(d)' = ExecsOf(d)
  BY <1>2, PlanKept DEF Live
<1>5. \A c \in Calls : order'.calls[c].fileChange = order.calls[c].fileChange
  BY <1>2 DEF SameCalls
<1>6. OneByOne'
  BY <1>1, <1>2, OneByOneKept DEF Moves
<1>7. Generations'
  <2>1. CASE Current
    BY <1>1, <1>2, <2>1, CurrentKept DEF Generations
  <2>2. CASE Leftover
    BY <1>1, <1>2, <2>2, LeftoverKept DEF Generations, Moved
  <2> QED
    BY <1>1, <2>1, <2>2 DEF Generations
<1>8. CallsAgree'
  <2>1. ASSUME NEW c \in Live, c \notin CallsOf(E)
        PROVE  CallAgrees(c)'
    <3>1. CallAgrees(c) /\ c \in Calls
      BY <1>1 DEF CallsAgree, Live, InGen
    <3>2. \A e \in ExecsOf(c) : e \in Execs \ E
      BY <1>3, <2>1, <3>1 DEF ExecsOf, CallsOf, PlanTyped
    <3>3. CallStays(c)
      BY <1>2, <1>5, <2>1, <3>1, <3>2 DEF CallStays, Moves
    <3> QED
      BY <3>1, <3>3, CallKept
  <2> QED
    BY <1>4, <2>1 DEF CallsAgree, Moved
<1>9. ExecsAgree'
  <2>1. ASSUME NEW e \in Execs \ E
        PROVE  ExecAgrees(e)'
    <3>1. ExecAgrees(e) /\ phase'[e] = phase[e] /\ order'.execs[e] = order.execs[e]
          /\ (e \in order'.held <=> e \in order.held)
      BY <1>1, <2>1 DEF ExecsAgree, Moves
    <3>2. CASE phase[e] \in {"unsent", "settled"}
      BY <1>4, <3>1, <3>2, ExecIdle DEF ExecAgrees
    <3>3. CASE phase[e] \notin {"unsent", "settled"}
      <4>1. e \in DOMAIN CallOf /\ CallOf[e] \in Calls
        BY <1>1, <1>3, <2>1, <3>3 DEF OneByOne, PlanTyped
      <4>2. ASSUME NEW d \in E, CallOf[d] = CallOf[e]
            PROVE  FALSE
        <5>1. d \in Execs /\ phase[d] \in {"held", "released", "host"} /\ d # e
          BY <2>1 DEF Moves
        <5>2. d \in DOMAIN CallOf
          BY <1>1, <5>1 DEF OneByOne
        <5> QED
          BY <1>1, <3>3, <4>1, <4>2, <5>1, <5>2 DEF OneByOne
      <4>3. CallOf[e] \in Calls \ CallsOf(E)
        BY <4>1, <4>2 DEF CallsOf
      <4>4. ExecStays(e)
        BY <1>2, <1>5, <2>1, <3>1, <4>3 DEF ExecStays, Moves, Moved
      <4> QED
        BY <3>1, <4>4, ExecKept
    <3> QED
      BY <3>2, <3>3
  <2> QED
    BY <2>1 DEF ExecsAgree, Moved
<1> QED
  BY <1>6, <1>7, <1>8, <1>9

\* The execs of E will never run.
Drops(E) ==
    /\ UNCHANGED <<plan, hostStep, gen, counted, started, earlier, over, refusals>>
    /\ E \subseteq order.held /\ E # {}
    /\ order' = DropHeld(order, E)
    /\ phase' = [e \in Execs |-> IF e \in E THEN "settled" ELSE phase[e]]
    /\ failed' = failed \cup {CallOf[e] : e \in E}

\* Held execs wait for their calls, which have no outcome yet.
LEMMA HeldWait ==
  ASSUME OrderInv
  PROVE  /\ \A e \in order.held :
               /\ e \in Execs /\ phase[e] = "held" /\ e \notin withdrawn /\ e \notin cancelled
               /\ CallOf[e] \in Live /\ CallOf[e] \in Calls /\ CallOf[e] \in started
               /\ CallOf[e] \notin over \cup failed \cup refusals
               /\ order.calls[CallOf[e]].state = "held"
         /\ order.held # {} => Current
<1>1. TypeOK /\ History /\ Generations /\ ExecsAgree
  BY DEF OrderInv
<1>2. \A e \in order.held : e \in Execs /\ ExecAgrees(e)
  BY <1>1, OrderFields DEF TypeOK, ExecsAgree
<1>3. \A e \in order.held : /\ phase[e] = "held" /\ CallOf[e] \in Live \ (over \cup failed)
                            /\ order.calls[CallOf[e]].state = "held"
  BY <1>2 DEF ExecAgrees
<1>4. Live \subseteq Calls \cap started
  BY DEF Live, InGen
<1>5. order.held # {} => Current
  BY <1>1 DEF Generations, Leftover, StepFinished
<1> QED
  BY <1>1, <1>2, <1>3, <1>4, <1>5 DEF History

LEMMA DropKeeps ==
  ASSUME OrderInv, NEW E, Drops(E)
  PROVE  /\ OneByOne' /\ Generations' /\ CallsAgree' /\ ExecsAgree'
         /\ order' \in StepOrderState /\ failed' \in SUBSET started
<1>1. /\ UNCHANGED <<plan, hostStep, gen, counted, started, earlier, over, refusals>>
      /\ E \subseteq order.held /\ E # {} /\ order' = DropHeld(order, E)
      /\ phase' = [e \in Execs |-> IF e \in E THEN "settled" ELSE phase[e]]
      /\ failed' = failed \cup {CallOf[e] : e \in E}
  BY DEF Drops
<1>2. /\ CallOf' = CallOf /\ Reads' = Reads /\ Shown' = Shown /\ FileChange' = FileChange
      /\ \A d : ExecsOf(d)' = ExecsOf(d)
  BY <1>1, PlanKept
<1>3. TypeOK /\ order \in StepOrderState /\ History /\ CallsAgree /\ ExecsAgree
  BY DEF OrderInv, TypeOK
<1>4. \A e \in E : /\ e \in Execs /\ phase[e] = "held"
                   /\ CallOf[e] \in Live /\ CallOf[e] \in Calls /\ CallOf[e] \in started
                   /\ CallOf[e] \notin over \cup failed \cup refusals
                   /\ order.calls[CallOf[e]].state = "held"
  BY <1>1, HeldWait
<1>5. Releases(order, E, "done")
  BY <1>3, <1>4 DEF Releases
<1>6. /\ SameCalls(order, order') /\ order'.execs = order.execs /\ order'.held = order.held \ E
      /\ StatesOf(order, order', E, "done")
  BY <1>1, <1>5, DropHeldDoes
<1>7. \A c \in CallsOf(E) : /\ c \in Live /\ c \notin over \cup failed \cup refusals /\ c \in failed'
                            /\ order'.calls[c].state = "done"
                            /\ order'.calls[c].fileChange = order.calls[c].fileChange
  BY <1>1, <1>4, <1>6 DEF CallsOf, StatesOf, SameCalls
<1>8. \A c \in Calls \ CallsOf(E) : /\ order'.calls[c].state = order.calls[c].state
                                    /\ c \in failed' <=> c \in failed
  BY <1>1, <1>6 DEF CallsOf, StatesOf
<1>9. Moves(E)
  BY <1>1, <1>3, <1>4, <1>6, <1>8 DEF Moves
<1>10. Calms(order, order')
  BY <1>6, <1>7, <1>8 DEF Calms
<1>11. \A c \in Live \cap CallsOf(E) : CallAgrees(c)'
  <2> TAKE c \in Live \cap CallsOf(E)
  <2>1. CallAgrees(c)
    BY <1>3 DEF CallsAgree
  <2> QED
    BY <1>1, <1>2, <1>7, <2>1 DEF CallAgrees, Terminal
<1>12. \A e \in E : ExecAgrees(e)'
  <2> TAKE e \in E
  <2>1. ExecAgrees(e) /\ phase'[e] = "settled" /\ e \notin order'.held
    BY <1>1, <1>3, <1>4, <1>6 DEF ExecsAgree
  <2> QED
    BY <1>2, <1>4, <1>6, <2>1, ExecIdle DEF ExecAgrees
<1>13. Moved(E)
  <2>1. ~Leftover
    BY <1>1 DEF Leftover, StepFinished
  <2>2. \A d \in Execs : phase[d] = "released" =>
          /\ Blocked(order', CallOf[d]) => Blocked(order, CallOf[d])
          /\ FollowsRefusal(order', CallOf[d]) => FollowsRefusal(order, CallOf[d])
    <3> TAKE d \in Execs
    <3>1. phase[d] = "released" => CallOf[d] \in Calls
      BY <1>3 DEF ExecsAgree, ExecAgrees, Live, InGen
    <3> QED
      BY <1>10, <3>1, CalmsUnblock
  <2> QED
    BY <1>1, <1>11, <1>12, <2>1, <2>2 DEF Moved
<1>14. OneByOne' /\ Generations' /\ CallsAgree' /\ ExecsAgree'
  BY <1>9, <1>13, MovesKeep
<1>15. order' \in StepOrderState /\ failed' \in SUBSET started
  BY <1>1, <1>3, <1>4, <1>6 DEF SameCalls, History
<1> QED
  BY <1>14, <1>15

\* exec_server_control_message abort.
LEMMA ExecWithdrawnKeeps ==
  ASSUME OrderInv, NEW e \in Execs, ExecWithdrawn(e)
  PROVE  OrderInv'
<1>1. /\ TypeOK /\ OneByOne /\ History /\ Generations /\ CallsAgree /\ ExecsAgree
      /\ RefusalStaysInGeneration
  BY DEF OrderInv
<1>2. /\ UNCHANGED <<plan, hostStep, gen, counted, started, earlier, over, refusals, cancelled>>
      /\ Reading \/ hostStep = "running"
      /\ phase[e] \in {"held", "host"} /\ e \notin withdrawn
      /\ withdrawn' = withdrawn \cup {e} /\ failed' = failed \cup {CallOf[e]}
  BY DEF ExecWithdrawn
<1>3. /\ CallOf' = CallOf /\ Reads' = Reads /\ Shown' = Shown /\ FileChange' = FileChange
      /\ GenOf' = GenOf /\ \A d : ExecsOf(d)' = ExecsOf(d)
  BY <1>2, PlanKept
<1>4. PlanTyped /\ ExecAgrees(e) /\ (e \in order.held <=> phase[e] = "held")
  BY <1>1, PlanIsTyped DEF TypeOK, ExecsAgree, ExecAgrees
<1>5. CallOf[e] \in started /\ CallOf[e] \in Calls
  BY <1>1, <1>2, <1>4 DEF OneByOne, PlanTyped
<1> DEFINE Rest == /\ OneByOne' /\ Generations' /\ CallsAgree' /\ ExecsAgree'
                   /\ order' \in StepOrderState /\ failed' \in SUBSET started
                   /\ phase' \in [Execs -> {"unsent", "held", "released", "host", "settled"}]
                   /\ phase'[e] \in {"host", "settled"} /\ \A d \in Execs \ {e} : phase'[d] = phase[d]
<1>6. ASSUME e \in order.held
     PROVE  Rest
  <2>1. order' = DropHeld(order, {e}) /\ phase' = [phase EXCEPT ![e] = "settled"]
    BY <1>6 DEF ExecWithdrawn
  <2>2. phase' = [d \in Execs |-> IF d \in {e} THEN "settled" ELSE phase[d]]
    BY <1>1, <2>1 DEF TypeOK
  <2>3. failed' = failed \cup {CallOf[d] : d \in {e}}
    BY <1>2
  <2>4. Drops({e})
    BY <1>2, <1>6, <2>1, <2>2, <2>3 DEF Drops
  <2>5. /\ OneByOne' /\ Generations' /\ CallsAgree' /\ ExecsAgree'
        /\ order' \in StepOrderState /\ failed' \in SUBSET started
    BY <2>4, DropKeeps
  <2> QED
    BY <1>1, <2>1, <2>5 DEF TypeOK
<1>7. ASSUME e \notin order.held
     PROVE  Rest
  <2>1. UNCHANGED <<order, phase>> /\ phase[e] = "host"
    BY <1>2, <1>4, <1>7 DEF ExecWithdrawn
  <2>2. SameCalls(order, order')
    BY <1>1, <2>1 DEF SameCalls, TypeOK
  <2>3. \A c \in Calls \ CallsOf({e}) : c \in failed' <=> c \in failed
    BY <1>2 DEF CallsOf
  <2>4. Moves({e})
    BY <1>2, <2>1, <2>2, <2>3 DEF Moves
  <2>5. \A c \in Live \cap CallsOf({e}) : CallAgrees(c)'
    <3> TAKE c \in Live \cap CallsOf({e})
    <3>1. CallAgrees(c) /\ LastSettled(c)' = LastSettled(c)
      BY <1>1, <1>3, <2>1 DEF CallsAgree, LastSettled
    <3> QED
      BY <1>2, <1>3, <2>1, <3>1 DEF CallAgrees
  <2>6. ExecAgrees(e)'
    <3>1. Live' = Live
      BY <1>2, PlanKept DEF Live
    <3> QED
      BY <1>2, <1>3, <1>4, <2>1, <3>1 DEF ExecAgrees
  <2>7. Leftover => order'.held = {} /\ \A c \in Known(order) : order'.calls[c].state \in Terminal
    BY <2>1 DEF Leftover, StepFinished, AllTerminal, Terminal
  <2>8. \A d \in Execs : /\ Blocked(order', CallOf[d]) => Blocked(order, CallOf[d])
                         /\ FollowsRefusal(order', CallOf[d]) => FollowsRefusal(order, CallOf[d])
    BY <2>1
  <2>9. Moved({e})
    BY <1>2, <2>5, <2>6, <2>7, <2>8 DEF Moved
  <2>10. OneByOne' /\ Generations' /\ CallsAgree' /\ ExecsAgree'
    BY <2>4, <2>9, MovesKeep
  <2> QED
    BY <1>1, <1>2, <1>5, <2>1, <2>10 DEF TypeOK, History
<1>8. Rest
  BY <1>6, <1>7
<1> HIDE DEF Rest
<1>9. TypeOK'
  <2>1. order' \in StepOrderState /\ failed' \in SUBSET Calls
        /\ phase' \in [Execs -> {"unsent", "held", "released", "host", "settled"}]
    BY <1>1, <1>8 DEF Rest, TypeOK
  <2> QED
    BY <1>1, <1>2, <2>1 DEF TypeOK
<1>10. History'
  <2>1. /\ \A d \in withdrawn' : phase'[d] \in {"host", "settled"} /\ (CallOf[d])' \in failed'
        /\ \A d \in cancelled' : phase'[d] = "settled"
    BY <1>1, <1>2, <1>3, <1>8 DEF History, Rest, TypeOK
  <2>2. \A c \in started' : GenOf'[c] <= gen'
    BY <1>1, <1>2, <1>3 DEF History
  <2>3. over' \subseteq started' /\ refusals' \subseteq failed' /\ failed' \subseteq started'
    BY <1>1, <1>2, <1>8 DEF History, Rest
  <2> QED
    BY <2>1, <2>2, <2>3 DEF History
<1>11. RefusalStaysInGeneration'
  BY <1>1, <1>2, RefusalsKept
<1> QED
  BY <1>8, <1>9, <1>10, <1>11 DEF OrderInv, Rest

\* takeCancelledExecs.
LEMMA CancelHeldKeeps ==
  ASSUME OrderInv, CancelHeld
  PROVE  OrderInv'
<1> DEFINE E == Cancellable(order)
<1>1. /\ TypeOK /\ OneByOne /\ History /\ CallsAgree /\ RefusalStaysInGeneration
      /\ order \in StepOrderState
  BY DEF OrderInv, TypeOK
<1>2. /\ UNCHANGED <<plan, hostStep, gen, counted, started, earlier, over, withdrawn, refusals>>
      /\ E \subseteq order.held /\ E # {}
      /\ order' = DropHeld(order, E)
      /\ phase' = [e \in Execs |-> IF e \in E THEN "settled" ELSE phase[e]]
      /\ failed' = failed \cup {CallOf[e] : e \in E}
      /\ cancelled' = cancelled \cup E
  BY DEF CancelHeld, cursor, Cancellable
<1>3. \A e \in E : FollowsRefusal(order, CallOf[e])
  BY DEF Cancellable
<1> HIDE DEF E
<1>4. CallOf' = CallOf /\ GenOf' = GenOf
  BY <1>2, PlanKept
<1>5. /\ \A e \in E : /\ e \in Execs /\ phase[e] = "held" /\ e \notin withdrawn
                      /\ CallOf[e] \in Live /\ CallOf[e] \in Calls
      /\ Current
  BY <1>2, HeldWait
<1>6. /\ OneByOne' /\ Generations' /\ CallsAgree' /\ ExecsAgree'
      /\ order' \in StepOrderState /\ failed' \in SUBSET started
  BY <1>2, DropKeeps DEF Drops
<1>7. TypeOK'
  BY <1>1, <1>2, <1>5, <1>6 DEF TypeOK
<1>8. History'
  <2>1. /\ \A d \in withdrawn' : phase'[d] \in {"host", "settled"} /\ (CallOf[d])' \in failed'
        /\ \A d \in cancelled' : phase'[d] = "settled"
    BY <1>1, <1>2, <1>4, <1>5 DEF History, TypeOK
  <2> QED
    BY <1>1, <1>2, <1>4, <1>6, <2>1 DEF History
<1>9. RefusalStaysInGeneration'
  <2>1. ASSUME NEW e \in E
        PROVE  \E f \in refusals : GenOf[f] = GenOf[CallOf[e]] /\ f \in earlier[CallOf[e]]
    <3>1. PICK d \in Before(order, CallOf[e]) : order.calls[d].state = "refused"
      BY <1>3 DEF FollowsRefusal
    <3>2. d \in Known(order) /\ d \in earlier[CallOf[e]]
      BY <1>5, <3>1 DEF Before, Current
    <3>3. d \in Live
      BY <1>5, <3>2 DEF Current
    <3>4. d \in refusals
      BY <1>1, <3>1, <3>3 DEF CallsAgree, CallAgrees
    <3> QED
      BY <1>5, <3>2, <3>3, <3>4 DEF Live, InGen
  <2>2. \A e \in cancelled' : e \notin cancelled =>
           \E f \in refusals' : GenOf[f] = GenOf[CallOf[e]] /\ f \in earlier'[CallOf[e]]
    BY <1>2, <2>1
  <2> QED
    BY <1>1, <1>2, <2>2, RefusalsKept
<1> QED
  BY <1>6, <1>7, <1>8, <1>9 DEF OrderInv

\* takeReleasableExecs.
LEMMA ReleaseHeldKeeps ==
  ASSUME OrderInv, ReleaseHeld
  PROVE  OrderInv'
<1> DEFINE E == Releasable(order)
<1>1. /\ TypeOK /\ OneByOne /\ History /\ CallsAgree /\ ExecsAgree /\ RefusalStaysInGeneration
      /\ order \in StepOrderState
  BY DEF OrderInv, TypeOK
<1>2. /\ UNCHANGED <<plan, gen, counted, started, earlier, over, withdrawn, failed, refusals, cancelled>>
      /\ hostStep = "none" /\ hostStep' = "open"
      /\ E \subseteq order.held /\ E # {}
      /\ order' = Released(order)
      /\ phase' = [e \in Execs |-> IF e \in E THEN "released" ELSE phase[e]]
  BY DEF ReleaseHeld, cursor, history, Releasable
<1>3. \A e \in E : ~Blocked(order, CallOf[e]) /\ ~FollowsRefusal(order, CallOf[e])
  BY DEF Releasable
<1>4. /\ CallOf' = CallOf /\ Reads' = Reads /\ Shown' = Shown /\ FileChange' = FileChange
      /\ GenOf' = GenOf /\ Live' = Live /\ \A d : ExecsOf(d)' = ExecsOf(d)
  BY <1>2, PlanKept DEF Live
<1>5. \A e \in E : /\ e \in Execs /\ phase[e] = "held" /\ e \notin withdrawn /\ e \notin cancelled
                   /\ CallOf[e] \in Live /\ CallOf[e] \in Calls
                   /\ CallOf[e] \notin over \cup failed \cup refusals
                   /\ order.calls[CallOf[e]].state = "held"
  BY <1>2, HeldWait
<1>6. Releases(order, E, "running")
  BY <1>1, <1>5 DEF Releases
<1>7. /\ SameCalls(order, order') /\ order'.execs = order.execs /\ order'.held = order.held \ E
      /\ StatesOf(order, order', E, "running")
  BY <1>2, <1>6, ReleasedDoes
<1> HIDE DEF E
<1>8. \A c \in CallsOf(E) : /\ c \in Live /\ c \notin over \cup failed \cup refusals
                            /\ order.calls[c].state = "held" /\ order'.calls[c].state = "running"
                            /\ order'.calls[c].fileChange = order.calls[c].fileChange
  BY <1>5, <1>7 DEF CallsOf, StatesOf, SameCalls
<1>9. \A c \in Calls \ CallsOf(E) : order'.calls[c].state = order.calls[c].state
  BY <1>7 DEF CallsOf, StatesOf
<1>10. Moves(E)
  BY <1>2, <1>5, <1>7, <1>9 DEF Moves
<1>11. Calms(order, order')
  BY <1>7, <1>8, <1>9 DEF Calms
<1>12. \A c \in Live \cap CallsOf(E) : CallAgrees(c)'
  <2> TAKE c \in Live \cap CallsOf(E)
  <2>1. CallAgrees(c) /\ ~LastSettled(c)
    BY <1>1, <1>8 DEF CallsAgree, CallAgrees, Terminal
  <2>2. ~LastSettled(c)'
    BY <1>1, <1>2, <1>4, <2>1, PlanIsTyped DEF LastSettled, ExecsOf, TypeOK, PlanTyped
  <2> QED
    BY <1>2, <1>4, <1>8, <2>1, <2>2 DEF CallAgrees, Terminal
<1>13. \A e \in E : ExecAgrees(e)'
  <2> TAKE e \in E
  <2>1. ExecAgrees(e) /\ phase'[e] = "released" /\ e \notin order'.held
    BY <1>1, <1>2, <1>5, <1>7 DEF ExecsAgree
  <2>2. ~Blocked(order', CallOf[e]) /\ ~FollowsRefusal(order', CallOf[e])
    BY <1>3, <1>5, <1>11, CalmsUnblock
  <2>3. ~Blocked(order, CallOf[e])' /\ ~FollowsRefusal(order, CallOf[e])'
    BY <1>4, <2>2 DEF Blocked, FollowsRefusal, Before, Known
  <2>4. /\ order'.calls[CallOf[e]].state = "running"
        /\ order'.calls[CallOf[e]].fileChange = order.calls[CallOf[e]].fileChange
    BY <1>5, <1>7 DEF SameCalls, StatesOf
  <2> QED
    BY <1>2, <1>4, <1>5, <1>7, <2>1, <2>3, <2>4 DEF ExecAgrees
<1>14. Moved(E)
  <2>1. ~Leftover /\ \A d \in Execs : phase[d] # "released"
    BY <1>1, <1>2 DEF Leftover, StepFinished, ExecsAgree, ExecAgrees
  <2> QED
    BY <1>12, <1>13, <2>1 DEF Moved
<1>15. OneByOne' /\ Generations' /\ CallsAgree' /\ ExecsAgree'
  BY <1>10, <1>14, MovesKeep
<1>16. TypeOK'
  BY <1>1, <1>2, <1>5, <1>7 DEF TypeOK, SameCalls
<1>17. History'
  <2>1. /\ \A d \in withdrawn' : phase'[d] \in {"host", "settled"} /\ (CallOf[d])' \in failed'
        /\ \A d \in cancelled' : phase'[d] = "settled"
    BY <1>1, <1>2, <1>4, <1>5 DEF History, TypeOK
  <2> QED
    BY <1>1, <1>2, <1>4, <2>1 DEF History
<1>18. RefusalStaysInGeneration'
  BY <1>1, <1>2, RefusalsKept
<1> QED
  BY <1>15, <1>16, <1>17, <1>18 DEF OrderInv

\* Nothing but the host step changes.
LEMMA IdleKeeps ==
  ASSUME OrderInv, hostStep' \in {"none", "open", "running"},
         \/ hostStep' = hostStep
         \/ \A e \in Execs : phase[e] # "released",
         UNCHANGED <<plan, order, phase, cursor, history>>
  PROVE  OrderInv'
<1>1. /\ TypeOK /\ OneByOne /\ History /\ CallsAgree /\ ExecsAgree /\ RefusalStaysInGeneration
      /\ order \in StepOrderState
  BY DEF OrderInv, TypeOK
<1>2. UNCHANGED <<plan, order, phase, gen, counted, started, earlier, over, withdrawn, failed,
                  refusals, cancelled>>
  BY DEF cursor, history
<1>3. Moves({})
  BY <1>1, <1>2 DEF Moves, SameCalls, CallsOf
<1>4. Leftover => order'.held = {} /\ \A c \in Known(order) : order'.calls[c].state \in Terminal
  BY <1>2 DEF Leftover, StepFinished, AllTerminal, Terminal
<1>5. \A d \in Execs : /\ Blocked(order', CallOf[d]) => Blocked(order, CallOf[d])
                       /\ FollowsRefusal(order', CallOf[d]) => FollowsRefusal(order, CallOf[d])
  BY <1>2
<1>6. Moved({})
  BY <1>4, <1>5 DEF Moved, CallsOf
<1>7. OneByOne' /\ Generations' /\ CallsAgree' /\ ExecsAgree'
  BY <1>3, <1>6, MovesKeep
<1>8. TypeOK' /\ History' /\ RefusalStaysInGeneration'
  BY <1>1, <1>2 DEF TypeOK, History, RefusalStaysInGeneration, CallOf, GenOf
<1> QED
  BY <1>7, <1>8 DEF OrderInv

\* The state a host result leaves its call in.
ResultState(o, e, outcome) ==
    LET was == o.calls[CallOf[e]].state IN
    IF outcome = "refused"
    THEN IF was \in {"unknown", "held"} THEN was
         ELSE IF o.calls[CallOf[e]].fileChange THEN "refused" ELSE "done"
    ELSE IF o.execs[e] = "read" \/ was \in {"unknown", "held", "refused"} THEN was ELSE "done"

\* noteExecResult of an exec that is not held.
LEMMA NoteExecResultDoes ==
  ASSUME NEW o \in StepOrderState, NEW e \in Execs, CallOf[e] \in Calls, NEW outcome,
         e \notin o.held
  PROVE  /\ SameCalls(o, NoteExecResult(o, e, outcome))
         /\ NoteExecResult(o, e, outcome).execs = [o.execs EXCEPT ![e] = "none"]
         /\ NoteExecResult(o, e, outcome).held = o.held
         /\ StateOnly(o, NoteExecResult(o, e, outcome), CallOf[e],
                      IF o.execs[e] = "none" THEN o.calls[CallOf[e]].state
                      ELSE ResultState(o, e, outcome))
<1> DEFINE taken == [o EXCEPT !.execs[e] = "none"]
           c == CallOf[e]
           p == NoteExecResult(o, e, outcome)
<1>1. /\ o = [calls |-> o.calls, nextIndex |-> o.nextIndex, listedCount |-> o.listedCount,
             execs |-> o.execs, held |-> o.held]
      /\ o.execs \in [Execs -> {"none", "call", "read"}]
  BY OrderFields
<1>2. CASE o.execs[e] = "none"
  <2>1. p = o
    BY <1>2 DEF NoteExecResult
  <2> QED
    BY <1>1, <1>2, <2>1 DEF SameCalls, StateOnly
<1>3. CASE o.execs[e] # "none"
  <2>1. taken = [calls |-> o.calls, nextIndex |-> o.nextIndex, listedCount |-> o.listedCount,
                 execs |-> [o.execs EXCEPT ![e] = "none"], held |-> o.held]
    BY <1>1
  <2>2. [o.execs EXCEPT ![e] = "none"] \in [Execs -> {"none", "call", "read"}]
    BY <1>1
  <2>3. p = IF outcome = "refused" THEN RefuseCall(taken, c)
            ELSE IF o.execs[e] = "read" THEN taken ELSE FinishCall(taken, c)
    BY <1>3 DEF NoteExecResult
  <2> HIDE DEF taken, p, c
  <2>4. /\ taken \in StepOrderState /\ taken.calls = o.calls /\ taken.held = o.held
        /\ taken.nextIndex = o.nextIndex /\ taken.listedCount = o.listedCount
        /\ taken.execs = [o.execs EXCEPT ![e] = "none"]
    BY <1>1, <2>1, <2>2, OrderFields DEF StepOrderState
  <2>5. SameCalls(taken, p) /\ p.execs = taken.execs /\ p.held = taken.held
        /\ StateOnly(taken, p, c, ResultState(o, e, outcome))
    <3>1. c \in Calls
      BY DEF c
    <3>2. CASE outcome = "refused"
      BY <2>3, <2>4, <3>1, <3>2, RefuseCallDoes DEF ResultState, c
    <3>3. CASE outcome # "refused" /\ o.execs[e] = "read"
      BY <2>3, <2>4, <3>1, <3>3 DEF ResultState, c, SameCalls, StateOnly
    <3>4. CASE outcome # "refused" /\ o.execs[e] # "read"
      BY <2>3, <2>4, <3>1, <3>4, FinishCallDoes DEF ResultState, c
    <3> QED
      BY <3>2, <3>3, <3>4
  <2> QED
    BY <1>3, <2>4, <2>5 DEF SameCalls, StateOnly, p, c
<1> QED
  BY <1>2, <1>3

\* A host result.
LEMMA HostResultKeeps ==
  ASSUME OrderInv, NEW e \in Execs, NEW outcome, HostResult(e, outcome)
  PROVE  OrderInv'
<1> DEFINE c == CallOf[e]
           s == IF order.execs[e] = "none" THEN order.calls[c].state
                ELSE ResultState(order, e, outcome)
<1>1. /\ TypeOK /\ OneByOne /\ History /\ Generations /\ CallsAgree /\ ExecsAgree
      /\ RefusalStaysInGeneration /\ order \in StepOrderState
  BY DEF OrderInv, TypeOK
<1>2. /\ UNCHANGED <<plan, hostStep, gen, counted, started, earlier, over, withdrawn, cancelled>>
      /\ hostStep # "open" /\ phase[e] = "host"
      /\ order' = NoteExecResult(order, e, outcome)
      /\ phase' = [phase EXCEPT ![e] = "settled"]
  BY DEF HostResult, cursor, history
<1>3. /\ outcome = "refused" => failed' = failed \cup {c} /\ refusals' = refusals \cup ({c} \cap FileChange)
      /\ outcome # "refused" => failed' = failed /\ refusals' = refusals
  BY DEF HostResult, history
<1>4. /\ CallOf' = CallOf /\ Reads' = Reads /\ Shown' = Shown /\ FileChange' = FileChange
      /\ GenOf' = GenOf /\ Live' = Live /\ \A d : ExecsOf(d)' = ExecsOf(d)
  BY <1>2, PlanKept DEF Live
<1>5. PlanTyped /\ ExecAgrees(e) /\ e \notin order.held
  BY <1>1, <1>2, PlanIsTyped DEF TypeOK, ExecsAgree, ExecAgrees
<1>6. c \in started /\ c \in Calls /\ e \in ExecsOf(c)
  BY <1>1, <1>2, <1>5 DEF OneByOne, PlanTyped, ExecsOf
<1>7. /\ SameCalls(order, order') /\ order'.execs = [order.execs EXCEPT ![e] = "none"]
      /\ order'.held = order.held /\ StateOnly(order, order', c, s)
  BY <1>1, <1>2, <1>5, <1>6, NoteExecResultDoes
<1> HIDE DEF s
<1>8. phase'[e] = "settled" /\ \A d \in Execs \ {e} : phase'[d] = phase[d]
  BY <1>1, <1>2 DEF TypeOK
<1>9. /\ order'.execs[e] = "none" /\ \A d \in Execs \ {e} : order'.execs[d] = order.execs[d]
  BY <1>1, <1>7, OrderFields
<1>10. /\ order'.calls[c].state = s /\ order'.calls[c].fileChange = order.calls[c].fileChange
       /\ \A d \in Calls \ {c} : order'.calls[d].state = order.calls[d].state
  BY <1>6, <1>7 DEF StateOnly, SameCalls
<1>11. CallsOf({e}) = {c}
  BY <1>6 DEF CallsOf
<1>12. \A d \in Calls \ {c} : (d \in failed' <=> d \in failed) /\ (d \in refusals' <=> d \in refusals)
  BY <1>3
<1>13. Moves({e})
  BY <1>2, <1>7, <1>8, <1>9, <1>10, <1>11, <1>12 DEF Moves
<1>14. ASSUME NEW d \in Live, d = c
       PROVE  CallAgrees(d)'
  <2>1. CallAgrees(d) /\ c \in Live
    BY <1>1, <1>14 DEF CallsAgree
  <2>2. /\ order.execs[e] # "none"
        /\ order.calls[c].state = "running"
              \/ (order.calls[c].state \in Terminal /\ c \in over)
    BY <1>2, <1>5, <2>1 DEF ExecAgrees
  <2>3. s = ResultState(order, e, outcome)
    BY <2>2 DEF s
  <2>4. CASE outcome = "refused"
    <3>1. s = IF order.calls[c].fileChange THEN "refused" ELSE "done"
      BY <2>2, <2>3, <2>4 DEF ResultState, Terminal
    <3>2. c \in Shown => c \in FileChange
      BY <1>5 DEF PlanTyped
    <3> QED
      BY <1>2, <1>3, <1>4, <1>10, <1>14, <2>1, <2>4, <3>1, <3>2 DEF CallAgrees, Terminal
  <2>5. CASE outcome # "refused" /\ order.execs[e] = "read"
    <3>1. s = order.calls[c].state /\ e \in Reads
      BY <1>5, <2>3, <2>5 DEF ResultState, ExecAgrees
    <3>2. LastSettled(d)' = LastSettled(d)
      BY <1>4, <1>5, <1>8, <1>14, <3>1 DEF LastSettled, ExecsOf, PlanTyped
    <3> QED
      BY <1>2, <1>3, <1>4, <1>10, <1>14, <2>1, <2>2, <2>5, <3>1, <3>2 DEF CallAgrees, Terminal
  <2>6. CASE outcome # "refused" /\ order.execs[e] # "read"
    <3>1. e \notin Reads
      BY <1>1, <1>5, <2>2, <2>6, OrderFields DEF ExecAgrees
    <3>2. LastSettled(d)'
      BY <1>4, <1>6, <1>8, <1>14, <3>1 DEF LastSettled
    <3>3. s = IF order.calls[c].state = "refused" THEN "refused" ELSE "done"
      BY <2>2, <2>3, <2>6 DEF ResultState, Terminal
    <3> QED
      BY <1>2, <1>3, <1>4, <1>10, <1>14, <2>1, <2>6, <3>2, <3>3 DEF CallAgrees, Terminal
  <2> QED
    BY <2>4, <2>5, <2>6
<1>15. ExecAgrees(e)'
  BY <1>5, <1>7, <1>8, <1>9, ExecIdle
<1>16. Moved({e})
  <2>1. \A d \in Execs : phase[d] # "released"
    BY <1>1, <1>2 DEF ExecsAgree, ExecAgrees
  <2>2. ASSUME Leftover
        PROVE  order'.held = {} /\ \A d \in Known(order) : order'.calls[d].state \in Terminal
    <3>1. order.held = {} /\ \A d \in Known(order) : order.calls[d].state \in Terminal
      BY <2>2 DEF Leftover, StepFinished, AllTerminal, Terminal
    <3>2. c \in Known(order) => s \in Terminal
      BY <3>1 DEF s, ResultState, Terminal
    <3> QED
      BY <1>7, <1>10, <3>1, <3>2 DEF Known
  <2> QED
    BY <1>11, <1>14, <1>15, <2>1, <2>2 DEF Moved
<1>17. OneByOne' /\ Generations' /\ CallsAgree' /\ ExecsAgree'
  BY <1>13, <1>16, MovesKeep
<1>18. TypeOK'
  BY <1>1, <1>2, <1>3, <1>6, <1>7 DEF TypeOK, SameCalls
<1>19. History'
  <2>1. refusals' \subseteq failed' /\ failed' \subseteq started /\ failed \subseteq failed'
    BY <1>1, <1>3, <1>6 DEF History
  <2>2. /\ \A d \in withdrawn' : phase'[d] \in {"host", "settled"} /\ (CallOf[d])' \in failed'
        /\ \A d \in cancelled' : phase'[d] = "settled"
    BY <1>1, <1>2, <1>4, <1>8, <2>1 DEF History, TypeOK
  <2> QED
    BY <1>1, <1>2, <1>4, <2>1, <2>2 DEF History
<1>20. RefusalStaysInGeneration'
  <2>1. refusals \subseteq refusals'
    BY <1>3
  <2> QED
    BY <1>1, <1>2, <2>1, RefusalsKept
<1> QED
  BY <1>17, <1>18, <1>19, <1>20 DEF OrderInv

\* An exec is dispatched from the record o.
Runs(o, e, s) ==
    /\ SameCalls(o, order') /\ order'.held = o.held
    /\ order'.execs = [o.execs EXCEPT ![e] = IF o.calls[CallOf[e]].fileChange /\ e \in Reads
                                             THEN "read" ELSE "call"]
    /\ StateOnly(o, order', CallOf[e], s)

OnHost(o, e) ==
    /\ Runs(o, e, "running")
    /\ phase' = [phase EXCEPT ![e] = "host"] /\ hostStep' = "open" /\ failed' = failed

RefusedByPump(o, e) ==
    /\ Runs(o, e, "done")
    /\ phase' = [phase EXCEPT ![e] = "settled"] /\ hostStep' = hostStep
    /\ failed' = failed \cup {CallOf[e]}

ReadAnswered(o, e) ==
    /\ e \in Reads /\ Runs(o, e, "running")
    /\ phase' = [phase EXCEPT ![e] = "settled"] /\ hostStep' = hostStep /\ failed' = failed

LEMMA DispatchDoes ==
  ASSUME NEW o \in StepOrderState, NEW e \in Execs, CallOf[e] \in Calls,
         o.calls[CallOf[e]].state \in {"announced", "held", "running"}, Dispatch(o, e)
  PROVE  OnHost(o, e) \/ RefusedByPump(o, e) \/ ReadAnswered(o, e)
<1> DEFINE c == CallOf[e]
           r == RunExec(o, e)
<1>1. /\ SameCalls(o, r) /\ r.held = o.held /\ StateOnly(o, r, c, "running")
      /\ r.execs = [o.execs EXCEPT ![e] = IF o.calls[c].fileChange /\ e \in Reads
                                          THEN "read" ELSE "call"]
  BY RunExecDoes
<1>2. /\ SameCalls(r, FinishCall(r, c)) /\ FinishCall(r, c).execs = r.execs
      /\ FinishCall(r, c).held = r.held /\ StateOnly(r, FinishCall(r, c), c, "done")
  <2>1. r \in StepOrderState /\ r.calls[c].state = "running" /\ c \in Calls
    BY <1>1 DEF SameCalls, StateOnly
  <2> HIDE DEF r, c
  <2> QED
    BY <2>1, FinishCallDoes
<1>3. /\ SameCalls(o, FinishCall(r, c)) /\ StateOnly(o, FinishCall(r, c), c, "done")
  <2> HIDE DEF r, c
  <2> QED
    BY <1>1, <1>2 DEF SameCalls, StateOnly
<1>4. CASE order' = r /\ phase' = [phase EXCEPT ![e] = "host"] /\ hostStep' = "open" /\ failed' = failed
  <2> HIDE DEF r
  <2> QED
    BY <1>1, <1>4 DEF OnHost, Runs
<1>5. CASE /\ order' = FinishCall(r, c) /\ phase' = [phase EXCEPT ![e] = "settled"]
           /\ failed' = failed \cup {c} /\ hostStep' = hostStep
  <2>1. Runs(o, e, "done")
    <3>1. order'.held = o.held /\ order'.execs = r.execs
      <4> HIDE DEF r
      <4> QED
        BY <1>1, <1>2, <1>5
    <3> HIDE DEF r
    <3> QED
      BY <1>1, <1>3, <1>5, <3>1 DEF Runs
  <2> QED
    BY <1>5, <2>1 DEF RefusedByPump
<1>6. CASE /\ e \in Reads /\ order' = r /\ phase' = [phase EXCEPT ![e] = "settled"]
           /\ hostStep' = hostStep /\ failed' = failed
  <2> HIDE DEF r
  <2> QED
    BY <1>1, <1>6 DEF ReadAnswered, Runs
<1> QED
  BY <1>4, <1>5, <1>6 DEF Dispatch

\* What a dispatched exec's call and the exec become; the call had no outcome.
LEMMA DispatchAgrees ==
  ASSUME NEW o \in StepOrderState, NEW e \in Execs, NEW c \in Calls,
         PlanTyped, UNCHANGED <<plan, over, refusals>>, e \in ExecsOf(c), c = CallOf[e],
         phase \in [Execs -> {"unsent", "held", "released", "host", "settled"}],
         c \notin over \cup failed \cup refusals, ~LastSettled(c),
         c \in Shown => o.calls[c].fileChange,
         o.calls[c].fileChange => c \in FileChange,
         e \notin o.held, o.execs \in [Execs -> {"none", "call", "read"}],
         OnHost(o, e) \/ RefusedByPump(o, e) \/ ReadAnswered(o, e)
  PROVE  CallAgrees(c)' /\ ExecAgrees(e)'
<1>1. /\ CallOf' = CallOf /\ Reads' = Reads /\ Shown' = Shown /\ FileChange' = FileChange
      /\ \A d : ExecsOf(d)' = ExecsOf(d)
  BY PlanKept
<1>2. PICK s \in {"running", "done"} :
         Runs(o, e, s) /\ (s = "done" => c \in failed') /\ (s = "running" => failed' = failed)
  BY DEF OnHost, RefusedByPump, ReadAnswered
<1>3. /\ order'.calls[c].state = s /\ order'.calls[c].fileChange = o.calls[c].fileChange
      /\ e \notin order'.held
      /\ order'.execs[e] = IF o.calls[c].fileChange /\ e \in Reads THEN "read" ELSE "call"
  BY <1>2 DEF Runs, StateOnly, SameCalls
<1>4. e \in Reads => o.calls[c].fileChange
  BY DEF PlanTyped
<1>5. s = "running" => ~LastSettled(c)'
  <2> SUFFICES ASSUME s = "running"
               PROVE  ~LastSettled(c)'
    OBVIOUS
  <2>1. ~RefusedByPump(o, e)
    BY <1>3 DEF RefusedByPump, Runs, StateOnly
  <2>2. \A d \in ExecsOf(c) \ Reads : phase'[d] = "settled" => phase[d] = "settled"
    <3>1. ExecsOf(c) \subseteq Execs
      BY DEF ExecsOf, PlanTyped
    <3>2. CASE OnHost(o, e)
      BY <3>1, <3>2 DEF OnHost
    <3>3. CASE ReadAnswered(o, e)
      BY <3>1, <3>3 DEF ReadAnswered
    <3> QED
      BY <2>1, <3>2, <3>3
  <2> QED
    BY <1>1, <2>2 DEF LastSettled
<1>6. CallAgrees(c)'
  BY <1>1, <1>2, <1>3, <1>5 DEF CallAgrees, Terminal
<1>7. ExecAgrees(e)'
  <2>1. CASE phase'[e] = "host"
    <3>1. s = "running"
      BY <1>3, <2>1 DEF OnHost, RefusedByPump, ReadAnswered, Runs, StateOnly
    <3> QED
      BY <1>1, <1>3, <1>4, <2>1, <3>1 DEF ExecAgrees
  <2>2. CASE phase'[e] # "host"
    <3>1. phase'[e] = "settled"
      BY <2>2 DEF OnHost, RefusedByPump, ReadAnswered
    <3> QED
      BY <1>1, <1>3, <1>4, <3>1, ExecIdle
  <2> QED
    BY <2>1, <2>2
<1> QED
  BY <1>6, <1>7

\* A released frame is dispatched.
LEMMA RedispatchKeeps ==
  ASSUME OrderInv, NEW e \in Execs, Redispatch(e)
  PROVE  OrderInv'
<1>1. /\ TypeOK /\ OneByOne /\ History /\ Generations /\ CallsAgree /\ ExecsAgree
      /\ RefusalStaysInGeneration /\ order \in StepOrderState
  BY DEF OrderInv, TypeOK
<1>2. /\ UNCHANGED <<plan, gen, counted, started, earlier, over, withdrawn, refusals, cancelled>>
      /\ phase[e] = "released" /\ Dispatch(order, e)
  BY DEF Redispatch, cursor
<1>3. ExecAgrees(e) /\ PlanTyped
  BY <1>1, PlanIsTyped DEF TypeOK, ExecsAgree
<1>4. PICK c \in Calls : c = CallOf[e]
  BY <1>2, <1>3 DEF ExecAgrees, Live, InGen
<1>5. /\ c \in Live /\ c \in started /\ c \notin over \cup failed \cup refusals
      /\ order.calls[c].state = "running"
      /\ hostStep = "open" /\ e \notin order.held
  BY <1>1, <1>2, <1>3, <1>4 DEF ExecAgrees, History, Live
<1>6. CallAgrees(c) /\ ~LastSettled(c) /\ e \in ExecsOf(c)
  BY <1>1, <1>2, <1>4, <1>5 DEF CallsAgree, CallAgrees, Terminal, OneByOne, ExecsOf
<1>7. OnHost(order, e) \/ RefusedByPump(order, e) \/ ReadAnswered(order, e)
  BY <1>1, <1>2, <1>4, <1>5, DispatchDoes
<1>8. /\ SameCalls(order, order') /\ order'.held = order.held
      /\ \A d \in Execs \ {e} : order'.execs[d] = order.execs[d]
      /\ \A d \in Calls \ {c} : order'.calls[d].state = order.calls[d].state
      /\ order'.calls[c].state \in {"running", "done"}
  BY <1>1, <1>4, <1>7, OrderFields DEF OnHost, RefusedByPump, ReadAnswered, Runs, StateOnly
<1>9. /\ phase' \in [Execs -> {"unsent", "held", "released", "host", "settled"}]
      /\ phase'[e] \in {"host", "settled"}
      /\ \A d \in Execs \ {e} : phase'[d] = phase[d]
      /\ hostStep' = "open"
      /\ \/ failed' = failed
         \/ failed' = failed \cup {c}
  BY <1>1, <1>4, <1>5, <1>7 DEF OnHost, RefusedByPump, ReadAnswered, TypeOK
<1>10. CallsOf({e}) = {c}
  BY <1>4 DEF CallsOf
<1>11. Moves({e})
  BY <1>2, <1>8, <1>9, <1>10 DEF Moves
<1>12. CallAgrees(c)' /\ ExecAgrees(e)'
  BY <1>1, <1>2, <1>3, <1>4, <1>5, <1>6, <1>7, DispatchAgrees, OrderFields DEF CallAgrees, TypeOK
<1>13. Calms(order, order')
  BY <1>5, <1>8 DEF Calms
<1>14. Moved({e})
  <2>1. ASSUME NEW d \in Execs, phase[d] = "released"
        PROVE  /\ Blocked(order', CallOf[d]) => Blocked(order, CallOf[d])
               /\ FollowsRefusal(order', CallOf[d]) => FollowsRefusal(order, CallOf[d])
    <3>1. CallOf[d] \in Calls
      BY <1>1, <2>1 DEF ExecsAgree, ExecAgrees, Live, InGen
    <3> QED
      BY <1>13, <3>1, CalmsUnblock
  <2>2. Leftover => order'.held = {} /\ \A d \in Known(order) : order'.calls[d].state \in Terminal
    BY <1>5 DEF Leftover
  <2> QED
    BY <1>5, <1>9, <1>10, <1>12, <2>1, <2>2 DEF Moved
<1>15. OneByOne' /\ Generations' /\ CallsAgree' /\ ExecsAgree'
  BY <1>11, <1>14, MovesKeep
<1>16. TypeOK'
  BY <1>1, <1>2, <1>8, <1>9 DEF TypeOK, SameCalls
<1>17. History'
  <2>1. CallOf' = CallOf /\ GenOf' = GenOf
    BY <1>2, PlanKept
  <2>2. refusals' \subseteq failed' /\ failed' \subseteq started /\ failed \subseteq failed'
    BY <1>1, <1>2, <1>5, <1>9 DEF History
  <2>3. e \notin withdrawn /\ e \notin cancelled
    BY <1>1, <1>2 DEF History
  <2>4. /\ \A d \in withdrawn' : phase'[d] \in {"host", "settled"} /\ (CallOf[d])' \in failed'
        /\ \A d \in cancelled' : phase'[d] = "settled"
    BY <1>1, <1>2, <1>9, <2>1, <2>2, <2>3 DEF History, TypeOK
  <2> QED
    BY <1>1, <1>2, <2>1, <2>2, <2>4 DEF History
<1>18. RefusalStaysInGeneration'
  BY <1>1, <1>2, RefusalsKept
<1> QED
  BY <1>15, <1>16, <1>17, <1>18 DEF OrderInv

-----------------------------------------------------------------------------
(* Counts and generations. *)

LEMMA CountDoes ==
  ASSUME NEW o \in StepOrderState, NEW n \in Nat, NEW p, p = [o EXCEPT !.listedCount = n]
  PROVE  /\ p \in StepOrderState /\ p.calls = o.calls /\ p.nextIndex = o.nextIndex
         /\ p.execs = o.execs /\ p.held = o.held /\ p.listedCount = n
<1>1. o = [calls |-> o.calls, nextIndex |-> o.nextIndex, listedCount |-> o.listedCount,
           execs |-> o.execs, held |-> o.held]
  BY OrderFields
<1>2. p = [calls |-> o.calls, nextIndex |-> o.nextIndex, listedCount |-> n,
           execs |-> o.execs, held |-> o.held]
  BY <1>1
<1> QED
  BY <1>2, OrderFields DEF StepOrderState

\* No call is live: every exec is over, not sent, or an older call's.
NothingLive ==
    /\ Live' = {}
    /\ order'.held = {}
    /\ \A e \in Execs : phase'[e] \notin {"held", "released"}
    /\ \A e \in Execs : /\ order'.execs[e] = "call" => e \notin Reads'
                        /\ order'.execs[e] = "read" => e \in Reads'

LEMMA NothingLiveAgrees ==
  ASSUME NothingLive
  PROVE  CallsAgree' /\ ExecsAgree'
<1>1. CallsAgree'
  BY DEF NothingLive, CallsAgree
<1>2. ASSUME NEW e \in Execs
      PROVE  ExecAgrees(e)'
  BY <1>2, ExecOutside DEF NothingLive
<1> QED
  BY <1>1, <1>2 DEF ExecsAgree

\* tool_requests_listed.
LEMMA ToolRequestsListedKeeps ==
  ASSUME OrderInv, ToolRequestsListed
  PROVE  OrderInv'
<1> DEFINE n == Cardinality(InGen(gen))
<1>1. /\ TypeOK /\ OneByOne /\ History /\ Generations /\ CallsAgree /\ ExecsAgree
      /\ RefusalStaysInGeneration /\ order \in StepOrderState
  BY DEF OrderInv, TypeOK
<1>2. /\ UNCHANGED <<plan, phase, hostStep, gen, started, earlier, over, withdrawn, failed, refusals, cancelled>>
      /\ ~counted /\ counted' = TRUE /\ Reading
      /\ order' = NoteOrderedCallCount(order, n)
  BY DEF ToolRequestsListed, history, InGen
<1>3. n \in Nat
  BY <1>1, CountTyped
<1>4. InGen(gen)' = InGen(gen) /\ Live' = Live /\ Reads' = Reads /\ n' = n /\ GenOf' = GenOf
  <2>1. InGen(gen)' = InGen(gen) /\ Reads' = Reads /\ GenOf' = GenOf
    BY <1>2 DEF InGen, GenOf, Reads
  <2> QED
    BY <1>2, <2>1 DEF Live
<1> DEFINE Rest == order' \in StepOrderState /\ Current' /\ CallsAgree' /\ ExecsAgree'
<1>5. ASSUME Current
      PROVE  Rest
  <2>1. order' = [order EXCEPT !.listedCount = n]
    <3>1. order.listedCount = None
      BY <1>2, <1>5 DEF Current
    <3> HIDE DEF n
    <3> QED
      BY <1>2, <3>1 DEF NoteOrderedCallCount
  <2> HIDE DEF n
  <2>2. /\ order' \in StepOrderState /\ order'.calls = order.calls
        /\ order'.nextIndex = order.nextIndex
        /\ order'.execs = order.execs /\ order'.held = order.held /\ order'.listedCount = n
    BY <1>1, <1>3, <2>1, CountDoes
  <2>3. Known(order') = Live /\ \A d \in Calls : Before(order', d) = Before(order, d)
    BY <1>5, <2>2 DEF Current, Known, Before
  <2>4. Known(order)' = Live'
    BY <1>4, <2>3 DEF Known
  <2>5. order'.listedCount = IF counted' THEN Cardinality(InGen(gen))' ELSE None
    BY <1>2, <1>4, <2>2 DEF n
  <2>6. \A d \in Live' : order'.calls[d].index < order'.nextIndex /\ Before(order', d) = earlier'[d]
    BY <1>2, <1>4, <1>5, <2>2, <2>3 DEF Current, Live, InGen
  <2>7. Current'
    BY <2>4, <2>5, <2>6 DEF Current
  <2>8. CallsAgree'
    <3>1. ASSUME NEW d \in Live
          PROVE  CallAgrees(d)'
      <4>1. CallAgrees(d) /\ CallStays(d) /\ d \in Calls
        BY <1>1, <1>2, <2>2 DEF CallsAgree, CallStays, Live, InGen
      <4> QED
        BY <4>1, CallKept
    <3> QED
      BY <1>4, <3>1 DEF CallsAgree
  <2>9. ExecsAgree'
    <3>1. ASSUME NEW e \in Execs
          PROVE  ExecAgrees(e)'
      <4>1. ExecAgrees(e) /\ ExecStays(e)
        BY <1>1, <1>2, <2>2 DEF ExecsAgree, ExecStays, Reading
      <4> QED
        BY <4>1, ExecKept
    <3> QED
      BY <3>1 DEF ExecsAgree
  <2> QED
    BY <2>2, <2>7, <2>8, <2>9
<1>6. ASSUME Leftover
      PROVE  Rest
  <2> DEFINE q == ClearStep(order)
  <2>1. /\ q \in StepOrderState /\ Known(q) = {} /\ q.held = order.held
        /\ q.execs = [e \in Execs |-> "none"]
    BY <1>1, ClearStepDoes
  <2>2. order' = [q EXCEPT !.listedCount = n]
    <3>1. order.listedCount # None /\ StepFinished(order)
      BY <1>6 DEF Leftover, StepFinished
    <3> HIDE DEF n
    <3> QED
      BY <1>2, <3>1 DEF NoteOrderedCallCount
  <2> HIDE DEF q, n
  <2>3. /\ order' \in StepOrderState /\ order'.calls = q.calls
        /\ order'.execs = q.execs /\ order'.held = order.held /\ order'.listedCount = n
    BY <1>3, <2>1, <2>2, CountDoes
  <2>4. Known(order)' = {} /\ Live' = {} /\ order'.held = {}
    BY <1>4, <1>6, <2>1, <2>3 DEF Known, Leftover, StepFinished
  <2>5. order'.listedCount = IF counted' THEN Cardinality(InGen(gen))' ELSE None
    BY <1>2, <1>4, <2>3 DEF n
  <2>6. Current'
    BY <2>4, <2>5 DEF Current
  <2>7. \A e \in Execs : phase[e] \notin {"held", "released"}
    BY <1>1, <1>2, <2>3, <2>4 DEF Reading, ExecsAgree, ExecAgrees
  <2>8. NothingLive
    BY <1>2, <2>1, <2>3, <2>4, <2>7 DEF NothingLive
  <2> QED
    BY <2>3, <2>6, <2>8, NothingLiveAgrees
<1>7. Rest
  BY <1>1, <1>5, <1>6 DEF Generations
<1> HIDE DEF Rest
<1>8. TypeOK'
  BY <1>1, <1>2, <1>7 DEF TypeOK, Rest
<1>9. OneByOne'
  BY <1>1, <1>2, OneByOneKept
<1>10. History'
  <2>1. CallOf' = CallOf
    BY <1>2, PlanKept
  <2> QED
    BY <1>1, <1>2, <1>4, <2>1 DEF History
<1>11. RefusalStaysInGeneration'
  BY <1>1, <1>2, RefusalsKept
<1> QED
  BY <1>7, <1>8, <1>9, <1>10, <1>11 DEF OrderInv, Rest, Generations

\* step_started.
LEMMA StepStartedKeeps ==
  ASSUME OrderInv, StepStarted
  PROVE  OrderInv'
<1>1. /\ TypeOK /\ OneByOne /\ History /\ Generations /\ CallsAgree /\ ExecsAgree
      /\ RefusalStaysInGeneration /\ order \in StepOrderState /\ gen \in Nat
  BY DEF OrderInv, TypeOK
<1>2. /\ UNCHANGED <<plan, phase, hostStep, started, earlier, over, withdrawn, failed, refusals, cancelled>>
      /\ \A c \in Calls : GenOf[c] = gen => c \in started /\ Answered(c)
      /\ "count" \in Signals => counted
      /\ gen' = gen + 1 /\ counted' = FALSE /\ Reading
      /\ order' = IF "start" \in Signals THEN StartOrderedStep(order) ELSE order
  BY DEF StepStarted, history
<1>3. /\ CallOf' = CallOf /\ GenOf' = GenOf /\ Reads' = Reads /\ Silent' = Silent
      /\ Signals' = Signals /\ PlanTyped
  BY <1>1, <1>2, PlanKept, PlanIsTyped DEF TypeOK
<1>4. Current
  BY <1>1, <1>2 DEF Generations, Leftover
<1>5. Live = InGen(gen)
  BY <1>2 DEF Live, InGen
<1>6. \A c \in Live : order.calls[c].state \in Terminal
  <2> TAKE c \in Live
  <2>1. CallAgrees(c) /\ c \in Calls /\ Answered(c)
    BY <1>1, <1>2, <1>5 DEF CallsAgree, InGen
  <2>2. c \in over \/ LastSettled(c)
    BY <2>1 DEF Answered, LastSettled
  <2> QED
    BY <2>1, <2>2 DEF CallAgrees
<1>7. order.held = {}
  BY <1>6, HeldWait DEF Terminal
<1>8. AllTerminal(order)
  BY <1>4, <1>6 DEF Current, AllTerminal, Terminal
<1>9. \A e \in Execs : phase[e] \notin {"held", "released"}
  BY <1>1, <1>2, <1>7 DEF Reading, ExecsAgree, ExecAgrees
<1>10. Live' = {}
  <2>1. \A c \in started : GenOf[c] \in Nat /\ GenOf[c] <= gen
    BY <1>1, <1>3 DEF History, PlanTyped, TypeOK
  <2>2. \A c \in started : GenOf[c] # gen + 1
    BY <1>1, <2>1
  <2> QED
    BY <1>2, <1>3, <2>2 DEF Live, InGen
<1> DEFINE Rest == order' \in StepOrderState /\ Generations' /\ NothingLive
<1>11. ASSUME "start" \in Signals
       PROVE  Rest
  <2>1. order' = ClearStep(order)
    BY <1>2, <1>7, <1>8, <1>11 DEF StartOrderedStep
  <2>2. /\ order' \in StepOrderState /\ Known(order') = {} /\ order'.held = order.held
        /\ order'.execs = [e \in Execs |-> "none"] /\ order'.listedCount = None
    BY <1>1, <2>1, ClearStepDoes
  <2>3. Known(order)' = {}
    BY <2>2 DEF Known
  <2>4. Current'
    BY <1>2, <1>10, <2>2, <2>3 DEF Current
  <2>5. NothingLive
    BY <1>2, <1>7, <1>9, <1>10, <2>2 DEF NothingLive
  <2> QED
    BY <2>2, <2>4, <2>5 DEF Generations
<1>12. ASSUME "start" \notin Signals
       PROVE  Rest
  <2>1. "count" \in Signals /\ Silent = {} /\ counted
    BY <1>2, <1>3, <1>12 DEF PlanTyped
  <2>2. order' = order
    BY <1>2, <1>12
  <2>3. order.listedCount = Cardinality(InGen(gen)) /\ Cardinality(InGen(gen)) \in Nat
    BY <1>1, <1>4, <2>1, CountTyped DEF Current
  <2>4. Known(order) = InGen(gen)
    BY <1>4, <1>5 DEF Current
  <2>5. StepFinished(order)
    BY <1>7, <1>8, <2>3, <2>4, CallsAssumption DEF StepFinished
  <2>6. StepFinished(order)'
    BY <2>2, <2>5 DEF StepFinished, AllTerminal, Known
  <2>7. Leftover'
    BY <1>2, <1>3, <1>10, <2>1, <2>6 DEF Leftover
  <2>8. NothingLive
    BY <1>1, <1>2, <1>3, <1>7, <1>9, <1>10, <2>2 DEF NothingLive, ExecsAgree, ExecAgrees
  <2> QED
    BY <1>1, <2>2, <2>7, <2>8 DEF Generations
<1>13. Rest
  BY <1>11, <1>12
<1> HIDE DEF Rest
<1>14. CallsAgree' /\ ExecsAgree' /\ Generations' /\ order' \in StepOrderState
  BY <1>13, NothingLiveAgrees DEF Rest
<1>15. TypeOK'
  <2>1. gen' \in Nat /\ counted' \in BOOLEAN
    <3>1. gen' = gen + 1 /\ counted' = FALSE
      BY <1>2
    <3>2. gen' \in Nat
      BY <1>1, <3>1
    <3> QED
      BY <3>1, <3>2
  <2>2. UNCHANGED <<plan, phase, hostStep, started, earlier, over, withdrawn, failed, refusals, cancelled>>
    BY <1>2
  <2> QED
    BY <1>1, <1>14, <2>1, <2>2 DEF TypeOK
<1>16. OneByOne'
  BY <1>1, <1>2, OneByOneKept
<1>17. History'
  <2>1. \A c \in started' : GenOf'[c] <= gen'
    <3>1. \A c \in started : GenOf[c] \in Nat /\ GenOf[c] <= gen
      BY <1>1, <1>3 DEF History, PlanTyped, TypeOK
    <3> QED
      BY <1>1, <1>2, <1>3, <3>1
  <2> QED
    BY <1>1, <1>2, <1>3, <2>1 DEF History
<1>18. RefusalStaysInGeneration'
  BY <1>1, <1>2, RefusalsKept
<1> QED
  BY <1>14, <1>15, <1>16, <1>17, <1>18 DEF OrderInv

-----------------------------------------------------------------------------
(* An exec arrives. *)

\* It is the next one of its call: the private reads before it are answered.
LEMMA SentOneByOne ==
  ASSUME TypeOK, OneByOne, UNCHANGED plan, NEW e \in Execs, CursorSends(e),
         started' = started \cup {CallOf[e]},
         \A d \in Execs \ {e} : phase'[d] = phase[d]
  PROVE  OneByOne'
<1>1. CallOf' = CallOf /\ Reads' = Reads /\ DOMAIN CallOf \subseteq Execs
  BY PlanIsTyped DEF TypeOK, PlanTyped, CallOf, Reads
<1>2. /\ e \in DOMAIN CallOf
      /\ \A d \in DOMAIN CallOf : CallOf[d] = CallOf[e] /\ d # e =>
            phase[d] = IF d \in Reads THEN "settled" ELSE "unsent"
  BY DEF CursorSends, ExecsOf
<1>3. \A d \in Execs : phase'[d] # "unsent" => d \in DOMAIN CallOf /\ CallOf[d] \in started'
  BY <1>2 DEF OneByOne
<1>4. ASSUME NEW x \in DOMAIN CallOf, NEW y \in DOMAIN CallOf,
             CallOf[x] = CallOf[y] /\ x # y /\ phase'[x] # "unsent"
      PROVE  /\ phase'[x] = "settled" \/ phase'[y] \in {"unsent", "settled"}
             /\ x \notin Reads => phase'[y] = IF y \in Reads THEN "settled" ELSE "unsent"
  <2>1. x \in Execs /\ y \in Execs
    BY <1>1
  <2>2. CASE x = e
    <3>1. phase'[y] = phase[y] /\ phase[y] = IF y \in Reads THEN "settled" ELSE "unsent"
      BY <1>2, <1>4, <2>1, <2>2
    <3> QED
      BY <3>1
  <2>3. CASE y = e
    <3>1. phase'[x] = phase[x] /\ phase[x] = IF x \in Reads THEN "settled" ELSE "unsent"
      BY <1>2, <1>4, <2>1, <2>3
    <3> QED
      BY <1>4, <3>1
  <2>4. CASE x # e /\ y # e
    <3>1. phase'[x] = phase[x] /\ phase'[y] = phase[y]
      BY <2>1, <2>4
    <3>2. /\ phase[x] = "settled" \/ phase[y] \in {"unsent", "settled"}
          /\ x \notin Reads => phase[y] = IF y \in Reads THEN "settled" ELSE "unsent"
      BY <1>4, <3>1 DEF OneByOne
    <3> QED
      BY <3>1, <3>2
  <2> QED
    BY <2>2, <2>3, <2>4
<1> QED
  BY <1>1, <1>3, <1>4 DEF OneByOne

\* What orderExec made of the exec of c, from the record o.
Placed(o, e, c) ==
    /\ SameCalls(o, order')
    /\ \A d \in Calls \ {c} : order'.calls[d].state = o.calls[d].state
    /\ \A d \in Execs \ {e} : /\ order'.execs[d] = o.execs[d]
                              /\ d \in order'.held <=> d \in o.held
                              /\ phase'[d] = phase[d]
    /\ phase' \in [Execs -> {"unsent", "held", "released", "host", "settled"}]
    /\ hostStep' \in {"none", "open", "running"}
    /\ \/ failed' = failed
       \/ failed' = failed \cup {c}
    /\ CallAgrees(c)' /\ ExecAgrees(e)'

\* It is held behind what it follows.
LEMMA HeldPlaced ==
  ASSUME NEW o \in StepOrderState, NEW e \in Execs, NEW c \in Calls, c = CallOf[e],
         PlanTyped, TypeOK, UNCHANGED <<plan, over, refusals, failed, hostStep>>,
         e \in ExecsOf(c), c \notin over \cup failed \cup refusals, ~LastSettled(c),
         o.calls[c].state \in {"announced", "running"},
         c \in Shown => o.calls[c].fileChange,
         o.calls[c].fileChange <=> c \in FileChange,
         o.execs[e] = "call" => e \notin Reads, o.execs[e] = "read" => e \in Reads,
         c \in Live',
         order' = FinishCall(HoldExec(o, e), c), phase' = [phase EXCEPT ![e] = "held"]
  PROVE  Placed(o, e, c)
<1> DEFINE h == HoldExec(o, e)
<1>1. /\ CallOf' = CallOf /\ Reads' = Reads /\ Shown' = Shown /\ FileChange' = FileChange
      /\ \A d : ExecsOf(d)' = ExecsOf(d)
  BY PlanKept
<1>2. /\ SameCalls(o, h) /\ h.execs = o.execs /\ h.held = o.held \cup {e} /\ StateOnly(o, h, c, "held")
  BY HoldExecDoes
<1> HIDE DEF h
<1>3. h \in StepOrderState /\ h.calls[c].state = "held"
  BY <1>2 DEF SameCalls, StateOnly
<1>4. /\ SameCalls(h, order') /\ order'.execs = h.execs /\ order'.held = h.held
      /\ StateOnly(h, order', c, "held")
  BY <1>3, FinishCallDoes DEF h
<1>5. /\ SameCalls(o, order') /\ order'.execs = o.execs /\ order'.held = o.held \cup {e}
      /\ order'.calls[c].state = "held"
      /\ \A d \in Calls \ {c} : order'.calls[d].state = o.calls[d].state
      /\ order'.calls[c].fileChange = o.calls[c].fileChange
  BY <1>2, <1>4 DEF SameCalls, StateOnly
<1>6. /\ phase' \in [Execs -> {"unsent", "held", "released", "host", "settled"}]
      /\ phase'[e] = "held" /\ \A d \in Execs \ {e} : phase'[d] = phase[d]
  BY DEF TypeOK
<1>7. ~LastSettled(c)'
  <2>1. ExecsOf(c) \subseteq Execs
    BY DEF ExecsOf, PlanTyped
  <2> QED
    BY <1>1, <1>6, <2>1 DEF LastSettled
<1>8. CallAgrees(c)'
  BY <1>1, <1>5, <1>6, <1>7 DEF CallAgrees, Terminal
<1>9. ExecAgrees(e)'
  BY <1>1, <1>5, <1>6 DEF ExecAgrees
<1> QED
  BY <1>5, <1>6, <1>8, <1>9 DEF Placed, TypeOK

\* It is cancelled behind a refusal.
LEMMA CancelledPlaced ==
  ASSUME NEW o \in StepOrderState, NEW e \in Execs, NEW c \in Calls, c = CallOf[e],
         PlanTyped, TypeOK, UNCHANGED <<plan, over, refusals, hostStep>>,
         failed' = failed \cup {c}, c \notin refusals,
         o.calls[c].state \in {"announced", "running"},
         c \in Shown => o.calls[c].fileChange,
         o.calls[c].fileChange => c \in FileChange,
         o.execs[e] = "call" => e \notin Reads, o.execs[e] = "read" => e \in Reads,
         e \notin o.held,
         order' = FinishCall(o, c), phase' = [phase EXCEPT ![e] = "settled"]
  PROVE  Placed(o, e, c)
<1>1. /\ CallOf' = CallOf /\ Reads' = Reads /\ Shown' = Shown /\ FileChange' = FileChange
      /\ \A d : ExecsOf(d)' = ExecsOf(d)
  BY PlanKept
<1>2. /\ SameCalls(o, order') /\ order'.execs = o.execs /\ order'.held = o.held
      /\ StateOnly(o, order', c, "done")
  BY FinishCallDoes
<1>3. /\ order'.calls[c].state = "done" /\ order'.calls[c].fileChange = o.calls[c].fileChange
      /\ \A d \in Calls \ {c} : order'.calls[d].state = o.calls[d].state
  BY <1>2 DEF SameCalls, StateOnly
<1>4. /\ phase' \in [Execs -> {"unsent", "held", "released", "host", "settled"}]
      /\ phase'[e] = "settled" /\ \A d \in Execs \ {e} : phase'[d] = phase[d]
  BY DEF TypeOK
<1>5. CallAgrees(c)'
  BY <1>1, <1>3 DEF CallAgrees, Terminal
<1>6. ExecAgrees(e)'
  BY <1>1, <1>2, <1>4, ExecIdle
<1> QED
  BY <1>2, <1>3, <1>4, <1>5, <1>6 DEF Placed, TypeOK

\* orderExec recorded the call c of e, and decided on the record o.
Recorded(o, e, c) ==
    /\ Current /\ Arrived(o, c)
    /\ c \in FileChange /\ e \notin Reads => o.calls[c].fileChange
    /\ \/ /\ OrderExec(o, c) = "run" /\ Dispatch(o, e) /\ cancelled' = cancelled
       \/ /\ OrderExec(o, c) = "hold" /\ order' = FinishCall(HoldExec(o, e), c)
          /\ phase' = [phase EXCEPT ![e] = "held"]
          /\ UNCHANGED <<hostStep, failed>> /\ cancelled' = cancelled
       \/ /\ OrderExec(o, c) = "cancel" /\ order' = FinishCall(o, c)
          /\ phase' = [phase EXCEPT ![e] = "settled"]
          /\ failed' = failed \cup {c} /\ cancelled' = cancelled \cup {e}
          /\ UNCHANGED hostStep

LEMMA ExecRecorded ==
  ASSUME OrderInv, NEW e \in Execs, NEW c \in Calls, c = CallOf[e], ExecArrives(e)
  PROVE  \E o : Recorded(o, e, c)
<1> DEFINE fc == c \in FileChange \ (IF e \in Reads THEN FileChange ELSE {})
           o == EnsureCall(order, c, fc)
<1>1. /\ TypeOK /\ OneByOne /\ History /\ Generations /\ CallsAgree /\ order \in StepOrderState
      /\ PlanTyped
  BY PlanIsTyped DEF OrderInv, TypeOK
<1>2. /\ GenOf[c] = gen /\ c \in started \cup Silent
      /\ UNCHANGED <<plan, gen>> /\ Starts(c)
  BY DEF ExecArrives, CursorSends
<1>3. \/ /\ OrderExec(o, c) = "run" /\ Dispatch(o, e) /\ cancelled' = cancelled
      \/ /\ OrderExec(o, c) = "hold" /\ order' = FinishCall(HoldExec(o, e), c)
         /\ phase' = [phase EXCEPT ![e] = "held"]
         /\ UNCHANGED <<hostStep, failed>> /\ cancelled' = cancelled
      \/ /\ OrderExec(o, c) = "cancel" /\ order' = FinishCall(o, c)
         /\ phase' = [phase EXCEPT ![e] = "settled"]
         /\ failed' = failed \cup {c} /\ cancelled' = cancelled \cup {e}
         /\ UNCHANGED hostStep
  BY DEF ExecArrives
<1>4. fc \in BOOLEAN /\ (fc => c \in FileChange) /\ (c \in FileChange /\ e \notin Reads => fc)
  OBVIOUS
<1> HIDE DEF fc
<1>5. Current
  BY <1>1, <1>2 DEF Generations, Leftover, Live, InGen
<1>6. c \notin started => c \notin Shown
  BY <1>1, <1>2 DEF PlanTyped
<1>7. Arrived(o, c) /\ (fc => o.calls[c].fileChange)
  BY <1>1, <1>2, <1>4, <1>5, <1>6, Arrives
<1> HIDE DEF o
<1>8. Recorded(o, e, c)
  BY <1>3, <1>4, <1>5, <1>7 DEF Recorded
<1> QED
  BY <1>8

\* An exec of a call: recorded, then run, held or cancelled.
LEMMA ExecArrivesKeeps ==
  ASSUME OrderInv, NEW e \in Execs, ExecArrives(e)
  PROVE  OrderInv'
<1>1. /\ TypeOK /\ OneByOne /\ History /\ Generations /\ CallsAgree /\ ExecsAgree
      /\ RefusalStaysInGeneration /\ order \in StepOrderState
  BY DEF OrderInv, TypeOK
<1>2. PlanTyped
  BY <1>1, PlanIsTyped DEF TypeOK
<1>3. CursorSends(e) /\ Reading
  BY DEF ExecArrives
<1>4. PICK c \in Calls : c = CallOf[e]
  BY <1>2, <1>3 DEF CursorSends, PlanTyped
<1>5. UNCHANGED <<plan, gen, counted, over, withdrawn, refusals>> /\ Starts(c)
  BY <1>4 DEF ExecArrives
<1>6. PICK o : Recorded(o, e, c)
  BY <1>4, ExecRecorded
<1>7. /\ e \in ExecsOf(c) /\ phase[e] = "unsent" /\ GenOf[c] = gen
      /\ c \in started \cup Silent /\ c \notin over \cup failed
      /\ \A d \in ExecsOf(c) \ {e} :
            IF d \in Reads THEN phase[d] = "settled" ELSE phase[d] = "unsent"
  BY <1>3, <1>4 DEF CursorSends, ExecsOf
<1>8. c \notin refusals /\ ~LastSettled(c) /\ \A d \in ExecsOf(c) : phase[d] \in {"unsent", "settled"}
  BY <1>1, <1>7 DEF History, LastSettled
<1>9. Current
  BY <1>6 DEF Recorded
<1>11. Arrived(o, c) /\ (c \in FileChange /\ e \notin Reads => o.calls[c].fileChange)
  BY <1>6 DEF Recorded
<1>12. /\ o \in StepOrderState
       /\ o.held = order.held /\ o.execs = order.execs /\ o.listedCount = order.listedCount
       /\ Known(o) = started' \cap InGen(gen)
       /\ \A d \in Calls \ {c} : o.calls[d] = order.calls[d]
       /\ o.calls[c].fileChange => c \in FileChange
       /\ c \in Shown => o.calls[c].fileChange
  BY <1>11 DEF Arrived
<1>13. o.calls[c].state \in {"announced", "running"}
  <2>1. CASE c \in started
    <3>1. CallAgrees(c) /\ c \in Known(order)
      BY <1>1, <1>7, <1>9, <2>1, LiveKnown DEF CallsAgree, Live, InGen
    <3>2. order.calls[c].state \notin {"unknown", "held", "done", "refused"}
      BY <1>7, <1>8, <3>1 DEF CallAgrees, Known, Terminal
    <3> QED
      BY <1>1, <1>11, <2>1, <3>2, OrderFields, CallFields DEF Arrived
  <2>2. CASE c \notin started
    BY <1>11, <2>2 DEF Arrived
  <2> QED
    BY <2>1, <2>2
<1>14. ExecAgrees(e) /\ e \notin o.held
       /\ (o.execs[e] = "call" => e \notin Reads) /\ (o.execs[e] = "read" => e \in Reads)
  BY <1>1, <1>7, <1>12 DEF ExecsAgree, ExecAgrees
<1>15. o.calls[c].fileChange <=> c \in FileChange
  BY <1>2, <1>4, <1>11, <1>12 DEF PlanTyped
<1>16. CallOf' = CallOf /\ GenOf' = GenOf /\ Reads' = Reads /\ InGen(gen)' = InGen(gen)
  BY <1>5, PlanKept DEF InGen
<1>17. /\ started' = started \cup {c} /\ Live' = Live \cup {c}
       /\ \A d \in started : earlier'[d] = earlier[d]
       /\ earlier' \in [Calls -> SUBSET Calls]
  <2>1. started' = started \cup {c}
        /\ earlier' = IF c \in started THEN earlier
                      ELSE [earlier EXCEPT ![c] = {d \in started : GenOf[d] = GenOf[c]}]
    BY <1>5 DEF Starts
  <2>2. {d \in started : GenOf[d] = GenOf[c]} \in SUBSET Calls
    BY <1>1 DEF TypeOK
  <2>3. Live' = Live \cup {c}
    BY <1>7, <1>16, <2>1 DEF Live, InGen
  <2> QED
    BY <1>1, <2>1, <2>2, <2>3 DEF TypeOK
\* What became of the exec, whatever the decision.
<1>18. /\ Placed(o, e, c)
       /\ \/ cancelled' = cancelled
          \/ cancelled' = cancelled \cup {e} /\ phase'[e] = "settled" /\ FollowsRefusal(o, c)
  <2>1. CASE OrderExec(o, c) = "run" /\ Dispatch(o, e) /\ cancelled' = cancelled
    <3>1. OnHost(o, e) \/ RefusedByPump(o, e) \/ ReadAnswered(o, e)
      BY <1>4, <1>12, <1>13, <2>1, DispatchDoes
    <3>2. CallAgrees(c)' /\ ExecAgrees(e)'
      <4>1. /\ phase \in [Execs -> {"unsent", "held", "released", "host", "settled"}]
            /\ o.execs \in [Execs -> {"none", "call", "read"}]
        BY <1>1, <1>12, OrderFields DEF TypeOK
      <4> QED
        BY <1>2, <1>4, <1>5, <1>7, <1>8, <1>12, <1>14, <3>1, <4>1, DispatchAgrees
    <3>3. /\ SameCalls(o, order') /\ order'.held = o.held
          /\ \A d \in Execs \ {e} : order'.execs[d] = o.execs[d]
          /\ \A d \in Calls \ {c} : order'.calls[d].state = o.calls[d].state
      BY <1>4, <1>12, <3>1, OrderFields DEF OnHost, RefusedByPump, ReadAnswered, Runs, StateOnly
    <3>4. /\ phase' \in [Execs -> {"unsent", "held", "released", "host", "settled"}]
          /\ \A d \in Execs \ {e} : phase'[d] = phase[d]
          /\ hostStep' \in {"none", "open", "running"}
          /\ failed' = failed \/ failed' = failed \cup {c}
      BY <1>1, <1>4, <3>1 DEF OnHost, RefusedByPump, ReadAnswered, TypeOK
    <3> QED
      BY <2>1, <3>2, <3>3, <3>4 DEF Placed
  <2>2. CASE /\ OrderExec(o, c) = "hold" /\ order' = FinishCall(HoldExec(o, e), c)
             /\ phase' = [phase EXCEPT ![e] = "held"]
             /\ UNCHANGED <<hostStep, failed>> /\ cancelled' = cancelled
    <3>1. c \in Live' /\ UNCHANGED <<plan, over, refusals, failed, hostStep>>
          /\ c \notin over \cup failed \cup refusals
      BY <1>5, <1>7, <1>8, <1>17, <2>2
    <3>2. Placed(o, e, c)
      BY <1>1, <1>2, <1>4, <1>7, <1>8, <1>12, <1>13, <1>14, <1>15, <2>2, <3>1, HeldPlaced
    <3> QED
      BY <2>2, <3>2
  <2>3. CASE /\ OrderExec(o, c) = "cancel" /\ order' = FinishCall(o, c)
             /\ phase' = [phase EXCEPT ![e] = "settled"]
             /\ failed' = failed \cup {c} /\ cancelled' = cancelled \cup {e}
             /\ UNCHANGED hostStep
    <3>1. UNCHANGED <<plan, over, refusals, hostStep>>
      BY <1>5, <2>3
    <3>2. Placed(o, e, c)
      BY <1>1, <1>2, <1>4, <1>8, <1>12, <1>13, <1>14, <2>3, <3>1, CancelledPlaced
    <3>3. FollowsRefusal(o, c)
      BY <2>3 DEF OrderExec
    <3> QED
      BY <1>1, <2>3, <3>2, <3>3 DEF TypeOK
  <2> QED
    BY <1>6, <2>1, <2>2, <2>3 DEF Recorded
<1>19. /\ SameCalls(o, order')
       /\ \A d \in Calls \ {c} : /\ order'.calls[d].state = order.calls[d].state
                                 /\ order'.calls[d].fileChange = order.calls[d].fileChange
       /\ \A d \in Execs \ {e} : /\ order'.execs[d] = order.execs[d]
                                 /\ d \in order'.held <=> d \in order.held
                                 /\ phase'[d] = phase[d]
       /\ phase' \in [Execs -> {"unsent", "held", "released", "host", "settled"}]
       /\ hostStep' \in {"none", "open", "running"}
       /\ CallAgrees(c)' /\ ExecAgrees(e)'
  BY <1>12, <1>18 DEF Placed, SameCalls
<1>20. failed' = failed \/ failed' = failed \cup {c}
  BY <1>18 DEF Placed
<1>21. Current'
  <2>1. Known(order') = Known(o) /\ \A d \in Calls : Before(order', d) = Before(o, d)
    BY <1>19, SameOrder
  <2>2. Known(order)' = Live'
    BY <1>5, <1>12, <1>16, <2>1 DEF Known, Live
  <2>3. order'.listedCount = IF counted' THEN Cardinality(InGen(gen))' ELSE None
    <3>1. Cardinality(InGen(gen))' = Cardinality(InGen(gen))
      BY <1>16
    <3> QED
      BY <1>5, <1>9, <1>12, <1>19, <3>1 DEF Current, SameCalls
  <2>4. \A d \in Known(o) : o.calls[d].index < o.nextIndex /\ Before(o, d) = earlier'[d]
    BY <1>11 DEF Arrived
  <2>5. \A d \in Known(o) : order'.calls[d].index < order'.nextIndex /\ Before(order', d) = earlier'[d]
    BY <1>19, <2>1, <2>4 DEF SameCalls, Known
  <2>6. Known(o) = Live'
    BY <2>1, <2>2 DEF Known
  <2> QED
    BY <2>2, <2>3, <2>5, <2>6 DEF Current
<1>22. OneByOne'
  BY <1>1, <1>3, <1>4, <1>5, <1>17, <1>19, SentOneByOne
<1>23. CallsAgree'
  <2>1. ASSUME NEW d \in Live, d # c
        PROVE  CallAgrees(d)'
    <3>1. CallAgrees(d) /\ d \in Calls \ {c}
      BY <1>1, <2>1 DEF CallsAgree, Live, InGen
    <3>2. \A x \in ExecsOf(d) : x \in Execs \ {e}
      BY <1>2, <1>4, <2>1 DEF ExecsOf, PlanTyped
    <3>3. CallStays(d)
      BY <1>5, <1>19, <1>20, <3>1, <3>2 DEF CallStays
    <3> QED
      BY <3>1, <3>3, CallKept
  <2> QED
    BY <1>17, <1>19, <2>1 DEF CallsAgree
<1>24. ExecsAgree'
  <2>1. ASSUME NEW d \in Execs, d # e
        PROVE  ExecAgrees(d)'
    <3>1. ExecAgrees(d) /\ phase[d] # "released" /\ phase'[d] = phase[d]
          /\ order'.execs[d] = order.execs[d] /\ (d \in order'.held <=> d \in order.held)
      BY <1>1, <1>3, <1>19, <2>1 DEF ExecsAgree, Reading
    <3>2. CASE phase[d] \in {"unsent", "settled"}
      BY <1>16, <3>1, <3>2, ExecIdle DEF ExecAgrees
    <3>3. CASE phase[d] \notin {"unsent", "settled"}
      <4>1. d \in DOMAIN CallOf /\ CallOf[d] \in Calls
        BY <1>1, <1>2, <3>3 DEF OneByOne, PlanTyped
      <4>2. CallOf[d] # c
        BY <1>8, <3>3, <4>1 DEF ExecsOf
      <4>3. /\ order'.calls[CallOf[d]].state = order.calls[CallOf[d]].state
            /\ order'.calls[CallOf[d]].fileChange = order.calls[CallOf[d]].fileChange
        BY <1>19, <4>1, <4>2
      <4>4. ExecStays(d)
        BY <1>5, <1>17, <1>20, <3>1, <4>2, <4>3 DEF ExecStays
      <4> QED
        BY <3>1, <4>4, ExecKept
    <3> QED
      BY <3>2, <3>3
  <2> QED
    BY <1>19, <2>1 DEF ExecsAgree
<1>25. TypeOK'
  <2>1. order' \in StepOrderState /\ started' \in SUBSET Calls /\ failed' \in SUBSET Calls
        /\ cancelled' \in SUBSET Execs
    BY <1>1, <1>17, <1>18, <1>19, <1>20 DEF SameCalls, TypeOK
  <2> QED
    BY <1>1, <1>5, <1>17, <1>19, <2>1 DEF TypeOK
<1>26. History'
  <2>1. \A d \in started' : GenOf'[d] <= gen'
    BY <1>1, <1>2, <1>5, <1>7, <1>16, <1>17 DEF History, PlanTyped, TypeOK
  <2>2. over' \subseteq started' /\ refusals' \subseteq failed' /\ failed' \subseteq started'
    BY <1>1, <1>5, <1>17, <1>20 DEF History
  <2>3. /\ \A d \in withdrawn' : phase'[d] \in {"host", "settled"} /\ (CallOf[d])' \in failed'
        /\ \A d \in cancelled' : phase'[d] = "settled"
    BY <1>1, <1>5, <1>7, <1>16, <1>18, <1>19, <1>20 DEF History, TypeOK
  <2> QED
    BY <2>1, <2>2, <2>3 DEF History
<1>27. RefusalStaysInGeneration'
  <2>1. ASSUME FollowsRefusal(o, c)
        PROVE  \E f \in refusals : GenOf[f] = GenOf[c] /\ f \in earlier'[c]
    <3>1. PICK d \in Before(o, c) : o.calls[d].state = "refused"
      BY <2>1 DEF FollowsRefusal
    <3>2. d \in Known(o) /\ d # c /\ d \in Calls
      BY <3>1 DEF Before, Known
    <3>3. c \in Known(o)
      BY <1>13 DEF Known
    <3>4. d \in earlier'[c]
      BY <1>11, <3>1, <3>3 DEF Arrived
    <3>5. d \in Live /\ order.calls[d].state = "refused"
      BY <1>12, <1>17, <3>1, <3>2 DEF Live
    <3>6. d \in refusals /\ GenOf[d] = gen
      BY <1>1, <3>5 DEF CallsAgree, CallAgrees, Live, InGen
    <3> QED
      BY <1>7, <3>4, <3>6
  <2>2. \A x \in cancelled' : x \notin cancelled =>
           \E f \in refusals' : GenOf[f] = GenOf[CallOf[x]] /\ f \in earlier'[CallOf[x]]
    BY <1>4, <1>5, <1>18, <2>1
  <2> QED
    BY <1>1, <1>5, <1>17, <2>2, RefusalsKept
<1> QED
  BY <1>21, <1>22, <1>23, <1>24, <1>25, <1>26, <1>27 DEF OrderInv, Generations


-----------------------------------------------------------------------------
(* The theorems. *)

LEMMA InitKeeps == Init => OrderInv
<1> SUFFICES ASSUME Init
             PROVE  OrderInv
  OBVIOUS
<1>1. /\ plan \in Plans /\ order = CreateStepOrder /\ phase = [e \in Execs |-> "unsent"]
      /\ hostStep = "none" /\ gen = 1 /\ counted = FALSE /\ started = {}
      /\ earlier = [c \in Calls |-> {}] /\ over = {} /\ withdrawn = {} /\ failed = {}
      /\ refusals = {} /\ cancelled = {}
  BY DEF Init
<1>2. order = [calls |-> [c \in Calls |-> Unknown], nextIndex |-> 0, listedCount |-> None,
               execs |-> [e \in Execs |-> "none"], held |-> {}]
  BY <1>1 DEF CreateStepOrder
<1>3. Unknown \in OrderedCall /\ Unknown.state = "unknown"
  BY DEF Unknown, OrderedCall
<1>4. order \in StepOrderState /\ Known(order) = {} /\ Live = {}
  BY <1>1, <1>2, <1>3 DEF StepOrderState, Known, Live
<1>5. TypeOK
  BY <1>1, <1>4 DEF TypeOK
<1>6. OneByOne
  BY <1>1, <1>5, PlanIsTyped DEF OneByOne, PlanTyped
<1>7. History /\ RefusalStaysInGeneration
  BY <1>1 DEF History, RefusalStaysInGeneration
<1>8. Current
  BY <1>1, <1>2, <1>4 DEF Current
<1>9. CallsAgree
  BY <1>4 DEF CallsAgree
<1>10. ExecsAgree
  BY <1>1, <1>2 DEF ExecsAgree, ExecAgrees
<1> QED
  BY <1>5, <1>6, <1>7, <1>8, <1>9, <1>10 DEF OrderInv, Generations

LEMMA NextKeeps == OrderInv /\ [Next]_vars => OrderInv'
<1> SUFFICES ASSUME OrderInv, [Next]_vars
             PROVE  OrderInv'
  OBVIOUS
<1>1. ASSUME NEW c \in Calls, CallStep(c)
      PROVE  OrderInv'
  BY <1>1, ToolCallStartedKeeps, ToolCallCompletedKeeps DEF CallStep
<1>2. ASSUME NEW e \in Execs, ExecStep(e)
      PROVE  OrderInv'
  BY <1>2, ExecArrivesKeeps, ExecWithdrawnKeeps, RedispatchKeeps, HostResultKeeps DEF ExecStep
<1>3. CASE ToolRequestsListed
  BY <1>3, ToolRequestsListedKeeps
<1>4. CASE StepStarted
  BY <1>4, StepStartedKeeps
<1>5. CASE CancelHeld
  BY <1>5, CancelHeldKeeps
<1>6. CASE ReleaseHeld
  BY <1>6, ReleaseHeldKeeps
<1>7. CASE HostStepCloses
  BY <1>7, IdleKeeps DEF HostStepCloses
<1>8. CASE PumpResumes
  <2>1. \A e \in Execs : phase[e] # "released"
    BY <1>8 DEF PumpResumes, OrderInv, ExecsAgree, ExecAgrees
  <2> QED
    BY <1>8, <2>1, IdleKeeps DEF PumpResumes
<1>9. CASE UNCHANGED vars
  <2>1. hostStep' = hostStep /\ hostStep \in {"none", "open", "running"}
        /\ UNCHANGED <<plan, order, phase, cursor, history>>
    BY <1>9 DEF vars, OrderInv, TypeOK, cursor, history
  <2> QED
    BY <2>1, IdleKeeps
<1> QED
  BY <1>1, <1>2, <1>3, <1>4, <1>5, <1>6, <1>7, <1>8, <1>9 DEF Next

\* What the record and the execs say of each other, and of the generations.
THEOREM OrderInvariant == Spec => []OrderInv
<1> QED
  BY InitKeeps, NextKeeps, PTL DEF Spec

LEMMA InvTruthful == OrderInv => HoldsTruthful
<1> SUFFICES ASSUME OrderInv
             PROVE  HoldsTruthful
  OBVIOUS
<1>1. /\ TypeOK /\ OneByOne /\ Generations /\ ExecsAgree /\ RefusalStaysInGeneration
      /\ order \in StepOrderState /\ PlanTyped
  BY PlanIsTyped DEF OrderInv, TypeOK
<1>2. order.held = {e \in Execs : phase[e] = "held"}
  BY <1>1, OrderFields DEF ExecsAgree, ExecAgrees
<1>3. \A e \in Execs : phase[e] = "held" => order.calls[CallOf[e]].state = "held"
  BY <1>1 DEF ExecsAgree, ExecAgrees
<1>4. ASSUME NEW e \in Execs, phase[e] \in {"released", "host"}
      PROVE  order.calls[CallOf[e]].state # "held"
  <2>1. ExecAgrees(e) /\ CallOf[e] \in Calls
    BY <1>1, <1>4 DEF ExecsAgree, OneByOne, PlanTyped
  <2>2. CASE phase[e] = "released" \/ CallOf[e] \in Live
    BY <1>4, <2>1, <2>2 DEF ExecAgrees, Terminal
  <2>3. CASE CallOf[e] \notin Live
    <3>1. CASE Current
      BY <2>1, <2>3, <3>1 DEF Current, Known
    <3>2. CASE Leftover
      BY <2>1, <3>2 DEF Leftover, StepFinished, AllTerminal, Known
    <3> QED
      BY <1>1, <3>1, <3>2 DEF Generations
  <2> QED
    BY <2>2, <2>3
<1> QED
  BY <1>1, <1>2, <1>3, <1>4 DEF HoldsTruthful, HoldsAgree

\* What the holds say is what became of the calls, and a refusal cancels only
\* calls after it in its own generation.
THEOREM HoldsStayTruthful == Spec => []HoldsTruthful
<1> QED
  BY OrderInvariant, InvTruthful, PTL

\* The record with which the host was given e.
InOrder(o, e) ==
    /\ Before(o, CallOf[e]) = earlier'[CallOf[e]]
    /\ ~Blocked(o, CallOf[e]) /\ ~FollowsRefusal(o, CallOf[e])
    /\ CallOf[e] \in FileChange => o.calls[CallOf[e]].fileChange
    /\ \A d \in Before(o, CallOf[e]) : d \in Live /\ o.calls[d] = order.calls[d]

LEMMA DispatchedInOrder ==
  ASSUME OrderInv, Next, NEW e \in Execs, Dispatched(e)
  PROVE  Current /\ \E o : InOrder(o, e)
<1>1. /\ TypeOK /\ Generations /\ ExecsAgree /\ PlanTyped
  BY PlanIsTyped DEF OrderInv, TypeOK
<1>2. phase \in [Execs -> {"unsent", "held", "released", "host", "settled"}]
      /\ phase[e] # "host" /\ phase'[e] = "host"
  BY <1>1 DEF TypeOK, Dispatched
<1>3. CASE Redispatch(e)
  <2>1. phase[e] = "released" /\ ExecAgrees(e) /\ earlier' = earlier
    BY <1>1, <1>3 DEF Redispatch, ExecsAgree, cursor
  <2>2. CallOf[e] \in Live /\ Current
    BY <1>1, <2>1 DEF ExecAgrees, Generations, Leftover
  <2>3. InOrder(order, e)
    BY <2>1, <2>2 DEF InOrder, ExecAgrees, Current, Before
  <2> QED
    BY <2>2, <2>3
<1>4. CASE ExecArrives(e)
  <2>1. PICK c \in Calls : c = CallOf[e]
    BY <1>1, <1>4 DEF ExecArrives, CursorSends, PlanTyped
  <2>2. PICK o : Recorded(o, e, c)
    BY <1>4, <2>1, ExecRecorded
  <2>3. Arrived(o, c) /\ Current /\ (c \in FileChange /\ e \notin Reads => o.calls[c].fileChange)
    BY <2>2 DEF Recorded
  <2>4. OrderExec(o, c) = "run"
    BY <1>2, <2>2 DEF Recorded
  <2>5. ~FollowsRefusal(o, c) /\ ~Blocked(o, c)
    BY <2>4 DEF OrderExec
  <2>6. started' = started \cup {c} /\ GenOf[c] = gen
    BY <1>4, <2>1 DEF ExecArrives, Starts, CursorSends
  <2>7. c \in Known(o)
    BY <2>3, <2>6 DEF Arrived, InGen
  <2>8. Before(o, c) = earlier'[c]
    BY <2>3, <2>7 DEF Arrived
  <2>9. ASSUME NEW d \in Before(o, c)
        PROVE  d \in Live /\ o.calls[d] = order.calls[d]
    <3>1. d \in Known(o) /\ d # c /\ d \in Calls
      BY <2>9 DEF Before, Known
    <3> QED
      BY <2>3, <2>6, <3>1 DEF Arrived, Live
  <2>10. c \in FileChange => o.calls[c].fileChange
    BY <1>1, <2>1, <2>3 DEF Arrived, PlanTyped
  <2>11. InOrder(o, e)
    BY <2>1, <2>5, <2>8, <2>9, <2>10 DEF InOrder
  <2> QED
    BY <2>3, <2>11
<1>5. ASSUME NEW d \in Execs, d # e, ExecArrives(d) \/ Redispatch(d)
      PROVE  FALSE
  <2>1. \A x \in Execs \ {d} : phase'[x] = phase[x]
    BY <1>2, <1>5 DEF ExecArrives, Redispatch, Dispatch
  <2> QED
    BY <1>2, <1>5, <2>1
<1>6. ASSUME NEW d \in Execs, ExecWithdrawn(d) \/ (\E outcome \in {"done", "refused"} : HostResult(d, outcome))
      PROVE  FALSE
  BY <1>2, <1>6 DEF ExecWithdrawn, HostResult
<1>7. ASSUME NEW c \in Calls, CallStep(c)
      PROVE  FALSE
  BY <1>2, <1>7 DEF CallStep, ToolCallStarted, ToolCallCompleted
<1>8. ~(ToolRequestsListed \/ StepStarted \/ HostStepCloses \/ PumpResumes)
  BY <1>2 DEF ToolRequestsListed, StepStarted, HostStepCloses, PumpResumes
<1>9. ~(CancelHeld \/ ReleaseHeld)
  BY <1>2 DEF CancelHeld, ReleaseHeld
<1> QED
  BY <1>3, <1>4, <1>5, <1>6, <1>7, <1>8, <1>9 DEF Next, ExecStep

LEMMA StepInOrder ==
  ASSUME OrderInv, Next, NEW e \in Execs, Dispatched(e)
  PROVE  /\ \A f \in earlier'[CallOf[e]] \cap Shown : ~Unfinished(f)
         /\ CallOf[e] \in FileChange =>
               \A c \in earlier'[CallOf[e]] \ over : \A d \in ExecsOf(c) :
                  phase[d] \notin {"held", "released", "host"}
         /\ earlier'[CallOf[e]] \cap Shown \cap refusals = {}
<1>1. Current /\ CallsAgree /\ ExecsAgree /\ PlanTyped
  BY DispatchedInOrder, PlanIsTyped DEF OrderInv, TypeOK
<1>2. PICK o : InOrder(o, e)
  BY DispatchedInOrder
<1>3. \A d \in earlier'[CallOf[e]] :
         /\ d \in Before(o, CallOf[e]) /\ d \in Live /\ o.calls[d] = order.calls[d]
         /\ d \in Known(order) /\ CallAgrees(d)
  BY <1>1, <1>2 DEF InOrder, Current, CallsAgree
<1>4. /\ ~Blocked(o, CallOf[e]) /\ ~FollowsRefusal(o, CallOf[e])
      /\ CallOf[e] \in FileChange => o.calls[CallOf[e]].fileChange
  BY <1>2 DEF InOrder
<1>5. ASSUME NEW f \in earlier'[CallOf[e]] \cap Shown, Unfinished(f)
      PROVE  FALSE
  <2>1. order.calls[f].fileChange /\ order.calls[f].state \notin Terminal
    BY <1>3, <1>5 DEF CallAgrees, Unfinished, LastSettled
  <2>2. order.calls[f].state \in {"announced", "held", "running"}
    <3>1. order.calls[f] \in OrderedCall
      BY <1>3, OrderFields DEF OrderInv, TypeOK, Live, InGen
    <3> QED
      BY <1>3, <2>1, <3>1, CallFields DEF Known, Terminal
  <2> QED
    BY <1>3, <1>4, <2>1, <2>2 DEF Blocked
<1>6. ASSUME CallOf[e] \in FileChange, NEW c \in earlier'[CallOf[e]] \ over, NEW d \in ExecsOf(c),
             phase[d] \in {"held", "released", "host"}
      PROVE  FALSE
  <2>1. d \in Execs /\ CallOf[d] = c /\ ExecAgrees(d)
    BY <1>1, <1>6 DEF ExecsOf, PlanTyped, ExecsAgree
  <2>2. order.calls[c].state \in {"held", "running"}
    BY <1>3, <1>6, <2>1 DEF ExecAgrees
  <2> QED
    BY <1>3, <1>4, <1>6, <2>2 DEF Blocked
<1>7. ASSUME NEW f \in earlier'[CallOf[e]] \cap Shown \cap refusals
      PROVE  FALSE
  BY <1>3, <1>4, <1>7 DEF CallAgrees, FollowsRefusal
<1> QED
  BY <1>5, <1>6, <1>7

\* What the host starts follows the model's order: no call before an unfinished
\* file change ahead of it, no file change beside an earlier call under way, and
\* nothing after a refused file change.
THEOREM OrderStaysKept == Spec => ModelOrderKept
<1>1. ASSUME OrderInv, [Next]_vars
      PROVE  /\ [\A e \in Execs : Dispatched(e) =>
                    \A f \in earlier'[CallOf[e]] \cap Shown : ~Unfinished(f)]_vars
             /\ [\A e \in Execs : Dispatched(e) /\ CallOf[e] \in FileChange =>
                    \A c \in earlier'[CallOf[e]] \ over : \A d \in ExecsOf(c) :
                       phase[d] \notin {"held", "released", "host"}]_vars
             /\ [\A e \in Execs : Dispatched(e) =>
                    earlier'[CallOf[e]] \cap Shown \cap refusals = {}]_vars
  BY <1>1, StepInOrder
<1> QED
  BY <1>1, OrderInvariant, PTL
     DEF Spec, ModelOrderKept, LaterCallsWait, FileChangeWaits, RefusalCancelsRest

-----------------------------------------------------------------------------
(***************************************************************************)
(* Shells                                                                  *)
(***************************************************************************)

Stages == {"new", "sent", "waiting", "going", "created", "over"}

Records == {"none", "reserved", "started", "released"}

IsLane(l) == l = [lockedBy |-> l.lockedBy, waiters |-> l.waiters]

ShellTypeOK ==
    /\ policies \in Seq(Shells)
    /\ armed \in SUBSET Shells
    /\ DOMAIN lanes = Commands /\ \A k \in Commands : IsLane(lanes[k])
    /\ lanes = [k \in Commands |-> lanes[k]]
    /\ carries \in [Shells -> Commands]
    /\ stage \in [Shells -> Stages]
    /\ took \in [Shells -> Shells \cup {NoCall}]
    /\ record \in [Shells -> Records]

\* A call that may create is armed and holds a lane; one that waits is armed.
Gate ==
    /\ \A c \in Shells : stage[c] \in {"waiting", "going"} => c \in armed
    /\ \A c \in Shells : stage[c] = "going" => Holds(c, lanes)

-----------------------------------------------------------------------------
(* The operators. *)

\* A lane with another holder or other waiters is a lane.
LEMMA LaneChanged ==
    ASSUME NEW l, IsLane(l)
    PROVE  \A v : IsLane([l EXCEPT !.lockedBy = v]) /\ IsLane([l EXCEPT !.waiters = v])
<1> TAKE v
<1>1. [l EXCEPT !.lockedBy = v] = [lockedBy |-> v, waiters |-> l.waiters]
  BY DEF IsLane
<1>2. [l EXCEPT !.waiters = v] = [lockedBy |-> l.lockedBy, waiters |-> v]
  BY DEF IsLane
<1> QED BY <1>1, <1>2 DEF IsLane

\* A call that is handed a lane waited for it.
LEMMA HandedCalls ==
    ASSUME NEW st \in [Shells -> Stages]
    PROVE  /\ Handed(st) \in [Shells -> Stages]
           /\ \A x \in Shells : Handed(st)[x] = IF st[x] = "waiting" /\ Holds(x, lanes')
                                               THEN "going" ELSE st[x]
BY DEF Handed, Stages

\* What is left of the lanes are lanes.
LEMMA WithoutTyped ==
    ASSUME NEW S, ShellTypeOK
    PROVE  /\ DOMAIN WithoutCalls(S) = Commands /\ \A k \in Commands : IsLane(WithoutCalls(S)[k])
           /\ WithoutCalls(S) = [k \in Commands |-> WithoutCalls(S)[k]]
<1>1. ASSUME NEW k \in Commands
      PROVE  IsLane(WithoutCalls(S)[k])
  <2> DEFINE left == SelectSeq(lanes[k].waiters, LAMBDA y : y \notin S)
  <2>1. WithoutCalls(S)[k] = IF lanes[k].lockedBy \notin S THEN [lanes[k] EXCEPT !.waiters = left]
                        ELSE IF left = <<>> THEN [lockedBy |-> NoCall, waiters |-> <<>>]
                        ELSE [lockedBy |-> Head(left), waiters |-> Tail(left)]
    BY DEF WithoutCalls
  <2> HIDE DEF left
  <2>2. IsLane(lanes[k])
    BY DEF ShellTypeOK
  <2>3. IsLane([lanes[k] EXCEPT !.waiters = left])
    BY <2>2 DEF IsLane
  <2> QED BY <2>1, <2>3 DEF IsLane
<1> QED BY <1>1 DEF WithoutCalls

\* A call that does not leave keeps the lane it holds.
LEMMA WithoutHolds ==
    ASSUME NEW S, ShellTypeOK, NEW x, x \notin S, Holds(x, lanes)
    PROVE  Holds(x, WithoutCalls(S))
<1>1. PICK k \in Commands : lanes[k].lockedBy = x
  BY DEF Holds
<1> DEFINE left == SelectSeq(lanes[k].waiters, LAMBDA y : y \notin S)
<1>2. WithoutCalls(S)[k] = [lanes[k] EXCEPT !.waiters = left]
  BY <1>1 DEF WithoutCalls
<1> HIDE DEF left
<1>3. IsLane(lanes[k])
  BY DEF ShellTypeOK
<1>4. [lanes[k] EXCEPT !.waiters = left].lockedBy = lanes[k].lockedBy
  BY <1>3 DEF IsLane
<1> QED BY <1>1, <1>2, <1>4 DEF Holds

\* So does one that stays where it is while another arms.
LEMMA ArmsHolds ==
    ASSUME ShellTypeOK, NEW c \in Shells, NEW k \in Commands, NEW x, Holds(x, lanes),
           \/ /\ lanes[k].lockedBy = NoCall /\ x # NoCall
              /\ lanes' = [lanes EXCEPT ![k].lockedBy = c]
           \/ lanes' = [lanes EXCEPT ![k].waiters = Append(@, c)]
    PROVE  Holds(x, lanes')
<1>1. PICK j \in Commands : lanes[j].lockedBy = x
  BY DEF Holds
<1>2. IsLane(lanes[j]) /\ IsLane(lanes[k])
  BY DEF ShellTypeOK
<1>3. lanes'[j].lockedBy = x
  BY <1>1, <1>2 DEF ShellTypeOK, IsLane
<1> QED BY <1>3 DEF Holds

\* Leaving keeps the gate: whoever is told to go on has been handed a lane.
LEMMA LeavesGate ==
    ASSUME ShellTypeOK, Gate, NEW S \in SUBSET Shells, NEW st \in [Shells -> Stages],
           armed' = armed \ S, lanes' = WithoutCalls(S), stage' = Handed(st),
           \A x \in Shells \ S : st[x] = stage[x],
           \A x \in S : st[x] \in {"created", "over"}
    PROVE  Gate' /\ stage' \in [Shells -> Stages]
<1>1. /\ stage' \in [Shells -> Stages]
      /\ \A x \in Shells : stage'[x] = IF st[x] = "waiting" /\ Holds(x, lanes')
                                      THEN "going" ELSE st[x]
  BY HandedCalls
<1>2. ASSUME NEW x \in Shells, stage'[x] \in {"waiting", "going"}
      PROVE  x \in armed' /\ (stage'[x] = "going" => Holds(x, lanes'))
  <2>1. x \notin S /\ st[x] = stage[x] /\ st[x] \in {"waiting", "going"}
    BY <1>1, <1>2
  <2>2. st[x] = "going" => Holds(x, lanes')
    BY <2>1, WithoutHolds DEF Gate
  <2> QED BY <1>1, <2>1, <2>2 DEF Gate
<1> QED BY <1>1, <1>2 DEF Gate

-----------------------------------------------------------------------------
(* The steps. *)

\* What is invariant step by step.
ShellInv == ShellTypeOK /\ Gate /\ WrapGoesToItsCall /\ RecordsAccountedFor

\* A registered call is remembered while its record waits; the oldest call,
\* pushed out over the limit, takes its record along.
LEMMA RegistersInv ==
    ASSUME Constants, ShellInv, NEW c \in Shells, Registers(c)
    PROVE  ShellInv'
<1> DEFINE all == Append(policies, c)
           kept == IF Len(all) > MaxTracked THEN Tail(all) ELSE all
<1>1. policies' = kept /\ record' = Evicted(c, kept)
      /\ stage[c] = "new" /\ stage' = [stage EXCEPT ![c] = "sent"]
      /\ UNCHANGED <<pendingWrap, lanes, armed, asked, carries, took>>
  BY DEF Registers
<1>2. policies \in Seq(Shells) /\ all \in Seq(Shells) /\ Len(all) = Len(policies) + 1
      /\ all[Len(all)] = c /\ Len(policies) \in Nat
  BY DEF ShellInv, ShellTypeOK
<1> HIDE DEF all
<1>3. kept \in Seq(Shells) /\ c \in Range(kept)
  <2>1. CASE Len(all) > MaxTracked
    <3>1. kept = Tail(all) /\ all # <<>> /\ Len(all) > 1
      BY <1>2, <2>1 DEF Constants
    <3>2. kept \in Seq(Shells) /\ Len(kept) = Len(all) - 1
          /\ \A i \in 1..Len(kept) : kept[i] = all[i + 1]
      BY <1>2, <3>1
    <3> HIDE DEF kept
    <3>3. kept[Len(all) - 1] = c /\ Len(all) - 1 \in DOMAIN kept
      BY <1>2, <3>1, <3>2
    <3> QED BY <3>2, <3>3 DEF Range
  <2>2. CASE ~(Len(all) > MaxTracked)
    BY <1>2, <2>2 DEF Range
  <2> QED BY <2>1, <2>2
<1> HIDE DEF kept
<1>4. /\ record' = [y \in Shells |-> record'[y]]
      /\ \A x \in Shells : record'[x] = IF x = c THEN Reserves(c)
                                       ELSE IF x \in Range(policies) \ Range(kept) /\ record[x] = "reserved"
                                            THEN "released" ELSE record[x]
  BY <1>1 DEF Evicted
<1>5. record' \in [Shells -> Records]
  BY <1>4 DEF ShellInv, ShellTypeOK, Records, Reserves
<1>6. RecordsAccountedFor'
  BY <1>1, <1>3, <1>4 DEF ShellInv, RecordsAccountedFor
<1>7. ShellTypeOK'
  BY <1>1, <1>3, <1>5 DEF ShellInv, ShellTypeOK, Stages
<1>8. Gate'
  BY <1>1 DEF ShellInv, ShellTypeOK, Gate, Stages
<1> QED BY <1>1, <1>6, <1>7, <1>8 DEF ShellInv, WrapGoesToItsCall

\* An armed call goes on only if its lane was free.
LEMMA ArmsInv ==
    ASSUME Constants, ShellInv, NEW c \in Shells, Arms(c)
    PROVE  ShellInv'
<1> DEFINE k == carries[c]
<1>0. k \in Commands /\ ShellTypeOK /\ Gate /\ c # NoCall
  BY DEF Constants, ShellInv, ShellTypeOK
<1>1. /\ stage[c] = "sent" /\ armed' = armed \cup {c}
      /\ UNCHANGED <<policies, asked, carries, took, record>>
      /\ \/ /\ lanes[k].lockedBy = NoCall
            /\ lanes' = [lanes EXCEPT ![k].lockedBy = c] /\ stage' = [stage EXCEPT ![c] = "going"]
         \/ /\ lanes' = [lanes EXCEPT ![k].waiters = Append(@, c)]
            /\ stage' = [stage EXCEPT ![c] = "waiting"]
  BY DEF Arms
<1> HIDE DEF k
<1>2. /\ stage' \in [Shells -> Stages] /\ \A x \in Shells \ {c} : stage'[x] = stage[x]
      /\ stage'[c] = "going" => lanes' = [lanes EXCEPT ![k].lockedBy = c]
  BY <1>0, <1>1 DEF ShellTypeOK, Stages
<1>3. /\ lanes' = [j \in Commands |-> lanes'[j]] /\ DOMAIN lanes' = Commands
      /\ \A j \in Commands : IsLane(lanes'[j])
  <2>1. IsLane(lanes[k])
    BY <1>0 DEF ShellTypeOK
  <2>2. /\ IsLane([lanes[k] EXCEPT !.lockedBy = c])
        /\ IsLane([lanes[k] EXCEPT !.waiters = Append(lanes[k].waiters, c)])
    BY <2>1, LaneChanged
  <2>3. \/ lanes' = [lanes EXCEPT ![k] = [lanes[k] EXCEPT !.lockedBy = c]]
        \/ lanes' = [lanes EXCEPT ![k] = [lanes[k] EXCEPT !.waiters = Append(lanes[k].waiters, c)]]
    BY <1>0, <1>1 DEF ShellTypeOK
  <2>4. ASSUME NEW l, IsLane(l), lanes' = [lanes EXCEPT ![k] = l]
        PROVE  /\ lanes' = [j \in Commands |-> lanes'[j]] /\ DOMAIN lanes' = Commands
               /\ \A j \in Commands : IsLane(lanes'[j])
    BY <1>0, <2>4 DEF ShellTypeOK
  <2> QED BY <2>2, <2>3, <2>4
<1>4. \A x \in Shells : Holds(x, lanes) => Holds(x, lanes')
  <2>1. \A x \in Shells : x # NoCall
    BY DEF Constants
  <2> QED BY <1>0, <1>1, <2>1, ArmsHolds
<1>5. stage'[c] = "going" => Holds(c, lanes')
  <2>1. [lanes[k] EXCEPT !.lockedBy = c].lockedBy = c
    BY <1>0 DEF ShellTypeOK, IsLane
  <2>2. stage'[c] = "going" => lanes'[k] = [lanes[k] EXCEPT !.lockedBy = c]
    BY <1>0, <1>2 DEF ShellTypeOK
  <2> QED BY <1>0, <2>1, <2>2 DEF Holds
<1>6. Gate'
  BY <1>0, <1>1, <1>2, <1>4, <1>5 DEF Gate
<1>7. ShellTypeOK'
  BY <1>0, <1>1, <1>2, <1>3 DEF ShellTypeOK
<1> QED BY <1>1, <1>6, <1>7 DEF ShellInv, WrapGoesToItsCall, RecordsAccountedFor

\* The call whose create this is owns it, if anyone alone does.
LEMMA OwnerIsCall ==
    ASSUME Gate, NEW c \in Shells, stage[c] = "going", NEW owner, Owners(carries[c]) = {owner}
    PROVE  owner = c
BY DEF Gate, Owners

\* A create takes its own call's wrap.
LEMMA CreatesInv ==
    ASSUME ShellInv, NEW c \in Shells, Creates(c)
    PROVE  ShellInv'
<1> DEFINE st == [stage EXCEPT ![c] = "created"]
<1>0. ShellTypeOK /\ Gate
  BY DEF ShellInv
<1>1. PICK owner \in Owners(carries[c]) :
         /\ Owners(carries[c]) = {owner}
         /\ armed' = armed \ {owner} /\ lanes' = WithoutCalls({owner})
         /\ stage' = Handed([stage EXCEPT ![c] = "created"])
         /\ IF owner \in pendingWrap /\ Wraps(carries[c], {owner}) # {}
            THEN \E x \in Wraps(carries[c], {owner}) :
                     /\ took' = [took EXCEPT ![c] = x]
                     /\ record' = record
            ELSE UNCHANGED <<took, record>>
  BY DEF Creates
<1>2. owner = c /\ stage[c] = "going" /\ UNCHANGED <<policies, asked, carries>>
  BY <1>0, <1>1, OwnerIsCall DEF Creates
<1>3. st \in [Shells -> Stages] /\ \A x \in Shells \ {c} : st[x] = stage[x]
      /\ st[c] = "created"
  BY <1>0 DEF ShellTypeOK, Stages
<1>4. armed' = armed \ {c} /\ lanes' = WithoutCalls({c}) /\ stage' = Handed(st)
  BY <1>1, <1>2
<1>5. Gate' /\ stage' \in [Shells -> Stages]
  <2>1. {c} \in SUBSET Shells /\ \A x \in {c} : st[x] \in {"created", "over"}
    BY <1>3
  <2> HIDE DEF st
  <2> QED BY <1>0, <1>3, <1>4, <2>1, LeavesGate
<1>6. record' = record /\ (took' = took \/ took' = [took EXCEPT ![c] = c])
  <2>1. \A x \in Wraps(carries[c], {owner}) : x = c
    BY <1>2 DEF Wraps, MayTake
  <2> QED BY <1>1, <2>1
<1>7. ShellTypeOK'
  <2>1. /\ DOMAIN lanes' = Commands /\ \A k \in Commands : IsLane(lanes'[k])
        /\ lanes' = [k \in Commands |-> lanes'[k]]
    BY <1>0, <1>4, WithoutTyped
  <2>2. took' \in [Shells -> Shells \cup {NoCall}] /\ armed' \in SUBSET Shells
    BY <1>0, <1>4, <1>6 DEF ShellTypeOK
  <2> QED BY <1>0, <1>2, <1>5, <1>6, <2>1, <2>2 DEF ShellTypeOK
<1>8. WrapGoesToItsCall' /\ RecordsAccountedFor'
  BY <1>0, <1>2, <1>6 DEF ShellInv, WrapGoesToItsCall, RecordsAccountedFor, ShellTypeOK
<1> QED BY <1>5, <1>7, <1>8 DEF ShellInv

\* Shells that are over, or whose permission was refused, leave no record behind.
LEMMA LeavingInv ==
    ASSUME ShellInv, NEW S \in SUBSET Shells, NEW st \in [Shells -> Stages],
           armed' = armed \ S, lanes' = WithoutCalls(S), stage' = Handed(st),
           \A x \in Shells \ S : st[x] = stage[x],
           \A x \in S : st[x] \in {"created", "over"},
           record' \in [Shells -> Records],
           \A x \in Shells : record'[x] = "reserved" => record[x] = "reserved",
           UNCHANGED <<policies, carries, took>>
    PROVE  ShellInv'
<1>1. Gate' /\ stage' \in [Shells -> Stages]
  BY LeavesGate DEF ShellInv
<1>2. ShellTypeOK'
  BY <1>1, WithoutTyped DEF ShellInv, ShellTypeOK
<1>3. WrapGoesToItsCall' /\ RecordsAccountedFor'
  BY DEF ShellInv, WrapGoesToItsCall, RecordsAccountedFor
<1> QED BY <1>1, <1>2, <1>3 DEF ShellInv

\* A call that is over gives back its turn and its record.
LEMMA EndsInv ==
    ASSUME ShellInv, NEW c \in Shells, Ends(c)
    PROVE  ShellInv'
<1> DEFINE st == [stage EXCEPT ![c] = "over"]
<1>1. st \in [Shells -> Stages] /\ (\A x \in Shells \ {c} : st[x] = stage[x]) /\ st[c] = "over"
  BY DEF ShellInv, ShellTypeOK, Stages
<1>2. armed' = armed \ {c} /\ lanes' = WithoutCalls({c}) /\ stage' = Handed(st)
      /\ UNCHANGED <<policies, carries, took>>
  BY DEF Ends, Leaves
<1>3. record' \in [Shells -> Records] /\ \A x \in Shells : record'[x] = "reserved" => record[x] = "reserved"
  BY DEF Ends, Freed, ShellInv, ShellTypeOK, Records
<1> HIDE DEF st
<1> QED BY <1>1, <1>2, <1>3, LeavingInv

\* So do calls whose permission was refused.
LEMMA RejectedInv ==
    ASSUME ShellInv, NEW S \in SUBSET Shells, Rejected(S)
    PROVE  ShellInv'
<1>1. stage \in [Shells -> Stages] /\ \A x \in S : stage[x] \in {"created", "over"}
  BY DEF ShellInv, ShellTypeOK, Rejected
<1>2. armed' = armed \ S /\ lanes' = WithoutCalls(S) /\ stage' = Handed(stage)
      /\ UNCHANGED <<policies, carries, took>>
  BY DEF Rejected
<1>3. record' \in [Shells -> Records] /\ \A x \in Shells : record'[x] = "reserved" => record[x] = "reserved"
  <2>1. \A x \in Shells : record'[x] = IF x \in S \cap Range(policies) THEN Freed(x)[x] ELSE record[x]
    BY DEF Rejected
  <2>2. record' = [x \in Shells |-> record'[x]]
    BY DEF Rejected
  <2>3. \A x \in Shells : Freed(x)[x] = IF record[x] = "reserved" THEN "released" ELSE record[x]
    BY DEF Freed, ShellInv, ShellTypeOK
  <2> QED BY <2>1, <2>2, <2>3 DEF ShellInv, ShellTypeOK, Records
<1> QED BY <1>1, <1>2, <1>3, LeavingInv

\* A result that was read forgets its call and its record, and no other's.
LEMMA ConsumedInv ==
    ASSUME ShellInv, NEW c \in Shells, Consumed(c)
    PROVE  ShellInv'
<1>1. PICK i \in DOMAIN policies : policies[i] = c /\ policies' = RemoveAt(policies, i)
  BY DEF Consumed
<1>2. policies \in Seq(Shells) /\ i \in 1..Len(policies) /\ Len(policies) \in Nat
  BY <1>1 DEF ShellInv, ShellTypeOK
<1> DEFINE n == Len(policies)
           before == SubSeq(policies, 1, i - 1)
           after == SubSeq(policies, i + 1, n)
<1>3. policies' = before \o after
  BY <1>1 DEF RemoveAt
<1>4. /\ before \in Seq(Shells) /\ Len(before) = i - 1 /\ \A j \in 1..i - 1 : before[j] = policies[j]
      /\ after \in Seq(Shells) /\ Len(after) = n - i
      /\ \A j \in 1..n - i : after[j] = policies[i + j]
  BY <1>2
<1> HIDE DEF before, after
<1>5. /\ policies' \in Seq(Shells) /\ Len(policies') = n - 1
      /\ \A j \in 1..i - 1 : policies'[j] = policies[j]
      /\ \A j \in i..n - 1 : policies'[j] = policies[j + 1]
  <2>1. n \in Nat /\ i \in 1..n
    BY <1>2
  <2> HIDE DEF n
  <2>2. /\ policies' \in Seq(Shells) /\ Len(policies') = Len(before) + Len(after)
        /\ \A j \in 1..Len(before) + Len(after) :
             policies'[j] = IF j <= Len(before) THEN before[j] ELSE after[j - Len(before)]
    BY <1>3, <1>4, ConcatProperties
  <2>3. Len(policies') = n - 1
    BY <1>4, <2>1, <2>2
  <2>4. ASSUME NEW j \in 1..i - 1
        PROVE  policies'[j] = policies[j]
    BY <1>4, <2>1, <2>2
  <2>5. ASSUME NEW j \in i..n - 1
        PROVE  policies'[j] = policies[j + 1]
    <3>0. n \in Int /\ i \in Int /\ j \in Int /\ 1 <= i /\ i <= j /\ j <= n - 1
          /\ Len(before) = i - 1 /\ Len(after) = n - i
      BY <1>4, <2>1
    <3>1. policies'[j] = after[j - i + 1] /\ j - i + 1 \in 1..n - i
      BY <2>2, <3>0
    <3>2. after[j - i + 1] = policies[i + (j - i + 1)] /\ i + (j - i + 1) = j + 1
      BY <1>4, <2>1, <3>1
    <3> QED BY <3>1, <3>2
  <2> QED BY <2>2, <2>3, <2>4, <2>5
<1>6. ASSUME NEW x \in Range(policies), x # c
      PROVE  x \in Range(policies')
  <2>1. PICK j \in 1..n : policies[j] = x
    BY <1>2, <1>6 DEF Range
  <2>2. j # i
    BY <1>1, <1>6, <2>1
  <2>3. CASE j < i
    <3>1. j \in 1..Len(policies') /\ policies'[j] = x
      BY <1>2, <1>5, <2>1, <2>3
    <3> QED BY <1>5, <3>1 DEF Range
  <2>4. CASE j > i
    <3>0. n \in Int /\ i \in Int /\ j \in Int
      BY <1>2, <1>4, <2>1
    <3>1. j - 1 \in i..n - 1 /\ j - 1 \in 1..n - 1 /\ (j - 1) + 1 = j
      BY <1>4, <2>1, <2>4, <3>0
    <3>2. j - 1 \in 1..Len(policies')
      BY <1>5, <3>1
    <3>3. policies'[j - 1] = policies[(j - 1) + 1]
      BY <1>5, <3>1
    <3>4. policies'[j - 1] = x
      BY <2>1, <3>1, <3>3
    <3> QED BY <1>5, <3>2, <3>4 DEF Range
  <2> QED BY <1>2, <2>1, <2>2, <2>3, <2>4
<1>7. record' \in [Shells -> Records]
      /\ \A x \in Shells : record'[x] = "reserved" => record[x] = "reserved" /\ x # c
  BY DEF Consumed, Freed, ShellInv, ShellTypeOK, Records
<1>8. RecordsAccountedFor'
  BY <1>6, <1>7 DEF ShellInv, RecordsAccountedFor
<1>9. UNCHANGED <<pendingWrap, lanes, armed, asked, carries, stage, took>>
  BY DEF Consumed
<1>10. ShellTypeOK' /\ Gate' /\ WrapGoesToItsCall'
  BY <1>5, <1>7, <1>9 DEF ShellInv, ShellTypeOK, Gate, WrapGoesToItsCall
<1> QED BY <1>8, <1>10 DEF ShellInv

\* No call is registered or armed at first.
LEMMA ShellInit == ShellsInit => ShellInv
<1> SUFFICES ASSUME ShellsInit
             PROVE  ShellInv
  OBVIOUS
<1>1. ShellTypeOK
  BY DEF ShellsInit, ShellTypeOK, IsLane, Stages, Records
<1> QED BY <1>1 DEF ShellsInit, ShellInv, Gate, WrapGoesToItsCall, RecordsAccountedFor

\* Every step keeps the invariant.
LEMMA ShellNext ==
    ASSUME Constants, ShellInv, [ShellsNext]_shellsVars
    PROVE  ShellInv'
<1>1. ASSUME NEW c \in Shells, NEW k \in Commands, Rewrites(c, k)
      PROVE  ShellInv'
  BY <1>1 DEF Rewrites, ShellInv, ShellTypeOK, Gate, WrapGoesToItsCall, RecordsAccountedFor
<1>2. ASSUME NEW c \in Shells, CreatesShared(c)
      PROVE  ShellInv'
  BY <1>2 DEF CreatesShared, ShellInv, ShellTypeOK, Gate, Stages, WrapGoesToItsCall, RecordsAccountedFor
<1>3. ASSUME NEW c \in Shells, TerminalStarts(c)
      PROVE  ShellInv'
  BY <1>3 DEF TerminalStarts, ShellInv, ShellTypeOK, Gate, Records, WrapGoesToItsCall, RecordsAccountedFor
<1>4. CASE UNCHANGED shellsVars
  BY <1>4 DEF shellsVars, ShellInv, ShellTypeOK, Gate, WrapGoesToItsCall, RecordsAccountedFor
<1> QED BY <1>1, <1>2, <1>3, <1>4, RegistersInv, ArmsInv, CreatesInv, EndsInv, RejectedInv,
           ConsumedInv DEF ShellsNext

\* Whatever calls carry the same command, wait for it or were rewritten to it,
\* a create takes only the wrap of its own call, and a reserved record always
\* has a registered call that will start or release it.
THEOREM CallsKeepTheirWraps ==
    ASSUME Constants
    PROVE  ShellsSpec => []CallsKeptApart
<1>1. ShellInv => CallsKeptApart
  BY DEF ShellInv, CallsKeptApart
<1> QED BY <1>1, ShellInit, ShellNext, PTL DEF ShellsSpec
=============================================================================
