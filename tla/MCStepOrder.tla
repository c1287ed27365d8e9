----------------------------- MODULE MCStepOrder -----------------------------
(***************************************************************************)
(* Small instances of StepOrder for TLC.                                   *)
(***************************************************************************)
EXTENDS StepOrder

\* An exec's number is its call's, tens, and its turn within the call.
TensOf(E) == [e \in E |-> e \div 10]

\* Generation 1: a command, an edit (private read 20, write 21), a command;
\* generation 2: one more command.  Cursor sends call counts.
Counted ==
    [callOf |-> TensOf({10, 20, 21, 30, 40}), genOf |-> [c \in Calls |-> IF c <= 3 THEN 1 ELSE 2],
     fileChange |-> {2}, shown |-> {2}, silent |-> {}, reads |-> {20}, signals |-> {"count"}]

\* Two calls in each generation, which step_started opens: an edit first, the
\* second of them hidden by its announcement, the last call unannounced.
Started ==
    [callOf |-> TensOf({10, 11, 20, 30, 40}), genOf |-> [c \in Calls |-> IF c <= 2 THEN 1 ELSE 2],
     fileChange |-> {1, 3}, shown |-> {1}, silent |-> {4}, reads |-> {10}, signals |-> {"start"}]

BothPlans == {Counted, Started}
=============================================================================
