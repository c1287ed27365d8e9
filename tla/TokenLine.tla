------------------------------ MODULE TokenLine ------------------------------
(***************************************************************************)
(* What credential renewal promises its callers: every login is a line of   *)
(* tokens, each obtained with the one before, and a call is answered with    *)
(* the newest token of its login, or fails. Nobody renews a token that was   *)
(* renewed before.                                                          *)
(***************************************************************************)
CONSTANTS Callers, Tokens, None, Failed

VARIABLES
    newest, \* token -> the end of the line it is in; None for a token not issued
    asks,   \* caller -> the token it asks with, or None
    answer  \* caller -> the last answer: a token, Failed or None

vars == <<newest, asks, answer>>

Init ==
    /\ \E t \in Tokens : newest = [u \in Tokens |-> IF u = t THEN t ELSE None]
    /\ asks = [c \in Callers |-> None]
    /\ answer = [c \in Callers |-> None]

(* A token that ends a line gets a successor nobody had. *)
Renew(t, successor) ==
    /\ newest[t] = t /\ newest[successor] = None
    /\ newest' = [u \in Tokens |-> IF u = successor \/ newest[u] = t THEN successor ELSE newest[u]]
    /\ UNCHANGED <<asks, answer>>

(* A login that is not in a line of this process: a sign-in, or a renewal of *)
(* another process.                                                         *)
Login(t) ==
    /\ newest[t] = None
    /\ newest' = [newest EXCEPT ![t] = t]
    /\ UNCHANGED <<asks, answer>>

Ask(c, t) ==
    /\ asks[c] = None /\ newest[t] # None
    /\ asks' = [asks EXCEPT ![c] = t]
    /\ UNCHANGED <<newest, answer>>

Answer(c) ==
    /\ asks[c] # None
    /\ \/ answer' = [answer EXCEPT ![c] = newest[asks[c]]]
       \/ answer' = [answer EXCEPT ![c] = Failed]
    /\ asks' = [asks EXCEPT ![c] = None]
    /\ UNCHANGED newest

Next ==
    \/ \E t \in Tokens : Login(t) \/ \E u \in Tokens : Renew(t, u)
    \/ \E c \in Callers : Answer(c) \/ \E t \in Tokens : Ask(c, t)

Spec == Init /\ [][Next]_vars
=============================================================================
