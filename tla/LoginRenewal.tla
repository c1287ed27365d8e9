---------------------------- MODULE LoginRenewal ----------------------------
(***************************************************************************)
(* Renewal of a browser login: renewSessionIfDue of auth-renewal.ts, the     *)
(* calls that share it, and the login the host stores, to which plugin.ts    *)
(* writes the result. One process; sign-ins and other processes write the    *)
(* store too.                                                               *)
(*                                                                         *)
(* A token is a number, in the order of issue. Time is a bounded counter: a  *)
(* token lives for Life ticks and is due when Window or less is left. A      *)
(* login is [access, refresh]; a renewed one has the new token as both.      *)
(***************************************************************************)
EXTENDS Naturals, FiniteSets

CONSTANTS Callers, MaxToken, MaxTime, Life, Window, MaxBackoff

Tokens == 0..MaxToken
None == MaxToken + 1
Failed == MaxToken + 2

(* What the proofs take of the constants.                                    *)
Constants == MaxToken \in Nat \ {0} /\ {Life, Window, MaxBackoff} \subseteq Nat /\ Life # 0

VARIABLES
    now,
    exp,      \* token -> expiry, for the tokens Cursor has issued
    store,    \* the login the host has stored
    succ,     \* sessionSuccessors: refresh token -> token renewed with it, or None
    state,    \* sessionStates: refresh token -> [failures, retryAt, ended]
    inflight, \* refresh requests under way: [token, by], "by" the caller that sent it
    call,     \* caller -> [pc, cred, base, token, force]
    answer,   \* caller -> its last answer: a token, Failed or None
    tried     \* lastPersistAttempt

vars == <<now, exp, store, succ, state, inflight, call, answer, tried>>

Login(access, refresh) == [access |-> access, refresh |-> refresh]
Idle == [pc |-> "idle", cred |-> Login(0, 0), base |-> Login(0, 0), token |-> 0, force |-> FALSE]
Fresh == [failures |-> 0, retryAt |-> 0, ended |-> FALSE]

Init ==
    /\ now = 1 /\ exp = [t \in {0, 1} |-> Life]
    /\ store = Login(0, 1)
    /\ succ = [t \in Tokens |-> None] /\ state = [t \in Tokens |-> Fresh]
    /\ inflight = {}
    /\ call = [c \in Callers |-> Idle] /\ answer = [c \in Callers |-> None]
    /\ tried = None

-----------------------------------------------------------------------------
Issued == DOMAIN exp
NextToken == Cardinality(Issued)
Issues(token) == exp' = [t \in Issued \union {token} |-> IF t = token THEN now + Life ELSE exp[t]]
Usable(t) == exp[t] > now

(* Mutant of Due: only an expired token is renewed. *)
Due_Late(t) == exp[t] < now

Due(t) == exp[t] <= now + Window
Backoff(failures) == IF failures > MaxBackoff THEN MaxBackoff ELSE failures

(* latestSessionTokens: renewals of this process are followed; an access     *)
(* token stored by itself stays when it lives longer.                        *)
ChainEnd(t) ==
    LET f[n \in Tokens] == IF n = 0 THEN t
                           ELSE LET prior == f[n - 1] IN IF succ[prior] = None THEN prior ELSE succ[prior]
    IN f[MaxToken]

(* Mutant of Latest: what the host stored is taken as it is. *)
Latest_Stored(login) == login

Latest(login) ==
    LET end == ChainEnd(login.refresh)
    IN IF end = login.refresh THEN login
       ELSE IF login.access # login.refresh /\ exp[login.access] >= exp[end] /\ login.access # end THEN login
       ELSE Login(end, end)

(* Mutant of Requested: a call does not look for a renewal under way. *)
Requested_Never(t) == FALSE

Requested(t) == \E r \in inflight : r.token = t

-----------------------------------------------------------------------------
(* A call reads the stored login, and goes on with it.                       *)
Reads(c, force) ==
    /\ call[c].pc = "idle"
    /\ call' = [call EXCEPT ![c] = [Idle EXCEPT !.pc = "read", !.cred = store, !.force = force]]
    /\ UNCHANGED <<now, exp, store, succ, state, inflight, answer, tried>>

(* The end of resolveSession: the answer, and a renewed token to store.      *)
Answers(c, token) ==
    /\ answer' = [answer EXCEPT ![c] = token]
    /\ IF token # call[c].cred.access /\ token # tried
       THEN tried' = token /\ call' = [call EXCEPT ![c] = [Idle EXCEPT !.pc = "compare", !.cred = call[c].cred, !.token = token]]
       ELSE UNCHANGED tried /\ call' = [call EXCEPT ![c] = Idle]
Fails(c) ==
    /\ answer' = [answer EXCEPT ![c] = Failed] /\ call' = [call EXCEPT ![c] = Idle]
    /\ UNCHANGED tried

Asks(c) ==
    /\ call[c].pc = "read"
    /\ LET base == Latest(call[c].cred)
           at == state[base.refresh]
           current == ~call[c].force /\ ~Due(base.access) /\ ~Requested(base.refresh)
           may == Requested(base.refresh) \/ call[c].force \/ now >= at.retryAt
       IN \/ at.ended /\ Fails(c) /\ UNCHANGED inflight
          \/ ~at.ended /\ current /\ Answers(c, base.access) /\ UNCHANGED inflight
          \/ /\ ~at.ended /\ ~current /\ may
             /\ inflight' = IF Requested(base.refresh) THEN inflight
                            ELSE inflight \union {[token |-> base.refresh, by |-> c]}
             /\ call' = [call EXCEPT ![c] = [@ EXCEPT !.pc = "awaiting", !.base = base]]
             /\ UNCHANGED <<answer, tried>>
          \/ /\ ~at.ended /\ ~current /\ ~may
             /\ IF Usable(base.access) THEN Answers(c, base.access) ELSE Fails(c)
             /\ UNCHANGED inflight
    /\ UNCHANGED <<now, exp, store, succ, state>>

(* refreshCursorSession settles; every call that awaits it is woken.         *)
Settle(r) ==
    /\ inflight' = inflight \ {r}
    /\ call' = [c \in Callers |-> IF call[c].pc = "awaiting" /\ call[c].base.refresh = r.token
                                  THEN [call[c] EXCEPT !.pc = "woken"] ELSE call[c]]
    /\ UNCHANGED <<now, store, answer, tried>>
Renewed(r) ==
    /\ NextToken <= MaxToken
    /\ Issues(NextToken)
    /\ succ' = [succ EXCEPT ![r.token] = NextToken]
    /\ state' = [state EXCEPT ![r.token] = Fresh]
    /\ Settle(r)
TransientFailure(r) ==
    /\ LET failures == state[r.token].failures + 1
       IN state' = [state EXCEPT ![r.token] = [@ EXCEPT !.failures = Backoff(failures), !.retryAt = now + Backoff(failures)]]
    /\ UNCHANGED <<exp, succ>> /\ Settle(r)
SessionEnded(r) ==
    /\ state' = [state EXCEPT ![r.token].ended = TRUE]
    /\ UNCHANGED <<exp, succ>> /\ Settle(r)

(* After the wait. *)
Continues(c) ==
    /\ call[c].pc = "woken"
    /\ LET base == call[c].base
           latest == Latest(base)
       IN IF latest.access # base.access THEN Answers(c, latest.access)
          ELSE IF state[base.refresh].ended \/ ~Usable(base.access) THEN Fails(c)
          ELSE Answers(c, base.access)
    /\ UNCHANGED <<now, exp, store, succ, state, inflight>>

-----------------------------------------------------------------------------
(* persistRenewal: the store is compared, and then written.                  *)
Compares(c) ==
    /\ call[c].pc = "compare"
    /\ call' = [call EXCEPT ![c] = IF store = call[c].cred THEN [@ EXCEPT !.pc = "write"] ELSE Idle]
    /\ UNCHANGED <<now, exp, store, succ, state, inflight, answer, tried>>
Writes(c) ==
    /\ call[c].pc = "write"
    /\ \/ store' = Login(call[c].token, call[c].token)
       \/ UNCHANGED store
    /\ call' = [call EXCEPT ![c] = Idle]
    /\ UNCHANGED <<now, exp, succ, state, inflight, answer, tried>>

(* The user signs in, or another process stores what it renewed.             *)
SignIn ==
    /\ NextToken <= MaxToken
    /\ Issues(NextToken)
    /\ store' = Login(NextToken, NextToken)
    /\ UNCHANGED <<now, succ, state, inflight, call, answer, tried>>

(* Woken calls run before time goes on. *)
Tick ==
    /\ now < MaxTime /\ \A c \in Callers : call[c].pc # "woken"
    /\ now' = now + 1
    /\ UNCHANGED <<exp, store, succ, state, inflight, call, answer, tried>>

-----------------------------------------------------------------------------
Next ==
    \/ \E c \in Callers :
           \/ \E force \in BOOLEAN : Reads(c, force)
           \/ Asks(c) \/ Continues(c) \/ Compares(c) \/ Writes(c)
    \/ \E r \in inflight : Renewed(r) \/ TransientFailure(r) \/ SessionEnded(r)
    \/ SignIn \/ Tick

Spec == Init /\ [][Next]_vars

-----------------------------------------------------------------------------
(* Of one login one renewal is under way at a time, and none for a token     *)
(* that was renewed or ended before, however many calls hold it              *)
(* (auth-renewal.ts:211, :158).                                              *)
RenewedOnce ==
    /\ \A r, s \in inflight : r.token = s.token => r = s
    /\ \A r \in inflight : succ[r.token] = None /\ ~state[r.token].ended

(* A step that answers a call with a token. *)
Answered(c) == call[c].pc \in {"read", "woken"} /\ call'[c].pc \in {"idle", "compare"} /\ answer'[c] \in Tokens

(* A call is never answered with an expired token, and a forced call (Cursor *)
(* rejected its token) with that token only if its own renewal failed, also  *)
(* when it joined a renewal that was not forced (auth-renewal.ts:211, :246).  *)
AnswerServes ==
    [][\A c \in Callers : Answered(c) =>
           /\ Usable(answer'[c])
           /\ call[c].force => answer'[c] # call[c].cred.access \/ succ[call[c].base.refresh] = None]_vars

(* The line of a token. Token 1 is only ever the refresh token of token 0.   *)
NewestOf(t) ==
    IF t \notin Issued \/ t = 1 THEN None
    ELSE IF t = 0 /\ succ[1] # None THEN ChainEnd(1) ELSE ChainEnd(t)

Line == INSTANCE TokenLine WITH
    newest <- [t \in Tokens |-> NewestOf(t)],
    asks <- [c \in Callers |-> IF call[c].pc \in {"read", "awaiting", "woken"} THEN call[c].cred.access ELSE None]

TokensStayNewest == Line!Spec
=============================================================================
