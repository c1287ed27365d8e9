---------------------------- MODULE ApiKeyRenewal ----------------------------
(***************************************************************************)
(* The token of an API-key login: resolveApiKeyToken of auth-renewal.ts.     *)
(* Calls of one key share the cached token and one exchange at a time. A     *)
(* call may bring the token the host stored (a seed), and is forced when     *)
(* Cursor rejected the token it used before.                                *)
(*                                                                         *)
(* A token is a number, in the order of issue; time is a bounded counter.    *)
(***************************************************************************)
EXTENDS Naturals, FiniteSets

CONSTANTS Callers, MaxToken, MaxTime, Life, Window, MaxBackoff

Tokens == 1..MaxToken
None == 0
Failed == MaxToken + 1

VARIABLES
    now,
    born,     \* token -> time of its issue; 0 for a token Cursor has not issued
    issued,   \* tokens issued so far
    stored,   \* the token the host stored, or None
    token,    \* state.token: the cached token, or None
    backoff,  \* [failures, retryAt]
    rejected, \* state.terminal: Cursor refused the key
    exchange, \* the exchange under way: "none", "asked" or "forced" (by its first call)
    call,     \* caller -> [pc, force, prior, since]: the token it was answered with before,
              \* and the tokens issued when it asked (history)
    answer    \* caller -> token, Failed or None

vars == <<now, born, issued, stored, token, backoff, rejected, exchange, call, answer>>

Steady == [failures |-> 0, retryAt |-> 0]

Init ==
    /\ now = 1 /\ issued = 1 /\ born = [t \in Tokens |-> 0]
    /\ stored \in {None, 1}
    /\ token = None /\ backoff = Steady /\ rejected = FALSE /\ exchange = "none"
    /\ call = [c \in Callers |-> [pc |-> "idle", force |-> FALSE, prior |-> None, since |-> 0]]
    /\ answer = [c \in Callers |-> None]

-----------------------------------------------------------------------------
Expiry(t) == born[t] + Life
Usable(t) == Expiry(t) > now
ExpiringSoon(t) == Expiry(t) <= now + Window
LongerLived(a, b) == IF a = None \/ Expiry(b) > Expiry(a) THEN b ELSE a
Cap(n) == IF n > MaxBackoff THEN MaxBackoff ELSE n

Done(c, result) ==
    /\ answer' = [answer EXCEPT ![c] = result]
    /\ call' = [call EXCEPT ![c] = [pc |-> "idle", force |-> FALSE, since |-> 0,
                                       prior |-> IF result \in Tokens THEN result ELSE None]]
    /\ stored' = IF result \in Tokens THEN result ELSE stored

(* The cached token until it expires, when no exchange gave a new one.       *)
Falls(c, cached) == Done(c, IF cached # None /\ Usable(cached) THEN cached ELSE Failed)

(* A call: the seed is taken in, then the cached token serves, an exchange   *)
(* is started or joined, or the call has to do with what there is.           *)
Asks(c, force, seeded) ==
    /\ call[c].pc = "idle"
    /\ (seeded => stored # None) /\ (force => call[c].prior # None)
    /\ LET cached == IF seeded THEN LongerLived(token, stored) ELSE token
           serves == cached # None /\ ~force /\ ~ExpiringSoon(cached)
           may == ~rejected /\ (force \/ now >= backoff.retryAt)
       IN /\ token' = cached
          /\ \/ serves /\ Done(c, cached) /\ UNCHANGED exchange
             \/ /\ ~serves /\ may
                /\ exchange' = IF exchange # "none" THEN exchange ELSE IF force THEN "forced" ELSE "asked"
                /\ call' = [call EXCEPT ![c].pc = "awaiting", ![c].force = force, ![c].since = issued]
                /\ UNCHANGED <<answer, stored>>
             \/ ~serves /\ ~may /\ Falls(c, cached) /\ UNCHANGED exchange
    /\ UNCHANGED <<now, born, issued, backoff, rejected>>

Settles ==
    /\ exchange # "none" /\ exchange' = "none"
    /\ call' = [c \in Callers |-> IF call[c].pc = "awaiting" THEN [call[c] EXCEPT !.pc = "woken"] ELSE call[c]]
    /\ UNCHANGED <<now, stored, answer>>

(* Mutant of Cached: also a forced exchange keeps the token that lives       *)
(* longer.                                                                  *)
Cached_Longer(t) == LET lives == born[t] + Life IN IF token = None \/ lives > Expiry(token) THEN t ELSE token

(* What the cache holds after an exchange gave token t. *)
Cached(t) == IF exchange = "forced" \/ token = None \/ now + Life > Expiry(token) THEN t ELSE token

Exchanged ==
    /\ issued < MaxToken /\ issued' = issued + 1
    /\ born' = [born EXCEPT ![issued + 1] = now]
    /\ token' = Cached(issued + 1)
    /\ backoff' = Steady /\ UNCHANGED rejected
    /\ Settles
ExchangeFails ==
    /\ backoff' = [failures |-> Cap(backoff.failures + 1), retryAt |-> now + Cap(backoff.failures + 1)]
    /\ UNCHANGED <<born, issued, token, rejected>> /\ Settles
KeyRejected ==
    /\ rejected' = TRUE
    /\ UNCHANGED <<born, issued, token, backoff>> /\ Settles

Continues(c) ==
    /\ call[c].pc = "woken" /\ Falls(c, token)
    /\ UNCHANGED <<now, born, issued, token, backoff, rejected, exchange>>

Tick ==
    /\ now < MaxTime /\ \A c \in Callers : call[c].pc # "woken"
    /\ now' = now + 1
    /\ UNCHANGED <<born, issued, stored, token, backoff, rejected, exchange, call, answer>>

Next ==
    \/ \E c \in Callers : Continues(c) \/ \E force, seeded \in BOOLEAN : Asks(c, force, seeded)
    \/ Exchanged \/ ExchangeFails \/ KeyRejected \/ Tick

Spec == Init /\ [][Next]_vars

-----------------------------------------------------------------------------
(* A forced call is answered with the token that Cursor rejected only if no  *)
(* exchange succeeded while it waited, whichever call began the exchange,    *)
(* and also when both tokens expire together (auth-renewal.ts:306).          *)
RejectedTokenReplaced ==
    [][\A c \in Callers :
           call[c].pc = "woken" /\ call'[c].pc = "idle" /\ call[c].force /\ issued > call[c].since =>
               answer'[c] # call[c].prior]_vars
=============================================================================
