----------------------------- MODULE ShellCalls -----------------------------
(***************************************************************************)
(* Shell calls of Cursor in OpenCode 2 (src/src/shell-timeout.ts and the    *)
(* hooks of src/src/plugin-opencode2.ts). The host's create hook names no   *)
(* call, only the command it is about to run: calls with the same command   *)
(* take turns in a lane from execute.before to their create, so that the    *)
(* create's adapter goes to the call that owns it.                          *)
(***************************************************************************)
EXTENDS Naturals, Sequences, FiniteSets, SequencesExt

CONSTANTS
    Shells, Commands,  \* shell calls, and what they run
    Background,  \* the calls Cursor wants in the background: each has a wrap and a reserved record
    MaxTracked,  \* MAX_TRACKED_SHELL_CALLS
    NoCall

(* What the proofs take of the constants.                                    *)
Constants == NoCall \notin Shells /\ MaxTracked \in Nat \ {0}

VARIABLES
    policies,  \* registered calls, oldest first
    pendingWrap,  \* pendingEnvWraps
    lanes,     \* createGate: command -> its lane: the call that holds it, the calls that wait
    armed,     \* armedCalls
    asked,     \* call -> the command Cursor asked for (the policy's)
    carries,   \* call -> the command its input carries now
    stage,     \* call -> "new", "sent", "waiting", "going", "created", "over"
    took,      \* call -> the call whose wrap its create got, or NoCall
    record     \* call -> its terminal record: "none", "reserved", "started", "released"

shellsVars == <<policies, pendingWrap, lanes, armed, asked, carries, stage, took, record>>

ShellsInit ==
    /\ policies = <<>> /\ pendingWrap = {} /\ armed = {}
    /\ lanes = [k \in Commands |-> [lockedBy |-> NoCall, waiters |-> <<>>]]
    /\ asked \in [Shells -> Commands] /\ carries = asked
    /\ stage = [c \in Shells |-> "new"] /\ took = [c \in Shells |-> NoCall]
    /\ record = [c \in Shells |-> "none"]

(* releaseUnstartedTerminal: a record that was not started goes.             *)
Freed(c) == [record EXCEPT ![c] = IF @ = "reserved" THEN "released" ELSE @]

-----------------------------------------------------------------------------
(* registerCursorShellCall: the oldest call is evicted over the limit.       *)

(* manageBackgroundShell: a call for the background reserves its record.     *)
Reserves(c) == IF c \in Background THEN "reserved" ELSE "none"

(* Mutant of Evicted: an evicted call keeps its record. *)
Evicted_Kept(c, kept) == [record EXCEPT ![c] = Reserves(c)]

Evicted(c, kept) ==
    [x \in Shells |-> IF x = c THEN Reserves(c)
                     ELSE IF x \in Range(policies) \ Range(kept) /\ record[x] = "reserved" THEN "released"
                     ELSE record[x]]

Registers(c) ==
    /\ stage[c] = "new"
    /\ stage' = [stage EXCEPT ![c] = "sent"]
    /\ LET all == Append(policies, c)
           kept == IF Len(all) > MaxTracked THEN Tail(all) ELSE all
       IN policies' = kept /\ record' = Evicted(c, kept)
    /\ UNCHANGED <<pendingWrap, lanes, armed, asked, carries, took>>

(* prepareCursorShellArgs: a registered call for the background wants a wrap. *)
Prepared(c) == pendingWrap \cup ({c} \cap Range(policies) \cap Background)

(* execute.before: the call's wrap is pending, and it takes the lane of its   *)
(* command, or waits there.                                                  *)
Arms(c) ==
    /\ stage[c] = "sent"
    /\ pendingWrap' = Prepared(c)
    /\ armed' = armed \cup {c}
    /\ IF lanes[carries[c]].lockedBy = NoCall
       THEN /\ lanes' = [lanes EXCEPT ![carries[c]].lockedBy = c]
            /\ stage' = [stage EXCEPT ![c] = "going"]
       ELSE /\ lanes' = [lanes EXCEPT ![carries[c]].waiters = Append(@, c)]
            /\ stage' = [stage EXCEPT ![c] = "waiting"]
    /\ UNCHANGED <<policies, asked, carries, took, record>>

(* Another plugin's execute.before hook rewrites the command, before or      *)
(* after ours.                                                              *)
Rewrites(c, k) ==
    /\ stage[c] \in {"sent", "going"} /\ carries[c] = asked[c] /\ k # asked[c]
    /\ carries' = [carries EXCEPT ![c] = k]
    /\ UNCHANGED <<policies, pendingWrap, lanes, armed, asked, stage, took, record>>

(* disarmCursorShellCreate: each call of S leaves its lane, and hands one it  *)
(* holds to the first that waits there.                                      *)
WithoutCalls(S) ==
    [k \in Commands |->
        LET left == SelectSeq(lanes[k].waiters, LAMBDA x : x \notin S)
        IN IF lanes[k].lockedBy \notin S THEN [lanes[k] EXCEPT !.waiters = left]
           ELSE IF left = <<>> THEN [lockedBy |-> NoCall, waiters |-> <<>>]
           ELSE [lockedBy |-> Head(left), waiters |-> Tail(left)]]

Holds(x, l) == \E k \in Commands : l[k].lockedBy = x

(* Mutant of Handed: the next call in the lane is not told. *)
Handed_Not(st) == st

Handed(st) ==
    [x \in Shells |-> IF st[x] = "waiting" /\ Holds(x, lanes') THEN "going" ELSE st[x]]

Leaves(c, st) ==
    /\ armed' = armed \ {c}
    /\ lanes' = WithoutCalls({c})
    /\ stage' = Handed([stage EXCEPT ![c] = st])

-----------------------------------------------------------------------------
(* create.before, by the command alone: the one lane holder that carries it  *)
(* owns the create. Holders that carry one command cannot be told apart.     *)
Owners(k) == {x \in armed : carries[x] = k /\ Holds(x, lanes)}

(* Mutant of MayTake: any pending wrap of the command will do. *)
MayTake_Any(x, owners) == TRUE

MayTake(x, owners) == IF owners = {} THEN x \notin armed ELSE x \in owners

Wraps(k, owners) ==
    {x \in Range(policies) \cap pendingWrap : asked[x] = k /\ MayTake(x, owners)}

CreatesShared(c) ==
    /\ stage[c] = "going" /\ Cardinality(Owners(carries[c])) > 1
    /\ stage' = [stage EXCEPT ![c] = "created"]
    /\ UNCHANGED <<policies, pendingWrap, lanes, armed, asked, carries, took, record>>

Creates(c) ==
    /\ stage[c] = "going"
    /\ \E owner \in Owners(carries[c]) :
        /\ Owners(carries[c]) = {owner}
        /\ armed' = armed \ {owner} /\ lanes' = WithoutCalls({owner})
        /\ stage' = Handed([stage EXCEPT ![c] = "created"])
        /\ pendingWrap' = pendingWrap \ ({owner} \cup (IF owner \in pendingWrap THEN Wraps(carries[c], {owner}) ELSE {}))
        /\ IF owner \in pendingWrap /\ Wraps(carries[c], {owner}) # {}
           THEN \E x \in Wraps(carries[c], {owner}) :
                    /\ took' = [took EXCEPT ![c] = x]
                    /\ record' = record
           ELSE UNCHANGED <<took, record>>
    /\ UNCHANGED <<policies, asked, carries>>

(* The host runs what it created, after its permission was given: a wrapped  *)
(* call starts its terminal.                                                *)
TerminalStarts(c) ==
    /\ stage[c] = "created" /\ took[c] # NoCall /\ record[took[c]] = "reserved"
    /\ record' = [record EXCEPT ![took[c]] = "started"]
    /\ UNCHANGED <<policies, pendingWrap, lanes, armed, asked, carries, stage, took>>

(* The host asked for permission of the calls it created; a rejection of one  *)
(* rejects all the session's pending ones, and each is released.             *)
Rejected(S) ==
    /\ S # {} /\ \A c \in S : stage[c] = "created" /\ record[c] # "started"
    /\ armed' = armed \ S /\ lanes' = WithoutCalls(S) /\ stage' = Handed(stage)
    /\ pendingWrap' = pendingWrap \ S
    /\ record' = [c \in Shells |-> IF c \in S \cap Range(policies) THEN Freed(c)[c] ELSE record[c]]
    /\ UNCHANGED <<policies, asked, carries, took>>

(* execute.after: the call is over with its result or its failure, or it is  *)
(* stopped at any time before; releaseCursorShellEnv.                        *)
Ends(c) ==
    /\ stage[c] \in {"sent", "waiting", "going", "created"}
    /\ Leaves(c, "over")
    /\ pendingWrap' = pendingWrap \ {c}
    /\ record' = IF c \in Range(policies) THEN Freed(c) ELSE record
    /\ UNCHANGED <<policies, asked, carries, took>>

(* consumeCursorShellResult forgets the call.                                *)
Consumed(c) ==
    /\ stage[c] = "over"
    /\ \E i \in DOMAIN policies : policies[i] = c /\ policies' = RemoveAt(policies, i)
    /\ record' = Freed(c)
    /\ UNCHANGED <<pendingWrap, lanes, armed, asked, carries, stage, took>>

ShellsNext ==
  \/ \E S \in SUBSET Shells : Rejected(S)
  \/ \E c \in Shells :
    \/ Registers(c) \/ Arms(c) \/ \E k \in Commands : Rewrites(c, k)
    \/ CreatesShared(c) \/ Creates(c) \/ TerminalStarts(c) \/ Ends(c) \/ Consumed(c)

(* The host brings a call that may go on to its end; one that waits for its  *)
(* turn it does not.                                                        *)
ShellsFairness == \A c \in Shells : WF_shellsVars(stage[c] \in {"going", "created"} /\ Ends(c))

ShellsSpec == ShellsInit /\ [][ShellsNext]_shellsVars /\ ShellsFairness

-----------------------------------------------------------------------------
(* A create takes only the wrap of its own call, whatever other calls carry  *)
(* the same command, wait for it or were rewritten to it.                    *)
WrapGoesToItsCall == \A c \in Shells : took[c] \in {c, NoCall}

(* A reserved record always has a registered call that will start or release *)
(* it.                                                                      *)
RecordsAccountedFor == \A c \in Shells : record[c] = "reserved" => c \in Range(policies)

(* No call takes, or holds for ever, what another needs.                    *)
CallsKeptApart == WrapGoesToItsCall /\ RecordsAccountedFor

(* A call that waits for its turn gets it, or is ended: in the end no call   *)
(* waits, for each is made once.                                            *)
TurnsCome == []<>(\A c \in Shells : stage[c] # "waiting")
=============================================================================
