---------------------------- MODULE Http2Sessions ----------------------------
(***************************************************************************)
(* The HTTP/2 sessions Runs share (getSession and its helpers in            *)
(* src/src/transport/connect.ts): one origin, its cached session, the one   *)
(* promise that checks it or connects another, and the Run streams on it.   *)
(* A session keeps the process alive ("referenced") only while a stream or  *)
(* a check holds it.                                                       *)
(***************************************************************************)
EXTENDS Naturals, FiniteSets

CONSTANTS Runs, Sessions, NoSession

ASSUME SessionsAssumption == IsFiniteSet(Runs) /\ Sessions # {} /\ NoSession \notin Sessions

VARIABLES
    offered,    \* _http2Sessions: the session new Runs get, or NoSession
    conn,       \* session -> "unused", "tunnel", "dialing", "open", "closing", "gone"
    old,        \* sessions past HTTP2_SESSION_MAX_AGE_MS
    holds,      \* _http2SessionHolds
    referenced, \* sessions that keep the process alive
    work,       \* the promise of _http2Connecting: "none", "checking", "connecting"
    subject,    \* the session it checks or connects
    run,        \* Run -> "idle", "asking", "given", "streaming", "over", "failed"
    on,         \* Run -> the session it was given
    lost,       \* sessions that were withdrawn (history)
    barred      \* Run -> the sessions withdrawn before it asked (history)

vars == <<offered, conn, old, holds, referenced, work, subject, run, on, lost, barred>>

(* An earlier Run, over by now, may have left its session in the cache.      *)
Earlier == CHOOSE s \in Sessions : TRUE

Init ==
    /\ offered \in {NoSession, Earlier} /\ work = "none" /\ subject = NoSession
    /\ conn = [s \in Sessions |-> IF s = offered THEN "open" ELSE "unused"]
    /\ holds = [s \in Sessions |-> 0]
    /\ old = {} /\ referenced = {} /\ lost = {}
    /\ run = [r \in Runs |-> "idle"] /\ on = [r \in Runs |-> NoSession]
    /\ barred = [r \in Runs |-> {}]

StreamsOn(s) == {r \in Runs : run[r] = "streaming" /\ on[r] = s}
Dropped(s) == IF offered = s THEN NoSession ELSE offered

(* Mutant of Closed: a retired session is destroyed. *)
Closed_Destroyed(s) == "gone"

Closed(s) == IF conn[s] = "gone" THEN "gone" ELSE "closing"

Hold(s) ==
    /\ holds' = [holds EXCEPT ![s] = @ + 1]
    /\ referenced' = IF holds[s] = 0 THEN referenced \cup {s} ELSE referenced

(* Mutant of Release: the last hold leaves the session referenced. *)
Release_Kept(s) ==
    /\ holds' = [holds EXCEPT ![s] = IF @ > 0 THEN @ - 1 ELSE 0]
    /\ UNCHANGED referenced

Release(s) ==
    /\ holds' = [holds EXCEPT ![s] = IF @ > 0 THEN @ - 1 ELSE 0]
    /\ referenced' = IF holds[s] > 1 \/ conn'[s] = "gone" THEN referenced ELSE referenced \ {s}

-----------------------------------------------------------------------------
(* connectSession: a fresh session, through a proxy's tunnel or directly.    *)
Connect(s, from) ==
    /\ conn[s] = "unused"
    /\ \E how \in {"tunnel", "dialing"} : conn' = [from EXCEPT ![s] = how]
    /\ work' = "connecting" /\ subject' = s

(* The promise settles: every Run that waits for it gets the session.        *)
Settle(s) ==
    /\ work' = "none" /\ subject' = NoSession
    /\ run' = [r \in Runs |-> IF run[r] # "asking" THEN run[r] ELSE IF s = NoSession THEN "failed" ELSE "given"]
    /\ on' = [r \in Runs |-> IF run[r] = "asking" THEN s ELSE on[r]]

Reusable(s) == conn[s] = "open" /\ s \notin old

(* A Run asks for a session (getSession): it joins the work under way, or    *)
(* starts it.                                                              *)
Asks(r) ==
    /\ run[r] = "idle"
    /\ run' = [run EXCEPT ![r] = "asking"]
    /\ barred' = [barred EXCEPT ![r] = lost]
    /\ UNCHANGED <<old, on>>

Joins(r) ==
    /\ work # "none" /\ Asks(r)
    /\ UNCHANGED <<offered, conn, holds, referenced, work, subject, lost>>

StartsConnect(r) ==
    /\ work = "none" /\ offered = NoSession /\ Asks(r)
    /\ \E new \in Sessions : Connect(new, conn)
    /\ UNCHANGED <<offered, holds, referenced, lost>>

Rotates(r) ==
    /\ work = "none" /\ offered # NoSession /\ ~Reusable(offered) /\ Asks(r)
    /\ \E new \in Sessions : Connect(new, [conn EXCEPT ![offered] = Closed(offered)])
    /\ lost' = lost \cup {offered} /\ offered' = NoSession
    /\ UNCHANGED <<holds, referenced>>

StartsCheck(r) ==
    /\ work = "none" /\ offered # NoSession /\ Reusable(offered) /\ Asks(r)
    /\ work' = "checking" /\ subject' = offered
    /\ Hold(offered)
    /\ UNCHANGED <<offered, conn, lost>>

-----------------------------------------------------------------------------
(* The ping is answered: the session is reused unless it was withdrawn       *)
(* meanwhile.                                                              *)

(* Mutant of StillGood: the answer alone decides. *)
StillGood_Answered(s) == TRUE

StillGood(s) == offered = s /\ conn[s] = "open"

PingAnswered ==
    /\ work = "checking" /\ conn[subject] # "gone"
    /\ IF StillGood(subject)
       THEN Settle(subject) /\ UNCHANGED conn
       ELSE (\E new \in Sessions : Connect(new, conn)) /\ UNCHANGED <<run, on>>
    /\ Release(subject)
    /\ UNCHANGED <<offered, old, lost, barred>>

(* The check of session s fails while its connection becomes c: it is        *)
(* retired, and another session is connected.                               *)
CheckFails(s, c) ==
    /\ work = "checking" /\ subject = s
    /\ \E new \in Sessions : Connect(new, [conn EXCEPT ![s] = c])
    /\ Release(s)
    /\ offered' = Dropped(s) /\ lost' = lost \cup {s}
    /\ UNCHANGED <<old, run, on, barred>>

(* Mutant of PingFails: the ping has no timeout. *)
PingFails_Never == FALSE /\ UNCHANGED vars

PingFails == work = "checking" /\ CheckFails(subject, Closed(subject))

(* s is withdrawn by an event while no check looks at it.                    *)
Withdrawn(s, c) ==
    /\ ~(work = "checking" /\ subject = s)
    /\ conn' = [conn EXCEPT ![s] = c]
    /\ offered' = Dropped(s) /\ lost' = lost \cup {s}
    /\ UNCHANGED <<old, holds, referenced, work, subject, run, on, barred>>

(* GOAWAY: the streams drain, new Runs go elsewhere.                         *)
GoesAway(s) ==
    /\ conn[s] = "open"
    /\ Withdrawn(s, "closing") \/ CheckFails(s, "closing")

(* The socket ends: only onSocketEnd hears it; the session dies later.       *)
SocketEnds(s) ==
    /\ conn[s] = "open" /\ s \notin lost
    /\ offered' = Dropped(s) /\ lost' = lost \cup {s}
    /\ UNCHANGED <<conn, old, holds, referenced, work, subject, run, on, barred>>

(* The session errs or its connection is cut; its streams close after it.    *)
Dies(s) ==
    /\ conn[s] \in {"open", "closing"}
    /\ Withdrawn(s, "gone") \/ CheckFails(s, "gone")

(* A closing session with no stream left is closed.                          *)
Drained(s) ==
    /\ conn[s] = "closing" /\ StreamsOn(s) = {}
    /\ Withdrawn(s, "gone") \/ CheckFails(s, "gone")

Ages(s) ==
    /\ conn[s] = "open" /\ s \notin old
    /\ old' = old \cup {s}
    /\ UNCHANGED <<offered, conn, holds, referenced, work, subject, run, on, lost, barred>>

-----------------------------------------------------------------------------
(* openProxiedTlsSocket is done: the session is made on its socket.          *)
TunnelOpens ==
    /\ work = "connecting" /\ conn[subject] = "tunnel"
    /\ conn' = [conn EXCEPT ![subject] = "dialing"]
    /\ UNCHANGED <<offered, old, holds, referenced, work, subject, run, on, lost, barred>>

Connected ==
    /\ work = "connecting" /\ conn[subject] = "dialing"
    /\ conn' = [conn EXCEPT ![subject] = "open"]
    /\ offered' = subject
    /\ Settle(subject)
    /\ UNCHANGED <<old, holds, referenced, lost, barred>>

(* An error, an early close, a refused tunnel or CONNECT_TIMEOUT_MS.         *)
ConnectFails ==
    /\ work = "connecting"
    /\ conn' = [conn EXCEPT ![subject] = "gone"]
    /\ offered' = Dropped(subject)
    /\ lost' = lost \cup {subject}
    /\ Settle(NoSession)
    /\ UNCHANGED <<old, holds, referenced, barred>>

-----------------------------------------------------------------------------
(* bidiRunStream goes on once it has the client version too; a request on a  *)
(* session that is no longer open throws.                                   *)
OpensStream(r) ==
    /\ run[r] = "given"
    /\ IF conn[on[r]] = "open"
       THEN run' = [run EXCEPT ![r] = "streaming"] /\ Hold(on[r])
       ELSE run' = [run EXCEPT ![r] = "failed"] /\ UNCHANGED <<holds, referenced>>
    /\ UNCHANGED <<offered, conn, old, work, subject, on, lost, barred>>

(* The stream closes, after a close of ours or not.                          *)
ClosesLocally(r) ==
    /\ run[r] = "streaming" /\ conn[on[r]] # "gone"
    /\ run' = [run EXCEPT ![r] = "over"]
    /\ UNCHANGED conn
    /\ Release(on[r])
    /\ UNCHANGED <<offered, old, work, subject, on, lost, barred>>

ClosesRemotely(r) ==
    /\ run[r] = "streaming"
    /\ run' = [run EXCEPT ![r] = "over"]
    /\ conn' = [conn EXCEPT ![on[r]] = Closed(on[r])]
    /\ offered' = Dropped(on[r]) /\ lost' = lost \cup {on[r]}
    /\ Release(on[r])
    /\ UNCHANGED <<old, work, subject, on, barred>>

Next ==
    \/ \E r \in Runs :
        \/ Joins(r) \/ StartsConnect(r) \/ Rotates(r) \/ StartsCheck(r)
        \/ OpensStream(r) \/ ClosesLocally(r) \/ ClosesRemotely(r)
    \/ \E s \in Sessions : GoesAway(s) \/ SocketEnds(s) \/ Dies(s) \/ Drained(s) \/ Ages(s)
    \/ PingAnswered \/ PingFails \/ TunnelOpens \/ Connected \/ ConnectFails

(* The timers of the ping and of the connect end what nothing else does.     *)
Fairness == WF_vars(PingFails) /\ WF_vars(ConnectFails)

Spec == Init /\ [][Next]_vars /\ Fairness

-----------------------------------------------------------------------------
(* A session keeps the process alive exactly while a Run stream or a check   *)
(* of it is under way, whichever way each of them ends.                     *)
HeldWhileUsed ==
    \A s \in Sessions : conn[s] \in {"open", "closing"} =>
        /\ holds[s] = Cardinality(StreamsOn(s)) + (IF work = "checking" /\ subject = s THEN 1 ELSE 0)
        /\ s \in referenced <=> holds[s] > 0

(* A Run never gets a session that was withdrawn before it asked, even when  *)
(* it joins a check begun before that.                                      *)
NoRunOnLostSession == \A r \in Runs : run[r] \in {"given", "streaming"} => on[r] \notin barred[r]

(* Withdrawing a session never ends the streams of the Runs on it: it goes   *)
(* while a Run streams only when the connection itself dies.                *)
SiblingsKeepStreaming ==
    [][\A s \in Sessions :
        (conn[s] \in {"open", "closing"} /\ conn'[s] = "gone" /\ StreamsOn(s) # {}) =>
            Dies(s)]_vars

(* A session keeps the process alive while it is used, no Run gets one that  *)
(* was withdrawn, and withdrawing it spares the Runs on it.                  *)
SessionsShared ==
    /\ [](HeldWhileUsed /\ NoRunOnLostSession)
    /\ SiblingsKeepStreaming

(* Every Run that asks for a session gets one or an error.                   *)
RunsAnswered == \A r \in Runs : run[r] = "asking" ~> run[r] # "asking"
=============================================================================
