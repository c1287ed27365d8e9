------------------------ MODULE Http2SessionsProofs ------------------------
(***************************************************************************)
(* Runs share sessions safely, whatever Runs and sessions there are: a     *)
(* session keeps the process alive while it is used, no Run gets one that  *)
(* was withdrawn, and withdrawing one ends no stream.                      *)
(***************************************************************************)
EXTENDS Http2Sessions, FiniteSetTheorems, TLAPS

\* A session that was connected once.
Established == {"open", "closing", "gone"}

TypeOK ==
    /\ offered \in Sessions \cup {NoSession} /\ subject \in Sessions \cup {NoSession}
    /\ conn \in [Sessions -> {"unused", "tunnel", "dialing"} \cup Established]
    /\ old \in SUBSET Sessions /\ referenced \in SUBSET Sessions /\ lost \in SUBSET Sessions
    /\ holds \in [Sessions -> Nat]
    /\ work \in {"none", "checking", "connecting"}
    /\ run \in [Runs -> {"idle", "asking", "given", "streaming", "over", "failed"}]
    /\ on \in [Runs -> Sessions \cup {NoSession}]
    /\ barred \in [Runs -> SUBSET Sessions]

\* The work under way is on a session that is there for it.
WorkHasSubject ==
    /\ work = "checking" => subject \in Sessions /\ conn[subject] \in Established
    /\ work = "connecting" => subject \in Sessions /\ conn[subject] \in {"tunnel", "dialing"}

\* Whoever has a session, and whatever withdrew one, had it connected.
OnceConnected ==
    /\ offered # NoSession => conn[offered] \in Established
    /\ \A s \in lost : conn[s] \in Established
    /\ \A r \in Runs : run[r] \in {"given", "streaming"} => on[r] \in Sessions /\ conn[on[r]] \in Established

\* What is offered was not withdrawn, and a Run is barred from nothing else.
OfferedIsGood == offered \notin lost /\ \A r \in Runs : barred[r] \subseteq lost

Looked(s) == IF work = "checking" /\ subject = s THEN 1 ELSE 0

\* Every stream and every check holds its session once, also one that is gone.
HoldsCounted == \A s \in Sessions : holds[s] = Cardinality(StreamsOn(s)) + Looked(s)

ReferencedWhileHeld == \A s \in Sessions : conn[s] # "gone" => (s \in referenced <=> holds[s] > 0)

PoolInv ==
    /\ TypeOK /\ WorkHasSubject /\ OnceConnected
    /\ OfferedIsGood /\ NoRunOnLostSession
    /\ HoldsCounted /\ ReferencedWhileHeld

-----------------------------------------------------------------------------
(* Sessions and the Runs that have them. *)

\* There are finitely many streams on a session.
LEMMA StreamsFinite ==
    \A s \in Sessions : IsFiniteSet(StreamsOn(s)) /\ Cardinality(StreamsOn(s)) \in Nat
<1> TAKE s \in Sessions
<1>1. StreamsOn(s) \subseteq Runs
  BY DEF StreamsOn
<1>2. IsFiniteSet(StreamsOn(s))
  BY <1>1, SessionsAssumption, FS_Subset
<1> QED BY <1>2, FS_CardinalityType


\* The invariant but for the counts.
PoolBasis == TypeOK /\ WorkHasSubject /\ OnceConnected /\ OfferedIsGood /\ NoRunOnLostSession

\* Every step connects fresh sessions only, and hands out what was not
\* withdrawn since it was asked for.
LEMMA PoolBasisNext == PoolBasis /\ [Next]_vars => PoolBasis'
<1> SUFFICES ASSUME PoolBasis, [Next]_vars
             PROVE  PoolBasis'
  OBVIOUS
<1> USE SessionsAssumption DEF PoolBasis, OnceConnected, OfferedIsGood, NoRunOnLostSession, TypeOK, WorkHasSubject, Established
<1>1. ASSUME NEW r \in Runs, Joins(r)
      PROVE  PoolBasis'
  BY <1>1 DEF Joins, Asks
<1>2. ASSUME NEW r \in Runs, StartsConnect(r)
      PROVE  PoolBasis'
  BY <1>2 DEF StartsConnect, Asks, Connect
<1>3. ASSUME NEW r \in Runs, Rotates(r)
      PROVE  PoolBasis'
  BY <1>3 DEF Rotates, Asks, Connect, Closed, Reusable
<1>4. ASSUME NEW r \in Runs, StartsCheck(r)
      PROVE  PoolBasis'
  BY <1>4 DEF StartsCheck, Asks, Hold, Reusable
<1>5. ASSUME NEW r \in Runs, OpensStream(r)
      PROVE  PoolBasis'
  BY <1>5 DEF OpensStream, Hold
<1>6. ASSUME NEW r \in Runs, ClosesLocally(r)
      PROVE  PoolBasis'
  BY <1>6 DEF ClosesLocally, Release
<1>7. ASSUME NEW r \in Runs, ClosesRemotely(r)
      PROVE  PoolBasis'
  BY <1>7 DEF ClosesRemotely, Release, Closed, Dropped
<1>8. ASSUME NEW s \in Sessions, GoesAway(s)
      PROVE  PoolBasis'
  BY <1>8 DEF GoesAway, Withdrawn, CheckFails, Connect, Release, Dropped
<1>9. ASSUME NEW s \in Sessions, SocketEnds(s)
      PROVE  PoolBasis'
  BY <1>9 DEF SocketEnds, Dropped
<1>10. ASSUME NEW s \in Sessions, Dies(s)
      PROVE  PoolBasis'
  BY <1>10 DEF Dies, Withdrawn, CheckFails, Connect, Release, Dropped
<1>11. ASSUME NEW s \in Sessions, Drained(s)
      PROVE  PoolBasis'
  BY <1>11 DEF Drained, Withdrawn, CheckFails, Connect, Release, Dropped
<1>12. ASSUME NEW s \in Sessions, Ages(s)
      PROVE  PoolBasis'
  BY <1>12 DEF Ages
<1>13. CASE PingAnswered
  BY <1>13 DEF PingAnswered, StillGood, Settle, Connect, Release
<1>14. CASE PingFails
  BY <1>14 DEF PingFails, CheckFails, Closed, Connect, Release, Dropped
<1>15. CASE TunnelOpens
  BY <1>15 DEF TunnelOpens
<1>16. CASE Connected
  BY <1>16 DEF Connected, Settle
<1>17. CASE ConnectFails
  BY <1>17 DEF ConnectFails, Settle, Dropped
<1>18. CASE UNCHANGED vars
  BY <1>18 DEF vars
<1> QED BY <1>1, <1>2, <1>3, <1>4, <1>5, <1>6, <1>7, <1>8, <1>9, <1>10, <1>11, <1>12, <1>13, <1>14, <1>15, <1>16, <1>17, <1>18 DEF Next

-----------------------------------------------------------------------------
(* The counts. *)

\* A step that begins and ends no stream and no check keeps the counts.
LEMMA CountsKept ==
    ASSUME PoolBasis, HoldsCounted, holds' = holds,
           \A s \in Sessions : StreamsOn(s)' = StreamsOn(s) /\ Looked(s)' = Looked(s)
    PROVE  HoldsCounted'
BY DEF HoldsCounted

\* The streams stay when Runs only wait for a session, or get one.
LEMMA SettleKeepsStreams ==
    ASSUME PoolBasis, NEW s, Settle(s)
    PROVE  \A t \in Sessions : StreamsOn(t)' = StreamsOn(t)
<1> SUFFICES ASSUME NEW t \in Sessions
             PROVE  StreamsOn(t)' = StreamsOn(t)
  OBVIOUS
<1>1. \A r \in Runs : run'[r] = "streaming" <=> run[r] = "streaming"
  BY DEF Settle, PoolBasis, TypeOK
<1>2. \A r \in Runs : run[r] = "streaming" => on'[r] = on[r]
  BY DEF Settle, PoolBasis, TypeOK
<1> QED BY <1>1, <1>2 DEF StreamsOn

\* Nor does a Run that asks for a session end or begin a stream.
LEMMA AskKeepsStreams ==
    ASSUME PoolBasis, NEW r \in Runs, Asks(r)
    PROVE  \A t \in Sessions : StreamsOn(t)' = StreamsOn(t)
BY DEF Asks, StreamsOn, PoolBasis, TypeOK

\* The check of a session ends and another session is connected: its hold goes.
LEMMA CheckReleases ==
    ASSUME PoolBasis, HoldsCounted, NEW s \in Sessions, work = "checking", subject = s, Release(s), work' # "checking",
           \A t \in Sessions : StreamsOn(t)' = StreamsOn(t)
    PROVE  HoldsCounted'
<1> SUFFICES ASSUME NEW t \in Sessions
             PROVE  holds'[t] = Cardinality(StreamsOn(t)') + Looked(t)'
  BY DEF HoldsCounted
<1>1. Looked(t)' = 0 /\ StreamsOn(t)' = StreamsOn(t)
  BY DEF Looked
<1>2. Cardinality(StreamsOn(t)) \in Nat
  BY StreamsFinite
<1>3. holds[t] = Cardinality(StreamsOn(t)) + IF t = s THEN 1 ELSE 0
  BY DEF HoldsCounted, Looked
<1>4. holds'[t] = IF t = s THEN holds[t] - 1 ELSE holds[t]
  BY <1>2, <1>3 DEF Release, PoolBasis, TypeOK
<1> QED BY <1>1, <1>2, <1>3, <1>4

\* A stream ends: its hold goes.
LEMMA StreamReleases ==
    ASSUME PoolBasis, HoldsCounted, NEW r \in Runs, run[r] = "streaming",
           run' = [run EXCEPT ![r] = "over"], Release(on[r]), UNCHANGED <<on, work, subject>>
    PROVE  HoldsCounted'
<1> SUFFICES ASSUME NEW t \in Sessions
             PROVE  holds'[t] = Cardinality(StreamsOn(t)') + Looked(t)'
  BY DEF HoldsCounted
<1>1. Looked(t)' = Looked(t) /\ Looked(t) \in Nat
  BY DEF Looked
<1>2. IsFiniteSet(StreamsOn(t)) /\ Cardinality(StreamsOn(t)) \in Nat
  BY StreamsFinite
<1>3. holds[t] = Cardinality(StreamsOn(t)) + Looked(t) /\ on[r] \in Sessions
  BY DEF HoldsCounted, PoolBasis, OnceConnected
<1>4. StreamsOn(t)' = StreamsOn(t) \ {r}
  BY DEF StreamsOn, PoolBasis, TypeOK
<1>5. r \in StreamsOn(t) <=> t = on[r]
  BY DEF StreamsOn
<1>6. Cardinality(StreamsOn(t)') = IF t = on[r] THEN Cardinality(StreamsOn(t)) - 1 ELSE Cardinality(StreamsOn(t))
  BY <1>2, <1>4, <1>5, FS_RemoveElement
<1>7. t = on[r] => Cardinality(StreamsOn(t)) # 0
  BY <1>2, <1>5, FS_EmptySet
<1>8. holds'[t] = IF t = on[r] THEN holds[t] - 1 ELSE holds[t]
  BY <1>1, <1>2, <1>3, <1>7 DEF Release, PoolBasis, TypeOK
<1> QED BY <1>1, <1>2, <1>3, <1>6, <1>8

\* A stream begins: it holds its session.
LEMMA StreamHolds ==
    ASSUME PoolBasis, HoldsCounted, NEW r \in Runs, run[r] = "given",
           run' = [run EXCEPT ![r] = "streaming"], Hold(on[r]), UNCHANGED <<on, work, subject>>
    PROVE  HoldsCounted'
<1> SUFFICES ASSUME NEW t \in Sessions
             PROVE  holds'[t] = Cardinality(StreamsOn(t)') + Looked(t)'
  BY DEF HoldsCounted
<1>1. Looked(t)' = Looked(t) /\ Looked(t) \in Nat
  BY DEF Looked
<1>2. IsFiniteSet(StreamsOn(t)) /\ Cardinality(StreamsOn(t)) \in Nat
  BY StreamsFinite
<1>3. holds[t] = Cardinality(StreamsOn(t)) + Looked(t)
  BY DEF HoldsCounted
<1>4. StreamsOn(t)' = IF t = on[r] THEN StreamsOn(t) \cup {r} ELSE StreamsOn(t)
  <2>1. \A x \in Runs : x # r => run'[x] = run[x]
    BY DEF PoolBasis, TypeOK
  <2>2. run'[r] = "streaming"
    BY DEF PoolBasis, TypeOK
  <2> QED BY <2>1, <2>2 DEF StreamsOn
<1>5. r \notin StreamsOn(t)
  BY DEF StreamsOn
<1>6. Cardinality(StreamsOn(t)') = IF t = on[r] THEN Cardinality(StreamsOn(t)) + 1 ELSE Cardinality(StreamsOn(t))
  BY <1>2, <1>4, <1>5, FS_AddElement
<1>7. holds'[t] = IF t = on[r] THEN holds[t] + 1 ELSE holds[t]
  BY DEF Hold, PoolBasis, TypeOK
<1> QED BY <1>1, <1>2, <1>3, <1>6, <1>7


\* A session is withdrawn while a check looks at another, or at this one.
LEMMA WithdrawnCounts ==
    ASSUME PoolBasis, HoldsCounted, NEW s \in Sessions, NEW c, Withdrawn(s, c) \/ CheckFails(s, c)
    PROVE  HoldsCounted'
<1>1. CASE Withdrawn(s, c)
  BY <1>1, CountsKept DEF Withdrawn, StreamsOn, Looked
<1>2. CASE CheckFails(s, c)
  <2>1. work' # "checking"
    BY <1>2 DEF CheckFails, Connect
  <2>2. \A t \in Sessions : StreamsOn(t)' = StreamsOn(t)
    BY <1>2 DEF CheckFails, StreamsOn
  <2> QED BY <1>2, <2>1, <2>2, CheckReleases DEF CheckFails
<1> QED BY <1>1, <1>2

\* Every step counts the holds it takes and gives back.
LEMMA HoldsNext == PoolBasis /\ HoldsCounted /\ [Next]_vars => HoldsCounted'
<1> SUFFICES ASSUME PoolBasis, HoldsCounted, [Next]_vars
             PROVE  HoldsCounted'
  OBVIOUS
<1>1. ASSUME NEW r \in Runs, Joins(r) \/ StartsConnect(r) \/ Rotates(r)
      PROVE  HoldsCounted'
  <2>1. Asks(r) /\ holds' = holds
    BY <1>1 DEF Joins, StartsConnect, Rotates
  <2>2. \A s \in Sessions : Looked(s)' = Looked(s)
    BY <1>1 DEF Joins, StartsConnect, Rotates, Connect, Looked
  <2> QED BY <2>1, <2>2, AskKeepsStreams, CountsKept
<1>2. ASSUME NEW r \in Runs, StartsCheck(r)
      PROVE  HoldsCounted'
  <2> SUFFICES ASSUME NEW s \in Sessions
               PROVE  holds'[s] = Cardinality(StreamsOn(s)') + Looked(s)'
    BY DEF HoldsCounted
  <2>1. StreamsOn(s)' = StreamsOn(s) /\ Cardinality(StreamsOn(s)) \in Nat
    BY <1>2, AskKeepsStreams, StreamsFinite DEF StartsCheck
  <2>2. holds[s] = Cardinality(StreamsOn(s))
    BY <1>2, <2>1 DEF HoldsCounted, StartsCheck, Looked
  <2>3. Looked(s)' = IF s = offered THEN 1 ELSE 0
    BY <1>2 DEF StartsCheck, Looked
  <2>4. holds'[s] = IF s = offered THEN holds[s] + 1 ELSE holds[s]
    BY <1>2 DEF StartsCheck, Hold, PoolBasis, TypeOK
  <2> QED BY <2>1, <2>2, <2>3, <2>4
<1>3. ASSUME NEW r \in Runs, OpensStream(r)
      PROVE  HoldsCounted'
  <2>1. CASE conn[on[r]] = "open"
    BY <1>3, <2>1, StreamHolds DEF OpensStream
  <2>2. CASE conn[on[r]] # "open"
    <3>1. \A t \in Sessions : StreamsOn(t)' = StreamsOn(t)
      BY <1>3, <2>2 DEF OpensStream, StreamsOn, PoolBasis, TypeOK
    <3> QED BY <1>3, <2>2, <3>1, CountsKept DEF OpensStream, Looked
  <2> QED BY <2>1, <2>2
<1>4. ASSUME NEW r \in Runs, ClosesLocally(r) \/ ClosesRemotely(r)
      PROVE  HoldsCounted'
  BY <1>4, StreamReleases DEF ClosesLocally, ClosesRemotely
<1>5. ASSUME NEW s \in Sessions, GoesAway(s) \/ Dies(s) \/ Drained(s)
      PROVE  HoldsCounted'
  BY <1>5, WithdrawnCounts DEF GoesAway, Dies, Drained
<1>6. ASSUME NEW s \in Sessions, SocketEnds(s) \/ Ages(s)
      PROVE  HoldsCounted'
  BY <1>6, CountsKept DEF SocketEnds, Ages, StreamsOn, Looked
<1>7. CASE PingAnswered
  <2>1. subject \in Sessions /\ Release(subject)
    BY <1>7 DEF PingAnswered, PoolBasis, WorkHasSubject
  <2>2. work' # "checking"
    BY <1>7 DEF PingAnswered, Settle, Connect
  <2>3. \A t \in Sessions : StreamsOn(t)' = StreamsOn(t)
    BY <1>7, SettleKeepsStreams DEF PingAnswered, StreamsOn
  <2> QED BY <1>7, <2>1, <2>2, <2>3, CheckReleases DEF PingAnswered
<1>8. CASE PingFails
  BY <1>8, WithdrawnCounts DEF PingFails, PoolBasis, WorkHasSubject
<1>9. CASE TunnelOpens
  BY <1>9, CountsKept DEF TunnelOpens, StreamsOn, Looked
<1>10. CASE Connected \/ ConnectFails
  <2>1. holds' = holds /\ \A s \in Sessions : Looked(s)' = Looked(s)
    BY <1>10 DEF Connected, ConnectFails, Settle, Looked
  <2>2. \A t \in Sessions : StreamsOn(t)' = StreamsOn(t)
    BY <1>10, SettleKeepsStreams DEF Connected, ConnectFails
  <2> QED BY <2>1, <2>2, CountsKept
<1>11. CASE UNCHANGED vars
  BY <1>11, CountsKept DEF vars, StreamsOn, Looked
<1> QED BY <1>1, <1>2, <1>3, <1>4, <1>5, <1>6, <1>7, <1>8, <1>9, <1>10, <1>11 DEF Next

-----------------------------------------------------------------------------
(* What keeps the process alive. *)

\* A session that is gone stays gone.
LEMMA GoneStays == PoolBasis /\ [Next]_vars => \A s \in Sessions : conn[s] = "gone" => conn'[s] = "gone"
<1> SUFFICES ASSUME PoolBasis, [Next]_vars, NEW s \in Sessions, conn[s] = "gone"
             PROVE  conn'[s] = "gone"
  OBVIOUS
<1>1. ASSUME NEW r \in Runs, Joins(r)
      PROVE  conn'[s] = "gone"
  BY <1>1 DEF Joins, Asks, PoolBasis, TypeOK
<1>2. ASSUME NEW r \in Runs, StartsConnect(r)
      PROVE  conn'[s] = "gone"
  BY <1>2 DEF StartsConnect, Connect, PoolBasis, TypeOK
<1>3. ASSUME NEW r \in Runs, Rotates(r)
      PROVE  conn'[s] = "gone"
  BY <1>3 DEF Rotates, Connect, Closed, PoolBasis, TypeOK
<1>4. ASSUME NEW r \in Runs, StartsCheck(r)
      PROVE  conn'[s] = "gone"
  BY <1>4 DEF StartsCheck, PoolBasis, TypeOK
<1>5. ASSUME NEW r \in Runs, OpensStream(r)
      PROVE  conn'[s] = "gone"
  BY <1>5 DEF OpensStream, PoolBasis, TypeOK
<1>6. ASSUME NEW r \in Runs, ClosesLocally(r)
      PROVE  conn'[s] = "gone"
  BY <1>6 DEF ClosesLocally, PoolBasis, TypeOK
<1>7. ASSUME NEW r \in Runs, ClosesRemotely(r)
      PROVE  conn'[s] = "gone"
  BY <1>7 DEF ClosesRemotely, Closed, PoolBasis, TypeOK
<1>8. ASSUME NEW t \in Sessions, GoesAway(t)
      PROVE  conn'[s] = "gone"
  BY <1>8 DEF GoesAway, Withdrawn, CheckFails, Connect, PoolBasis, TypeOK
<1>9. ASSUME NEW t \in Sessions, SocketEnds(t) \/ Ages(t)
      PROVE  conn'[s] = "gone"
  BY <1>9 DEF SocketEnds, Ages, PoolBasis, TypeOK
<1>10. ASSUME NEW t \in Sessions, Dies(t)
      PROVE  conn'[s] = "gone"
  BY <1>10 DEF Dies, Withdrawn, CheckFails, Connect, PoolBasis, TypeOK
<1>11. ASSUME NEW t \in Sessions, Drained(t)
      PROVE  conn'[s] = "gone"
  BY <1>11 DEF Drained, Withdrawn, CheckFails, Connect, PoolBasis, TypeOK
<1>12. CASE PingAnswered
  BY <1>12 DEF PingAnswered, Connect, PoolBasis, TypeOK
<1>13. CASE PingFails
  BY <1>13 DEF PingFails, CheckFails, Closed, Connect, PoolBasis, TypeOK
<1>14. CASE TunnelOpens \/ Connected \/ ConnectFails
  BY <1>14 DEF TunnelOpens, Connected, ConnectFails, WorkHasSubject, PoolBasis, TypeOK
<1>15. CASE UNCHANGED vars
  BY <1>15 DEF vars
<1> QED BY <1>1, <1>2, <1>3, <1>4, <1>5, <1>6, <1>7, <1>8, <1>9, <1>10, <1>11, <1>12, <1>13, <1>14, <1>15 DEF Next

\* A hold keeps the session referenced, the last release does not.
LEMMA HoldReferences ==
    ASSUME PoolBasis, ReferencedWhileHeld, NEW s \in Sessions, Hold(s) \/ Release(s) \/ UNCHANGED <<holds, referenced>>,
           \A t \in Sessions : conn[t] = "gone" => conn'[t] = "gone"
    PROVE  ReferencedWhileHeld'
<1> SUFFICES ASSUME NEW t \in Sessions, conn'[t] # "gone"
             PROVE  t \in referenced' <=> holds'[t] > 0
  BY DEF ReferencedWhileHeld
<1>1. holds \in [Sessions -> Nat] /\ (t \in referenced <=> holds[t] > 0)
  BY DEF ReferencedWhileHeld, PoolBasis, TypeOK
<1>2. CASE Hold(s)
  BY <1>1, <1>2 DEF Hold
<1>3. CASE Release(s)
  BY <1>1, <1>3 DEF Release
<1> QED BY <1>1, <1>2, <1>3

\* Every step takes or gives back at most one hold.
LEMMA ReferencedNext == PoolBasis /\ ReferencedWhileHeld /\ [Next]_vars => ReferencedWhileHeld'
<1> SUFFICES ASSUME PoolBasis, ReferencedWhileHeld, [Next]_vars
             PROVE  ReferencedWhileHeld'
  OBVIOUS
<1>1. PICK s \in Sessions : Hold(s) \/ Release(s) \/ UNCHANGED <<holds, referenced>>
  <2> DEFINE Kept == \E s \in Sessions : Hold(s) \/ Release(s) \/ UNCHANGED <<holds, referenced>>
  <2>1. UNCHANGED <<holds, referenced>> => Kept
    BY SessionsAssumption
  <2>2. ASSUME NEW r \in Runs, Joins(r) \/ StartsConnect(r) \/ Rotates(r)
        PROVE  Kept
    BY <2>1, <2>2 DEF Joins, StartsConnect, Rotates
  <2>3. ASSUME NEW r \in Runs, StartsCheck(r)
        PROVE  Kept
    BY <2>3 DEF StartsCheck, PoolBasis, TypeOK
  <2>4. ASSUME NEW r \in Runs, OpensStream(r) \/ ClosesLocally(r) \/ ClosesRemotely(r)
        PROVE  Kept
    BY <2>1, <2>4 DEF OpensStream, ClosesLocally, ClosesRemotely, PoolBasis, OnceConnected
  <2>5. ASSUME NEW s \in Sessions, GoesAway(s) \/ Dies(s) \/ Drained(s) \/ SocketEnds(s) \/ Ages(s)
        PROVE  Kept
    BY <2>1, <2>5 DEF GoesAway, Dies, Drained, SocketEnds, Ages, Withdrawn, CheckFails
  <2>6. CASE PingAnswered \/ PingFails
    BY <2>6 DEF PingAnswered, PingFails, CheckFails, PoolBasis, WorkHasSubject
  <2>7. CASE TunnelOpens \/ Connected \/ ConnectFails \/ UNCHANGED vars
    BY <2>1, <2>7 DEF TunnelOpens, Connected, ConnectFails, vars
  <2> QED BY <2>2, <2>3, <2>4, <2>5, <2>6, <2>7 DEF Next
<1>2. \A t \in Sessions : conn[t] = "gone" => conn'[t] = "gone"
  BY GoneStays
<1> QED BY <1>1, <1>2, HoldReferences

-----------------------------------------------------------------------------
(* What the sessions promise. *)

\* The first Run may find a session in the cache, which nothing holds.
LEMMA PoolInit == Init => PoolInv
<1> SUFFICES ASSUME Init
             PROVE  PoolInv
  OBVIOUS
<1>1. Earlier \in Sessions
  BY SessionsAssumption DEF Earlier
<1>2. PoolBasis
  BY <1>1, SessionsAssumption
  DEF Init, PoolBasis, TypeOK, WorkHasSubject, OnceConnected, OfferedIsGood, NoRunOnLostSession, Established
<1>3. HoldsCounted
  <2>1. \A s \in Sessions : StreamsOn(s) = {} /\ Looked(s) = 0
    BY DEF Init, StreamsOn, Looked
  <2> QED BY <2>1, FS_EmptySet DEF Init, HoldsCounted
<1>4. ReferencedWhileHeld
  BY DEF Init, ReferencedWhileHeld
<1> QED BY <1>2, <1>3, <1>4 DEF PoolInv, PoolBasis

\* Every step keeps the invariant.
LEMMA PoolNext == PoolInv /\ [Next]_vars => PoolInv'
BY PoolBasisNext, HoldsNext, ReferencedNext DEF PoolInv, PoolBasis

\* What the invariant says of the sessions in use.
LEMMA PoolHolds == PoolInv => HeldWhileUsed /\ NoRunOnLostSession
<1> SUFFICES ASSUME PoolInv
             PROVE  HeldWhileUsed
  BY DEF PoolInv
<1> QED BY DEF PoolInv, HeldWhileUsed, HoldsCounted, ReferencedWhileHeld, Looked

\* A session leaves while streams are on it only when its connection dies:
\* what retires it otherwise lets it drain.
LEMMA SiblingsSpared ==
    PoolInv /\ [Next]_vars =>
        [\A s \in Sessions : (conn[s] \in {"open", "closing"} /\ conn'[s] = "gone" /\ StreamsOn(s) # {}) => Dies(s)]_vars
<1> SUFFICES ASSUME PoolBasis, Next, NEW s \in Sessions,
                    conn[s] \in {"open", "closing"}, conn'[s] = "gone", StreamsOn(s) # {}
             PROVE  Dies(s)
  BY DEF PoolInv, PoolBasis
<1> USE DEF PoolBasis, TypeOK
<1>1. ASSUME NEW r \in Runs, Joins(r)
      PROVE  Dies(s)
  BY <1>1 DEF Joins
<1>2. ASSUME NEW r \in Runs, StartsConnect(r)
      PROVE  Dies(s)
  BY <1>2 DEF StartsConnect, Connect
<1>3. ASSUME NEW r \in Runs, Rotates(r)
      PROVE  Dies(s)
  BY <1>3 DEF Rotates, Connect, Closed
<1>4. ASSUME NEW r \in Runs, StartsCheck(r) \/ OpensStream(r) \/ ClosesLocally(r)
      PROVE  Dies(s)
  BY <1>4 DEF StartsCheck, OpensStream, ClosesLocally
<1>5. ASSUME NEW r \in Runs, ClosesRemotely(r)
      PROVE  Dies(s)
  BY <1>5 DEF ClosesRemotely, Closed
<1>6. ASSUME NEW t \in Sessions, GoesAway(t)
      PROVE  Dies(s)
  BY <1>6 DEF GoesAway, Withdrawn, CheckFails, Connect
<1>7. ASSUME NEW t \in Sessions, SocketEnds(t) \/ Ages(t)
      PROVE  Dies(s)
  BY <1>7 DEF SocketEnds, Ages
<1>8. ASSUME NEW t \in Sessions, Dies(t)
      PROVE  Dies(s)
  <2>1. t # s => conn'[s] # "gone"
    BY <1>8 DEF Dies, Withdrawn, CheckFails, Connect
  <2> QED BY <1>8, <2>1
<1>9. ASSUME NEW t \in Sessions, Drained(t)
      PROVE  Dies(s)
  BY <1>9 DEF Drained, Withdrawn, CheckFails, Connect
<1>10. CASE PingAnswered
  BY <1>10 DEF PingAnswered, Connect
<1>11. CASE PingFails
  BY <1>11 DEF PingFails, CheckFails, Closed, Connect
<1>12. CASE TunnelOpens \/ Connected \/ ConnectFails
  BY <1>12 DEF TunnelOpens, Connected, ConnectFails, WorkHasSubject
<1> QED BY <1>1, <1>2, <1>3, <1>4, <1>5, <1>6, <1>7, <1>8, <1>9, <1>10, <1>11, <1>12 DEF Next

\* Whatever Runs ask, stream and end, and whatever befalls the sessions: each
\* keeps the process alive exactly while it is used, no Run gets one that was
\* withdrawn before it asked, and withdrawing one ends no stream.
THEOREM SessionsStayShared == Spec => SessionsShared
<1>1. PoolInv /\ [Next]_vars =>
        [\A s \in Sessions : (conn[s] \in {"open", "closing"} /\ conn'[s] = "gone" /\ StreamsOn(s) # {}) => Dies(s)]_vars
  BY SiblingsSpared
<1> QED BY <1>1, PoolInit, PoolNext, PoolHolds, PTL DEF Spec, SessionsShared, SiblingsKeepStreaming
=============================================================================
