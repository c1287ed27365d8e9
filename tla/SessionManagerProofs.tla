------------------------ MODULE SessionManagerProofs ------------------------
(***************************************************************************)
(* Theorems about SessionManager, for every number of Runs, execs, pump    *)
(* owners and concurrent deliveries.                                       *)
(***************************************************************************)
EXTENDS SessionManager, TLAPS, FiniteSetTheorems, WellFoundedInduction

Reasons == TerminalReasons \cup QuietReasons

Stones == TerminalReasons \cup {"none", "delivered", "forgotten"}

\* The part of TypeOK about the variables of `registry`.
RegistryTyped(runs, routes, hosts, stones) ==
    /\ runs \in [Sessions -> RunRecord]
    /\ routes \in SUBSET Keys
    /\ hosts \in [Hosts -> Sessions \cup {None}]
    /\ stones \in [Keys -> Stones]

-----------------------------------------------------------------------------
(* The operators on one Run keep it a Run. *)

\* What is left of a Run once some of its execs are gone is a Run.
LEMMA WithoutTyped ==
    ASSUME NEW r \in RunRecord, NEW E
    PROVE  Without(r, E) \in RunRecord
BY DEF Without, ScheduleHardDeadline, RunRecord, PendingExec, Absent, Kinds

\* Settling display-only work leaves a Run.
LEMMA SettleTyped ==
    ASSUME NEW r \in RunRecord
    PROVE  SettleBridged(r) \in RunRecord
BY WithoutTyped DEF SettleBridged

\* Holding a Run after its clean close leaves a Run.
LEMMA HoldTyped ==
    ASSUME NEW r \in RunRecord
    PROVE  HoldAfterCleanClose(r) \in RunRecord
BY DEF HoldAfterCleanClose, RunRecord

\* Closing a Run leaves a Run.
LEMMA ClosedTyped ==
    ASSUME NEW r \in RunRecord, NEW why \in Reasons
    PROVE  ClosedRun(r, why) \in RunRecord
BY DEF ClosedRun, RunRecord, Reasons, PendingExec, Absent, Kinds

\* CloseAll over a well-typed registry, for reasons the code gives, leaves a
\* well-typed registry.
LEMMA CloseAllTyped ==
    ASSUME NEW base, NEW routes, NEW hosts, NEW stones, NEW why,
           RegistryTyped(base, routes, hosts, stones),
           \A s \in DOMAIN why : why[s] \in Reasons,
           CloseAll(why, base, routes, hosts, stones)
    PROVE  RegistryTyped(run, byExecId, byOpenCodeSessionId, tombstones)'
<1>1. run' \in [Sessions -> RunRecord]
  BY ClosedTyped DEF CloseAll, RegistryTyped
<1>2. byExecId' \in SUBSET Keys
  BY DEF CloseAll, RegistryTyped
<1>3. byOpenCodeSessionId' \in [Hosts -> Sessions \cup {None}]
  BY DEF CloseAll, RegistryTyped
<1>4. tombstones' \in [Keys -> Stones]
  BY DEF CloseAll, RegistryTyped, Stones, Keys
<1> QED BY <1>1, <1>2, <1>3, <1>4 DEF RegistryTyped

\* The same for closing one Run.
LEMMA CloseTyped ==
    ASSUME TypeOK, NEW s \in Sessions, NEW why \in Reasons, Close(s, why)
    PROVE  RegistryTyped(run, byExecId, byOpenCodeSessionId, tombstones)'
<1>1. RegistryTyped(run, byExecId, byOpenCodeSessionId, tombstones)
  BY DEF TypeOK, RegistryTyped, Stones
<1>2. CASE run[s].life = "open"
  <2> DEFINE w == [x \in {s} |-> why]
  <2>1. CloseAll(w, run, byExecId, byOpenCodeSessionId, tombstones)
    BY <1>2 DEF Close
  <2>2. \A x \in DOMAIN w : w[x] \in Reasons
    OBVIOUS
  <2> HIDE DEF w
  <2> QED BY <1>1, <2>1, <2>2, CloseAllTyped
<1>3. CASE run[s].life # "open"
  BY <1>1, <1>3 DEF Close, registry, RegistryTyped
<1> QED BY <1>2, <1>3

\* The same for what classify does on the side.
LEMMA ReclassifyTyped ==
    ASSUME TypeOK, NEW s \in Sessions, NEW e, Reclassify(s, e)
    PROVE  RegistryTyped(run, byExecId, byOpenCodeSessionId, tombstones)'
<1>1. ClassifyReason(s, e) \in Reasons
  BY DEF ClassifyReason, Reasons, TerminalReasons
<1>2. RegistryTyped(run, byExecId, byOpenCodeSessionId, tombstones)
  BY DEF TypeOK, RegistryTyped, Stones
<1> QED BY <1>1, <1>2, CloseTyped DEF Reclassify, registry, RegistryTyped

\* The same for the ways out of `pending`.
LEMMA DropTyped ==
    ASSUME TypeOK, NEW s \in Sessions, NEW E, NEW stone \in Stones, Drop(s, E, stone)
    PROVE  RegistryTyped(run, byExecId, byOpenCodeSessionId, tombstones)'
BY WithoutTyped DEF Drop, TypeOK, RegistryTyped, Stones

-----------------------------------------------------------------------------
(* Type correctness. *)

\* The variables outside the registry.
RestTyped ==
    /\ pumps \in [Pumps -> Sessions \cup {None}]
    /\ deliveries \in [Callers -> Delivery]
    /\ registrations \in [Keys -> Nat]
    /\ redispatch \in SUBSET Keys
    /\ wire \in [Keys -> Nat]

\* TypeOK is the two halves, before a step and after it.
LEMMA TypeSplit ==
    /\ TypeOK <=> RegistryTyped(run, byExecId, byOpenCodeSessionId, tombstones) /\ RestTyped
    /\ TypeOK' <=> RegistryTyped(run, byExecId, byOpenCodeSessionId, tombstones)' /\ RestTyped'
BY DEF TypeOK, RegistryTyped, RestTyped, Stones

\* A registered Run is a Run.
LEMMA OpenedTyped ==
    ASSUME NEW r \in RunRecord, NEW n \in Nat
    PROVE  [r EXCEPT !.life = "open", !.heartbeat = "idle", !.createdAt = n] \in RunRecord
BY DEF RunRecord

\* Opening a Run keeps the types, whatever it supersedes or evicts.
LEMMA RegisterTyped ==
    ASSUME TypeOK, NEW s \in Sessions, RegisterSession(s)
    PROVE  TypeOK'
<1> DEFINE host == HostOf[s]
           prior == IF host = None THEN None ELSE byOpenCodeSessionId[host]
           idlePrior == {x \in {prior} \cap Sessions : run[x].life = "open" /\ ~Pumping(run[x])}
           base == [x \in Sessions |->
              IF x = s
              THEN [run[x] EXCEPT !.life = "open", !.heartbeat = "idle",
                       !.createdAt = Cardinality({y \in Sessions : run[y].life # "new"})]
              ELSE IF x \in idlePrior THEN SettleBridged(run[x]) ELSE run[x]]
           settled == {k \in Keys : k[1] \in idlePrior /\ k[2] \in Settleable(run[k[1]])}
           superseded == {x \in idlePrior : Present(base[x]) = {}}
           open == {x \in Sessions : base[x].life = "open"} \ superseded
           evictable == {x \in open \ {s} : Evictable(base[x])}
           evicted == {x \in evictable :
              Cardinality({y \in evictable : base[y].createdAt < base[x].createdAt}) < Excess(open)}
           ended == {x \in {s} : run[x].settled}
           why == [x \in superseded \cup evicted \cup ended |->
                       IF x = s THEN StreamReason(run[x])
                       ELSE IF x \in superseded THEN "superseded-by-new-run"
                       ELSE "open-session-cap-exceeded"]
           hosts == [h \in Hosts |-> IF h = host THEN s ELSE byOpenCodeSessionId[h]]
           stones == [k \in Keys |-> IF k \in settled THEN "delivered" ELSE tombstones[k]]
<1>1. CloseAll(why, base, byExecId \ settled, hosts, stones)
  BY DEF RegisterSession
<1>2. base \in [Sessions -> RunRecord]
  <2>1. Cardinality({y \in Sessions : run[y].life # "new"}) \in Nat
    BY SessionsFinite, FS_Subset, FS_CardinalityType
  <2>2. [run[s] EXCEPT !.life = "open", !.heartbeat = "idle",
            !.createdAt = Cardinality({y \in Sessions : run[y].life # "new"})] \in RunRecord
    BY <2>1, OpenedTyped DEF TypeOK
  <2> QED BY <2>2, SettleTyped DEF TypeOK
<1>3. RegistryTyped(base, byExecId \ settled, hosts, stones)
  BY <1>2 DEF TypeOK, RegistryTyped, Stones
<1>4. \A x \in DOMAIN why : why[x] \in Reasons
  BY DEF Reasons, TerminalReasons, StreamReason
<1>5. RegistryTyped(run, byExecId, byOpenCodeSessionId, tombstones)'
  <2> HIDE DEF base, settled, hosts, stones, why
  <2> QED BY <1>1, <1>3, <1>4, CloseAllTyped
<1> QED BY <1>5, TypeSplit DEF RegisterSession, history, RestTyped

\* A Run whose pump ended is a Run.
LEMMA EndedTyped ==
    ASSUME NEW r \in RunRecord
    PROVE  [r EXCEPT !.pumpOwner = None, !.deferred = "none"] \in RunRecord
BY DEF RunRecord

\* Ending a pump keeps the types.
LEMMA EndPumpTyped ==
    ASSUME TypeOK, NEW o \in Pumps, EndPump(o) \/ EndDrain(o)
    PROVE  TypeOK'
<1> DEFINE s == pumps[o]
           ended == [run[s] EXCEPT !.pumpOwner = None, !.deferred = "none"]
           hold == run[s].deferred = "remote-clean-close" /\ HoldsOnlyAnsweredWork(run[s])
           base == [run EXCEPT ![s] = IF hold THEN HoldAfterCleanClose(ended) ELSE ended]
           keeps == Present(run[s]) # {} \/ run[s].interrupted
           why == IF run[s].deferred # "none" /\ ~hold /\ ~run[s].interrupted
                  THEN run[s].deferred ELSE "ordinary-cleanup"
           pumpWhy == [x \in {y \in {s} : ~keeps \/ why # "ordinary-cleanup"} |-> why]
           drainWhy == [x \in {y \in {s} : run[s].deferred # "none" /\ ~hold /\ ~run[s].interrupted}
                          |-> run[s].deferred]
<1>1. s \in Sessions
  BY DEF EndPump, EndDrain, TypeOK
<1>2. run[s] \in RunRecord
  BY <1>1 DEF TypeOK
<1>3. run[s].deferred \in {"none", "remote-clean-close", "remote-error"}
  BY <1>2 DEF RunRecord
<1>4. base \in [Sessions -> RunRecord]
  BY <1>2, EndedTyped, HoldTyped DEF TypeOK
<1>5. RegistryTyped(base, byExecId, byOpenCodeSessionId, tombstones)
  BY <1>4 DEF TypeOK, RegistryTyped, Stones
<1>6. /\ \A x \in DOMAIN pumpWhy : pumpWhy[x] \in Reasons
      /\ \A x \in DOMAIN drainWhy : drainWhy[x] \in Reasons
  BY <1>3 DEF Reasons, TerminalReasons, QuietReasons
<1>7. \/ UNCHANGED registry
      \/ CloseAll(pumpWhy, base, byExecId, byOpenCodeSessionId, tombstones)
      \/ CloseAll(drainWhy, base, byExecId, byOpenCodeSessionId, tombstones)
  BY DEF EndPump, EndDrain
<1>8. RegistryTyped(run, byExecId, byOpenCodeSessionId, tombstones)'
  <2> HIDE DEF base, pumpWhy, drainWhy
  <2>1. CASE UNCHANGED registry
    BY <2>1, TypeSplit DEF registry, RegistryTyped
  <2> QED BY <1>5, <1>6, <1>7, <2>1, CloseAllTyped
<1>9. RestTyped'
  BY DEF EndPump, EndDrain, TypeOK, RestTyped, history
<1> QED BY <1>8, <1>9, TypeSplit

\* A pending exec exists, or is absent.
LEMMA RunFields ==
    ASSUME TypeOK, NEW s \in Sessions
    PROVE  /\ run[s] \in RunRecord
           /\ run[s].pending \in [ExecIds -> PendingExec]
           /\ run[s].epoch \in Nat
           /\ StreamReason(run[s]) \in Reasons
BY DEF TypeOK, RunRecord, StreamReason, Reasons, TerminalReasons

\* An active delivery names an exec.  (TypeOK leaves the key of an idle one open.)
ActiveKeys == \A c \in Callers : deliveries[c].pc # "idle" => deliveries[c].key \in Keys

\* A delivery that ends is idle again.
LEMMA RetireTyped ==
    ASSUME TypeOK, NEW c \in Callers, Retire(c)
    PROVE  deliveries' \in [Callers -> Delivery]
BY DEF Retire, TypeOK, Delivery, Idle

\* A delivery that found its exec gone ends, leaving the registry typed.
LEMMA UnavailableTyped ==
    ASSUME TypeOK, NEW c \in Callers, deliveries[c].key \in Keys, Unavailable(c)
    PROVE  /\ RegistryTyped(run, byExecId, byOpenCodeSessionId, tombstones)'
           /\ deliveries' \in [Callers -> Delivery]
<1>1. deliveries[c].key[1] \in Sessions
  BY DEF Keys
<1>2. RegistryTyped(run, byExecId, byOpenCodeSessionId, tombstones)'
  BY <1>1, ReclassifyTyped DEF Unavailable
<1> QED BY <1>2 DEF Unavailable, Retire, TypeOK, Delivery, Idle

\* The same for a delivery whose write failed, or whose result never encoded.
LEMMA WriteFailedTyped ==
    ASSUME TypeOK, NEW c \in Callers, deliveries[c].key \in Keys, NEW n,
           WriteFailed(c, n)
    PROVE  /\ RegistryTyped(run, byExecId, byOpenCodeSessionId, tombstones)'
           /\ deliveries' \in [Callers -> Delivery]
<1> DEFINE why == IF n = 0 THEN "result-write-failed" ELSE "ambiguous-partial-write"
<1>1. why \in Reasons /\ deliveries[c].key[1] \in Sessions
  BY DEF Keys, Reasons, TerminalReasons
<1>2. CASE Unavailable(c)
  BY <1>2, UnavailableTyped
<1>3. CASE Close(deliveries[c].key[1], why) /\ Retire(c)
  <2>1. RegistryTyped(run, byExecId, byOpenCodeSessionId, tombstones)'
    BY <1>1, <1>3, CloseTyped
  <2> QED BY <1>3, <2>1 DEF Retire, TypeOK, Delivery, Idle
<1> QED BY <1>2, <1>3 DEF WriteFailed

\* The same for a delivery that completed.
LEMMA DeliveredTyped ==
    ASSUME TypeOK, NEW c \in Callers, deliveries[c].key \in Keys, Delivered(c)
    PROVE  /\ RegistryTyped(run, byExecId, byOpenCodeSessionId, tombstones)'
           /\ deliveries' \in [Callers -> Delivery]
<1> DEFINE s == deliveries[c].key[1]
           e == deliveries[c].key[2]
           answered == run[s].pending[e].kind = "answered"
           after == [run[s] EXCEPT !.answeredContinuation = @ \/ answered]
<1>1. s \in Sessions /\ e \in ExecIds
  BY DEF Keys
<1>2. run[s] \in RunRecord
  BY <1>1, RunFields
<1>3. (run[s].answeredContinuation \/ answered) \in BOOLEAN
  OBVIOUS
<1>4. after \in RunRecord
  <2> HIDE DEF answered
  <2> QED BY <1>2, <1>3 DEF RunRecord
<1>5. run' = [run EXCEPT ![s] = Without(after, {e})]
  BY DEF Delivered
<1>6. Without(after, {e}) \in RunRecord
  <2> HIDE DEF after
  <2> QED BY <1>4, WithoutTyped
<1>7. run' \in [Sessions -> RunRecord]
  BY <1>5, <1>6 DEF TypeOK
<1>8. /\ byExecId' \in SUBSET Keys
      /\ tombstones' \in [Keys -> Stones]
      /\ byOpenCodeSessionId' \in [Hosts -> Sessions \cup {None}]
  BY DEF Delivered, TypeOK, Stones
<1>9. deliveries' \in [Callers -> Delivery]
  <2>1. Retire(c)
    BY DEF Delivered
  <2> QED BY <2>1, RetireTyped
<1> QED BY <1>7, <1>8, <1>9 DEF RegistryTyped

\* Every step of a delivery keeps the types.
LEMMA DeliveryTyped ==
    ASSUME TypeOK, ActiveKeys, NEW c \in Callers, DeliveryStep(c)
    PROVE  TypeOK'
<1> DEFINE d == deliveries[c]
           Goal == /\ RegistryTyped(run, byExecId, byOpenCodeSessionId, tombstones)'
                   /\ deliveries' \in [Callers -> Delivery]
<1>1. d \in Delivery
  BY DEF TypeOK
<1>2. RegistryTyped(run, byExecId, byOpenCodeSessionId, tombstones)
  BY TypeSplit
<1>3. ASSUME NEW n \in 0..MaxFrames, NEW replyDeferred \in BOOLEAN,
             StartDelivery(c, n, replyDeferred)
      PROVE  Goal
  <2>1. d.key \in Keys
    BY <1>3 DEF StartDelivery, ActiveKeys
  <2>2. d.key[1] \in Sessions
    BY <2>1 DEF Keys
  <2>3. CASE Close(d.key[1], "hard-cap-expired") /\ Retire(c)
    <3>1. RegistryTyped(run, byExecId, byOpenCodeSessionId, tombstones)'
      BY <2>2, <2>3, CloseTyped DEF Reasons, TerminalReasons
    <3> QED BY <2>3, <3>1 DEF Retire, TypeOK, Delivery, Idle
  <2>4. CASE /\ deliveries' = [deliveries EXCEPT ![c].pc = "queued", ![c].left = n,
                                                 ![c].epoch = run[d.key[1]].epoch]
             /\ UNCHANGED registry
    <3>1. run[d.key[1]].epoch \in Nat /\ n \in Nat
      BY <2>2, RunFields, BoundsAssumption
    <3>2. RegistryTyped(run, byExecId, byOpenCodeSessionId, tombstones)'
      BY <1>2, <2>4 DEF registry, RegistryTyped
    <3>3. [d EXCEPT !.pc = "queued", !.left = n, !.epoch = run[d.key[1]].epoch] \in Delivery
      BY <1>1, <3>1 DEF Delivery
    <3>4. deliveries' = [deliveries EXCEPT ![c] =
             [d EXCEPT !.pc = "queued", !.left = n, !.epoch = run[d.key[1]].epoch]]
      BY <2>4 DEF TypeOK
    <3>5. deliveries' \in [Callers -> Delivery]
      BY <3>3, <3>4 DEF TypeOK
    <3> QED BY <3>2, <3>5
  <2>5. CASE Unavailable(c)
    BY <2>1, <2>5, UnavailableTyped
  <2>6. CASE Delivered(c)
    BY <2>1, <2>6, DeliveredTyped
  <2>7. CASE WriteFailed(c, 0)
    BY <2>1, <2>7, WriteFailedTyped
  <2> QED BY <1>3, <2>3, <2>4, <2>5, <2>6, <2>7 DEF StartDelivery
<1>4. CASE EncodingFails(c)
  <2>1. d.key[1] \in Sessions
    BY <1>4 DEF EncodingFails, ActiveKeys, Keys
  <2>2. RegistryTyped(run, byExecId, byOpenCodeSessionId, tombstones)'
    BY <1>4, <2>1, CloseTyped DEF EncodingFails, Reasons, TerminalReasons
  <2>3. Goal
    BY <1>4, <2>2 DEF EncodingFails, Retire, TypeOK, Delivery, Idle
  <2> QED BY <1>4, <2>3, TypeSplit DEF EncodingFails, history, RestTyped
<1>5. CASE SendFrame(c)
  <2>1. d.key \in Keys
    BY <1>5 DEF SendFrame, ActiveKeys
  <2>2. wire' \in [Keys -> Nat]
    BY <1>5, <2>1 DEF SendFrame, TypeOK
  <2>3. deliveries' \in [Callers -> Delivery]
    BY <1>5 DEF SendFrame, TypeOK, Delivery
  <2> QED BY <1>5, <2>2, <2>3 DEF SendFrame, TypeOK, registry
<1>6. CASE FrameRefused(c)
  <2>1. Goal
    BY <1>6, WriteFailedTyped DEF FrameRefused, ActiveKeys
  <2> QED BY <1>6, <2>1, TypeSplit DEF FrameRefused, history, RestTyped
<1>7. CASE FrameDrained(c)
  <2>1. d.key \in Keys
    BY <1>7 DEF FrameDrained, ActiveKeys
  <2>2. ASSUME d.left > 1,
               deliveries' = [deliveries EXCEPT ![c].pc = "queued", ![c].left = @ - 1,
                                 ![c].written = @ + 1, ![c].epoch = run[d.key[1]].epoch],
               UNCHANGED registry
        PROVE  Goal
    <3>1. d.key[1] \in Sessions
      BY <2>1 DEF Keys
    <3>2. d.left - 1 \in Nat /\ d.written + 1 \in Nat /\ run[d.key[1]].epoch \in Nat
      BY <1>1, <2>2, <3>1, RunFields DEF Delivery
    <3>3. RegistryTyped(run, byExecId, byOpenCodeSessionId, tombstones)'
      BY <1>2, <2>2 DEF registry, RegistryTyped
    <3>4. [d EXCEPT !.pc = "queued", !.left = d.left - 1, !.written = d.written + 1,
                    !.epoch = run[d.key[1]].epoch] \in Delivery
      BY <1>1, <3>2 DEF Delivery
    <3>5. deliveries' = [deliveries EXCEPT ![c] =
             [d EXCEPT !.pc = "queued", !.left = d.left - 1, !.written = d.written + 1,
                       !.epoch = run[d.key[1]].epoch]]
      BY <2>2 DEF TypeOK
    <3>6. deliveries' \in [Callers -> Delivery]
      BY <3>4, <3>5 DEF TypeOK
    <3> QED BY <3>3, <3>6
  <2>3. Goal
    BY <1>7, <2>1, <2>2, UnavailableTyped, DeliveredTyped DEF FrameDrained
  <2> QED BY <1>7, <2>3, TypeSplit DEF FrameDrained, history, RestTyped
<1>8. CASE DrainFails(c)
  <2>1. Goal
    BY <1>8, WriteFailedTyped DEF DrainFails, ActiveKeys
  <2> QED BY <1>8, <2>1, TypeSplit DEF DrainFails, history, RestTyped
<1>9. ASSUME NEW n \in 0..MaxFrames, NEW replyDeferred \in BOOLEAN,
             StartDelivery(c, n, replyDeferred)
      PROVE  TypeOK'
  <2>1. Goal
    BY <1>3, <1>9
  <2> QED BY <1>9, <2>1, TypeSplit DEF StartDelivery, history, RestTyped
<1> QED BY <1>4, <1>5, <1>6, <1>7, <1>8, <1>9 DEF DeliveryStep

\* A step that leaves the variables outside the registry alone, but for the
\* pump owners and the tombstone bookkeeping it types itself.
LEMMA RegistryStep ==
    ASSUME TypeOK, RegistryTyped(run, byExecId, byOpenCodeSessionId, tombstones)',
           UNCHANGED <<pumps, deliveries, history>>
    PROVE  TypeOK'
BY TypeSplit DEF RestTyped, history

\* Every step about one exec keeps the types.
LEMMA ExecTyped ==
    ASSUME TypeOK, NEW s \in Sessions, NEW e \in ExecIds, ExecStep(s, e)
    PROVE  TypeOK'
<1> USE DEF Keys
<1>0. run[s] \in RunRecord /\ run[s].pending \in [ExecIds -> PendingExec]
  BY RunFields
<1>1. ASSUME NEW kind \in Kinds, RegisterPending(s, e, kind)
      PROVE  TypeOK'
  <2> DEFINE id == registrations[<<s, e>>] + 1
             p == [state |-> "pending", kind |-> kind, aborted |-> FALSE, lapsed |-> FALSE,
                   id |-> id]
  <2>1. id \in Nat
    BY DEF TypeOK
  <2>2. [run[s] EXCEPT !.pending[e] = p] \in RunRecord
    BY <1>0, <2>1 DEF RunRecord, PendingExec
  <2>3. ScheduleHardDeadline([run[s] EXCEPT !.pending[e] = p]) \in RunRecord
    BY <2>2 DEF ScheduleHardDeadline, RunRecord
  <2>4. run' \in [Sessions -> RunRecord]
    BY <1>1, <2>3 DEF RegisterPending, TypeOK
  <2> QED BY <1>1, <2>1, <2>4 DEF RegisterPending, TypeOK
<1>2. CASE ForgetHeldExec(s, e)
  <2>1. Without(run[s], {e}) \in RunRecord
    BY <1>0, WithoutTyped
  <2> QED BY <1>2, <2>1 DEF ForgetHeldExec, TypeOK
<1>3. CASE MarkExecAborted(s, e)
  <2>0. [run[s].pending[e] EXCEPT !.aborted = TRUE] \in PendingExec
    BY <1>0 DEF PendingExec
  <2>1. [run[s] EXCEPT !.pending[e] = [run[s].pending[e] EXCEPT !.aborted = TRUE]] \in RunRecord
    BY <1>0, <2>0 DEF RunRecord
  <2>2. run' = [run EXCEPT ![s] =
           [run[s] EXCEPT !.pending[e] = [run[s].pending[e] EXCEPT !.aborted = TRUE]]]
    BY <1>3 DEF MarkExecAborted, TypeOK
  <2>3. run' \in [Sessions -> RunRecord]
    BY <2>1, <2>2 DEF TypeOK
  <2> QED BY <1>3, <2>3 DEF MarkExecAborted, TypeOK, history
<1>4. CASE Resolve(s, e)
  <2>1. RegistryTyped(run, byExecId, byOpenCodeSessionId, tombstones)'
    BY <1>4, DropTyped DEF Resolve, Stones
  <2> QED BY <1>4, <2>1, RegistryStep DEF Resolve
<1>5. CASE Classify(s, e)
  <2>1. RegistryTyped(run, byExecId, byOpenCodeSessionId, tombstones)'
    BY <1>5, ReclassifyTyped DEF Classify
  <2> QED BY <1>5, <2>1, RegistryStep DEF Classify
<1>6. CASE LeaseLapses(s, e)
  <2>0. [run[s].pending[e] EXCEPT !.lapsed = TRUE] \in PendingExec
    BY <1>0 DEF PendingExec
  <2>1. [run[s] EXCEPT !.pending[e] = [run[s].pending[e] EXCEPT !.lapsed = TRUE]] \in RunRecord
    BY <1>0, <2>0 DEF RunRecord
  <2>2. run' = [run EXCEPT ![s] =
           [run[s] EXCEPT !.pending[e] = [run[s].pending[e] EXCEPT !.lapsed = TRUE]]]
    BY <1>6 DEF LeaseLapses, TypeOK
  <2>3. run' \in [Sessions -> RunRecord]
    BY <2>1, <2>2 DEF TypeOK
  <2> QED BY <1>6, <2>3 DEF LeaseLapses, TypeOK, history
<1>7. CASE ForgetTombstone(<<s, e>>)
  BY <1>7 DEF ForgetTombstone, TypeOK, history
<1>8. ASSUME NEW c \in Callers, Claim(c, s, e)
      PROVE  TypeOK'
  <2>1. [run[s] EXCEPT !.pending[e].state = "claimed"] \in RunRecord
    BY <1>0 DEF RunRecord, PendingExec
  <2>2. run' = [run EXCEPT ![s] = [run[s] EXCEPT !.pending[e].state = "claimed"]]
    BY <1>8 DEF Claim, TypeOK
  <2>3. run' \in [Sessions -> RunRecord]
    BY <2>1, <2>2 DEF TypeOK
  <2>4. run[s].pending[e].id \in Nat
    BY <1>0 DEF PendingExec
  <2>5. [Idle EXCEPT !.pc = "claimed", !.key = <<s, e>>, !.id = run[s].pending[e].id] \in Delivery
    BY <2>4 DEF Idle, Delivery
  <2>6. deliveries' \in [Callers -> Delivery]
    BY <1>8, <2>5 DEF Claim, TypeOK
  <2> QED BY <1>8, <2>3, <2>6 DEF Claim, TypeOK, history
<1> QED BY <1>1, <1>2, <1>3, <1>4, <1>5, <1>6, <1>7, <1>8 DEF ExecStep

\* Every step of a pump keeps the types.
LEMMA PumpTyped ==
    ASSUME TypeOK, NEW o \in Pumps, PumpStep(o)
    PROVE  TypeOK'
<1>1. ASSUME NEW s \in Sessions, BeginPump(o, s)
      PROVE  TypeOK'
  <2>1. [run[s] EXCEPT !.pumpOwner = o, !.answeredContinuation = FALSE] \in RunRecord
    BY RunFields DEF RunRecord
  <2>2. run' = [run EXCEPT ![s] =
           [run[s] EXCEPT !.pumpOwner = o, !.answeredContinuation = FALSE]]
    BY <1>1 DEF BeginPump, TypeOK
  <2>3. run' \in [Sessions -> RunRecord]
    BY <2>1, <2>2 DEF TypeOK
  <2> QED BY <1>1, <2>3 DEF BeginPump, TypeOK, history
<1>2. ASSUME NEW why \in PumpReasons, PumpCloses(o, why)
      PROVE  TypeOK'
  <2>1. pumps[o] \in Sessions
    BY <1>2 DEF PumpCloses, TypeOK
  <2>2. why \in Reasons
    BY BoundsAssumption DEF Reasons, TerminalReasons, QuietReasons
  <2>3. RegistryTyped(run, byExecId, byOpenCodeSessionId, tombstones)'
    BY <1>2, <2>1, <2>2, CloseTyped DEF PumpCloses
  <2> QED BY <1>2, <2>3, RegistryStep DEF PumpCloses
<1>3. CASE ReplaceStream(o)
  <2> DEFINE s == pumps[o]
             r == [run[s] EXCEPT !.stream = "live", !.settled = FALSE, !.epoch = run[s].epoch + 1,
                                 !.deferred = "none", !.heartbeat = "idle"]
  <2>1. s \in Sessions
    BY <1>3 DEF ReplaceStream, TypeOK
  <2>2. r \in RunRecord
    <3>1. run[s] \in RunRecord /\ run[s].epoch + 1 \in Nat
      BY <2>1, RunFields
    <3> QED BY <3>1 DEF RunRecord
  <2>3. run' = [run EXCEPT ![s] = r]
    BY <1>3, <2>1 DEF ReplaceStream, TypeOK
  <2>4. run' \in [Sessions -> RunRecord]
    BY <2>2, <2>3 DEF TypeOK
  <2> QED BY <1>3, <2>4 DEF ReplaceStream, TypeOK, history
<1> QED BY <1>1, <1>2, <1>3, EndPumpTyped DEF PumpStep

\* A step that only changes one Run, and leaves it a Run, keeps the types.
LEMMA OneRunTyped ==
    ASSUME TypeOK, NEW s \in Sessions, NEW r \in RunRecord, run' = [run EXCEPT ![s] = r],
           UNCHANGED <<byExecId, byOpenCodeSessionId, tombstones, pumps, deliveries, history>>
    PROVE  TypeOK'
BY DEF TypeOK, history

\* The terminal event of a stream keeps the types.
LEMMA TerminalTyped ==
    ASSUME TypeOK, NEW s \in Sessions, TerminalAnnounced(s)
    PROVE  TypeOK'
<1> DEFINE heard == [run EXCEPT ![s].settled = TRUE]
           r == heard[s]
           why == StreamReason(r)
           w == [x \in {s} |-> why]
<1>0. [run[s] EXCEPT !.settled = TRUE] \in RunRecord
  BY RunFields DEF RunRecord
<1>1. r \in RunRecord /\ heard = [run EXCEPT ![s] = r]
  <2>1. heard = [run EXCEPT ![s] = [run[s] EXCEPT !.settled = TRUE]]
    BY DEF TypeOK
  <2> QED BY <1>0, <2>1 DEF TypeOK
<1>2. heard \in [Sessions -> RunRecord]
  BY <1>1 DEF TypeOK
<1>3. why \in {"remote-error", "remote-clean-close"} /\ why \in Reasons
  BY DEF StreamReason, Reasons, TerminalReasons
<1>4. [r EXCEPT !.deferred = why] \in RunRecord
  <2> HIDE DEF r
  <2> QED BY <1>1, <1>3 DEF RunRecord
<1>5. CASE run' = heard /\ UNCHANGED <<byExecId, byOpenCodeSessionId, tombstones>>
  BY <1>1, <1>5, OneRunTyped DEF TerminalAnnounced
<1>6. CASE /\ run' = [heard EXCEPT ![s] = HoldAfterCleanClose(r)]
           /\ UNCHANGED <<byExecId, byOpenCodeSessionId, tombstones>>
  <2>1. HoldAfterCleanClose(r) \in RunRecord
    BY <1>1, HoldTyped
  <2>2. run' \in [Sessions -> RunRecord]
    BY <1>2, <1>6, <2>1
  <2> QED BY <1>6, <2>2 DEF TerminalAnnounced, TypeOK, history
<1>7. CASE /\ run' = [heard EXCEPT ![s].deferred = why]
           /\ UNCHANGED <<byExecId, byOpenCodeSessionId, tombstones>>
  <2>1. run' = [heard EXCEPT ![s] = [r EXCEPT !.deferred = why]]
    BY <1>1, <1>7
  <2>2. run' \in [Sessions -> RunRecord]
    BY <1>2, <1>4, <2>1
  <2> QED BY <1>7, <2>2 DEF TerminalAnnounced, TypeOK, history
<1>8. CASE CloseAll(w, heard, byExecId, byOpenCodeSessionId, tombstones)
  <2>1. RegistryTyped(heard, byExecId, byOpenCodeSessionId, tombstones)
    BY <1>2 DEF TypeOK, RegistryTyped, Stones
  <2>2. \A x \in DOMAIN w : w[x] \in Reasons
    BY <1>3
  <2>3. RegistryTyped(run, byExecId, byOpenCodeSessionId, tombstones)'
    <3> HIDE DEF heard, w
    <3> QED BY <1>8, <2>1, <2>2, CloseAllTyped
  <2> QED BY <2>3, RegistryStep DEF TerminalAnnounced
<1> QED BY <1>5, <1>6, <1>7, <1>8 DEF TerminalAnnounced

\* The steps of a Run's stream, its heartbeat, its clock and its cancel keep
\* the types.
LEMMA RunTyped ==
    ASSUME TypeOK, NEW s \in Sessions, RunStep(s)
    PROVE  TypeOK'
<1>0. run[s] \in RunRecord /\ run[s].pending \in [ExecIds -> PendingExec]
  BY RunFields
<1>1. ASSUME NEW why \in Reasons, Close(s, why), UNCHANGED <<pumps, deliveries, history>>
      PROVE  TypeOK'
  BY <1>1, CloseTyped, RegistryStep
<1>2. {"heartbeat-write-failed", "hard-cap-expired", "host-interrupted",
       "ordinary-cleanup"} \subseteq Reasons
  BY DEF Reasons, TerminalReasons, QuietReasons
<1>3. ASSUME NEW how \in {"ended", "failed"}, StreamEnds(s, how)
      PROVE  TypeOK'
  <2>1. [run[s] EXCEPT !.stream = how] \in RunRecord
    BY <1>0 DEF RunRecord
  <2>2. run' = [run EXCEPT ![s] = [run[s] EXCEPT !.stream = how]]
    BY <1>3 DEF StreamEnds, TypeOK
  <2> QED BY <1>3, <2>1, <2>2, OneRunTyped DEF StreamEnds
<1>4. CASE HeartbeatTick(s)
  <2>1. [run[s] EXCEPT !.heartbeat = "writing"] \in RunRecord
    BY <1>0 DEF RunRecord
  <2>2. run' = [run EXCEPT ![s] = [run[s] EXCEPT !.heartbeat = "writing"]]
    BY <1>4 DEF HeartbeatTick, TypeOK
  <2> QED BY <1>4, <2>1, <2>2, OneRunTyped DEF HeartbeatTick
<1>5. CASE HeartbeatWritten(s)
  <2>1. [run[s] EXCEPT !.heartbeat = "idle"] \in RunRecord
    BY <1>0 DEF RunRecord
  <2>2. run' = [run EXCEPT ![s] = [run[s] EXCEPT !.heartbeat = "idle"]]
    BY <1>5 DEF HeartbeatWritten, TypeOK
  <2> QED BY <1>5, <2>1, <2>2, OneRunTyped DEF HeartbeatWritten
<1>6. CASE LeaseRenewed(s)
  <2> DEFINE renewed == [e \in ExecIds |-> [run[s].pending[e] EXCEPT !.lapsed = FALSE]]
  <2>1. renewed \in [ExecIds -> PendingExec]
    BY <1>0 DEF PendingExec
  <2>2. [run[s] EXCEPT !.pending = renewed] \in RunRecord
    <3> HIDE DEF renewed
    <3> QED BY <1>0, <2>1 DEF RunRecord
  <2>3. run' = [run EXCEPT ![s] = [run[s] EXCEPT !.pending = renewed]]
    BY <1>6 DEF LeaseRenewed, TypeOK
  <2> HIDE DEF renewed
  <2> QED BY <1>6, <2>2, <2>3, OneRunTyped DEF LeaseRenewed
<1>7. CASE HostStop(s)
  <2>1. Without(run[s], Present(run[s])) \in RunRecord
    BY <1>0, WithoutTyped
  <2>2. [Without(run[s], Present(run[s])) EXCEPT !.interrupted = TRUE,
                                                 !.heartbeat = "off"] \in RunRecord
    BY <2>1 DEF RunRecord
  <2>3. run' = [run EXCEPT ![s] =
           [Without(run[s], Present(run[s])) EXCEPT !.interrupted = TRUE, !.heartbeat = "off"]]
    BY <1>7 DEF HostStop, TypeOK
  <2>4. run' \in [Sessions -> RunRecord]
    BY <2>2, <2>3 DEF TypeOK
  <2>5. byExecId' \in SUBSET Keys /\ tombstones' \in [Keys -> Stones]
    BY <1>7 DEF HostStop, TypeOK, Stones, TerminalReasons
  <2> QED BY <1>7, <2>4, <2>5, RegistryStep DEF HostStop, RegistryTyped, TypeOK
<1>8. CASE AbandonPending(s)
  <2>1. RegistryTyped(run, byExecId, byOpenCodeSessionId, tombstones)'
    BY <1>8, DropTyped DEF AbandonPending, Stones, TerminalReasons
  <2> QED BY <1>8, <2>1, RegistryStep DEF AbandonPending
<1> QED BY <1>1, <1>2, <1>3, <1>4, <1>5, <1>6, <1>7, <1>8, RegisterTyped, TerminalTyped
        DEF RunStep, HeartbeatFails, HardDeadline, CancelDone, CloseUnlessPending

\* A fresh turn, a rewritten history and the end of the process keep the types.
LEMMA HostTyped ==
    ASSUME TypeOK, (\E h \in Hosts : HostStep(h)) \/ Dispose
    PROVE  TypeOK'
<1>1. RegistryTyped(run, byExecId, byOpenCodeSessionId, tombstones)
  BY TypeSplit
<1>2. ASSUME NEW h \in Hosts, SettleForFreshTurn(h)
      PROVE  TypeOK'
  <2>1. byOpenCodeSessionId[h] \in Sessions
    BY <1>2 DEF SettleForFreshTurn, TypeOK
  <2>2. RegistryTyped(run, byExecId, byOpenCodeSessionId, tombstones)'
    BY <1>2, <2>1, DropTyped DEF SettleForFreshTurn, Stones
  <2> QED BY <1>2, <2>2, RegistryStep DEF SettleForFreshTurn
<1>3. ASSUME NEW h \in Hosts, HistoryRewritten(h)
      PROVE  TypeOK'
  <2> DEFINE w == [s \in {x \in Sessions : HostOf[x] = h /\ run[x].life = "open"}
                      |-> "superseded-by-new-run"]
  <2>1. \A x \in DOMAIN w : w[x] \in Reasons
    BY DEF Reasons, TerminalReasons
  <2>2. CloseAll(w, run, byExecId, byOpenCodeSessionId, tombstones)
    BY <1>3 DEF HistoryRewritten
  <2>3. RegistryTyped(run, byExecId, byOpenCodeSessionId, tombstones)'
    <3> HIDE DEF w
    <3> QED BY <1>1, <2>1, <2>2, CloseAllTyped
  <2> QED BY <1>3, <2>3, RegistryStep DEF HistoryRewritten
<1>4. CASE Dispose
  <2> DEFINE w == [s \in {x \in Sessions : run[x].life = "open"} |-> "process-disposed"]
  <2>1. \A x \in DOMAIN w : w[x] \in Reasons
    BY DEF Reasons, TerminalReasons
  <2>2. CloseAll(w, run, {}, byOpenCodeSessionId, tombstones)
    BY <1>4 DEF Dispose
  <2>3. RegistryTyped(run, {}, byOpenCodeSessionId, tombstones)
    BY <1>1 DEF RegistryTyped
  <2>4. RegistryTyped(run, byExecId, byOpenCodeSessionId, tombstones)'
    <3> HIDE DEF w
    <3> QED BY <2>1, <2>2, <2>3, CloseAllTyped
  <2> QED BY <1>4, <2>4, RegistryStep DEF Dispose
<1> QED BY <1>2, <1>3, <1>4 DEF HostStep

\* A delivery keeps its key until it ends.
LEMMA KeysKept ==
    ASSUME TypeOK, ActiveKeys, NEW c \in Callers, DeliveryStep(c)
    PROVE  ActiveKeys'
<1>1. deliveries \in [Callers -> Delivery]
  BY DEF TypeOK
<1> DEFINE Kept == /\ deliveries[c].pc # "idle"
                   /\ deliveries'[c].key = deliveries[c].key
                   /\ \A x \in Callers \ {c} : deliveries'[x] = deliveries[x]
<1>2. Retire(c) \/ Kept
  <2>1. Unavailable(c) \/ Delivered(c) \/ (\E n : WriteFailed(c, n)) => Retire(c)
    BY DEF Unavailable, Delivered, WriteFailed
  <2>2. ASSUME NEW n, NEW b, StartDelivery(c, n, b)
        PROVE  Retire(c) \/ Kept
    BY <1>1, <2>1, <2>2 DEF StartDelivery, Delivery
  <2>3. EncodingFails(c) => Retire(c)
    BY DEF EncodingFails
  <2>4. SendFrame(c) => Kept
    BY <1>1 DEF SendFrame, Delivery
  <2>5. FrameRefused(c) \/ DrainFails(c) => Retire(c)
    BY <2>1 DEF FrameRefused, DrainFails
  <2>6. FrameDrained(c) => Retire(c) \/ Kept
    BY <1>1, <2>1 DEF FrameDrained, Delivery
  <2> QED BY <2>2, <2>3, <2>4, <2>5, <2>6 DEF DeliveryStep
<1> QED BY <1>1, <1>2 DEF ActiveKeys, Retire, Idle

\* What is invariant step by step.
TypeInv == TypeOK /\ ActiveKeys

\* The registry starts empty.
LEMMA TypeInvInit == Init => TypeInv
<1> SUFFICES ASSUME Init
             PROVE  TypeInv
  OBVIOUS
<1>1. Absent \in PendingExec
  BY DEF Absent, PendingExec, Kinds
<1>2. run \in [Sessions -> RunRecord]
  <2>1. [e \in ExecIds |-> Absent] \in [ExecIds -> PendingExec]
    BY <1>1
  <2> QED BY <2>1 DEF Init, RunRecord
<1>3. deliveries \in [Callers -> Delivery] /\ ActiveKeys
  <2>1. Idle \in Delivery /\ Idle.pc = "idle"
    BY DEF Idle, Delivery
  <2>2. deliveries = [c \in Callers |-> Idle]
    BY DEF Init
  <2> QED BY <2>1, <2>2 DEF ActiveKeys
<1> QED BY <1>2, <1>3 DEF Init, TypeInv, TypeOK, Keys

\* Every step keeps the invariant.
LEMMA TypeInvNext == TypeInv /\ [Next]_vars => TypeInv'
<1> SUFFICES ASSUME TypeOK, ActiveKeys, [Next]_vars
             PROVE  TypeOK' /\ ActiveKeys'
  BY DEF TypeInv
<1>1. ASSUME NEW s \in Sessions, RunStep(s)
      PROVE  TypeOK' /\ ActiveKeys'
  <2>1. deliveries' = deliveries
    BY <1>1 DEF RunStep, RegisterSession, StreamEnds, TerminalAnnounced, HeartbeatTick,
                HeartbeatWritten, HeartbeatFails, LeaseRenewed, HardDeadline, HostStop,
                AbandonPending, CancelDone, CloseUnlessPending
  <2> QED BY <1>1, <2>1, RunTyped DEF ActiveKeys
<1>2. ASSUME NEW s \in Sessions, NEW e \in ExecIds, ExecStep(s, e)
      PROVE  TypeOK' /\ ActiveKeys'
  <2>1. CASE deliveries' = deliveries
    BY <1>2, <2>1, ExecTyped DEF ActiveKeys
  <2>2. ASSUME NEW c \in Callers, Claim(c, s, e)
        PROVE  ActiveKeys'
    BY <2>2 DEF Claim, ActiveKeys, Keys, TypeOK, Idle
  <2> QED BY <1>2, <2>1, <2>2, ExecTyped
          DEF ExecStep, RegisterPending, ForgetHeldExec, MarkExecAborted, Resolve, Classify,
              LeaseLapses, ForgetTombstone
<1>3. ASSUME NEW o \in Pumps, PumpStep(o)
      PROVE  TypeOK' /\ ActiveKeys'
  <2>1. deliveries' = deliveries
    BY <1>3 DEF PumpStep, BeginPump, EndPump, EndDrain, PumpCloses, ReplaceStream
  <2> QED BY <1>3, <2>1, PumpTyped DEF ActiveKeys
<1>4. ASSUME NEW c \in Callers, DeliveryStep(c)
      PROVE  TypeOK' /\ ActiveKeys'
  BY <1>4, DeliveryTyped, KeysKept
<1>5. CASE (\E h \in Hosts : HostStep(h)) \/ Dispose
  <2>1. deliveries' = deliveries
    BY <1>5 DEF HostStep, SettleForFreshTurn, HistoryRewritten, Dispose
  <2> QED BY <1>5, <2>1, HostTyped DEF ActiveKeys
<1>6. CASE UNCHANGED vars
  BY <1>6 DEF vars, TypeOK, ActiveKeys
<1> QED BY <1>1, <1>2, <1>3, <1>4, <1>5, <1>6 DEF Next

\* Type correctness: whatever the Runs, execs, pumps and deliveries do, the
\* registry stays a registry.
THEOREM TypeCorrect == Spec => []TypeOK
<1>1. TypeInv => TypeOK
  BY DEF TypeInv
<1> QED BY <1>1, TypeInvInit, TypeInvNext, PTL DEF Spec

-----------------------------------------------------------------------------
(* The indexes agree, and every Run that owes something is watched. *)

\* What IndexesAgree and LeaseWatched ask of one Run.
RunOK(r) ==
    /\ r.timer <=> (r.life = "open" /\ Present(r) # {})
    /\ r.life # "open" =>
          /\ Present(r) = {}
          /\ r.pumpOwner = None
          /\ r.deferred = "none"
          /\ r.heartbeat = "off"

\* What IndexesAgree asks of the two indexes.
Routed(runs, routes) == routes = {k \in Keys : runs[k[1]].pending[k[2]].state # "absent"}

Named(runs, hosts) ==
    \A h \in Hosts : hosts[h] # None => runs[hosts[h]].life = "open" /\ HostOf[hosts[h]] = h

RegistryOK(runs, routes, hosts) ==
    /\ \A s \in Sessions : RunOK(runs[s])
    /\ Routed(runs, routes)
    /\ Named(runs, hosts)

\* The two properties are this one.
LEMMA RegistryOKSplit ==
    RegistryOK(run, byExecId, byOpenCodeSessionId) => IndexesAgree /\ LeaseWatched
BY DEF RegistryOK, RunOK, Routed, Named, IndexesAgree, LeaseWatched

\* What is left of a Run without some of its execs.
LEMMA WithoutOK ==
    ASSUME NEW r \in RunRecord, NEW E, RunOK(r)
    PROVE  /\ RunOK(Without(r, E))
           /\ Present(Without(r, E)) = Present(r) \ E
           /\ \A e \in ExecIds : Without(r, E).pending[e] = IF e \in E THEN Absent ELSE r.pending[e]
           /\ Without(r, E).life = r.life
           /\ Without(r, E).pumpOwner = r.pumpOwner
           /\ Without(r, E).deferred = r.deferred
<1> DEFINE p == [e \in ExecIds |-> IF e \in E THEN Absent ELSE r.pending[e]]
           q == [r EXCEPT !.pending = p]
<1>1. Without(r, E) = [q EXCEPT !.timer = (q.life = "open" /\ Present(q) # {})]
  BY DEF Without, ScheduleHardDeadline
<1>2. /\ q.pending = p /\ q.life = r.life /\ q.deferred = r.deferred
      /\ q.pumpOwner = r.pumpOwner /\ q.heartbeat = r.heartbeat
  BY DEF RunRecord
<1>3. DOMAIN q = DOMAIN r /\ "timer" \in DOMAIN r
  BY DEF RunRecord
<1>4. Present(q) = Present(r) \ E
  BY <1>2 DEF Present, Absent
<1> HIDE DEF q
<1>5. /\ Without(r, E).pending = p /\ Without(r, E).life = r.life
      /\ Without(r, E).pumpOwner = r.pumpOwner /\ Without(r, E).deferred = r.deferred
      /\ Without(r, E).heartbeat = r.heartbeat
  BY <1>1, <1>2, <1>3
<1>7. Without(r, E).timer = (r.life = "open" /\ Present(q) # {})
  BY <1>1, <1>2, <1>3, Zenon
<1>6. Present(Without(r, E)) = Present(q)
  BY <1>2, <1>5 DEF Present
<1> QED BY <1>4, <1>5, <1>6, <1>7 DEF RunOK

\* The same of a Run whose display-only work is settled.
LEMMA SettleOK ==
    ASSUME NEW r \in RunRecord, RunOK(r)
    PROVE  /\ RunOK(SettleBridged(r))
           /\ SettleBridged(r).life = r.life
           /\ \A e \in ExecIds : SettleBridged(r).pending[e] =
                                    IF e \in Settleable(r) THEN Absent ELSE r.pending[e]
BY WithoutOK DEF SettleBridged

\* A closed Run keeps nothing.
LEMMA ClosedOK ==
    ASSUME NEW r \in RunRecord, NEW why
    PROVE  /\ RunOK(ClosedRun(r, why))
           /\ ClosedRun(r, why).life = "closed"
           /\ \A e \in ExecIds : ClosedRun(r, why).pending[e] = Absent
<1>1. /\ ClosedRun(r, why).life = "closed"
      /\ ClosedRun(r, why).timer = FALSE
      /\ ClosedRun(r, why).pumpOwner = None
      /\ ClosedRun(r, why).deferred = "none"
      /\ ClosedRun(r, why).heartbeat = "off"
      /\ ClosedRun(r, why).pending = [e \in ExecIds |-> Absent]
  BY DEF ClosedRun, RunRecord
<1>2. Present(ClosedRun(r, why)) = {}
  BY <1>1 DEF Present, Absent
<1> QED BY <1>1, <1>2 DEF RunOK

\* CloseAll keeps the indexes of the registry it starts from.
LEMMA CloseAllOK ==
    ASSUME NEW base \in [Sessions -> RunRecord], NEW routes, NEW hosts, NEW stones, NEW why,
           RegistryOK(base, routes, hosts),
           hosts \in [Hosts -> Sessions \cup {None}],
           CloseAll(why, base, routes, hosts, stones)
    PROVE  RegistryOK(run, byExecId, byOpenCodeSessionId)'
<1> DEFINE shut == DOMAIN why
<1>1. /\ run' = [s \in Sessions |-> IF s \in shut THEN ClosedRun(base[s], why[s]) ELSE base[s]]
      /\ byExecId' = {k \in routes : ~(k[1] \in shut /\ k[2] \in Present(base[k[1]]))}
      /\ byOpenCodeSessionId' = [h \in Hosts |-> IF hosts[h] \in shut THEN None ELSE hosts[h]]
  BY DEF CloseAll
<1> HIDE DEF shut
<1>2. \A s \in Sessions : RunOK(run'[s])
  BY <1>1, ClosedOK DEF RegistryOK
<1>3. Routed(run', byExecId')
  <2> SUFFICES ASSUME NEW k \in Keys
               PROVE  k \in byExecId' <=> run'[k[1]].pending[k[2]].state # "absent"
    BY <1>1 DEF RegistryOK, Routed
  <2>1. k[1] \in Sessions /\ k[2] \in ExecIds
    BY DEF Keys
  <2>2. k \in routes <=> base[k[1]].pending[k[2]].state # "absent"
    BY DEF RegistryOK, Routed
  <2>3. k[1] \in shut => run'[k[1]].pending[k[2]] = Absent
    BY <1>1, <2>1, ClosedOK
  <2>4. k[1] \notin shut => run'[k[1]] = base[k[1]]
    BY <1>1, <2>1
  <2> QED BY <1>1, <2>1, <2>2, <2>3, <2>4 DEF Present, Absent
<1>4. Named(run', byOpenCodeSessionId')
  BY <1>1, HostsAssumption DEF RegistryOK, Named
<1> QED BY <1>2, <1>3, <1>4 DEF RegistryOK

\* Closing one Run keeps the indexes.
LEMMA CloseOK ==
    ASSUME TypeOK, RegistryOK(run, byExecId, byOpenCodeSessionId), NEW s \in Sessions,
           NEW why, Close(s, why)
    PROVE  RegistryOK(run, byExecId, byOpenCodeSessionId)'
<1>1. CASE run[s].life = "open"
  <2> DEFINE w == [x \in {s} |-> why]
  <2>1. CloseAll(w, run, byExecId, byOpenCodeSessionId, tombstones)
    BY <1>1 DEF Close
  <2> HIDE DEF w
  <2> QED BY <2>1, CloseAllOK DEF TypeOK
<1>2. CASE run[s].life # "open"
  BY <1>2 DEF Close, registry, RegistryOK, Routed, Named
<1> QED BY <1>1, <1>2

\* So does classify.
LEMMA ReclassifyOK ==
    ASSUME TypeOK, RegistryOK(run, byExecId, byOpenCodeSessionId), NEW s \in Sessions,
           NEW e, Reclassify(s, e)
    PROVE  RegistryOK(run, byExecId, byOpenCodeSessionId)'
BY CloseOK DEF Reclassify, registry, RegistryOK, Routed, Named

\* Taking execs out of a Run and its routes together keeps the indexes.
LEMMA TakenOutOK ==
    ASSUME TypeOK, RegistryOK(run, byExecId, byOpenCodeSessionId), NEW s \in Sessions,
           NEW E, NEW r \in RunRecord, RunOK(r), r.life = run[s].life,
           \A e \in ExecIds : r.pending[e] = IF e \in E THEN Absent ELSE run[s].pending[e],
           run' = [run EXCEPT ![s] = r], byExecId' = byExecId \ ({s} \X E),
           UNCHANGED byOpenCodeSessionId
    PROVE  RegistryOK(run, byExecId, byOpenCodeSessionId)'
<1>1. \A x \in Sessions : run'[x] = IF x = s THEN r ELSE run[x]
  BY DEF TypeOK
<1>2. \A x \in Sessions : RunOK(run'[x])
  BY <1>1 DEF RegistryOK
<1>3. Routed(run', byExecId')
  <2> SUFFICES ASSUME NEW k \in Keys
               PROVE  k \in byExecId' <=> run'[k[1]].pending[k[2]].state # "absent"
    BY DEF Routed, TypeOK
  <2>1. k[1] \in Sessions /\ k[2] \in ExecIds /\ k = <<k[1], k[2]>>
    BY DEF Keys
  <2>2. k \in byExecId <=> run[k[1]].pending[k[2]].state # "absent"
    BY DEF RegistryOK, Routed
  <2>3. k \in {s} \X E <=> k[1] = s /\ k[2] \in E
    BY <2>1
  <2> QED BY <1>1, <2>1, <2>2, <2>3 DEF Absent
<1>4. Named(run', byOpenCodeSessionId')
  BY <1>1 DEF RegistryOK, Named, TypeOK
<1> QED BY <1>2, <1>3, <1>4 DEF RegistryOK

\* The ways out of `pending` keep the indexes.
LEMMA DropOK ==
    ASSUME TypeOK, RegistryOK(run, byExecId, byOpenCodeSessionId), NEW s \in Sessions,
           NEW E, NEW stone, Drop(s, E, stone)
    PROVE  RegistryOK(run, byExecId, byOpenCodeSessionId)'
<1>1. run[s] \in RunRecord /\ RunOK(run[s])
  BY RunFields DEF RegistryOK
<1>2. run' = [run EXCEPT ![s] = Without(run[s], E)]
  BY DEF Drop, TypeOK
<1>3. /\ Without(run[s], E) \in RunRecord
      /\ RunOK(Without(run[s], E))
      /\ Without(run[s], E).life = run[s].life
      /\ \A e \in ExecIds : Without(run[s], E).pending[e] =
                               IF e \in E THEN Absent ELSE run[s].pending[e]
  BY <1>1, WithoutOK, WithoutTyped
<1>4. byExecId' = byExecId \ ({s} \X E) /\ UNCHANGED byOpenCodeSessionId
  BY DEF Drop
<1> QED BY <1>2, <1>3, <1>4, TakenOutOK

\* Changing one Run, but neither its life nor which of its execs are pending,
\* keeps the indexes if the Run stays well-formed.
LEMMA SameExecsOK ==
    ASSUME NEW runs \in [Sessions -> RunRecord], NEW routes \in SUBSET Keys, NEW hosts,
           hosts \in [Hosts -> Sessions \cup {None}],
           RegistryOK(runs, routes, hosts), NEW s \in Sessions,
           NEW r \in RunRecord, RunOK(r), r.life = runs[s].life,
           \A e \in ExecIds : r.pending[e].state = "absent" <=> runs[s].pending[e].state = "absent"
    PROVE  RegistryOK([runs EXCEPT ![s] = r], routes, hosts)
<1> DEFINE after == [runs EXCEPT ![s] = r]
<1>1. \A x \in Sessions : after[x] = IF x = s THEN r ELSE runs[x]
  OBVIOUS
<1> HIDE DEF after
<1>2. Routed(after, routes)
  <2> SUFFICES ASSUME NEW k \in Keys
               PROVE  k \in routes <=> after[k[1]].pending[k[2]].state # "absent"
    BY DEF Routed
  <2>1. k[1] \in Sessions /\ k[2] \in ExecIds
    BY DEF Keys
  <2>2. k \in routes <=> runs[k[1]].pending[k[2]].state # "absent"
    BY DEF RegistryOK, Routed
  <2> QED BY <1>1, <2>1, <2>2
<1>3. Named(after, hosts)
  BY <1>1 DEF RegistryOK, Named
<1>4. \A x \in Sessions : RunOK(after[x])
  BY <1>1 DEF RegistryOK
<1> QED BY <1>2, <1>3, <1>4 DEF RegistryOK, after

\* The same for a step that replaces one Run so.
LEMMA OneRunOK ==
    ASSUME TypeOK, RegistryOK(run, byExecId, byOpenCodeSessionId), NEW s \in Sessions,
           NEW r \in RunRecord, RunOK(r), r.life = run[s].life,
           \A e \in ExecIds : r.pending[e].state = "absent" <=> run[s].pending[e].state = "absent",
           run' = [run EXCEPT ![s] = r], UNCHANGED <<byExecId, byOpenCodeSessionId>>
    PROVE  RegistryOK(run, byExecId, byOpenCodeSessionId)'
<1>1. /\ run \in [Sessions -> RunRecord]
      /\ byExecId \in SUBSET Keys
      /\ byOpenCodeSessionId \in [Hosts -> Sessions \cup {None}]
  BY DEF TypeOK
<1>2. RegistryOK([run EXCEPT ![s] = r], byExecId, byOpenCodeSessionId)
  BY <1>1, SameExecsOK
<1> QED BY <1>2

\* A completed delivery keeps the indexes.
LEMMA DeliveredOK ==
    ASSUME TypeOK, RegistryOK(run, byExecId, byOpenCodeSessionId), NEW c \in Callers,
           deliveries[c].key \in Keys, Delivered(c)
    PROVE  RegistryOK(run, byExecId, byOpenCodeSessionId)'
<1> DEFINE s == deliveries[c].key[1]
           e == deliveries[c].key[2]
           answered == run[s].answeredContinuation \/ run[s].pending[e].kind = "answered"
           after == [run[s] EXCEPT !.answeredContinuation = answered]
<1>1. s \in Sessions /\ e \in ExecIds
  BY DEF Keys
<1>2. run[s] \in RunRecord /\ RunOK(run[s])
  BY <1>1, RunFields DEF RegistryOK
<1>3. answered \in BOOLEAN
  BY <1>2 DEF RunRecord
<1>4. run' = [run EXCEPT ![s] = Without(after, {e})]
  BY DEF Delivered
<1>5. byExecId' = byExecId \ ({s} \X {e}) /\ UNCHANGED byOpenCodeSessionId
  BY DEF Delivered
<1> HIDE DEF answered
<1>6. /\ after \in RunRecord
      /\ after.pending = run[s].pending /\ after.life = run[s].life
      /\ after.timer = run[s].timer /\ after.pumpOwner = run[s].pumpOwner
      /\ after.deferred = run[s].deferred /\ after.heartbeat = run[s].heartbeat
  BY <1>2, <1>3 DEF RunRecord
<1> HIDE DEF after, s, e
<1>7. RunOK(after)
  BY <1>2, <1>6 DEF RunOK, Present
<1>8. /\ Without(after, {e}) \in RunRecord
      /\ RunOK(Without(after, {e}))
      /\ Without(after, {e}).life = run[s].life
      /\ \A x \in ExecIds : Without(after, {e}).pending[x] =
                               IF x \in {e} THEN Absent ELSE run[s].pending[x]
  BY <1>6, <1>7, WithoutOK, WithoutTyped
<1> QED BY <1>1, <1>4, <1>5, <1>8, TakenOutOK

\* Every step of a delivery keeps the indexes.
LEMMA DeliveryOK ==
    ASSUME TypeOK, ActiveKeys, RegistryOK(run, byExecId, byOpenCodeSessionId),
           NEW c \in Callers, DeliveryStep(c)
    PROVE  RegistryOK(run, byExecId, byOpenCodeSessionId)'
<1> DEFINE d == deliveries[c]
           Goal == RegistryOK(run, byExecId, byOpenCodeSessionId)'
<1>0. d.pc # "idle" => d.key \in Keys /\ d.key[1] \in Sessions
  BY DEF ActiveKeys, Keys
<1>1. UNCHANGED registry => Goal
  BY DEF registry, RegistryOK, Routed, Named
<1>2. d.pc # "idle" /\ Unavailable(c) => Goal
  BY <1>0, ReclassifyOK DEF Unavailable
<1>3. d.pc # "idle" /\ (\E n : WriteFailed(c, n)) => Goal
  BY <1>0, <1>2, CloseOK DEF WriteFailed
<1>4. d.pc # "idle" /\ Delivered(c) => Goal
  BY <1>0, DeliveredOK
<1>5. d.pc # "idle" /\ (\E why : Close(d.key[1], why)) => Goal
  BY <1>0, CloseOK
<1> HIDE DEF Goal
<1>6. \A n, b : StartDelivery(c, n, b) => Goal
  BY <1>1, <1>2, <1>3, <1>4, <1>5 DEF StartDelivery
<1>7. EncodingFails(c) => Goal
  BY <1>5 DEF EncodingFails
<1>8. SendFrame(c) => Goal
  BY <1>1 DEF SendFrame
<1>9. FrameRefused(c) \/ DrainFails(c) => Goal
  BY <1>3 DEF FrameRefused, DrainFails
<1>10. FrameDrained(c) => Goal
  BY <1>1, <1>2, <1>4 DEF FrameDrained
<1>11. Goal
  BY <1>6, <1>7, <1>8, <1>9, <1>10 DEF DeliveryStep
<1> QED BY <1>11 DEF Goal

\* Registering an exec adds its route with it.
LEMMA RegisterPendingOK ==
    ASSUME TypeOK, RegistryOK(run, byExecId, byOpenCodeSessionId), NEW s \in Sessions,
           NEW e \in ExecIds, NEW kind \in Kinds, RegisterPending(s, e, kind)
    PROVE  RegistryOK(run, byExecId, byOpenCodeSessionId)'
<1> DEFINE p == [state |-> "pending", kind |-> kind, aborted |-> FALSE, lapsed |-> FALSE,
                 id |-> registrations[<<s, e>>] + 1]
           q == [run[s] EXCEPT !.pending[e] = p]
           r == ScheduleHardDeadline(q)
<1>1. run[s] \in RunRecord /\ run[s].pending \in [ExecIds -> PendingExec] /\ RunOK(run[s])
  BY RunFields DEF RegistryOK
<1>2. run[s].life = "open"
  BY DEF RegisterPending
<1>3. run' = [run EXCEPT ![s] = r]
  BY DEF RegisterPending
<1>4. /\ \A x \in ExecIds : q.pending[x] = IF x = e THEN p ELSE run[s].pending[x]
      /\ q.life = "open" /\ DOMAIN q = DOMAIN run[s] /\ "timer" \in DOMAIN run[s]
  BY <1>1, <1>2 DEF RunRecord
<1>5. Present(q) # {}
  BY <1>4 DEF Present
<1> HIDE DEF q
<1>6. /\ r.pending = q.pending /\ r.life = "open"
      /\ r.timer = (q.life = "open" /\ Present(q) # {})
  <2>1. r.pending = q.pending /\ r.life = "open"
    BY <1>4 DEF ScheduleHardDeadline
  <2>2. r.timer = (q.life = "open" /\ Present(q) # {})
    BY <1>4, Zenon DEF ScheduleHardDeadline
  <2> QED BY <2>1, <2>2
<1>7. Present(r) # {}
  BY <1>5, <1>6 DEF Present
<1>8. RunOK(r)
  BY <1>4, <1>5, <1>6, <1>7 DEF RunOK
<1> HIDE DEF r
<1>9. \A x \in Sessions : run'[x] = IF x = s THEN r ELSE run[x]
  BY <1>3 DEF TypeOK
<1>10. Routed(run', byExecId')
  <2> SUFFICES ASSUME NEW k \in Keys
               PROVE  k \in byExecId' <=> run'[k[1]].pending[k[2]].state # "absent"
    BY DEF Routed, TypeOK, RegisterPending, Keys
  <2>1. k[1] \in Sessions /\ k[2] \in ExecIds /\ k = <<k[1], k[2]>>
    BY DEF Keys
  <2>2. k \in byExecId <=> run[k[1]].pending[k[2]].state # "absent"
    BY DEF RegistryOK, Routed
  <2>3. byExecId' = byExecId \cup {<<s, e>>}
    BY DEF RegisterPending
  <2>4. k \in byExecId' <=> k \in byExecId \/ (k[1] = s /\ k[2] = e)
    BY <2>1, <2>3
  <2>5. k[1] # s => run'[k[1]] = run[k[1]]
    BY <1>9, <2>1
  <2>6. k[1] = s => run'[k[1]].pending[k[2]] = IF k[2] = e THEN p ELSE run[s].pending[k[2]]
    <3> HIDE DEF p
    <3> QED BY <1>4, <1>6, <1>9, <2>1
  <2> QED BY <2>2, <2>4, <2>5, <2>6
<1>11. Named(run', byOpenCodeSessionId')
  <2>1. byOpenCodeSessionId' = byOpenCodeSessionId
    BY DEF RegisterPending
  <2>2. byOpenCodeSessionId \in [Hosts -> Sessions \cup {None}]
    BY DEF TypeOK
  <2>3. Named(run, byOpenCodeSessionId)
    BY DEF RegistryOK
  <2> QED BY <1>2, <1>6, <1>9, <2>1, <2>2, <2>3 DEF Named
<1>12. \A x \in Sessions : RunOK(run'[x])
  BY <1>8, <1>9 DEF RegistryOK
<1> QED BY <1>10, <1>11, <1>12 DEF RegistryOK

\* Changing what is known of one exec, but not whether it is pending, keeps
\* the Run well-formed.
LEMMA EditedOK ==
    ASSUME NEW r \in RunRecord, RunOK(r), NEW e \in ExecIds, NEW p \in PendingExec,
           p.state = "absent" <=> r.pending[e].state = "absent"
    PROVE  /\ [r EXCEPT !.pending[e] = p] \in RunRecord
           /\ RunOK([r EXCEPT !.pending[e] = p])
           /\ [r EXCEPT !.pending[e] = p].life = r.life
           /\ \A x \in ExecIds : [r EXCEPT !.pending[e] = p].pending[x].state = "absent"
                                    <=> r.pending[x].state = "absent"
<1> DEFINE q == [r EXCEPT !.pending[e] = p]
<1>1. r.pending \in [ExecIds -> PendingExec]
  BY DEF RunRecord
<1>2. /\ q \in RunRecord /\ q.life = r.life /\ q.timer = r.timer /\ q.pumpOwner = r.pumpOwner
      /\ q.deferred = r.deferred /\ q.heartbeat = r.heartbeat
      /\ q.pending = [r.pending EXCEPT ![e] = p]
  BY <1>1 DEF RunRecord
<1> HIDE DEF q
<1>3. \A x \in ExecIds : q.pending[x].state = "absent" <=> r.pending[x].state = "absent"
  BY <1>1, <1>2
<1>4. Present(q) = Present(r)
  BY <1>3 DEF Present
<1>5. RunOK(q)
  BY <1>2, <1>4 DEF RunOK
<1> QED BY <1>2, <1>3, <1>5 DEF q

\* Every step about one exec keeps the indexes.
LEMMA ExecOK ==
    ASSUME TypeOK, RegistryOK(run, byExecId, byOpenCodeSessionId), NEW s \in Sessions,
           NEW e \in ExecIds, ExecStep(s, e)
    PROVE  RegistryOK(run, byExecId, byOpenCodeSessionId)'
<1> DEFINE p == run[s].pending[e]
<1>0. /\ run[s] \in RunRecord /\ RunOK(run[s])
      /\ run[s].pending \in [ExecIds -> PendingExec] /\ p \in PendingExec
  BY RunFields DEF RegistryOK
<1>1. ASSUME NEW q \in PendingExec, q.state = "absent" <=> p.state = "absent",
             run' = [run EXCEPT ![s] = [run[s] EXCEPT !.pending[e] = q]],
             UNCHANGED <<byExecId, byOpenCodeSessionId>>
      PROVE  RegistryOK(run, byExecId, byOpenCodeSessionId)'
  <2> DEFINE r == [run[s] EXCEPT !.pending[e] = q]
  <2>1. /\ r \in RunRecord /\ RunOK(r) /\ r.life = run[s].life
        /\ \A x \in ExecIds : r.pending[x].state = "absent" <=> run[s].pending[x].state = "absent"
    BY <1>0, <1>1, EditedOK
  <2>2. run' = [run EXCEPT ![s] = r]
    BY <1>1
  <2> HIDE DEF r
  <2> QED BY <1>1, <2>1, <2>2, OneRunOK
<1>2. CASE ForgetHeldExec(s, e)
  <2>1. /\ Without(run[s], {e}) \in RunRecord
        /\ RunOK(Without(run[s], {e}))
        /\ Without(run[s], {e}).life = run[s].life
        /\ \A x \in ExecIds : Without(run[s], {e}).pending[x] =
                                 IF x \in {e} THEN Absent ELSE run[s].pending[x]
    BY <1>0, WithoutOK, WithoutTyped
  <2>2. run' = [run EXCEPT ![s] = Without(run[s], {e})]
    BY <1>2 DEF ForgetHeldExec, TypeOK
  <2>3. byExecId' = byExecId \ ({s} \X {e}) /\ UNCHANGED byOpenCodeSessionId
    BY <1>2 DEF ForgetHeldExec
  <2> QED BY <2>1, <2>2, <2>3, TakenOutOK
<1>3. CASE MarkExecAborted(s, e)
  <2> DEFINE q == [p EXCEPT !.aborted = TRUE]
  <2>1. q \in PendingExec /\ q.state = p.state
    BY <1>0 DEF PendingExec
  <2>2. run' = [run EXCEPT ![s] = [run[s] EXCEPT !.pending[e] = q]]
    BY <1>3 DEF MarkExecAborted, TypeOK
  <2>3. UNCHANGED <<byExecId, byOpenCodeSessionId>>
    BY <1>3 DEF MarkExecAborted
  <2> HIDE DEF q
  <2> QED BY <1>1, <2>1, <2>2, <2>3
<1>4. CASE Resolve(s, e)
  BY <1>4, DropOK DEF Resolve
<1>5. CASE Classify(s, e)
  BY <1>5, ReclassifyOK DEF Classify
<1>6. CASE LeaseLapses(s, e)
  <2> DEFINE q == [p EXCEPT !.lapsed = TRUE]
  <2>1. q \in PendingExec /\ q.state = p.state
    BY <1>0 DEF PendingExec
  <2>2. run' = [run EXCEPT ![s] = [run[s] EXCEPT !.pending[e] = q]]
    BY <1>6 DEF LeaseLapses, TypeOK
  <2>3. UNCHANGED <<byExecId, byOpenCodeSessionId>>
    BY <1>6 DEF LeaseLapses
  <2> HIDE DEF q
  <2> QED BY <1>1, <2>1, <2>2, <2>3
<1>7. CASE ForgetTombstone(<<s, e>>)
  BY <1>7 DEF ForgetTombstone, RegistryOK, Routed, Named
<1>8. ASSUME NEW c \in Callers, Claim(c, s, e)
      PROVE  RegistryOK(run, byExecId, byOpenCodeSessionId)'
  <2> DEFINE q == [p EXCEPT !.state = "claimed"]
  <2>1. q \in PendingExec /\ q.state = "claimed"
    BY <1>0 DEF PendingExec
  <2>2. run' = [run EXCEPT ![s] = [run[s] EXCEPT !.pending[e] = q]] /\ p.state = "pending"
    BY <1>8 DEF Claim, TypeOK
  <2>3. UNCHANGED <<byExecId, byOpenCodeSessionId>>
    BY <1>8 DEF Claim
  <2> HIDE DEF q
  <2> QED BY <1>1, <2>1, <2>2, <2>3
<1> QED BY <1>2, <1>3, <1>4, <1>5, <1>6, <1>7, <1>8, RegisterPendingOK DEF ExecStep

\* A Run that differs only in what RunOK and the indexes ignore.
LEMMA AlikeOK ==
    ASSUME NEW r \in RunRecord, RunOK(r), NEW q \in RunRecord,
           q.life = r.life, q.pending = r.pending, q.timer = r.timer,
           q.life # "open" => q.pumpOwner = None /\ q.deferred = "none" /\ q.heartbeat = "off"
    PROVE  RunOK(q)
<1>1. Present(q) = Present(r)
  BY DEF Present
<1> QED BY <1>1 DEF RunOK

\* A step that makes one Run into a Run alike keeps the indexes.
LEMMA AlikeStep ==
    ASSUME TypeOK, RegistryOK(run, byExecId, byOpenCodeSessionId), NEW s \in Sessions,
           NEW q \in RunRecord,
           q.life = run[s].life, q.pending = run[s].pending, q.timer = run[s].timer,
           q.life # "open" => q.pumpOwner = None /\ q.deferred = "none" /\ q.heartbeat = "off",
           run' = [run EXCEPT ![s] = q], UNCHANGED <<byExecId, byOpenCodeSessionId>>
    PROVE  RegistryOK(run, byExecId, byOpenCodeSessionId)'
<1>1. run[s] \in RunRecord /\ RunOK(run[s])
  BY RunFields DEF RegistryOK
<1>2. RunOK(q)
  BY <1>1, AlikeOK
<1> QED BY <1>2, OneRunOK

\* Ending a pump keeps the indexes.
LEMMA EndPumpOK ==
    ASSUME TypeOK, RegistryOK(run, byExecId, byOpenCodeSessionId), NEW o \in Pumps,
           EndPump(o) \/ EndDrain(o)
    PROVE  RegistryOK(run, byExecId, byOpenCodeSessionId)'
<1> DEFINE s == pumps[o]
           ended == [run[s] EXCEPT !.pumpOwner = None, !.deferred = "none"]
           hold == run[s].deferred = "remote-clean-close" /\ HoldsOnlyAnsweredWork(run[s])
           after == IF hold THEN HoldAfterCleanClose(ended) ELSE ended
           base == [run EXCEPT ![s] = after]
           keeps == Present(run[s]) # {} \/ run[s].interrupted
           why == IF run[s].deferred # "none" /\ ~hold /\ ~run[s].interrupted
                  THEN run[s].deferred ELSE "ordinary-cleanup"
           pumpWhy == [x \in {y \in {s} : ~keeps \/ why # "ordinary-cleanup"} |-> why]
           drainWhy == [x \in {y \in {s} : run[s].deferred # "none" /\ ~hold /\ ~run[s].interrupted}
                          |-> run[s].deferred]
<1>1. \/ UNCHANGED registry
      \/ /\ run[s].pumpOwner = o
         /\ \/ CloseAll(pumpWhy, base, byExecId, byOpenCodeSessionId, tombstones)
            \/ CloseAll(drainWhy, base, byExecId, byOpenCodeSessionId, tombstones)
  BY DEF EndPump, EndDrain
<1>2. CASE UNCHANGED registry
  BY <1>2 DEF registry, RegistryOK, Routed, Named
<1>3. CASE ~UNCHANGED registry
  <2>1. s \in Sessions /\ run[s] \in RunRecord /\ RunOK(run[s])
    <3>1. s \in Sessions
      BY DEF EndPump, EndDrain, TypeOK
    <3> QED BY <3>1, RunFields DEF RegistryOK
  <2>2. run[s].life = "open"
    BY <1>1, <1>3, <2>1, HostsAssumption DEF RunOK
  <2>3. /\ ended \in RunRecord /\ ended.life = "open"
        /\ ended.pending = run[s].pending /\ ended.timer = run[s].timer
    BY <2>1, <2>2 DEF RunRecord
  <2>4. /\ HoldAfterCleanClose(ended) \in RunRecord /\ HoldAfterCleanClose(ended).life = "open"
        /\ HoldAfterCleanClose(ended).pending = run[s].pending
        /\ HoldAfterCleanClose(ended).timer = run[s].timer
    <3> HIDE DEF ended
    <3> QED BY <2>3 DEF HoldAfterCleanClose, RunRecord
  <2>5. /\ after \in RunRecord /\ after.life = "open"
        /\ after.pending = run[s].pending /\ after.timer = run[s].timer
    <3> HIDE DEF ended, hold
    <3> QED BY <2>3, <2>4
  <2> HIDE DEF after
  <2>6. RunOK(after)
    BY <2>1, <2>2, <2>5, AlikeOK
  <2>7. /\ run \in [Sessions -> RunRecord] /\ byExecId \in SUBSET Keys
        /\ byOpenCodeSessionId \in [Hosts -> Sessions \cup {None}]
    BY DEF TypeOK
  <2>8. RegistryOK(base, byExecId, byOpenCodeSessionId)
    BY <2>1, <2>2, <2>5, <2>6, <2>7, SameExecsOK
  <2>9. base \in [Sessions -> RunRecord]
    BY <2>5, <2>7
  <2> HIDE DEF base, pumpWhy, drainWhy, s
  <2> QED BY <1>1, <1>3, <2>7, <2>8, <2>9, CloseAllOK
<1> QED BY <1>2, <1>3

\* Every step of a pump keeps the indexes.
LEMMA PumpOK ==
    ASSUME TypeOK, RegistryOK(run, byExecId, byOpenCodeSessionId), NEW o \in Pumps, PumpStep(o)
    PROVE  RegistryOK(run, byExecId, byOpenCodeSessionId)'
<1>1. ASSUME NEW s \in Sessions, BeginPump(o, s)
      PROVE  RegistryOK(run, byExecId, byOpenCodeSessionId)'
  <2> DEFINE q == [run[s] EXCEPT !.pumpOwner = o, !.answeredContinuation = FALSE]
  <2>1. /\ q \in RunRecord /\ q.life = run[s].life /\ q.pending = run[s].pending
        /\ q.timer = run[s].timer
    BY RunFields DEF RunRecord
  <2>2. run' = [run EXCEPT ![s] = q] /\ run[s].life = "open"
    BY <1>1 DEF BeginPump, TypeOK
  <2>3. UNCHANGED <<byExecId, byOpenCodeSessionId>>
    BY <1>1 DEF BeginPump
  <2> HIDE DEF q
  <2> QED BY <2>1, <2>2, <2>3, AlikeStep
<1>2. ASSUME NEW why \in PumpReasons, PumpCloses(o, why)
      PROVE  RegistryOK(run, byExecId, byOpenCodeSessionId)'
  <2>1. pumps[o] \in Sessions
    BY <1>2 DEF PumpCloses, TypeOK
  <2> QED BY <1>2, <2>1, CloseOK DEF PumpCloses
<1>3. CASE ReplaceStream(o)
  <2> DEFINE s == pumps[o]
             n == run[s].epoch + 1
             q == [run[s] EXCEPT !.stream = "live", !.settled = FALSE, !.epoch = n,
                                 !.deferred = "none", !.heartbeat = "idle"]
  <2>1. s \in Sessions
    BY <1>3 DEF ReplaceStream, TypeOK
  <2>2. run[s] \in RunRecord /\ n \in Nat /\ RunOK(run[s])
    BY <2>1, RunFields DEF RegistryOK
  <2>3. /\ q \in RunRecord /\ q.life = run[s].life /\ q.pending = run[s].pending
        /\ q.timer = run[s].timer
    <3> HIDE DEF n
    <3> QED BY <2>2 DEF RunRecord
  <2>4. run' = [run EXCEPT ![s] = q]
    BY <1>3, <2>1 DEF ReplaceStream, TypeOK
  <2>5. run[s].life = "open"
    BY <1>3, <2>2, HostsAssumption DEF ReplaceStream, RunOK
  <2>6. UNCHANGED <<byExecId, byOpenCodeSessionId>>
    BY <1>3 DEF ReplaceStream
  <2> HIDE DEF q, s
  <2> QED BY <2>1, <2>3, <2>4, <2>5, <2>6, AlikeStep
<1> QED BY <1>1, <1>2, <1>3, EndPumpOK DEF PumpStep

\* Opening a Run keeps the indexes, whatever it settles, supersedes or evicts.
LEMMA RegisterOK ==
    ASSUME TypeOK, RegistryOK(run, byExecId, byOpenCodeSessionId), NEW s \in Sessions,
           RegisterSession(s)
    PROVE  RegistryOK(run, byExecId, byOpenCodeSessionId)'
<1> DEFINE host == HostOf[s]
           prior == IF host = None THEN None ELSE byOpenCodeSessionId[host]
           idlePrior == {x \in {prior} \cap Sessions : run[x].life = "open" /\ ~Pumping(run[x])}
           n == Cardinality({y \in Sessions : run[y].life # "new"})
           opened == [run[s] EXCEPT !.life = "open", !.heartbeat = "idle", !.createdAt = n]
           base == [x \in Sessions |->
              IF x = s
              THEN [run[x] EXCEPT !.life = "open", !.heartbeat = "idle",
                       !.createdAt = Cardinality({y \in Sessions : run[y].life # "new"})]
              ELSE IF x \in idlePrior THEN SettleBridged(run[x]) ELSE run[x]]
           settled == {k \in Keys : k[1] \in idlePrior /\ k[2] \in Settleable(run[k[1]])}
           superseded == {x \in idlePrior : Present(base[x]) = {}}
           open == {x \in Sessions : base[x].life = "open"} \ superseded
           evictable == {x \in open \ {s} : Evictable(base[x])}
           evicted == {x \in evictable :
              Cardinality({y \in evictable : base[y].createdAt < base[x].createdAt}) < Excess(open)}
           ended == {x \in {s} : run[x].settled}
           why == [x \in superseded \cup evicted \cup ended |->
                       IF x = s THEN StreamReason(run[x])
                       ELSE IF x \in superseded THEN "superseded-by-new-run"
                       ELSE "open-session-cap-exceeded"]
           hosts == [h \in Hosts |-> IF h = host THEN s ELSE byOpenCodeSessionId[h]]
           stones == [k \in Keys |-> IF k \in settled THEN "delivered" ELSE tombstones[k]]
<1>1. CloseAll(why, base, byExecId \ settled, hosts, stones)
  BY DEF RegisterSession
<1>2. run[s].life = "new"
  BY DEF RegisterSession
<1>3. \A x \in Sessions : run[x] \in RunRecord /\ RunOK(run[x])
  BY RunFields DEF RegistryOK
<1>4. n \in Nat
  BY SessionsFinite, FS_Subset, FS_CardinalityType
<1>5. /\ opened \in RunRecord /\ opened.life = "open" /\ opened.pending = run[s].pending
      /\ opened.timer = run[s].timer /\ opened.timer = FALSE /\ Present(run[s]) = {}
  <2> HIDE DEF n
  <2>1. /\ opened \in RunRecord /\ opened.life = "open" /\ opened.pending = run[s].pending
        /\ opened.timer = run[s].timer
    BY <1>3, <1>4 DEF RunRecord
  <2>2. ~run[s].timer /\ run[s].timer \in BOOLEAN
    BY <1>2, <1>3 DEF RunOK, RunRecord
  <2>3. Present(run[s]) = {}
    BY <1>2, <1>3 DEF RunOK
  <2> QED BY <2>1, <2>2, <2>3
<1>6. base[s] = opened
  OBVIOUS
<1> HIDE DEF opened
<1>7. RunOK(opened)
  <2>1. Present(opened) = {}
    BY <1>5 DEF Present
  <2> QED BY <1>5, <2>1 DEF RunOK
<1>8. \A x \in Sessions \ {s} : base[x] = IF x \in idlePrior THEN SettleBridged(run[x]) ELSE run[x]
  OBVIOUS
<1>9. base \in [Sessions -> RunRecord]
  <2>1. \A x \in Sessions : base[x] \in RunRecord
    BY <1>3, <1>5, <1>6, <1>8, SettleTyped
  <2>2. base = [x \in Sessions |-> base[x]]
    OBVIOUS
  <2> HIDE DEF base
  <2> QED BY <2>1, <2>2
<1>10. s \notin idlePrior
  BY <1>2
<1> HIDE DEF base, idlePrior
<1>11. \A x \in Sessions : RunOK(base[x])
  BY <1>3, <1>6, <1>7, <1>8, SettleOK
<1>12. Routed(base, byExecId \ settled)
  <2> SUFFICES ASSUME NEW k \in Keys
               PROVE  k \in byExecId \ settled <=> base[k[1]].pending[k[2]].state # "absent"
    BY DEF Routed, RegistryOK
  <2>1. k[1] \in Sessions /\ k[2] \in ExecIds
    BY DEF Keys
  <2>2. k \in byExecId <=> run[k[1]].pending[k[2]].state # "absent"
    BY DEF RegistryOK, Routed
  <2>3. CASE k[1] = s
    BY <1>5, <1>6, <1>10, <2>1, <2>2, <2>3
  <2>4. CASE k[1] # s /\ k[1] \in idlePrior
    <3>1. base[k[1]].pending[k[2]] =
             IF k[2] \in Settleable(run[k[1]]) THEN Absent ELSE run[k[1]].pending[k[2]]
      BY <1>3, <1>8, <2>1, <2>4, SettleOK
    <3> QED BY <2>2, <2>4, <3>1 DEF Absent
  <2>5. CASE k[1] # s /\ k[1] \notin idlePrior
    BY <1>8, <2>1, <2>2, <2>5
  <2> QED BY <2>3, <2>4, <2>5
<1>13. \A x \in Sessions \ {s} : base[x].life = run[x].life
  BY <1>3, <1>8, SettleOK
<1>14. Named(base, hosts)
  <2>1. Named(run, byOpenCodeSessionId) /\ byOpenCodeSessionId \in [Hosts -> Sessions \cup {None}]
    BY DEF RegistryOK, TypeOK
  <2>2. host = None \/ host \in Hosts
    BY HostOfAssumption
  <2> QED BY <1>5, <1>6, <1>13, <2>1, <2>2 DEF Named
<1>15. RegistryOK(base, byExecId \ settled, hosts)
  BY <1>11, <1>12, <1>14 DEF RegistryOK
<1>16. hosts \in [Hosts -> Sessions \cup {None}]
  BY DEF TypeOK
<1> HIDE DEF settled, hosts, stones, why
<1> QED BY <1>1, <1>9, <1>15, <1>16, CloseAllOK

\* The terminal event of a stream keeps the indexes.
LEMMA TerminalOK ==
    ASSUME TypeOK, RegistryOK(run, byExecId, byOpenCodeSessionId), NEW s \in Sessions,
           TerminalAnnounced(s)
    PROVE  RegistryOK(run, byExecId, byOpenCodeSessionId)'
<1> DEFINE heard == [run EXCEPT ![s].settled = TRUE]
           r == heard[s]
           why == StreamReason(r)
           w == [x \in {s} |-> why]
<1>0. run[s] \in RunRecord /\ RunOK(run[s])
  BY RunFields DEF RegistryOK
<1>1. /\ r = [run[s] EXCEPT !.settled = TRUE]
      /\ heard = [run EXCEPT ![s] = r]
  BY DEF TypeOK
<1>2. /\ r \in RunRecord /\ r.life = run[s].life /\ r.pending = run[s].pending
      /\ r.timer = run[s].timer /\ r.pumpOwner = run[s].pumpOwner /\ r.deferred = run[s].deferred
      /\ r.heartbeat = run[s].heartbeat
  <2> HIDE DEF r
  <2> QED BY <1>0, <1>1 DEF RunRecord
<1>3. why \in {"remote-error", "remote-clean-close"}
  BY DEF StreamReason
<1> HIDE DEF r, why
<1>4. ASSUME NEW q \in RunRecord, q.life = r.life, q.pending = r.pending, q.timer = r.timer,
             q.life = "open", run' = [run EXCEPT ![s] = q],
             UNCHANGED <<byExecId, byOpenCodeSessionId>>
      PROVE  RegistryOK(run, byExecId, byOpenCodeSessionId)'
  BY <1>2, <1>4, AlikeStep
<1>5. RunOK(r)
  BY <1>0, <1>2, AlikeOK DEF RunOK
<1>6. /\ heard \in [Sessions -> RunRecord]
      /\ RegistryOK(heard, byExecId, byOpenCodeSessionId)
  <2>1. /\ run \in [Sessions -> RunRecord] /\ byExecId \in SUBSET Keys
        /\ byOpenCodeSessionId \in [Hosts -> Sessions \cup {None}]
    BY DEF TypeOK
  <2> HIDE DEF heard
  <2>2. RegistryOK([run EXCEPT ![s] = r], byExecId, byOpenCodeSessionId)
    BY <1>2, <1>5, <2>1, SameExecsOK
  <2> QED BY <1>1, <1>2, <2>1, <2>2
<1>7. CASE run' = heard /\ UNCHANGED <<byExecId, byOpenCodeSessionId>>
  BY <1>6, <1>7
<1>8. CASE /\ r.life = "open" /\ run' = [heard EXCEPT ![s] = HoldAfterCleanClose(r)]
           /\ UNCHANGED <<byExecId, byOpenCodeSessionId>>
  <2> DEFINE q == HoldAfterCleanClose(r)
  <2>1. q \in RunRecord /\ q.life = r.life /\ q.pending = r.pending /\ q.timer = r.timer
    BY <1>2 DEF HoldAfterCleanClose, RunRecord
  <2>2. run' = [run EXCEPT ![s] = q]
    BY <1>1, <1>8
  <2> HIDE DEF q
  <2> QED BY <1>4, <1>8, <2>1, <2>2
<1>9. CASE /\ r.life = "open" /\ run' = [heard EXCEPT ![s].deferred = why]
           /\ UNCHANGED <<byExecId, byOpenCodeSessionId>>
  <2> DEFINE q == [r EXCEPT !.deferred = why]
  <2>1. q \in RunRecord /\ q.life = r.life /\ q.pending = r.pending /\ q.timer = r.timer
    BY <1>2, <1>3 DEF RunRecord
  <2>2. heard[s] = r
    BY DEF r
  <2>3. run' = [run EXCEPT ![s] = q]
    BY <1>1, <1>9, <2>2
  <2> HIDE DEF q
  <2> QED BY <1>4, <1>9, <2>1, <2>3
<1>10. CASE CloseAll(w, heard, byExecId, byOpenCodeSessionId, tombstones)
  <2>1. byOpenCodeSessionId \in [Hosts -> Sessions \cup {None}]
    BY DEF TypeOK
  <2> HIDE DEF heard, w
  <2> QED BY <1>6, <1>10, <2>1, CloseAllOK
<1> QED BY <1>7, <1>8, <1>9, <1>10 DEF TerminalAnnounced, r, why

\* Every step of a Run's stream, heartbeat, clock and cancel keeps the indexes.
LEMMA RunStepOK ==
    ASSUME TypeOK, RegistryOK(run, byExecId, byOpenCodeSessionId), NEW s \in Sessions, RunStep(s)
    PROVE  RegistryOK(run, byExecId, byOpenCodeSessionId)'
<1>0. run[s] \in RunRecord /\ RunOK(run[s]) /\ run[s].pending \in [ExecIds -> PendingExec]
  BY RunFields DEF RegistryOK
<1>1. ASSUME NEW q \in RunRecord, q.life = run[s].life, q.pending = run[s].pending,
             q.timer = run[s].timer, q.pumpOwner = run[s].pumpOwner,
             q.deferred = run[s].deferred,
             q.heartbeat = run[s].heartbeat \/ run[s].life = "open",
             run' = [run EXCEPT ![s] = q], UNCHANGED <<byExecId, byOpenCodeSessionId>>
      PROVE  RegistryOK(run, byExecId, byOpenCodeSessionId)'
  BY <1>0, <1>1, AlikeStep DEF RunOK
<1>2. ASSUME NEW how \in {"ended", "failed"}, StreamEnds(s, how)
      PROVE  RegistryOK(run, byExecId, byOpenCodeSessionId)'
  <2> DEFINE q == [run[s] EXCEPT !.stream = how]
  <2>1. /\ q \in RunRecord /\ q.life = run[s].life /\ q.pending = run[s].pending
        /\ q.timer = run[s].timer /\ q.pumpOwner = run[s].pumpOwner
        /\ q.deferred = run[s].deferred /\ q.heartbeat = run[s].heartbeat
    BY <1>0 DEF RunRecord
  <2>2. run' = [run EXCEPT ![s] = q] /\ UNCHANGED <<byExecId, byOpenCodeSessionId>>
    BY <1>2 DEF StreamEnds, TypeOK
  <2> HIDE DEF q
  <2> QED BY <1>1, <2>1, <2>2
<1>3. CASE HeartbeatTick(s) \/ HeartbeatWritten(s)
  <2> DEFINE how == IF HeartbeatTick(s) THEN "writing" ELSE "idle"
             q == [run[s] EXCEPT !.heartbeat = how]
  <2>1. how \in {"idle", "writing"} /\ run' = [run EXCEPT ![s] = q]
        /\ UNCHANGED <<byExecId, byOpenCodeSessionId>> /\ run[s].heartbeat # "off"
    BY <1>3 DEF HeartbeatTick, HeartbeatWritten, TypeOK
  <2>2. run[s].life = "open"
    BY <1>0, <2>1 DEF RunOK
  <2> HIDE DEF how
  <2>3. /\ q \in RunRecord /\ q.life = run[s].life /\ q.pending = run[s].pending
        /\ q.timer = run[s].timer /\ q.pumpOwner = run[s].pumpOwner
        /\ q.deferred = run[s].deferred
    BY <1>0, <2>1 DEF RunRecord
  <2> HIDE DEF q
  <2> QED BY <1>1, <2>1, <2>2, <2>3
<1>4. CASE LeaseRenewed(s)
  <2> DEFINE renewed == [e \in ExecIds |-> [run[s].pending[e] EXCEPT !.lapsed = FALSE]]
             q == [run[s] EXCEPT !.pending = renewed]
  <2>1. renewed \in [ExecIds -> PendingExec]
    BY <1>0 DEF PendingExec
  <2>2. \A e \in ExecIds : renewed[e].state = run[s].pending[e].state
    BY <1>0 DEF PendingExec
  <2>3. run' = [run EXCEPT ![s] = q] /\ UNCHANGED <<byExecId, byOpenCodeSessionId>>
    BY <1>4 DEF LeaseRenewed, TypeOK
  <2> HIDE DEF renewed
  <2>4. /\ q \in RunRecord /\ q.life = run[s].life /\ q.pending = renewed
        /\ q.timer = run[s].timer /\ q.pumpOwner = run[s].pumpOwner
        /\ q.deferred = run[s].deferred /\ q.heartbeat = run[s].heartbeat
    BY <1>0, <2>1 DEF RunRecord
  <2> HIDE DEF q
  <2>5. Present(q) = Present(run[s])
    BY <2>2, <2>4 DEF Present
  <2>6. RunOK(q)
    BY <1>0, <2>4, <2>5 DEF RunOK
  <2> QED BY <2>2, <2>3, <2>4, <2>6, OneRunOK
<1>5. CASE HostStop(s)
  <2> DEFINE E == Present(run[s])
             left == Without(run[s], E)
             q == [left EXCEPT !.interrupted = TRUE, !.heartbeat = "off"]
  <2>1. /\ left \in RunRecord /\ RunOK(left) /\ left.life = run[s].life
        /\ \A e \in ExecIds : left.pending[e] = IF e \in E THEN Absent ELSE run[s].pending[e]
    BY <1>0, WithoutOK, WithoutTyped
  <2>2. /\ run[s].life = "open" /\ run' = [run EXCEPT ![s] = q]
        /\ byExecId' = byExecId \ ({s} \X E) /\ UNCHANGED byOpenCodeSessionId
    BY <1>5 DEF HostStop, TypeOK
  <2> HIDE DEF left
  <2>3. /\ q \in RunRecord /\ q.life = left.life /\ q.pending = left.pending
        /\ q.timer = left.timer
    BY <2>1 DEF RunRecord
  <2> HIDE DEF q
  <2>4. RunOK(q)
    BY <2>1, <2>2, <2>3, AlikeOK
  <2>5. /\ q.life = run[s].life
        /\ \A e \in ExecIds : q.pending[e] = IF e \in E THEN Absent ELSE run[s].pending[e]
    BY <2>1, <2>3
  <2> HIDE DEF E
  <2> QED BY <2>2, <2>3, <2>4, <2>5, TakenOutOK
<1>6. CASE AbandonPending(s)
  BY <1>6, DropOK DEF AbandonPending
<1>7. CASE HeartbeatFails(s) \/ HardDeadline(s) \/ CancelDone(s) \/ CloseUnlessPending(s)
  BY <1>7, CloseOK DEF HeartbeatFails, HardDeadline, CancelDone, CloseUnlessPending
<1> QED BY <1>2, <1>3, <1>4, <1>5, <1>6, <1>7, RegisterOK, TerminalOK DEF RunStep

\* A fresh turn, a rewritten history and the end of the process keep the indexes.
LEMMA HostOK ==
    ASSUME TypeOK, RegistryOK(run, byExecId, byOpenCodeSessionId),
           (\E h \in Hosts : HostStep(h)) \/ Dispose
    PROVE  RegistryOK(run, byExecId, byOpenCodeSessionId)'
<1>0. /\ run \in [Sessions -> RunRecord]
      /\ byOpenCodeSessionId \in [Hosts -> Sessions \cup {None}]
  BY DEF TypeOK
<1>1. ASSUME NEW h \in Hosts, SettleForFreshTurn(h)
      PROVE  RegistryOK(run, byExecId, byOpenCodeSessionId)'
  <2>1. byOpenCodeSessionId[h] \in Sessions
    BY <1>1 DEF SettleForFreshTurn, TypeOK
  <2> QED BY <1>1, <2>1, DropOK DEF SettleForFreshTurn
<1>2. ASSUME NEW h \in Hosts, HistoryRewritten(h)
      PROVE  RegistryOK(run, byExecId, byOpenCodeSessionId)'
  BY <1>0, <1>2, CloseAllOK DEF HistoryRewritten
<1>3. CASE Dispose
  \* dispose empties the routes first: every open Run then closes, and no
  \* other Run keeps an exec.
  <2> DEFINE w == [s \in {x \in Sessions : run[x].life = "open"} |-> "process-disposed"]
  <2>1. CloseAll(w, run, {}, byOpenCodeSessionId, tombstones)
    BY <1>3 DEF Dispose
  <2>2. DOMAIN w = {x \in Sessions : run[x].life = "open"}
    OBVIOUS
  <2> HIDE DEF w
  <2>3. /\ run' = [x \in Sessions |-> IF x \in DOMAIN w THEN ClosedRun(run[x], w[x]) ELSE run[x]]
        /\ byExecId' = {}
        /\ byOpenCodeSessionId' = [h \in Hosts |-> IF byOpenCodeSessionId[h] \in DOMAIN w
                                                   THEN None ELSE byOpenCodeSessionId[h]]
    BY <2>1 DEF CloseAll
  <2>4. \A x \in Sessions : RunOK(run'[x]) /\ run'[x].life # "open"
    BY <1>0, <2>2, <2>3, ClosedOK DEF RegistryOK
  <2>5. Routed(run', byExecId')
    BY <2>3, <2>4 DEF Routed, RunOK, Present, Keys
  <2>6. Named(run', byOpenCodeSessionId')
    BY <1>0, <2>2, <2>3 DEF RegistryOK, Named
  <2> QED BY <2>4, <2>5, <2>6 DEF RegistryOK
<1> QED BY <1>1, <1>2, <1>3 DEF HostStep

\* The registry starts with its indexes in agreement.
LEMMA RegistryInit == Init => RegistryOK(run, byExecId, byOpenCodeSessionId)
<1> SUFFICES ASSUME Init
             PROVE  RegistryOK(run, byExecId, byOpenCodeSessionId)
  OBVIOUS
<1>1. \A s \in Sessions : /\ run[s].life = "new" /\ run[s].timer = FALSE
                          /\ run[s].pumpOwner = None /\ run[s].deferred = "none"
                          /\ run[s].heartbeat = "off"
                          /\ \A e \in ExecIds : run[s].pending[e] = Absent
  BY DEF Init
<1>2. \A s \in Sessions : RunOK(run[s])
  BY <1>1 DEF RunOK, Present, Absent
<1>3. Routed(run, byExecId)
  BY <1>1 DEF Init, Routed, Keys, Absent
<1>4. Named(run, byOpenCodeSessionId)
  BY DEF Init, Named
<1> QED BY <1>2, <1>3, <1>4 DEF RegistryOK

\* The invariant that carries the two properties.
RegistryInv == TypeInv /\ RegistryOK(run, byExecId, byOpenCodeSessionId)

\* Every step keeps it.
LEMMA RegistryNext == RegistryInv /\ [Next]_vars => RegistryInv'
<1> SUFFICES ASSUME TypeOK, ActiveKeys, RegistryOK(run, byExecId, byOpenCodeSessionId),
                    [Next]_vars
             PROVE  RegistryOK(run, byExecId, byOpenCodeSessionId)'
  BY TypeInvNext DEF RegistryInv, TypeInv
<1>1. CASE UNCHANGED vars
  BY <1>1 DEF vars, RegistryOK, Routed, Named
<1>2. ASSUME NEW s \in Sessions, RunStep(s)
      PROVE  RegistryOK(run, byExecId, byOpenCodeSessionId)'
  BY <1>2, RunStepOK
<1>3. ASSUME NEW s \in Sessions, NEW e \in ExecIds, ExecStep(s, e)
      PROVE  RegistryOK(run, byExecId, byOpenCodeSessionId)'
  BY <1>3, ExecOK
<1>4. ASSUME NEW o \in Pumps, PumpStep(o)
      PROVE  RegistryOK(run, byExecId, byOpenCodeSessionId)'
  BY <1>4, PumpOK
<1>5. ASSUME NEW c \in Callers, DeliveryStep(c)
      PROVE  RegistryOK(run, byExecId, byOpenCodeSessionId)'
  BY <1>5, DeliveryOK
<1>6. CASE (\E h \in Hosts : HostStep(h)) \/ Dispose
  BY <1>6, HostOK
<1> QED BY <1>1, <1>2, <1>3, <1>4, <1>5, <1>6 DEF Next

\* The routes by exec, the index by OpenCode session and the sessions' own
\* maps agree after any history, and a Run that is not open keeps nothing.
THEOREM IndexesCorrect == Spec => []IndexesAgree
<1>1. Init => RegistryInv
  BY TypeInvInit, RegistryInit DEF RegistryInv
<1>2. RegistryInv => IndexesAgree
  BY RegistryOKSplit DEF RegistryInv
<1> QED BY <1>1, <1>2, RegistryNext, PTL DEF Spec

\* A Run that owes Cursor a result is always watched by its deadline timer,
\* and one that owes nothing never is.
THEOREM LeaseAlwaysWatched == Spec => []LeaseWatched
<1>1. Init => RegistryInv
  BY TypeInvInit, RegistryInit DEF RegistryInv
<1>2. RegistryInv => LeaseWatched
  BY RegistryOKSplit DEF RegistryInv
<1> QED BY <1>1, <1>2, RegistryNext, PTL DEF Spec

-----------------------------------------------------------------------------
(* A result has one writer. *)

\* An exec a step does not register or claim: left alone, gone, or the same
\* registration in the same state.
Kept(p, q) == q.state = "absent" \/ (q.state = p.state /\ q.id = p.id)

Shrunk(old, new) ==
    \A s \in Sessions, e \in ExecIds : Kept(old[s].pending[e], new[s].pending[e])

\* Kept execs, with no new delivery, cannot give a result a second writer.
LEMMA ShrunkKeeps ==
    ASSUME TypeOK, WriterInv, Shrunk(run, run'), UNCHANGED <<registrations, wire>>,
           deliveries' = deliveries \/ \E c \in Callers : Retire(c)
    PROVE  WriterInv'
<1>0. /\ deliveries \in [Callers -> Delivery]
      /\ \A c \in Callers : deliveries'[c].pc # "idle" => deliveries'[c] = deliveries[c]
  BY DEF TypeOK, Retire, Idle
<1>1. \A s \in Sessions, e \in ExecIds : run'[s].pending[e].state # "absent" =>
         run'[s].pending[e].id = registrations'[<<s, e>>] /\ run'[s].pending[e].id # 0
  BY DEF Shrunk, Kept, WriterInv, ClaimsExclusive
<1>2. \A c \in Callers : deliveries'[c].pc # "idle" =>
         /\ deliveries'[c].key \in Keys
         /\ deliveries'[c].id \in 1..registrations'[deliveries'[c].key]
  BY <1>0 DEF WriterInv, ClaimsExclusive
<1>3. \A x, y \in Callers :
         x # y /\ deliveries'[x].pc # "idle" /\ deliveries'[y].pc # "idle"
         /\ deliveries'[x].key = deliveries'[y].key => deliveries'[x].id # deliveries'[y].id
  BY <1>0 DEF WriterInv, ClaimsExclusive
<1>4. ASSUME NEW c \in Callers, deliveries'[c].pc # "idle",
             run'[deliveries'[c].key[1]].pending[deliveries'[c].key[2]].state = "pending"
      PROVE  run'[deliveries'[c].key[1]].pending[deliveries'[c].key[2]].id # deliveries'[c].id
  <2>1. deliveries'[c] = deliveries[c] /\ deliveries[c].key \in Keys
    BY <1>0, <1>2, <1>4
  <2>2. deliveries[c].key[1] \in Sessions /\ deliveries[c].key[2] \in ExecIds
    BY <2>1 DEF Keys
  <2> DEFINE p == run[deliveries[c].key[1]].pending[deliveries[c].key[2]]
             q == run'[deliveries[c].key[1]].pending[deliveries[c].key[2]]
  <2>3. Kept(p, q) /\ q.state = "pending"
    BY <1>4, <2>1, <2>2 DEF Shrunk
  <2>4. p.state = "pending" => p.id # deliveries[c].id
    BY <1>4, <2>1 DEF WriterInv, ClaimsExclusive
  <2> HIDE DEF p, q
  <2>5. q.id # deliveries[c].id
    BY <2>3, <2>4 DEF Kept
  <2> QED BY <2>1, <2>5 DEF q
<1>5. \A c \in Callers :
         deliveries'[c].pc # "idle" /\ registrations'[deliveries'[c].key] = deliveries'[c].id =>
            wire'[deliveries'[c].key] =
               deliveries'[c].written + (IF deliveries'[c].pc = "draining" THEN 1 ELSE 0)
  BY <1>0 DEF WriterInv, SoleWriter
<1>6. \A s \in Sessions, e \in ExecIds :
         run'[s].pending[e].state = "pending" => wire'[<<s, e>>] = 0
  BY DEF Shrunk, Kept, WriterInv, SoleWriter
<1>7. ClaimsExclusive'
  BY <1>1, <1>2, <1>3, <1>4 DEF ClaimsExclusive
<1>8. SoleWriter'
  BY <1>5, <1>6 DEF SoleWriter
<1> QED BY <1>7, <1>8 DEF WriterInv

\* Closing Runs takes execs out, and puts none in.
LEMMA CloseAllShrinks ==
    ASSUME NEW base \in [Sessions -> RunRecord], NEW routes, NEW hosts, NEW stones, NEW why,
           Shrunk(run, base), CloseAll(why, base, routes, hosts, stones)
    PROVE  Shrunk(run, run')
<1>1. \A s \in Sessions : run'[s] = IF s \in DOMAIN why THEN ClosedRun(base[s], why[s]) ELSE base[s]
  BY DEF CloseAll
<1>2. \A s \in Sessions : s \in DOMAIN why => \A e \in ExecIds : run'[s].pending[e] = Absent
  BY <1>1, ClosedOK
<1> QED BY <1>1, <1>2 DEF Shrunk, Kept, Absent

\* Nor does a step that changes no Run.
LEMMA SameShrinks == Shrunk(run, run)
BY DEF Shrunk, Kept

\* The same for closing one Run.
LEMMA CloseShrinks ==
    ASSUME TypeOK, NEW s, NEW why, Close(s, why)
    PROVE  Shrunk(run, run')
<1>1. CASE run[s].life = "open"
  <2> DEFINE w == [x \in {s} |-> why]
  <2>1. CloseAll(w, run, byExecId, byOpenCodeSessionId, tombstones)
    BY <1>1 DEF Close
  <2>2. run \in [Sessions -> RunRecord]
    BY DEF TypeOK
  <2> HIDE DEF w
  <2> QED BY <2>1, <2>2, SameShrinks, CloseAllShrinks
<1>2. CASE run[s].life # "open"
  BY <1>2, SameShrinks DEF Close, registry
<1> QED BY <1>1, <1>2

\* The same for classify.
LEMMA ReclassifyShrinks ==
    ASSUME TypeOK, NEW s, NEW e, Reclassify(s, e)
    PROVE  Shrunk(run, run')
BY CloseShrinks, SameShrinks DEF Reclassify, registry

\* So does a step that replaces one Run by one with kept execs.
LEMMA OneRunShrinks ==
    ASSUME TypeOK, NEW s \in Sessions, NEW r, run' = [run EXCEPT ![s] = r],
           \A e \in ExecIds : Kept(run[s].pending[e], r.pending[e])
    PROVE  Shrunk(run, run')
BY DEF Shrunk, Kept, TypeOK

\* What Without leaves is kept.
LEMMA WithoutKept ==
    ASSUME NEW r \in RunRecord, NEW E, NEW e \in ExecIds
    PROVE  Kept(r.pending[e], Without(r, E).pending[e])
<1>1. Without(r, E).pending[e] = IF e \in E THEN Absent ELSE r.pending[e]
  <2> DEFINE p == [x \in ExecIds |-> IF x \in E THEN Absent ELSE r.pending[x]]
             q == [r EXCEPT !.pending = p]
  <2>1. q.pending = p
    BY DEF RunRecord
  <2>2. Without(r, E).pending = q.pending
    <3> HIDE DEF q, p
    <3> QED BY DEF Without, ScheduleHardDeadline, q, p
  <2> QED BY <2>1, <2>2
<1> QED BY <1>1 DEF Kept, Absent

\* The ways out of `pending` only take execs out.
LEMMA DropShrinks ==
    ASSUME TypeOK, NEW s \in Sessions, NEW E, NEW stone, Drop(s, E, stone)
    PROVE  Shrunk(run, run')
<1>1. run' = [run EXCEPT ![s] = Without(run[s], E)]
  BY DEF Drop
<1>2. \A e \in ExecIds : Kept(run[s].pending[e], Without(run[s], E).pending[e])
  BY RunFields, WithoutKept
<1> QED BY <1>1, <1>2, OneRunShrinks

\* So does a completed delivery.
LEMMA DeliveredShrinks ==
    ASSUME TypeOK, NEW c \in Callers, deliveries[c].key \in Keys, Delivered(c)
    PROVE  Shrunk(run, run')
<1> DEFINE s == deliveries[c].key[1]
           e == deliveries[c].key[2]
           answered == run[s].answeredContinuation \/ run[s].pending[e].kind = "answered"
           after == [run[s] EXCEPT !.answeredContinuation = answered]
<1>1. s \in Sessions /\ e \in ExecIds
  BY DEF Keys
<1>2. run[s] \in RunRecord
  BY <1>1, RunFields
<1>3. answered \in BOOLEAN
  BY <1>2 DEF RunRecord
<1>4. run' = [run EXCEPT ![s] = Without(after, {e})]
  BY DEF Delivered
<1> HIDE DEF answered
<1>5. after \in RunRecord /\ after.pending = run[s].pending
  BY <1>2, <1>3 DEF RunRecord
<1> HIDE DEF after, s, e
<1>6. \A x \in ExecIds : Kept(run[s].pending[x], Without(after, {e}).pending[x])
  BY <1>5, WithoutKept
<1> QED BY <1>1, <1>4, <1>6, OneRunShrinks

\* Opening a Run takes out only settled and closed execs.
LEMMA RegisterShrinks ==
    ASSUME TypeOK, NEW s \in Sessions, RegisterSession(s)
    PROVE  Shrunk(run, run')
<1> DEFINE host == HostOf[s]
           prior == IF host = None THEN None ELSE byOpenCodeSessionId[host]
           idlePrior == {x \in {prior} \cap Sessions : run[x].life = "open" /\ ~Pumping(run[x])}
           n == Cardinality({y \in Sessions : run[y].life # "new"})
           opened == [run[s] EXCEPT !.life = "open", !.heartbeat = "idle", !.createdAt = n]
           base == [x \in Sessions |->
              IF x = s
              THEN [run[x] EXCEPT !.life = "open", !.heartbeat = "idle",
                       !.createdAt = Cardinality({y \in Sessions : run[y].life # "new"})]
              ELSE IF x \in idlePrior THEN SettleBridged(run[x]) ELSE run[x]]
<1>1. \E why, routes, hosts, stones : CloseAll(why, base, routes, hosts, stones)
  BY DEF RegisterSession
<1>2. \A x \in Sessions : run[x] \in RunRecord
  BY RunFields
<1>3. n \in Nat
  BY SessionsFinite, FS_Subset, FS_CardinalityType
<1>4. opened \in RunRecord /\ opened.pending = run[s].pending /\ base[s] = opened
  <2>1. base[s] = opened
    OBVIOUS
  <2> HIDE DEF n, base
  <2>2. opened \in RunRecord
    BY <1>2, <1>3, OpenedTyped
  <2>3. opened.pending = run[s].pending
    BY <1>2 DEF RunRecord
  <2> QED BY <2>1, <2>2, <2>3
<1>5. \A x \in Sessions \ {s} : base[x] = SettleBridged(run[x]) \/ base[x] = run[x]
  OBVIOUS
<1>6. base = [x \in Sessions |-> base[x]]
  OBVIOUS
<1> HIDE DEF base, opened
<1>7. base \in [Sessions -> RunRecord]
  <2>1. \A x \in Sessions : base[x] \in RunRecord
    BY <1>2, <1>4, <1>5, SettleTyped
  <2> QED BY <1>6, <2>1
<1>8. Shrunk(run, base)
  <2>1. \A x \in Sessions, e \in ExecIds :
           Kept(run[x].pending[e], SettleBridged(run[x]).pending[e])
    BY <1>2, WithoutKept DEF SettleBridged, Kept
  <2> QED BY <1>4, <1>5, <2>1 DEF Shrunk, Kept
<1> QED BY <1>1, <1>7, <1>8, CloseAllShrinks

\* Neither does any other step of a Run.
LEMMA RunShrinks ==
    ASSUME TypeOK, WriterInv, NEW s \in Sessions, RunStep(s)
    PROVE  Shrunk(run, run')
<1>0. run[s] \in RunRecord /\ run[s].pending \in [ExecIds -> PendingExec]
  BY RunFields
<1>1. ASSUME NEW q, run' = [run EXCEPT ![s] = q], q.pending = run[s].pending
      PROVE  Shrunk(run, run')
  BY <1>1, OneRunShrinks DEF Kept
<1>2. ASSUME NEW how \in {"ended", "failed"}, StreamEnds(s, how)
      PROVE  Shrunk(run, run')
  <2>1. [run[s] EXCEPT !.stream = how].pending = run[s].pending
    BY <1>0 DEF RunRecord
  <2> QED BY <1>1, <1>2, <2>1 DEF StreamEnds, TypeOK
<1>3. CASE HeartbeatTick(s) \/ HeartbeatWritten(s)
  <2>1. \A how : [run[s] EXCEPT !.heartbeat = how].pending = run[s].pending
    BY <1>0 DEF RunRecord
  <2>2. \E how : run' = [run EXCEPT ![s] = [run[s] EXCEPT !.heartbeat = how]]
    BY <1>3 DEF HeartbeatTick, HeartbeatWritten, TypeOK
  <2> QED BY <1>1, <2>1, <2>2
<1>4. CASE LeaseRenewed(s)
  <2> DEFINE renewed == [e \in ExecIds |-> [run[s].pending[e] EXCEPT !.lapsed = FALSE]]
             q == [run[s] EXCEPT !.pending = renewed]
  <2>1. run' = [run EXCEPT ![s] = q] /\ q.pending = renewed
    BY <1>0, <1>4 DEF LeaseRenewed, TypeOK, RunRecord
  <2>2. \A e \in ExecIds : Kept(run[s].pending[e], renewed[e])
    <3> SUFFICES ASSUME NEW e \in ExecIds
                 PROVE  Kept(run[s].pending[e], [run[s].pending[e] EXCEPT !.lapsed = FALSE])
      OBVIOUS
    <3> DEFINE p == run[s].pending[e]
    <3>1. p \in PendingExec
      BY <1>0
    <3> QED BY <3>1 DEF Kept, PendingExec
  <2> HIDE DEF q, renewed
  <2> QED BY <2>1, <2>2, OneRunShrinks
<1>5. CASE HostStop(s)
  <2> DEFINE left == Without(run[s], Present(run[s]))
             q == [left EXCEPT !.interrupted = TRUE, !.heartbeat = "off"]
  <2>1. run' = [run EXCEPT ![s] = q]
    BY <1>5 DEF HostStop
  <2>2. left \in RunRecord /\ \A e \in ExecIds : Kept(run[s].pending[e], left.pending[e])
    BY <1>0, WithoutTyped, WithoutKept
  <2> HIDE DEF left
  <2>3. q.pending = left.pending
    BY <2>2 DEF RunRecord
  <2> HIDE DEF q
  <2> QED BY <2>1, <2>2, <2>3, OneRunShrinks
<1>6. CASE TerminalAnnounced(s)
  <2> DEFINE heard == [run EXCEPT ![s].settled = TRUE]
  <2>1. /\ heard \in [Sessions -> RunRecord]
        /\ \A x \in Sessions : heard[x].pending = run[x].pending
    <3>1. [run[s] EXCEPT !.settled = TRUE] \in RunRecord
      BY <1>0 DEF RunRecord
    <3>2. [run[s] EXCEPT !.settled = TRUE].pending = run[s].pending
      BY <1>0 DEF RunRecord
    <3>3. heard = [run EXCEPT ![s] = [run[s] EXCEPT !.settled = TRUE]]
      BY DEF TypeOK
    <3> HIDE DEF heard
    <3> QED BY <3>1, <3>2, <3>3 DEF TypeOK
  <2>2. Shrunk(run, heard)
    BY <2>1 DEF Shrunk, Kept
  <2>3. heard[s] \in RunRecord
    BY <2>1
  <2>4. \/ run' = heard
        \/ run' = [heard EXCEPT ![s] = HoldAfterCleanClose(heard[s])]
        \/ run' = [heard EXCEPT ![s] = [heard[s] EXCEPT !.deferred = StreamReason(heard[s])]]
        \/ \E why : CloseAll(why, heard, byExecId, byOpenCodeSessionId, tombstones)
    BY <1>6 DEF TerminalAnnounced
  <2> HIDE DEF heard
  <2>5. /\ HoldAfterCleanClose(heard[s]).pending = heard[s].pending
        /\ [heard[s] EXCEPT !.deferred = StreamReason(heard[s])].pending = heard[s].pending
    BY <2>3 DEF HoldAfterCleanClose, RunRecord
  <2>6. ASSUME NEW q, q.pending = heard[s].pending, run' = [heard EXCEPT ![s] = q]
        PROVE  Shrunk(run, run')
    BY <2>1, <2>6 DEF Shrunk, Kept
  <2> QED BY <2>1, <2>2, <2>4, <2>5, <2>6, CloseAllShrinks
<1>7. CASE AbandonPending(s)
  BY <1>7, DropShrinks DEF AbandonPending
<1>8. CASE HeartbeatFails(s) \/ HardDeadline(s) \/ CancelDone(s) \/ CloseUnlessPending(s)
  BY <1>8, CloseShrinks DEF HeartbeatFails, HardDeadline, CancelDone, CloseUnlessPending
<1> QED BY <1>2, <1>3, <1>4, <1>5, <1>6, <1>7, <1>8, RegisterShrinks DEF RunStep

\* Nor any step of a pump.
LEMMA PumpShrinks ==
    ASSUME TypeOK, NEW o \in Pumps, PumpStep(o)
    PROVE  Shrunk(run, run')
<1>1. ASSUME NEW s \in Sessions, BeginPump(o, s)
      PROVE  Shrunk(run, run')
  <2>1. [run[s] EXCEPT !.pumpOwner = o, !.answeredContinuation = FALSE].pending = run[s].pending
    BY RunFields DEF RunRecord
  <2>2. run' = [run EXCEPT ![s] =
           [run[s] EXCEPT !.pumpOwner = o, !.answeredContinuation = FALSE]]
    BY <1>1 DEF BeginPump, TypeOK
  <2> QED BY <2>1, <2>2, OneRunShrinks DEF Kept
<1>2. ASSUME NEW why \in PumpReasons, PumpCloses(o, why)
      PROVE  Shrunk(run, run')
  BY <1>2, CloseShrinks DEF PumpCloses
<1>3. CASE ReplaceStream(o)
  <2> DEFINE s == pumps[o]
             n == run[s].epoch + 1
             q == [run[s] EXCEPT !.stream = "live", !.settled = FALSE, !.epoch = n,
                                 !.deferred = "none", !.heartbeat = "idle"]
  <2>1. s \in Sessions /\ run' = [run EXCEPT ![s] = q]
    BY <1>3 DEF ReplaceStream, TypeOK
  <2>2. q.pending = run[s].pending
    <3> HIDE DEF n
    <3> QED BY <2>1, RunFields DEF RunRecord
  <2> HIDE DEF q, s
  <2> QED BY <2>1, <2>2, OneRunShrinks DEF Kept
<1>4. CASE EndPump(o) \/ EndDrain(o)
  <2> DEFINE s == pumps[o]
             ended == [run[s] EXCEPT !.pumpOwner = None, !.deferred = "none"]
             hold == run[s].deferred = "remote-clean-close" /\ HoldsOnlyAnsweredWork(run[s])
             after == IF hold THEN HoldAfterCleanClose(ended) ELSE ended
             base == [run EXCEPT ![s] = after]
  <2>1. s \in Sessions
    BY <1>4 DEF EndPump, EndDrain, TypeOK
  <2>2. \/ UNCHANGED registry
        \/ \E why : CloseAll(why, base, byExecId, byOpenCodeSessionId, tombstones)
    BY <1>4 DEF EndPump, EndDrain
  <2>3. ended \in RunRecord /\ ended.pending = run[s].pending
    BY <2>1, RunFields DEF RunRecord
  <2>4. after \in RunRecord /\ after.pending = run[s].pending
    <3> HIDE DEF ended, hold
    <3>1. HoldAfterCleanClose(ended) \in RunRecord
      BY <2>3, HoldTyped
    <3>2. HoldAfterCleanClose(ended).pending = ended.pending
      BY <2>3 DEF HoldAfterCleanClose, RunRecord
    <3> QED BY <2>3, <3>1, <3>2
  <2> HIDE DEF after
  <2>5. base \in [Sessions -> RunRecord] /\ Shrunk(run, base)
    BY <2>1, <2>4 DEF TypeOK, Shrunk, Kept
  <2> HIDE DEF base
  <2> QED BY <2>2, <2>5, CloseAllShrinks, SameShrinks DEF registry
<1> QED BY <1>1, <1>2, <1>3, <1>4 DEF PumpStep

\* Nor the host's.
LEMMA HostShrinks ==
    ASSUME TypeOK, (\E h \in Hosts : HostStep(h)) \/ Dispose
    PROVE  Shrunk(run, run')
<1>1. run \in [Sessions -> RunRecord]
  BY DEF TypeOK
<1>2. (\E h \in Hosts : HistoryRewritten(h)) \/ Dispose =>
         \E why, routes : CloseAll(why, run, routes, byOpenCodeSessionId, tombstones)
  BY DEF HistoryRewritten, Dispose
<1>3. ASSUME NEW h \in Hosts, SettleForFreshTurn(h)
      PROVE  Shrunk(run, run')
  <2>1. byOpenCodeSessionId[h] \in Sessions
    BY <1>3 DEF SettleForFreshTurn, TypeOK
  <2> QED BY <1>3, <2>1, DropShrinks DEF SettleForFreshTurn
<1> QED BY <1>1, <1>2, <1>3, SameShrinks, CloseAllShrinks DEF HostStep

\* Registering an exec again makes its earlier deliveries stale.
LEMMA RegisterWriter ==
    ASSUME TypeOK, WriterInv, NEW s \in Sessions, NEW e \in ExecIds, NEW kind \in Kinds,
           RegisterPending(s, e, kind)
    PROVE  WriterInv'
<1> DEFINE k0 == <<s, e>>
           n == registrations[k0] + 1
           p == [state |-> "pending", kind |-> kind, aborted |-> FALSE, lapsed |-> FALSE, id |-> n]
           q == [run[s] EXCEPT !.pending[e] = p]
           r == ScheduleHardDeadline(q)
<1>0. run[s] \in RunRecord /\ run[s].pending \in [ExecIds -> PendingExec]
  BY RunFields
<1>1. /\ k0 \in Keys /\ registrations \in [Keys -> Nat] /\ wire \in [Keys -> Nat]
      /\ registrations[k0] \in Nat /\ n \in Nat /\ n # 0
  BY DEF Keys, TypeOK
<1>2. p.state = "pending" /\ p.id = n
  OBVIOUS
<1> HIDE DEF p
<1>3. /\ run' = [run EXCEPT ![s] = r] /\ registrations' = [registrations EXCEPT ![k0] = n]
      /\ wire' = [wire EXCEPT ![k0] = 0] /\ deliveries' = deliveries
  BY DEF RegisterPending, p
<1>4. q.pending = [run[s].pending EXCEPT ![e] = p]
  BY <1>0 DEF RunRecord
<1> HIDE DEF q
<1>5. r.pending = q.pending
  BY DEF ScheduleHardDeadline
<1> HIDE DEF r, n
<1>6. \A x \in Sessions, y \in ExecIds :
         run'[x].pending[y] = IF x = s /\ y = e THEN p ELSE run[x].pending[y]
  BY <1>0, <1>3, <1>4, <1>5 DEF TypeOK
<1>7. \A x \in Sessions, y \in ExecIds : <<x, y>> \in Keys /\ (<<x, y>> = k0 <=> x = s /\ y = e)
  BY DEF Keys
<1>8. /\ \A k \in Keys : registrations'[k] = IF k = k0 THEN n ELSE registrations[k]
      /\ \A k \in Keys : wire'[k] = IF k = k0 THEN 0 ELSE wire[k]
  BY <1>1, <1>3
<1>9. \A x \in Sessions, y \in ExecIds : run'[x].pending[y].state # "absent" =>
         run'[x].pending[y].id = registrations'[<<x, y>>] /\ run'[x].pending[y].id # 0
  BY <1>1, <1>2, <1>6, <1>7, <1>8 DEF WriterInv, ClaimsExclusive
<1>10. \A c \in Callers : deliveries[c].pc # "idle" =>
         /\ deliveries[c].key \in Keys
         /\ deliveries[c].id \in 1..registrations[deliveries[c].key]
         /\ deliveries[c].id \in 1..registrations'[deliveries[c].key]
         /\ deliveries[c].key = k0 => deliveries[c].id # n
  <2> SUFFICES ASSUME NEW c \in Callers, deliveries[c].pc # "idle"
               PROVE  /\ deliveries[c].key \in Keys
                      /\ deliveries[c].id \in 1..registrations[deliveries[c].key]
                      /\ deliveries[c].id \in 1..registrations'[deliveries[c].key]
                      /\ deliveries[c].key = k0 => deliveries[c].id # n
    OBVIOUS
  <2>1. deliveries[c].key \in Keys /\ deliveries[c].id \in 1..registrations[deliveries[c].key]
    BY DEF WriterInv, ClaimsExclusive
  <2>2. n = registrations[k0] + 1
    BY DEF n
  <2> HIDE DEF k0
  <2>3. deliveries[c].key = k0 => deliveries[c].id \in 1..n /\ deliveries[c].id # n
    BY <1>1, <2>1, <2>2
  <2> QED BY <1>8, <2>1, <2>3
<1>11. \A x, y \in Callers :
         x # y /\ deliveries[x].pc # "idle" /\ deliveries[y].pc # "idle"
         /\ deliveries[x].key = deliveries[y].key => deliveries[x].id # deliveries[y].id
  BY DEF WriterInv, ClaimsExclusive
<1>12. ASSUME NEW c \in Callers, deliveries[c].pc # "idle",
              run'[deliveries[c].key[1]].pending[deliveries[c].key[2]].state = "pending"
       PROVE  run'[deliveries[c].key[1]].pending[deliveries[c].key[2]].id # deliveries[c].id
  <2>1. /\ deliveries[c].key[1] \in Sessions /\ deliveries[c].key[2] \in ExecIds
        /\ deliveries[c].key = <<deliveries[c].key[1], deliveries[c].key[2]>>
    BY <1>10, <1>12 DEF Keys
  <2>2. CASE deliveries[c].key = k0
    BY <1>2, <1>6, <1>7, <1>10, <1>12, <2>1, <2>2
  <2>3. CASE deliveries[c].key # k0
    BY <1>6, <1>7, <1>12, <2>1, <2>3 DEF WriterInv, ClaimsExclusive
  <2> QED BY <2>2, <2>3
<1>13. ClaimsExclusive'
  BY <1>3, <1>9, <1>10, <1>11, <1>12 DEF ClaimsExclusive
<1>14. \A c \in Callers :
         deliveries[c].pc # "idle" /\ registrations'[deliveries[c].key] = deliveries[c].id =>
            wire'[deliveries[c].key] =
               deliveries[c].written + (IF deliveries[c].pc = "draining" THEN 1 ELSE 0)
  BY <1>8, <1>10 DEF WriterInv, SoleWriter
<1>15. \A x \in Sessions, y \in ExecIds :
         run'[x].pending[y].state = "pending" => wire'[<<x, y>>] = 0
  BY <1>6, <1>7, <1>8 DEF WriterInv, SoleWriter
<1>16. SoleWriter'
  BY <1>3, <1>14, <1>15 DEF SoleWriter
<1> QED BY <1>13, <1>16 DEF WriterInv

\* Claiming an exec takes it for one delivery.
LEMMA ClaimWriter ==
    ASSUME TypeOK, WriterInv, NEW c \in Callers, NEW s \in Sessions, NEW e \in ExecIds,
           Claim(c, s, e)
    PROVE  WriterInv'
<1> DEFINE p == run[s].pending[e]
           q == [p EXCEPT !.state = "claimed"]
           r == [run[s] EXCEPT !.pending[e] = q]
           new == [Idle EXCEPT !.pc = "claimed", !.key = <<s, e>>, !.id = p.id]
<1>0. run[s] \in RunRecord /\ run[s].pending \in [ExecIds -> PendingExec] /\ p \in PendingExec
  BY RunFields
<1>1. q.state = "claimed" /\ q.id = p.id
  BY <1>0 DEF PendingExec
<1>2. /\ new.pc = "claimed" /\ new.key = <<s, e>> /\ new.id = p.id /\ new.written = 0
  BY DEF Idle
<1>3. /\ run' = [run EXCEPT ![s] = r]
      /\ deliveries' = [deliveries EXCEPT ![c] = new]
      /\ p.state = "pending" /\ registrations' = registrations /\ wire' = wire
  BY DEF Claim, history, TypeOK
<1> HIDE DEF q, new
<1>4. r.pending = [run[s].pending EXCEPT ![e] = q]
  BY <1>0 DEF RunRecord
<1> HIDE DEF r
<1>5. \A x \in Sessions, y \in ExecIds :
         run'[x].pending[y] = IF x = s /\ y = e THEN q ELSE run[x].pending[y]
  BY <1>0, <1>3, <1>4 DEF TypeOK
<1>6. \A x \in Callers : deliveries'[x] = IF x = c THEN new ELSE deliveries[x]
  BY <1>3 DEF TypeOK
<1>7. /\ p.id = registrations[<<s, e>>] /\ p.id # 0 /\ wire[<<s, e>>] = 0 /\ <<s, e>> \in Keys
      /\ p.id \in 1..registrations[<<s, e>>]
  <2>1. <<s, e>> \in Keys /\ registrations \in [Keys -> Nat]
    BY DEF Keys, TypeOK
  <2>2. p.id = registrations[<<s, e>>] /\ p.id # 0 /\ wire[<<s, e>>] = 0
    BY <1>3 DEF WriterInv, ClaimsExclusive, SoleWriter
  <2> QED BY <2>1, <2>2
<1>8. \A d \in Callers : deliveries[d].pc # "idle" =>
         /\ deliveries[d].key \in Keys
         /\ deliveries[d].id \in 1..registrations[deliveries[d].key]
         /\ deliveries[d].key = <<s, e>> => deliveries[d].id # p.id
  <2> SUFFICES ASSUME NEW d \in Callers, deliveries[d].pc # "idle"
               PROVE  /\ deliveries[d].key \in Keys
                      /\ deliveries[d].id \in 1..registrations[deliveries[d].key]
                      /\ deliveries[d].key = <<s, e>> => deliveries[d].id # p.id
    OBVIOUS
  <2>1. deliveries[d].key = <<s, e>> =>
           deliveries[d].key[1] = s /\ deliveries[d].key[2] = e
    OBVIOUS
  <2> QED BY <1>3, <2>1 DEF WriterInv, ClaimsExclusive
<1>9. \A x \in Sessions, y \in ExecIds : run'[x].pending[y].state # "absent" =>
         run'[x].pending[y].id = registrations'[<<x, y>>] /\ run'[x].pending[y].id # 0
  BY <1>1, <1>3, <1>5, <1>7 DEF WriterInv, ClaimsExclusive
<1>10. \A d \in Callers : deliveries'[d].pc # "idle" =>
          /\ deliveries'[d].key \in Keys
          /\ deliveries'[d].id \in 1..registrations'[deliveries'[d].key]
  BY <1>2, <1>3, <1>6, <1>7, <1>8
<1>11. \A x, y \in Callers :
         x # y /\ deliveries'[x].pc # "idle" /\ deliveries'[y].pc # "idle"
         /\ deliveries'[x].key = deliveries'[y].key => deliveries'[x].id # deliveries'[y].id
  BY <1>2, <1>6, <1>8 DEF WriterInv, ClaimsExclusive
<1>12. ASSUME NEW d \in Callers, deliveries'[d].pc # "idle",
              run'[deliveries'[d].key[1]].pending[deliveries'[d].key[2]].state = "pending"
       PROVE  run'[deliveries'[d].key[1]].pending[deliveries'[d].key[2]].id # deliveries'[d].id
  <2>1. /\ deliveries'[d].key[1] \in Sessions /\ deliveries'[d].key[2] \in ExecIds
    BY <1>10, <1>12 DEF Keys
  <2>2. ~(deliveries'[d].key[1] = s /\ deliveries'[d].key[2] = e)
    BY <1>1, <1>5, <1>12, <2>1
  <2>3. d # c
    BY <1>2, <1>6, <2>2
  <2>4. deliveries'[d] = deliveries[d]
    BY <1>6, <2>3
  <2>5. run'[deliveries[d].key[1]].pending[deliveries[d].key[2]] =
           run[deliveries[d].key[1]].pending[deliveries[d].key[2]]
    BY <1>5, <2>1, <2>2, <2>4
  <2> QED BY <1>12, <2>4, <2>5 DEF WriterInv, ClaimsExclusive
<1>13. ClaimsExclusive'
  BY <1>9, <1>10, <1>11, <1>12 DEF ClaimsExclusive
<1>14. \A d \in Callers :
         deliveries'[d].pc # "idle" /\ registrations'[deliveries'[d].key] = deliveries'[d].id =>
            wire'[deliveries'[d].key] =
               deliveries'[d].written + (IF deliveries'[d].pc = "draining" THEN 1 ELSE 0)
  BY <1>2, <1>3, <1>6, <1>7 DEF WriterInv, SoleWriter
<1>15. \A x \in Sessions, y \in ExecIds :
         run'[x].pending[y].state = "pending" => wire'[<<x, y>>] = 0
  BY <1>1, <1>3, <1>5 DEF WriterInv, SoleWriter
<1>16. SoleWriter'
  BY <1>14, <1>15 DEF SoleWriter
<1> QED BY <1>13, <1>16 DEF WriterInv

\* A delivery that writes on touches only the frames of its own registration.
LEMMA MovesWriter ==
    ASSUME TypeOK, WriterInv, NEW c \in Callers, NEW d,
           deliveries[c].pc # "idle", deliveries' = [deliveries EXCEPT ![c] = d],
           d.key = deliveries[c].key, d.id = deliveries[c].id, d.pc # "idle",
           UNCHANGED <<run, registrations>>,
           \A k \in Keys : k # d.key \/ registrations[k] # d.id => wire'[k] = wire[k],
           registrations[d.key] = d.id =>
              wire'[d.key] = d.written + (IF d.pc = "draining" THEN 1 ELSE 0)
    PROVE  WriterInv'
<1>1. \A x \in Callers : deliveries'[x] = IF x = c THEN d ELSE deliveries[x]
  BY DEF TypeOK
<1>2. \A x \in Callers : deliveries'[x].pc # "idle" =>
         /\ deliveries[x].pc # "idle"
         /\ deliveries'[x].key = deliveries[x].key /\ deliveries'[x].id = deliveries[x].id
         /\ deliveries[x].key \in Keys
  BY <1>1 DEF WriterInv, ClaimsExclusive
<1>3. ClaimsExclusive'
  BY <1>2 DEF WriterInv, ClaimsExclusive
<1>4. \A x \in Callers :
         deliveries'[x].pc # "idle" /\ registrations[deliveries'[x].key] = deliveries'[x].id =>
            wire'[deliveries'[x].key] =
               deliveries'[x].written + (IF deliveries'[x].pc = "draining" THEN 1 ELSE 0)
  <2> SUFFICES ASSUME NEW x \in Callers, x # c, deliveries'[x].pc # "idle",
                      registrations[deliveries'[x].key] = deliveries'[x].id
               PROVE  wire'[deliveries'[x].key] =
                  deliveries'[x].written + (IF deliveries'[x].pc = "draining" THEN 1 ELSE 0)
    BY <1>1
  <2>1. deliveries'[x] = deliveries[x] /\ deliveries[x].key \in Keys
    BY <1>1, <1>2
  <2>2. deliveries[x].key # d.key \/ registrations[deliveries[x].key] # d.id
    BY <1>2, <2>1 DEF WriterInv, ClaimsExclusive
  <2> QED BY <2>1, <2>2 DEF WriterInv, SoleWriter
<1>5. ASSUME NEW s \in Sessions, NEW e \in ExecIds, run[s].pending[e].state = "pending"
      PROVE  wire'[<<s, e>>] = 0
  <2>1. wire[<<s, e>>] = 0 /\ <<s, e>> \in Keys
    BY <1>5 DEF WriterInv, SoleWriter, Keys
  <2>2. run[s].pending[e].id = registrations[<<s, e>>]
    BY <1>5 DEF WriterInv, ClaimsExclusive
  <2>3. d.key = <<s, e>> => run[s].pending[e].id # d.id
    <3>1. d.key = <<s, e>> => d.key[1] = s /\ d.key[2] = e
      OBVIOUS
    <3>2. run[d.key[1]].pending[d.key[2]].state = "pending" =>
             run[d.key[1]].pending[d.key[2]].id # d.id
      BY DEF WriterInv, ClaimsExclusive
    <3> QED BY <1>5, <3>1, <3>2
  <2> QED BY <2>1, <2>2, <2>3
<1>6. SoleWriter'
  BY <1>4, <1>5 DEF SoleWriter
<1> QED BY <1>3, <1>6 DEF WriterInv

\* Every step of a delivery keeps the writers apart.
LEMMA DeliveryWriter ==
    ASSUME TypeOK, ActiveKeys, WriterInv, NEW c \in Callers, DeliveryStep(c)
    PROVE  WriterInv'
<1> DEFINE d == deliveries[c]
<1>0. /\ d \in Delivery /\ deliveries \in [Callers -> Delivery]
      /\ d.pc # "idle" => d.key \in Keys /\ d.key[1] \in Sessions
  BY DEF TypeOK, ActiveKeys, Keys
<1>1. UNCHANGED history => UNCHANGED <<registrations, wire>>
  BY DEF history
<1>2. ASSUME Shrunk(run, run'), Retire(c), UNCHANGED history
      PROVE  WriterInv'
  BY <1>1, <1>2, ShrunkKeeps
<1>3. d.pc # "idle" /\ Unavailable(c) /\ UNCHANGED history => WriterInv'
  BY <1>2, ReclassifyShrinks DEF Unavailable
<1>4. ASSUME NEW why, Close(d.key[1], why), Retire(c), UNCHANGED history
      PROVE  WriterInv'
  BY <1>2, <1>4, CloseShrinks
<1>5. ASSUME NEW n, d.pc # "idle", WriteFailed(c, n), UNCHANGED history
      PROVE  WriterInv'
  BY <1>3, <1>4, <1>5 DEF WriteFailed
<1>6. d.pc # "idle" /\ Delivered(c) /\ UNCHANGED history => WriterInv'
  <2>1. Delivered(c) => Retire(c)
    BY DEF Delivered
  <2> QED BY <1>0, <1>2, <2>1, DeliveredShrinks
<1>7. ASSUME NEW n, NEW b, StartDelivery(c, n, b)
      PROVE  WriterInv'
  <2>0. d.pc = "claimed" /\ UNCHANGED history
    BY <1>7 DEF StartDelivery
  <2>1. ASSUME /\ deliveries' = [deliveries EXCEPT ![c].pc = "queued", ![c].left = n,
                                                   ![c].epoch = run[d.key[1]].epoch]
               /\ UNCHANGED registry
        PROVE  WriterInv'
    <3> DEFINE w == [d EXCEPT !.pc = "queued", !.left = n, !.epoch = run[d.key[1]].epoch]
    <3>1. w.pc = "queued" /\ w.key = d.key /\ w.id = d.id /\ w.written = d.written
      BY <1>0 DEF Delivery
    <3>2. deliveries' = [deliveries EXCEPT ![c] = w]
      BY <1>0, <2>1
    <3>3. UNCHANGED <<run, registrations, wire>>
      BY <2>0, <2>1 DEF registry, history
    <3>4. registrations[d.key] = d.id => wire[d.key] = d.written + 0
      BY <2>0 DEF WriterInv, SoleWriter
    <3> HIDE DEF w
    <3> QED BY <2>0, <3>1, <3>2, <3>3, <3>4, MovesWriter
  <2> QED BY <1>3, <1>4, <1>5, <1>6, <1>7, <2>0, <2>1 DEF StartDelivery
<1>8. CASE EncodingFails(c)
  BY <1>4, <1>8 DEF EncodingFails
<1>9. CASE SendFrame(c)
  <2> DEFINE w == [d EXCEPT !.pc = "draining"]
  <2>0. d.pc = "queued" /\ d.key \in Keys /\ wire \in [Keys -> Nat]
    BY <1>0, <1>9 DEF SendFrame, TypeOK
  <2>1. w.pc = "draining" /\ w.key = d.key /\ w.id = d.id /\ w.written = d.written
    BY <1>0 DEF Delivery
  <2>2. /\ deliveries' = [deliveries EXCEPT ![c] = w]
        /\ wire' = IF registrations[d.key] = d.id THEN [wire EXCEPT ![d.key] = @ + 1] ELSE wire
        /\ UNCHANGED <<run, registrations>>
    BY <1>0, <1>9 DEF SendFrame, registry
  <2>3. registrations[d.key] = d.id => wire[d.key] = d.written + 0
    BY <2>0 DEF WriterInv, SoleWriter
  <2>4. d.written \in Nat
    BY <1>0 DEF Delivery
  <2>5. registrations[w.key] = w.id => wire'[w.key] = w.written + 1
    BY <2>0, <2>1, <2>2, <2>3, <2>4
  <2>6. \A k \in Keys : k # w.key \/ registrations[k] # w.id => wire'[k] = wire[k]
    BY <2>0, <2>1, <2>2
  <2> HIDE DEF w
  <2> QED BY <2>0, <2>1, <2>2, <2>5, <2>6, MovesWriter
<1>10. CASE FrameRefused(c) \/ DrainFails(c)
  BY <1>5, <1>10 DEF FrameRefused, DrainFails
<1>11. CASE FrameDrained(c)
  <2>0. d.pc = "draining" /\ UNCHANGED history
    BY <1>11 DEF FrameDrained
  <2>1. ASSUME /\ deliveries' = [deliveries EXCEPT ![c].pc = "queued", ![c].left = @ - 1,
                                     ![c].written = @ + 1, ![c].epoch = run[d.key[1]].epoch]
               /\ UNCHANGED registry
        PROVE  WriterInv'
    <3> DEFINE w == [d EXCEPT !.pc = "queued", !.left = d.left - 1, !.written = d.written + 1,
                              !.epoch = run[d.key[1]].epoch]
    <3>1. w.pc = "queued" /\ w.key = d.key /\ w.id = d.id /\ w.written = d.written + 1
      BY <1>0 DEF Delivery
    <3>2. deliveries' = [deliveries EXCEPT ![c] = w]
      BY <1>0, <2>1
    <3>3. UNCHANGED <<run, registrations, wire>>
      BY <2>0, <2>1 DEF registry, history
    <3>4. registrations[d.key] = d.id => wire[d.key] = d.written + 1
      BY <2>0 DEF WriterInv, SoleWriter
    <3>5. d.written \in Nat
      BY <1>0 DEF Delivery
    <3>6. registrations[w.key] = w.id => wire[w.key] = w.written + 0
      BY <3>1, <3>4, <3>5
    <3> HIDE DEF w
    <3> QED BY <2>0, <3>1, <3>2, <3>3, <3>6, MovesWriter
  <2> QED BY <1>3, <1>6, <1>11, <2>0, <2>1 DEF FrameDrained
<1> QED BY <1>7, <1>8, <1>9, <1>10, <1>11 DEF DeliveryStep

\* Init has no pending exec and no delivery.
LEMMA WriterInit == Init => WriterInv
BY DEF Init, WriterInv, ClaimsExclusive, SoleWriter, Absent, Idle, Keys

\* Every step keeps the writers apart.
LEMMA WriterNext == TypeInv /\ WriterInv /\ [Next]_vars => WriterInv'
<1> SUFFICES ASSUME TypeOK, ActiveKeys, WriterInv, [Next]_vars
             PROVE  WriterInv'
  BY DEF TypeInv
<1>1. ASSUME NEW s \in Sessions, RunStep(s)
      PROVE  WriterInv'
  <2>1. UNCHANGED <<registrations, wire>> /\ deliveries' = deliveries
    BY <1>1 DEF RunStep, RegisterSession, StreamEnds, TerminalAnnounced, HeartbeatTick,
                HeartbeatWritten, HeartbeatFails, LeaseRenewed, HardDeadline, HostStop,
                AbandonPending, CancelDone, CloseUnlessPending, history
  <2> QED BY <1>1, <2>1, RunShrinks, ShrunkKeeps
<1>2. ASSUME NEW s \in Sessions, NEW e \in ExecIds, ExecStep(s, e)
      PROVE  WriterInv'
  <2>0. run[s] \in RunRecord /\ run[s].pending \in [ExecIds -> PendingExec]
    BY RunFields
  <2>1. ASSUME Shrunk(run, run'), UNCHANGED <<registrations, wire, deliveries>>
        PROVE  WriterInv'
    BY <2>1, ShrunkKeeps
  <2>2. CASE ForgetHeldExec(s, e)
    <3>1. \A x \in ExecIds : Kept(run[s].pending[x], Without(run[s], {e}).pending[x])
      BY <2>0, WithoutKept
    <3> QED BY <2>1, <2>2, <3>1, OneRunShrinks DEF ForgetHeldExec
  <2>3. CASE MarkExecAborted(s, e) \/ LeaseLapses(s, e)
    <3> DEFINE p == run[s].pending[e]
               q == IF MarkExecAborted(s, e) THEN [p EXCEPT !.aborted = TRUE]
                                             ELSE [p EXCEPT !.lapsed = TRUE]
    <3>1. q.state = p.state /\ q.id = p.id
      BY <2>0 DEF PendingExec
    <3>2. run' = [run EXCEPT ![s] = [run[s] EXCEPT !.pending[e] = q]]
      BY <2>3 DEF MarkExecAborted, LeaseLapses, TypeOK
    <3>3. UNCHANGED <<registrations, wire, deliveries>>
      BY <2>3 DEF MarkExecAborted, LeaseLapses, history
    <3> HIDE DEF q
    <3>4. \A x \in ExecIds : [run[s] EXCEPT !.pending[e] = q].pending[x] =
                               IF x = e THEN q ELSE run[s].pending[x]
      BY <2>0 DEF RunRecord
    <3>5. \A x \in ExecIds : Kept(run[s].pending[x], [run[s] EXCEPT !.pending[e] = q].pending[x])
      BY <3>1, <3>4 DEF Kept
    <3> QED BY <2>1, <3>2, <3>3, <3>5, OneRunShrinks
  <2>4. CASE Resolve(s, e)
    BY <2>1, <2>4, DropShrinks DEF Resolve, history
  <2>5. CASE Classify(s, e)
    BY <2>1, <2>5, ReclassifyShrinks DEF Classify, history
  <2>6. CASE ForgetTombstone(<<s, e>>)
    BY <2>1, <2>6, SameShrinks DEF ForgetTombstone, history
  <2> QED BY <1>2, <2>2, <2>3, <2>4, <2>5, <2>6, RegisterWriter, ClaimWriter DEF ExecStep
<1>3. ASSUME NEW o \in Pumps, PumpStep(o)
      PROVE  WriterInv'
  <2>1. UNCHANGED <<registrations, wire>> /\ deliveries' = deliveries
    BY <1>3 DEF PumpStep, BeginPump, EndPump, EndDrain, PumpCloses, ReplaceStream, history
  <2> QED BY <1>3, <2>1, PumpShrinks, ShrunkKeeps
<1>4. ASSUME NEW c \in Callers, DeliveryStep(c)
      PROVE  WriterInv'
  BY <1>4, DeliveryWriter
<1>5. CASE (\E h \in Hosts : HostStep(h)) \/ Dispose
  <2>1. UNCHANGED <<registrations, wire>> /\ deliveries' = deliveries
    BY <1>5 DEF HostStep, SettleForFreshTurn, HistoryRewritten, Dispose, history
  <2> QED BY <1>5, <2>1, HostShrinks, ShrunkKeeps
<1>6. CASE UNCHANGED vars
  BY <1>6 DEF vars, WriterInv, ClaimsExclusive, SoleWriter
<1> QED BY <1>1, <1>2, <1>3, <1>4, <1>5, <1>6 DEF Next

\* No two deliveries share a registration, and one claimed is out of reach
\* of the next claim, whether or not deliveries take turns.
THEOREM ClaimsStayExclusive == Spec => []ClaimsExclusive
<1>1. Init => TypeInv /\ WriterInv
  BY TypeInvInit, WriterInit
<1>2. TypeInv /\ WriterInv /\ [Next]_vars => (TypeInv /\ WriterInv)'
  BY TypeInvNext, WriterNext
<1>3. WriterInv => ClaimsExclusive
  BY DEF WriterInv
<1> QED BY <1>1, <1>2, <1>3, PTL DEF Spec

\* A result has one writer: what is on the wire of a registered exec is what
\* its one delivery wrote.
THEOREM ResultsHaveOneWriter == Spec => []SoleWriter
<1>1. Init => TypeInv /\ WriterInv
  BY TypeInvInit, WriterInit
<1>2. TypeInv /\ WriterInv /\ [Next]_vars => (TypeInv /\ WriterInv)'
  BY TypeInvNext, WriterNext
<1>3. WriterInv => SoleWriter
  BY DEF WriterInv
<1> QED BY <1>1, <1>2, <1>3, PTL DEF Spec

-----------------------------------------------------------------------------
(* How a Run ends: who still owns a Run Cursor has ended, what opening a Run *)
(* may cost the others, and what is remembered of the execs of a Run that is *)
(* gone.                                                                     *)

\* What the end of a Run depends on, and what the cap and its close reason
\* read of it.
SameEnd(r, q) ==
    /\ q.life = r.life
    /\ q.createdAt = r.createdAt
    /\ q.why = r.why
    /\ q.settled = r.settled
    /\ q.deferred = r.deferred
    /\ q.interrupted = r.interrupted
    /\ q.heartbeat = r.heartbeat
    /\ q.pumpOwner = r.pumpOwner

\* Every Run is as it was, or was closed.
Steady(old, new) ==
    \A s \in Sessions :
        SameEnd(old[s], new[s]) \/ (old[s].life # "new" /\ new[s].life = "closed")

-----------------------------------------------------------------------------
(* Most operations leave the ends of the Runs they do not close alone. *)

\* Nothing is as steady as no step.
LEMMA SameSteady == Steady(run, run)
BY DEF Steady, SameEnd

\* Taking execs out of a Run does not touch its end.
LEMMA WithoutSameEnd ==
    ASSUME NEW r \in RunRecord, NEW E
    PROVE  SameEnd(r, Without(r, E)) /\ SameEnd(r, SettleBridged(r))
<1>1. ASSUME NEW F
      PROVE  SameEnd(r, Without(r, F))
  <2> DEFINE p == [e \in ExecIds |-> IF e \in F THEN Absent ELSE r.pending[e]]
             q == [r EXCEPT !.pending = p]
             t == (q.life = "open" /\ Present(q) # {})
  <2>1. Without(r, F) = [q EXCEPT !.timer = t]
    BY DEF Without, ScheduleHardDeadline
  <2>2. /\ q.life = r.life /\ q.createdAt = r.createdAt /\ q.why = r.why
        /\ q.settled = r.settled /\ q.deferred = r.deferred
        /\ q.interrupted = r.interrupted /\ q.heartbeat = r.heartbeat
        /\ q.pumpOwner = r.pumpOwner
    BY DEF RunRecord
  <2> HIDE DEF q, t
  <2> QED BY <2>1, <2>2 DEF SameEnd
<1>2. SameEnd(r, r)
  BY DEF SameEnd
<1> QED BY <1>1, <1>2 DEF SettleBridged

\* Closing the Runs of a registry that is steady, none of them new, is steady.
LEMMA CloseAllSteady ==
    ASSUME NEW base \in [Sessions -> RunRecord], NEW routes, NEW hosts, NEW stones, NEW why,
           Steady(run, base), CloseAll(why, base, routes, hosts, stones),
           \A s \in Sessions \cap DOMAIN why : run[s].life # "new"
    PROVE  Steady(run, run')
<1>1. \A s \in Sessions : run'[s] = IF s \in DOMAIN why THEN ClosedRun(base[s], why[s]) ELSE base[s]
  BY DEF CloseAll
<1>2. \A s \in Sessions : s \in DOMAIN why => run'[s].life = "closed"
  BY <1>1, ClosedOK DEF ClosedRun, RunRecord
<1> QED BY <1>1, <1>2 DEF Steady

\* So is closing one Run.
LEMMA CloseSteady ==
    ASSUME TypeOK, NEW s, NEW why, Close(s, why)
    PROVE  Steady(run, run')
<1>1. CASE run[s].life = "open"
  <2> DEFINE w == [x \in {s} |-> why]
  <2>1. CloseAll(w, run, byExecId, byOpenCodeSessionId, tombstones)
    BY <1>1 DEF Close
  <2>2. run \in [Sessions -> RunRecord] /\ \A x \in Sessions \cap DOMAIN w : run[x].life # "new"
    BY <1>1 DEF TypeOK
  <2> HIDE DEF w
  <2> QED BY <2>1, <2>2, SameSteady, CloseAllSteady
<1>2. CASE run[s].life # "open"
  BY <1>2, SameSteady DEF Close, registry
<1> QED BY <1>1, <1>2

\* So is what classify does.
LEMMA ReclassifySteady ==
    ASSUME TypeOK, NEW s, NEW e, Reclassify(s, e)
    PROVE  Steady(run, run')
BY CloseSteady, SameSteady DEF Reclassify, registry

\* So is replacing one Run by one with the same end.
LEMMA OneRunSteady ==
    ASSUME TypeOK, NEW s \in Sessions, NEW r, run' = [run EXCEPT ![s] = r], SameEnd(run[s], r)
    PROVE  Steady(run, run')
BY DEF Steady, SameEnd, TypeOK

\* So are the ways out of `pending`.
LEMMA DropSteady ==
    ASSUME TypeOK, NEW s \in Sessions, NEW E, NEW stone, Drop(s, E, stone)
    PROVE  Steady(run, run')
<1>1. run' = [run EXCEPT ![s] = Without(run[s], E)]
  BY DEF Drop
<1>2. SameEnd(run[s], Without(run[s], E))
  BY RunFields, WithoutSameEnd
<1> QED BY <1>1, <1>2, OneRunSteady

\* So is a completed delivery.
LEMMA DeliveredSteady ==
    ASSUME TypeOK, NEW c \in Callers, deliveries[c].key \in Keys, Delivered(c)
    PROVE  Steady(run, run')
<1> DEFINE s == deliveries[c].key[1]
           e == deliveries[c].key[2]
           answered == run[s].answeredContinuation \/ run[s].pending[e].kind = "answered"
           after == [run[s] EXCEPT !.answeredContinuation = answered]
<1>1. s \in Sessions /\ run[s] \in RunRecord
  BY RunFields DEF Keys
<1>2. run' = [run EXCEPT ![s] = Without(after, {e})]
  BY DEF Delivered
<1>3. answered \in BOOLEAN
  BY <1>1 DEF RunRecord
<1> HIDE DEF answered
<1>4. after \in RunRecord /\ SameEnd(run[s], after)
  BY <1>1, <1>3 DEF RunRecord, SameEnd
<1> HIDE DEF after, s, e
<1>5. SameEnd(run[s], Without(after, {e}))
  BY <1>4, WithoutSameEnd DEF SameEnd
<1> QED BY <1>1, <1>2, <1>5, OneRunSteady

\* So is every step of a delivery.
LEMMA DeliverySteady ==
    ASSUME TypeOK, ActiveKeys, NEW c \in Callers, DeliveryStep(c)
    PROVE  Steady(run, run')
<1>1. deliveries[c].pc # "idle" => deliveries[c].key \in Keys
  BY DEF ActiveKeys
<1>2. Unavailable(c) => Steady(run, run')
  BY ReclassifySteady DEF Unavailable
<1>3. \A n : WriteFailed(c, n) => Steady(run, run')
  BY <1>2, CloseSteady DEF WriteFailed
<1>4. UNCHANGED registry => Steady(run, run')
  BY SameSteady DEF registry
<1>5. ASSUME NEW n \in 0..MaxFrames, NEW replyDeferred \in BOOLEAN,
             StartDelivery(c, n, replyDeferred)
      PROVE  Steady(run, run')
  BY <1>1, <1>2, <1>3, <1>4, <1>5, CloseSteady, DeliveredSteady DEF StartDelivery
<1>6. CASE EncodingFails(c)
  BY <1>6, CloseSteady DEF EncodingFails
<1>7. CASE SendFrame(c)
  BY <1>4, <1>7 DEF SendFrame
<1>8. CASE FrameRefused(c) \/ DrainFails(c)
  BY <1>3, <1>8 DEF FrameRefused, DrainFails
<1>9. CASE FrameDrained(c)
  BY <1>1, <1>2, <1>4, <1>9, DeliveredSteady DEF FrameDrained
<1> QED BY <1>5, <1>6, <1>7, <1>8, <1>9 DEF DeliveryStep

\* So is every step of an exec.
LEMMA ExecSteady ==
    ASSUME TypeOK, NEW s \in Sessions, NEW e \in ExecIds, ExecStep(s, e)
    PROVE  Steady(run, run')
<1>0. run[s] \in RunRecord
  BY RunFields
<1>1. ASSUME NEW kind \in Kinds, RegisterPending(s, e, kind)
      PROVE  Steady(run, run')
  <2> DEFINE p == [state |-> "pending", kind |-> kind, aborted |-> FALSE,
                   lapsed |-> FALSE, id |-> registrations[<<s, e>>] + 1]
             q == [run[s] EXCEPT !.pending[e] = p]
             t == (q.life = "open" /\ Present(q) # {})
  <2>1. run' = [run EXCEPT ![s] = [q EXCEPT !.timer = t]]
    BY <1>1 DEF RegisterPending, ScheduleHardDeadline
  <2> HIDE DEF p
  <2>2. SameEnd(run[s], q)
    BY <1>0 DEF RunRecord, SameEnd
  <2> HIDE DEF q, t
  <2>3. SameEnd(run[s], [q EXCEPT !.timer = t])
    BY <2>2 DEF SameEnd
  <2> QED BY <2>1, <2>3, OneRunSteady
<1>2. CASE ForgetHeldExec(s, e)
  <2>1. run' = [run EXCEPT ![s] = Without(run[s], {e})]
    BY <1>2 DEF ForgetHeldExec
  <2> QED BY <1>0, <2>1, WithoutSameEnd, OneRunSteady
<1>3. ASSUME NEW p, run' = [run EXCEPT ![s] = [run[s] EXCEPT !.pending = p]]
      PROVE  Steady(run, run')
  <2>1. SameEnd(run[s], [run[s] EXCEPT !.pending = p])
    BY <1>0 DEF RunRecord, SameEnd
  <2> QED BY <1>3, <2>1, OneRunSteady
<1>4. CASE MarkExecAborted(s, e) \/ LeaseLapses(s, e) \/ \E c \in Callers : Claim(c, s, e)
  <2>1. \E p : run' = [run EXCEPT ![s] = [run[s] EXCEPT !.pending = p]]
    BY <1>4 DEF MarkExecAborted, LeaseLapses, Claim
  <2> QED BY <1>3, <2>1
<1>5. CASE Resolve(s, e)
  BY <1>5, DropSteady DEF Resolve
<1>6. CASE Classify(s, e)
  BY <1>6, ReclassifySteady DEF Classify
<1>7. CASE ForgetTombstone(<<s, e>>)
  BY <1>7, SameSteady DEF ForgetTombstone
<1> QED BY <1>1, <1>2, <1>4, <1>5, <1>6, <1>7 DEF ExecStep

\* So are the host's steps.
LEMMA HostSteady ==
    ASSUME TypeOK, (\E h \in Hosts : HostStep(h)) \/ Dispose
    PROVE  Steady(run, run')
<1>1. run \in [Sessions -> RunRecord]
  BY DEF TypeOK
<1>2. ASSUME NEW h \in Hosts, SettleForFreshTurn(h)
      PROVE  Steady(run, run')
  <2>1. byOpenCodeSessionId[h] \in Sessions
    BY <1>2 DEF SettleForFreshTurn, TypeOK
  <2> QED BY <1>2, <2>1, DropSteady DEF SettleForFreshTurn
<1>3. ASSUME NEW h \in Hosts, HistoryRewritten(h)
      PROVE  Steady(run, run')
  <2> DEFINE why == [s \in {x \in Sessions : HostOf[x] = h /\ run[x].life = "open"}
                        |-> "superseded-by-new-run"]
  <2>1. CloseAll(why, run, byExecId, byOpenCodeSessionId, tombstones)
    BY <1>3 DEF HistoryRewritten
  <2>2. \A s \in Sessions \cap DOMAIN why : run[s].life # "new"
    OBVIOUS
  <2> HIDE DEF why
  <2> QED BY <1>1, <2>1, <2>2, SameSteady, CloseAllSteady
<1>4. CASE Dispose
  <2> DEFINE why == [s \in {x \in Sessions : run[x].life = "open"} |-> "process-disposed"]
  <2>1. CloseAll(why, run, {}, byOpenCodeSessionId, tombstones)
    BY <1>4 DEF Dispose
  <2>2. \A s \in Sessions \cap DOMAIN why : run[s].life # "new"
    OBVIOUS
  <2> HIDE DEF why
  <2> QED BY <1>1, <2>1, <2>2, SameSteady, CloseAllSteady
<1> QED BY <1>2, <1>3, <1>4 DEF HostStep

-----------------------------------------------------------------------------
(* A Run Cursor ended stays owned, by a pump that is still its own. *)

\* What EndedRunStillOwned asks of one Run.
EndOwned(r) ==
    r.life = "open" /\ r.settled =>
        \/ r.interrupted
        \/ r.deferred # "none" /\ Pumping(r)
        \/ r.deferred = "remote-clean-close" /\ r.heartbeat = "off"

\* What PumpOwnerCurrent asks of one pump, and that it never pumped a Run
\* that was not registered.
PumpCurrent(o, s, r) == s # None => r.life # "new" /\ (r.life = "open" => r.pumpOwner = o)

EndsInv ==
    /\ \A s \in Sessions : EndOwned(run[s])
    /\ \A o \in Pumps : PumpCurrent(o, pumps[o], run[pumps[o]])

\* A Run with the same end is owned as before.
LEMMA SameEndOwned ==
    ASSUME NEW r, NEW q, SameEnd(r, q), EndOwned(r)
    PROVE  EndOwned(q)
BY Zenon DEF SameEnd, EndOwned, Pumping

\* Steps that leave the ends alone leave the owners alone.
LEMMA SteadyEnds ==
    ASSUME TypeOK, EndsInv, Steady(run, run'), UNCHANGED pumps
    PROVE  EndsInv'
<1>1. ASSUME NEW s \in Sessions
      PROVE  EndOwned(run'[s])
  <2>1. CASE SameEnd(run[s], run'[s])
    BY <2>1, SameEndOwned DEF EndsInv
  <2>2. CASE run'[s].life = "closed"
    BY <2>2 DEF EndOwned
  <2> QED BY <2>1, <2>2 DEF Steady
<1>2. ASSUME NEW o \in Pumps
      PROVE  PumpCurrent(o, pumps'[o], run'[pumps'[o]])
  <2>1. pumps[o] # None => pumps[o] \in Sessions
    BY DEF TypeOK
  <2> QED BY <2>1 DEF EndsInv, PumpCurrent, Steady, SameEnd
<1> QED BY <1>1, <1>2 DEF EndsInv

\* So does a step that changes one Run but not its life nor its pump, if its
\* end is still owned.
LEMMA OneRunEnds ==
    ASSUME TypeOK, EndsInv, NEW s \in Sessions, NEW q, run' = [run EXCEPT ![s] = q],
           q.life = run[s].life, q.pumpOwner = run[s].pumpOwner, EndOwned(q),
           UNCHANGED pumps
    PROVE  EndsInv'
<1>1. \A x \in Sessions : run'[x] = IF x = s THEN q ELSE run[x]
  BY DEF TypeOK
<1>2. \A o \in Pumps : pumps[o] # None => pumps[o] \in Sessions
  BY DEF TypeOK
<1>3. \A x \in Sessions : EndOwned(run'[x])
  BY <1>1 DEF EndsInv
<1>4. \A o \in Pumps : PumpCurrent(o, pumps'[o], run'[pumps'[o]])
  BY <1>1, <1>2 DEF EndsInv, PumpCurrent
<1> QED BY <1>3, <1>4 DEF EndsInv

\* What opening s does to the Runs: base is the registry with s open and the
\* display-only work of the host's previous Run settled; superseded, evicted
\* and, if Cursor has already ended it, s itself are closed.
Opens(s, base, superseded, unused, evicted) ==
    /\ base \in [Sessions -> RunRecord]
    /\ base[s].life = "open" /\ base[s].settled = run[s].settled /\ base[s].why = run[s].why
    /\ \A x \in Sessions \ {s} : base[x] = run[x] \/ base[x] = SettleBridged(run[x])
    /\ \A x \in superseded :
          /\ x \in Sessions \ {s} /\ base[x].life = "open"
          /\ ~Pumping(base[x]) /\ Present(base[x]) = {}
    /\ unused = {x \in Sessions \ {s} :
                    x \notin superseded /\ base[x].life = "open" /\ Evictable(base[x])}
    /\ evicted = {x \in unused :
          Cardinality({y \in unused : base[y].createdAt < base[x].createdAt})
             < Cardinality({y \in Sessions : base[y].life = "open"} \ superseded) - MaxOpen}
    /\ \A x \in Sessions : run'[x] =
          IF x \in superseded THEN ClosedRun(base[x], "superseded-by-new-run")
          ELSE IF x \in evicted THEN ClosedRun(base[x], "open-session-cap-exceeded")
          ELSE IF x = s /\ run[s].settled THEN ClosedRun(base[x], StreamReason(run[s]))
          ELSE base[x]

\* registerSession does that.
LEMMA RegisterShape ==
    ASSUME TypeOK, NEW s \in Sessions, RegisterSession(s)
    PROVE  \E base, superseded, unused, evicted : Opens(s, base, superseded, unused, evicted)
<1> DEFINE host == HostOf[s]
           prior == IF host = None THEN None ELSE byOpenCodeSessionId[host]
           idlePrior == {x \in {prior} \cap Sessions : run[x].life = "open" /\ ~Pumping(run[x])}
           n == Cardinality({y \in Sessions : run[y].life # "new"})
           opened == [run[s] EXCEPT !.life = "open", !.heartbeat = "idle", !.createdAt = n]
           base == [x \in Sessions |->
              IF x = s
              THEN [run[x] EXCEPT !.life = "open", !.heartbeat = "idle",
                       !.createdAt = Cardinality({y \in Sessions : run[y].life # "new"})]
              ELSE IF x \in idlePrior THEN SettleBridged(run[x]) ELSE run[x]]
           settled == {k \in Keys : k[1] \in idlePrior /\ k[2] \in Settleable(run[k[1]])}
           superseded == {x \in idlePrior : Present(base[x]) = {}}
           open == {x \in Sessions : base[x].life = "open"} \ superseded
           evictable == {x \in open \ {s} : Evictable(base[x])}
           evicted == {x \in evictable :
              Cardinality({y \in evictable : base[y].createdAt < base[x].createdAt}) < Excess(open)}
           ended == {x \in {s} : run[x].settled}
           why == [x \in superseded \cup evicted \cup ended |->
                       IF x = s THEN StreamReason(run[x])
                       ELSE IF x \in superseded THEN "superseded-by-new-run"
                       ELSE "open-session-cap-exceeded"]
           hosts == [h \in Hosts |-> IF h = host THEN s ELSE byOpenCodeSessionId[h]]
           stones == [k \in Keys |-> IF k \in settled THEN "delivered" ELSE tombstones[k]]
<1>1. CloseAll(why, base, byExecId \ settled, hosts, stones) /\ run[s].life = "new"
  BY DEF RegisterSession
<1>2. \A x \in Sessions : run[x] \in RunRecord
  BY RunFields
<1>3. n \in Nat
  BY SessionsFinite, FS_Subset, FS_CardinalityType
<1>4. /\ opened \in RunRecord /\ opened.life = "open"
      /\ opened.settled = run[s].settled /\ opened.why = run[s].why
  <2> HIDE DEF n
  <2>1. opened \in RunRecord
    BY <1>2, <1>3, OpenedTyped
  <2> QED BY <1>2, <2>1 DEF RunRecord
<1>5. base[s] = opened
  OBVIOUS
<1>6. \A x \in Sessions \ {s} : base[x] = IF x \in idlePrior THEN SettleBridged(run[x]) ELSE run[x]
  OBVIOUS
<1>7. base = [x \in Sessions |-> base[x]]
  OBVIOUS
<1>8. \A x \in idlePrior : x \in Sessions \ {s} /\ run[x].life = "open" /\ ~Pumping(run[x])
  BY <1>1
<1> HIDE DEF base, opened, idlePrior
<1>9. base \in [Sessions -> RunRecord]
  <2>1. \A x \in Sessions : base[x] \in RunRecord
    BY <1>2, <1>4, <1>5, <1>6, SettleTyped
  <2> QED BY <1>7, <2>1
<1>10. \A x \in superseded : x \in idlePrior /\ Present(base[x]) = {}
  OBVIOUS
<1>11. \A x \in superseded :
          /\ x \in Sessions \ {s} /\ base[x].life = "open"
          /\ ~Pumping(base[x]) /\ Present(base[x]) = {}
  <2> HIDE DEF superseded
  <2>1. \A x \in idlePrior : SameEnd(run[x], base[x])
    BY <1>2, <1>6, <1>8, WithoutSameEnd
  <2> QED BY <1>8, <1>10, <2>1 DEF SameEnd, Pumping
<1>12. evictable = {x \in Sessions \ {s} :
                       x \notin superseded /\ base[x].life = "open" /\ Evictable(base[x])}
  OBVIOUS
<1>13. evicted = {x \in evictable :
          Cardinality({y \in evictable : base[y].createdAt < base[x].createdAt})
             < Cardinality({y \in Sessions : base[y].life = "open"} \ superseded) - MaxOpen}
  BY DEF Excess
<1>14. s \notin superseded /\ s \notin evicted /\ superseded \cap evicted = {}
  BY <1>11
<1>15. \A x \in Sessions : run'[x] =
          IF x \in superseded THEN ClosedRun(base[x], "superseded-by-new-run")
          ELSE IF x \in evicted THEN ClosedRun(base[x], "open-session-cap-exceeded")
          ELSE IF x = s /\ run[s].settled THEN ClosedRun(base[x], StreamReason(run[s]))
          ELSE base[x]
  <2>1. DOMAIN why = superseded \cup evicted \cup ended
    OBVIOUS
  <2>2. \A x \in DOMAIN why : why[x] =
           IF x = s THEN StreamReason(run[x])
           ELSE IF x \in superseded THEN "superseded-by-new-run" ELSE "open-session-cap-exceeded"
    OBVIOUS
  <2>3. \A x : x \in ended <=> x = s /\ run[s].settled
    OBVIOUS
  <2> HIDE DEF why
  <2>4. \A x \in Sessions : run'[x] = IF x \in DOMAIN why THEN ClosedRun(base[x], why[x]) ELSE base[x]
    BY <1>1 DEF CloseAll
  <2> HIDE DEF superseded, evicted, ended
  <2> QED BY <1>14, <2>1, <2>2, <2>3, <2>4
<1> HIDE DEF superseded, evictable, evicted, why
<1>16. \A x \in Sessions \ {s} : base[x] = run[x] \/ base[x] = SettleBridged(run[x])
  BY <1>6
<1>17. Opens(s, base, superseded, evictable, evicted)
  BY <1>4, <1>5, <1>9, <1>11, <1>12, <1>13, <1>15, <1>16 DEF Opens
<1> QED BY <1>17

\* Which Runs that leaves as they were.
LEMMA OpensEnds ==
    ASSUME TypeOK, NEW s \in Sessions, NEW base, NEW superseded, NEW unused, NEW evicted,
           Opens(s, base, superseded, unused, evicted)
    PROVE  /\ \A x \in Sessions \ {s} :
                 /\ SameEnd(run[x], base[x])
                 /\ \/ run'[x] = base[x]
                    \/ /\ run'[x].life = "closed" /\ run[x].life = "open"
                       /\ ~Pumping(base[x])
                       /\ \A e \in Present(base[x]) : base[x].pending[e].aborted
           /\ run[s].settled => run'[s].life = "closed"
           /\ run'[s] = base[s] \/ run'[s].life = "closed"
<1>1. \A x \in Sessions \ {s} : SameEnd(run[x], base[x])
  <2>1. \A x \in Sessions : run[x] \in RunRecord /\ SameEnd(run[x], run[x])
    BY RunFields DEF SameEnd
  <2>2. \A x \in Sessions : SameEnd(run[x], SettleBridged(run[x]))
    BY <2>1, WithoutSameEnd
  <2> QED BY <2>1, <2>2 DEF Opens
<1>2. \A x \in Sessions : base[x] \in RunRecord
  BY DEF Opens
<1>3. \A x \in superseded \cup evicted :
         /\ x \in Sessions \ {s} /\ base[x].life = "open" /\ ~Pumping(base[x])
         /\ \A e \in Present(base[x]) : base[x].pending[e].aborted
  BY DEF Opens, Evictable
<1>4. \A x \in Sessions : \A why : ClosedRun(base[x], why).life = "closed"
  BY <1>2, ClosedOK
<1>5. \A x \in Sessions :
         \/ run'[x] = base[x] /\ ~(x = s /\ run[s].settled)
         \/ run'[x].life = "closed" /\ (x = s \/ x \in superseded \cup evicted)
  BY <1>4, Zenon DEF Opens
<1>6. \A x \in Sessions \ {s} : base[x].life = run[x].life
  BY <1>1 DEF SameEnd
<1> QED BY <1>1, <1>3, <1>5, <1>6

\* Opening a Run leaves the others owned: it is new to every pump, and if
\* Cursor has already ended it, it is closed at once.
LEMMA RegisterEnds ==
    ASSUME TypeOK, EndsInv, NEW s \in Sessions, RegisterSession(s)
    PROVE  EndsInv'
<1>0. run[s].life = "new" /\ UNCHANGED pumps
  BY DEF RegisterSession
<1>1. PICK base, superseded, unused, evicted : Opens(s, base, superseded, unused, evicted)
  BY RegisterShape
<1>2. /\ \A x \in Sessions \ {s} : SameEnd(run[x], run'[x]) \/ run'[x].life = "closed"
      /\ run[s].settled => run'[s].life = "closed"
      /\ run'[s] = base[s] \/ run'[s].life = "closed"
  BY <1>1, OpensEnds DEF SameEnd
<1>3. base[s].life = "open" /\ base[s].settled = run[s].settled
  BY <1>1 DEF Opens
<1>4. ASSUME NEW x \in Sessions
      PROVE  EndOwned(run'[x])
  <2>1. CASE run'[x].life = "closed"
    BY <2>1 DEF EndOwned
  <2>2. CASE x # s /\ SameEnd(run[x], run'[x])
    BY <2>2, SameEndOwned DEF EndsInv
  <2>3. CASE x = s /\ run'[x].life # "closed"
    <3>1. ~run[s].settled /\ run'[s] = base[s]
      BY <1>2, <2>3, Zenon
    <3>2. ~base[s].settled
      BY <1>3, <3>1, Zenon
    <3> QED BY <2>3, <3>1, <3>2, Zenon DEF EndOwned
  <2> QED BY <1>2, <2>1, <2>2, <2>3
<1>5. ASSUME NEW o \in Pumps
      PROVE  PumpCurrent(o, pumps'[o], run'[pumps'[o]])
  <2>1. pumps[o] # None => pumps[o] \in Sessions \ {s}
    BY <1>0 DEF TypeOK, EndsInv, PumpCurrent
  <2> QED BY <1>0, <1>2, <2>1 DEF EndsInv, PumpCurrent, SameEnd
<1> QED BY <1>4, <1>5 DEF EndsInv

\* The terminal event of a stream closes its Run, or leaves it owned.
LEMMA TerminalEnds ==
    ASSUME TypeOK, EndsInv, NEW s \in Sessions, TerminalAnnounced(s)
    PROVE  EndsInv'
<1> DEFINE heard == [run EXCEPT ![s].settled = TRUE]
           q == heard[s]
           why == StreamReason(q)
           held == HoldAfterCleanClose(q)
           put == [q EXCEPT !.deferred = why]
<1>0. run[s] \in RunRecord /\ UNCHANGED pumps
  BY RunFields DEF TerminalAnnounced
<1>1. \/ run' = heard /\ q.life = "new"
      \/ run' = [heard EXCEPT ![s] = held]
      \/ run' = [heard EXCEPT ![s].deferred = why] /\ (Pumping(q) \/ q.interrupted)
      \/ q.life = "open" /\ CloseAll([x \in {s} |-> why], heard, byExecId, byOpenCodeSessionId, tombstones)
  BY DEF TerminalAnnounced
<1>2. heard = [run EXCEPT ![s] = q] /\ q = [run[s] EXCEPT !.settled = TRUE] /\ heard[s] = q
  BY DEF TypeOK
<1> HIDE DEF q
<1>3. /\ q.life = run[s].life /\ q.pumpOwner = run[s].pumpOwner
      /\ q.interrupted = run[s].interrupted /\ q \in RunRecord
      /\ why \in {"remote-error", "remote-clean-close"}
  BY <1>0, <1>2 DEF RunRecord, StreamReason
<1> HIDE DEF why
<1>4. /\ held.life = run[s].life /\ held.pumpOwner = run[s].pumpOwner
      /\ held.deferred = "remote-clean-close" /\ held.heartbeat = "off"
  BY <1>3 DEF HoldAfterCleanClose, RunRecord
<1>5. /\ put.life = run[s].life /\ put.pumpOwner = run[s].pumpOwner
      /\ put.interrupted = run[s].interrupted /\ put.deferred # "none"
  BY <1>3 DEF RunRecord
<1>6. CASE run' = heard /\ q.life = "new"
  <2>1. EndOwned(q)
    BY <1>6 DEF EndOwned
  <2> QED BY <1>0, <1>2, <1>3, <1>6, <2>1, OneRunEnds
<1>7. CASE run' = [heard EXCEPT ![s] = held]
  <2>1. run' = [run EXCEPT ![s] = held]
    BY <1>2, <1>7 DEF TypeOK
  <2>2. EndOwned(held)
    BY <1>4 DEF EndOwned
  <2> HIDE DEF held, heard
  <2> QED BY <1>0, <1>4, <2>1, <2>2, OneRunEnds
<1>8. CASE run' = [heard EXCEPT ![s].deferred = why] /\ (Pumping(q) \/ q.interrupted)
  <2>1. run' = [run EXCEPT ![s] = put]
    BY <1>2, <1>8 DEF TypeOK
  <2>2. put.interrupted \/ Pumping(put)
    BY <1>3, <1>5, <1>8, Zenon DEF Pumping
  <2>3. EndOwned(put)
    BY <1>5, <2>2, Zenon DEF EndOwned
  <2> HIDE DEF put, heard
  <2> QED BY <1>0, <1>5, <2>1, <2>3, OneRunEnds
<1>9. CASE q.life = "open" /\ CloseAll([x \in {s} |-> why], heard, byExecId, byOpenCodeSessionId, tombstones)
  <2>1. \A x \in Sessions : run'[x] = IF x = s THEN ClosedRun(q, why) ELSE run[x]
    BY <1>2, <1>9 DEF CloseAll, TypeOK
  <2>2. ClosedRun(q, why).life = "closed"
    BY <1>3, ClosedOK
  <2>3. Steady(run, run')
    BY <1>3, <1>9, <2>1, <2>2 DEF Steady, SameEnd
  <2> QED BY <1>0, <2>3, SteadyEnds
<1> HIDE DEF heard, held
<1> QED BY <1>1, <1>6, <1>7, <1>8, <1>9

\* No other step of a Run leaves an end unowned.
LEMMA RunEnds ==
    ASSUME TypeOK, EndsInv, NEW s \in Sessions, RunStep(s)
    PROVE  EndsInv'
<1>0. run[s] \in RunRecord /\ EndOwned(run[s])
  BY RunFields DEF EndsInv
<1>1. ASSUME NEW how \in {"ended", "failed"}, StreamEnds(s, how)
      PROVE  EndsInv'
  <2> DEFINE q == [run[s] EXCEPT !.stream = how]
  <2>1. SameEnd(run[s], q)
    BY <1>0 DEF SameEnd, RunRecord
  <2>2. run' = [run EXCEPT ![s] = q] /\ UNCHANGED pumps
    BY <1>1 DEF StreamEnds
  <2> HIDE DEF q
  <2> QED BY <2>1, <2>2, OneRunSteady, SteadyEnds
<1>2. CASE HeartbeatTick(s) \/ HeartbeatWritten(s)
  <2>1. PICK how \in {"idle", "writing"} :
           run' = [run EXCEPT ![s] = [run[s] EXCEPT !.heartbeat = how]]
    BY <1>2 DEF HeartbeatTick, HeartbeatWritten
  <2> DEFINE q == [run[s] EXCEPT !.heartbeat = how]
  <2>2. run[s].heartbeat # "off" /\ UNCHANGED pumps
    BY <1>2 DEF HeartbeatTick, HeartbeatWritten
  <2>3. /\ q.life = run[s].life /\ q.pumpOwner = run[s].pumpOwner
        /\ q.settled = run[s].settled /\ q.interrupted = run[s].interrupted
        /\ q.deferred = run[s].deferred
    BY <1>0 DEF RunRecord
  <2> HIDE DEF q
  <2>4. EndOwned(q)
    BY <1>0, <2>2, <2>3, Zenon DEF EndOwned, Pumping
  <2> QED BY <2>1, <2>2, <2>3, <2>4, OneRunEnds DEF q
<1>3. CASE LeaseRenewed(s)
  <2> DEFINE p == [e \in ExecIds |-> [run[s].pending[e] EXCEPT !.lapsed = FALSE]]
             q == [run[s] EXCEPT !.pending = p]
  <2>1. run' = [run EXCEPT ![s] = q] /\ UNCHANGED pumps
    BY <1>3 DEF LeaseRenewed
  <2> HIDE DEF p
  <2>2. SameEnd(run[s], q)
    BY <1>0 DEF SameEnd, RunRecord
  <2> HIDE DEF q
  <2> QED BY <2>1, <2>2, OneRunSteady, SteadyEnds
<1>4. CASE HostStop(s)
  <2> DEFINE left == Without(run[s], Present(run[s]))
             q == [left EXCEPT !.interrupted = TRUE, !.heartbeat = "off"]
  <2>1. run' = [run EXCEPT ![s] = q] /\ UNCHANGED pumps
    BY <1>4 DEF HostStop
  <2>2. left \in RunRecord /\ SameEnd(run[s], left)
    BY <1>0, WithoutTyped, WithoutSameEnd
  <2> HIDE DEF left
  <2>3. q.life = run[s].life /\ q.pumpOwner = run[s].pumpOwner /\ q.interrupted = TRUE
    BY <2>2 DEF SameEnd, RunRecord
  <2> HIDE DEF q
  <2>4. EndOwned(q)
    BY <2>3 DEF EndOwned
  <2> QED BY <2>1, <2>3, <2>4, OneRunEnds
<1>5. CASE AbandonPending(s)
  BY <1>5, DropSteady, SteadyEnds DEF AbandonPending
<1>6. CASE HeartbeatFails(s) \/ HardDeadline(s) \/ CancelDone(s) \/ CloseUnlessPending(s)
  BY <1>6, CloseSteady, SteadyEnds DEF HeartbeatFails, HardDeadline, CancelDone, CloseUnlessPending
<1> QED BY <1>1, <1>2, <1>3, <1>4, <1>5, <1>6, RegisterEnds, TerminalEnds DEF RunStep

\* Beginning, ending or replacing: a pump that lets go of its Run closes it,
\* or keeps it with its heartbeat off for the frames Cursor left queued.
LEMMA PumpEnds ==
    ASSUME TypeOK, RegistryOK(run, byExecId, byOpenCodeSessionId), EndsInv,
           NEW o \in Pumps, PumpStep(o)
    PROVE  EndsInv'
<1>0. \A p \in Pumps : pumps[p] # None => pumps[p] \in Sessions
  BY DEF TypeOK
<1>1. ASSUME NEW s \in Sessions, BeginPump(o, s)
      PROVE  EndsInv'
  <2> DEFINE q == [run[s] EXCEPT !.pumpOwner = o, !.answeredContinuation = FALSE]
  <2>1. /\ pumps[o] = None /\ run[s].life = "open" /\ run[s].pumpOwner = None
        /\ run' = [run EXCEPT ![s] = q] /\ pumps' = [pumps EXCEPT ![o] = s]
    BY <1>1 DEF BeginPump, Pumping
  <2>2. /\ q.life = "open" /\ q.pumpOwner = o /\ q.settled = run[s].settled
        /\ q.interrupted = run[s].interrupted /\ q.deferred = run[s].deferred
        /\ q.heartbeat = run[s].heartbeat
    BY <2>1, RunFields DEF RunRecord
  <2> HIDE DEF q
  <2>3. \A x \in Sessions : run'[x] = IF x = s THEN q ELSE run[x]
    BY <2>1 DEF TypeOK
  <2>4. \A p \in Pumps : pumps'[p] = IF p = o THEN s ELSE pumps[p]
    BY <2>1 DEF TypeOK
  <2>5. EndOwned(q)
    <3>1. EndOwned(run[s])
      BY DEF EndsInv
    <3>2. Pumping(q)
      BY <2>2, HostsAssumption DEF Pumping
    <3> QED BY <2>1, <2>2, <3>1, <3>2, Zenon DEF EndOwned
  <2>6. \A p \in Pumps \ {o} : pumps[p] # s
    BY <2>1, HostsAssumption DEF EndsInv, PumpCurrent
  <2>7. \A p \in Pumps : PumpCurrent(p, pumps'[p], run'[pumps'[p]])
    BY <1>0, <2>2, <2>3, <2>4, <2>6 DEF EndsInv, PumpCurrent
  <2> QED BY <2>3, <2>5, <2>7 DEF EndsInv
<1>2. ASSUME NEW why \in PumpReasons, PumpCloses(o, why)
      PROVE  EndsInv'
  BY <1>2, CloseSteady, SteadyEnds DEF PumpCloses
<1>3. CASE ReplaceStream(o)
  <2> DEFINE s == pumps[o]
             n == run[s].epoch + 1
             q == [run[s] EXCEPT !.stream = "live", !.settled = FALSE, !.epoch = n,
                                 !.deferred = "none", !.heartbeat = "idle"]
  <2>1. s \in Sessions /\ run' = [run EXCEPT ![s] = q] /\ UNCHANGED pumps
    BY <1>0, <1>3 DEF ReplaceStream
  <2>2. q.life = run[s].life /\ q.pumpOwner = run[s].pumpOwner /\ q.settled = FALSE
    <3> HIDE DEF n
    <3> QED BY <2>1, RunFields DEF RunRecord
  <2> HIDE DEF q, s
  <2>3. EndOwned(q)
    BY <2>2 DEF EndOwned
  <2> QED BY <2>1, <2>2, <2>3, OneRunEnds
<1>4. CASE EndPump(o) \/ EndDrain(o)
  <2> DEFINE s == pumps[o]
             ended == [run[s] EXCEPT !.pumpOwner = None, !.deferred = "none"]
             hold == run[s].deferred = "remote-clean-close" /\ HoldsOnlyAnsweredWork(run[s])
             held == HoldAfterCleanClose(ended)
             after == IF hold THEN held ELSE ended
             base == [run EXCEPT ![s] = after]
             closes == run[s].deferred # "none" /\ ~hold /\ ~run[s].interrupted
  <2>1. s \in Sessions /\ s # None /\ pumps' = [pumps EXCEPT ![o] = None]
    BY <1>0, <1>4 DEF EndPump, EndDrain
  <2>2. \/ UNCHANGED registry /\ run[s].pumpOwner # o
        \/ /\ run[s].pumpOwner = o
           /\ \E why : /\ CloseAll(why, base, byExecId, byOpenCodeSessionId, tombstones)
                       /\ DOMAIN why \subseteq {s}
                       /\ closes => s \in DOMAIN why
    <3> DEFINE reason == IF run[s].deferred # "none" /\ ~hold /\ ~run[s].interrupted
                         THEN run[s].deferred ELSE "ordinary-cleanup"
               keeps == Present(run[s]) # {} \/ run[s].interrupted
               pumpWhy == [x \in {y \in {s} : ~keeps \/ reason # "ordinary-cleanup"} |-> reason]
               drainWhy == [x \in {y \in {s} : closes} |-> run[s].deferred]
    <3>1. CASE EndDrain(o)
      <4>1. run[s].pumpOwner = o /\ CloseAll(drainWhy, base, byExecId, byOpenCodeSessionId, tombstones)
        BY <3>1 DEF EndDrain
      <4>2. DOMAIN drainWhy \subseteq {s} /\ (closes => s \in DOMAIN drainWhy)
        OBVIOUS
      <4> HIDE DEF drainWhy, base, closes
      <4> QED BY <4>1, <4>2
    <3>2. CASE EndPump(o) /\ run[s].pumpOwner = o
      <4>1. CloseAll(pumpWhy, base, byExecId, byOpenCodeSessionId, tombstones)
        BY <3>2 DEF EndPump
      <4>2. run[s].deferred # "ordinary-cleanup"
        BY <2>1, RunFields DEF RunRecord
      <4>3. DOMAIN pumpWhy \subseteq {s} /\ (closes => s \in DOMAIN pumpWhy)
        BY <4>2
      <4> HIDE DEF pumpWhy, base, closes
      <4> QED BY <3>2, <4>1, <4>3
    <3>3. CASE EndPump(o) /\ run[s].pumpOwner # o
      BY <3>3 DEF EndPump
    <3> QED BY <1>4, <3>1, <3>2, <3>3
  <2>3. \A p \in Pumps : pumps'[p] = IF p = o THEN None ELSE pumps[p]
    BY <2>1 DEF TypeOK
  <2>4. CASE UNCHANGED registry /\ run[s].pumpOwner # o
    BY <2>3, <2>4 DEF registry, EndsInv, PumpCurrent
  <2>5. ASSUME NEW why, run[s].pumpOwner = o,
               CloseAll(why, base, byExecId, byOpenCodeSessionId, tombstones),
               DOMAIN why \subseteq {s}, closes => s \in DOMAIN why
        PROVE  EndsInv'
    <3>1. run[s] \in RunRecord /\ EndOwned(run[s]) /\ Pumping(run[s])
      BY <2>1, <2>5, RunFields, HostsAssumption DEF EndsInv, Pumping
    <3>2. /\ ended \in RunRecord /\ ended.life = run[s].life
          /\ ended.settled = run[s].settled /\ ended.interrupted = run[s].interrupted
      BY <3>1 DEF RunRecord
    <3>3. /\ held \in RunRecord /\ held.life = run[s].life
          /\ held.deferred = "remote-clean-close" /\ held.heartbeat = "off"
      <4> HIDE DEF ended
      <4> QED BY <3>2, HoldTyped DEF HoldAfterCleanClose, RunRecord
    <3>4. after \in RunRecord /\ after.life = run[s].life
      <4> HIDE DEF ended, held, hold
      <4> QED BY <3>2, <3>3
    <3>5. closes \/ EndOwned(after)
      <4>1. CASE hold
        <5>1. after = held
          BY <4>1
        <5> HIDE DEF after, held, closes
        <5> QED BY <3>3, <5>1 DEF EndOwned
      <4>2. CASE ~hold /\ ~closes
        <5>1. after = ended
          BY <4>2
        <5>2. run[s].deferred = "none" \/ run[s].interrupted
          BY <4>2, Zenon
        <5>3. run[s].interrupted \/ ~(run[s].life = "open" /\ run[s].settled)
          <6> HIDE DEF s
          <6> QED BY <3>1, <5>2 DEF EndOwned
        <5> HIDE DEF after, ended, closes, s
        <5> QED BY <3>2, <5>1, <5>3, Zenon DEF EndOwned
      <4> QED BY <4>1, <4>2
    <3> HIDE DEF after, closes
    <3>6. \A x \in Sessions : base[x] = IF x = s THEN after ELSE run[x]
      BY DEF TypeOK
    <3>7. base \in [Sessions -> RunRecord]
      BY <2>1, <3>4 DEF TypeOK
    <3> HIDE DEF base, s
    <3>8. \A x \in Sessions : run'[x] = IF x \in DOMAIN why THEN ClosedRun(base[x], why[x]) ELSE base[x]
      BY <2>5 DEF CloseAll
    <3>9. \A x \in Sessions : x \in DOMAIN why => run'[x].life = "closed" /\ x = s
      BY <2>5, <3>7, <3>8, ClosedOK
    <3>10. \A x \in Sessions \ {s} : run'[x] = run[x]
      BY <3>6, <3>8, <3>9
    <3>11. EndOwned(run'[s])
      <4>1. CASE s \in DOMAIN why
        BY <2>1, <3>9, <4>1 DEF EndOwned
      <4>2. CASE s \notin DOMAIN why
        BY <2>1, <2>5, <3>5, <3>6, <3>8, <4>2
      <4> QED BY <4>1, <4>2
    <3>12. \A x \in Sessions : EndOwned(run'[x])
      BY <3>10, <3>11 DEF EndsInv
    <3>13. run[s].life = "open"
      BY <2>1, <3>1 DEF RegistryOK, RunOK, Pumping
    <3>14. \A p \in Pumps \ {o} : pumps[p] # s
      BY <2>1, <2>5, <3>13 DEF EndsInv, PumpCurrent
    <3>15. \A p \in Pumps : PumpCurrent(p, pumps'[p], run'[pumps'[p]])
      BY <1>0, <2>3, <3>10, <3>14 DEF EndsInv, PumpCurrent
    <3> QED BY <3>12, <3>15 DEF EndsInv
  <2> HIDE DEF base, s, closes
  <2> QED BY <2>2, <2>4, <2>5
<1> QED BY <1>1, <1>2, <1>3, <1>4 DEF PumpStep

\* Every step keeps the ends owned.
LEMMA EndsNext == RegistryInv /\ EndsInv /\ [Next]_vars => EndsInv'
<1> SUFFICES ASSUME TypeOK, ActiveKeys, RegistryOK(run, byExecId, byOpenCodeSessionId),
                    EndsInv, [Next]_vars
             PROVE  EndsInv'
  BY DEF RegistryInv, TypeInv
<1>1. CASE UNCHANGED vars
  BY <1>1, SameSteady, SteadyEnds DEF vars
<1>2. ASSUME NEW s \in Sessions, RunStep(s)
      PROVE  EndsInv'
  BY <1>2, RunEnds
<1>3. ASSUME NEW s \in Sessions, NEW e \in ExecIds, ExecStep(s, e)
      PROVE  EndsInv'
  <2>1. UNCHANGED pumps
    BY <1>3 DEF ExecStep, RegisterPending, ForgetHeldExec, MarkExecAborted, Resolve, Classify,
                LeaseLapses, ForgetTombstone, Claim
  <2> QED BY <1>3, <2>1, ExecSteady, SteadyEnds
<1>4. ASSUME NEW o \in Pumps, PumpStep(o)
      PROVE  EndsInv'
  BY <1>4, PumpEnds
<1>5. ASSUME NEW c \in Callers, DeliveryStep(c)
      PROVE  EndsInv'
  <2>1. UNCHANGED pumps
    BY <1>5 DEF DeliveryStep, StartDelivery, EncodingFails, SendFrame, FrameRefused,
                FrameDrained, DrainFails
  <2> QED BY <1>5, <2>1, DeliverySteady, SteadyEnds
<1>6. CASE (\E h \in Hosts : HostStep(h)) \/ Dispose
  <2>1. UNCHANGED pumps
    BY <1>6 DEF HostStep, SettleForFreshTurn, HistoryRewritten, Dispose
  <2> QED BY <1>6, <2>1, HostSteady, SteadyEnds
<1> QED BY <1>1, <1>2, <1>3, <1>4, <1>5, <1>6 DEF Next

\* A Run whose stream Cursor has ended is never forgotten: its end is with the
\* pump that owns the Run, or the Run was stopped and its cancel closes it, or
\* it is kept, without its heartbeat, for frames already queued; and no pump
\* acts for a Run another pump has taken over.
THEOREM EndedRunsStayOwned == Spec => []EndedRunsOwned
<1>1. Init => EndsInv
  BY DEF Init, EndsInv, EndOwned, PumpCurrent
<1>2. Init => RegistryInv
  BY TypeInvInit, RegistryInit DEF RegistryInv
<1>3. EndsInv => EndedRunsOwned
  BY DEF EndsInv, EndOwned, PumpCurrent, EndedRunsOwned, EndedRunStillOwned, PumpOwnerCurrent
<1> QED BY <1>1, <1>2, <1>3, RegistryNext, EndsNext, PTL DEF Spec

-----------------------------------------------------------------------------
(* Opening a Run spares the Runs that are in use. *)

\* What only opening or closing a Run changes.
SameAge(r, q) == q.life = r.life /\ q.createdAt = r.createdAt /\ q.why = r.why

\* A step that opens no Run: each is as old as before, or closed.
BirthsNone ==
    \A x \in Sessions :
        SameAge(run[x], run'[x]) \/ (run[x].life # "new" /\ run'[x].life = "closed")

\* Only registerSession opens a Run.
LEMMA OnlyRegisterOpens ==
    ASSUME TypeOK, ActiveKeys, RegistryOK(run, byExecId, byOpenCodeSessionId), [Next]_vars
    PROVE  BirthsNone \/ \E s \in Sessions : RegisterSession(s)
<1>0. ASSUME Steady(run, run')
      PROVE  BirthsNone
  BY <1>0 DEF Steady, SameEnd, SameAge, BirthsNone
<1>1. CASE UNCHANGED vars
  BY <1>0, <1>1, SameSteady DEF vars
<1>2. ASSUME NEW s \in Sessions, NEW q, SameAge(run[s], q), run' = [run EXCEPT ![s] = q]
      PROVE  BirthsNone
  BY <1>2 DEF BirthsNone, SameAge, TypeOK
<1>3. ASSUME NEW s \in Sessions, NEW r \in RunRecord, SameAge(run[s], r), run[s].life # "new",
             NEW why, NEW routes, NEW hosts, NEW stones,
             CloseAll(why, [run EXCEPT ![s] = r], routes, hosts, stones), DOMAIN why \subseteq {s}
      PROVE  BirthsNone
  <2> DEFINE base == [run EXCEPT ![s] = r]
  <2>1. base \in [Sessions -> RunRecord] /\ \A x \in Sessions : SameAge(run[x], base[x])
    BY <1>3 DEF SameAge, TypeOK
  <2>2. CloseAll(why, base, routes, hosts, stones)
    BY <1>3
  <2> HIDE DEF base
  <2>3. \A x \in Sessions : run'[x] = IF x \in DOMAIN why THEN ClosedRun(base[x], why[x]) ELSE base[x]
    BY <2>2 DEF CloseAll
  <2>4. \A x \in Sessions : x \in DOMAIN why => run'[x].life = "closed" /\ x = s
    BY <1>3, <2>1, <2>3, ClosedOK
  <2> QED BY <1>3, <2>1, <2>3, <2>4 DEF BirthsNone
<1>4. ASSUME NEW s \in Sessions, RunStep(s), ~RegisterSession(s)
      PROVE  BirthsNone
  <2>0. run[s] \in RunRecord
    BY RunFields
  <2>1. CASE \E how \in {"ended", "failed"} : StreamEnds(s, how)
    <3>1. PICK how \in {"ended", "failed"} : run' = [run EXCEPT ![s] = [run[s] EXCEPT !.stream = how]]
      BY <2>1 DEF StreamEnds
    <3>2. SameAge(run[s], [run[s] EXCEPT !.stream = how])
      BY <2>0 DEF RunRecord, SameAge
    <3> QED BY <1>2, <3>1, <3>2
  <2>2. CASE HeartbeatTick(s) \/ HeartbeatWritten(s)
    <3>1. PICK how \in {"idle", "writing"} :
             run' = [run EXCEPT ![s] = [run[s] EXCEPT !.heartbeat = how]]
      BY <2>2 DEF HeartbeatTick, HeartbeatWritten
    <3>2. SameAge(run[s], [run[s] EXCEPT !.heartbeat = how])
      BY <2>0 DEF RunRecord, SameAge
    <3> QED BY <1>2, <3>1, <3>2
  <2>3. CASE LeaseRenewed(s)
    <3> DEFINE p == [e \in ExecIds |-> [run[s].pending[e] EXCEPT !.lapsed = FALSE]]
               q == [run[s] EXCEPT !.pending = p]
    <3>1. run' = [run EXCEPT ![s] = q]
      BY <2>3 DEF LeaseRenewed
    <3> HIDE DEF p
    <3>2. SameAge(run[s], q)
      BY <2>0 DEF RunRecord, SameAge
    <3> HIDE DEF q
    <3> QED BY <1>2, <3>1, <3>2
  <2>4. CASE HostStop(s)
    <3> DEFINE left == Without(run[s], Present(run[s]))
               q == [left EXCEPT !.interrupted = TRUE, !.heartbeat = "off"]
    <3>1. run' = [run EXCEPT ![s] = q]
      BY <2>4 DEF HostStop
    <3>2. left \in RunRecord /\ SameEnd(run[s], left)
      BY <2>0, WithoutTyped, WithoutSameEnd
    <3> HIDE DEF left
    <3>3. SameAge(run[s], q)
      BY <3>2 DEF SameEnd, SameAge, RunRecord
    <3> HIDE DEF q
    <3> QED BY <1>2, <3>1, <3>3
  <2>5. CASE TerminalAnnounced(s)
    <3> DEFINE heard == [run EXCEPT ![s].settled = TRUE]
               q == heard[s]
               held == HoldAfterCleanClose(q)
               put == [q EXCEPT !.deferred = StreamReason(q)]
    <3>1. \/ run' = heard
          \/ run' = [heard EXCEPT ![s] = held]
          \/ run' = [heard EXCEPT ![s].deferred = StreamReason(q)]
          \/ q.life = "open" /\ CloseAll([x \in {s} |-> StreamReason(q)], heard, byExecId,
                                         byOpenCodeSessionId, tombstones)
      BY <2>5 DEF TerminalAnnounced
    <3>2. heard = [run EXCEPT ![s] = q] /\ q = [run[s] EXCEPT !.settled = TRUE] /\ heard[s] = q
      BY DEF TypeOK
    <3> HIDE DEF q
    <3>3. q \in RunRecord /\ SameAge(run[s], q)
      BY <2>0, <3>2 DEF RunRecord, SameAge
    <3>4. SameAge(run[s], held) /\ SameAge(run[s], put)
      BY <3>3 DEF HoldAfterCleanClose, RunRecord, SameAge
    <3>5. /\ [heard EXCEPT ![s] = held] = [run EXCEPT ![s] = held]
          /\ [heard EXCEPT ![s].deferred = StreamReason(q)] = [run EXCEPT ![s] = put]
      BY <3>2 DEF TypeOK
    <3> HIDE DEF held, put, heard
    <3>6. CASE \/ run' = heard \/ run' = [heard EXCEPT ![s] = held]
               \/ run' = [heard EXCEPT ![s].deferred = StreamReason(q)]
      <4>1. \E r : SameAge(run[s], r) /\ run' = [run EXCEPT ![s] = r]
        BY <3>2, <3>3, <3>4, <3>5, <3>6
      <4> QED BY <1>2, <4>1
    <3>7. CASE q.life = "open" /\ CloseAll([x \in {s} |-> StreamReason(q)], heard, byExecId,
                                         byOpenCodeSessionId, tombstones)
      <4> DEFINE w == [x \in {s} |-> StreamReason(q)]
      <4>1. DOMAIN w \subseteq {s} /\ CloseAll(w, heard, byExecId, byOpenCodeSessionId, tombstones)
        BY <3>7
      <4> HIDE DEF w
      <4>2. run[s].life # "new"
        BY <3>3, <3>7 DEF SameAge
      <4> QED BY <1>3, <3>2, <3>3, <4>1, <4>2
    <3> QED BY <3>1, <3>6, <3>7
  <2>6. CASE AbandonPending(s)
    BY <1>0, <2>6, DropSteady DEF AbandonPending
  <2>7. CASE HeartbeatFails(s) \/ HardDeadline(s) \/ CancelDone(s) \/ CloseUnlessPending(s)
    BY <1>0, <2>7, CloseSteady DEF HeartbeatFails, HardDeadline, CancelDone, CloseUnlessPending
  <2> QED BY <1>4, <2>1, <2>2, <2>3, <2>4, <2>5, <2>6, <2>7 DEF RunStep
<1>5. ASSUME NEW o \in Pumps, PumpStep(o)
      PROVE  BirthsNone
  <2>1. ASSUME NEW s \in Sessions, BeginPump(o, s)
        PROVE  BirthsNone
    <3>1. SameAge(run[s], [run[s] EXCEPT !.pumpOwner = o, !.answeredContinuation = FALSE])
      BY RunFields DEF RunRecord, SameAge
    <3>2. run' = [run EXCEPT ![s] = [run[s] EXCEPT !.pumpOwner = o, !.answeredContinuation = FALSE]]
      BY <2>1 DEF BeginPump, TypeOK
    <3> QED BY <1>2, <3>1, <3>2
  <2>2. ASSUME NEW why \in PumpReasons, PumpCloses(o, why)
        PROVE  BirthsNone
    BY <1>0, <2>2, CloseSteady DEF PumpCloses
  <2>3. CASE ReplaceStream(o)
    <3> DEFINE s == pumps[o]
               n == run[s].epoch + 1
               q == [run[s] EXCEPT !.stream = "live", !.settled = FALSE, !.epoch = n,
                                   !.deferred = "none", !.heartbeat = "idle"]
    <3>1. s \in Sessions /\ run' = [run EXCEPT ![s] = q]
      BY <2>3 DEF ReplaceStream, TypeOK
    <3>2. SameAge(run[s], q)
      <4> HIDE DEF n
      <4> QED BY <3>1, RunFields DEF RunRecord, SameAge
    <3> HIDE DEF q, s
    <3> QED BY <1>2, <3>1, <3>2
  <2>4. CASE EndPump(o) \/ EndDrain(o)
    <3> DEFINE s == pumps[o]
               ended == [run[s] EXCEPT !.pumpOwner = None, !.deferred = "none"]
               hold == run[s].deferred = "remote-clean-close" /\ HoldsOnlyAnsweredWork(run[s])
               after == IF hold THEN HoldAfterCleanClose(ended) ELSE ended
               base == [run EXCEPT ![s] = after]
    <3>1. s \in Sessions /\ run[s] \in RunRecord /\ RunOK(run[s])
      <4>1. s \in Sessions
        BY <2>4 DEF EndPump, EndDrain, TypeOK
      <4> QED BY <4>1, RunFields DEF RegistryOK
    <3>2. \/ UNCHANGED registry
          \/ run[s].pumpOwner = o /\ \E why : /\ CloseAll(why, base, byExecId, byOpenCodeSessionId, tombstones)
                                              /\ DOMAIN why \subseteq {s}
      <4> DEFINE reason == IF run[s].deferred # "none" /\ ~hold /\ ~run[s].interrupted
                           THEN run[s].deferred ELSE "ordinary-cleanup"
                 keeps == Present(run[s]) # {} \/ run[s].interrupted
                 pumpWhy == [x \in {y \in {s} : ~keeps \/ reason # "ordinary-cleanup"} |-> reason]
                 drainWhy == [x \in {y \in {s} : run[s].deferred # "none" /\ ~hold /\ ~run[s].interrupted}
                                 |-> run[s].deferred]
      <4>1. DOMAIN pumpWhy \subseteq {s} /\ DOMAIN drainWhy \subseteq {s}
        OBVIOUS
      <4>2. \/ UNCHANGED registry
            \/ run[s].pumpOwner = o /\ CloseAll(pumpWhy, base, byExecId, byOpenCodeSessionId, tombstones)
            \/ run[s].pumpOwner = o /\ CloseAll(drainWhy, base, byExecId, byOpenCodeSessionId, tombstones)
        BY <2>4 DEF EndPump, EndDrain
      <4> HIDE DEF pumpWhy, drainWhy, base
      <4> QED BY <4>1, <4>2
    <3>3. run[s].pumpOwner = o => run[s].life # "new"
      BY <3>1, HostsAssumption DEF RunOK
    <3>4. ended \in RunRecord /\ SameAge(run[s], ended)
      BY <3>1 DEF RunRecord, SameAge
    <3>5. after \in RunRecord /\ SameAge(run[s], after)
      <4> HIDE DEF ended, hold
      <4>1. HoldAfterCleanClose(ended) \in RunRecord /\ SameAge(run[s], HoldAfterCleanClose(ended))
        BY <3>4, HoldTyped DEF HoldAfterCleanClose, RunRecord, SameAge
      <4> QED BY <3>4, <4>1
    <3> HIDE DEF after, s
    <3>6. CASE UNCHANGED registry
      BY <1>0, <3>6, SameSteady DEF registry
    <3> QED BY <1>3, <3>1, <3>2, <3>3, <3>5, <3>6
  <2> QED BY <1>5, <2>1, <2>2, <2>3, <2>4 DEF PumpStep
<1>6. ASSUME NEW s \in Sessions, NEW e \in ExecIds, ExecStep(s, e)
      PROVE  BirthsNone
  BY <1>0, <1>6, ExecSteady
<1>7. ASSUME NEW c \in Callers, DeliveryStep(c)
      PROVE  BirthsNone
  BY <1>0, <1>7, DeliverySteady
<1>8. CASE (\E h \in Hosts : HostStep(h)) \/ Dispose
  BY <1>0, <1>8, HostSteady
<1> QED BY <1>1, <1>4, <1>5, <1>6, <1>7, <1>8 DEF Next

\* A Run that opening another one closes is pumped by nobody and owes Cursor
\* nothing that has to be written.
LEMMA OpeningSpares ==
    ASSUME TypeOK, RegistryOK(run, byExecId, byOpenCodeSessionId),
           NEW s \in Sessions, RegisterSession(s),
           NEW y \in Sessions, run[y].life = "open", run'[y].life = "closed"
    PROVE  /\ ~Pumping(run[y])
           /\ \A e \in Present(run[y]) : NeedsNoWrite(run[y].pending[e])
<1>1. PICK base, superseded, unused, evicted : Opens(s, base, superseded, unused, evicted)
  BY RegisterShape
<1>2. y # s
  BY DEF RegisterSession
<1>3. run[y] \in RunRecord /\ RunOK(run[y])
  BY RunFields DEF RegistryOK
<1>4. SameEnd(run[y], base[y]) /\ (base[y] = run[y] \/ base[y] = SettleBridged(run[y]))
  <2>1. SameEnd(run[y], base[y])
    BY <1>1, <1>2, OpensEnds
  <2>2. base[y] = run[y] \/ base[y] = SettleBridged(run[y])
    BY <1>1, <1>2 DEF Opens
  <2> QED BY <2>1, <2>2
<1>5. ~Pumping(base[y]) /\ \A e \in Present(base[y]) : base[y].pending[e].aborted
  BY <1>1, <1>2, <1>4, OpensEnds DEF SameEnd
<1>6. ~Pumping(run[y])
  BY <1>4, <1>5 DEF SameEnd, Pumping
<1>7. ASSUME NEW e \in Present(run[y])
      PROVE  NeedsNoWrite(run[y].pending[e])
  <2>1. e \in ExecIds /\ run[y].pending[e].state # "absent"
    BY DEF Present
  <2>2. CASE e \in Settleable(run[y])
    BY <2>2 DEF Settleable
  <2>3. CASE e \notin Settleable(run[y])
    <3>1. base[y].pending[e] = run[y].pending[e]
      BY <1>3, <1>4, <2>1, <2>3, SettleOK
    <3>2. e \in Present(base[y])
      BY <2>1, <3>1 DEF Present
    <3>3. run[y].pending[e].aborted
      BY <1>5, <3>1, <3>2, Zenon
    <3> QED BY <3>3, Zenon DEF NeedsNoWrite
  <2> QED BY <2>2, <2>3
<1> QED BY <1>6, <1>7

\* Whichever Runs are open, opening one costs another nothing it still needs:
\* neither the supersede nor the cap closes a Run that is pumped, or that owes
\* Cursor a result, or whose result is on its way.
THEOREM OpeningSparesOthers == Spec => OpeningSparesActiveRuns
<1> DEFINE Spares ==
        \A x, y \in Sessions :
          /\ x # y
          /\ run[x].life = "new" /\ run'[x].life # "new"
          /\ run[y].life = "open" /\ run'[y].life = "closed"
          => /\ ~Pumping(run[y])
             /\ \A e \in Present(run[y]) : NeedsNoWrite(run[y].pending[e])
<1>1. Init => RegistryInv
  BY TypeInvInit, RegistryInit DEF RegistryInv
<1>2. RegistryInv /\ [Next]_vars => [Spares]_vars
  <2> SUFFICES ASSUME TypeOK, ActiveKeys, RegistryOK(run, byExecId, byOpenCodeSessionId),
                      [Next]_vars
               PROVE  Spares
    BY DEF RegistryInv, TypeInv
  <2>1. CASE BirthsNone
    BY <2>1 DEF BirthsNone, SameAge
  <2>2. CASE \E s \in Sessions : RegisterSession(s)
    BY <2>2, OpeningSpares
  <2> QED BY <2>1, <2>2, OnlyRegisterOpens
<1>3. [][Spares]_vars => OpeningSparesActiveRuns
  BY DEF OpeningSparesActiveRuns
<1> QED BY <1>1, <1>2, <1>3, RegistryNext, PTL DEF Spec

-----------------------------------------------------------------------------
(* The cap on open Runs. *)

\* A set of naturals that is not empty has a least element.
LEMMA LeastNat ==
    ASSUME NEW T \in SUBSET Nat, T # {}
    PROVE  \E x \in T : \A y \in T : x <= y
<1> DEFINE R == OpToRel(<, Nat)
<1>1. IsWellFoundedOn(R, Nat)
  BY NatLessThanWellFounded
<1>2. \A x, y \in Nat : y < x => <<y, x>> \in R
  BY DEF OpToRel
<1> HIDE DEF R
<1>3. \E x \in T : \A y \in T : ~(<<y, x>> \in R)
  BY <1>1, WFMin
<1>4. \A x, y \in T : <<y, x>> \notin R => x <= y
  <2> SUFFICES ASSUME NEW x \in T, NEW y \in T, ~(y < x) PROVE x <= y
    BY <1>2
  <2>1. x \in Nat /\ y \in Nat
    OBVIOUS
  <2> QED BY <2>1
<1> QED BY <1>3, <1>4

\* Taking the n oldest of a finite set takes at least n, or all, and none that
\* is as young as one it leaves.
LEMMA OldestFirst ==
    ASSUME NEW S, IsFiniteSet(S), NEW age \in [S -> Nat], NEW n \in Int, NEW gone,
           gone = {x \in S : Cardinality({y \in S : age[y] < age[x]}) < n},
           NEW k \in S \ gone
    PROVE  /\ Cardinality(gone) >= n
           /\ \A z \in gone : age[z] < age[k]
<1> DEFINE Older(x) == {y \in S : age[y] < age[x]}
<1>1. \A x \in S : IsFiniteSet(Older(x)) /\ Cardinality(Older(x)) \in Nat
  BY FS_Subset, FS_CardinalityType
<1>2. \A x \in S : x \in gone <=> Cardinality(Older(x)) < n
  OBVIOUS
<1>3. ASSUME NEW z \in gone
      PROVE  age[z] < age[k]
  <2> SUFFICES ASSUME age[k] <= age[z] PROVE FALSE
    OBVIOUS
  <2>1. z \in S /\ k \in S
    OBVIOUS
  <2>2. Older(k) \in SUBSET Older(z)
    BY <2>1
  <2>3. Cardinality(Older(k)) <= Cardinality(Older(z))
    BY <1>1, <2>1, <2>2, FS_Subset
  <2> HIDE DEF Older
  <2> QED BY <1>1, <1>2, <2>1, <2>3
<1>4. PICK m \in S \ gone : \A y \in S \ gone : age[m] <= age[y]
  <2> DEFINE T == {age[x] : x \in S \ gone}
  <2>1. T \in SUBSET Nat /\ T # {}
    OBVIOUS
  <2>2. PICK a \in T : \A b \in T : a <= b
    <3> HIDE DEF T
    <3> QED BY <2>1, LeastNat
  <2> QED BY <2>2
<1>5. Older(m) \in SUBSET gone
  BY <1>4
<1>6. IsFiniteSet(gone)
  BY FS_Subset
<1>7. Cardinality(Older(m)) <= Cardinality(gone) /\ Cardinality(gone) \in Nat
  BY <1>5, <1>6, FS_Subset, FS_CardinalityType
<1>8. ~(Cardinality(Older(m)) < n)
  BY <1>2, <1>4
<1> HIDE DEF Older
<1>9. Cardinality(gone) >= n
  BY <1>1, <1>4, <1>7, <1>8
<1> QED BY <1>3, <1>9

\* A Run that is not closed has no close reason.
ReasonsInv == \A s \in Sessions : run[s].life # "closed" => run[s].why = "none"

\* Every step keeps it.
LEMMA ReasonsNext == RegistryInv /\ ReasonsInv /\ [Next]_vars => ReasonsInv'
<1> SUFFICES ASSUME TypeOK, ActiveKeys, RegistryOK(run, byExecId, byOpenCodeSessionId),
                    ReasonsInv, [Next]_vars
             PROVE  ReasonsInv'
  BY DEF RegistryInv, TypeInv
<1>1. CASE BirthsNone
  BY <1>1 DEF BirthsNone, SameAge, ReasonsInv
<1>2. ASSUME NEW s \in Sessions, RegisterSession(s)
      PROVE  ReasonsInv'
  <2>1. PICK base, superseded, unused, evicted : Opens(s, base, superseded, unused, evicted)
    BY <1>2, RegisterShape
  <2>2. base[s].why = run[s].why /\ run[s].life = "new"
    BY <1>2, <2>1 DEF Opens, RegisterSession
  <2>3. run'[s] = base[s] \/ run'[s].life = "closed"
    BY <2>1, OpensEnds
  <2>4. \A x \in Sessions \ {s} : SameEnd(run[x], run'[x]) \/ run'[x].life = "closed"
    BY <2>1, OpensEnds DEF SameEnd
  <2> QED BY <2>2, <2>3, <2>4 DEF ReasonsInv, SameEnd
<1> QED BY <1>1, <1>2, OnlyRegisterOpens

\* A closed Run keeps its close reason.
LEMMA ClosedReason ==
    ASSUME NEW r \in RunRecord, NEW why
    PROVE  ClosedRun(r, why).life = "closed" /\ ClosedRun(r, why).why = why
BY DEF ClosedRun, RunRecord

\* Opening x keeps the cap, except for Runs that are pumped or wait for the
\* host, and closes the oldest of the Runs nobody uses.
LEMMA OpeningKeepsCap ==
    ASSUME TypeOK, ReasonsInv, NEW s \in Sessions, RegisterSession(s), run'[s].life = "open"
    PROVE  CapKeptBy(s)
<1>1. PICK base, superseded, unused, evicted : Opens(s, base, superseded, unused, evicted)
  BY RegisterShape
<1> DEFINE idle == {y \in Sessions \ {s} : run[y].life = "open" /\ ~Pumping(run[y])
                      /\ \A e \in Present(run[y]) : run[y].pending[e].aborted}
           kept == {y \in idle : run'[y].life = "open"}
           out == {y \in idle : run'[y].why = "open-session-cap-exceeded"}
           open == {y \in Sessions : base[y].life = "open"} \ superseded
           n == Cardinality(open) - MaxOpen
           age == [y \in unused |-> base[y].createdAt]
<1>2. \A x \in Sessions \ {s} : SameEnd(run[x], base[x])
  BY <1>1, OpensEnds
<1>3. \A x \in Sessions : base[x] \in RunRecord /\ base[x].createdAt \in Nat
  BY <1>1 DEF Opens, RunRecord
<1>4. \A x \in Sessions : run'[x] =
          IF x \in superseded THEN ClosedRun(base[x], "superseded-by-new-run")
          ELSE IF x \in evicted THEN ClosedRun(base[x], "open-session-cap-exceeded")
          ELSE IF x = s /\ run[s].settled THEN ClosedRun(base[x], StreamReason(run[s]))
          ELSE base[x]
  BY <1>1 DEF Opens
<1>5. \A x \in Sessions : \A why : ClosedRun(base[x], why).life = "closed" /\ ClosedRun(base[x], why).why = why
  BY <1>3, ClosedReason
<1>6. /\ unused = {x \in Sessions \ {s} :
                      x \notin superseded /\ base[x].life = "open" /\ Evictable(base[x])}
      /\ evicted = {x \in unused : Cardinality({y \in unused : age[y] < age[x]}) < n}
  <2>1. evicted = {x \in unused :
          Cardinality({y \in unused : base[y].createdAt < base[x].createdAt}) < n}
    BY <1>1 DEF Opens
  <2>2. \A x \in unused :
          {y \in unused : age[y] < age[x]} = {y \in unused : base[y].createdAt < base[x].createdAt}
    OBVIOUS
  <2> HIDE DEF age, n
  <2> QED BY <1>1, <2>1, <2>2 DEF Opens
<1>7. unused \in SUBSET Sessions /\ IsFiniteSet(unused) /\ evicted \in SUBSET unused
  BY <1>6, SessionsFinite, FS_Subset
<1>8. open \in SUBSET Sessions /\ IsFiniteSet(open) /\ Cardinality(open) \in Nat /\ n \in Int
  BY SessionsFinite, FS_Subset, FS_CardinalityType, BoundsAssumption
<1>9. age \in [unused -> Nat] /\ \A y \in unused : age[y] = base[y].createdAt
  BY <1>3, <1>7
<1>10. \A y \in kept : y \in unused \ evicted /\ run[y].createdAt = age[y]
  <2> SUFFICES ASSUME NEW y \in kept
               PROVE  y \in unused \ evicted /\ run[y].createdAt = age[y]
    OBVIOUS
  <2>1. /\ y \in Sessions \ {s} /\ run[y].life = "open" /\ ~Pumping(run[y]) /\ run'[y].life = "open"
        /\ \A e \in Present(run[y]) : run[y].pending[e].aborted
    OBVIOUS
  <2>2. y \notin superseded /\ y \notin evicted
    BY <1>4, <1>5, <2>1
  <2>3. base[y].life = "open" /\ ~Pumping(base[y]) /\ run[y].createdAt = base[y].createdAt
    BY <1>2, <2>1 DEF SameEnd, Pumping
  <2>4. \A e \in Present(base[y]) : base[y].pending[e].aborted
    <3>1. base[y] = run[y] \/ base[y] = SettleBridged(run[y])
      BY <1>1, <2>1 DEF Opens
    <3>2. run[y] \in RunRecord
      BY <2>1, RunFields
    <3>3. \A e \in ExecIds :
             Kept(run[y].pending[e], base[y].pending[e])
             /\ (base[y].pending[e] = run[y].pending[e] \/ base[y].pending[e] = Absent)
      <4>1. \A e \in ExecIds : Without(run[y], Settleable(run[y])).pending[e] = Absent
               \/ Without(run[y], Settleable(run[y])).pending[e] = run[y].pending[e]
        BY <3>2 DEF Without, ScheduleHardDeadline, RunRecord
      <4> QED BY <3>1, <4>1 DEF SettleBridged, Kept, Absent
    <3> SUFFICES ASSUME NEW e \in Present(base[y])
                 PROVE  base[y].pending[e].aborted
      OBVIOUS
    <3>4. e \in ExecIds /\ base[y].pending[e].state # "absent" /\ Absent.state = "absent"
      BY DEF Present, Absent
    <3>5. base[y].pending[e] = run[y].pending[e]
      BY <3>3, <3>4
    <3>6. e \in Present(run[y])
      BY <3>4, <3>5 DEF Present
    <3> QED BY <2>1, <3>5, <3>6, Zenon
  <2>5. y \in unused
    BY <1>6, <2>1, <2>2, <2>3, <2>4 DEF Evictable
  <2> QED BY <1>9, <2>2, <2>3, <2>5
<1>11. \A z \in out : z \in evicted /\ run[z].createdAt = age[z]
  <2> SUFFICES ASSUME NEW z \in out
               PROVE  z \in evicted /\ run[z].createdAt = age[z]
    OBVIOUS
  <2>1. z \in Sessions \ {s} /\ run[z].life = "open" /\ run'[z].why = "open-session-cap-exceeded"
    OBVIOUS
  <2>2. run[z].why = "none" /\ base[z].why = "none" /\ run[z].createdAt = base[z].createdAt
    BY <1>2, <2>1 DEF ReasonsInv, SameEnd
  <2>3. z \in evicted
    BY <1>4, <1>5, <2>1, <2>2
  <2> QED BY <1>7, <1>9, <2>2, <2>3
<1> HIDE DEF age
<1>12. ASSUME NEW y \in kept
       PROVE  /\ Cardinality(evicted) >= n
              /\ \A z \in evicted : age[z] < age[y]
  <2>1. y \in unused \ evicted
    BY <1>10, <1>12
  <2>2. IsFiniteSet(unused) /\ age \in [unused -> Nat] /\ n \in Int
    BY <1>7, <1>8, <1>9
  <2>3. evicted = {x \in unused : Cardinality({z \in unused : age[z] < age[x]}) < n}
    BY <1>6
  <2> HIDE DEF n, kept, open
  <2> QED BY <2>1, <2>2, <2>3, OldestFirst, Zenon
<1>13. ASSUME NEW y \in kept
       PROVE  Cardinality({x \in Sessions : run'[x].life = "open"}) <= MaxOpen
  <2> DEFINE after == {x \in Sessions : run'[x].life = "open"}
  <2>1. evicted \in SUBSET open
    BY <1>6, <1>7
  <2>2. after \in SUBSET (open \ evicted)
    BY <1>4, <1>5
  <2>3. open = (open \ evicted) \cup evicted /\ (open \ evicted) \cap evicted = {}
    BY <2>1
  <2>4. IsFiniteSet(open \ evicted) /\ IsFiniteSet(evicted)
    BY <1>8, <2>1, FS_Subset
  <2>5. Cardinality(open) = Cardinality(open \ evicted) + Cardinality(evicted)
                               - Cardinality((open \ evicted) \cap evicted)
    <3> HIDE DEF open
    <3> QED BY <2>3, <2>4, FS_Union
  <2>6. Cardinality({}) = 0
    BY FS_EmptySet
  <2>7. Cardinality(after) <= Cardinality(open \ evicted)
    <3> HIDE DEF after, open
    <3> QED BY <2>2, <2>4, FS_Subset
  <2>8. /\ Cardinality(open) \in Nat /\ Cardinality(open \ evicted) \in Nat
        /\ Cardinality(evicted) \in Nat /\ Cardinality(after) \in Nat
    <3>1. IsFiniteSet(after)
      BY SessionsFinite, FS_Subset
    <3> HIDE DEF after, open
    <3> QED BY <1>8, <2>4, <3>1, FS_CardinalityType
  <2>9. Cardinality(evicted) >= Cardinality(open) - MaxOpen
    BY <1>12, <1>13
  <2> HIDE DEF after, open
  <2>10. Cardinality(open) = Cardinality(open \ evicted) + Cardinality(evicted)
    <3>1. Cardinality((open \ evicted) \cap evicted) = 0
      BY <2>3, <2>6
    <3> QED BY <2>5, <2>8, <3>1
  <2>11. MaxOpen \in Int
    BY BoundsAssumption
  <2>12. Cardinality(after) <= MaxOpen
    BY <2>7, <2>8, <2>9, <2>10, <2>11
  <2> QED BY <2>12 DEF after
<1>14. Cardinality({y \in Sessions : run'[y].life = "open"}) > MaxOpen => kept = {}
  <2> DEFINE after == {x \in Sessions : run'[x].life = "open"}
  <2>1. Cardinality(after) \in Nat
    BY SessionsFinite, FS_Subset, FS_CardinalityType
  <2> HIDE DEF kept
  <2> QED BY <1>13, <2>1, BoundsAssumption
<1>15. \A y \in kept, z \in out : run[z].createdAt < run[y].createdAt
  <2> HIDE DEF kept, out
  <2> QED BY <1>10, <1>11, <1>12
<1> QED BY <1>14, <1>15 DEF CapKeptBy

\* Whenever a Run is opened, the number of open Runs exceeds the cap only by
\* Runs that are pumped or still wait for the host, and of the Runs nobody
\* uses the newer are kept.
THEOREM CapStaysEnforced == Spec => CapEnforced
<1> DEFINE Keeps == \A x \in Sessions : run[x].life = "new" /\ run'[x].life = "open" => CapKeptBy(x)
<1>1. Init => RegistryInv /\ ReasonsInv
  BY TypeInvInit, RegistryInit DEF RegistryInv, Init, ReasonsInv
<1>2. RegistryInv /\ ReasonsInv /\ [Next]_vars => [Keeps]_vars
  <2> SUFFICES ASSUME TypeOK, ActiveKeys, RegistryOK(run, byExecId, byOpenCodeSessionId),
                      ReasonsInv, [Next]_vars
               PROVE  Keeps
    BY DEF RegistryInv, TypeInv
  <2>1. CASE BirthsNone
    BY <2>1 DEF BirthsNone, SameAge
  <2>2. ASSUME NEW s \in Sessions, RegisterSession(s),
               NEW x \in Sessions, run[x].life = "new", run'[x].life = "open"
        PROVE  CapKeptBy(x)
    <3>1. x = s
      <4>1. PICK base, superseded, unused, evicted : Opens(s, base, superseded, unused, evicted)
        BY <2>2, RegisterShape
      <4>2. x # s => SameEnd(run[x], run'[x]) \/ run'[x].life = "closed"
        BY <4>1, OpensEnds DEF SameEnd
      <4> QED BY <2>2, <4>2 DEF SameEnd
    <3> QED BY <2>2, <3>1, OpeningKeepsCap
  <2> QED BY <2>1, <2>2, OnlyRegisterOpens
<1>3. [][Keeps]_vars => CapEnforced
  BY DEF CapEnforced
<1> QED BY <1>1, <1>2, <1>3, RegistryNext, ReasonsNext, PTL DEF Spec

\* What a step remembers of the execs it takes out, and of the Runs closed.
Remembers ==
    /\ \A k \in Keys : tombstones'[k] = "none" => tombstones[k] = "none"
    /\ \A s \in Sessions, e \in ExecIds :
          run[s].pending[e].state # "absent" /\ run'[s].pending[e].state = "absent" =>
             tombstones'[<<s, e>>] # "none" \/ run'[s].why \in QuietReasons
    /\ \A s \in Sessions : run[s].life = "closed" =>
          run'[s].life = "closed" /\ run'[s].why = run[s].why

\* A step that fails no delivery.
Blameless ==
    \A k \in Keys : tombstones'[k] = "result-write-failed" => tombstones[k] = "result-write-failed"

\* What the registry a step closes Runs of has already taken out is remembered.
Settles(base, stones) ==
    /\ base \in [Sessions -> RunRecord]
    /\ \A s \in Sessions : run[s].life = "closed" => base[s].life = "closed" /\ base[s].why = run[s].why
    /\ \A s \in Sessions, e \in ExecIds :
          \/ run[s].pending[e].state = "absent"
          \/ base[s].pending[e].state # "absent"
          \/ stones[<<s, e>>] # "none"
    /\ \A k \in Keys : /\ stones[k] = "none" => tombstones[k] = "none"
                       /\ stones[k] = "result-write-failed" => tombstones[k] = "result-write-failed"

\* Closing Runs remembers their execs.
LEMMA CloseAllRemembers ==
    ASSUME NEW base, NEW routes, NEW hosts, NEW stones, NEW why,
           Settles(base, stones), CloseAll(why, base, routes, hosts, stones),
           \A s \in Sessions \cap DOMAIN why :
              base[s].life # "closed" /\ why[s] \in TerminalReasons \cup QuietReasons
    PROVE  /\ Remembers
           /\ (\A s \in Sessions \cap DOMAIN why : why[s] # "result-write-failed") => Blameless
<1> DEFINE shut == DOMAIN why
<1>1. /\ run' = [s \in Sessions |-> IF s \in shut THEN ClosedRun(base[s], why[s]) ELSE base[s]]
      /\ tombstones' = [k \in Keys |->
            IF k[1] \in shut /\ k[2] \in Present(base[k[1]]) /\ why[k[1]] \in TerminalReasons
            THEN why[k[1]] ELSE stones[k]]
  BY DEF CloseAll
<1>2. \A s \in Sessions : base[s] \in RunRecord
  BY DEF Settles
<1>3. \A s \in Sessions \cap shut : run'[s].why = why[s] /\ run'[s].life = "closed"
  BY <1>1, <1>2, ClosedReason
<1>4. \A s \in Sessions \ shut : run'[s] = base[s]
  BY <1>1
<1>5. \A s \in Sessions, e \in ExecIds : tombstones'[<<s, e>>] =
         IF s \in shut /\ e \in Present(base[s]) /\ why[s] \in TerminalReasons
         THEN why[s] ELSE stones[<<s, e>>]
  BY <1>1 DEF Keys
<1>6. \A k \in Keys : k[1] \in Sessions /\ k[2] \in ExecIds /\ k = <<k[1], k[2]>>
  BY DEF Keys
<1>7. "none" \notin TerminalReasons
  BY DEF TerminalReasons
<1> HIDE DEF shut
<1>8. \A k \in Keys : tombstones'[k] = "none" => tombstones[k] = "none"
  BY <1>5, <1>6, <1>7 DEF Settles
<1>9. ASSUME NEW s \in Sessions, NEW e \in ExecIds,
             run[s].pending[e].state # "absent", run'[s].pending[e].state = "absent",
             tombstones'[<<s, e>>] = "none"
      PROVE  run'[s].why \in QuietReasons
  <2>1. \/ base[s].pending[e].state # "absent"
        \/ stones[<<s, e>>] # "none"
    BY <1>9 DEF Settles
  <2>2. CASE s \notin shut
    BY <1>4, <1>5, <1>9, <2>1, <2>2
  <2>3. CASE s \in shut
    <3>1. why[s] \in TerminalReasons \cup QuietReasons
      BY <2>3 DEF shut
    <3>2. e \in Present(base[s]) => why[s] \notin TerminalReasons
      BY <1>5, <1>7, <1>9, <2>3
    <3>3. e \notin Present(base[s]) => stones[<<s, e>>] = "none"
      BY <1>5, <1>9, <2>3
    <3>4. e \in Present(base[s])
      BY <2>1, <3>3 DEF Present
    <3> QED BY <1>3, <2>3, <3>1, <3>2, <3>4
  <2> QED BY <2>2, <2>3
<1>10. \A s \in Sessions : run[s].life = "closed" =>
          run'[s].life = "closed" /\ run'[s].why = run[s].why
  BY <1>4 DEF Settles, shut
<1>11. Remembers
  BY <1>8, <1>9, <1>10 DEF Remembers
<1>12. ASSUME \A s \in Sessions \cap DOMAIN why : why[s] # "result-write-failed"
       PROVE  Blameless
  <2>1. \A s \in Sessions \cap shut : why[s] # "result-write-failed"
    BY <1>12 DEF shut
  <2> QED BY <1>5, <1>6, <2>1 DEF Blameless, Settles
<1> QED BY <1>11, <1>12

\* So does a step that changes nothing of the registry.
LEMMA SameRemembers ==
    ASSUME UNCHANGED <<run, tombstones>>
    PROVE  Remembers /\ Blameless
BY DEF Remembers, Blameless

\* The registry itself has taken nothing out.
LEMMA SameSettles ==
    ASSUME TypeOK
    PROVE  Settles(run, tombstones)
BY DEF Settles, TypeOK

\* Closing one Run remembers its execs.
LEMMA CloseRemembers ==
    ASSUME TypeOK, NEW s \in Sessions, NEW why \in TerminalReasons \cup QuietReasons, Close(s, why)
    PROVE  Remembers /\ (why # "result-write-failed" => Blameless)
<1>1. CASE run[s].life = "open"
  <2> DEFINE w == [x \in {s} |-> why]
  <2>1. CloseAll(w, run, byExecId, byOpenCodeSessionId, tombstones)
    BY <1>1 DEF Close
  <2>2. \A x \in Sessions \cap DOMAIN w :
           run[x].life # "closed" /\ w[x] \in TerminalReasons \cup QuietReasons
    BY <1>1
  <2>3. why # "result-write-failed" =>
           \A x \in Sessions \cap DOMAIN w : w[x] # "result-write-failed"
    OBVIOUS
  <2> HIDE DEF w
  <2>4. Settles(run, tombstones)
    BY SameSettles
  <2> QED BY <2>1, <2>2, <2>3, <2>4, CloseAllRemembers
<1>2. CASE run[s].life # "open"
  BY <1>2, SameRemembers DEF Close, registry
<1> QED BY <1>1, <1>2

\* So does classify.
LEMMA ReclassifyRemembers ==
    ASSUME TypeOK, NEW s \in Sessions, NEW e, Reclassify(s, e)
    PROVE  Remembers /\ Blameless
<1>1. ClassifyReason(s, e) \in TerminalReasons \cup QuietReasons
      /\ ClassifyReason(s, e) # "result-write-failed"
  BY DEF ClassifyReason, TerminalReasons
<1>2. CASE ClassifyCloses(s, e)
  <2>1. Close(s, ClassifyReason(s, e))
    BY <1>2 DEF Reclassify
  <2> QED BY <1>1, <2>1, CloseRemembers
<1>3. CASE ~ClassifyCloses(s, e)
  BY <1>3, SameRemembers DEF Reclassify, registry
<1> QED BY <1>2, <1>3

\* A step that replaces one Run by one as old, with the same execs.
Changed(s, r) ==
    /\ run' = [run EXCEPT ![s] = r] /\ UNCHANGED tombstones
    /\ r.life = run[s].life /\ r.why = run[s].why
    /\ \A e \in ExecIds : r.pending[e].state = "absent" => run[s].pending[e].state = "absent"

\* It takes nothing out.
LEMMA ChangedRemembers ==
    ASSUME TypeOK, NEW s \in Sessions, NEW r, Changed(s, r)
    PROVE  Remembers /\ Blameless
<1>1. \A x \in Sessions : run'[x] = IF x = s THEN r ELSE run[x]
  BY DEF Changed, TypeOK
<1> QED BY <1>1 DEF Changed, Remembers, Blameless

\* A step that takes the execs E out of a Run and leaves a tombstone of each.
TookOut(s, E, r, stone) ==
    /\ run' = [run EXCEPT ![s] = r]
    /\ r.life = run[s].life /\ r.why = run[s].why
    /\ \A e \in ExecIds : r.pending[e] = IF e \in E THEN Absent ELSE run[s].pending[e]
    /\ \A x \in Sessions, e \in ExecIds :
          tombstones'[<<x, e>>] = IF x = s /\ e \in E THEN stone ELSE tombstones[<<x, e>>]

\* It remembers them.
LEMMA TakenOutRemembers ==
    ASSUME TypeOK, NEW s \in Sessions, NEW E, NEW r, NEW stone,
           stone \notin {"none", "result-write-failed"}, TookOut(s, E, r, stone)
    PROVE  Remembers /\ Blameless
<1>1. \A x \in Sessions : run'[x] = IF x = s THEN r ELSE run[x]
  BY DEF TookOut, TypeOK
<1>2. \A k \in Keys : tombstones'[k] = stone \/ tombstones'[k] = tombstones[k]
  BY DEF TookOut, Keys
<1> QED BY <1>1, <1>2 DEF TookOut, Remembers, Blameless

\* So do the ways out of `pending`.
LEMMA DropRemembers ==
    ASSUME TypeOK, RegistryOK(run, byExecId, byOpenCodeSessionId), NEW s \in Sessions, NEW E,
           NEW stone, stone \notin {"none", "result-write-failed"}, Drop(s, E, stone)
    PROVE  Remembers /\ Blameless
<1>1. run[s] \in RunRecord /\ RunOK(run[s])
  BY RunFields DEF RegistryOK
<1>2. run' = [run EXCEPT ![s] = Without(run[s], E)]
  BY DEF Drop
<1>3. /\ Without(run[s], E).life = run[s].life
      /\ \A e \in ExecIds : Without(run[s], E).pending[e] =
                               IF e \in E THEN Absent ELSE run[s].pending[e]
  BY <1>1, WithoutOK
<1>4. Without(run[s], E).why = run[s].why
  BY <1>1, WithoutSameEnd DEF SameEnd
<1>5. \A x \in Sessions, e \in ExecIds :
         tombstones'[<<x, e>>] = IF x = s /\ e \in E THEN stone ELSE tombstones[<<x, e>>]
  BY DEF Drop, Keys
<1> DEFINE r == Without(run[s], E)
<1>6. /\ run' = [run EXCEPT ![s] = r] /\ r.life = run[s].life /\ r.why = run[s].why
      /\ \A e \in ExecIds : r.pending[e] = IF e \in E THEN Absent ELSE run[s].pending[e]
  BY <1>2, <1>3, <1>4
<1>7. TookOut(s, E, r, stone)
  <2> HIDE DEF r
  <2> QED BY <1>5, <1>6 DEF TookOut
<1> QED BY <1>7, TakenOutRemembers

\* So does a completed delivery.
LEMMA DeliveredRemembers ==
    ASSUME TypeOK, RegistryOK(run, byExecId, byOpenCodeSessionId), NEW c \in Callers,
           deliveries[c].key \in Keys, Delivered(c)
    PROVE  /\ Remembers /\ Blameless
           /\ run'[deliveries[c].key[1]].pending[deliveries[c].key[2]].state = "absent"
<1> DEFINE s == deliveries[c].key[1]
           e == deliveries[c].key[2]
           answered == run[s].answeredContinuation \/ run[s].pending[e].kind = "answered"
           after == [run[s] EXCEPT !.answeredContinuation = answered]
<1>1. s \in Sessions /\ e \in ExecIds /\ run[s] \in RunRecord /\ RunOK(run[s])
  BY RunFields DEF Keys, RegistryOK
<1>2. /\ run' = [run EXCEPT ![s] = Without(after, {e})]
      /\ tombstones' = [tombstones EXCEPT ![<<s, e>>] = "delivered"]
  BY DEF Delivered
<1>3. answered \in BOOLEAN
  BY <1>1 DEF RunRecord
<1> HIDE DEF answered
<1>4. after \in RunRecord /\ after.pending = run[s].pending /\ after.life = run[s].life
      /\ after.timer = run[s].timer /\ after.why = run[s].why
      /\ after.pumpOwner = run[s].pumpOwner /\ after.deferred = run[s].deferred
      /\ after.heartbeat = run[s].heartbeat
  BY <1>1, <1>3 DEF RunRecord
<1> HIDE DEF after, s, e
<1>5. RunOK(after)
  BY <1>1, <1>4 DEF RunOK, Present
<1>6. /\ Without(after, {e}).life = run[s].life
      /\ \A x \in ExecIds : Without(after, {e}).pending[x] =
                               IF x \in {e} THEN Absent ELSE run[s].pending[x]
  BY <1>4, <1>5, WithoutOK
<1>7. Without(after, {e}).why = run[s].why
  BY <1>4, WithoutSameEnd DEF SameEnd
<1>8. \A x \in Sessions, y \in ExecIds :
         tombstones'[<<x, y>>] = IF x = s /\ y \in {e} THEN "delivered" ELSE tombstones[<<x, y>>]
  BY <1>1, <1>2 DEF TypeOK, Keys
<1>9. Remembers /\ Blameless
  <2> DEFINE r == Without(after, {e})
  <2>1. /\ run' = [run EXCEPT ![s] = r] /\ r.life = run[s].life /\ r.why = run[s].why
        /\ \A x \in ExecIds : r.pending[x] = IF x \in {e} THEN Absent ELSE run[s].pending[x]
    BY <1>2, <1>6, <1>7
  <2>2. TookOut(s, {e}, r, "delivered")
    <3> HIDE DEF r
    <3> QED BY <1>8, <2>1 DEF TookOut
  <2> QED BY <1>1, <2>2, TakenOutRemembers
<1>10. run'[s].pending[e] = Absent
  BY <1>1, <1>2, <1>6 DEF TypeOK
<1> QED BY <1>9, <1>10 DEF Absent, s, e

\* Opening a Run leaves a tombstone of what it settles and of what it closes.
LEMMA RegisterRemembers ==
    ASSUME TypeOK, RegistryOK(run, byExecId, byOpenCodeSessionId),
           NEW s \in Sessions, RegisterSession(s)
    PROVE  Remembers /\ Blameless
<1> DEFINE host == HostOf[s]
           prior == IF host = None THEN None ELSE byOpenCodeSessionId[host]
           idlePrior == {x \in {prior} \cap Sessions : run[x].life = "open" /\ ~Pumping(run[x])}
           n == Cardinality({y \in Sessions : run[y].life # "new"})
           opened == [run[s] EXCEPT !.life = "open", !.heartbeat = "idle", !.createdAt = n]
           base == [x \in Sessions |->
              IF x = s
              THEN [run[x] EXCEPT !.life = "open", !.heartbeat = "idle",
                       !.createdAt = Cardinality({y \in Sessions : run[y].life # "new"})]
              ELSE IF x \in idlePrior THEN SettleBridged(run[x]) ELSE run[x]]
           settled == {k \in Keys : k[1] \in idlePrior /\ k[2] \in Settleable(run[k[1]])}
           superseded == {x \in idlePrior : Present(base[x]) = {}}
           open == {x \in Sessions : base[x].life = "open"} \ superseded
           evictable == {x \in open \ {s} : Evictable(base[x])}
           evicted == {x \in evictable :
              Cardinality({y \in evictable : base[y].createdAt < base[x].createdAt}) < Excess(open)}
           ended == {x \in {s} : run[x].settled}
           why == [x \in superseded \cup evicted \cup ended |->
                       IF x = s THEN StreamReason(run[x])
                       ELSE IF x \in superseded THEN "superseded-by-new-run"
                       ELSE "open-session-cap-exceeded"]
           hosts == [h \in Hosts |-> IF h = host THEN s ELSE byOpenCodeSessionId[h]]
           stones == [k \in Keys |-> IF k \in settled THEN "delivered" ELSE tombstones[k]]
<1>1. CloseAll(why, base, byExecId \ settled, hosts, stones) /\ run[s].life = "new"
  BY DEF RegisterSession
<1>2. \A x \in Sessions : run[x] \in RunRecord /\ RunOK(run[x])
  BY RunFields DEF RegistryOK
<1>3. n \in Nat
  BY SessionsFinite, FS_Subset, FS_CardinalityType
<1>4. opened \in RunRecord /\ opened.pending = run[s].pending /\ opened.life = "open"
  <2> HIDE DEF n
  <2>1. opened \in RunRecord
    BY <1>2, <1>3, OpenedTyped
  <2> QED BY <1>2, <2>1 DEF RunRecord
<1>5. base[s] = opened
  OBVIOUS
<1>6. \A x \in Sessions \ {s} : base[x] = IF x \in idlePrior THEN SettleBridged(run[x]) ELSE run[x]
  OBVIOUS
<1>7. base = [x \in Sessions |-> base[x]]
  OBVIOUS
<1>8. \A x \in idlePrior : x \in Sessions \ {s} /\ run[x].life = "open"
  BY <1>1
<1> HIDE DEF base, opened, idlePrior
<1>9. base \in [Sessions -> RunRecord]
  <2>1. \A x \in Sessions : base[x] \in RunRecord
    BY <1>2, <1>4, <1>5, <1>6, SettleTyped
  <2> QED BY <1>7, <2>1
<1>10. \A x \in Sessions \ {s} : base[x].life = run[x].life /\ base[x].why = run[x].why
  BY <1>2, <1>6, WithoutSameEnd DEF SameEnd
<1>11. \A x \in superseded \cup evicted \cup ended : x \in Sessions => base[x].life # "closed"
  BY <1>4, <1>5, <1>8, <1>10
<1>12. \A x \in DOMAIN why : /\ x \in superseded \cup evicted \cup ended
                             /\ why[x] \in TerminalReasons /\ why[x] # "result-write-failed"
  <2>1. DOMAIN why = superseded \cup evicted \cup ended
    OBVIOUS
  <2> HIDE DEF superseded, evicted, ended
  <2> QED BY <2>1 DEF StreamReason, TerminalReasons
<1>13. Settles(base, stones)
  <2>1. \A x \in Sessions : run[x].life = "closed" => base[x].life = "closed" /\ base[x].why = run[x].why
    BY <1>1, <1>10
  <2>2. ASSUME NEW x \in Sessions, NEW e \in ExecIds,
               run[x].pending[e].state # "absent", base[x].pending[e].state = "absent"
        PROVE  stones[<<x, e>>] # "none"
    <3>1. x # s /\ x \in idlePrior
      BY <1>4, <1>5, <1>6, <2>2
    <3>2. base[x].pending[e] = IF e \in Settleable(run[x]) THEN Absent ELSE run[x].pending[e]
      BY <1>2, <1>6, <3>1, SettleOK
    <3>3. e \in Settleable(run[x])
      BY <2>2, <3>2
    <3>4. <<x, e>> \in Keys /\ <<x, e>> \in settled
      BY <3>1, <3>3 DEF Keys
    <3> HIDE DEF settled
    <3> QED BY <3>4
  <2>3. \A k \in Keys : /\ stones[k] = "none" => tombstones[k] = "none"
                        /\ stones[k] = "result-write-failed" => tombstones[k] = "result-write-failed"
    OBVIOUS
  <2> HIDE DEF stones
  <2> QED BY <1>9, <2>1, <2>2, <2>3 DEF Settles
<1> HIDE DEF superseded, evicted, ended, why, stones, hosts, settled
<1>14. \A x \in Sessions \cap DOMAIN why :
          base[x].life # "closed" /\ why[x] \in TerminalReasons \cup QuietReasons
  BY <1>11, <1>12
<1>15. \A x \in Sessions \cap DOMAIN why : why[x] # "result-write-failed"
  BY <1>12
<1> QED BY <1>1, <1>13, <1>14, <1>15, CloseAllRemembers

\* So does every other step of a Run.
LEMMA RunRemembers ==
    ASSUME TypeOK, RegistryOK(run, byExecId, byOpenCodeSessionId),
           NEW s \in Sessions, RunStep(s)
    PROVE  Remembers /\ Blameless
<1>0. run[s] \in RunRecord /\ RunOK(run[s])
  BY RunFields DEF RegistryOK
<1>1. CASE \E how \in {"ended", "failed"} : StreamEnds(s, how)
  <2>1. PICK how \in {"ended", "failed"} : run' = [run EXCEPT ![s] = [run[s] EXCEPT !.stream = how]]
    BY <1>1 DEF StreamEnds
  <2> DEFINE q == [run[s] EXCEPT !.stream = how]
  <2>2. q.life = run[s].life /\ q.why = run[s].why /\ q.pending = run[s].pending
    BY <1>0 DEF RunRecord
  <2>3. run' = [run EXCEPT ![s] = q] /\ UNCHANGED tombstones
    BY <1>1, <2>1 DEF StreamEnds
  <2> HIDE DEF q
  <2>4. Changed(s, q)
    BY <2>2, <2>3 DEF Changed
  <2> QED BY <2>4, ChangedRemembers
<1>2. CASE HeartbeatTick(s) \/ HeartbeatWritten(s)
  <2>1. PICK how \in {"idle", "writing"} :
           run' = [run EXCEPT ![s] = [run[s] EXCEPT !.heartbeat = how]]
    BY <1>2 DEF HeartbeatTick, HeartbeatWritten
  <2> DEFINE q == [run[s] EXCEPT !.heartbeat = how]
  <2>2. q.life = run[s].life /\ q.why = run[s].why /\ q.pending = run[s].pending
    BY <1>0 DEF RunRecord
  <2>3. run' = [run EXCEPT ![s] = q] /\ UNCHANGED tombstones
    BY <1>2, <2>1 DEF HeartbeatTick, HeartbeatWritten
  <2> HIDE DEF q
  <2>4. Changed(s, q)
    BY <2>2, <2>3 DEF Changed
  <2> QED BY <2>4, ChangedRemembers
<1>3. CASE LeaseRenewed(s)
  <2> DEFINE p == [e \in ExecIds |-> [run[s].pending[e] EXCEPT !.lapsed = FALSE]]
             q == [run[s] EXCEPT !.pending = p]
  <2>1. run' = [run EXCEPT ![s] = q] /\ UNCHANGED tombstones
    BY <1>3 DEF LeaseRenewed
  <2>2. \A e \in ExecIds : p[e].state = run[s].pending[e].state
    BY <1>0 DEF RunRecord, PendingExec
  <2> HIDE DEF p
  <2>3. q.life = run[s].life /\ q.why = run[s].why /\ q.pending = p
    BY <1>0 DEF RunRecord
  <2> HIDE DEF q
  <2>4. Changed(s, q)
    BY <2>1, <2>2, <2>3 DEF Changed
  <2> QED BY <2>4, ChangedRemembers
<1>4. CASE HostStop(s)
  <2> DEFINE E == Present(run[s])
             left == Without(run[s], E)
             q == [left EXCEPT !.interrupted = TRUE, !.heartbeat = "off"]
  <2>1. /\ run' = [run EXCEPT ![s] = q]
        /\ tombstones' = [k \in Keys |-> IF k \in {s} \X E THEN "host-interrupted" ELSE tombstones[k]]
    BY <1>4 DEF HostStop
  <2>2. /\ left \in RunRecord /\ left.life = run[s].life /\ left.why = run[s].why
        /\ \A e \in ExecIds : left.pending[e] = IF e \in E THEN Absent ELSE run[s].pending[e]
    BY <1>0, WithoutTyped, WithoutOK, WithoutSameEnd DEF SameEnd
  <2> HIDE DEF left, E
  <2>3. q.life = run[s].life /\ q.why = run[s].why /\ q.pending = left.pending
    BY <2>2 DEF RunRecord
  <2> HIDE DEF q
  <2>4. \A x \in Sessions, e \in ExecIds : tombstones'[<<x, e>>] =
           IF x = s /\ e \in E THEN "host-interrupted" ELSE tombstones[<<x, e>>]
    BY <2>1 DEF Keys
  <2>5. TookOut(s, E, q, "host-interrupted")
    BY <2>1, <2>2, <2>3, <2>4 DEF TookOut
  <2> QED BY <2>5, TakenOutRemembers
<1>5. CASE TerminalAnnounced(s)
  <2> DEFINE heard == [run EXCEPT ![s].settled = TRUE]
             q == heard[s]
             held == HoldAfterCleanClose(q)
             put == [q EXCEPT !.deferred = StreamReason(q)]
  <2>1. \/ (run' = heard \/ run' = [heard EXCEPT ![s] = held]
            \/ run' = [heard EXCEPT ![s].deferred = StreamReason(q)]) /\ UNCHANGED tombstones
        \/ q.life = "open" /\ CloseAll([x \in {s} |-> StreamReason(q)], heard, byExecId,
                                       byOpenCodeSessionId, tombstones)
    BY <1>5 DEF TerminalAnnounced
  <2>2. heard = [run EXCEPT ![s] = q] /\ q = [run[s] EXCEPT !.settled = TRUE] /\ heard[s] = q
    BY DEF TypeOK
  <2> HIDE DEF q
  <2>3. q \in RunRecord /\ q.life = run[s].life /\ q.why = run[s].why /\ q.pending = run[s].pending
    BY <1>0, <2>2 DEF RunRecord
  <2>4. /\ held.life = run[s].life /\ held.why = run[s].why /\ held.pending = run[s].pending
        /\ put.life = run[s].life /\ put.why = run[s].why /\ put.pending = run[s].pending
    BY <2>3 DEF HoldAfterCleanClose, RunRecord
  <2>5. /\ [heard EXCEPT ![s] = held] = [run EXCEPT ![s] = held]
        /\ [heard EXCEPT ![s].deferred = StreamReason(q)] = [run EXCEPT ![s] = put]
    BY <2>2 DEF TypeOK
  <2> HIDE DEF held, put
  <2>6. CASE (run' = heard \/ run' = [heard EXCEPT ![s] = held]
              \/ run' = [heard EXCEPT ![s].deferred = StreamReason(q)]) /\ UNCHANGED tombstones
    <3> HIDE DEF heard
    <3>1. UNCHANGED tombstones /\ \E r \in {q, held, put} : run' = [run EXCEPT ![s] = r]
      BY <2>2, <2>5, <2>6
    <3>2. PICK r \in {q, held, put} : run' = [run EXCEPT ![s] = r]
      BY <3>1
    <3>3. r.life = run[s].life /\ r.why = run[s].why /\ r.pending = run[s].pending
      BY <2>3, <2>4
    <3>4. Changed(s, r)
      BY <3>1, <3>2, <3>3 DEF Changed
    <3> QED BY <3>4, ChangedRemembers
  <2>7. CASE q.life = "open" /\ CloseAll([x \in {s} |-> StreamReason(q)], heard, byExecId,
                                         byOpenCodeSessionId, tombstones)
    <3> DEFINE w == [x \in {s} |-> StreamReason(q)]
    <3>1. /\ DOMAIN w = {s} /\ w[s] = StreamReason(q)
          /\ CloseAll(w, heard, byExecId, byOpenCodeSessionId, tombstones)
      BY <2>7
    <3>2. StreamReason(q) \in TerminalReasons /\ StreamReason(q) # "result-write-failed"
      BY DEF StreamReason, TerminalReasons
    <3>3. \A x \in Sessions : heard[x] = IF x = s THEN q ELSE run[x]
      BY <2>2 DEF TypeOK
    <3>4. heard \in [Sessions -> RunRecord]
      BY <2>2, <2>3 DEF TypeOK
    <3> HIDE DEF heard, w
    <3>5. Settles(heard, tombstones)
      BY <2>3, <3>3, <3>4 DEF Settles
    <3>6. \A x \in Sessions \cap DOMAIN w :
             /\ heard[x].life # "closed" /\ w[x] \in TerminalReasons \cup QuietReasons
             /\ w[x] # "result-write-failed"
      BY <2>7, <3>1, <3>2, <3>3
    <3> QED BY <3>1, <3>5, <3>6, CloseAllRemembers
  <2> QED BY <2>1, <2>6, <2>7
<1>6. CASE AbandonPending(s)
  BY <1>6, DropRemembers DEF AbandonPending
<1>7. CASE HeartbeatFails(s) \/ HardDeadline(s) \/ CancelDone(s) \/ CloseUnlessPending(s)
  <2>1. PICK why \in {"heartbeat-write-failed", "hard-cap-expired", "host-interrupted", "ordinary-cleanup"} :
           Close(s, why)
    BY <1>7 DEF HeartbeatFails, HardDeadline, CancelDone, CloseUnlessPending
  <2>2. why \in TerminalReasons \cup QuietReasons /\ why # "result-write-failed"
    BY DEF TerminalReasons, QuietReasons
  <2> QED BY <2>1, <2>2, CloseRemembers
<1> QED BY <1>1, <1>2, <1>3, <1>4, <1>5, <1>6, <1>7, RegisterRemembers DEF RunStep

\* So does every step of a pump.
LEMMA PumpRemembers ==
    ASSUME TypeOK, RegistryOK(run, byExecId, byOpenCodeSessionId), NEW o \in Pumps, PumpStep(o)
    PROVE  Remembers /\ Blameless
<1>0. \A s \in Sessions : run[s] \in RunRecord /\ RunOK(run[s])
  BY RunFields DEF RegistryOK
<1>1. ASSUME NEW s \in Sessions, BeginPump(o, s)
      PROVE  Remembers /\ Blameless
  <2> DEFINE q == [run[s] EXCEPT !.pumpOwner = o, !.answeredContinuation = FALSE]
  <2>1. run' = [run EXCEPT ![s] = q] /\ UNCHANGED tombstones
    BY <1>1 DEF BeginPump, TypeOK
  <2>2. q.life = run[s].life /\ q.why = run[s].why /\ q.pending = run[s].pending
    BY <1>0 DEF RunRecord
  <2> HIDE DEF q
  <2>3. Changed(s, q)
    BY <2>1, <2>2 DEF Changed
  <2> QED BY <2>3, ChangedRemembers
<1>2. ASSUME NEW why \in PumpReasons, PumpCloses(o, why)
      PROVE  Remembers /\ Blameless
  <2>1. why \in TerminalReasons \cup QuietReasons /\ why # "result-write-failed"
    BY BoundsAssumption DEF TerminalReasons, QuietReasons
  <2>2. pumps[o] \in Sessions /\ Close(pumps[o], why)
    BY <1>2 DEF PumpCloses, TypeOK
  <2> QED BY <2>1, <2>2, CloseRemembers
<1>3. CASE ReplaceStream(o)
  <2> DEFINE s == pumps[o]
             n == run[s].epoch + 1
             q == [run[s] EXCEPT !.stream = "live", !.settled = FALSE, !.epoch = n,
                                 !.deferred = "none", !.heartbeat = "idle"]
  <2>1. s \in Sessions /\ run' = [run EXCEPT ![s] = q] /\ UNCHANGED tombstones
    BY <1>3 DEF ReplaceStream, TypeOK
  <2> HIDE DEF n
  <2>2. q.life = run[s].life /\ q.why = run[s].why /\ q.pending = run[s].pending
    BY <1>0, <2>1 DEF RunRecord
  <2> HIDE DEF q, s
  <2>3. Changed(s, q)
    BY <2>1, <2>2 DEF Changed
  <2> QED BY <2>1, <2>3, ChangedRemembers
<1>4. CASE EndPump(o) \/ EndDrain(o)
  <2> DEFINE s == pumps[o]
             ended == [run[s] EXCEPT !.pumpOwner = None, !.deferred = "none"]
             hold == run[s].deferred = "remote-clean-close" /\ HoldsOnlyAnsweredWork(run[s])
             after == IF hold THEN HoldAfterCleanClose(ended) ELSE ended
             base == [run EXCEPT ![s] = after]
             reason == IF run[s].deferred # "none" /\ ~hold /\ ~run[s].interrupted
                       THEN run[s].deferred ELSE "ordinary-cleanup"
             keeps == Present(run[s]) # {} \/ run[s].interrupted
             pumpWhy == [x \in {y \in {s} : ~keeps \/ reason # "ordinary-cleanup"} |-> reason]
             drainWhy == [x \in {y \in {s} : run[s].deferred # "none" /\ ~hold /\ ~run[s].interrupted}
                             |-> run[s].deferred]
  <2>1. s \in Sessions /\ run[s] \in RunRecord /\ RunOK(run[s])
    <3>1. s \in Sessions
      BY <1>4 DEF EndPump, EndDrain, TypeOK
    <3> QED BY <1>0, <3>1
  <2>2. /\ \A x \in DOMAIN pumpWhy : x = s /\ pumpWhy[x] = reason
        /\ \A x \in DOMAIN drainWhy : x = s /\ drainWhy[x] = run[s].deferred /\ run[s].deferred # "none"
    OBVIOUS
  <2>3. \/ UNCHANGED registry
        \/ run[s].pumpOwner = o /\ CloseAll(pumpWhy, base, byExecId, byOpenCodeSessionId, tombstones)
        \/ run[s].pumpOwner = o /\ CloseAll(drainWhy, base, byExecId, byOpenCodeSessionId, tombstones)
    BY <1>4 DEF EndPump, EndDrain
  <2>4. run[s].pumpOwner = o => run[s].life = "open"
    BY <2>1, HostsAssumption DEF RunOK
  <2>5. /\ reason \in TerminalReasons \cup QuietReasons /\ reason # "result-write-failed"
        /\ run[s].deferred # "none" => /\ run[s].deferred \in TerminalReasons \cup QuietReasons
                                       /\ run[s].deferred # "result-write-failed"
    BY <2>1 DEF RunRecord, TerminalReasons, QuietReasons
  <2>6. after \in RunRecord /\ after.life = run[s].life /\ after.why = run[s].why
        /\ after.pending = run[s].pending
    <3>1. ended \in RunRecord /\ ended.life = run[s].life /\ ended.why = run[s].why
          /\ ended.pending = run[s].pending
      BY <2>1 DEF RunRecord
    <3> HIDE DEF ended, hold
    <3>2. /\ HoldAfterCleanClose(ended) \in RunRecord
          /\ HoldAfterCleanClose(ended).life = run[s].life
          /\ HoldAfterCleanClose(ended).why = run[s].why
          /\ HoldAfterCleanClose(ended).pending = run[s].pending
      BY <3>1, HoldTyped DEF HoldAfterCleanClose, RunRecord
    <3> QED BY <3>1, <3>2
  <2> HIDE DEF after, reason, pumpWhy, drainWhy, s
  <2>7. \A x \in Sessions : base[x] = IF x = s THEN after ELSE run[x]
    BY DEF TypeOK
  <2>8. base \in [Sessions -> RunRecord]
    BY <2>6 DEF TypeOK
  <2> HIDE DEF base
  <2>9. Settles(base, tombstones)
    BY <2>6, <2>7, <2>8 DEF Settles
  <2>10. CASE UNCHANGED registry
    BY <2>10, SameRemembers DEF registry
  <2>11. ASSUME NEW w, run[s].pumpOwner = o,
                CloseAll(w, base, byExecId, byOpenCodeSessionId, tombstones),
                \A x \in DOMAIN w : /\ x = s /\ w[x] \in TerminalReasons \cup QuietReasons
                                    /\ w[x] # "result-write-failed"
         PROVE  Remembers /\ Blameless
    <3>1. \A x \in Sessions \cap DOMAIN w :
             base[x].life # "closed" /\ w[x] \in TerminalReasons \cup QuietReasons
      BY <2>4, <2>6, <2>7, <2>11
    <3>2. \A x \in Sessions \cap DOMAIN w : w[x] # "result-write-failed"
      BY <2>11
    <3> QED BY <2>9, <2>11, <3>1, <3>2, CloseAllRemembers
  <2> QED BY <2>2, <2>3, <2>5, <2>10, <2>11
<1> QED BY <1>1, <1>2, <1>3, <1>4 DEF PumpStep

\* So do the host's steps.
LEMMA HostRemembers ==
    ASSUME TypeOK, RegistryOK(run, byExecId, byOpenCodeSessionId),
           (\E h \in Hosts : HostStep(h)) \/ Dispose
    PROVE  Remembers /\ Blameless
<1>1. Settles(run, tombstones)
  BY SameSettles
<1>2. ASSUME NEW h \in Hosts, SettleForFreshTurn(h)
      PROVE  Remembers /\ Blameless
  <2>1. byOpenCodeSessionId[h] \in Sessions
    BY <1>2 DEF SettleForFreshTurn, TypeOK
  <2> QED BY <1>2, <2>1, DropRemembers DEF SettleForFreshTurn
<1>3. ASSUME NEW E, NEW reason \in {"superseded-by-new-run", "process-disposed"}, NEW routes,
             \A x \in E : run[x].life = "open",
             CloseAll([x \in E |-> reason], run, routes, byOpenCodeSessionId, tombstones)
      PROVE  Remembers /\ Blameless
  <2> DEFINE w == [x \in E |-> reason]
  <2>1. \A x \in DOMAIN w : w[x] = reason /\ run[x].life = "open"
    BY <1>3
  <2>2. CloseAll(w, run, routes, byOpenCodeSessionId, tombstones)
    BY <1>3
  <2> HIDE DEF w
  <2>3. /\ \A x \in Sessions \cap DOMAIN w :
              run[x].life # "closed" /\ w[x] \in TerminalReasons \cup QuietReasons
        /\ \A x \in Sessions \cap DOMAIN w : w[x] # "result-write-failed"
    BY <2>1 DEF TerminalReasons
  <2> QED BY <1>1, <2>2, <2>3, CloseAllRemembers
<1>4. ASSUME NEW h \in Hosts, HistoryRewritten(h)
      PROVE  Remembers /\ Blameless
  <2> DEFINE E == {x \in Sessions : HostOf[x] = h /\ run[x].life = "open"}
  <2>1. CloseAll([x \in E |-> "superseded-by-new-run"], run, byExecId, byOpenCodeSessionId, tombstones)
        /\ \A x \in E : run[x].life = "open"
    BY <1>4 DEF HistoryRewritten
  <2> HIDE DEF E
  <2> QED BY <1>3, <2>1
<1>5. CASE Dispose
  <2> DEFINE E == {x \in Sessions : run[x].life = "open"}
  <2>1. CloseAll([x \in E |-> "process-disposed"], run, {}, byOpenCodeSessionId, tombstones)
        /\ \A x \in E : run[x].life = "open"
    BY <1>5 DEF Dispose
  <2> HIDE DEF E
  <2> QED BY <1>3, <2>1
<1> QED BY <1>2, <1>4, <1>5 DEF HostStep

\* So does every step of an exec, except the two that are meant to forget it.
LEMMA ExecRemembers ==
    ASSUME TypeOK, RegistryOK(run, byExecId, byOpenCodeSessionId),
           NEW s \in Sessions, NEW e \in ExecIds, ExecStep(s, e)
    PROVE  \/ Remembers /\ Blameless
           \/ ForgetHeldExec(s, e)
           \/ \E kind \in Kinds : RegisterPending(s, e, kind)
<1>0. run[s] \in RunRecord /\ run[s].pending \in [ExecIds -> PendingExec]
      /\ run[s].pending[e] \in PendingExec
  BY RunFields
<1>1. ASSUME NEW p, p.state = "absent" => run[s].pending[e].state = "absent",
             run' = [run EXCEPT ![s] = [run[s] EXCEPT !.pending[e] = p]], UNCHANGED tombstones
      PROVE  Remembers /\ Blameless
  <2> DEFINE q == [run[s] EXCEPT !.pending[e] = p]
  <2>1. /\ q.life = run[s].life /\ q.why = run[s].why
        /\ \A x \in ExecIds : q.pending[x] = IF x = e THEN p ELSE run[s].pending[x]
    BY <1>0 DEF RunRecord
  <2>2. run' = [run EXCEPT ![s] = q] /\ UNCHANGED tombstones
    BY <1>1
  <2> HIDE DEF q
  <2>3. \A x \in ExecIds : q.pending[x].state = "absent" => run[s].pending[x].state = "absent"
    BY <1>1, <2>1
  <2>4. Changed(s, q)
    BY <2>1, <2>2, <2>3 DEF Changed
  <2> QED BY <2>4, ChangedRemembers
<1>2. CASE MarkExecAborted(s, e)
  <2> DEFINE p == [run[s].pending[e] EXCEPT !.aborted = TRUE]
  <2>1. p.state = run[s].pending[e].state
    BY <1>0 DEF PendingExec
  <2>2. run' = [run EXCEPT ![s] = [run[s] EXCEPT !.pending[e] = p]] /\ UNCHANGED tombstones
    BY <1>2 DEF MarkExecAborted, TypeOK
  <2> HIDE DEF p
  <2> QED BY <1>1, <2>1, <2>2
<1>3. CASE LeaseLapses(s, e)
  <2> DEFINE p == [run[s].pending[e] EXCEPT !.lapsed = TRUE]
  <2>1. p.state = run[s].pending[e].state
    BY <1>0 DEF PendingExec
  <2>2. run' = [run EXCEPT ![s] = [run[s] EXCEPT !.pending[e] = p]] /\ UNCHANGED tombstones
    BY <1>3 DEF LeaseLapses, TypeOK
  <2> HIDE DEF p
  <2> QED BY <1>1, <2>1, <2>2
<1>4. ASSUME NEW c \in Callers, Claim(c, s, e)
      PROVE  Remembers /\ Blameless
  <2> DEFINE p == [run[s].pending[e] EXCEPT !.state = "claimed"]
  <2>1. p.state = "claimed"
    BY <1>0 DEF PendingExec
  <2>2. run' = [run EXCEPT ![s] = [run[s] EXCEPT !.pending[e] = p]] /\ UNCHANGED tombstones
    BY <1>4 DEF Claim, TypeOK
  <2> HIDE DEF p
  <2> QED BY <1>1, <2>1, <2>2
<1>5. CASE Resolve(s, e)
  BY <1>5, DropRemembers DEF Resolve
<1>6. CASE Classify(s, e)
  BY <1>6, ReclassifyRemembers DEF Classify
<1>7. CASE ForgetTombstone(<<s, e>>)
  <2>1. \A k \in Keys : tombstones'[k] = tombstones[k] \/ tombstones'[k] = "forgotten"
    BY <1>7 DEF ForgetTombstone, TypeOK
  <2>2. run' = run
    BY <1>7 DEF ForgetTombstone
  <2> QED BY <2>1, <2>2 DEF Remembers, Blameless
<1> QED BY <1>2, <1>3, <1>4, <1>5, <1>6, <1>7 DEF ExecStep

-----------------------------------------------------------------------------
(* What a step of a delivery leaves behind. *)

\* The execs a step names for a failed write are those of one Run it closes.
Blames(s) ==
    \A k \in Keys : tombstones'[k] = "result-write-failed" =>
        \/ tombstones[k] = "result-write-failed"
        \/ /\ k[1] = s /\ run'[s].life = "closed"
           /\ run[s].pending[k[2]].state # "absent"

\* The exec of a delivery that ends is no longer claimed for it.
Freed(c) ==
    LET d == deliveries[c]
        p == run'[d.key[1]].pending[d.key[2]]
    IN p.state = "claimed" => p.id # d.id

\* A delivery under way moves on.
GoesOn(c, d) ==
    /\ deliveries' = [deliveries EXCEPT ![c] = d]
    /\ d.key = deliveries[c].key /\ d.id = deliveries[c].id
    /\ d.pc \in {"queued", "draining"}
    /\ UNCHANGED <<run, tombstones>>

\* Nothing was sent of the result a delivery fails its Run for.
FailsUnsent(c) ==
    /\ deliveries[c].pc \in {"claimed", "queued"}
    /\ deliveries[c].pc = "queued" => deliveries[c].written = 0

Outcome(c) ==
    /\ Remembers
    /\ Shrunk(run, run')
    /\ \/ Blameless
       \/ Blames(deliveries[c].key[1]) /\ FailsUnsent(c)
    /\ \/ Retire(c) /\ Freed(c)
       \/ \E d : GoesOn(c, d)

\* A closed Run has no exec left.
LEMMA CloseEmpties ==
    ASSUME TypeOK, RegistryOK(run, byExecId, byOpenCodeSessionId), NEW s \in Sessions, NEW why,
           Close(s, why)
    PROVE  /\ \A e \in ExecIds : run'[s].pending[e].state = "absent"
           /\ Blames(s)
<1>0. run[s] \in RunRecord /\ RunOK(run[s])
  BY RunFields DEF RegistryOK
<1>1. CASE run[s].life = "open"
  <2> DEFINE w == [x \in {s} |-> why]
  <2>1. CloseAll(w, run, byExecId, byOpenCodeSessionId, tombstones)
    BY <1>1 DEF Close
  <2>2. DOMAIN w = {s} /\ w[s] = why
    OBVIOUS
  <2> HIDE DEF w
  <2>3. run'[s] = ClosedRun(run[s], why)
    BY <2>1, <2>2 DEF CloseAll
  <2>4. run'[s].life = "closed" /\ \A e \in ExecIds : run'[s].pending[e] = Absent
    BY <1>0, <2>3, ClosedOK, ClosedReason
  <2>5. \A k \in Keys :
           \/ tombstones'[k] = tombstones[k]
           \/ k[1] = s /\ k[2] \in Present(run[s])
    BY <2>1, <2>2 DEF CloseAll
  <2> QED BY <2>4, <2>5 DEF Absent, Blames, Present
<1>2. CASE run[s].life # "open"
  <2>1. run' = run /\ tombstones' = tombstones
    BY <1>2 DEF Close, registry
  <2> QED BY <1>0, <1>2, <2>1 DEF RunOK, Present, Blames
<1> QED BY <1>1, <1>2

\* A delivery that found its exec gone ends.
LEMMA UnavailableOutcome ==
    ASSUME TypeOK, ActiveKeys, RegistryOK(run, byExecId, byOpenCodeSessionId),
           NEW c \in Callers, deliveries[c].pc # "idle", Unavailable(c)
    PROVE  Outcome(c)
<1> DEFINE d == deliveries[c]
           s == d.key[1]
           e == d.key[2]
<1>0. d.key \in Keys /\ s \in Sessions /\ e \in ExecIds /\ d.key = <<s, e>>
  BY DEF ActiveKeys, Keys
<1>1. Reclassify(s, e) /\ Retire(c) /\ ~Available(d)
  BY DEF Unavailable
<1>2. Remembers /\ Blameless /\ Shrunk(run, run')
  BY <1>0, <1>1, ReclassifyRemembers, ReclassifyShrinks
<1>3. run[s].pending[e].state = "absent" \/ run[s].pending[e].id # d.id
  <2>1. run[s].life # "open" => run[s].pending[e].state = "absent"
    BY <1>0 DEF RegistryOK, RunOK, Present
  <2>2. d.key \notin byExecId => run[s].pending[e].state = "absent"
    BY <1>0 DEF RegistryOK, Routed
  <2> QED BY <1>1, <2>1, <2>2 DEF Available
<1>4. Kept(run[s].pending[e], run'[s].pending[e])
  BY <1>0, <1>2 DEF Shrunk
<1>5. Freed(c)
  BY <1>3, <1>4 DEF Freed, Kept
<1> QED BY <1>1, <1>2, <1>5 DEF Outcome

\* So does one that closes its Run.
LEMMA ClosesOutcome ==
    ASSUME TypeOK, ActiveKeys, RegistryOK(run, byExecId, byOpenCodeSessionId),
           NEW c \in Callers, deliveries[c].pc # "idle", NEW why \in TerminalReasons,
           why = "result-write-failed" => FailsUnsent(c),
           Close(deliveries[c].key[1], why), Retire(c)
    PROVE  Outcome(c)
<1>0. deliveries[c].key \in Keys /\ deliveries[c].key[1] \in Sessions /\ deliveries[c].key[2] \in ExecIds
  BY DEF ActiveKeys, Keys
<1>1. Remembers /\ (why # "result-write-failed" => Blameless) /\ Shrunk(run, run')
  BY <1>0, CloseRemembers, CloseShrinks
<1>2. Blames(deliveries[c].key[1]) /\ Freed(c)
  BY <1>0, CloseEmpties DEF Freed
<1> QED BY <1>1, <1>2 DEF Outcome

\* And one that completed.
LEMMA DeliveredOutcome ==
    ASSUME TypeOK, ActiveKeys, RegistryOK(run, byExecId, byOpenCodeSessionId),
           NEW c \in Callers, deliveries[c].pc # "idle", Delivered(c)
    PROVE  Outcome(c)
<1>0. deliveries[c].key \in Keys
  BY DEF ActiveKeys
<1>1. Remembers /\ Blameless /\ Freed(c) /\ Shrunk(run, run')
  BY <1>0, DeliveredRemembers, DeliveredShrinks DEF Freed
<1>2. Retire(c)
  BY DEF Delivered
<1> QED BY <1>1, <1>2 DEF Outcome

\* One whose write failed blames its own Run, and only with nothing sent.
LEMMA WriteFailedOutcome ==
    ASSUME TypeOK, ActiveKeys, RegistryOK(run, byExecId, byOpenCodeSessionId),
           NEW c \in Callers, deliveries[c].pc # "idle", NEW n, n = 0 => FailsUnsent(c),
           WriteFailed(c, n)
    PROVE  Outcome(c)
<1> DEFINE why == IF n = 0 THEN "result-write-failed" ELSE "ambiguous-partial-write"
<1>1. CASE Unavailable(c)
  BY <1>1, UnavailableOutcome
<1>2. CASE Close(deliveries[c].key[1], why) /\ Retire(c)
  <2>1. why \in TerminalReasons /\ (why = "result-write-failed" => FailsUnsent(c))
    BY DEF TerminalReasons
  <2> HIDE DEF why
  <2> QED BY <1>2, <2>1, ClosesOutcome
<1> QED BY <1>1, <1>2 DEF WriteFailed

\* The outcome of every step of a delivery.
LEMMA DeliveryOutcome ==
    ASSUME TypeOK, ActiveKeys, RegistryOK(run, byExecId, byOpenCodeSessionId),
           NEW c \in Callers, DeliveryStep(c)
    PROVE  deliveries[c].pc # "idle" /\ Outcome(c)
<1> DEFINE d == deliveries[c]
<1>0. d \in Delivery /\ deliveries \in [Callers -> Delivery]
  BY DEF TypeOK
<1>1. ASSUME NEW w, GoesOn(c, w)
      PROVE  Outcome(c)
  <2>1. Remembers /\ Blameless /\ Shrunk(run, run')
    BY <1>1, SameRemembers, SameShrinks DEF GoesOn
  <2> QED BY <1>1, <2>1 DEF Outcome
<1>2. ASSUME NEW n, NEW b, StartDelivery(c, n, b)
      PROVE  d.pc # "idle" /\ Outcome(c)
  <2>0. d.pc = "claimed" /\ d.pc # "idle" /\ FailsUnsent(c)
    BY <1>2 DEF StartDelivery, FailsUnsent
  <2>1. ASSUME /\ deliveries' = [deliveries EXCEPT ![c].pc = "queued", ![c].left = n,
                                                   ![c].epoch = run[d.key[1]].epoch]
               /\ UNCHANGED registry
        PROVE  Outcome(c)
    <3> DEFINE w == [d EXCEPT !.pc = "queued", !.left = n, !.epoch = run[d.key[1]].epoch]
    <3>1. w.pc = "queued" /\ w.key = d.key /\ w.id = d.id
      BY <1>0 DEF Delivery
    <3>2. deliveries' = [deliveries EXCEPT ![c] = w] /\ UNCHANGED <<run, tombstones>>
      BY <1>0, <2>1 DEF registry
    <3> HIDE DEF w
    <3>3. GoesOn(c, w)
      BY <3>1, <3>2 DEF GoesOn
    <3> QED BY <1>1, <3>3
  <2>2. Unavailable(c) => Outcome(c)
    BY <2>0, UnavailableOutcome
  <2>3. Close(d.key[1], "hard-cap-expired") /\ Retire(c) => Outcome(c)
    BY <2>0, ClosesOutcome DEF TerminalReasons
  <2>4. Delivered(c) \/ WriteFailed(c, 0) => Outcome(c)
    BY <2>0, DeliveredOutcome, WriteFailedOutcome
  <2> QED BY <1>2, <2>0, <2>1, <2>2, <2>3, <2>4 DEF StartDelivery
<1>3. CASE EncodingFails(c)
  <2>1. d.pc # "idle" /\ FailsUnsent(c) /\ Close(d.key[1], "result-write-failed") /\ Retire(c)
    BY <1>3 DEF EncodingFails, FailsUnsent
  <2> QED BY <2>1, ClosesOutcome DEF TerminalReasons
<1>4. CASE SendFrame(c)
  <2> DEFINE w == [d EXCEPT !.pc = "draining"]
  <2>1. w.pc = "draining" /\ w.key = d.key /\ w.id = d.id
    BY <1>0 DEF Delivery
  <2>2. deliveries' = [deliveries EXCEPT ![c] = w] /\ UNCHANGED <<run, tombstones>> /\ d.pc # "idle"
    BY <1>0, <1>4 DEF SendFrame, registry
  <2> HIDE DEF w
  <2>3. GoesOn(c, w)
    BY <2>1, <2>2 DEF GoesOn
  <2> QED BY <1>1, <2>2, <2>3
<1>5. CASE FrameRefused(c)
  <2>1. d.pc # "idle" /\ WriteFailed(c, d.written) /\ (d.written = 0 => FailsUnsent(c))
    BY <1>5 DEF FrameRefused, FailsUnsent
  <2> QED BY <2>1, WriteFailedOutcome
<1>6. CASE DrainFails(c)
  <2>1. d.pc # "idle" /\ WriteFailed(c, d.written + 1) /\ d.written + 1 # 0
    BY <1>0, <1>6 DEF DrainFails, Delivery
  <2> QED BY <2>1, WriteFailedOutcome
<1>7. CASE FrameDrained(c)
  <2>0. d.pc # "idle"
    BY <1>7 DEF FrameDrained
  <2>1. ASSUME /\ deliveries' = [deliveries EXCEPT ![c].pc = "queued", ![c].left = @ - 1,
                                     ![c].written = @ + 1, ![c].epoch = run[d.key[1]].epoch]
               /\ UNCHANGED registry
        PROVE  Outcome(c)
    <3> DEFINE w == [d EXCEPT !.pc = "queued", !.left = d.left - 1, !.written = d.written + 1,
                              !.epoch = run[d.key[1]].epoch]
    <3>1. w.pc = "queued" /\ w.key = d.key /\ w.id = d.id
      BY <1>0 DEF Delivery
    <3>2. deliveries' = [deliveries EXCEPT ![c] = w] /\ UNCHANGED <<run, tombstones>>
      BY <1>0, <2>1 DEF registry
    <3> HIDE DEF w
    <3>3. GoesOn(c, w)
      BY <3>1, <3>2 DEF GoesOn
    <3> QED BY <1>1, <3>3
  <2> QED BY <1>7, <2>0, <2>1, UnavailableOutcome, DeliveredOutcome DEF FrameDrained
<1> QED BY <1>2, <1>3, <1>4, <1>5, <1>6, <1>7 DEF DeliveryStep

-----------------------------------------------------------------------------
(* No exec is forgotten, and a failed delivery is named for what was sent. *)

\* Deliveries on one Run take turns, if they are chained.
Turns ==
    Serialised => \A x, y \in Callers :
        x # y /\ deliveries[x].pc # "idle" /\ deliveries[y].pc # "idle" =>
           deliveries[x].key[1] # deliveries[y].key[1]

\* A claimed exec is some delivery's.
Served ==
    \A s \in Sessions, e \in ExecIds : run[s].pending[e].state = "claimed" =>
        \E c \in Callers : /\ deliveries[c].pc # "idle"
                           /\ deliveries[c].key = <<s, e>>
                           /\ deliveries[c].id = run[s].pending[e].id

\* A delivery that has written nothing yet has written nothing.
Fresh == \A c \in Callers : deliveries[c].pc = "claimed" => deliveries[c].written = 0

\* A Run whose result could not be written is closed, and nothing was sent.
Blamed ==
    \A k \in Keys : tombstones[k] = "result-write-failed" =>
        run[k[1]].life = "closed" /\ (Serialised => wire[k] = 0)

AccountInv == Turns /\ Served /\ Fresh /\ Blamed /\ ExecAccountedFor

\* What a result owes Cursor stays accounted for over a step that remembers.
LEMMA RememberedAccount ==
    ASSUME ReasonsInv, ExecAccountedFor, Remembers, UNCHANGED <<registrations, redispatch>>
    PROVE  ExecAccountedFor'
<1> SUFFICES ASSUME NEW s \in Sessions, NEW e \in ExecIds, registrations[<<s, e>>] > 0
             PROVE  \/ run'[s].pending[e].state # "absent"
                    \/ tombstones'[<<s, e>>] # "none"
                    \/ <<s, e>> \in redispatch
                    \/ run'[s].why \in QuietReasons
  BY DEF ExecAccountedFor
<1>1. <<s, e>> \in Keys
  BY DEF Keys
<1>2. CASE run[s].pending[e].state # "absent"
  BY <1>2 DEF Remembers
<1>3. CASE run[s].why \in QuietReasons
  <2>1. run[s].life = "closed"
    BY <1>3 DEF ReasonsInv, QuietReasons
  <2> QED BY <1>3, <2>1 DEF Remembers
<1> QED BY <1>1, <1>2, <1>3 DEF ExecAccountedFor, Remembers

\* A step that claims nothing leaves the claims served.
LEMMA ShrunkServed ==
    ASSUME Served, Shrunk(run, run'), UNCHANGED deliveries
    PROVE  Served'
<1> SUFFICES ASSUME NEW s \in Sessions, NEW e \in ExecIds, run'[s].pending[e].state = "claimed"
             PROVE  \E c \in Callers : /\ deliveries[c].pc # "idle"
                                       /\ deliveries[c].key = <<s, e>>
                                       /\ deliveries[c].id = run'[s].pending[e].id
  BY DEF Served
<1>1. Kept(run[s].pending[e], run'[s].pending[e])
  BY DEF Shrunk
<1>2. run[s].pending[e].state = "claimed" /\ run'[s].pending[e].id = run[s].pending[e].id
  BY <1>1 DEF Kept
<1> QED BY <1>2 DEF Served

\* A step that blames nobody, and writes nothing, keeps the blame right.
LEMMA BlamelessBlamed ==
    ASSUME Blamed, Remembers, Blameless, UNCHANGED wire
    PROVE  Blamed'
BY DEF Blamed, Remembers, Blameless, Keys

\* So does a step that touches neither deliveries nor the wire.
LEMMA QuietAccount ==
    ASSUME ReasonsInv, AccountInv, Remembers, Blameless, Shrunk(run, run'),
           UNCHANGED <<deliveries, registrations, redispatch, wire>>
    PROVE  AccountInv'
<1>1. ExecAccountedFor' /\ Served' /\ Blamed'
  BY RememberedAccount, ShrunkServed, BlamelessBlamed DEF AccountInv
<1>2. Turns' /\ Fresh'
  BY DEF AccountInv, Turns, Fresh
<1> QED BY <1>1, <1>2 DEF AccountInv

\* A registered exec is accounted for, and is nobody's yet.
LEMMA RegisterAccount ==
    ASSUME TypeOK, ReasonsInv, AccountInv, NEW s \in Sessions, NEW e \in ExecIds,
           NEW kind \in Kinds, RegisterPending(s, e, kind)
    PROVE  AccountInv'
<1> DEFINE n == registrations[<<s, e>>] + 1
           p == [state |-> "pending", kind |-> kind, aborted |-> FALSE, lapsed |-> FALSE, id |-> n]
           q == [run[s] EXCEPT !.pending[e] = p]
           r == ScheduleHardDeadline(q)
<1>0. run[s] \in RunRecord /\ run[s].pending \in [ExecIds -> PendingExec]
  BY RunFields
<1>1. p.state = "pending"
  OBVIOUS
<1> HIDE DEF p
<1>2. /\ run' = [run EXCEPT ![s] = r] /\ registrations' = [registrations EXCEPT ![<<s, e>>] = n]
      /\ tombstones' = [tombstones EXCEPT ![<<s, e>>] = "none"]
      /\ wire' = [wire EXCEPT ![<<s, e>>] = 0] /\ redispatch' = redispatch \ {<<s, e>>}
      /\ deliveries' = deliveries
  BY DEF RegisterPending, p
<1>3. q.pending = [run[s].pending EXCEPT ![e] = p] /\ q.life = run[s].life /\ q.why = run[s].why
  BY <1>0 DEF RunRecord
<1> HIDE DEF q
<1>4. r.pending = q.pending /\ r.life = q.life /\ r.why = q.why
  BY DEF ScheduleHardDeadline
<1> HIDE DEF r, n
<1>5. \A x \in Sessions : /\ run'[x].life = run[x].life /\ run'[x].why = run[x].why
                          /\ \A y \in ExecIds : run'[x].pending[y] =
                                IF x = s /\ y = e THEN p ELSE run[x].pending[y]
  BY <1>0, <1>2, <1>3, <1>4 DEF TypeOK
<1>6. <<s, e>> \in Keys
  BY DEF Keys
<1>7. \A x \in Sessions, y \in ExecIds :
         x # s \/ y # e => /\ registrations'[<<x, y>>] = registrations[<<x, y>>]
                           /\ tombstones'[<<x, y>>] = tombstones[<<x, y>>]
                           /\ <<x, y>> \in redispatch => <<x, y>> \in redispatch'
  BY <1>2 DEF TypeOK, Keys
<1>8. ExecAccountedFor'
  <2> SUFFICES ASSUME NEW x \in Sessions, NEW y \in ExecIds, registrations'[<<x, y>>] > 0
               PROVE  \/ run'[x].pending[y].state # "absent"
                      \/ tombstones'[<<x, y>>] # "none"
                      \/ <<x, y>> \in redispatch'
                      \/ run'[x].why \in QuietReasons
    BY DEF ExecAccountedFor
  <2>1. CASE x = s /\ y = e
    BY <1>1, <1>5, <2>1
  <2>2. CASE x # s \/ y # e
    BY <1>5, <1>7, <2>2 DEF AccountInv, ExecAccountedFor
  <2> QED BY <2>1, <2>2
<1>9. Served'
  <2> SUFFICES ASSUME NEW x \in Sessions, NEW y \in ExecIds, run'[x].pending[y].state = "claimed"
               PROVE  \E c \in Callers : /\ deliveries'[c].pc # "idle"
                                         /\ deliveries'[c].key = <<x, y>>
                                         /\ deliveries'[c].id = run'[x].pending[y].id
    BY DEF Served
  <2>1. run'[x].pending[y] = run[x].pending[y]
    BY <1>1, <1>5
  <2> QED BY <1>2, <2>1 DEF AccountInv, Served
<1>10. Blamed'
  <2> SUFFICES ASSUME NEW k \in Keys, tombstones'[k] = "result-write-failed"
               PROVE  run'[k[1]].life = "closed" /\ (Serialised => wire'[k] = 0)
    BY DEF Blamed
  <2>1. k # <<s, e>> /\ tombstones[k] = "result-write-failed" /\ wire'[k] = wire[k]
    BY <1>2, <1>6 DEF TypeOK
  <2> QED BY <1>5, <2>1 DEF AccountInv, Blamed, Keys
<1>11. Turns' /\ Fresh'
  BY <1>2 DEF AccountInv, Turns, Fresh
<1> QED BY <1>8, <1>9, <1>10, <1>11 DEF AccountInv

\* A held exec that is taken out is going to be dispatched again.
LEMMA ForgetAccount ==
    ASSUME TypeOK, RegistryOK(run, byExecId, byOpenCodeSessionId), ReasonsInv, AccountInv,
           NEW s \in Sessions, NEW e \in ExecIds, ForgetHeldExec(s, e)
    PROVE  AccountInv'
<1> DEFINE r == Without(run[s], {e})
<1>0. run[s] \in RunRecord /\ RunOK(run[s])
  BY RunFields DEF RegistryOK
<1>1. /\ r.life = run[s].life /\ r.why = run[s].why
      /\ \A y \in ExecIds : r.pending[y] = IF y \in {e} THEN Absent ELSE run[s].pending[y]
  BY <1>0, WithoutOK, WithoutSameEnd DEF SameEnd
<1>2. /\ run' = [run EXCEPT ![s] = r] /\ redispatch' = redispatch \cup {<<s, e>>}
      /\ UNCHANGED <<tombstones, deliveries, registrations, wire>>
  BY DEF ForgetHeldExec
<1>3. Shrunk(run, run')
  <2>1. \A x \in ExecIds : Kept(run[s].pending[x], r.pending[x])
    BY <1>0, WithoutKept
  <2> HIDE DEF r
  <2> QED BY <1>2, <2>1, OneRunShrinks
<1> HIDE DEF r
<1>4. \A x \in Sessions : /\ run'[x].life = run[x].life /\ run'[x].why = run[x].why
                          /\ \A y \in ExecIds : x # s \/ y # e => run'[x].pending[y] = run[x].pending[y]
  BY <1>1, <1>2 DEF TypeOK
<1>5. ExecAccountedFor'
  <2> SUFFICES ASSUME NEW x \in Sessions, NEW y \in ExecIds, registrations[<<x, y>>] > 0
               PROVE  \/ run'[x].pending[y].state # "absent"
                      \/ tombstones[<<x, y>>] # "none"
                      \/ <<x, y>> \in redispatch'
                      \/ run'[x].why \in QuietReasons
    BY <1>2 DEF ExecAccountedFor
  <2> QED BY <1>2, <1>4 DEF AccountInv, ExecAccountedFor
<1>6. Served'
  BY <1>2, <1>3, ShrunkServed DEF AccountInv
<1>7. Blamed'
  BY <1>2, <1>4 DEF AccountInv, Blamed, Keys
<1>8. Turns' /\ Fresh'
  BY <1>2 DEF AccountInv, Turns, Fresh
<1> QED BY <1>5, <1>6, <1>7, <1>8 DEF AccountInv

\* A claim is served by the delivery that makes it, in its turn.
LEMMA ClaimAccount ==
    ASSUME TypeOK, RegistryOK(run, byExecId, byOpenCodeSessionId), ReasonsInv, AccountInv,
           NEW c \in Callers, NEW s \in Sessions, NEW e \in ExecIds, Claim(c, s, e)
    PROVE  AccountInv'
<1> DEFINE p == run[s].pending[e]
           q == [p EXCEPT !.state = "claimed"]
           r == [run[s] EXCEPT !.pending[e] = q]
           new == [Idle EXCEPT !.pc = "claimed", !.key = <<s, e>>, !.id = p.id]
<1>0. run[s] \in RunRecord /\ run[s].pending \in [ExecIds -> PendingExec] /\ p \in PendingExec
  BY RunFields
<1>1. q.state = "claimed" /\ q.id = p.id
  BY <1>0 DEF PendingExec
<1>2. new.pc = "claimed" /\ new.key = <<s, e>> /\ new.id = p.id /\ new.written = 0
      /\ new.key[1] = s
  BY DEF Idle
<1>3. /\ run' = [run EXCEPT ![s] = r] /\ deliveries' = [deliveries EXCEPT ![c] = new]
      /\ deliveries[c].pc = "idle" /\ p.state = "pending"
      /\ UNCHANGED <<tombstones, registrations, redispatch, wire>>
      /\ (Serialised => \A d \in Callers : deliveries[d].pc # "idle" => deliveries[d].key[1] # s)
  BY DEF Claim, history, TypeOK
<1> HIDE DEF q, new
<1>4. /\ r.pending = [run[s].pending EXCEPT ![e] = q]
      /\ r.life = run[s].life /\ r.why = run[s].why
  BY <1>0 DEF RunRecord
<1> HIDE DEF r
<1>5. \A x \in Sessions : /\ run'[x].life = run[x].life /\ run'[x].why = run[x].why
                          /\ \A y \in ExecIds : run'[x].pending[y] =
                                IF x = s /\ y = e THEN q ELSE run[x].pending[y]
  BY <1>0, <1>3, <1>4 DEF TypeOK
<1>6. \A x \in Callers : deliveries'[x] = IF x = c THEN new ELSE deliveries[x]
  BY <1>3 DEF TypeOK
<1>7. Remembers /\ Blameless
  BY <1>1, <1>3, <1>5 DEF Remembers, Blameless
<1>8. ExecAccountedFor' /\ Blamed'
  BY <1>3, <1>7, RememberedAccount, BlamelessBlamed DEF AccountInv
<1>9. Turns'
  BY <1>2, <1>3, <1>6 DEF AccountInv, Turns
<1>10. Fresh'
  BY <1>2, <1>6 DEF AccountInv, Fresh
<1>11. Served'
  <2> SUFFICES ASSUME NEW x \in Sessions, NEW y \in ExecIds, run'[x].pending[y].state = "claimed"
               PROVE  \E d \in Callers : /\ deliveries'[d].pc # "idle"
                                         /\ deliveries'[d].key = <<x, y>>
                                         /\ deliveries'[d].id = run'[x].pending[y].id
    BY DEF Served
  <2>1. CASE x = s /\ y = e
    BY <1>1, <1>2, <1>5, <1>6, <2>1
  <2>2. CASE ~(x = s /\ y = e)
    <3>1. run'[x].pending[y] = run[x].pending[y]
      BY <1>5, <2>2
    <3>2. PICK d \in Callers : /\ deliveries[d].pc # "idle" /\ deliveries[d].key = <<x, y>>
                               /\ deliveries[d].id = run[x].pending[y].id
      BY <3>1 DEF AccountInv, Served
    <3>3. deliveries'[d] = deliveries[d]
      BY <1>3, <1>6, <3>2
    <3> QED BY <3>1, <3>2, <3>3
  <2> QED BY <2>1, <2>2
<1> QED BY <1>8, <1>9, <1>10, <1>11 DEF AccountInv

\* The execs a failed delivery blames had nothing sent: each is pending, or
\* claimed by this very delivery, as deliveries on its Run take turns.
LEMMA NothingSent ==
    ASSUME TypeOK, WriterInv, AccountInv, Serialised, NEW c \in Callers, FailsUnsent(c),
           NEW s \in Sessions, NEW e \in ExecIds, deliveries[c].key[1] = s,
           run[s].pending[e].state # "absent"
    PROVE  wire[<<s, e>>] = 0
<1>1. run[s].pending[e] \in PendingExec
  BY RunFields
<1>2. CASE run[s].pending[e].state = "pending"
  BY <1>2 DEF WriterInv, SoleWriter
<1>3. CASE run[s].pending[e].state = "claimed"
  <2>1. PICK x \in Callers : /\ deliveries[x].pc # "idle" /\ deliveries[x].key = <<s, e>>
                             /\ deliveries[x].id = run[s].pending[e].id
    BY <1>3 DEF AccountInv, Served
  <2>2. deliveries[x].key[1] = s
    BY <2>1
  <2>3. x = c
    BY <2>1, <2>2 DEF AccountInv, Turns, FailsUnsent
  <2>4. registrations[<<s, e>>] = run[s].pending[e].id
    BY <1>3 DEF WriterInv, ClaimsExclusive
  <2>5. wire[<<s, e>>] = deliveries[c].written + (IF deliveries[c].pc = "draining" THEN 1 ELSE 0)
    BY <2>1, <2>3, <2>4 DEF WriterInv, SoleWriter
  <2>6. deliveries[c].pc # "draining" /\ deliveries[c].written = 0
    BY DEF FailsUnsent, AccountInv, Fresh
  <2> QED BY <2>5, <2>6
<1> QED BY <1>1, <1>2, <1>3 DEF PendingExec

\* Every step of a delivery keeps the account.
LEMMA DeliveryAccount ==
    ASSUME TypeOK, ActiveKeys, RegistryOK(run, byExecId, byOpenCodeSessionId), ReasonsInv,
           WriterInv, AccountInv, NEW c \in Callers, DeliveryStep(c)
    PROVE  AccountInv'
<1> DEFINE d == deliveries[c]
<1>1. d.pc # "idle" /\ Outcome(c)
  BY DeliveryOutcome
<1>2. /\ UNCHANGED <<registrations, redispatch>>
      /\ \/ SendFrame(c)
         \/ UNCHANGED wire
  BY DEF DeliveryStep, StartDelivery, EncodingFails, SendFrame, FrameRefused, FrameDrained,
         DrainFails, history
<1>3. deliveries \in [Callers -> Delivery] /\ d.key \in Keys
      /\ d.key[1] \in Sessions /\ d.key[2] \in ExecIds /\ d.key = <<d.key[1], d.key[2]>>
  BY <1>1 DEF TypeOK, ActiveKeys, Keys
<1>4. ExecAccountedFor'
  BY <1>1, <1>2, RememberedAccount DEF Outcome, AccountInv
<1>5. \/ Retire(c) /\ Freed(c)
      \/ \E w : GoesOn(c, w)
  BY <1>1 DEF Outcome
<1>6. \A x \in Callers : x # c => deliveries'[x] = deliveries[x]
  BY <1>3, <1>5 DEF Retire, GoesOn
<1>7. deliveries'[c].pc # "idle" => /\ deliveries'[c].key = d.key /\ deliveries'[c].id = d.id
                                    /\ deliveries'[c].pc # "claimed" /\ run' = run
  BY <1>3, <1>5 DEF Retire, GoesOn, Idle
<1>8. Turns'
  BY <1>1, <1>6, <1>7 DEF AccountInv, Turns
<1>9. Fresh'
  BY <1>6, <1>7 DEF AccountInv, Fresh
<1>10. Served'
  <2> SUFFICES ASSUME NEW s \in Sessions, NEW e \in ExecIds, run'[s].pending[e].state = "claimed"
               PROVE  \E x \in Callers : /\ deliveries'[x].pc # "idle"
                                         /\ deliveries'[x].key = <<s, e>>
                                         /\ deliveries'[x].id = run'[s].pending[e].id
    BY DEF Served
  <2>1. Kept(run[s].pending[e], run'[s].pending[e])
    BY <1>1 DEF Outcome, Shrunk
  <2>2. run[s].pending[e].state = "claimed" /\ run'[s].pending[e].id = run[s].pending[e].id
    BY <2>1 DEF Kept
  <2>3. PICK x \in Callers : /\ deliveries[x].pc # "idle" /\ deliveries[x].key = <<s, e>>
                             /\ deliveries[x].id = run[s].pending[e].id
    BY <2>2 DEF AccountInv, Served
  <2>4. CASE x # c
    BY <1>6, <2>2, <2>3, <2>4
  <2>5. CASE x = c /\ Retire(c) /\ Freed(c)
    <3>1. d.key[1] = s /\ d.key[2] = e
      BY <2>3, <2>5
    <3> QED BY <2>2, <2>3, <2>5, <3>1 DEF Freed
  <2>6. ASSUME x = c, NEW w, GoesOn(c, w)
        PROVE  deliveries'[c].pc # "idle" /\ deliveries'[c].key = d.key /\ deliveries'[c].id = d.id
    BY <1>3, <2>6 DEF GoesOn
  <2> QED BY <1>5, <2>2, <2>3, <2>4, <2>5, <2>6
<1>11. Blamed'
  <2> SUFFICES ASSUME NEW k \in Keys, tombstones'[k] = "result-write-failed"
               PROVE  run'[k[1]].life = "closed" /\ (Serialised => wire'[k] = 0)
    BY DEF Blamed
  <2>1. k[1] \in Sessions /\ k[2] \in ExecIds /\ k = <<k[1], k[2]>>
    BY DEF Keys
  <2>2. CASE tombstones[k] = "result-write-failed"
    <3>1. run[k[1]].life = "closed" /\ (Serialised => wire[k] = 0)
      BY <2>2 DEF AccountInv, Blamed
    <3>2. run'[k[1]].life = "closed"
      BY <1>1, <2>1, <3>1 DEF Outcome, Remembers
    <3>3. SendFrame(c) => k # d.key
      BY <3>1 DEF SendFrame, Writable
    <3>4. wire'[k] = wire[k]
      BY <1>2, <1>3, <3>3 DEF SendFrame, TypeOK
    <3> QED BY <3>1, <3>2, <3>4
  <2>3. CASE tombstones[k] # "result-write-failed"
    <3>1. Blames(d.key[1]) /\ FailsUnsent(c)
      BY <1>1, <2>3 DEF Outcome, Blameless
    <3>2. k[1] = d.key[1] /\ run'[d.key[1]].life = "closed" /\ run[d.key[1]].pending[k[2]].state # "absent"
      BY <2>3, <3>1 DEF Blames
    <3>3. Serialised => wire[k] = 0
      BY <1>3, <2>1, <3>1, <3>2, NothingSent
    <3>4. SendFrame(c) => tombstones' = tombstones
      BY DEF SendFrame, registry
    <3> QED BY <1>2, <2>3, <3>2, <3>3, <3>4
  <2> QED BY <2>2, <2>3
<1> QED BY <1>4, <1>8, <1>9, <1>10, <1>11 DEF AccountInv

\* The steps of an exec that neither register, claim nor dispatch it again.
LEMMA ExecShrinks ==
    ASSUME TypeOK, NEW s \in Sessions, NEW e \in ExecIds,
           \/ MarkExecAborted(s, e) \/ LeaseLapses(s, e) \/ Resolve(s, e)
           \/ Classify(s, e) \/ ForgetTombstone(<<s, e>>)
    PROVE  Shrunk(run, run') /\ UNCHANGED <<deliveries, registrations, redispatch, wire>>
<1>0. run[s] \in RunRecord /\ run[s].pending \in [ExecIds -> PendingExec]
      /\ run[s].pending[e] \in PendingExec
  BY RunFields
<1>1. CASE MarkExecAborted(s, e) \/ LeaseLapses(s, e)
  <2> DEFINE p == run[s].pending[e]
             q == IF MarkExecAborted(s, e) THEN [p EXCEPT !.aborted = TRUE]
                                           ELSE [p EXCEPT !.lapsed = TRUE]
             r == [run[s] EXCEPT !.pending[e] = q]
  <2>1. q.state = p.state /\ q.id = p.id
    BY <1>0 DEF PendingExec
  <2>2. run' = [run EXCEPT ![s] = r] /\ UNCHANGED <<deliveries, registrations, redispatch, wire>>
    BY <1>1 DEF MarkExecAborted, LeaseLapses, TypeOK, history
  <2> HIDE DEF q
  <2>3. \A x \in ExecIds : r.pending[x] = IF x = e THEN q ELSE run[s].pending[x]
    BY <1>0 DEF RunRecord
  <2> HIDE DEF r
  <2>4. \A x \in ExecIds : Kept(run[s].pending[x], r.pending[x])
    BY <2>1, <2>3 DEF Kept
  <2> QED BY <2>2, <2>4, OneRunShrinks
<1>2. CASE Resolve(s, e)
  BY <1>2, DropShrinks DEF Resolve, history
<1>3. CASE Classify(s, e)
  BY <1>3, ReclassifyShrinks DEF Classify, history
<1>4. CASE ForgetTombstone(<<s, e>>)
  BY <1>4, SameShrinks DEF ForgetTombstone, history
<1> QED BY <1>1, <1>2, <1>3, <1>4

\* Every step of an exec keeps the account.
LEMMA ExecAccount ==
    ASSUME TypeOK, RegistryOK(run, byExecId, byOpenCodeSessionId), ReasonsInv, AccountInv,
           NEW s \in Sessions, NEW e \in ExecIds, ExecStep(s, e)
    PROVE  AccountInv'
<1>1. CASE ForgetHeldExec(s, e)
  BY <1>1, ForgetAccount
<1>2. CASE \E kind \in Kinds : RegisterPending(s, e, kind)
  BY <1>2, RegisterAccount
<1>3. CASE \E c \in Callers : Claim(c, s, e)
  BY <1>3, ClaimAccount
<1>4. CASE /\ Remembers /\ Blameless
           /\ \/ MarkExecAborted(s, e) \/ LeaseLapses(s, e) \/ Resolve(s, e)
              \/ Classify(s, e) \/ ForgetTombstone(<<s, e>>)
  BY <1>4, ExecShrinks, QuietAccount
<1> QED BY <1>1, <1>2, <1>3, <1>4, ExecRemembers DEF ExecStep

\* Nothing is registered, claimed or blamed at first.
LEMMA AccountInit == Init => ReasonsInv /\ AccountInv
BY DEF Init, ReasonsInv, AccountInv, Turns, Served, Fresh, Blamed, ExecAccountedFor, Absent,
       Idle, Keys

\* What is invariant step by step.
DeliveriesInv == RegistryInv /\ WriterInv /\ ReasonsInv /\ AccountInv

\* Every step keeps it.
LEMMA DeliveriesNext == DeliveriesInv /\ [Next]_vars => DeliveriesInv'
<1> SUFFICES ASSUME TypeOK, ActiveKeys, RegistryOK(run, byExecId, byOpenCodeSessionId),
                    WriterInv, ReasonsInv, AccountInv, [Next]_vars
             PROVE  AccountInv'
  BY RegistryNext, WriterNext, ReasonsNext DEF DeliveriesInv, RegistryInv, TypeInv
<1>1. ASSUME NEW s \in Sessions, RunStep(s)
      PROVE  AccountInv'
  <2>1. UNCHANGED <<deliveries, registrations, redispatch, wire>>
    BY <1>1 DEF RunStep, RegisterSession, StreamEnds, TerminalAnnounced, HeartbeatTick,
                HeartbeatWritten, HeartbeatFails, LeaseRenewed, HardDeadline, HostStop,
                AbandonPending, CancelDone, CloseUnlessPending, history
  <2> QED BY <1>1, <2>1, RunRemembers, RunShrinks, QuietAccount
<1>2. ASSUME NEW s \in Sessions, NEW e \in ExecIds, ExecStep(s, e)
      PROVE  AccountInv'
  BY <1>2, ExecAccount
<1>3. ASSUME NEW o \in Pumps, PumpStep(o)
      PROVE  AccountInv'
  <2>1. UNCHANGED <<deliveries, registrations, redispatch, wire>>
    BY <1>3 DEF PumpStep, BeginPump, EndPump, EndDrain, PumpCloses, ReplaceStream, history
  <2> QED BY <1>3, <2>1, PumpRemembers, PumpShrinks, QuietAccount
<1>4. ASSUME NEW c \in Callers, DeliveryStep(c)
      PROVE  AccountInv'
  BY <1>4, DeliveryAccount
<1>5. CASE (\E h \in Hosts : HostStep(h)) \/ Dispose
  <2>1. UNCHANGED <<deliveries, registrations, redispatch, wire>>
    BY <1>5 DEF HostStep, SettleForFreshTurn, HistoryRewritten, Dispose, history
  <2> QED BY <1>5, <2>1, HostRemembers, HostShrinks, QuietAccount
<1>6. CASE UNCHANGED vars
  BY <1>6, SameRemembers, SameShrinks, QuietAccount DEF vars
<1> QED BY <1>1, <1>2, <1>3, <1>4, <1>5, <1>6 DEF Next

\* No exec Cursor asked for is silently lost: it is pending, taken out to be
\* dispatched again, or remembered, unless its Run ended with the turn.  And
\* while deliveries on a Run take turns, "result-write-failed" is said only of
\* a result of which nothing was sent.
THEOREM ResultsStayAccounted == Spec => []DeliveriesAccounted
<1>1. Init => DeliveriesInv
  BY TypeInvInit, RegistryInit, WriterInit, AccountInit DEF DeliveriesInv, RegistryInv
<1>2. DeliveriesInv => DeliveriesAccounted
  BY DEF DeliveriesInv, AccountInv, Blamed, DeliveriesAccounted, FailureReasonTruthful
<1> QED BY <1>1, <1>2, DeliveriesNext, PTL DEF Spec
=============================================================================
