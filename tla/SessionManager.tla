--------------------------- MODULE SessionManager ---------------------------
(***************************************************************************)
(* The registry of open Cursor Runs (src/session.ts, class SessionManager) *)
(* with the callers of src/language-model.ts that drive it.                *)
(*                                                                         *)
(* A session is one bidirectional Run stream to Cursor.  While the host    *)
(* (OpenCode) executes the tools of a step nothing pumps the Run; it stays *)
(* open, owing Cursor one result per pending exec.  The manager decides    *)
(* which results may still be written and by whom, which Runs may be       *)
(* closed and what is remembered (tombstones) about execs that are gone.   *)
(*                                                                         *)
(* JavaScript runs to completion between awaits, so an action is the code  *)
(* from one await to the next.  The awaits that matter are those of        *)
(* deliverClaim: each result frame first queues for its turn on the stream *)
(* ("queued"), then its bytes are buffered and it drains ("draining").     *)
(*                                                                         *)
(* Time is abstracted to the two facts the code asks of it: whether a      *)
(* pending's lease has lapsed (src/activity.ts has the arithmetic)    *)
(* and whether a tombstone has been forgotten (TTL, or pushed out by the   *)
(* size limit).                                                            *)
(***************************************************************************)
EXTENDS Integers, FiniteSets

CONSTANTS
    Sessions,        \* Run streams that are ever opened
    ExecIds,         \* exec ids; Cursor restarts them on every stream
    Hosts,           \* OpenCode session ids
    HostOf,          \* the OpenCode session of each Run, or None
    Pumps,           \* pump owner symbols: one per doStream pull or drain
    Callers,         \* concurrent deliveries of host results
    None,
    MaxOpen,         \* maxOpenSessions
    MaxFrames,       \* bound: frames of one result
    MaxRegistrations,\* bound: times one exec id is registered on a stream
    MaxReplacements, \* bound: times a Run's stream is replaced
    PumpReasons,     \* the reasons for which a pump ends its Run itself
    Serialised       \* TRUE: deliveries on one Run take turns (continuationDeliveryChains)

ASSUME HostsAssumption == None \notin Sessions /\ None \notin Hosts /\ None \notin Pumps
ASSUME SessionsFinite == IsFiniteSet(Sessions)
ASSUME HostOfAssumption == HostOf \in [Sessions -> Hosts \cup {None}]
ASSUME BoundsAssumption ==
    /\ MaxOpen \in Nat \ {0}
    /\ MaxFrames \in Nat \ {0}
    /\ MaxRegistrations \in Nat
    /\ MaxReplacements \in Nat
    /\ Serialised \in BOOLEAN
    /\ PumpReasons \subseteq {"turn-ended", "ordinary-cleanup", "remote-error", "reply-write-failed"}

VARIABLES
    run,                 \* per session: the CursorSession object
    byExecId,            \* keys routed to their session
    byOpenCodeSessionId, \* the newest Run of each OpenCode session
    tombstones,          \* what is remembered of an exec that left
    pumps,               \* the Run each pump owner believes it pumps
    deliveries,          \* each caller's progress in deliverClaim
    registrations,       \* identity of the latest pending registered per key
    redispatch,          \* history: held execs taken out to be dispatched again
    wire                 \* history: frames of the latest registration's result sent

vars == <<run, byExecId, byOpenCodeSessionId, tombstones, pumps, deliveries,
          registrations, redispatch, wire>>

registry == <<run, byExecId, byOpenCodeSessionId, tombstones>>
history  == <<registrations, redispatch, wire>>

Keys == Sessions \X ExecIds

TerminalReasons ==
    {"host-interrupted", "hard-cap-expired", "remote-clean-close", "remote-error",
     "result-write-failed", "ambiguous-partial-write", "heartbeat-write-failed",
     "reply-write-failed", "process-disposed", "superseded-by-new-run",
     "open-session-cap-exceeded"}

\* Closes that leave no tombstone behind: nobody will ask for these execs.
QuietReasons == {"ordinary-cleanup", "turn-ended", "initial-write-failed"}

Kinds == {"exec", "bridged", "answered"}

\* `id` stands for the identity of the PendingExec object.
PendingExec ==
    [state: {"absent", "pending", "claimed"}, kind: Kinds, aborted: BOOLEAN,
     lapsed: BOOLEAN, id: Nat]

Absent == [state |-> "absent", kind |-> "exec", aborted |-> FALSE, lapsed |-> FALSE, id |-> 0]

RunRecord ==
    [life: {"new", "open", "closed"},
     createdAt: Nat,
     stream: {"live", "ended", "failed"},
     settled: BOOLEAN,                       \* the transport has announced the end
     epoch: Nat,                             \* which stream this is
     deferred: {"none", "remote-clean-close", "remote-error"},
     interrupted: BOOLEAN,
     answeredContinuation: BOOLEAN,
     heartbeat: {"off", "idle", "writing"},
     timer: BOOLEAN,                         \* hardDeadlineTimer
     pumpOwner: Pumps \cup {None},
     pending: [ExecIds -> PendingExec],
     why: TerminalReasons \cup QuietReasons \cup {"none"}]   \* history: close reason

Delivery ==
    [pc: {"idle", "claimed", "queued", "draining"}, key: Keys \cup {None}, id: Nat,
     left: Nat, written: Nat, epoch: Nat]

Idle == [pc |-> "idle", key |-> None, id |-> 0, left |-> 0, written |-> 0, epoch |-> 0]

TypeOK ==
    /\ run \in [Sessions -> RunRecord]
    /\ byExecId \in SUBSET Keys
    /\ byOpenCodeSessionId \in [Hosts -> Sessions \cup {None}]
    /\ tombstones \in [Keys -> TerminalReasons \cup {"none", "delivered", "forgotten"}]
    /\ pumps \in [Pumps -> Sessions \cup {None}]
    /\ deliveries \in [Callers -> Delivery]
    /\ registrations \in [Keys -> Nat]
    /\ redispatch \in SUBSET Keys
    /\ wire \in [Keys -> Nat]

Init ==
    /\ run = [s \in Sessions |->
                [life |-> "new", createdAt |-> 0, stream |-> "live", settled |-> FALSE,
                 epoch |-> 0, deferred |-> "none", interrupted |-> FALSE,
                 answeredContinuation |-> FALSE, heartbeat |-> "off", timer |-> FALSE,
                 pumpOwner |-> None, pending |-> [e \in ExecIds |-> Absent], why |-> "none"]]
    /\ byExecId = {}
    /\ byOpenCodeSessionId = [h \in Hosts |-> None]
    /\ tombstones = [k \in Keys |-> "none"]
    /\ pumps = [o \in Pumps |-> None]
    /\ deliveries = [c \in Callers |-> Idle]
    /\ registrations = [k \in Keys |-> 0]
    /\ redispatch = {}
    /\ wire = [k \in Keys |-> 0]

-----------------------------------------------------------------------------
(* Reading and updating one Run *)

Present(r) == {e \in ExecIds : r.pending[e].state # "absent"}

Pumping(r) == r.pumpOwner # None

\* An exec Cursor waits for: not a display-only mirror, not one Cursor has
\* withdrawn and not one whose reply Cursor already has.
NeedsNoWrite(p) == p.kind # "exec" \/ p.aborted

Settleable(r) == {e \in Present(r) : r.pending[e].state = "pending" /\ NeedsNoWrite(r.pending[e])}

HoldsOnlyAnsweredWork(r) ==
    /\ ~r.interrupted
    /\ IF Present(r) = {}
       THEN r.answeredContinuation
       ELSE \A e \in Present(r) : r.pending[e].kind = "answered"

\* Mutant: leaving or entering `pending` does not touch the timer.
ScheduleHardDeadline_Never(r) == r

\* The deadline timer runs exactly while an open Run owes something.
ScheduleHardDeadline(r) == [r EXCEPT !.timer = (r.life = "open" /\ Present(r) # {})]

\* Mutant: what leaves `pending` leaves its timer running.
Without_KeepsTimer(r, E) ==
    [r EXCEPT !.pending = [e \in ExecIds |-> IF e \in E THEN Absent ELSE r.pending[e]]]

Without(r, E) ==
    ScheduleHardDeadline(
        [r EXCEPT !.pending = [e \in ExecIds |-> IF e \in E THEN Absent ELSE r.pending[e]]])

SettleBridged(r) == IF Settleable(r) = {} THEN r ELSE Without(r, Settleable(r))

\* Mutant: the heartbeat goes on writing to the stream that ended.
HoldAfterCleanClose_Beating(r) == [r EXCEPT !.deferred = "remote-clean-close"]

HoldAfterCleanClose(r) == [r EXCEPT !.deferred = "remote-clean-close", !.heartbeat = "off"]

\* Closing destroys the stream, which settles it as a local close.
ClosedRun(r, why) ==
    [r EXCEPT !.life = "closed", !.stream = "ended", !.settled = TRUE, !.timer = FALSE, !.deferred = "none", !.heartbeat = "off",
              !.pumpOwner = None, !.pending = [e \in ExecIds |-> Absent], !.why = why]

\* Mutant: the transport's own word stands for the close reason.
StreamReason_Raw(r) == r.stream

StreamReason(r) == IF r.stream = "failed" THEN "remote-error" ELSE "remote-clean-close"

\* Closes the sessions of DOMAIN why, over the registry the same step has
\* already brought to base, routes, hosts and stones.
CloseAll(why, base, routes, hosts, stones) ==
    LET shut == DOMAIN why IN
    /\ run' = [s \in Sessions |-> IF s \in shut THEN ClosedRun(base[s], why[s]) ELSE base[s]]
    /\ byExecId' = {k \in routes : ~(k[1] \in shut /\ k[2] \in Present(base[k[1]]))}
    /\ byOpenCodeSessionId' = [h \in Hosts |-> IF hosts[h] \in shut THEN None ELSE hosts[h]]
    /\ tombstones' = [k \in Keys |->
          IF k[1] \in shut /\ k[2] \in Present(base[k[1]]) /\ why[k[1]] \in TerminalReasons
          THEN why[k[1]] ELSE stones[k]]

Close(s, why) ==
    IF run[s].life = "open"
    THEN CloseAll([x \in {s} |-> why], run, byExecId, byOpenCodeSessionId, tombstones)
    ELSE UNCHANGED registry

\* Mutant: the exec leaves `pending`, its key still routes to the Run.
Drop_KeepsRoute(s, E, stone) ==
    /\ run' = [run EXCEPT ![s] = Without(@, E)]
    /\ tombstones' = [k \in Keys |-> IF k \in {s} \X E THEN stone ELSE tombstones[k]]
    /\ UNCHANGED <<byExecId, byOpenCodeSessionId>>

\* Mutant: the exec leaves without a tombstone.
Drop_NoTombstone(s, E, stone) ==
    /\ run' = [run EXCEPT ![s] = Without(@, E)]
    /\ byExecId' = byExecId \ ({s} \X E)
    /\ UNCHANGED <<byOpenCodeSessionId, tombstones>>

\* Several ways to leave `pending` differ only in the tombstone they leave.
Drop(s, E, stone) ==
    /\ run' = [run EXCEPT ![s] = Without(@, E)]
    /\ byExecId' = byExecId \ ({s} \X E)
    /\ tombstones' = [k \in Keys |-> IF k \in {s} \X E THEN stone ELSE tombstones[k]]
    /\ UNCHANGED byOpenCodeSessionId

-----------------------------------------------------------------------------
(* Opening a Run *)

\* Mutant: the cap takes any Run nobody pumps.
Evictable_Unpumped(r) == ~Pumping(r)

\* What the cap may close: a Run nobody pumps whose execs are all withdrawn.
Evictable(r) == ~Pumping(r) /\ \A e \in Present(r) : r.pending[e].aborted

\* Mutant: the Run being opened is not counted.
Excess_OneMore(open) == Cardinality(open) - 1 - MaxOpen

Excess(open) == Cardinality(open) - MaxOpen

\* registerSession: supersede the host session's previous Run when nothing
\* pumps it and, its display-only work settled, it owes nothing; enforce the
\* cap on open Runs; subscribe to a stream that may already have ended.
RegisterSession(s) ==
    /\ run[s].life = "new"
    /\ LET host == HostOf[s]
           prior == IF host = None THEN None ELSE byOpenCodeSessionId[host]
           idlePrior == {x \in {prior} \cap Sessions : run[x].life = "open" /\ ~Pumping(run[x])}
           base == [x \in Sessions |->
              IF x = s
              THEN [run[x] EXCEPT !.life = "open", !.heartbeat = "idle",
                       !.createdAt = Cardinality({y \in Sessions : run[y].life # "new"})]
              ELSE IF x \in idlePrior THEN SettleBridged(run[x]) ELSE run[x]]
           settled == {k \in Keys : k[1] \in idlePrior /\ k[2] \in Settleable(run[k[1]])}
           superseded == {x \in idlePrior : Present(base[x]) = {}}
           open == {x \in Sessions : base[x].life = "open"} \ superseded
           evictable == {x \in open \ {s} : Evictable(base[x])}
           evicted == {x \in evictable :
              Cardinality({y \in evictable : base[y].createdAt < base[x].createdAt}) < Excess(open)}
           ended == {x \in {s} : run[x].settled}
       IN CloseAll([x \in superseded \cup evicted \cup ended |->
                       IF x = s THEN StreamReason(run[x])
                       ELSE IF x \in superseded THEN "superseded-by-new-run"
                       ELSE "open-session-cap-exceeded"],
                   base,
                   byExecId \ settled,
                   [h \in Hosts |-> IF h = host THEN s ELSE byOpenCodeSessionId[h]],
                   [k \in Keys |-> IF k \in settled THEN "delivered" ELSE tombstones[k]])
    /\ UNCHANGED <<pumps, deliveries, history>>

-----------------------------------------------------------------------------
(* Pending execs *)

\* registerPending.  Every call site is the pump of this Run.
RegisterPending(s, e, kind) ==
    /\ run[s].life = "open" /\ Pumping(run[s])
    /\ registrations[<<s, e>>] < MaxRegistrations
    /\ LET id == registrations[<<s, e>>] + 1 IN
       /\ run' = [run EXCEPT ![s] = ScheduleHardDeadline(
                    [@ EXCEPT !.pending[e] = [state |-> "pending", kind |-> kind,
                                              aborted |-> FALSE, lapsed |-> FALSE, id |-> id]])]
       /\ registrations' = [registrations EXCEPT ![<<s, e>>] = id]
    /\ byExecId' = byExecId \cup {<<s, e>>}
    /\ tombstones' = [tombstones EXCEPT ![<<s, e>>] = "none"]
    /\ wire' = [wire EXCEPT ![<<s, e>>] = 0]
    /\ redispatch' = redispatch \ {<<s, e>>}
    /\ UNCHANGED <<byOpenCodeSessionId, pumps, deliveries>>

\* forgetHeldExec: the pump takes a held exec out to dispatch it again.
ForgetHeldExec(s, e) ==
    /\ run[s].life = "open" /\ Pumping(run[s])
    /\ run[s].pending[e].state = "pending" /\ ~run[s].pending[e].aborted
    /\ run[s].pending[e].kind = "exec"
    /\ run' = [run EXCEPT ![s] = Without(@, {e})]
    /\ byExecId' = byExecId \ {<<s, e>>}
    /\ redispatch' = redispatch \cup {<<s, e>>}
    /\ UNCHANGED <<byOpenCodeSessionId, tombstones, pumps, deliveries, registrations, wire>>

\* markExecAborted: Cursor withdrew an exec the host still owes.
MarkExecAborted(s, e) ==
    /\ run[s].life = "open"
    /\ run[s].pending[e].state = "pending"
    /\ ~NeedsNoWrite(run[s].pending[e])
    /\ run' = [run EXCEPT ![s].pending[e].aborted = TRUE]
    /\ UNCHANGED <<byExecId, byOpenCodeSessionId, tombstones, pumps, deliveries, history>>

\* resolve: the pump answered a held exec itself, or Cursor withdrew one.
Resolve(s, e) ==
    /\ <<s, e>> \in byExecId
    /\ run[s].pending[e].kind = "exec"
    /\ Drop(s, {e}, "delivered")
    /\ UNCHANGED <<pumps, deliveries, history>>

\* settleBridgedPending of a fresh user turn, for the Run the host session names.
SettleForFreshTurn(h) ==
    LET s == byOpenCodeSessionId[h] IN
    /\ s # None
    /\ run[s].life = "open"
    /\ Settleable(run[s]) # {}
    /\ Drop(s, Settleable(run[s]), "delivered")
    /\ UNCHANGED <<pumps, deliveries, history>>

-----------------------------------------------------------------------------
(* Classifying, claiming and delivering host results *)

StreamGone(s, e) == run[s].stream # "live" /\ run[s].pending[e].kind # "answered"

ClassifyCloses(s, e) ==
    /\ <<s, e>> \in byExecId
    /\ \/ run[s].pending[e].state = "absent"
       \/ StreamGone(s, e)
       \/ run[s].pending[e].lapsed

ClassifyReason(s, e) ==
    IF run[s].pending[e].state = "absent" \/ StreamGone(s, e)
    THEN "remote-clean-close" ELSE "hard-cap-expired"

\* The side effect of every classify.
Reclassify(s, e) ==
    IF ClassifyCloses(s, e) THEN Close(s, ClassifyReason(s, e)) ELSE UNCHANGED registry

\* findContinuationSession, describeHeldRunLoss or claim looks at a result
\* and finds that its Run can no longer take it.
Classify(s, e) ==
    /\ ClassifyCloses(s, e)
    /\ Reclassify(s, e)
    /\ UNCHANGED <<pumps, deliveries, history>>

\* Mutant: an exec being delivered can be claimed again.
Claim_Claimed(c, s, e) ==
    /\ deliveries[c].pc = "idle"
    /\ <<s, e>> \in byExecId
    /\ ~ClassifyCloses(s, e)
    /\ run' = [run EXCEPT ![s].pending[e].state = "claimed"]
    /\ deliveries' = [deliveries EXCEPT ![c] =
          [Idle EXCEPT !.pc = "claimed", !.key = <<s, e>>, !.id = run[s].pending[e].id]]
    /\ UNCHANGED <<byExecId, byOpenCodeSessionId, tombstones, pumps, history>>

Claim(c, s, e) ==
    /\ deliveries[c].pc = "idle"
    /\ Serialised => \A d \in Callers : deliveries[d].pc # "idle" => deliveries[d].key[1] # s
    /\ <<s, e>> \in byExecId
    /\ ~ClassifyCloses(s, e)
    /\ run[s].pending[e].state = "pending"
    /\ run' = [run EXCEPT ![s].pending[e].state = "claimed"]
    /\ deliveries' = [deliveries EXCEPT ![c] =
          [Idle EXCEPT !.pc = "claimed", !.key = <<s, e>>, !.id = run[s].pending[e].id]]
    /\ UNCHANGED <<byExecId, byOpenCodeSessionId, tombstones, pumps, history>>

\* `unavailable` of deliverClaim, negated: the pending claimed is still the
\* one registered.
Available(d) ==
    /\ run[d.key[1]].life = "open"
    /\ d.key \in byExecId
    /\ run[d.key[1]].pending[d.key[2]].id = d.id

Retire(c) == deliveries' = [deliveries EXCEPT ![c] = Idle]

Unavailable(c) ==
    LET d == deliveries[c] IN
    /\ ~Available(d)
    /\ Reclassify(d.key[1], d.key[2])
    /\ Retire(c)

\* The state a completed delivery applies.
Delivered(c) ==
    LET s == deliveries[c].key[1]
        e == deliveries[c].key[2]
        answered == run[s].pending[e].kind = "answered"
        after == [run[s] EXCEPT !.answeredContinuation = @ \/ answered]
    IN /\ run' = [run EXCEPT ![s] = Without(after, {e})]
       /\ byExecId' = byExecId \ {<<s, e>>}
       /\ tombstones' = [tombstones EXCEPT ![<<s, e>>] = "delivered"]
       /\ Retire(c)
       /\ UNCHANGED byOpenCodeSessionId

\* Mutant: a failed write leaves the result to be claimed and sent again.
WriteFailed_Retries(c, written) ==
    LET k == deliveries[c].key IN
    /\ run' = IF Available(deliveries[c])
              THEN [run EXCEPT ![k[1]].pending[k[2]].state = "pending"] ELSE run
    /\ Retire(c)
    /\ UNCHANGED <<byExecId, byOpenCodeSessionId, tombstones>>

WriteFailed(c, written) ==
    \/ Unavailable(c)
    \/ /\ Available(deliveries[c])
       /\ Close(deliveries[c].key[1],
                IF written = 0 THEN "result-write-failed" ELSE "ambiguous-partial-write")
       /\ Retire(c)

\* The caller could not encode the result it claimed, and closes the Run.
EncodingFails(c) ==
    /\ deliveries[c].pc = "claimed"
    /\ Close(deliveries[c].key[1], "result-write-failed")
    /\ Retire(c)
    /\ UNCHANGED <<pumps, history>>

\* deliverClaim up to its first await, with n frames to write.  A result
\* without frames is an error unless nothing is to be written, or the
\* interaction queued its next phase instead of a reply (replyDeferred).
StartDelivery(c, n, replyDeferred) ==
    LET d == deliveries[c]
        p == run[d.key[1]].pending[d.key[2]]
    IN
    /\ d.pc = "claimed"
    /\ \/ Unavailable(c)
       \/ /\ Available(d) /\ p.lapsed
          /\ Close(d.key[1], "hard-cap-expired")
          /\ Retire(c)
       \/ /\ Available(d) /\ ~p.lapsed /\ n = 0
          /\ IF NeedsNoWrite(p) \/ replyDeferred THEN Delivered(c) ELSE WriteFailed(c, 0)
       \/ /\ Available(d) /\ ~p.lapsed /\ n > 0 /\ ~NeedsNoWrite(p)
          /\ deliveries' = [deliveries EXCEPT ![c].pc = "queued", ![c].left = n,
                                              ![c].epoch = run[d.key[1]].epoch]
          /\ UNCHANGED registry
    /\ UNCHANGED <<pumps, history>>

\* The stream a frame was queued on: gone once the Run closed or replaced it.
Writable(d) ==
    /\ run[d.key[1]].life = "open"
    /\ run[d.key[1]].epoch = d.epoch
    /\ run[d.key[1]].stream = "live"

SendFrame(c) ==
    LET d == deliveries[c] IN
    /\ d.pc = "queued"
    /\ Writable(d)
    /\ deliveries' = [deliveries EXCEPT ![c].pc = "draining"]
    /\ wire' = IF registrations[d.key] = d.id THEN [wire EXCEPT ![d.key] = @ + 1] ELSE wire
    /\ UNCHANGED <<registry, pumps, registrations, redispatch>>

FrameRefused(c) ==
    LET d == deliveries[c] IN
    /\ d.pc = "queued"
    /\ ~Writable(d)
    /\ WriteFailed(c, d.written)
    /\ UNCHANGED <<pumps, history>>

FrameDrained(c) ==
    LET d == deliveries[c] IN
    /\ d.pc = "draining"
    /\ \/ Unavailable(c)
       \/ /\ Available(d) /\ d.left > 1
          /\ deliveries' = [deliveries EXCEPT ![c].pc = "queued", ![c].left = @ - 1,
                               ![c].written = @ + 1, ![c].epoch = run[d.key[1]].epoch]
          /\ UNCHANGED registry
       \/ /\ Available(d) /\ d.left <= 1
          /\ Delivered(c)
    /\ UNCHANGED <<pumps, history>>

\* Mutant: the frame whose drain failed is not counted as written.
DrainFails_Uncounted(c) ==
    /\ deliveries[c].pc = "draining"
    /\ ~Writable(deliveries[c])
    /\ WriteFailed(c, deliveries[c].written)
    /\ UNCHANGED <<pumps, history>>

\* StreamWriteDrainError: the bytes were buffered, so the frame counts.
DrainFails(c) ==
    LET d == deliveries[c] IN
    /\ d.pc = "draining"
    /\ ~Writable(d)
    /\ WriteFailed(c, d.written + 1)
    /\ UNCHANGED <<pumps, history>>

-----------------------------------------------------------------------------
(* Pumps *)

\* Mutant: a second pump takes over the Run.
BeginPump_TakesOver(o, s) ==
    /\ pumps[o] = None
    /\ run[s].life = "open"
    /\ run' = [run EXCEPT ![s].pumpOwner = o, ![s].answeredContinuation = FALSE]
    /\ pumps' = [pumps EXCEPT ![o] = s]
    /\ UNCHANGED <<byExecId, byOpenCodeSessionId, tombstones, deliveries, history>>

BeginPump(o, s) ==
    /\ pumps[o] = None
    /\ run[s].life = "open"
    /\ ~Pumping(run[s])
    /\ run' = [run EXCEPT ![s].pumpOwner = o, ![s].answeredContinuation = FALSE]
    /\ pumps' = [pumps EXCEPT ![o] = s]
    /\ UNCHANGED <<byExecId, byOpenCodeSessionId, tombstones, deliveries, history>>

\* endPump, and pumpWithRecovery's closeUnlessPending right after it.
EndPump(o) ==
    LET s == pumps[o]
        ended == [run[s] EXCEPT !.pumpOwner = None, !.deferred = "none"]
        keeps == Present(run[s]) # {} \/ run[s].interrupted
        hold == run[s].deferred = "remote-clean-close" /\ HoldsOnlyAnsweredWork(run[s])
        base == [run EXCEPT ![s] = IF hold THEN HoldAfterCleanClose(ended) ELSE ended]
        why == IF run[s].deferred # "none" /\ ~hold /\ ~run[s].interrupted
               THEN run[s].deferred ELSE "ordinary-cleanup"
    IN
    /\ s # None
    /\ pumps' = [pumps EXCEPT ![o] = None]
    /\ IF run[s].pumpOwner # o
       THEN UNCHANGED registry
       ELSE CloseAll([x \in {y \in {s} : ~keeps \/ why # "ordinary-cleanup"} |-> why],
                     base, byExecId, byOpenCodeSessionId, tombstones)
    /\ UNCHANGED <<deliveries, history>>

\* drainSessionUntilTurnEnded ends its pump without closeUnlessPending.
EndDrain(o) ==
    LET s == pumps[o]
        ended == [run[s] EXCEPT !.pumpOwner = None, !.deferred = "none"]
        hold == run[s].deferred = "remote-clean-close" /\ HoldsOnlyAnsweredWork(run[s])
    IN
    /\ s # None
    /\ run[s].pumpOwner = o
    /\ Present(run[s]) = {} \/ run[s].interrupted
    /\ pumps' = [pumps EXCEPT ![o] = None]
    /\ CloseAll([x \in {y \in {s} : run[s].deferred # "none" /\ ~hold /\ ~run[s].interrupted}
                    |-> run[s].deferred],
                [run EXCEPT ![s] = IF hold THEN HoldAfterCleanClose(ended) ELSE ended],
                byExecId, byOpenCodeSessionId, tombstones)
    /\ UNCHANGED <<deliveries, history>>

\* The pump ends the Run itself: turn_ended, a protocol or transport failure,
\* a reply it could not write.
PumpCloses(o, why) ==
    /\ pumps[o] # None
    /\ run[pumps[o]].pumpOwner = o
    /\ Close(pumps[o], why)
    /\ UNCHANGED <<pumps, deliveries, history>>

\* replaceStream, after the old stream's writes have settled.
ReplaceStream(o) ==
    LET s == pumps[o] IN
    /\ s # None
    /\ run[s].pumpOwner = o /\ ~run[s].interrupted
    /\ run[s].epoch < MaxReplacements
    /\ run' = [run EXCEPT ![s].stream = "live", ![s].settled = FALSE, ![s].epoch = @ + 1,
                          ![s].deferred = "none", ![s].heartbeat = "idle"]
    /\ UNCHANGED <<byExecId, byOpenCodeSessionId, tombstones, pumps, deliveries, history>>

-----------------------------------------------------------------------------
(* The stream, the heartbeat and the clock *)

StreamEnds(s, how) ==
    /\ run[s].life # "closed"
    /\ run[s].stream = "live"
    /\ run' = [run EXCEPT ![s].stream = how]
    /\ UNCHANGED <<byExecId, byOpenCodeSessionId, tombstones, pumps, deliveries, history>>

\* The transport settles its terminal event; onStreamTerminal decides for a
\* Run that has subscribed.
TerminalAnnounced(s) ==
    LET heard == [run EXCEPT ![s].settled = TRUE]
        r == heard[s]
        why == StreamReason(r)
        holds == ~Pumping(r) /\ why = "remote-clean-close" /\ HoldsOnlyAnsweredWork(r)
    IN
    /\ run[s].life # "closed"
    /\ run[s].stream # "live" /\ ~run[s].settled
    /\ \/ /\ r.life = "new"
          /\ run' = heard
          /\ UNCHANGED <<byExecId, byOpenCodeSessionId, tombstones>>
       \/ /\ r.life = "open" /\ holds
          /\ run' = [heard EXCEPT ![s] = HoldAfterCleanClose(r)]
          /\ UNCHANGED <<byExecId, byOpenCodeSessionId, tombstones>>
       \/ /\ r.life = "open" /\ ~holds /\ (Pumping(r) \/ r.interrupted)
          /\ run' = [heard EXCEPT ![s].deferred = why]
          /\ UNCHANGED <<byExecId, byOpenCodeSessionId, tombstones>>
       \/ /\ r.life = "open" /\ ~holds /\ ~Pumping(r) /\ ~r.interrupted
          /\ CloseAll([x \in {s} |-> why], heard, byExecId, byOpenCodeSessionId, tombstones)
    /\ UNCHANGED <<pumps, deliveries, history>>

HeartbeatTick(s) ==
    /\ run[s].heartbeat = "idle" /\ run[s].stream = "live"
    /\ run' = [run EXCEPT ![s].heartbeat = "writing"]
    /\ UNCHANGED <<byExecId, byOpenCodeSessionId, tombstones, pumps, deliveries, history>>

HeartbeatWritten(s) ==
    /\ run[s].heartbeat = "writing" /\ run[s].stream = "live"
    /\ run' = [run EXCEPT ![s].heartbeat = "idle"]
    /\ UNCHANGED <<byExecId, byOpenCodeSessionId, tombstones, pumps, deliveries, history>>

\* A write under way when the stream stops fails, and closes the Run.
HeartbeatFails(s) ==
    /\ run[s].heartbeat = "writing" /\ run[s].stream # "live"
    /\ Close(s, "heartbeat-write-failed")
    /\ UNCHANGED <<pumps, deliveries, history>>

LeaseLapses(s, e) ==
    /\ run[s].pending[e].state # "absent" /\ ~run[s].pending[e].lapsed
    /\ run' = [run EXCEPT ![s].pending[e].lapsed = TRUE]
    /\ UNCHANGED <<byExecId, byOpenCodeSessionId, tombstones, pumps, deliveries, history>>

\* Activity of the host session renews the leases of its Runs.
LeaseRenewed(s) ==
    /\ HostOf[s] # None
    /\ \E e \in ExecIds : run[s].pending[e].lapsed
    /\ run' = [run EXCEPT ![s].pending =
          [e \in ExecIds |-> [run[s].pending[e] EXCEPT !.lapsed = FALSE]]]
    /\ UNCHANGED <<byExecId, byOpenCodeSessionId, tombstones, pumps, deliveries, history>>

HardDeadline(s) ==
    /\ run[s].timer
    /\ \E e \in ExecIds : run[s].pending[e].lapsed
    /\ Close(s, "hard-cap-expired")
    /\ UNCHANGED <<pumps, deliveries, history>>

ForgetTombstone(k) ==
    /\ tombstones[k] \notin {"none", "forgotten"}
    /\ tombstones' = [tombstones EXCEPT ![k] = "forgotten"]
    /\ UNCHANGED <<run, byExecId, byOpenCodeSessionId, pumps, deliveries, history>>

-----------------------------------------------------------------------------
(* The host stops a turn, leaves one, or exits *)

\* cancelRun up to its first await: mark the Run and abandon what it owes.
HostStop(s) ==
    /\ run[s].life = "open" /\ ~run[s].interrupted
    /\ run' = [run EXCEPT ![s] = [Without(@, Present(@)) EXCEPT !.interrupted = TRUE,
                                                               !.heartbeat = "off"]]
    /\ byExecId' = byExecId \ ({s} \X Present(run[s]))
    /\ tombstones' = [k \in Keys |->
          IF k \in {s} \X Present(run[s]) THEN "host-interrupted" ELSE tombstones[k]]
    /\ UNCHANGED <<byOpenCodeSessionId, pumps, deliveries, history>>

\* cancelRun again once the pump has stopped: it may have taken an exec meanwhile.
AbandonPending(s) ==
    /\ run[s].life = "open" /\ run[s].interrupted /\ ~Pumping(run[s])
    /\ Present(run[s]) # {}
    /\ Drop(s, Present(run[s]), "host-interrupted")
    /\ UNCHANGED <<pumps, deliveries, history>>

\* cancelRun after its drain, or its grace period.
CancelDone(s) ==
    /\ run[s].life = "open" /\ run[s].interrupted
    /\ Close(s, "host-interrupted")
    /\ UNCHANGED <<pumps, deliveries, history>>

\* A late abort of the host's stream.
CloseUnlessPending(s) ==
    /\ run[s].life = "open"
    /\ Present(run[s]) = {} /\ ~Pumping(run[s])
    /\ Close(s, "ordinary-cleanup")
    /\ UNCHANGED <<pumps, deliveries, history>>

\* The host rewrote its history: the Runs built on the old one are useless.
HistoryRewritten(h) ==
    /\ \E s \in Sessions : HostOf[s] = h /\ run[s].life = "open"
    /\ CloseAll([s \in {x \in Sessions : HostOf[x] = h /\ run[x].life = "open"}
                    |-> "superseded-by-new-run"],
                run, byExecId, byOpenCodeSessionId, tombstones)
    /\ UNCHANGED <<pumps, deliveries, history>>

Dispose ==
    /\ \E s \in Sessions : run[s].life = "open"
    /\ CloseAll([s \in {x \in Sessions : run[x].life = "open"} |-> "process-disposed"],
                run, {}, byOpenCodeSessionId, tombstones)
    /\ UNCHANGED <<pumps, deliveries, history>>

-----------------------------------------------------------------------------

DeliveryStep(c) ==
    \/ \E n \in 0..MaxFrames, replyDeferred \in BOOLEAN : StartDelivery(c, n, replyDeferred)
    \/ EncodingFails(c)
    \/ SendFrame(c)
    \/ FrameRefused(c)
    \/ FrameDrained(c)
    \/ DrainFails(c)

ExecStep(s, e) ==
    \/ \E kind \in Kinds : RegisterPending(s, e, kind)
    \/ ForgetHeldExec(s, e)
    \/ MarkExecAborted(s, e)
    \/ Resolve(s, e)
    \/ Classify(s, e)
    \/ LeaseLapses(s, e)
    \/ ForgetTombstone(<<s, e>>)
    \/ \E c \in Callers : Claim(c, s, e)

PumpStep(o) ==
    \/ \E s \in Sessions : BeginPump(o, s)
    \/ EndPump(o)
    \/ EndDrain(o)
    \/ \E why \in PumpReasons : PumpCloses(o, why)
    \/ ReplaceStream(o)

RunStep(s) ==
    \/ RegisterSession(s)
    \/ \E how \in {"ended", "failed"} : StreamEnds(s, how)
    \/ TerminalAnnounced(s)
    \/ HeartbeatTick(s)
    \/ HeartbeatWritten(s)
    \/ HeartbeatFails(s)
    \/ LeaseRenewed(s)
    \/ HardDeadline(s)
    \/ HostStop(s)
    \/ AbandonPending(s)
    \/ CancelDone(s)
    \/ CloseUnlessPending(s)

HostStep(h) == SettleForFreshTurn(h) \/ HistoryRewritten(h)

Next ==
    \/ \E s \in Sessions : RunStep(s)
    \/ \E s \in Sessions, e \in ExecIds : ExecStep(s, e)
    \/ \E o \in Pumps : PumpStep(o)
    \/ \E c \in Callers : DeliveryStep(c)
    \/ \E h \in Hosts : HostStep(h)
    \/ Dispose

Spec == Init /\ [][Next]_vars

-----------------------------------------------------------------------------
(* What the registry promises *)

\* The index by exec key and the sessions' own maps agree, a Run that is not
\* open keeps nothing (no owed exec, pump, timer or deferred end), and the
\* index by OpenCode session names an open Run of that session.  A key left
\* behind by any of the dozen ways out of `pending` would route a result to
\* a dead Run, and classify would close whichever Run it found there.
IndexesAgree ==
    /\ byExecId = {k \in Keys : run[k[1]].pending[k[2]].state # "absent"}
    /\ \A s \in Sessions : run[s].life # "open" =>
          /\ Present(run[s]) = {}
          /\ run[s].pumpOwner = None
          /\ ~run[s].timer
          /\ run[s].deferred = "none"
          /\ run[s].heartbeat = "off"
    /\ \A h \in Hosts : byOpenCodeSessionId[h] # None =>
          /\ run[byOpenCodeSessionId[h]].life = "open"
          /\ HostOf[byOpenCodeSessionId[h]] = h

\* Whoever leaves or enters `pending`, the hard-deadline timer runs exactly
\* while the Run owes something: without it a host that never answers would
\* hold the Run for ever.
LeaseWatched ==
    \A s \in Sessions : run[s].timer <=> (run[s].life = "open" /\ Present(run[s]) # {})

\* A result has one writer: the frames on the wire for a registered exec are
\* exactly those its delivery has written, whatever was claimed, replaced,
\* aborted or closed while a frame queued or drained.
SoleWriter ==
    /\ \A c \in Callers : LET d == deliveries[c] IN
          d.pc # "idle" /\ registrations[d.key] = d.id =>
             wire[d.key] = d.written + (IF d.pc = "draining" THEN 1 ELSE 0)
    /\ \A s \in Sessions, e \in ExecIds :
          run[s].pending[e].state = "pending" => wire[<<s, e>>] = 0

\* Why SoleWriter holds: a registered exec is identified by its latest
\* registration, a delivery by the registration it claimed, no two deliveries
\* share one, and an exec nobody has claimed has no delivery.
ClaimsExclusive ==
    /\ \A s \in Sessions, e \in ExecIds : run[s].pending[e].state # "absent" =>
          run[s].pending[e].id = registrations[<<s, e>>] /\ run[s].pending[e].id # 0
    /\ \A c \in Callers : deliveries[c].pc # "idle" =>
          /\ deliveries[c].key \in Keys
          /\ deliveries[c].id \in 1..registrations[deliveries[c].key]
    /\ \A c, d \in Callers :
          c # d /\ deliveries[c].pc # "idle" /\ deliveries[d].pc # "idle"
          /\ deliveries[c].key = deliveries[d].key => deliveries[c].id # deliveries[d].id
    /\ \A c \in Callers : deliveries[c].pc # "idle" =>
          LET p == run[deliveries[c].key[1]].pending[deliveries[c].key[2]] IN
          p.state = "pending" => p.id # deliveries[c].id

WriterInv == ClaimsExclusive /\ SoleWriter

\* A tombstone says "result-write-failed" only of a result of which nothing
\* was sent; one that may have reached Cursor is "ambiguous-partial-write".
\* This needs the deliveries of a Run to take turns.
FailureReasonTruthful ==
    \A k \in Keys : tombstones[k] = "result-write-failed" => wire[k] = 0

\* An exec Cursor asked for is never silently lost: it is pending, or taken
\* out to be dispatched again, or remembered by a tombstone, unless the Run
\* ended with the turn itself.
ExecAccountedFor ==
    \A s \in Sessions, e \in ExecIds : registrations[<<s, e>>] > 0 =>
        \/ run[s].pending[e].state # "absent"
        \/ tombstones[<<s, e>>] # "none"
        \/ <<s, e>> \in redispatch
        \/ run[s].why \in QuietReasons

\* What every delivery leaves behind accounts for it.
DeliveriesAccounted == ExecAccountedFor /\ (Serialised => FailureReasonTruthful)

\* An open Run whose stream has announced its end is still going to be
\* closed: the end is deferred to the pump, or to the cancel of the host's
\* stop, or the Run is kept, with its heartbeat off, for queued frames.
EndedRunStillOwned ==
    \A s \in Sessions : run[s].life = "open" /\ run[s].settled =>
        \/ run[s].interrupted
        \/ run[s].deferred # "none" /\ Pumping(run[s])
        \/ run[s].deferred = "remote-clean-close" /\ run[s].heartbeat = "off"

\* Opening a Run costs another one nothing it still needs: neither the
\* supersede nor the cap closes a Run that is pumped, or that owes Cursor a
\* result, or whose result is being delivered.
OpeningSparesActiveRuns ==
    [][\A x, y \in Sessions :
          /\ x # y
          /\ run[x].life = "new" /\ run'[x].life # "new"
          /\ run[y].life = "open" /\ run'[y].life = "closed"
          => /\ ~Pumping(run[y])
             /\ \A e \in Present(run[y]) : NeedsNoWrite(run[y].pending[e])]_vars

\* Whenever a Run is opened, the cap on open Runs is exceeded only by Runs
\* that are pumped or still wait for the host, and of the Runs nobody uses
\* the newer ones are kept.
CapKeptBy(x) ==
    LET unused == {y \in Sessions \ {x} : run[y].life = "open" /\ ~Pumping(run[y])
                     /\ \A e \in Present(run[y]) : run[y].pending[e].aborted}
        kept == {y \in unused : run'[y].life = "open"}
        evicted == {y \in unused : run'[y].why = "open-session-cap-exceeded"}
    IN /\ Cardinality({y \in Sessions : run'[y].life = "open"}) > MaxOpen => kept = {}
       /\ \A y \in kept, z \in evicted : run[z].createdAt < run[y].createdAt

CapEnforced ==
    [][\A x \in Sessions : run[x].life = "new" /\ run'[x].life = "open" => CapKeptBy(x)]_vars

\* A pump that lost its Run cannot end the pump that took over.
PumpOwnerCurrent ==
    \A o \in Pumps : pumps[o] # None /\ run[pumps[o]].life = "open" => run[pumps[o]].pumpOwner = o

\* A Run Cursor ended is closed by the pump that owns it, and by no other.
EndedRunsOwned == EndedRunStillOwned /\ PumpOwnerCurrent

\* "Cursor ended the stream; its terminal event, not a failed write, decides
\* the Run" (src/language-model.ts, attachSessionHeartbeat).
TerminalEventDecides ==
    [][\A s \in Sessions :
          run[s].life = "open" /\ run'[s].life = "closed"
          /\ run[s].stream = "ended" /\ run[s].settled
          => run'[s].why # "heartbeat-write-failed"]_vars
=============================================================================
