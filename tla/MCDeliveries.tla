---------------------------- MODULE MCDeliveries ----------------------------
(***************************************************************************)
(* More small instances of SessionManager for TLC, one of which runs in     *)
(* each behaviour: callers whose deliveries on a Run interleave, callers    *)
(* whose deliveries take turns, and Runs that only the cap closes.          *)
(***************************************************************************)
EXTENDS SessionManager, TLC

CONSTANTS s1, s2, s3, h1

VARIABLES
    instance, \* which one
    \* of the other instances than the module's own
    otherRun, otherByExecId, otherByHost, otherTombstones, otherPumps,
    otherDeliveries, otherRegistrations, otherRedispatch, otherWire

\* The module's own constants: one exec, registered again on its stream and
\* on the stream's successor, and deliveries that interleave.
OneHost == s1 :> h1

\* Two execs, and a pump that also ends its Run for a failed reply.
InTurn == INSTANCE SessionManager WITH
    run <- otherRun, byExecId <- otherByExecId,
    byOpenCodeSessionId <- otherByHost, tombstones <- otherTombstones,
    pumps <- otherPumps, deliveries <- otherDeliveries,
    registrations <- otherRegistrations, redispatch <- otherRedispatch,
    wire <- otherWire,
    ExecIds <- {1, 2}, MaxRegistrations <- 1, Serialised <- TRUE,
    PumpReasons <- {"turn-ended", "reply-write-failed"}

\* Three Runs that no OpenCode session names.
Capped == INSTANCE SessionManager WITH
    run <- otherRun, byExecId <- otherByExecId,
    byOpenCodeSessionId <- otherByHost, tombstones <- otherTombstones,
    pumps <- otherPumps, deliveries <- otherDeliveries,
    registrations <- otherRegistrations, redispatch <- otherRedispatch,
    wire <- otherWire,
    Sessions <- {s1, s2, s3}, HostOf <- s1 :> None @@ s2 :> None @@ s3 :> None,
    MaxOpen <- 2, MaxFrames <- 1, MaxRegistrations <- 0, MaxReplacements <- 0,
    Serialised <- TRUE, PumpReasons <- {}, Callers <- {}

otherVars == <<otherRun, otherByExecId, otherByHost, otherTombstones,
               otherPumps, otherDeliveries, otherRegistrations,
               otherRedispatch, otherWire>>
allVars == <<instance, vars, otherVars>>

InitAny ==
    /\ Init
    /\ \/ instance \in {"own", "in turn"} /\ InTurn!Init
       \/ instance = "capped" /\ Capped!Init

NextAny ==
    \/ instance = "own" /\ Next /\ UNCHANGED <<instance, otherVars>>
    \/ instance = "in turn" /\ InTurn!Next /\ UNCHANGED <<instance, vars>>
    \/ instance = "capped" /\ Capped!Next /\ UNCHANGED <<instance, vars>>

(* The clock is fair: a lapsed lease that nothing renews meets its timer. *)
SpecAny ==
    /\ InitAny /\ [][NextAny]_allVars
    /\ \A s \in Sessions : WF_vars(instance = "own" /\ HardDeadline(s))

-----------------------------------------------------------------------------
\* Also of two execs answered in turn, none is forgotten, and a delivery that
\* fails is named for what the wire saw.
TurnsAccounted == instance = "in turn" => InTurn!DeliveriesAccounted

\* Opening a Run over the cap closes the oldest idle Runs, and no others.
CapMet ==
    [][instance = "capped" =>
          \A x \in {s1, s2, s3} : otherRun[x].life = "new" /\ otherRun'[x].life = "open" =>
             Capped!CapKeptBy(x)]_allVars

\* A lease that lapses is renewed by the host's activity, or what it covered
\* leaves `pending` (delivered, settled, abandoned, or closed with the Run):
\* no way in or out of `pending` leaves a Run without its timer.
LapsedLeaseEnds ==
    \A s \in Sessions, e \in ExecIds :
        run[s].pending[e].lapsed ~> ~run[s].pending[e].lapsed
=============================================================================
