------------------------------ MODULE Occupancy ------------------------------
(***************************************************************************)
(* How full Cursor says the context is (checkpoint-occupancy.ts and         *)
(* protocol/checkpoint.ts). A reading that nothing explains and is far above *)
(* the accepted one is held back until another one confirms it, and no       *)
(* longer than that.                                                        *)
(***************************************************************************)
EXTENDS Naturals

CONSTANTS
    Readings,   \* token counts a checkpoint may report
    MaxBoundary \* bound: observations (step starts and Runs)

(* What the proofs take of the constants: readings are counts.              *)
ReadingsAreCounts == Readings \subseteq Nat

NoPending == [used |-> 0, at |-> 0]
NoReading == [used |-> 0, explained |-> FALSE, at |-> 0]
NoGuard == [fresh |-> FALSE, pending |-> NoPending, model |-> 0]

VARIABLES
    at,       \* the observation now: a Run and its step starts
    model,    \* the Run's model
    media,    \* images went out, and no later checkpoint holds them yet
    accepted, \* the accepted reading, 0 when there is none
    guard,    \* what is held back, and whether the next reading counts anyhow
    last,     \* the last positive reading, and its observation
    jumped,   \* a reading since `accepted` jumped
    saved     \* what a restart reads

gaugeVars == <<at, model, media, accepted, guard, last, jumped, saved>>

GaugeInit ==
    /\ at = 1 /\ model = 1 /\ media = FALSE
    /\ accepted = 0 /\ guard = NoGuard
    /\ last = NoReading /\ jumped = FALSE
    /\ saved = [accepted |-> 0, guard |-> NoGuard, last |-> NoReading, jumped |-> FALSE]

StepStarts ==
    /\ at < MaxBoundary /\ at' = at + 1
    /\ model' \in {1, 2}
    /\ UNCHANGED <<media, accepted, guard, last, jumped, saved>>

SendsImages ==
    /\ media' = TRUE
    /\ UNCHANGED <<at, model, accepted, guard, last, jumped, saved>>

-----------------------------------------------------------------------------
(* isUnexplainedOccupancyJump: the categories say nothing else grew.         *)
Jump(used, explained) == accepted > 0 /\ 4 * used >= 7 * accepted /\ ~explained
Close(a, b) == a # b /\ 5 * b >= 4 * a /\ 4 * b <= 5 * a

(* Mutant of Confirmed: another observation does not end a hold. *)
Confirmed_SameOnly(used) ==
    /\ guard.pending # NoPending
    /\ Close(guard.pending.used, used)

Confirmed(used) ==
    /\ guard.pending # NoPending
    /\ at # guard.pending.at \/ Close(guard.pending.used, used)

Reset(bypass) == bypass \/ guard.fresh \/ (guard.model # 0 /\ guard.model # model)

(* Mutant of Admitted: a plain reading leaves what was held. *)
Admitted_Stays(used) == [guard EXCEPT !.model = model, !.fresh = FALSE]

Admitted(used) == [NoGuard EXCEPT !.model = model]

Held(used) ==
    [fresh |-> FALSE, model |-> model,
     pending |-> [used |-> used, at |-> IF guard.pending = NoPending THEN at ELSE guard.pending.at]]

(* setCheckpoint and selectCheckpointOccupancy, for a positive reading.      *)
SetReading(used, explained, bypass) ==
    /\ used > 0 /\ (bypass => media)
    /\ media' = (media /\ ~bypass)
    /\ last' = [used |-> used, explained |-> explained, at |-> at]
    /\ IF Reset(bypass) \/ ~Jump(used, explained) \/ Confirmed(used)
       THEN accepted' = used /\ guard' = Admitted(used) /\ jumped' = FALSE
       ELSE guard' = Held(used) /\ jumped' = TRUE /\ UNCHANGED accepted
    /\ UNCHANGED <<at, model, saved>>

(* Zero marks a cancelled Run; a checkpoint may also carry no reading.       *)
SetNoReading(bypass, reading) ==
    /\ bypass => media
    /\ guard' = IF reading /\ Reset(bypass) THEN [NoGuard EXCEPT !.fresh = TRUE, !.model = model]
                ELSE IF bypass THEN [guard EXCEPT !.fresh = TRUE] ELSE guard
    /\ media' = (media /\ ~(bypass /\ reading))
    /\ UNCHANGED <<at, model, accepted, last, jumped, saved>>

Saves ==
    /\ saved' = [accepted |-> accepted, guard |-> guard, last |-> last, jumped |-> jumped]
    /\ UNCHANGED <<at, model, media, accepted, guard, last, jumped>>

(* restoreCheckpointOccupancy and its guard; a new Run observes anew.        *)
GaugeRestored ==
    /\ at < MaxBoundary /\ at' = at + 1
    /\ accepted' = saved.accepted /\ guard' = saved.guard
    /\ last' = saved.last /\ jumped' = saved.jumped
    /\ media' = FALSE
    /\ UNCHANGED <<model, saved>>

GaugeNext ==
    \/ StepStarts \/ SendsImages \/ Saves \/ GaugeRestored
    \/ \E used \in Readings, explained, bypass \in BOOLEAN : SetReading(used, explained, bypass)
    \/ \E bypass, reading \in BOOLEAN : SetNoReading(bypass, reading)

GaugeSpec == GaugeInit /\ [][GaugeNext]_gaugeVars

-----------------------------------------------------------------------------
(* What is held was first seen in the observation of the last reading: a     *)
(* count that stays is shown at the latest by the next observation.          *)
HoldEnds == guard.pending # NoPending => guard.pending.at = last.at

(* A jump nothing explains is never accepted on its first reading.           *)
JumpSeenTwice ==
    [][/\ accepted > 0 /\ at' = at /\ media' = media
       /\ ~guard.fresh /\ guard.model = model
       /\ accepted' # accepted /\ ~last'.explained /\ 4 * accepted' >= 7 * accepted
       => jumped]_gaugeVars

(* A jump is shown at its second reading, and shown then.                    *)
JumpHeld == [][HoldEnds']_gaugeVars /\ JumpSeenTwice
=============================================================================
