------------------------- MODULE SessionStateProofs -------------------------
(***************************************************************************)
(* Proofs about what a conversation keeps from one turn or process to the  *)
(* next. ConversationState: no Run resumes a checkpoint that lacks a turn  *)
(* the host has seen finish, and a conversation a reset replaced leaves    *)
(* the disk, for any copies, turns, conversations and faults, where no     *)
(* helper call hydrates beside the turn and no other session pushes the    *)
(* record out between a turn's hydration and its Run. Occupancy: a jump is *)
(* shown at its second reading, and then. PlanReview: a plan is written    *)
(* and reviewed once. HostSteers: a message sent early is in no            *)
(* conversation twice, and is answered.                                    *)
(***************************************************************************)
EXTENDS ConversationState, Occupancy, PlanReview, HostSteers, FiniteSetTheorems, SequenceTheorems, TLAPS

(***************************************************************************)
(* The inductive invariant                                                 *)
(***************************************************************************)

Jobs == [kind : {"progress", "terminal", "delete"}, copy : Copies, conversation : Conversations,
         writing : BOOLEAN, upto : Upto \union {Void}]
Snapshots == [conversation : Conversations, upto : Upto \union {Void}]
Records == [present : BOOLEAN, generation : Nat, unsaved : BOOLEAN, held : [Copies -> Nat], reading : Int]
Hydrations == [pc : {"idle", "settling", "forgetting", "reading", "read", "hydrated"},
               copy : Copies \union {Void}, bound : Conversations \union {Void},
               conversation : Conversations \union {Void}, entry : Upto \union {Void}, replaced : BOOLEAN,
               attempt : Nat, waits : Nat, generation : Nat, read : Snapshots \union {Void}]
Runs == [phase : {"none", "clearing", "running", "saving"}, copy : Copies \union {Void},
         conversation : Conversations \union {Void}, base : Upto, complete : BOOLEAN]

Shapes ==
    /\ bound \in Conversations \union {Void}
    /\ record \in Records
    /\ lane \in Seq(Jobs)
    /\ snapshot \in Snapshots \union {Void}
    /\ memory \in [Copies -> [Conversations -> Upto \union {Void}]]
    /\ requests \in [Requests -> Hydrations]
    /\ turnRun \in Runs
    /\ straggler \in [copy : Copies, conversation : Conversations] \union {Void}
    /\ minted \in Conversations /\ finished \in Upto /\ dead \subseteq Conversations
    /\ spoilt \in BOOLEAN

turn == requests["turn"]

\* Conversations are numbered as they are minted, and what is kept is of those.
NumberedSoFar ==
    /\ bound # Void => bound <= minted
    /\ snapshot # Void => snapshot.conversation <= minted
    /\ \A i \in DOMAIN lane : lane[i].conversation <= minted
    /\ straggler # Void => straggler.conversation <= minted
    /\ turn.read # Void => turn.read.conversation <= minted
    /\ dead \subseteq 1..minted
    /\ \A c \in Copies, k \in Conversations : k > minted => memory[c][k] = Void

\* Until a conversation is minted or restored, there is only the default one.
DefaultOnly ==
    bound \in {Void, Default} =>
        /\ \A c \in Copies, k \in Conversations : k # Default => memory[c][k] = Void
        /\ \A i \in DOMAIN lane : lane[i].conversation = Default
        /\ straggler # Void => straggler.conversation = Default

\* Nothing holds more than the turn under way on top of those that finished.
NothingAhead ==
    /\ \A c \in Copies, k \in Conversations : memory[c][k] # Void => memory[c][k] <= finished + 1
    /\ snapshot # Void /\ snapshot.upto # Void => snapshot.upto <= finished + 1
    /\ \A i \in DOMAIN lane : lane[i].upto # Void => lane[i].upto <= finished + 1
    /\ turn.read # Void /\ turn.read.upto # Void => turn.read.upto <= finished + 1

\* Someone holds the present generation.
Vouched == record.present /\ \E o \in Copies : record.held[o] = record.generation

\* Generations grow, and are held by those that wrote or read them.
RecordKept ==
    /\ \A c \in Copies : record.held[c] <= record.generation
    /\ record.present => record.generation > 0
    /\ ~record.present => \A c \in Copies : record.held[c] = 0
    /\ (\E c \in Copies : record.held[c] # 0) => Vouched
    /\ record.unsaved => Vouched
    /\ lane # <<>> => record.present

\* The copy holds a checkpoint that lacks a finished turn.
Lags(c) == memory[c][Active] # Void /\ memory[c][Active] < finished

\* The lane: its first job may be at work, and carries every finished turn; a
\* terminal save or a delete is the present Run's; all are of one copy.
LaneKept ==
    /\ \A i \in DOMAIN lane :
        /\ lane[i].writing => i = 1 /\ lane[i].kind # "delete" /\ (lane[i].upto # Void
              => lane[i].upto >= finished)
        /\ lane[i].kind = "terminal" =>
            /\ turnRun.phase = "saving" /\ lane[i].conversation = turnRun.conversation
            /\ lane[i].writing => lane[i].upto = finished + 1
        /\ lane[i].kind = "delete" => turnRun.phase = "clearing"
        /\ ~Lags(lane[i].copy)
        /\ turnRun.phase # "none" => lane[i].copy = turnRun.copy
        /\ straggler # Void => lane[i].copy = straggler.copy
        /\ turn.pc = "hydrated" \/ turn.pc \in {"forgetting", "reading", "read"} => lane[i].copy = turn.copy
        /\ turn.pc = "settling" /\ i > turn.waits => lane[i].copy = turn.copy
    /\ \A i, j \in DOMAIN lane :
        /\ lane[i].copy = lane[j].copy
        /\ lane[i].kind = lane[j].kind /\ lane[i].kind # "progress" => i = j

\* A stopped Run's copy is the one that goes on.
StragglerServes ==
    straggler # Void =>
        /\ ~Lags(straggler.copy)
        /\ turnRun.phase # "none" => straggler.copy = turnRun.copy
        /\ turn.pc # "idle" => straggler.copy = turn.copy

\* A Run goes on from every finished turn, in the session's conversation.
RunServes ==
    turnRun.phase # "none" =>
        /\ turn.pc = "idle" /\ finished < MaxTurns
        /\ turnRun.copy \in Copies /\ turnRun.conversation = Active
        /\ finished <= turnRun.base /\ turnRun.base <= finished + 1
        /\ ~Lags(turnRun.copy)
        /\ turnRun.complete => memory[turnRun.copy][turnRun.conversation] = finished + 1
        /\ turnRun.phase = "saving" => turnRun.complete
        /\ turnRun.phase = "clearing" =>
            /\ ~turnRun.complete /\ bound \notin {Void, Default}
            /\ \A i \in DOMAIN lane : lane[i].conversation # bound
            /\ snapshot # Void => snapshot.conversation # bound
            /\ straggler # Void => straggler.conversation # bound

\* The turn's hydration: the session may have been unbound meanwhile, and what
\* was read is on disk as long as no generation followed.
Hydrating == turn.pc \in {"settling", "forgetting", "reading", "read"}
HydrationKept ==
    /\ requests["helper"] = Idle
    /\ turn.pc # "idle" => finished < MaxTurns /\ turn.copy \in Copies
    /\ Hydrating =>
        /\ turn.conversation = Active /\ (turn.bound = bound \/ (turn.bound = Default /\ bound = Void))
        /\ turn.entry = memory[turn.copy][Active] /\ ~turn.replaced
    /\ turn.pc \in {"reading", "read"} => record.present /\ turn.generation <= record.generation
    /\ turn.pc = "read" /\ turn.generation = record.generation => turn.read \in {Void, snapshot}
    /\ turn.pc = "hydrated" => ~Lags(turn.copy)

\* A snapshot that lacks a finished turn is the one a failed save left, and no
\* hydration reads it: the record says so, or it is of a replaced conversation.
StaleUnread ==
    snapshot # Void /\ snapshot.upto # Void /\ snapshot.upto < finished =>
        /\ spoilt
        /\ \/ record.unsaved /\ turn.pc \notin {"forgetting", "reading", "read"}
           \/ bound \notin {Void, Default} /\ snapshot.conversation # bound

\* A copy that lags does not pass for one that holds the latest generation, and
\* while the session is bound someone holds it or is about to write it.
LaggardsKnown ==
    \A c \in Copies : Lags(c) =>
        /\ ~HoldsLatest(c)
        /\ bound # Void \/ turn.pc = "hydrated" \/ (turn.pc # "idle" /\ turn.bound # Void) =>
            Vouched \/ (bound \in {Void, Default} /\ (straggler # Void \/ lane # <<>>))

\* A conversation a reset replaced is not the session's, and what is on disk,
\* or on its way there, of it is deleted yet.
ReplacedLeave ==
    /\ Active \notin dead
    /\ SupersededLeavesDisk
    /\ lane # <<>> /\ lane[1].writing /\ lane[1].conversation \in dead =>
        \E i \in DOMAIN lane : lane[i].kind = "delete" /\ lane[i].conversation = lane[1].conversation

TurnsInv ==
    /\ Shapes /\ NumberedSoFar /\ DefaultOnly /\ NothingAhead /\ RecordKept /\ LaneKept /\ StragglerServes
    /\ RunServes /\ HydrationKept /\ StaleUnread /\ LaggardsKnown /\ ReplacedLeave
-----------------------------------------------------------------------------
(***************************************************************************)
(* What the helpers of the actions leave                                   *)
(***************************************************************************)

\* What the constants and the shapes say of Void and of the session's
\* conversation.
LEMMA Plain ==
    ASSUME SavedConstants, Shapes, NumberedSoFar
    PROVE  /\ MaxTurns \in Nat /\ MaxConversations \in Nat
           /\ Void \notin Copies /\ Void \notin Conversations /\ Void \notin Upto
           /\ Void \notin Int /\ Void \notin Snapshots
           /\ Default \in Conversations /\ Active \in Conversations /\ Active <= minted
           /\ minted \in Nat /\ finished \in Nat
<1>1. /\ MaxTurns \in Nat /\ MaxConversations \in Nat /\ 1 <= MaxConversations
      /\ Void \notin Copies /\ Void \notin Int /\ Void \notin Snapshots
    BY DEF SavedConstants, Snapshots, Conversations, Upto
<1>2. /\ Void \notin Conversations /\ Void \notin Upto /\ Default \in Conversations
      /\ minted \in Conversations /\ finished \in Upto /\ bound \in Conversations \union {Void}
    BY <1>1 DEF Shapes, Conversations, Upto, Default
<1>3. /\ Active \in Conversations /\ Active <= minted
    BY <1>1, <1>2 DEF Active, NumberedSoFar, Conversations, Default
<1>4. minted \in Nat /\ finished \in Nat
    BY <1>1, <1>2 DEF Conversations, Upto
<1> QED
    BY <1>1, <1>2, <1>3, <1>4

\* A record made anew has the next generation; a present one is as it was.
LEMMA OpenedIs ==
    ASSUME record \in Records
    PROVE  /\ Opened \in Records /\ Opened.present
           /\ Opened.generation = IF record.present THEN record.generation ELSE record.generation + 1
           /\ Opened.unsaved = record.unsaved /\ Opened.held = record.held /\ Opened.reading = record.reading
<1>1. CASE record.present
    BY <1>1 DEF Opened
<1>2. CASE ~record.present
  <2>1. Opened = [record EXCEPT !.present = TRUE, !.generation = record.generation + 1]
    BY <1>2 DEF Opened
  <2>2. /\ record.generation + 1 \in Nat /\ record.generation \in Nat
    BY DEF Records
  <2>3. Opened = [present |-> TRUE, generation |-> record.generation + 1, unsaved |-> record.unsaved,
                  held |-> record.held, reading |-> record.reading]
    BY <2>1 DEF Records
  <2> QED
    BY <1>2, <2>2, <2>3 DEF Records
<1> QED
    BY <1>1, <1>2

\* A write that ended makes a generation only its copy holds.
LEMMA WrittenIs ==
    ASSUME record \in Records, NEW c \in Copies, NEW f \in BOOLEAN
    PROVE  /\ Written(c, f) \in Records /\ Written(c, f).present = record.present
           /\ Written(c, f).generation = record.generation + 1 /\ Written(c, f).unsaved = f
           /\ Written(c, f).held \in [Copies -> Nat] /\ Written(c, f).held[c] = record.generation + 1
           /\ \A o \in Copies \ {c} : Written(c, f).held[o] = record.held[o]
           /\ Written(c, f).reading = record.reading
<1> DEFINE g == record.generation + 1
<1>1. g \in Nat /\ record.held \in [Copies -> Nat] /\ record.held[c] \in Nat
    BY DEF Records
<1>2. Written(c, f) = [present |-> record.present, generation |-> g, unsaved |-> f,
                       held |-> [record.held EXCEPT ![c] = g], reading |-> record.reading]
  <2>1. Written(c, f) = [record EXCEPT !.generation = g, !.unsaved = f, !.held[c] = g]
    BY Zenon DEF Written
  <2>2. record = [present |-> record.present, generation |-> record.generation, unsaved |-> record.unsaved,
                  held |-> record.held, reading |-> record.reading]
    BY DEF Records
  <2> HIDE DEF g
  <2> QED
    BY <2>1, <2>2
<1>3. [record.held EXCEPT ![c] = g] \in [Copies -> Nat]
    BY <1>1
<1> QED
    BY <1>1, <1>2, <1>3 DEF Records

\* A copy that counts as holding a generation.
LEMMA HeldIs ==
    ASSUME NEW rec \in Records, NEW c \in Copies, NEW g \in Nat
    PROVE  LET now == [rec EXCEPT !.held[c] = g] IN
           /\ now \in Records /\ now.present = rec.present /\ now.generation = rec.generation
           /\ now.unsaved = rec.unsaved /\ now.reading = rec.reading
           /\ now.held \in [Copies -> Nat] /\ now.held[c] = g
           /\ \A o \in Copies \ {c} : now.held[o] = rec.held[o]
BY DEF Records

\* A record that differs in its reads only.
LEMMA ReadingIs ==
    ASSUME NEW rec \in Records, NEW n \in Int
    PROVE  LET now == [rec EXCEPT !.reading = n] IN
           /\ now \in Records /\ now.present = rec.present /\ now.generation = rec.generation
           /\ now.unsaved = rec.unsaved /\ now.held = rec.held /\ now.reading = n
BY DEF Records

\* A checkpoint that is dropped.
LEMMA ClearedIs ==
    ASSUME memory \in [Copies -> [Conversations -> Upto \union {Void}]], NEW c \in Copies, NEW k \in Conversations
    PROVE  /\ Cleared(c, k) \in [Copies -> [Conversations -> Upto \union {Void}]]
           /\ Cleared(c, k)[c][k] = Void
           /\ \A o \in Copies, l \in Conversations : o # c \/ l # k => Cleared(c, k)[o][l] = memory[o][l]
BY DEF Cleared

\* A job at the end of the lane.
LEMMA LaneGrows ==
    ASSUME lane \in Seq(Jobs), NEW job \in Jobs, lane' = Append(lane, job)
    PROVE  /\ lane' \in Seq(Jobs) /\ Len(lane') = Len(lane) + 1 /\ lane' # <<>>
           /\ DOMAIN lane = 1..Len(lane) /\ DOMAIN lane' = 1..(Len(lane) + 1) /\ Len(lane) \in Nat
           /\ \A i \in DOMAIN lane : i \in DOMAIN lane' /\ lane'[i] = lane[i]
           /\ lane'[Len(lane) + 1] = job
           /\ \A i \in DOMAIN lane' : i \in DOMAIN lane \/ i = Len(lane) + 1
OBVIOUS

\* The lane without its first job.
LEMMA LaneShrinks ==
    ASSUME lane \in Seq(Jobs), lane # <<>>, lane' = Tail(lane)
    PROVE  /\ lane' \in Seq(Jobs) /\ Head(lane) = lane[1] /\ lane[1] \in Jobs
           /\ 1 \in DOMAIN lane /\ Len(lane) \in Nat \ {0} /\ DOMAIN lane = 1..Len(lane)
           /\ Len(lane') = Len(lane) - 1 /\ DOMAIN lane' = 1..(Len(lane) - 1)
           /\ \A i \in DOMAIN lane' : i + 1 \in DOMAIN lane /\ lane'[i] = lane[i + 1]
           /\ \A i \in DOMAIN lane : i = 1 \/ (i - 1 \in DOMAIN lane' /\ lane'[i - 1] = lane[i])
OBVIOUS

(***************************************************************************)
(* The write lane                                                          *)
(***************************************************************************)

\* The turn's hydration is where it was; it may wait for fewer writes.
SameTurn ==
    /\ turn'.pc = turn.pc /\ turn'.copy = turn.copy /\ turn'.bound = turn.bound
    /\ turn'.conversation = turn.conversation /\ turn'.entry = turn.entry /\ turn'.replaced = turn.replaced
    /\ turn'.generation = turn.generation /\ turn'.read = turn.read

\* A hydration that waits for one write less waits for the same writes.
LEMMA HeadEndsIs ==
    ASSUME Shapes, requests["helper"] = Idle, lane # <<>>, HeadEnds
    PROVE  /\ requests' \in [Requests -> Hydrations] /\ requests'["helper"] = Idle
           /\ SameTurn /\ turn'.waits = IF turn.waits > 0 THEN turn.waits - 1 ELSE 0
           /\ turn \in Hydrations
<1> DEFINE fewer(q) == IF q.waits > 0 THEN q.waits - 1 ELSE 0
<1>1. requests \in [Requests -> Hydrations] /\ turn \in Hydrations
    BY DEF Shapes, turn, Requests
<1>2. \A r \in Requests : requests'[r] = [requests[r] EXCEPT !.waits = fewer(requests[r])]
    BY DEF HeadEnds
<1>3. requests' = [r \in Requests |-> requests'[r]]
    BY DEF HeadEnds
<1>4. ASSUME NEW q \in Hydrations
      PROVE  /\ fewer(q) \in Nat /\ [q EXCEPT !.waits = fewer(q)] \in Hydrations
             /\ [q EXCEPT !.waits = fewer(q)].waits = fewer(q)
    BY DEF Hydrations
<1>5. \A r \in Requests : requests'[r] \in Hydrations
    BY <1>1, <1>2, <1>4
<1>6. requests' \in [Requests -> Hydrations]
    BY <1>3, <1>5
<1>7. requests'["helper"] = Idle
  <2>1. Idle.waits = 0 /\ fewer(Idle) = 0
    BY DEF Idle
  <2>2. ASSUME NEW q \in Hydrations, q.waits = 0
        PROVE  [q EXCEPT !.waits = 0] = q
    BY <2>2 DEF Hydrations
  <2>3. Idle \in Hydrations
    BY <1>1 DEF Requests
  <2> QED
    BY <1>2, <2>1, <2>2, <2>3 DEF Requests
<1>8. requests'["turn"] = [turn EXCEPT !.waits = fewer(turn)]
    BY <1>2 DEF turn, Requests
<1>9. SameTurn
    BY <1>1, <1>8 DEF SameTurn, turn, Hydrations
<1>10. turn'.waits = fewer(turn)
    BY <1>1, <1>8, <1>4 DEF turn
<1> QED
    BY <1>1, <1>6, <1>7, <1>9, <1>10

\* A write that has ended, in any way: its copy holds the new generation, and
\* on disk is nothing, what was there, or what it wrote.
Ended(f) ==
    /\ lane # <<>> /\ HeadEnds /\ record' = Written(lane[1].copy, f)
    /\ lane[1].kind = "delete" \/ lane[1].writing
    /\ \/ snapshot' = Void
       \/ snapshot' = snapshot
       \/ lane[1].writing /\ snapshot' = [conversation |-> lane[1].conversation, upto |-> lane[1].upto]
    /\ UNCHANGED <<bound, memory, straggler, minted>>
    /\ dead' \subseteq dead /\ spoilt' \in BOOLEAN

\* What is so of the run and the turn count when a write ends.
LEMMA EndedIs ==
    ASSUME SavedConstants, TurnsInv, NEW f \in BOOLEAN, Ended(f)
    PROVE  /\ lane[1].kind \in {"progress", "terminal", "delete"}
           /\ lane[1].kind = "progress" => turnRun' = turnRun /\ finished' = finished
           /\ lane[1].kind = "terminal" =>
                /\ turnRun.phase = "saving" /\ turnRun' = NoRun /\ finished' = finished + 1
                /\ lane[1].copy = turnRun.copy /\ memory[turnRun.copy][Active] = finished + 1
                /\ finished < MaxTurns
           /\ lane[1].kind = "delete" =>
                /\ turnRun.phase = "clearing" /\ finished' = finished
                /\ turnRun' = [turnRun EXCEPT !.phase = "running"] /\ lane[1].copy = turnRun.copy
           /\ turnRun' \in Runs /\ finished' \in Upto
           /\ lane[1] \in Jobs /\ Active' = Active
<1>1. /\ Head(lane) = lane[1] /\ lane[1] \in Jobs /\ 1 \in DOMAIN lane
    BY LaneShrinks DEF Ended, HeadEnds, TurnsInv, Shapes
<1>2. lane[1].kind \in {"progress", "terminal", "delete"}
    BY <1>1 DEF Jobs
<1>3. lane[1].kind = "progress" => turnRun' = turnRun /\ finished' = finished
    BY <1>1 DEF Ended, HeadEnds
<1>4. lane[1].kind = "terminal" =>
                /\ turnRun.phase = "saving" /\ turnRun' = NoRun /\ finished' = finished + 1
                /\ lane[1].copy = turnRun.copy /\ memory[turnRun.copy][Active] = finished + 1
                /\ finished < MaxTurns
    BY <1>1 DEF Ended, HeadEnds, TurnsInv, LaneKept, RunServes
<1>5. lane[1].kind = "delete" =>
                /\ turnRun.phase = "clearing" /\ finished' = finished
                /\ turnRun' = [turnRun EXCEPT !.phase = "running"] /\ lane[1].copy = turnRun.copy
    BY <1>1 DEF Ended, HeadEnds, TurnsInv, LaneKept
<1>6. turnRun' \in Runs /\ finished' \in Upto
  <2>1. turnRun \in Runs /\ finished \in Upto /\ MaxTurns \in Nat
    BY DEF TurnsInv, Shapes, SavedConstants
  <2>2. NoRun \in Runs
    BY <2>1 DEF NoRun, Runs, Upto
  <2>3. [turnRun EXCEPT !.phase = "running"] \in Runs
    BY <2>1 DEF Runs
  <2>4. finished < MaxTurns => finished + 1 \in Upto
    BY <2>1 DEF Upto
  <2> QED
    BY <1>2, <1>3, <1>4, <1>5, <2>1, <2>2, <2>3, <2>4
<1>7. Active' = Active
    BY DEF Ended, Active
<1> QED
    BY <1>1, <1>2, <1>3, <1>4, <1>5, <1>6, <1>7

\* A write that has ended leaves the parts of the invariant that do not depend
\* on what it left on disk.
LEMMA EndedKeeps ==
    ASSUME SavedConstants, TurnsInv, NEW f \in BOOLEAN, Ended(f)
    PROVE  /\ NumberedSoFar' /\ DefaultOnly' /\ NothingAhead' /\ RecordKept' /\ LaneKept' /\ StragglerServes'
           /\ RunServes' /\ HydrationKept' /\ LaggardsKnown'
           /\ Shapes'
<1> DEFINE h == lane[1]
<1>1. /\ Shapes /\ NumberedSoFar /\ DefaultOnly /\ NothingAhead /\ RecordKept /\ LaneKept
      /\ StragglerServes /\ RunServes /\ HydrationKept /\ LaggardsKnown
      /\ requests["helper"] = Idle
    BY DEF TurnsInv, HydrationKept
<1>2. /\ lane \in Seq(Jobs) /\ lane' \in Seq(Jobs) /\ 1 \in DOMAIN lane
      /\ DOMAIN lane = 1..Len(lane) /\ DOMAIN lane' = 1..(Len(lane) - 1) /\ Len(lane) \in Nat \ {0}
      /\ \A i \in DOMAIN lane' : i + 1 \in DOMAIN lane /\ lane'[i] = lane[i + 1]
    BY <1>1, LaneShrinks DEF Ended, HeadEnds, Shapes
<1>3. /\ h.kind \in {"progress", "terminal", "delete"}
      /\ h.kind = "progress" => turnRun' = turnRun /\ finished' = finished
      /\ h.kind = "terminal" =>
           /\ turnRun.phase = "saving" /\ turnRun' = NoRun /\ finished' = finished + 1
           /\ h.copy = turnRun.copy /\ memory[turnRun.copy][Active] = finished + 1
           /\ finished < MaxTurns
      /\ h.kind = "delete" =>
           /\ turnRun.phase = "clearing" /\ finished' = finished
           /\ turnRun' = [turnRun EXCEPT !.phase = "running"] /\ h.copy = turnRun.copy
      /\ turnRun' \in Runs /\ finished' \in Upto /\ h \in Jobs /\ Active' = Active
    BY EndedIs
<1>4. /\ requests' \in [Requests -> Hydrations] /\ requests'["helper"] = Idle /\ SameTurn
      /\ turn'.waits = IF turn.waits > 0 THEN turn.waits - 1 ELSE 0
      /\ turn \in Hydrations
    BY <1>1, HeadEndsIs DEF Ended
<1>5. /\ h.copy \in Copies /\ h.conversation \in Conversations /\ h.upto \in Upto \union {Void}
      /\ record \in Records
    BY <1>1, <1>3 DEF Jobs, Shapes
<1>6. /\ record' \in Records /\ record'.present = record.present
      /\ record'.generation = record.generation + 1 /\ record'.unsaved = f
      /\ record'.held \in [Copies -> Nat] /\ record'.held[h.copy] = record.generation + 1
      /\ \A o \in Copies \ {h.copy} : record'.held[o] = record.held[o]
    BY <1>5, WrittenIs DEF Ended
<1>7. /\ bound' = bound /\ memory' = memory /\ straggler' = straggler /\ minted' = minted
      /\ \/ snapshot' = Void
         \/ snapshot' = snapshot
         \/ h.writing /\ snapshot' = [conversation |-> h.conversation, upto |-> h.upto]
      /\ h.kind = "delete" \/ h.writing
      /\ dead' \subseteq dead /\ spoilt' \in BOOLEAN
    BY DEF Ended
<1>8. /\ Void \notin Copies /\ Void \notin Conversations /\ Void \notin Upto /\ Void \notin Int
      /\ Void \notin Snapshots /\ Active \in Conversations /\ Active <= minted /\ minted \in Nat
      /\ finished \in Nat /\ MaxTurns \in Nat /\ MaxConversations \in Nat
    BY <1>1, Plain
<1>20. /\ memory \in [Copies -> [Conversations -> Upto \union {Void}]]
       /\ \A c \in Copies, k \in Conversations : memory[c][k] # Void => memory[c][k] \in Nat
  <2>1. memory \in [Copies -> [Conversations -> Upto \union {Void}]]
    BY <1>1 DEF Shapes
  <2> QED
    BY <1>8, <2>1 DEF Upto
<1>9. record.present /\ record.generation \in Nat /\ record.held \in [Copies -> Nat]
    BY <1>1, <1>2, <1>5 DEF RecordKept, Records
<1> HIDE DEF h
<1>10. NumberedSoFar'
  <2>1. (snapshot # Void => snapshot.conversation <= minted)'
    BY <1>1, <1>2, <1>5, <1>7 DEF NumberedSoFar, h
  <2>2. (\A i \in DOMAIN lane : lane[i].conversation <= minted)'
    BY <1>1, <1>2, <1>7 DEF NumberedSoFar
  <2> QED
    BY <1>1, <1>4, <1>7, <2>1, <2>2 DEF NumberedSoFar, SameTurn
<1>11. DefaultOnly'
  BY <1>1, <1>2, <1>7 DEF DefaultOnly
<1>12. NothingAhead'
  <2>1. finished <= finished'
    BY <1>3, <1>8
  <2>2. (\A c \in Copies, k \in Conversations : memory[c][k] # Void => memory[c][k] <= finished + 1)'
    <3> SUFFICES ASSUME NEW c \in Copies, NEW k \in Conversations, memory[c][k] # Void
                 PROVE  memory[c][k] <= finished' + 1
      BY <1>7
    <3>1. memory[c][k] \in Upto
      BY <1>1 DEF Shapes
    <3> QED
      BY <1>1, <1>3, <1>8, <2>1, <3>1 DEF NothingAhead, Upto
  <2>3. (snapshot # Void /\ snapshot.upto # Void => snapshot.upto <= finished + 1)'
    <3>1. snapshot # Void /\ snapshot.upto # Void => snapshot.upto \in Upto /\ snapshot.upto <= finished + 1
      BY <1>1 DEF NothingAhead, Shapes, Snapshots
    <3>2. h.upto # Void => h.upto \in Upto /\ h.upto <= finished + 1
      BY <1>1, <1>2, <1>5 DEF NothingAhead, h
    <3> QED
      BY <1>3, <1>7, <1>8, <2>1, <3>1, <3>2 DEF Upto
  <2>4. (\A i \in DOMAIN lane : lane[i].upto # Void => lane[i].upto <= finished + 1)'
    <3> SUFFICES ASSUME NEW i \in DOMAIN lane', lane'[i].upto # Void
                 PROVE  lane'[i].upto <= finished' + 1
      OBVIOUS
    <3>1. i + 1 \in DOMAIN lane /\ lane'[i] = lane[i + 1] /\ lane[i + 1] \in Jobs
      BY <1>2
    <3>2. lane[i + 1].upto \in Upto /\ lane[i + 1].upto <= finished + 1
      BY <1>1, <3>1 DEF NothingAhead, Jobs
    <3> QED
      BY <1>3, <1>8, <2>1, <3>1, <3>2 DEF Upto
  <2>5. (turn.read # Void /\ turn.read.upto # Void => turn.read.upto <= finished + 1)'
    <3>1. turn.read # Void /\ turn.read.upto # Void
              => turn.read.upto \in Upto /\ turn.read.upto <= finished + 1
      BY <1>1, <1>4 DEF NothingAhead, Hydrations, Snapshots
    <3> QED
      BY <1>3, <1>4, <1>8, <2>1, <3>1 DEF Upto, SameTurn
  <2> QED
    BY <2>2, <2>3, <2>4, <2>5 DEF NothingAhead
<1>13. RecordKept'
  <2>1. \A c \in Copies : record'.held[c] <= record'.generation
    BY <1>1, <1>5, <1>6, <1>9 DEF RecordKept
  <2>2. Vouched'
    BY <1>5, <1>6, <1>9 DEF Vouched
  <2> QED
    BY <1>6, <1>9, <2>1, <2>2 DEF RecordKept
<1>14. LaneKept'
  <2> SUFFICES ASSUME NEW i \in DOMAIN lane'
               PROVE  /\ (lane[i].writing => i = 1 /\ lane[i].kind # "delete"
                            /\ (lane[i].upto # Void => lane[i].upto >= finished))'
                      /\ (lane[i].kind = "terminal" =>
                            /\ turnRun.phase = "saving" /\ lane[i].conversation = turnRun.conversation
                            /\ (lane[i].writing => lane[i].upto = finished + 1))'
                      /\ (lane[i].kind = "delete" => turnRun.phase = "clearing")'
                      /\ ~(memory'[lane'[i].copy][Active'] # Void /\ memory'[lane'[i].copy][Active'] < finished')
                      /\ (turnRun.phase # "none" => lane[i].copy = turnRun.copy)'
                      /\ (straggler # Void => lane[i].copy = straggler.copy)'
                      /\ (turn.pc = "hydrated" \/ turn.pc \in {"forgetting", "reading", "read"}
                            => lane[i].copy = turn.copy)'
                      /\ (turn.pc = "settling" /\ i > turn.waits => lane[i].copy = turn.copy)'
                      /\ \A j \in DOMAIN lane' :
                           /\ lane'[i].copy = lane'[j].copy
                           /\ lane'[i].kind = lane'[j].kind /\ lane'[i].kind # "progress" => i = j
    BY DEF LaneKept, Lags
  <2>1. i + 1 \in DOMAIN lane /\ lane'[i] = lane[i + 1] /\ i \in Nat /\ lane[i + 1] \in Jobs
    BY <1>2
  <2>2. ~lane'[i].writing
    BY <1>1, <1>2, <2>1 DEF LaneKept
  <2>3. lane'[i].copy = h.copy /\ h.copy \in Copies
    BY <1>1, <1>2, <1>5, <2>1 DEF LaneKept, h
  <2>4. h.kind = "terminal" => lane'[i].kind = "progress"
    BY <1>1, <1>2, <1>3, <2>1 DEF LaneKept, Jobs, h
  <2>5. h.kind = "delete" => lane'[i].kind = "progress"
    BY <1>1, <1>2, <1>3, <2>1 DEF LaneKept, Jobs, h
  <2>6. ASSUME NEW c \in Copies, c = h.copy
        PROVE  ~Lags(c)'
    <3>1. ~Lags(c)
      BY <1>1, <1>2, <2>6 DEF LaneKept, h
    <3>2. memory[c][Active] # Void => memory[c][Active] \in Nat
      BY <1>8, <1>20
    <3> QED
      BY <1>3, <1>7, <1>8, <2>6, <3>1, <3>2 DEF Lags
  <2>7. (turnRun.phase # "none" => lane[i].copy = turnRun.copy)'
    <3>1. h.kind = "delete" => turnRun'.copy = turnRun.copy
      BY <1>1, <1>3 DEF Shapes, Runs
    <3> QED
      BY <1>1, <1>2, <1>3, <2>1, <3>1 DEF LaneKept, NoRun
  <2>8. (turn.pc = "settling" /\ i > turn.waits => lane[i].copy = turn.copy)'
    <3>1. turn.waits \in Nat
      BY <1>4 DEF Hydrations
    <3>2. i > turn'.waits => i + 1 > turn.waits
      BY <1>4, <2>1, <3>1
    <3> QED
      BY <1>1, <1>4, <2>1, <3>2 DEF LaneKept, SameTurn
  <2>9. (turn.pc = "hydrated" \/ turn.pc \in {"forgetting", "reading", "read"}
                            => lane[i].copy = turn.copy)'
    BY <1>1, <1>4, <2>1 DEF LaneKept, SameTurn
  <2>10. (straggler # Void => lane[i].copy = straggler.copy)'
    BY <1>1, <1>7, <2>1 DEF LaneKept
  <2>11. ASSUME NEW j \in DOMAIN lane'
         PROVE  /\ lane'[i].copy = lane'[j].copy
                /\ lane'[i].kind = lane'[j].kind /\ lane'[i].kind # "progress" => i = j
    BY <1>1, <1>2, <2>1 DEF LaneKept
  <2>12. (lane[i].kind = "terminal" =>
                            /\ turnRun.phase = "saving" /\ lane[i].conversation = turnRun.conversation
                            /\ (lane[i].writing => lane[i].upto = finished + 1))'
    BY <1>1, <1>2, <1>3, <2>1, <2>2, <2>4, <2>5 DEF LaneKept
  <2>13. (lane[i].kind = "delete" => turnRun.phase = "clearing")'
    BY <1>1, <1>2, <1>3, <2>1, <2>4, <2>5 DEF LaneKept
  <2>14. ~(memory'[lane'[i].copy][Active'] # Void /\ memory'[lane'[i].copy][Active'] < finished')
    BY <2>3, <2>6 DEF Lags
  <2> QED
    BY <2>2, <2>7, <2>8, <2>9, <2>10, <2>11, <2>12, <2>13, <2>14
<1>15. StragglerServes'
  <2>1. straggler # Void => straggler.copy \in Copies
    BY <1>1 DEF Shapes
  <2>2. CASE h.kind = "terminal"
    <3>1. straggler # Void => ~Lags(straggler.copy)'
      BY <1>1, <1>3, <1>7, <1>8, <2>2 DEF StragglerServes, Lags
    <3>2. turn.pc = "idle"
      BY <1>1, <1>3, <2>2 DEF RunServes
    <3> QED
      BY <1>3, <1>4, <1>7, <2>2, <3>1, <3>2 DEF StragglerServes, SameTurn, NoRun
  <2>3. CASE h.kind # "terminal"
    <3>1. finished' = finished /\ turnRun'.copy = turnRun.copy /\ (turnRun'.phase # "none"
              => turnRun.phase # "none")
      BY <1>1, <1>3, <2>3 DEF Shapes, Runs
    <3>2. straggler # Void => ~Lags(straggler.copy)'
      BY <1>1, <1>3, <1>7, <3>1 DEF StragglerServes, Lags
    <3> QED
      BY <1>1, <1>3, <1>4, <1>7, <3>1, <3>2 DEF StragglerServes, SameTurn
  <2> QED
    BY <2>2, <2>3
<1>16. RunServes'
  <2>1. CASE h.kind = "terminal"
    BY <1>3, <2>1 DEF RunServes, NoRun
  <2>2. CASE h.kind = "delete"
    <3>1. turnRun' = [turnRun EXCEPT !.phase = "running"] /\ turnRun \in Runs /\ turnRun.phase = "clearing"
      BY <1>1, <1>3, <2>2 DEF Shapes
    <3>2. /\ turnRun'.phase = "running" /\ turnRun'.copy = turnRun.copy /\ turnRun'.base = turnRun.base
          /\ turnRun'.conversation = turnRun.conversation /\ turnRun'.complete = turnRun.complete
      BY <3>1 DEF Runs
    <3>3. ~turnRun.complete
      BY <1>1, <3>1 DEF RunServes
    <3> QED
      BY <1>1, <1>3, <1>4, <1>7, <2>2, <3>1, <3>2, <3>3 DEF RunServes, SameTurn, Lags
  <2>3. CASE h.kind = "progress"
    <3>1. turnRun' = turnRun /\ finished' = finished
      BY <1>3, <2>3
    <3>2. turnRun.phase = "clearing" => (snapshot' # Void => snapshot'.conversation # bound)
      BY <1>1, <1>2, <1>7 DEF RunServes, h
    <3>3. turnRun.phase = "clearing" => \A i \in DOMAIN lane' : lane'[i].conversation # bound
      BY <1>1, <1>2 DEF RunServes
    <3> QED
      BY <1>1, <1>3, <1>4, <1>7, <3>1, <3>2, <3>3 DEF RunServes, SameTurn, Lags
  <2> QED
    BY <1>3, <2>1, <2>2, <2>3
<1>17. HydrationKept'
  <2>1. CASE turn.pc = "idle"
    BY <1>4, <2>1 DEF HydrationKept, SameTurn, Hydrating
  <2>2. CASE turn.pc # "idle"
    <3>1. turnRun.phase = "none" /\ finished' = finished
      BY <1>1, <1>3, <2>2 DEF RunServes
    <3>2. turn.generation \in Nat
      BY <1>4 DEF Hydrations
    <3>3. turn'.pc \in {"reading", "read"} => turn'.generation < record'.generation
      BY <1>1, <1>4, <1>6, <1>9, <3>2 DEF HydrationKept, SameTurn
    <3> QED
      BY <1>1, <1>3, <1>4, <1>6, <1>7, <1>9, <3>1, <3>2, <3>3 DEF HydrationKept, SameTurn,
         Hydrating, Lags
  <2> QED
    BY <2>1, <2>2
<1>18. LaggardsKnown'
  <2>1. Vouched'
    BY <1>5, <1>6, <1>9 DEF Vouched
  <2>2. ASSUME NEW c \in Copies, c = h.copy
        PROVE  ~Lags(c)'
    <3>1. ~Lags(c)
      BY <1>1, <1>2, <2>2 DEF LaneKept, h
    <3>2. memory[c][Active] # Void => memory[c][Active] \in Nat
      BY <1>8, <1>20
    <3> QED
      BY <1>3, <1>7, <1>8, <2>2, <3>1, <3>2 DEF Lags
  <2>3. ASSUME NEW c \in Copies, c # h.copy
        PROVE  ~HoldsLatest(c)'
    BY <1>1, <1>6, <1>9, <2>3 DEF RecordKept, HoldsLatest
  <2> QED
    BY <2>1, <2>2, <2>3 DEF LaggardsKnown
<1>19. Shapes'
  BY <1>1, <1>2, <1>3, <1>4, <1>5, <1>6, <1>7 DEF Shapes, Snapshots
<1> QED
  BY <1>10, <1>11, <1>12, <1>13, <1>14, <1>15, <1>16, <1>17, <1>18, <1>19

\* A save that lands leaves the latest checkpoint on disk.
LEMMA SaveLandsKeeps ==
    ASSUME SavedConstants, TurnsInv, SaveLands
    PROVE  TurnsInv'
<1>1. Shapes /\ LaneKept /\ StaleUnread /\ ReplacedLeave /\ NothingAhead /\ RunServes
    BY DEF TurnsInv
<1>2. /\ lane # <<>> /\ Head(lane) = lane[1] /\ lane[1] \in Jobs /\ 1 \in DOMAIN lane
      /\ lane \in Seq(Jobs)
      /\ lane[1].kind # "delete" /\ lane[1].writing
      /\ \A i \in DOMAIN lane : i = 1 \/ (i - 1 \in DOMAIN lane' /\ lane'[i - 1] = lane[i])
      /\ \A i \in DOMAIN lane' : i + 1 \in DOMAIN lane /\ lane'[i] = lane[i + 1] /\ i \in Nat \ {0}
    BY <1>1, LaneShrinks DEF SaveLands, HeadEnds, Shapes, LaneKept
<1>3. Ended(FALSE)
    BY <1>2 DEF SaveLands, Ended
<1>4. /\ lane[1].kind = "terminal" => finished' = finished + 1
      /\ lane[1].kind # "terminal" => finished' = finished
    BY <1>2, <1>3, EndedIs DEF Jobs
<1>5. finished \in Nat /\ Void \notin Upto /\ Void \notin Int
    BY Plain DEF TurnsInv
<1>6. snapshot' = [conversation |-> lane[1].conversation, upto |-> lane[1].upto] /\ dead' = dead /\ bound' = bound
    BY <1>2 DEF SaveLands
<1>7. StaleUnread'
  <2>1. lane[1].upto # Void => lane[1].upto \in Upto /\ lane[1].upto >= finished
    BY <1>1, <1>2 DEF LaneKept, Jobs
  <2>2. lane[1].kind = "terminal" => lane[1].upto = finished + 1
    BY <1>1, <1>2 DEF LaneKept
  <2> QED
    BY <1>4, <1>5, <1>6, <2>1, <2>2 DEF StaleUnread, Upto
<1>8. ReplacedLeave'
  <2>1. \A i \in DOMAIN lane' : ~lane'[i].writing
    BY <1>1, <1>2 DEF LaneKept
  <2>2. SupersededLeavesDisk'
    <3> SUFFICES ASSUME lane[1].conversation \in dead
                 PROVE  \E i \in DOMAIN lane' : lane'[i].kind = "delete"
                                              /\ lane'[i].conversation = lane[1].conversation
      BY <1>6 DEF SupersededLeavesDisk
    <3>1. PICK i \in DOMAIN lane : lane[i].kind = "delete" /\ lane[i].conversation = lane[1].conversation
      BY <1>1, <1>2 DEF ReplacedLeave
    <3>2. i - 1 \in DOMAIN lane' /\ lane'[i - 1] = lane[i]
      BY <1>2, <3>1
    <3> QED
      BY <3>1, <3>2
  <2>3. lane' \in Seq(Jobs)
    BY <1>3, EndedKeeps DEF Shapes
  <2>4. lane' # <<>> => 1 \in DOMAIN lane'
    BY <2>3
  <2> QED
    BY <1>1, <1>6, <2>1, <2>2, <2>4 DEF ReplacedLeave, Active
<1> QED
    BY <1>3, <1>7, <1>8, EndedKeeps DEF TurnsInv

\* A save that fails and leaves an older snapshot behind says so.
LEMMA SaveFailsKeeps ==
    ASSUME SavedConstants, TurnsInv, NEW b \in BOOLEAN, SaveFails(b)
    PROVE  TurnsInv'
<1>1. Shapes /\ LaneKept /\ StaleUnread /\ ReplacedLeave /\ NothingAhead /\ RunServes /\ HydrationKept
    BY DEF TurnsInv
<1>2. /\ lane # <<>> /\ Head(lane) = lane[1] /\ lane[1] \in Jobs /\ 1 \in DOMAIN lane
      /\ lane \in Seq(Jobs)
      /\ lane[1].kind # "delete" /\ lane[1].writing
      /\ \A i \in DOMAIN lane : i = 1 \/ (i - 1 \in DOMAIN lane' /\ lane'[i - 1] = lane[i])
      /\ \A i \in DOMAIN lane' : i + 1 \in DOMAIN lane /\ lane'[i] = lane[i + 1] /\ i \in Nat \ {0}
    BY <1>1, LaneShrinks DEF SaveFails, HeadEnds, Shapes, LaneKept
<1>3. Ended(TRUE)
    BY <1>2 DEF SaveFails, Ended
<1>4. /\ lane[1].kind = "terminal" => finished' = finished + 1 /\ turnRun.phase = "saving"
      /\ lane[1].kind # "terminal" => finished' = finished
      /\ lane[1].copy \in Copies
    BY <1>2, <1>3, EndedIs DEF Jobs
<1>5. finished \in Nat /\ Void \notin Upto /\ Void \notin Int
    BY Plain DEF TurnsInv
<1>6. /\ snapshot' = (IF b THEN Void ELSE snapshot) /\ spoilt' = (~b /\ snapshot # Void) /\ dead' = dead
      /\ bound' = bound /\ snapshot' \in {Void, snapshot}
    BY DEF SaveFails
<1>7. StaleUnread'
  <2> SUFFICES ASSUME (snapshot # Void /\ snapshot.upto # Void /\ snapshot.upto < finished)'
               PROVE  (\/ record.unsaved /\ turn.pc \notin {"forgetting", "reading", "read"}
                       \/ bound \notin {Void, Default} /\ snapshot.conversation # bound)'
    BY <1>6 DEF StaleUnread
  <2>1. record'.unsaved
    BY <1>1, <1>3, <1>4, WrittenIs DEF Ended, Shapes
  <2>2. turn'.pc = turn.pc
    BY <1>1, <1>3, HeadEndsIs DEF Ended, SameTurn, HydrationKept
  <2>3. CASE lane[1].kind = "terminal"
    BY <1>1, <1>4, <2>1, <2>2, <2>3 DEF RunServes
  <2>4. CASE lane[1].kind # "terminal"
    BY <1>1, <1>4, <1>6, <2>1, <2>2, <2>4 DEF StaleUnread
  <2> QED
    BY <2>3, <2>4
<1>8. ReplacedLeave'
  <2>1. \A i \in DOMAIN lane' : ~lane'[i].writing
    BY <1>1, <1>2 DEF LaneKept
  <2>2. SupersededLeavesDisk'
    <3> SUFFICES ASSUME snapshot' # Void, snapshot'.conversation \in dead'
                 PROVE  \E i \in DOMAIN lane' : lane'[i].kind = "delete"
                                              /\ lane'[i].conversation = snapshot'.conversation
      BY DEF SupersededLeavesDisk
    <3>1. snapshot' = snapshot
      BY <1>6
    <3>2. PICK i \in DOMAIN lane : lane[i].kind = "delete" /\ lane[i].conversation = snapshot.conversation
      BY <1>1, <1>6, <3>1 DEF ReplacedLeave, SupersededLeavesDisk
    <3>3. i - 1 \in DOMAIN lane' /\ lane'[i - 1] = lane[i]
      BY <1>2, <3>2
    <3> QED
      BY <3>1, <3>2, <3>3
  <2>3. lane' \in Seq(Jobs)
    BY <1>3, EndedKeeps DEF Shapes
  <2>4. lane' # <<>> => 1 \in DOMAIN lane'
    BY <2>3
  <2> QED
    BY <1>1, <1>6, <2>1, <2>2, <2>4 DEF ReplacedLeave, Active
<1> QED
    BY <1>3, <1>7, <1>8, EndedKeeps DEF TurnsInv

\* A reset's delete ends: what it was to delete is gone, or stays with its
\* conversation out of the account.
LEMMA DeleteEndsKeeps ==
    ASSUME SavedConstants, TurnsInv, DeleteLands \/ DeleteFails
    PROVE  TurnsInv'
<1>1. Shapes /\ LaneKept /\ StaleUnread /\ ReplacedLeave /\ RunServes /\ HydrationKept
    BY DEF TurnsInv
<1>2. /\ lane # <<>> /\ Head(lane) = lane[1] /\ lane[1] \in Jobs /\ 1 \in DOMAIN lane
      /\ lane \in Seq(Jobs)
      /\ lane[1].kind = "delete"
      /\ \A i \in DOMAIN lane : i = 1 \/ (i - 1 \in DOMAIN lane' /\ lane'[i - 1] = lane[i])
      /\ \A i \in DOMAIN lane' : i + 1 \in DOMAIN lane /\ lane'[i] = lane[i + 1] /\ i \in Nat \ {0}
  <2>1. lane # <<>> /\ Head(lane).kind = "delete" /\ lane' = Tail(lane)
    BY DEF DeleteLands, DeleteFails, HeadEnds
  <2> QED
    BY <1>1, <2>1, LaneShrinks DEF Shapes
<1>3. PICK f \in BOOLEAN : Ended(f)
    BY <1>1, <1>2 DEF DeleteLands, DeleteFails, Ended, Shapes
<1>4. finished' = finished /\ turnRun.phase = "clearing"
    BY <1>2, <1>3, EndedIs
<1>5. /\ snapshot' \in {Void, snapshot} /\ spoilt' = spoilt /\ bound' = bound /\ dead' \subseteq dead
      /\ snapshot' # Void /\ snapshot'.conversation \in dead'
            => snapshot'.conversation # lane[1].conversation
    BY <1>2 DEF DeleteLands, DeleteFails
<1>6. StaleUnread'
    BY <1>1, <1>4, <1>5 DEF StaleUnread, RunServes
<1>7. ReplacedLeave'
  <2>1. \A i \in DOMAIN lane' : ~lane'[i].writing
    BY <1>1, <1>2 DEF LaneKept
  <2>2. SupersededLeavesDisk'
    BY <1>1, <1>2, <1>5 DEF ReplacedLeave, SupersededLeavesDisk
  <2>3. lane' \in Seq(Jobs)
    BY <1>3, EndedKeeps DEF Shapes
  <2>4. lane' # <<>> => 1 \in DOMAIN lane'
    BY <2>3
  <2> QED
    BY <1>1, <1>5, <2>1, <2>2, <2>4 DEF ReplacedLeave, Active
<1> QED
    BY <1>3, <1>6, <1>7, EndedKeeps DEF TurnsInv

\* A save that begins carries what its copy holds of the session's conversation;
\* one of another conversation is dropped.
LEMMA SaveBeginsKeeps ==
    ASSUME SavedConstants, TurnsInv, SaveBegins
    PROVE  TurnsInv'
<1>1. /\ Shapes /\ NumberedSoFar /\ DefaultOnly /\ NothingAhead /\ RecordKept /\ LaneKept /\ StragglerServes
      /\ RunServes /\ HydrationKept /\ StaleUnread /\ LaggardsKnown /\ ReplacedLeave /\ requests["helper"] = Idle
    BY DEF TurnsInv, HydrationKept
<1>2. /\ Void \notin Copies /\ Void \notin Conversations /\ Void \notin Upto /\ Void \notin Int
      /\ Void \notin Snapshots /\ Active \in Conversations /\ Active <= minted /\ minted \in Nat
      /\ finished \in Nat /\ MaxTurns \in Nat /\ MaxConversations \in Nat
    BY <1>1, Plain
<1>3. /\ lane # <<>> /\ Head(lane) = lane[1] /\ lane[1] \in Jobs /\ 1 \in DOMAIN lane /\ lane \in Seq(Jobs)
      /\ Len(lane) \in Nat \ {0} /\ DOMAIN lane = 1..Len(lane)
      /\ lane[1].kind # "delete" /\ ~lane[1].writing
  <2>1. lane \in Seq(Jobs) /\ lane # <<>>
    BY <1>1 DEF SaveBegins, Shapes
  <2>2. Head(lane) = lane[1] /\ 1 \in DOMAIN lane /\ lane[1] \in Jobs /\ Len(lane) \in Nat \ {0}
        /\ DOMAIN lane = 1..Len(lane)
    BY <2>1
  <2> QED
    BY <2>1, <2>2 DEF SaveBegins
<1>4. /\ lane[1].copy \in Copies /\ lane[1].conversation \in Conversations
      /\ memory \in [Copies -> [Conversations -> Upto \union {Void}]]
    BY <1>1, <1>3 DEF Jobs, Shapes
<1>5. UNCHANGED <<bound, record, snapshot, memory, straggler, minted, dead, spoilt>> /\ Active' = Active
    BY DEF SaveBegins, Active
<1>6. CASE lane[1].conversation = Active
  <2> DEFINE x == memory[lane[1].copy][Active]
             job == [lane[1] EXCEPT !.writing = TRUE, !.upto = x]
  <2>1. x \in Upto \union {Void}
    BY <1>2, <1>4
  <2>2. /\ job \in Jobs /\ job.kind = lane[1].kind /\ job.copy = lane[1].copy
        /\ job.conversation = lane[1].conversation /\ job.writing /\ job.upto = x
    BY <1>3, <2>1 DEF Jobs
  <2>3. UNCHANGED <<requests, turnRun, finished>> /\ turn' = turn
    BY <1>3, <1>6 DEF SaveBegins, turn
  <2>4. lane' = [lane EXCEPT ![1] = job]
    BY Zenon, <1>3, <1>6 DEF SaveBegins
  <2> HIDE DEF job
  <2>5. /\ lane' \in Seq(Jobs) /\ DOMAIN lane' = DOMAIN lane /\ lane'[1] = job /\ Len(lane') = Len(lane)
        /\ \A i \in DOMAIN lane : i # 1 => lane'[i] = lane[i]
    BY <1>3, <2>2, <2>4
  <2>6. /\ \A i \in DOMAIN lane : lane'[i].kind = lane[i].kind /\ lane'[i].copy = lane[i].copy
                                  /\ lane'[i].conversation = lane[i].conversation
    BY <2>2, <2>5
  <2>7. x # Void => x \in Nat /\ finished <= x /\ x <= finished + 1
    <3>1. x # Void => x \in Nat
      BY <1>2, <2>1 DEF Upto
    <3>2. ~Lags(lane[1].copy)
      BY <1>1, <1>3 DEF LaneKept
    <3>3. x # Void => x <= finished + 1
      BY <1>1, <1>2, <1>4 DEF NothingAhead
    <3> QED
      BY <1>2, <3>1, <3>2, <3>3 DEF Lags
  <2>8. lane[1].kind = "terminal" => x = finished + 1
    BY <1>1, <1>3, <1>6 DEF LaneKept, RunServes
  <2> HIDE DEF x
  <2>9. NumberedSoFar' /\ DefaultOnly' /\ Shapes'
    BY <1>1, <1>5, <2>3, <2>5, <2>6 DEF NumberedSoFar, DefaultOnly, Shapes
  <2>10. NothingAhead'
    BY <1>1, <1>5, <2>2, <2>3, <2>5, <2>7 DEF NothingAhead
  <2>11. RecordKept' /\ StragglerServes' /\ RunServes' /\ HydrationKept' /\ StaleUnread' /\ LaggardsKnown'
    <3>1. \A c \in Copies : Lags(c)' <=> Lags(c)
      BY <1>5, <2>3 DEF Lags
    <3>2. \A c \in Copies : HoldsLatest(c)' <=> HoldsLatest(c)
      BY <1>5 DEF HoldsLatest
    <3>3. lane' # <<>> /\ (Vouched' <=> Vouched)
      BY <1>3, <1>5, <2>5 DEF Vouched
    <3>4. RecordKept'
      BY <1>1, <1>3, <1>5, <3>3 DEF RecordKept
    <3>5. StragglerServes'
      BY <1>1, <1>5, <2>3, <3>1 DEF StragglerServes, Shapes
    <3>6. RunServes'
      BY <1>1, <1>5, <2>3, <2>5, <2>6, <3>1 DEF RunServes
    <3>7. HydrationKept'
      BY <1>1, <1>5, <2>3, <3>1 DEF HydrationKept, Hydrating
    <3>8. StaleUnread' /\ LaggardsKnown'
      BY <1>1, <1>3, <1>5, <2>3, <3>1, <3>2, <3>3 DEF StaleUnread, LaggardsKnown
    <3> QED
      BY <3>4, <3>5, <3>6, <3>7, <3>8
  <2>12. LaneKept'
    <3>1. \A i \in DOMAIN lane : ~(memory'[lane'[i].copy][Active'] # Void /\ memory'[lane'[i].copy][Active'] < finished')
      BY <1>1, <1>5, <2>3, <2>6 DEF LaneKept, Lags
    <3>2. \A i \in DOMAIN lane' :
             /\ lane'[i].writing => i = 1 /\ lane'[i].kind # "delete" /\ (lane'[i].upto # Void
                   => lane'[i].upto >= finished)
             /\ lane'[i].kind = "terminal" =>
                  /\ turnRun.phase = "saving" /\ lane'[i].conversation = turnRun.conversation
                  /\ lane'[i].writing => lane'[i].upto = finished + 1
             /\ lane'[i].kind = "delete" => turnRun.phase = "clearing"
      BY <1>1, <1>2, <1>3, <2>2, <2>5, <2>6, <2>7, <2>8 DEF LaneKept
    <3> QED
      BY <1>1, <1>5, <2>3, <2>5, <2>6, <3>1, <3>2 DEF LaneKept, Lags
  <2>13. ReplacedLeave'
    <3>1. Active' \notin dead' /\ lane'[1].conversation \notin dead'
      BY <1>1, <1>3, <1>5, <1>6, <2>6 DEF ReplacedLeave
    <3>2. SupersededLeavesDisk'
      BY <1>1, <1>5, <2>5, <2>6 DEF ReplacedLeave, SupersededLeavesDisk
    <3> QED
      BY <3>1, <3>2 DEF ReplacedLeave
  <2> QED
    BY <2>9, <2>10, <2>11, <2>12, <2>13 DEF TurnsInv
<1>7. CASE lane[1].conversation # Active
  <2>1. HeadEnds
    BY <1>3, <1>7 DEF SaveBegins
  <2>2. /\ lane' \in Seq(Jobs) /\ DOMAIN lane' = 1..(Len(lane) - 1)
        /\ \A i \in DOMAIN lane' : i + 1 \in DOMAIN lane /\ lane'[i] = lane[i + 1] /\ i \in Nat \ {0}
        /\ \A i \in DOMAIN lane : i = 1 \/ (i - 1 \in DOMAIN lane' /\ lane'[i - 1] = lane[i])
    BY <1>3, <2>1, LaneShrinks DEF HeadEnds
  <2>3. lane[1].kind = "progress"
    BY <1>1, <1>3, <1>7 DEF LaneKept, RunServes, Jobs
  <2>4. turnRun' = turnRun /\ finished' = finished
    BY <1>3, <2>1, <2>3 DEF HeadEnds
  <2>5. /\ requests' \in [Requests -> Hydrations] /\ requests'["helper"] = Idle /\ SameTurn
        /\ turn'.waits = IF turn.waits > 0 THEN turn.waits - 1 ELSE 0
        /\ turn \in Hydrations /\ turn.waits \in Nat
    BY <1>1, <1>3, <2>1, HeadEndsIs DEF Hydrations
  <2>6. bound \notin {Void, Default}
    BY <1>1, <1>3, <1>7 DEF DefaultOnly, Active
  <2>7. \A i \in DOMAIN lane' : ~lane'[i].writing
    BY <1>1, <1>3, <2>2 DEF LaneKept
  <2>8. \A c \in Copies : (Lags(c)' <=> Lags(c)) /\ (HoldsLatest(c)' <=> HoldsLatest(c))
    BY <1>5, <2>4 DEF Lags, HoldsLatest
  <2>9. Shapes'
    BY <1>1, <1>5, <2>2, <2>4, <2>5 DEF Shapes
  <2>10. NumberedSoFar' /\ DefaultOnly'
    BY <1>1, <1>5, <2>2, <2>5 DEF NumberedSoFar, DefaultOnly, SameTurn
  <2>11. NothingAhead'
    BY <1>1, <1>5, <2>2, <2>4, <2>5 DEF NothingAhead, SameTurn
  <2>12. Vouched' <=> Vouched
    BY <1>5 DEF Vouched
  <2>13. RecordKept'
    BY <1>1, <1>3, <1>5, <2>12 DEF RecordKept
  <2>14. LaneKept'
    <3>1. \A i \in DOMAIN lane' : turn'.pc = "settling" /\ i > turn'.waits => lane'[i].copy = turn'.copy
      <4> SUFFICES ASSUME NEW i \in DOMAIN lane', turn'.pc = "settling", i > turn'.waits
                   PROVE  lane'[i].copy = turn'.copy
        OBVIOUS
      <4>1. i + 1 > turn.waits
        BY <2>2, <2>5
      <4> QED
        BY <1>1, <2>2, <2>5, <4>1 DEF LaneKept, SameTurn
    <3>2. \A i \in DOMAIN lane' : ~(memory'[lane'[i].copy][Active'] # Void /\ memory'[lane'[i].copy][Active'] < finished')
      BY <1>1, <1>5, <2>2, <2>4 DEF LaneKept, Lags
    <3>3. \A i \in DOMAIN lane' :
             /\ lane'[i].kind = "terminal" =>
                  /\ turnRun.phase = "saving" /\ lane'[i].conversation = turnRun.conversation
                  /\ lane'[i].writing => lane'[i].upto = finished + 1
             /\ lane'[i].kind = "delete" => turnRun.phase = "clearing"
             /\ turnRun.phase # "none" => lane'[i].copy = turnRun.copy
             /\ straggler # Void => lane'[i].copy = straggler.copy
             /\ turn'.pc = "hydrated" \/ turn'.pc \in {"forgetting", "reading", "read"}
                   => lane'[i].copy = turn'.copy
      BY <1>1, <2>2, <2>5 DEF LaneKept, SameTurn
    <3>4. \A i, j \in DOMAIN lane' :
             /\ lane'[i].copy = lane'[j].copy
             /\ lane'[i].kind = lane'[j].kind /\ lane'[i].kind # "progress" => i = j
      <4> SUFFICES ASSUME NEW i \in DOMAIN lane', NEW j \in DOMAIN lane'
                   PROVE  /\ lane'[i].copy = lane'[j].copy
                          /\ lane'[i].kind = lane'[j].kind /\ lane'[i].kind # "progress" => i = j
        OBVIOUS
      <4> QED
        BY <1>1, <2>2 DEF LaneKept
    <3> QED
      BY <1>5, <2>4, <2>7, <3>1, <3>2, <3>3, <3>4 DEF LaneKept, Lags
  <2>15. StragglerServes'
    BY <1>1, <1>5, <2>4, <2>5, <2>8 DEF StragglerServes, SameTurn, Shapes
  <2>16. RunServes'
    BY <1>1, <1>5, <2>2, <2>4, <2>5, <2>8 DEF RunServes, SameTurn
  <2>17. HydrationKept'
    BY <1>1, <1>5, <2>4, <2>5, <2>8 DEF HydrationKept, Hydrating, SameTurn
  <2>18. StaleUnread' /\ LaggardsKnown'
    BY <1>1, <1>5, <2>4, <2>5, <2>6, <2>8, <2>12 DEF StaleUnread, LaggardsKnown, SameTurn
  <2>19. ReplacedLeave'
    <3>1. SupersededLeavesDisk'
      <4> SUFFICES ASSUME snapshot # Void, snapshot.conversation \in dead
                   PROVE  \E i \in DOMAIN lane' : lane'[i].kind = "delete"
                                                /\ lane'[i].conversation = snapshot.conversation
        BY <1>5 DEF SupersededLeavesDisk
      <4>1. PICK i \in DOMAIN lane : lane[i].kind = "delete" /\ lane[i].conversation = snapshot.conversation
        BY <1>1 DEF ReplacedLeave, SupersededLeavesDisk
      <4> QED
        BY <2>2, <2>3, <4>1
    <3>2. lane' # <<>> => 1 \in DOMAIN lane'
      BY <2>2
    <3> QED
      BY <1>1, <1>5, <2>7, <3>1, <3>2 DEF ReplacedLeave
  <2> QED
    BY <2>9, <2>10, <2>11, <2>13, <2>14, <2>15, <2>16, <2>17, <2>18, <2>19 DEF TurnsInv
<1> QED
    BY <1>6, <1>7

(***************************************************************************)
(* What the Run queues                                                     *)
(***************************************************************************)

\* A save of the present Run, or of the one that was stopped, in the lane.
Queues(kind, c, k) ==
    /\ Enqueue(Job(kind, c, k))
    /\ \/ turnRun.phase = "running" /\ c = turnRun.copy /\ k = turnRun.conversation /\ straggler' = straggler
       \/ kind = "progress" /\ straggler # Void /\ c = straggler.copy /\ k = straggler.conversation /\ straggler' = Void
    /\ \/ kind = "progress" /\ turnRun' = turnRun
       \/ kind = "terminal" /\ turnRun.phase = "running" /\ turnRun.complete /\ turnRun' = [turnRun EXCEPT !.phase = "saving"]
    /\ UNCHANGED <<bound, snapshot, memory, requests, minted, finished, dead, spoilt>>

\* A record made anew: nobody holds its generation yet, and it stays so for
\* copies that lag.
LEMMA OpenedKeeps ==
    ASSUME Shapes, RecordKept, LaggardsKnown
    PROVE  /\ Opened \in Records /\ Opened.present /\ Opened.held = record.held /\ Opened.unsaved = record.unsaved
           /\ Opened.generation \in Nat \ {0} /\ record.generation <= Opened.generation
           /\ record.present => Opened.generation = record.generation
           /\ \A c \in Copies : Opened.held[c] \in Nat /\ Opened.held[c] <= Opened.generation
           /\ \A c \in Copies : Lags(c) => Opened.held[c] # Opened.generation
           /\ Vouched => record.present
           /\ ~record.present => \A c \in Copies : Opened.held[c] = 0
           /\ (\E c \in Copies : Opened.held[c] # 0) => Vouched
           /\ Opened.unsaved => Vouched
<1>1. record \in Records
    BY DEF Shapes
<1>2. /\ Opened \in Records /\ Opened.present
      /\ Opened.generation = IF record.present THEN record.generation ELSE record.generation + 1
      /\ Opened.unsaved = record.unsaved /\ Opened.held = record.held
    BY <1>1, OpenedIs
<1>3. record.generation \in Nat /\ record.held \in [Copies -> Nat]
    BY <1>1 DEF Records
<1>4. Opened.generation \in Nat \ {0} /\ record.generation <= Opened.generation
    BY <1>2, <1>3 DEF RecordKept
<1>5. \A c \in Copies : Lags(c) => Opened.held[c] # Opened.generation
    BY <1>2, <1>3, <1>4 DEF RecordKept, LaggardsKnown, HoldsLatest
<1> QED
    BY <1>2, <1>3, <1>4, <1>5 DEF RecordKept, Vouched

\* A job in the lane.
LEMMA QueuesKeeps ==
    ASSUME SavedConstants, TurnsInv, NEW kind \in {"progress", "terminal"}, NEW c, NEW k, Queues(kind, c, k)
    PROVE  TurnsInv'
<1>1. /\ Shapes /\ NumberedSoFar /\ DefaultOnly /\ NothingAhead /\ RecordKept /\ LaneKept /\ StragglerServes
      /\ RunServes /\ HydrationKept /\ StaleUnread /\ LaggardsKnown /\ ReplacedLeave
    BY DEF TurnsInv
<1>2. /\ Void \notin Copies /\ Void \notin Conversations /\ Void \notin Upto /\ Void \notin Int
      /\ Void \notin Snapshots /\ Active \in Conversations /\ Active <= minted /\ minted \in Nat
      /\ finished \in Nat /\ MaxTurns \in Nat /\ MaxConversations \in Nat
    BY <1>1, Plain
<1>3. UNCHANGED <<bound, snapshot, memory, requests, minted, finished, dead,
                  spoilt>> /\ turn' = turn /\ Active' = Active
    BY DEF Queues, turn, Active
<1>4. /\ c \in Copies /\ k \in Conversations /\ k <= minted /\ ~Lags(c)
      /\ bound \in {Void, Default} => k = Default
      /\ \A i \in DOMAIN lane : lane[i].copy = c
      /\ turn.pc # "idle" => turn.copy = c
      /\ turnRun.phase # "none" => turnRun.copy = c
      /\ straggler # Void => straggler.copy = c
      /\ turnRun.phase = "clearing" => k # bound
  <2>1. CASE turnRun.phase = "running" /\ c = turnRun.copy /\ k = turnRun.conversation
    BY <1>1, <1>2, <2>1 DEF RunServes, LaneKept, StragglerServes, Active
  <2>2. CASE straggler # Void /\ c = straggler.copy /\ k = straggler.conversation
    <3>1. c \in Copies /\ k \in Conversations
      BY <1>1, <2>2 DEF Shapes
    <3> QED
      BY <1>1, <2>2, <3>1 DEF RunServes, LaneKept, StragglerServes, DefaultOnly, NumberedSoFar
  <2> QED
    BY <2>1, <2>2 DEF Queues
<1>5. straggler' \in {Void, straggler} /\ lane' # <<>>
  <2>1. straggler' \in {Void, straggler}
    BY DEF Queues
  <2>2. lane \in Seq(Jobs) /\ lane' = Append(lane, Job(kind, c, k))
    BY <1>1 DEF Queues, Enqueue, Shapes
  <2>3. lane' # <<>>
    BY <2>2
  <2> QED
    BY <2>1, <2>3
<1>6. /\ turnRun' \in Runs /\ turnRun'.copy = turnRun.copy /\ turnRun'.base = turnRun.base
      /\ turnRun'.conversation = turnRun.conversation /\ turnRun'.complete = turnRun.complete
      /\ turnRun'.phase = turnRun.phase \/ (turnRun.phase = "running" /\ turnRun'.phase = "saving")
      /\ turnRun'.phase = "saving" /\ turnRun.phase = "running" => turnRun.complete /\ kind = "terminal"
      /\ kind = "terminal" => turnRun'.phase = "saving" /\ turnRun.phase = "running" /\ k = turnRun.conversation
  <2>1. turnRun \in Runs
    BY <1>1 DEF Shapes
  <2>2. CASE kind = "progress"
    BY <2>1, <2>2 DEF Queues
  <2>3. CASE kind = "terminal"
    <3>1. turnRun.phase = "running" /\ turnRun.complete /\ turnRun' = [turnRun EXCEPT !.phase = "saving"]
          /\ k = turnRun.conversation
      BY <2>3 DEF Queues
    <3>2. turnRun' \in Runs /\ turnRun'.phase = "saving" /\ turnRun'.copy = turnRun.copy /\ turnRun'.base = turnRun.base
          /\ turnRun'.conversation = turnRun.conversation /\ turnRun'.complete = turnRun.complete
      BY <2>1, <3>1 DEF Runs
    <3> QED
      BY <2>3, <3>1, <3>2
  <2> QED
    BY <2>2, <2>3
<1>7. Job(kind, c, k) \in Jobs
    BY <1>4 DEF Job, Jobs
<1>8. lane' = Append(lane, Job(kind, c, k)) /\ record' = Opened /\ lane \in Seq(Jobs)
    BY <1>1 DEF Queues, Enqueue, Shapes
<1> DEFINE n == Len(lane) + 1
<1>9. /\ lane' \in Seq(Jobs) /\ DOMAIN lane = 1..Len(lane) /\ DOMAIN lane' = 1..n /\ Len(lane) \in Nat
      /\ \A i \in DOMAIN lane : i \in DOMAIN lane' /\ lane'[i] = lane[i]
      /\ lane'[n] = Job(kind, c, k)
      /\ \A i \in DOMAIN lane' : i \in DOMAIN lane \/ i = n
    BY <1>7, <1>8, LaneGrows
<1>10. /\ lane'[n].kind = kind /\ lane'[n].copy = c /\ lane'[n].conversation = k /\ ~lane'[n].writing
       /\ lane'[n].upto = Void /\ n \notin DOMAIN lane
    BY <1>9 DEF Job
<1> HIDE DEF n
<1>11. \A o \in Copies : Lags(o)' <=> Lags(o)
    BY <1>3 DEF Lags
<1>12. Shapes'
    BY <1>1, <1>3, <1>5, <1>6, <1>8, <1>9, OpenedKeeps DEF Shapes
<1>13. NumberedSoFar' /\ DefaultOnly'
    BY <1>1, <1>3, <1>4, <1>5, <1>9, <1>10 DEF NumberedSoFar, DefaultOnly
<1>14. NothingAhead'
    BY <1>1, <1>3, <1>9, <1>10 DEF NothingAhead
<1>15. RecordKept' /\ (Vouched => Vouched') /\ (\A o \in Copies : Lags(o)' => ~HoldsLatest(o)')
    BY <1>1, <1>8, <1>11, OpenedKeeps DEF RecordKept, Vouched, HoldsLatest
<1>16. LaneKept'
  <2>1. \A i \in DOMAIN lane' : ~(memory'[lane'[i].copy][Active'] # Void /\ memory'[lane'[i].copy][Active'] < finished')
    BY <1>3, <1>4, <1>9, <1>10 DEF Lags
  <2>2. \A i \in DOMAIN lane' : lane'[i].copy = c
    BY <1>4, <1>9, <1>10
  <2>3. \A i \in DOMAIN lane : lane[i].kind = "terminal" => kind # "terminal"
    BY <1>1, <1>6 DEF LaneKept
  <2>4. \A i \in DOMAIN lane' :
             /\ lane'[i].writing => i = 1 /\ lane'[i].kind # "delete" /\ (lane'[i].upto # Void
                   => lane'[i].upto >= finished)
             /\ lane'[i].kind = "terminal" =>
                  /\ turnRun'.phase = "saving" /\ lane'[i].conversation = turnRun'.conversation
                  /\ lane'[i].writing => lane'[i].upto = finished + 1
             /\ lane'[i].kind = "delete" => turnRun'.phase = "clearing"
    BY <1>1, <1>6, <1>9, <1>10 DEF LaneKept
  <2>5. \A i, j \in DOMAIN lane' : lane'[i].kind = lane'[j].kind /\ lane'[i].kind # "progress" => i = j
    BY <1>1, <1>9, <1>10, <2>3 DEF LaneKept
  <2> QED
    BY <1>3, <1>4, <1>5, <1>6, <2>1, <2>2, <2>4, <2>5 DEF LaneKept, Lags
<1>17. StragglerServes'
    BY <1>1, <1>3, <1>4, <1>5, <1>6, <1>11 DEF StragglerServes, Shapes
<1>18. RunServes'
    BY <1>1, <1>3, <1>4, <1>5, <1>6, <1>9, <1>10, <1>11 DEF RunServes
<1>19. HydrationKept'
  <2>1. turn.pc \in {"reading", "read"} => record'.present /\ record'.generation = record.generation
    BY <1>1, <1>8, OpenedKeeps DEF HydrationKept
  <2> QED
    BY <1>1, <1>3, <1>11, <2>1 DEF HydrationKept, Hydrating
<1>20. StaleUnread'
    BY <1>1, <1>3, <1>8, OpenedKeeps DEF StaleUnread
<1>21. LaggardsKnown'
  <2> SUFFICES ASSUME NEW o \in Copies, Lags(o)'
               PROVE  /\ ~HoldsLatest(o)'
                      /\ (bound # Void \/ turn.pc = "hydrated" \/ (turn.pc # "idle" /\ turn.bound # Void) =>
                            Vouched \/ (bound \in {Void, Default} /\ (straggler # Void \/ lane # <<>>)))'
    BY DEF LaggardsKnown
  <2>1. Lags(o)
    BY <1>11
  <2>2. bound # Void \/ turn.pc = "hydrated" \/ (turn.pc # "idle" /\ turn.bound # Void) =>
          Vouched \/ bound \in {Void, Default}
    BY <1>1, <2>1 DEF LaggardsKnown
  <2> QED
    BY <1>3, <1>5, <1>15, <2>2
<1>22. ReplacedLeave'
  <2>1. SupersededLeavesDisk'
    BY <1>1, <1>3, <1>9 DEF ReplacedLeave, SupersededLeavesDisk
  <2>2. lane'[1].writing => lane # <<>> /\ 1 \in DOMAIN lane /\ lane'[1] = lane[1]
    BY <1>8, <1>9, <1>10
  <2> QED
    BY <1>1, <1>3, <1>9, <2>1, <2>2 DEF ReplacedLeave
<1> QED
    BY <1>12, <1>13, <1>14, <1>15, <1>16, <1>17, <1>18, <1>19, <1>20, <1>21, <1>22 DEF TurnsInv

\* A save of a Run in progress, a stopped Run's last save, and a Run's terminal save.
LEMMA RunQueuesKeeps ==
    ASSUME SavedConstants, TurnsInv, SaveInProgress \/ LateSave \/ RunEnds
    PROVE  TurnsInv'
<1>1. CASE SaveInProgress
  <2>1. Queues("progress", turnRun.copy, turnRun.conversation)
    BY <1>1 DEF SaveInProgress, Queues
  <2> QED
    BY <2>1, QueuesKeeps
<1>2. CASE LateSave
  <2>1. Queues("progress", straggler.copy, straggler.conversation)
    BY <1>2 DEF LateSave, Queues
  <2> QED
    BY <2>1, QueuesKeeps
<1>3. CASE RunEnds
  <2>1. Queues("terminal", turnRun.copy, turnRun.conversation)
    BY <1>3 DEF RunEnds, Queues
  <2> QED
    BY <2>1, QueuesKeeps
<1> QED
    BY <1>1, <1>2, <1>3

(***************************************************************************)
(* The turn                                                                *)
(***************************************************************************)

\* A Run that resumes goes on from what its copy holds, which lacks nothing.
LEMMA StartRunKeeps ==
    ASSUME SavedConstants, TurnsInv, StartRun
    PROVE  TurnsInv'
<1>1. /\ Shapes /\ NumberedSoFar /\ DefaultOnly /\ NothingAhead /\ RecordKept /\ LaneKept /\ StragglerServes
      /\ RunServes /\ HydrationKept /\ StaleUnread /\ LaggardsKnown /\ ReplacedLeave
    BY DEF TurnsInv
<1>2. /\ Void \notin Copies /\ Void \notin Conversations /\ Void \notin Upto /\ Void \notin Int
      /\ Void \notin Snapshots /\ Active \in Conversations /\ Active <= minted /\ minted \in Nat
      /\ finished \in Nat /\ MaxTurns \in Nat /\ MaxConversations \in Nat
    BY <1>1, Plain
<1> DEFINE c == turn.copy
           b == IF memory[c][Active] # Void THEN memory[c][Active] ELSE finished
<1>3. /\ turn.pc = "hydrated" /\ bound' = Active /\ dead' = dead \ {Active}
      /\ turnRun' = [phase |-> "running", copy |-> c, conversation |-> Active, base |-> b, complete |-> FALSE]
      /\ requests' = [requests EXCEPT !["turn"] = Idle]
      /\ UNCHANGED <<record, lane, snapshot, memory, straggler, minted, finished, spoilt>>
    BY DEF StartRun, turn
<1>4. /\ requests' \in [Requests -> Hydrations] /\ requests'["helper"] = Idle /\ turn' = Idle
  <2>1. requests \in [Requests -> Hydrations] /\ requests["helper"] = Idle
    BY <1>1 DEF Shapes, HydrationKept
  <2>2. Idle \in Hydrations
    BY <2>1 DEF Requests
  <2> QED
    BY <1>3, <2>1, <2>2 DEF turn, Requests
<1>5. /\ c \in Copies /\ ~Lags(c) /\ finished < MaxTurns /\ turnRun.phase = "none"
    BY <1>1, <1>3 DEF HydrationKept, RunServes
<1>6. Active' = Active /\ bound' \in Conversations /\ (bound' # bound => bound = Void /\ bound' = Default)
    BY <1>2, <1>3 DEF Active
<1>7. b \in Upto /\ finished <= b /\ b <= finished + 1
  <2>1. memory[c][Active] \in Upto \union {Void}
    BY <1>1, <1>2, <1>5 DEF Shapes
  <2>2. memory[c][Active] # Void => finished <= memory[c][Active] /\ memory[c][Active] <= finished + 1
    BY <1>1, <1>2, <1>5, <2>1 DEF Lags, NothingAhead, Upto
  <2>3. finished \in Upto
    BY <1>1 DEF Shapes
  <2> QED
    BY <1>2, <2>1, <2>2, <2>3
<1> HIDE DEF b
<1>8. /\ turnRun'.phase = "running" /\ turnRun'.copy = c /\ turnRun'.conversation = Active /\ turnRun'.base = b
      /\ ~turnRun'.complete /\ turnRun' \in Runs
    BY <1>2, <1>3, <1>5, <1>7 DEF Runs
<1>9. \A o \in Copies : (Lags(o)' <=> Lags(o)) /\ (HoldsLatest(o)' <=> HoldsLatest(o))
    BY <1>3, <1>6 DEF Lags, HoldsLatest
<1>10. Vouched' <=> Vouched
    BY <1>3 DEF Vouched
<1>11. turn'.pc = "idle" /\ turn'.read = Void
    BY <1>4 DEF Idle
<1>12. Shapes'
    BY <1>1, <1>3, <1>4, <1>6, <1>8 DEF Shapes
<1>13. NumberedSoFar' /\ DefaultOnly' /\ NothingAhead'
    BY <1>1, <1>2, <1>3, <1>6, <1>11 DEF NumberedSoFar, DefaultOnly, NothingAhead
<1>14. RecordKept'
    BY <1>1, <1>3, <1>10 DEF RecordKept
<1>15. LaneKept'
    BY <1>1, <1>3, <1>5, <1>6, <1>8, <1>11 DEF LaneKept, Lags
<1>16. StragglerServes'
    BY <1>1, <1>3, <1>8, <1>9, <1>11 DEF StragglerServes, Shapes
<1>17. RunServes'
    BY <1>3, <1>5, <1>6, <1>7, <1>8, <1>9, <1>11 DEF RunServes
<1>18. HydrationKept'
    BY <1>4, <1>11 DEF HydrationKept, Hydrating
<1>19. StaleUnread' /\ LaggardsKnown'
    BY <1>1, <1>3, <1>6, <1>9, <1>10, <1>11 DEF StaleUnread, LaggardsKnown
<1>20. ReplacedLeave'
    BY <1>1, <1>3, <1>6 DEF ReplacedLeave, SupersededLeavesDisk
<1> QED
    BY <1>12, <1>13, <1>14, <1>15, <1>16, <1>17, <1>18, <1>19, <1>20 DEF TurnsInv

\* A Run that starts over has a conversation nothing knows yet.
LEMMA StartResetKeeps ==
    ASSUME SavedConstants, TurnsInv, StartReset
    PROVE  TurnsInv'
<1>1. /\ Shapes /\ NumberedSoFar /\ DefaultOnly /\ NothingAhead /\ RecordKept /\ LaneKept /\ StragglerServes
      /\ RunServes /\ HydrationKept /\ StaleUnread /\ LaggardsKnown /\ ReplacedLeave
    BY DEF TurnsInv
<1>2. /\ Void \notin Copies /\ Void \notin Conversations /\ Void \notin Upto /\ Void \notin Int
      /\ Void \notin Snapshots /\ Active \in Conversations /\ Active <= minted /\ minted \in Nat
      /\ finished \in Nat /\ MaxTurns \in Nat /\ MaxConversations \in Nat
    BY <1>1, Plain
<1> DEFINE c == turn.copy
           m == minted + 1
           n == Len(lane) + 1
           job == Job("delete", c, Active)
<1>3. /\ turn.pc = "hydrated" /\ minted < MaxConversations /\ minted' = m /\ bound' = m
      /\ memory' = Cleared(c, Active) /\ dead' = dead \union {Active}
      /\ turnRun' = [phase |-> "clearing", copy |-> c, conversation |-> m, base |-> finished, complete |-> FALSE]
      /\ requests' = [requests EXCEPT !["turn"] = Idle]
      /\ lane' = Append(lane, job) /\ record' = Opened
      /\ UNCHANGED <<snapshot, straggler, finished, spoilt>>
    BY DEF StartReset, Enqueue, turn
<1>4. /\ requests' \in [Requests -> Hydrations] /\ requests'["helper"] = Idle /\ turn' = Idle
  <2>1. requests \in [Requests -> Hydrations] /\ requests["helper"] = Idle
    BY <1>1 DEF Shapes, HydrationKept
  <2>2. Idle \in Hydrations
    BY <2>1 DEF Requests
  <2> QED
    BY <1>3, <2>1, <2>2 DEF turn, Requests
<1>5. /\ c \in Copies /\ finished < MaxTurns /\ turnRun.phase = "none"
    BY <1>1, <1>3 DEF HydrationKept, RunServes
<1>6. /\ m \in Conversations /\ minted \in Conversations /\ m \notin {Void, Default} /\ Active' = m /\ m > minted
  <2>1. minted \in Conversations
    BY <1>1 DEF Shapes
  <2>2. m \in Conversations /\ m # Default /\ m # Void
    BY <1>2, <1>3, <2>1 DEF Conversations, Default
  <2> QED
    BY <1>2, <1>3, <2>1, <2>2 DEF Active
<1>7. /\ turnRun'.phase = "clearing" /\ turnRun'.copy = c /\ turnRun'.conversation = m /\ turnRun'.base = finished
      /\ ~turnRun'.complete /\ turnRun' \in Runs
    BY <1>1, <1>3, <1>5, <1>6 DEF Runs, Shapes
<1>8. /\ memory' \in [Copies -> [Conversations -> Upto \union {Void}]]
      /\ memory'[c][Active] = Void
      /\ \A o \in Copies, l \in Conversations : o # c \/ l # Active => memory'[o][l] = memory[o][l]
  <2>1. memory \in [Copies -> [Conversations -> Upto \union {Void}]]
    BY <1>1 DEF Shapes
  <2> QED
    BY <1>2, <1>3, <1>5, <2>1, ClearedIs
<1>9. /\ job \in Jobs /\ job.kind = "delete" /\ job.copy = c /\ job.conversation = Active /\ ~job.writing
      /\ job.upto = Void
    BY <1>2, <1>5 DEF Job, Jobs
<1> HIDE DEF job
<1>10. /\ lane \in Seq(Jobs) /\ lane' \in Seq(Jobs) /\ DOMAIN lane = 1..Len(lane) /\ DOMAIN lane' = 1..n /\ Len(lane) \in Nat
       /\ \A i \in DOMAIN lane : i \in DOMAIN lane' /\ lane'[i] = lane[i]
       /\ lane'[n] = job /\ lane' # <<>>
       /\ \A i \in DOMAIN lane' : i \in DOMAIN lane \/ i = n
       /\ n \in DOMAIN lane' /\ n \notin DOMAIN lane
  <2>1. lane \in Seq(Jobs) /\ lane' = Append(lane, job)
    BY <1>1, <1>3 DEF Shapes
  <2> QED
    BY <1>9, <2>1, LaneGrows
<1> HIDE DEF n
<1>11. \A o \in Copies, l \in Conversations : l >= m => memory'[o][l] = Void
  <2>1. \A o \in Copies, l \in Conversations : l >= m => memory[o][l] = Void
    BY <1>1, <1>2 DEF NumberedSoFar, Conversations
  <2> QED
    BY <1>2, <1>8, <2>1
<1>12. \A o \in Copies : ~Lags(o)'
    BY <1>6, <1>11, <1>2 DEF Lags
<1>13. turn'.pc = "idle" /\ turn'.read = Void
    BY <1>4 DEF Idle
<1>14. /\ Opened \in Records
       /\ \A i \in DOMAIN lane : lane[i].conversation \in Conversations /\ lane[i].conversation <= minted
       /\ snapshot # Void => snapshot.conversation \in Conversations /\ snapshot.conversation <= minted
       /\ straggler # Void => straggler.conversation \in Conversations /\ straggler.conversation <= minted
       /\ dead \subseteq 1..minted
  <2>1. \A i \in DOMAIN lane : lane[i] \in Jobs
    BY <1>10
  <2>2. \A i \in DOMAIN lane : lane[i].conversation \in Conversations /\ lane[i].conversation <= minted
    BY <1>1, <2>1 DEF NumberedSoFar, Jobs
  <2>3. Opened \in Records
    BY <1>1, OpenedKeeps
  <2>4. snapshot \in Snapshots \union {Void}
    BY <1>1 DEF Shapes
  <2>5. straggler # Void => straggler.conversation \in Conversations
    BY <1>1 DEF Shapes
  <2> QED
    BY <1>1, <2>2, <2>3, <2>4, <2>5 DEF NumberedSoFar, Snapshots
<1>15. Shapes'
  <2>1. /\ snapshot' \in Snapshots \union {Void} /\ finished' \in Upto /\ spoilt' \in BOOLEAN
        /\ straggler' \in [copy : Copies, conversation : Conversations] \union {Void}
    BY <1>1, <1>3 DEF Shapes
  <2>2. /\ bound' \in Conversations \union {Void} /\ minted' \in Conversations /\ record' \in Records
    BY <1>3, <1>6, <1>14
  <2>3. dead' \subseteq Conversations
    BY <1>1, <1>2, <1>3 DEF Shapes
  <2> QED
    BY <1>4, <1>7, <1>8, <1>10, <2>1, <2>2, <2>3 DEF Shapes
<1>16. NumberedSoFar'
  <2>0. Active \in 1..m /\ 1..minted \subseteq 1..m
    <3>1. Active \in 1..MaxConversations /\ Active <= minted /\ minted \in Nat
      BY <1>2 DEF Conversations
    <3> QED
      BY <3>1
  <2>1. \A i \in DOMAIN lane' : lane'[i].conversation <= m
    <3>1. ASSUME NEW i \in DOMAIN lane PROVE lane'[i].conversation <= m
      <4>1. lane'[i] = lane[i] /\ lane[i].conversation \in 1..MaxConversations /\ lane[i].conversation <= minted
        BY <1>10, <1>14 DEF Conversations
      <4> QED
        BY <1>2, <4>1
    <3>2. lane'[n].conversation <= m
      <4>1. lane'[n].conversation = Active
        BY <1>9, <1>10
      <4> QED
        BY <2>0, <4>1
    <3> QED
      BY <1>10, <3>1, <3>2
  <2>2. dead' \subseteq 1..m
    BY <1>3, <1>14, <2>0
  <2>3. \A o \in Copies, l \in Conversations : l > m => memory'[o][l] = Void
    BY <1>2, <1>11 DEF Conversations
  <2> QED
    BY <1>2, <1>3, <1>13, <1>14, <2>1, <2>2, <2>3 DEF NumberedSoFar, Conversations
<1>17. DefaultOnly'
    BY <1>3, <1>6 DEF DefaultOnly
<1>18. NothingAhead'
    BY <1>1, <1>2, <1>3, <1>5, <1>8, <1>9, <1>10, <1>13 DEF NothingAhead
<1>19. RecordKept'
    BY <1>1, <1>3, <1>10, OpenedKeeps DEF RecordKept, Vouched
<1>20. LaneKept'
  <2>1. \A i \in DOMAIN lane' : lane'[i].copy = c
    BY <1>1, <1>3, <1>9, <1>10 DEF LaneKept
  <2>2. \A i \in DOMAIN lane : lane[i].kind = "progress"
    <3>1. \A i \in DOMAIN lane : lane[i].kind \in {"progress", "terminal", "delete"}
      <4>1. \A i \in DOMAIN lane : lane[i] \in Jobs
        BY <1>10
      <4> QED
        BY <4>1 DEF Jobs
    <3> QED
      BY <1>1, <1>5, <3>1 DEF LaneKept
  <2>3. \A i \in DOMAIN lane' :
             /\ lane'[i].writing => i = 1 /\ lane'[i].kind # "delete" /\ (lane'[i].upto # Void
                   => lane'[i].upto >= finished)
             /\ lane'[i].kind # "terminal"
    BY <1>1, <1>9, <1>10, <2>2 DEF LaneKept
  <2>4. \A i \in DOMAIN lane' : ~(memory'[lane'[i].copy][Active'] # Void /\ memory'[lane'[i].copy][Active'] < finished')
    BY <1>5, <1>12, <2>1 DEF Lags
  <2>5. \A i, j \in DOMAIN lane' : lane'[i].kind = lane'[j].kind /\ lane'[i].kind # "progress" => i = j
    BY <1>9, <1>10, <2>2
  <2>6. straggler' # Void => straggler'.copy = c
    BY <1>1, <1>3 DEF StragglerServes
  <2> QED
    BY <1>3, <1>7, <1>13, <2>1, <2>3, <2>4, <2>5, <2>6 DEF LaneKept, Lags
<1>21. StragglerServes'
    BY <1>1, <1>3, <1>7, <1>12, <1>13 DEF StragglerServes, Shapes
<1>22. RunServes'
  <2>1. \A i \in DOMAIN lane' : lane'[i].conversation # m
    BY <1>2, <1>9, <1>10, <1>14 DEF Conversations
  <2>2. /\ snapshot' # Void => snapshot'.conversation # m
        /\ straggler' # Void => straggler'.conversation # m
    BY <1>2, <1>3, <1>14 DEF Conversations
  <2> QED
    BY <1>2, <1>3, <1>5, <1>6, <1>7, <1>12, <1>13, <2>1, <2>2 DEF RunServes
<1>23. HydrationKept'
    BY <1>4, <1>13 DEF HydrationKept, Hydrating
<1>24. StaleUnread'
    BY <1>1, <1>2, <1>3, <1>6, <1>14 DEF StaleUnread, Conversations
<1>25. LaggardsKnown'
    BY <1>12 DEF LaggardsKnown
<1>26. ReplacedLeave'
  <2>1. Active' \notin dead'
    BY <1>2, <1>3, <1>6, <1>14
  <2>2. SupersededLeavesDisk'
    BY <1>1, <1>3, <1>9, <1>10 DEF ReplacedLeave, SupersededLeavesDisk
  <2>3. lane'[1].writing /\ lane'[1].conversation \in dead' =>
          \E i \in DOMAIN lane' : lane'[i].kind = "delete" /\ lane'[i].conversation = lane'[1].conversation
    <3> SUFFICES ASSUME lane'[1].writing, lane'[1].conversation \in dead'
                 PROVE  \E i \in DOMAIN lane' : lane'[i].kind = "delete" /\ lane'[i].conversation = lane'[1].conversation
      OBVIOUS
    <3>1. 1 \in DOMAIN lane /\ lane # <<>> /\ lane'[1] = lane[1]
      BY <1>9, <1>10
    <3> QED
      BY <1>1, <1>3, <1>9, <1>10, <3>1 DEF ReplacedLeave
  <2> QED
    BY <2>1, <2>2, <2>3 DEF ReplacedLeave
<1> QED
    BY <1>15, <1>16, <1>17, <1>18, <1>19, <1>20, <1>21, <1>22, <1>23, <1>24, <1>25, <1>26 DEF
       TurnsInv

\* A checkpoint frame holds every finished turn.
LEMMA RunCheckpointKeeps ==
    ASSUME SavedConstants, TurnsInv, NEW whole \in BOOLEAN, RunCheckpoint(whole)
    PROVE  TurnsInv'
<1>1. /\ Shapes /\ NumberedSoFar /\ DefaultOnly /\ NothingAhead /\ RecordKept /\ LaneKept /\ StragglerServes
      /\ RunServes /\ HydrationKept /\ StaleUnread /\ LaggardsKnown /\ ReplacedLeave
    BY DEF TurnsInv
<1>2. /\ Void \notin Copies /\ Void \notin Conversations /\ Void \notin Upto /\ Void \notin Int
      /\ Void \notin Snapshots /\ Active \in Conversations /\ Active <= minted /\ minted \in Nat
      /\ finished \in Nat /\ MaxTurns \in Nat /\ MaxConversations \in Nat
    BY <1>1, Plain
<1> DEFINE c == turnRun.copy
           x == IF whole /\ turnRun.base = finished THEN finished + 1 ELSE turnRun.base
<1>3. /\ turnRun.phase = "running" /\ ~turnRun.complete /\ turnRun' = [turnRun EXCEPT !.complete = whole]
      /\ memory' = [memory EXCEPT ![c][turnRun.conversation] = x]
      /\ requests' = SeenReplaced(requests, c, turnRun.conversation)
      /\ UNCHANGED <<bound, record, lane, snapshot, straggler, minted, finished, dead, spoilt>>
    BY DEF RunCheckpoint
<1>4. /\ turnRun \in Runs /\ c \in Copies /\ turnRun.conversation = Active /\ turn.pc = "idle"
      /\ finished < MaxTurns /\ turnRun.base \in Upto /\ finished <= turnRun.base /\ turnRun.base <= finished + 1
    BY <1>1, <1>3 DEF RunServes, Shapes, Runs
<1>5. /\ x \in Upto /\ finished <= x /\ x <= finished + 1 /\ (whole => x = finished + 1)
    BY <1>2, <1>4 DEF Upto
<1> HIDE DEF x
<1>6. Active' = Active
    BY <1>3 DEF Active
<1>7. /\ memory' \in [Copies -> [Conversations -> Upto \union {Void}]]
      /\ memory'[c][Active] = x
      /\ \A o \in Copies, l \in Conversations : o # c \/ l # Active => memory'[o][l] = memory[o][l]
  <2>1. memory \in [Copies -> [Conversations -> Upto \union {Void}]] /\ memory' = [memory EXCEPT ![c][Active] = x]
    BY <1>1, <1>3, <1>4 DEF Shapes
  <2> QED
    BY <1>2, <1>4, <1>5, <2>1
<1>8. /\ turnRun'.phase = "running" /\ turnRun'.copy = c /\ turnRun'.conversation = Active
      /\ turnRun'.base = turnRun.base /\ turnRun'.complete = whole /\ turnRun' \in Runs
    BY <1>3, <1>4 DEF Runs
<1>9. /\ requests' \in [Requests -> Hydrations] /\ requests'["helper"] = Idle
      /\ turn'.pc = "idle" /\ turn'.read = turn.read
  <2>1. requests \in [Requests -> Hydrations] /\ requests["helper"] = Idle
    BY <1>1 DEF Shapes, HydrationKept
  <2>2. \A r \in Requests : requests'[r] = IF requests[r].copy = c /\ requests[r].conversation = Active
                                           THEN [requests[r] EXCEPT !.replaced = TRUE] ELSE requests[r]
    BY <1>3, <1>4 DEF SeenReplaced
  <2>3. requests' = [r \in Requests |-> requests'[r]]
    BY <1>3 DEF SeenReplaced
  <2>4. \A q \in Hydrations : LET z == [q EXCEPT !.replaced = TRUE] IN
          z \in Hydrations /\ z.pc = q.pc /\ z.read = q.read
    BY DEF Hydrations
  <2>5. \A r \in Requests : requests'[r] \in Hydrations /\ requests'[r].pc = requests[r].pc
                            /\ requests'[r].read = requests[r].read
    BY <2>1, <2>2, <2>4
  <2>6. Idle.copy = Void
    BY DEF Idle
  <2>7. requests'["helper"] = Idle
    BY <1>2, <1>4, <2>1, <2>2, <2>6 DEF Requests
  <2> QED
    BY <1>4, <2>3, <2>5, <2>7 DEF turn, Requests
<1>10. \A o \in Copies : /\ o # c => (Lags(o)' <=> Lags(o))
                         /\ o = c => ~Lags(o)'
                         /\ HoldsLatest(o)' <=> HoldsLatest(o)
    BY <1>2, <1>3, <1>5, <1>6, <1>7 DEF Lags, HoldsLatest, Upto
<1>11. Vouched' <=> Vouched
    BY <1>3 DEF Vouched
<1>12. Shapes'
    BY <1>1, <1>3, <1>7, <1>8, <1>9 DEF Shapes
<1>13. NumberedSoFar' /\ DefaultOnly'
  <2>1. \A o \in Copies, l \in Conversations : l > minted => memory'[o][l] = Void
    BY <1>1, <1>2, <1>7 DEF NumberedSoFar, Conversations
  <2>2. bound \in {Void, Default} => Active = Default
    BY DEF Active
  <2> QED
    BY <1>1, <1>3, <1>7, <1>9, <2>1, <2>2 DEF NumberedSoFar, DefaultOnly
<1>14. NothingAhead'
    BY <1>1, <1>3, <1>5, <1>7, <1>9 DEF NothingAhead
<1>15. RecordKept'
    BY <1>1, <1>3, <1>11 DEF RecordKept
<1>16. LaneKept'
  <2>1. \A i \in DOMAIN lane : lane[i].copy = c /\ lane[i].kind # "terminal" /\ lane[i].kind # "delete"
    BY <1>1, <1>3 DEF LaneKept
  <2>2. \A i \in DOMAIN lane : ~(memory'[lane[i].copy][Active'] # Void /\ memory'[lane[i].copy][Active'] < finished)
    BY <1>3, <1>4, <1>10, <2>1 DEF Lags
  <2> QED
    BY <1>1, <1>3, <1>8, <1>9, <2>1, <2>2 DEF LaneKept, Lags
<1>17. StragglerServes'
    BY <1>1, <1>3, <1>8, <1>9, <1>10 DEF StragglerServes, Shapes
<1>18. RunServes'
    BY <1>3, <1>4, <1>5, <1>6, <1>7, <1>8, <1>9, <1>10 DEF RunServes
<1>19. HydrationKept'
    BY <1>9 DEF HydrationKept, Hydrating
<1>20. StaleUnread' /\ LaggardsKnown'
    BY <1>1, <1>3, <1>9, <1>4, <1>10, <1>11 DEF StaleUnread, LaggardsKnown
<1>21. ReplacedLeave'
    BY <1>1, <1>3, <1>6 DEF ReplacedLeave, SupersededLeavesDisk
<1> QED
    BY <1>12, <1>13, <1>14, <1>15, <1>16, <1>17, <1>18, <1>19, <1>20, <1>21 DEF TurnsInv

\* A Run that stops may still have its last save to make, and its copy goes on.
LEMMA RunStopsKeeps ==
    ASSUME SavedConstants, TurnsInv, NEW leftover \in BOOLEAN, RunStops(leftover)
    PROVE  TurnsInv'
<1>1. /\ Shapes /\ NumberedSoFar /\ DefaultOnly /\ NothingAhead /\ RecordKept /\ LaneKept /\ StragglerServes
      /\ RunServes /\ HydrationKept /\ StaleUnread /\ LaggardsKnown /\ ReplacedLeave
    BY DEF TurnsInv
<1>2. /\ Void \notin Copies /\ Void \notin Conversations /\ Void \notin Upto /\ Void \notin Int
      /\ Void \notin Snapshots /\ Active \in Conversations /\ Active <= minted /\ minted \in Nat
      /\ finished \in Nat /\ MaxTurns \in Nat /\ MaxConversations \in Nat
    BY <1>1, Plain
<1> DEFINE lag == [copy |-> turnRun.copy, conversation |-> turnRun.conversation]
<1>3. /\ turnRun.phase = "running" /\ turnRun' = NoRun /\ straggler' \in {straggler, lag}
      /\ (straggler' # straggler => straggler = Void) /\ UNCHANGED <<bound, record, lane, snapshot,
                                                                     memory, requests, minted, finished, dead, spoilt>>
    BY DEF RunStops
<1>4. /\ turnRun.copy \in Copies /\ turnRun.conversation = Active /\ turn.pc = "idle" /\ ~Lags(turnRun.copy)
    BY <1>1, <1>3 DEF RunServes
<1>5. /\ lag \in [copy : Copies, conversation : Conversations] /\ lag # Void
      /\ lag.copy = turnRun.copy /\ lag.conversation = Active
    BY <1>2, <1>4 DEF SavedConstants, Conversations
<1> HIDE DEF lag
<1>6. /\ turnRun' \in Runs /\ turnRun'.phase = "none"
    BY <1>2, <1>3 DEF NoRun, Runs, Upto
<1>7. Active' = Active /\ turn' = turn
    BY <1>3 DEF Active, turn
<1>8. \A o \in Copies : (Lags(o)' <=> Lags(o)) /\ (HoldsLatest(o)' <=> HoldsLatest(o))
    BY <1>3, <1>7 DEF Lags, HoldsLatest
<1>9. Vouched' <=> Vouched
    BY <1>3 DEF Vouched
<1>10. \A i \in DOMAIN lane : lane[i].copy = turnRun.copy /\ lane[i].kind # "terminal" /\ lane[i].kind # "delete"
    BY <1>1, <1>3 DEF LaneKept
<1>11. straggler' # Void => straggler'.copy = turnRun.copy /\ straggler'.copy \in Copies
    BY <1>1, <1>3, <1>4, <1>5 DEF StragglerServes
<1>12. Shapes'
    BY <1>1, <1>3, <1>5, <1>6 DEF Shapes
<1>13. NumberedSoFar' /\ DefaultOnly'
  <2>1. bound \in {Void, Default} => Active = Default
    BY DEF Active
  <2> QED
    BY <1>1, <1>2, <1>3, <1>5, <1>7, <2>1 DEF NumberedSoFar, DefaultOnly
<1>14. NothingAhead' /\ RecordKept'
    BY <1>1, <1>3, <1>7, <1>9 DEF NothingAhead, RecordKept
<1>15. LaneKept'
  <2>1. \A i \in DOMAIN lane : ~(memory'[lane[i].copy][Active'] # Void /\ memory'[lane[i].copy][Active'] < finished)
    BY <1>3, <1>4, <1>7, <1>10 DEF Lags
  <2> QED
    BY <1>1, <1>3, <1>4, <1>6, <1>7, <1>10, <1>11, <2>1 DEF LaneKept, Lags
<1>16. StragglerServes'
    BY <1>4, <1>6, <1>7, <1>8, <1>11 DEF StragglerServes
<1>17. RunServes' /\ HydrationKept'
    BY <1>1, <1>3, <1>4, <1>6, <1>7 DEF RunServes, HydrationKept, Hydrating
<1>18. StaleUnread' /\ LaggardsKnown'
    BY <1>1, <1>3, <1>5, <1>7, <1>8, <1>9 DEF StaleUnread, LaggardsKnown
<1>19. ReplacedLeave'
    BY <1>1, <1>3, <1>7 DEF ReplacedLeave, SupersededLeavesDisk
<1> QED
    BY <1>12, <1>13, <1>14, <1>15, <1>16, <1>17, <1>18, <1>19 DEF TurnsInv

(***************************************************************************)
(* The rest of the process                                                 *)
(***************************************************************************)

\* The process starts with nothing.
LEMMA InitTurns ==
    ASSUME SavedConstants, Init
    PROVE  TurnsInv
<1>1. /\ Void \notin Copies /\ Void \notin Conversations /\ Void \notin Upto /\ 0 \in Upto /\ 1 \in Conversations
      /\ MaxTurns \in Nat
    BY DEF SavedConstants, Conversations, Upto
<1>2. /\ bound = Void /\ record = NoRecord /\ lane = <<>> /\ snapshot = Void
      /\ memory = [c \in Copies |-> [k \in Conversations |-> Void]]
      /\ requests = [r \in Requests |-> Idle] /\ turnRun = NoRun /\ straggler = Void
      /\ minted = 1 /\ finished = 0 /\ dead = {} /\ spoilt = FALSE
    BY DEF Init
<1>3. /\ NoRecord \in Records /\ ~NoRecord.present /\ ~NoRecord.unsaved /\ \A c \in Copies : NoRecord.held[c] = 0
    BY DEF NoRecord, Records
<1>4. Idle \in Hydrations /\ Idle.pc = "idle" /\ Idle.read = Void
    BY DEF Idle, Hydrations
<1>5. requests \in [Requests -> Hydrations] /\ turn = Idle /\ requests["helper"] = Idle
    BY <1>2, <1>4 DEF turn, Requests
<1>6. NoRun \in Runs /\ NoRun.phase = "none"
    BY <1>1 DEF NoRun, Runs
<1>7. lane \in Seq(Jobs) /\ DOMAIN lane = {}
    BY <1>2
<1>8. \A c \in Copies, k \in Conversations : memory[c][k] = Void
    BY <1>2
<1>9. Active \in Conversations /\ Active = Default
    BY <1>1, <1>2 DEF Active, Default
<1>10. Shapes
    BY <1>1, <1>2, <1>3, <1>5, <1>6, <1>7 DEF Shapes
<1>11. NumberedSoFar /\ DefaultOnly /\ NothingAhead
    BY <1>2, <1>4, <1>5, <1>7, <1>8 DEF NumberedSoFar, DefaultOnly, NothingAhead
<1>12. RecordKept
    BY <1>2, <1>3, <1>7 DEF RecordKept, NoRecord
<1>13. LaneKept /\ StragglerServes /\ RunServes /\ HydrationKept
    BY <1>2, <1>4, <1>5, <1>6, <1>7 DEF LaneKept, StragglerServes, RunServes, HydrationKept,
       Hydrating
<1>14. StaleUnread /\ LaggardsKnown /\ ReplacedLeave
    BY <1>2, <1>8, <1>9 DEF StaleUnread, LaggardsKnown, ReplacedLeave, SupersededLeavesDisk, Lags
<1> QED
    BY <1>10, <1>11, <1>12, <1>13, <1>14 DEF TurnsInv

\* The default conversation stays the session's when its binding is pushed out.
LEMMA EvictBindingKeeps ==
    ASSUME SavedConstants, TurnsInv, EvictBinding
    PROVE  TurnsInv'
<1>1. /\ Shapes /\ NumberedSoFar /\ DefaultOnly /\ NothingAhead /\ RecordKept /\ LaneKept /\ StragglerServes
      /\ RunServes /\ HydrationKept /\ StaleUnread /\ LaggardsKnown /\ ReplacedLeave
    BY DEF TurnsInv
<1>2. /\ Void \notin Conversations /\ Default \in Conversations
    BY <1>1, Plain
<1>3. /\ bound = Default /\ bound' = Void
      /\ UNCHANGED <<record, lane, snapshot, memory, requests, turnRun, straggler, minted,
                     finished, dead, spoilt>>
    BY DEF EvictBinding
<1>4. Active' = Active /\ turn' = turn
    BY <1>2, <1>3 DEF Active, turn
<1>5. \A o \in Copies : (Lags(o)' <=> Lags(o)) /\ (HoldsLatest(o)' <=> HoldsLatest(o))
    BY <1>3, <1>4 DEF Lags, HoldsLatest
<1>6. Vouched' <=> Vouched
    BY <1>3 DEF Vouched
<1>7. Shapes' /\ NumberedSoFar' /\ DefaultOnly' /\ NothingAhead' /\ RecordKept'
    BY <1>1, <1>2, <1>3, <1>4, <1>6 DEF Shapes, NumberedSoFar, DefaultOnly, NothingAhead,
       RecordKept
<1>8. LaneKept' /\ StragglerServes'
    BY <1>1, <1>3, <1>4 DEF LaneKept, StragglerServes, Lags
<1>9. RunServes' /\ HydrationKept'
    BY <1>1, <1>2, <1>3, <1>4 DEF RunServes, HydrationKept, Hydrating, Lags
<1>10. StaleUnread' /\ LaggardsKnown'
    BY <1>1, <1>2, <1>3, <1>4, <1>5, <1>6 DEF StaleUnread, LaggardsKnown
<1>11. ReplacedLeave'
    BY <1>1, <1>3, <1>4 DEF ReplacedLeave, SupersededLeavesDisk
<1> QED
    BY <1>7, <1>8, <1>9, <1>10, <1>11 DEF TurnsInv

\* A record that is pushed out took nothing with it that a snapshot left by a
\* failed save needs.
LEMMA EvictRecordKeeps ==
    ASSUME SavedConstants, ~Crowded, TurnsInv, EvictRecord
    PROVE  TurnsInv'
<1>1. /\ Shapes /\ NumberedSoFar /\ DefaultOnly /\ NothingAhead /\ RecordKept /\ LaneKept /\ StragglerServes
      /\ RunServes /\ HydrationKept /\ StaleUnread /\ LaggardsKnown /\ ReplacedLeave
    BY DEF TurnsInv
<1>2. /\ turn.pc = "idle" /\ bound = Void /\ lane = <<>> /\ ~spoilt
      /\ record' = [NoRecord EXCEPT !.generation = record.generation]
      /\ UNCHANGED <<bound, lane, snapshot, memory, requests, turnRun, straggler, minted, finished,
                     dead, spoilt>>
    BY DEF EvictRecord, turn
<1>3. /\ record' \in Records /\ ~record'.present /\ ~record'.unsaved /\ (\A c \in Copies : record'.held[c] = 0)
      /\ record'.generation \in Nat
  <2>1. record.generation \in Nat
    BY <1>1 DEF Shapes, Records
  <2>2. NoRecord \in Records /\ ~NoRecord.present /\ ~NoRecord.unsaved /\ \A c \in Copies : NoRecord.held[c] = 0
    BY DEF NoRecord, Records
  <2> QED
    BY <1>2, <2>1, <2>2 DEF Records
<1>4. Active' = Active /\ turn' = turn /\ DOMAIN lane = {}
    BY <1>2 DEF Active, turn
<1>5. Shapes' /\ NumberedSoFar' /\ DefaultOnly' /\ NothingAhead'
    BY <1>1, <1>2, <1>3, <1>4 DEF Shapes, NumberedSoFar, DefaultOnly, NothingAhead
<1>6. RecordKept'
    BY <1>2, <1>3 DEF RecordKept
<1>7. LaneKept' /\ StragglerServes' /\ RunServes' /\ HydrationKept'
    BY <1>1, <1>2, <1>4 DEF LaneKept, StragglerServes, RunServes, HydrationKept, Hydrating, Lags
<1>8. StaleUnread' /\ LaggardsKnown'
    BY <1>1, <1>2, <1>3, <1>4 DEF StaleUnread, LaggardsKnown, HoldsLatest
<1>9. ReplacedLeave'
    BY <1>1, <1>2, <1>4 DEF ReplacedLeave, SupersededLeavesDisk
<1> QED
    BY <1>5, <1>6, <1>7, <1>8, <1>9 DEF TurnsInv

\* A process that starts anew has only what is on disk.
LEMMA RestartKeeps ==
    ASSUME SavedConstants, TurnsInv, Restart
    PROVE  TurnsInv'
<1>1. Shapes /\ NumberedSoFar /\ NothingAhead /\ StaleUnread
    BY DEF TurnsInv
<1>2. /\ Void \notin Conversations /\ Void \notin Upto /\ Default \in Conversations /\ 0 \in Upto
    BY <1>1, Plain DEF Upto
<1>3. /\ ~spoilt /\ bound' = Void /\ record' = NoRecord /\ lane' = <<>>
      /\ memory' = [c \in Copies |-> [k \in Conversations |-> Void]]
      /\ requests' = [r \in Requests |-> Idle]
      /\ turnRun' = NoRun /\ straggler' = Void /\ dead' = {}
      /\ UNCHANGED <<snapshot, minted, finished, spoilt>>
    BY DEF Restart
<1>4. /\ NoRecord \in Records /\ ~NoRecord.present /\ ~NoRecord.unsaved /\ \A c \in Copies : NoRecord.held[c] = 0
    BY DEF NoRecord, Records
<1>5. Idle \in Hydrations /\ Idle.pc = "idle" /\ Idle.read = Void
    BY DEF Idle, Hydrations
<1>6. requests' \in [Requests -> Hydrations] /\ turn' = Idle /\ requests'["helper"] = Idle
    BY <1>3, <1>5 DEF turn, Requests
<1>7. NoRun \in Runs /\ NoRun.phase = "none"
    BY <1>2 DEF NoRun, Runs
<1>8. lane' \in Seq(Jobs) /\ DOMAIN lane' = {}
    BY <1>3
<1>9. \A c \in Copies, k \in Conversations : memory'[c][k] = Void
    BY <1>3
<1>10. Active' \in Conversations
    BY <1>2, <1>3 DEF Active
<1>11. Shapes'
    BY <1>1, <1>2, <1>3, <1>4, <1>6, <1>7, <1>8 DEF Shapes
<1>12. NumberedSoFar' /\ DefaultOnly' /\ NothingAhead'
    BY <1>1, <1>3, <1>5, <1>6, <1>8, <1>9 DEF NumberedSoFar, DefaultOnly, NothingAhead
<1>13. RecordKept'
    BY <1>3, <1>4, <1>8 DEF RecordKept, NoRecord
<1>14. LaneKept' /\ StragglerServes' /\ RunServes' /\ HydrationKept'
    BY <1>3, <1>5, <1>6, <1>7, <1>8 DEF LaneKept, StragglerServes, RunServes, HydrationKept,
       Hydrating
<1>15. StaleUnread' /\ LaggardsKnown' /\ ReplacedLeave'
    BY <1>1, <1>3, <1>8, <1>9, <1>10 DEF StaleUnread, LaggardsKnown, ReplacedLeave,
       SupersededLeavesDisk, Lags
<1> QED
    BY <1>11, <1>12, <1>13, <1>14, <1>15 DEF TurnsInv

(***************************************************************************)
(* Hydration                                                               *)
(***************************************************************************)

\* Only the turn hydrates.
LEMMA OnlyTheTurn ==
    ASSUME HydrationKept, NEW r \in Requests, requests[r].pc # "idle"
    PROVE  r = "turn" /\ requests[r] = turn
BY DEF HydrationKept, Requests, Idle, turn

\* A hydration that is over, with the checkpoint its copy had or none: the
\* record is as it was, or counts its copy as holding the present generation.
GoesOn ==
    /\ Hydrating /\ (turn.pc = "settling" => turn.waits = 0)
    /\ requests' = [requests EXCEPT !["turn"] = Over("turn")]
    /\ UNCHANGED <<bound, lane, snapshot, turnRun, straggler, minted, finished, dead, spoilt>>
    /\ memory' = Cleared(turn.copy, Active) \/ (memory' = memory /\ ~Lags(turn.copy))
    /\ record' \in Records /\ record'.unsaved = record.unsaved
    /\ \/ /\ record'.present = record.present /\ record'.generation = record.generation /\ record'.held = record.held
          /\ turn.bound # Void \/ Vouched
       \/ /\ record'.present /\ record'.generation = Opened.generation
          /\ record'.held[turn.copy] = record'.generation
          /\ \A o \in Copies \ {turn.copy} : record'.held[o] = record.held[o]

\* Such a hydration leaves a copy that lacks nothing.
LEMMA GoesOnKeeps ==
    ASSUME SavedConstants, TurnsInv, GoesOn
    PROVE  TurnsInv'
<1>1. /\ Shapes /\ NumberedSoFar /\ DefaultOnly /\ NothingAhead /\ RecordKept /\ LaneKept /\ StragglerServes
      /\ RunServes /\ HydrationKept /\ StaleUnread /\ LaggardsKnown /\ ReplacedLeave
    BY DEF TurnsInv
<1>2. /\ Void \notin Copies /\ Void \notin Conversations /\ Void \notin Upto /\ Void \notin Int
      /\ Void \notin Snapshots /\ Active \in Conversations /\ Active <= minted /\ minted \in Nat
      /\ finished \in Nat /\ MaxTurns \in Nat /\ MaxConversations \in Nat
    BY <1>1, Plain
<1> DEFINE c == turn.copy
<1>3. /\ Hydrating /\ (turn.pc = "settling" => turn.waits = 0)
      /\ requests' = [requests EXCEPT !["turn"] = Over("turn")]
      /\ UNCHANGED <<bound, lane, snapshot, turnRun, straggler, minted, finished, dead, spoilt>>
    BY DEF GoesOn
<1>4. /\ c \in Copies /\ finished < MaxTurns /\ turn.pc # "idle" /\ turnRun.phase = "none"
      /\ turn.pc \in {"settling", "forgetting", "reading", "read"}
    BY <1>1, <1>3 DEF HydrationKept, Hydrating, RunServes
<1>5. /\ requests' \in [Requests -> Hydrations] /\ requests'["helper"] = Idle
      /\ turn' \in Hydrations /\ turn'.pc = "hydrated" /\ turn'.copy = c /\ turn'.bound = Void /\ turn'.read = Void
  <2>1. requests \in [Requests -> Hydrations] /\ requests["helper"] = Idle
    BY <1>1 DEF Shapes, HydrationKept
  <2>2. Idle \in Hydrations /\ Idle.bound = Void /\ Idle.read = Void
    BY <2>1 DEF Requests, Idle
  <2>3. Over("turn") = [Idle EXCEPT !.pc = "hydrated", !.copy = c]
    BY DEF Over, turn
  <2>4. /\ Over("turn") \in Hydrations /\ Over("turn").pc = "hydrated" /\ Over("turn").copy = c
        /\ Over("turn").bound = Void /\ Over("turn").read = Void
    BY <1>4, <2>2, <2>3 DEF Hydrations
  <2> QED
    BY <1>3, <2>1, <2>4 DEF turn, Requests
<1>6. Active' = Active
    BY <1>3 DEF Active
<1>7. /\ memory' \in [Copies -> [Conversations -> Upto \union {Void}]]
      /\ \A o \in Copies, l \in Conversations : memory'[o][l] \in {Void, memory[o][l]}
      /\ \A o \in Copies : Lags(o)' => Lags(o) /\ o # c
  <2>1. memory \in [Copies -> [Conversations -> Upto \union {Void}]]
    BY <1>1 DEF Shapes
  <2>2. CASE memory' = Cleared(c, Active)
    <3>1. /\ memory' \in [Copies -> [Conversations -> Upto \union {Void}]] /\ memory'[c][Active] = Void
          /\ \A o \in Copies, l \in Conversations : o # c \/ l # Active => memory'[o][l] = memory[o][l]
      BY <1>2, <1>4, <2>1, <2>2, ClearedIs
    <3> QED
      BY <1>2, <1>3, <1>4, <1>6, <3>1 DEF Lags
  <2>3. CASE memory' = memory /\ ~Lags(c)
    BY <1>3, <1>6, <2>1, <2>3 DEF Lags
  <2> QED
    BY <2>2, <2>3 DEF GoesOn
<1>8. Shapes'
    BY <1>1, <1>3, <1>5, <1>7 DEF Shapes, GoesOn
<1>9. NumberedSoFar' /\ DefaultOnly'
    BY <1>1, <1>2, <1>3, <1>5, <1>7 DEF NumberedSoFar, DefaultOnly
<1>10. NothingAhead'
    BY <1>1, <1>2, <1>3, <1>5, <1>7 DEF NothingAhead
<1>11. RecordKept' /\ LaggardsKnown'
  <2>1. CASE /\ record'.present = record.present /\ record'.generation = record.generation /\ record'.held = record.held
             /\ turn.bound # Void \/ Vouched
    <3>1. (Vouched' <=> Vouched) /\ \A o \in Copies : HoldsLatest(o)' <=> HoldsLatest(o)
      BY <2>1 DEF Vouched, HoldsLatest
    <3>2. RecordKept'
      BY <1>1, <1>3, <2>1, <3>1 DEF RecordKept, GoesOn
    <3>3. LaggardsKnown'
      <4> SUFFICES ASSUME NEW o \in Copies, Lags(o)'
                   PROVE  /\ ~HoldsLatest(o)'
                          /\ Vouched' \/ (bound' \in {Void, Default} /\ (straggler' # Void \/ lane' # <<>>))
        BY DEF LaggardsKnown
      <4> QED
        BY <1>1, <1>3, <1>4, <1>7, <2>1, <3>1 DEF LaggardsKnown
    <3> QED
      BY <3>2, <3>3
  <2>2. CASE /\ record'.present /\ record'.generation = Opened.generation
             /\ record'.held[c] = record'.generation
             /\ \A o \in Copies \ {c} : record'.held[o] = record.held[o]
    <3>1. Vouched'
      BY <1>4, <2>2 DEF Vouched
    <3>2. /\ Opened.generation \in Nat \ {0} /\ Opened.held = record.held
          /\ \A o \in Copies : Opened.held[o] \in Nat /\ Opened.held[o] <= Opened.generation
          /\ \A o \in Copies : Lags(o) => Opened.held[o] # Opened.generation
      BY <1>1, OpenedKeeps
    <3>3. RecordKept'
      BY <1>4, <2>2, <3>1, <3>2 DEF RecordKept
    <3>4. LaggardsKnown'
      BY <1>7, <2>2, <3>1, <3>2 DEF LaggardsKnown, HoldsLatest
    <3> QED
      BY <3>3, <3>4
  <2> QED
    BY <2>1, <2>2 DEF GoesOn
<1>12. LaneKept'
  <2>1. \A i \in DOMAIN lane : lane[i].copy = c /\ lane[i].kind # "terminal" /\ lane[i].kind # "delete"
    <3>1. lane \in Seq(Jobs)
      BY <1>1 DEF Shapes
    <3>2. \A i \in DOMAIN lane : i \in Nat /\ i > 0
      BY <3>1
    <3> QED
      BY <1>1, <1>3, <1>4, <3>2 DEF LaneKept
  <2>2. \A i \in DOMAIN lane : ~(memory'[lane[i].copy][Active'] # Void /\ memory'[lane[i].copy][Active'] < finished)
    BY <1>3, <1>4, <1>7, <2>1 DEF Lags
  <2> QED
    BY <1>1, <1>3, <1>4, <1>5, <2>1, <2>2 DEF LaneKept, Lags
<1>13. StragglerServes'
    BY <1>1, <1>3, <1>4, <1>5, <1>7 DEF StragglerServes
<1>14. RunServes'
    BY <1>3, <1>4 DEF RunServes
<1>15. HydrationKept'
    BY <1>3, <1>4, <1>5, <1>7 DEF HydrationKept, Hydrating
<1>16. StaleUnread'
    BY <1>1, <1>3, <1>5 DEF StaleUnread, GoesOn
<1>17. ReplacedLeave'
    BY <1>1, <1>3, <1>6 DEF ReplacedLeave, SupersededLeavesDisk
<1> QED
    BY <1>8, <1>9, <1>10, <1>11, <1>12, <1>13, <1>14, <1>15, <1>16, <1>17 DEF TurnsInv

\* What the turn's copy held when its hydration began, it still holds.
LEMMA EntryIsSame ==
    ASSUME SavedConstants, TurnsInv, Hydrating
    PROVE  /\ turn.copy \in Copies /\ turn.conversation = Active /\ SameEntry(turn)
           /\ turn.bound # bound => turn.bound = Default /\ bound = Void
           /\ \/ MemoryAfterMove(turn) = Cleared(turn.copy, Active)
              \/ MemoryAfterMove(turn) = memory /\ ~Lags(turn.copy)
<1>1. /\ turn.copy \in Copies /\ turn.conversation = Active /\ turn.entry = memory[turn.copy][Active]
      /\ ~turn.replaced /\ (turn.bound # bound => turn.bound = Default /\ bound = Void)
    BY DEF TurnsInv, HydrationKept, Hydrating
<1>2. SameEntry(turn)
    BY <1>1 DEF SameEntry
<1>3. HoldsLatest(turn.copy) => ~Lags(turn.copy)
    BY <1>1 DEF TurnsInv, LaggardsKnown
<1> QED
    BY <1>1, <1>2, <1>3 DEF MemoryAfterMove

\* A copy that gives up its checkpoint counts as holding the generation.
LEMMA GaveUp ==
    ASSUME SavedConstants, TurnsInv, Hydrating, NEW rec \in Records, rec.present,
           rec.generation = Opened.generation, rec.unsaved = record.unsaved, rec.held = record.held, GiveUp(turn, rec)
    PROVE  /\ record' \in Records /\ record'.present /\ record'.generation = Opened.generation
           /\ record'.unsaved = record.unsaved /\ record'.held[turn.copy] = record'.generation
           /\ \A o \in Copies \ {turn.copy} : record'.held[o] = record.held[o]
           /\ memory' = Cleared(turn.copy, Active)
<1>1. turn.copy \in Copies /\ turn.conversation = Active
    BY EntryIsSame
<1>2. record' = [rec EXCEPT !.held[turn.copy] = rec.generation] /\ memory' = Cleared(turn.copy, Active)
    BY <1>1 DEF GiveUp, ReplaceCopyState
<1>3. rec.generation \in Nat
    BY DEF Records
<1> QED
    BY <1>1, <1>2, <1>3, HeldIs

\* The turn hydrates in the copy the host chose, after the writes before it.
LEMMA BeginHydrationKeeps ==
    ASSUME SavedConstants, ~Helpers, TurnsInv, NEW r \in Requests, NEW c \in Copies, BeginHydration(r, c)
    PROVE  TurnsInv'
<1>1. /\ Shapes /\ NumberedSoFar /\ DefaultOnly /\ NothingAhead /\ RecordKept /\ LaneKept /\ StragglerServes
      /\ RunServes /\ HydrationKept /\ StaleUnread /\ LaggardsKnown /\ ReplacedLeave
    BY DEF TurnsInv
<1>2. /\ Void \notin Copies /\ Void \notin Conversations /\ Void \notin Upto /\ Void \notin Int
      /\ Void \notin Snapshots /\ Active \in Conversations /\ Active <= minted /\ minted \in Nat
      /\ finished \in Nat /\ MaxTurns \in Nat /\ MaxConversations \in Nat
    BY <1>1, Plain
<1> DEFINE now == bound # Void /\ HoldsLatest(c) /\ ~Queued(Copies \ {c})
           q == IF now THEN [Idle EXCEPT !.pc = "hydrated", !.copy = c]
                ELSE [Idle EXCEPT !.pc = "settling", !.copy = c, !.bound = bound, !.conversation = Active,
                                  !.entry = memory[c][Active], !.attempt = 1, !.waits = Len(lane)]
<1>3. /\ r = "turn" /\ turnRun.phase = "none" /\ finished < MaxTurns /\ (straggler # Void
            => straggler.copy = c)
      /\ requests' = [requests EXCEPT !["turn"] = q]
      /\ UNCHANGED <<bound, record, lane, snapshot, memory, turnRun, straggler, minted, finished,
                     dead, spoilt>>
    BY DEF BeginHydration, Requests
<1>4. /\ requests \in [Requests -> Hydrations] /\ requests["helper"] = Idle /\ Idle \in Hydrations
      /\ Idle.read = Void /\ Idle.bound = Void /\ ~Idle.replaced
  <2>1. requests \in [Requests -> Hydrations] /\ requests["helper"] = Idle
    BY <1>1 DEF Shapes, HydrationKept
  <2> QED
    BY <2>1 DEF Idle, Requests
<1>5. lane \in Seq(Jobs) /\ Len(lane) \in Nat /\ DOMAIN lane = 1..Len(lane)
    BY <1>1 DEF Shapes
<1>6. memory[c][Active] \in Upto \union {Void} /\ bound \in Conversations \union {Void}
    BY <1>1, <1>2 DEF Shapes
<1>7. now => q \in Hydrations /\ q.pc = "hydrated" /\ q.copy = c /\ q.read = Void /\ q.bound = Void
    BY <1>4 DEF Hydrations
<1>8. ~now => /\ q \in Hydrations /\ q.pc = "settling" /\ q.copy = c /\ q.read = Void /\ q.bound = bound
              /\ q.conversation = Active /\ q.entry = memory[c][Active] /\ ~q.replaced /\ q.waits = Len(lane)
  <2> SUFFICES ASSUME ~now
               PROVE  /\ q \in Hydrations /\ q.pc = "settling" /\ q.copy = c /\ q.read = Void /\ q.bound = bound
                      /\ q.conversation = Active /\ q.entry = memory[c][Active] /\ ~q.replaced /\ q.waits = Len(lane)
    OBVIOUS
  <2>1. q = [Idle EXCEPT !.pc = "settling", !.copy = c, !.bound = bound, !.conversation = Active,
                         !.entry = memory[c][Active], !.attempt = 1, !.waits = Len(lane)]
    OBVIOUS
  <2> HIDE DEF q, now
  <2> QED
    BY <1>2, <1>4, <1>5, <1>6, <2>1 DEF Hydrations
<1>9. now => Vouched /\ ~Lags(c) /\ bound # Void /\ \A i \in DOMAIN lane : lane[i].copy = c
  <2>1. \A i \in DOMAIN lane : lane[i] \in Jobs
    BY <1>5
  <2> QED
    BY <1>1, <2>1 DEF LaggardsKnown, HoldsLatest, Vouched, Queued, Jobs
<1> HIDE DEF q, now
<1>10. requests' \in [Requests -> Hydrations] /\ requests'["helper"] = Idle /\ turn' = q
    BY <1>3, <1>4, <1>7, <1>8 DEF turn, Requests
<1>11. Active' = Active /\ (Vouched' <=> Vouched)
    BY <1>3 DEF Active, Vouched
<1>12. \A o \in Copies : (Lags(o)' <=> Lags(o)) /\ (HoldsLatest(o)' <=> HoldsLatest(o))
    BY <1>3, <1>11 DEF Lags, HoldsLatest
<1>13. Shapes'
    BY <1>1, <1>3, <1>10 DEF Shapes
<1>14. NumberedSoFar' /\ DefaultOnly' /\ NothingAhead' /\ RecordKept'
    BY <1>1, <1>3, <1>7, <1>8, <1>10, <1>11 DEF NumberedSoFar, DefaultOnly, NothingAhead,
       RecordKept
<1>15. LaneKept'
  <2>1. \A i \in DOMAIN lane : ~(memory'[lane[i].copy][Active'] # Void /\ memory'[lane[i].copy][Active'] < finished)
    BY <1>1, <1>3, <1>11 DEF LaneKept, Lags
  <2>2. \A i \in DOMAIN lane : i <= Len(lane) /\ i \in Nat
    BY <1>5
  <2>3. \A i \in DOMAIN lane :
           /\ turn'.pc = "hydrated" \/ turn'.pc \in {"forgetting", "reading", "read"}
                 => lane[i].copy = turn'.copy
           /\ turn'.pc = "settling" /\ i > turn'.waits => lane[i].copy = turn'.copy
    BY <1>5, <1>7, <1>8, <1>9, <1>10, <2>2
  <2> QED
    BY <1>1, <1>3, <2>1, <2>3 DEF LaneKept, Lags
<1>16. StragglerServes'
    BY <1>1, <1>3, <1>7, <1>8, <1>10, <1>12 DEF StragglerServes, Shapes
<1>17. RunServes'
    BY <1>3 DEF RunServes
<1>18. HydrationKept'
    BY <1>3, <1>7, <1>8, <1>9, <1>10, <1>11, <1>12 DEF HydrationKept, Hydrating
<1>19. StaleUnread' /\ LaggardsKnown'
    BY <1>1, <1>3, <1>7, <1>8, <1>9, <1>10, <1>11, <1>12 DEF StaleUnread, LaggardsKnown
<1>20. ReplacedLeave'
    BY <1>1, <1>3, <1>11 DEF ReplacedLeave, SupersededLeavesDisk
<1> QED
    BY <1>13, <1>14, <1>15, <1>16, <1>17, <1>18, <1>19, <1>20 DEF TurnsInv

\* A turn beside a Run that still drains goes on in that Run's copy.
LEMMA SkipHydrationKeeps ==
    ASSUME SavedConstants, TurnsInv, SkipHydration
    PROVE  TurnsInv'
<1>1. /\ Shapes /\ NumberedSoFar /\ DefaultOnly /\ NothingAhead /\ RecordKept /\ LaneKept /\ StragglerServes
      /\ RunServes /\ HydrationKept /\ StaleUnread /\ LaggardsKnown /\ ReplacedLeave
    BY DEF TurnsInv
<1>2. /\ Void \notin Copies /\ Void \notin Conversations
    BY <1>1, Plain
<1> DEFINE c == straggler.copy
           q == [Idle EXCEPT !.pc = "hydrated", !.copy = c]
<1>3. /\ turnRun.phase = "none" /\ finished < MaxTurns /\ straggler # Void /\ requests' = [requests EXCEPT !["turn"] = q]
      /\ UNCHANGED <<bound, record, lane, snapshot, memory, turnRun, straggler, minted, finished,
                     dead, spoilt>>
    BY DEF SkipHydration
<1>4. c \in Copies /\ ~Lags(c) /\ \A i \in DOMAIN lane : lane[i].copy = c
    BY <1>1, <1>3 DEF Shapes, StragglerServes, LaneKept
<1>5. /\ requests \in [Requests -> Hydrations] /\ requests["helper"] = Idle /\ Idle \in Hydrations
      /\ Idle.read = Void /\ Idle.bound = Void
  <2>1. requests \in [Requests -> Hydrations] /\ requests["helper"] = Idle
    BY <1>1 DEF Shapes, HydrationKept
  <2> QED
    BY <2>1 DEF Idle, Requests
<1>6. q \in Hydrations /\ q.pc = "hydrated" /\ q.copy = c /\ q.read = Void /\ q.bound = Void
    BY <1>4, <1>5 DEF Hydrations
<1> HIDE DEF q
<1>7. requests' \in [Requests -> Hydrations] /\ requests'["helper"] = Idle /\ turn' = q
    BY <1>3, <1>5, <1>6 DEF turn, Requests
<1>8. Active' = Active /\ (Vouched' <=> Vouched)
    BY <1>3 DEF Active, Vouched
<1>9. \A o \in Copies : (Lags(o)' <=> Lags(o)) /\ (HoldsLatest(o)' <=> HoldsLatest(o))
    BY <1>3, <1>8 DEF Lags, HoldsLatest
<1>10. Shapes'
    BY <1>1, <1>3, <1>7 DEF Shapes
<1>11. NumberedSoFar' /\ DefaultOnly' /\ NothingAhead' /\ RecordKept'
    BY <1>1, <1>3, <1>6, <1>7, <1>8 DEF NumberedSoFar, DefaultOnly, NothingAhead, RecordKept
<1>12. LaneKept'
  <2>1. \A i \in DOMAIN lane : ~(memory'[lane[i].copy][Active'] # Void /\ memory'[lane[i].copy][Active'] < finished)
    BY <1>1, <1>3, <1>8 DEF LaneKept, Lags
  <2> QED
    BY <1>1, <1>3, <1>4, <1>6, <1>7, <2>1 DEF LaneKept, Lags
<1>13. StragglerServes'
    BY <1>1, <1>3, <1>6, <1>7, <1>9 DEF StragglerServes, Shapes
<1>14. RunServes' /\ HydrationKept'
    BY <1>3, <1>4, <1>6, <1>7, <1>9 DEF RunServes, HydrationKept, Hydrating
<1>15. StaleUnread' /\ LaggardsKnown'
    BY <1>1, <1>3, <1>6, <1>7, <1>8, <1>9 DEF StaleUnread, LaggardsKnown
<1>16. ReplacedLeave'
    BY <1>1, <1>3, <1>8 DEF ReplacedLeave, SupersededLeavesDisk
<1> QED
    BY <1>10, <1>11, <1>12, <1>13, <1>14, <1>15, <1>16 DEF TurnsInv

\* Steps of the hydration that leave everything but the record's reads.
Proceeds ==
    /\ Hydrating /\ turn'.pc \in {"settling", "forgetting", "reading", "read"}
    /\ requests' \in [Requests -> Hydrations] /\ requests'["helper"] = requests["helper"]
    /\ turn'.copy = turn.copy /\ turn'.bound = turn.bound /\ turn'.conversation = turn.conversation
    /\ turn'.entry = turn.entry /\ turn'.replaced = turn.replaced
    /\ turn'.pc = "settling" => \A i \in DOMAIN lane : i <= turn'.waits
    /\ turn'.pc \in {"forgetting", "reading", "read"} =>
          /\ turn.pc = "settling" => turn.waits = 0 /\ ~record.unsaved
    /\ turn'.pc \in {"reading", "read"} => record'.present /\ turn'.generation <= record'.generation
    /\ turn'.pc = "read" /\ turn'.generation = record'.generation => turn'.read \in {Void, snapshot}
    /\ turn'.read \in {Void, snapshot, turn.read}
    /\ UNCHANGED <<bound, lane, snapshot, memory, turnRun, straggler, minted, finished, dead, spoilt>>
    /\ record' \in Records /\ record'.unsaved = record.unsaved /\ record'.held = record.held
    /\ \/ record'.present = record.present /\ record'.generation = record.generation
       \/ record'.present /\ record'.generation = Opened.generation

\* A hydration under way keeps what it started from.
LEMMA ProceedsKeeps ==
    ASSUME SavedConstants, TurnsInv, Proceeds
    PROVE  TurnsInv'
<1>1. /\ Shapes /\ NumberedSoFar /\ DefaultOnly /\ NothingAhead /\ RecordKept /\ LaneKept /\ StragglerServes
      /\ RunServes /\ HydrationKept /\ StaleUnread /\ LaggardsKnown /\ ReplacedLeave
    BY DEF TurnsInv
<1>2. UNCHANGED <<bound, lane, snapshot, memory, turnRun, straggler, minted, finished, dead, spoilt>>
    BY DEF Proceeds
<1>3. /\ turn.pc # "idle" /\ turn'.pc # "idle" /\ turn'.pc # "hydrated" /\ turn.pc # "hydrated"
      /\ turn.pc \in {"settling", "forgetting", "reading", "read"}
      /\ turn'.pc \in {"settling", "forgetting", "reading", "read"}
    BY DEF Proceeds, Hydrating
<1>4. Active' = Active
    BY <1>2 DEF Active
<1>5. /\ Vouched => Vouched'
      /\ \A o \in Copies : (Lags(o)' <=> Lags(o)) /\ (Lags(o)' => ~HoldsLatest(o)')
      /\ RecordKept'
  <2>1. CASE record'.present = record.present /\ record'.generation = record.generation
    <3>1. \A o \in Copies : (Lags(o)' <=> Lags(o)) /\ (HoldsLatest(o)' <=> HoldsLatest(o))
      BY <1>2, <1>4, <2>1 DEF Lags, HoldsLatest, Proceeds
    <3>2. Vouched <=> Vouched'
      BY <2>1 DEF Vouched, Proceeds
    <3> QED
      BY <1>1, <1>2, <2>1, <3>1, <3>2 DEF LaggardsKnown, RecordKept, Proceeds
  <2>2. CASE record'.present /\ record'.generation = Opened.generation
    <3>1. \A o \in Copies : Lags(o)' <=> Lags(o)
      BY <1>2, <1>4 DEF Lags
    <3> QED
      BY <1>1, <2>2, <3>1, OpenedKeeps DEF RecordKept, Vouched, HoldsLatest, Proceeds
  <2> QED
    BY <2>1, <2>2 DEF Proceeds
<1>6. Shapes'
    BY <1>1, <1>2 DEF Shapes, Proceeds
<1>7. NumberedSoFar' /\ DefaultOnly' /\ NothingAhead'
    BY <1>1, <1>2 DEF NumberedSoFar, DefaultOnly, NothingAhead, Proceeds
<1>8. LaneKept'
  <2>1. \A i \in DOMAIN lane : ~(memory'[lane[i].copy][Active'] # Void /\ memory'[lane[i].copy][Active'] < finished)
    BY <1>1, <1>2, <1>4 DEF LaneKept, Lags
  <2>2. lane \in Seq(Jobs) /\ \A i \in DOMAIN lane : i \in Nat /\ i > 0
    <3>1. lane \in Seq(Jobs)
      BY <1>1 DEF Shapes
    <3> QED
      BY <3>1
  <2>3. turn'.pc = "settling" => turn'.waits \in Nat
    BY DEF Proceeds, turn, Requests, Hydrations
  <2>4. \A i \in DOMAIN lane :
           /\ turn'.pc \in {"forgetting", "reading", "read"} => lane[i].copy = turn'.copy
           /\ turn'.pc = "settling" /\ i > turn'.waits => lane[i].copy = turn'.copy
    BY <1>1, <1>3, <2>2, <2>3 DEF LaneKept, Proceeds
  <2> QED
    BY <1>1, <1>2, <1>3, <2>1, <2>4 DEF LaneKept, Lags
<1>9. StragglerServes'
    BY <1>1, <1>2, <1>3, <1>5 DEF StragglerServes, Proceeds, Shapes
<1>10. RunServes'
    BY <1>1, <1>2, <1>3 DEF RunServes
<1>11. HydrationKept'
  <2>1. Hydrating
    BY DEF Proceeds
  <2> QED
    BY <1>1, <1>2, <1>3, <1>4, <2>1 DEF HydrationKept, Hydrating, Proceeds
<1>12. StaleUnread'
    BY <1>1, <1>2, <1>3 DEF StaleUnread, Proceeds
<1>13. LaggardsKnown'
    BY <1>1, <1>2, <1>3, <1>5 DEF LaggardsKnown, Proceeds
<1>14. ReplacedLeave'
    BY <1>1, <1>2, <1>4 DEF ReplacedLeave, SupersededLeavesDisk
<1> QED
    BY <1>5, <1>6, <1>7, <1>8, <1>9, <1>10, <1>11, <1>12, <1>13, <1>14 DEF TurnsInv

\* A hydration that is over, as the actions say it.
LEMMA OverIs ==
    ASSUME SavedConstants, TurnsInv, NEW r \in Requests, requests[r].pc \in {"settling", "forgetting", "reading", "read"}
    PROVE  /\ r = "turn" /\ requests[r] = turn /\ Hydrating /\ turn \in Hydrations
           /\ turn.pc \in {"reading", "read"} => record.present /\ turn.generation <= record.generation
           /\ HoldsLatest(turn.copy) => ~Lags(turn.copy) /\ Vouched
           /\ record \in Records /\ turn.copy \in Copies /\ Void \notin Conversations
           /\ record.present => Opened.generation = record.generation
           /\ Opened \in Records /\ Opened.present /\ Opened.held = record.held /\ Opened.unsaved = record.unsaved
           /\ record.unsaved => record.present /\ Vouched
<1>1. /\ Shapes /\ HydrationKept /\ LaggardsKnown /\ RecordKept /\ NumberedSoFar
    BY DEF TurnsInv
<1>2. r = "turn" /\ requests[r] = turn /\ Hydrating
    BY <1>1, OnlyTheTurn DEF Hydrating
<1>3. turn \in Hydrations /\ record \in Records
    BY <1>1, <1>2 DEF Shapes
<1>4. turn.copy \in Copies /\ (turn.pc \in {"reading", "read"}
          => record.present /\ turn.generation <= record.generation)
    BY <1>1, <1>2 DEF HydrationKept, Hydrating
<1>5. HoldsLatest(turn.copy) => ~Lags(turn.copy) /\ Vouched
    BY <1>1, <1>4 DEF LaggardsKnown, HoldsLatest, Vouched
<1>6. /\ record.present => Opened.generation = record.generation
      /\ Opened \in Records /\ Opened.present /\ Opened.held = record.held /\ Opened.unsaved = record.unsaved
      /\ record.unsaved => record.present /\ Vouched
    BY <1>1, OpenedKeeps
<1>7. Void \notin Conversations
    BY <1>1, Plain
<1> QED
    BY <1>2, <1>3, <1>4, <1>5, <1>6, <1>7

\* The writes before the hydration have ended.
LEMMA SettledKeeps ==
    ASSUME SavedConstants, TurnsInv, NEW r \in Requests, Settled(r)
    PROVE  TurnsInv'
<1>1. requests[r].pc = "settling" /\ requests[r].waits = 0
      /\ UNCHANGED <<bound, lane, snapshot, turnRun, straggler, minted, finished, dead, spoilt>>
    BY DEF Settled
<1>2. /\ r = "turn" /\ requests[r] = turn /\ Hydrating /\ turn \in Hydrations
      /\ HoldsLatest(turn.copy) => ~Lags(turn.copy) /\ Vouched
      /\ record \in Records /\ turn.copy \in Copies /\ Void \notin Conversations
      /\ record.present => Opened.generation = record.generation
      /\ record.unsaved => record.present /\ Vouched
    BY <1>1, OverIs
<1>3. /\ turn.bound # bound => turn.bound = Default /\ bound = Void
      /\ \/ MemoryAfterMove(turn) = Cleared(turn.copy, Active)
         \/ MemoryAfterMove(turn) = memory /\ ~Lags(turn.copy)
    BY <1>2, EntryIsSame
<1>4. CASE turn.bound # Void /\ HoldsLatest(turn.copy)
  <2>1. requests' = [requests EXCEPT !["turn"] = Over("turn")] /\ UNCHANGED <<record, memory>>
    BY <1>2, <1>4 DEF Settled
  <2>2. GoesOn
    BY <1>1, <1>2, <1>4, <2>1 DEF GoesOn
  <2> QED
    BY <2>2, GoesOnKeeps
<1>5. CASE ~(turn.bound # Void /\ HoldsLatest(turn.copy)) /\ record.unsaved
  <2>1. /\ requests' = [requests EXCEPT !["turn"] = Over("turn")]
        /\ IF bound # turn.bound THEN memory' = MemoryAfterMove(turn) /\ UNCHANGED record
           ELSE IF HoldsLatest(turn.copy) THEN UNCHANGED <<record, memory>>
           ELSE GiveUp(turn, record)
    BY <1>2, <1>5 DEF Settled
  <2>2. CASE bound # turn.bound
    <3>1. turn.bound # Void
      BY <1>2, <1>3, <2>2, Plain DEF TurnsInv
    <3>2. GoesOn
      BY <1>1, <1>2, <1>3, <2>1, <2>2, <3>1 DEF GoesOn
    <3> QED
      BY <3>2, GoesOnKeeps
  <2>3. CASE bound = turn.bound /\ HoldsLatest(turn.copy)
    <3>1. GoesOn
      BY <1>1, <1>2, <2>1, <2>3 DEF GoesOn
    <3> QED
      BY <3>1, GoesOnKeeps
  <2>4. CASE bound = turn.bound /\ ~HoldsLatest(turn.copy)
    <3>1. GiveUp(turn, record)
      BY <2>1, <2>4
    <3>2. record.present /\ record.generation = Opened.generation
      BY <1>2, <1>5
    <3>3. /\ record' \in Records /\ record'.present /\ record'.generation = Opened.generation
          /\ record'.unsaved = record.unsaved /\ record'.held[turn.copy] = record'.generation
          /\ \A o \in Copies \ {turn.copy} : record'.held[o] = record.held[o]
          /\ memory' = Cleared(turn.copy, Active)
      BY <1>2, <3>1, <3>2, GaveUp
    <3>4. GoesOn
      BY <1>1, <1>2, <2>1, <3>3 DEF GoesOn
    <3> QED
      BY <3>4, GoesOnKeeps
  <2> QED
    BY <2>2, <2>3, <2>4
<1>6. CASE ~(turn.bound # Void /\ HoldsLatest(turn.copy)) /\ ~record.unsaved
  <2>1. requests' = [requests EXCEPT !["turn"].pc = "forgetting"] /\ UNCHANGED <<record, memory>>
    BY <1>2, <1>6 DEF Settled
  <2>2. requests \in [Requests -> Hydrations]
    BY DEF TurnsInv, Shapes
  <2>3. turn' = [turn EXCEPT !.pc = "forgetting"] /\ requests' = [requests EXCEPT !["turn"] = turn']
    BY <2>1, <2>2 DEF turn, Requests
  <2>4. /\ turn' \in Hydrations /\ turn'.pc = "forgetting" /\ turn'.copy = turn.copy /\ turn'.bound = turn.bound
        /\ turn'.conversation = turn.conversation /\ turn'.entry = turn.entry /\ turn'.replaced = turn.replaced
        /\ turn'.read = turn.read
    BY <1>2, <2>3 DEF Hydrations
  <2>5. requests' \in [Requests -> Hydrations] /\ requests'["helper"] = requests["helper"]
    BY <2>2, <2>3, <2>4 DEF Requests
  <2>6. Proceeds
    BY <1>1, <1>2, <1>6, <2>1, <2>4, <2>5 DEF Proceeds
  <2> QED
    BY <2>6, ProceedsKeeps
<1> QED
    BY <1>4, <1>5, <1>6

\* A read begins at the present generation.
LEMMA ReadBeginsKeeps ==
    ASSUME SavedConstants, TurnsInv, NEW r \in Requests, ReadBegins(r)
    PROVE  TurnsInv'
<1>1. /\ requests[r].pc = "forgetting" /\ record' = [Opened EXCEPT !.reading = Opened.reading + 1]
      /\ UNCHANGED <<bound, lane, snapshot, memory, turnRun, straggler, minted, finished, dead, spoilt>>
    BY DEF ReadBegins
<1>2. /\ r = "turn" /\ requests[r] = turn /\ Hydrating /\ turn \in Hydrations
      /\ Opened \in Records /\ Opened.present /\ Opened.held = record.held /\ Opened.unsaved = record.unsaved
    BY <1>1, OverIs
<1>3. Opened.reading + 1 \in Int /\ Opened.generation \in Nat
    BY <1>2 DEF Records
<1>4. /\ record' \in Records /\ record'.present /\ record'.generation = Opened.generation
      /\ record'.unsaved = record.unsaved /\ record'.held = record.held
    BY <1>1, <1>2, <1>3, ReadingIs
<1>5. requests \in [Requests -> Hydrations]
    BY DEF TurnsInv, Shapes
<1>6. turn' = [turn EXCEPT !.pc = "reading", !.generation = Opened.generation]
      /\ requests' = [requests EXCEPT !["turn"] = turn']
    BY <1>2, <1>5 DEF ReadBegins, turn, Requests
<1>7. /\ turn' \in Hydrations /\ turn'.pc = "reading" /\ turn'.copy = turn.copy /\ turn'.bound = turn.bound
      /\ turn'.conversation = turn.conversation /\ turn'.entry = turn.entry /\ turn'.replaced = turn.replaced
      /\ turn'.read = turn.read /\ turn'.generation = Opened.generation
    BY <1>2, <1>3, <1>6 DEF Hydrations
<1>8. requests' \in [Requests -> Hydrations] /\ requests'["helper"] = requests["helper"]
    BY <1>5, <1>6, <1>7 DEF Requests
<1>9. Proceeds
    BY <1>1, <1>2, <1>3, <1>4, <1>7, <1>8 DEF Proceeds
<1> QED
    BY <1>9, ProceedsKeeps

\* What the read sees is on disk.
LEMMA ReadDiskKeeps ==
    ASSUME SavedConstants, TurnsInv, NEW r \in Requests, NEW usable \in BOOLEAN, ReadDisk(r, usable)
    PROVE  TurnsInv'
<1>1. /\ requests[r].pc = "reading"
      /\ UNCHANGED <<bound, record, lane, snapshot, memory, turnRun, straggler, minted, finished,
                     dead, spoilt>>
    BY DEF ReadDisk
<1>2. /\ r = "turn" /\ requests[r] = turn /\ Hydrating /\ turn \in Hydrations /\ record \in Records
      /\ record.present /\ turn.generation <= record.generation
    BY <1>1, OverIs
<1> DEFINE x == IF usable THEN snapshot ELSE Void
<1>3. requests \in [Requests -> Hydrations] /\ x \in Snapshots \union {Void}
    BY DEF TurnsInv, Shapes
<1>4. turn' = [turn EXCEPT !.pc = "read", !.read = x] /\ requests' = [requests EXCEPT !["turn"] = turn']
    BY <1>2, <1>3 DEF ReadDisk, turn, Requests
<1> HIDE DEF x
<1>5. /\ turn' \in Hydrations /\ turn'.pc = "read" /\ turn'.copy = turn.copy /\ turn'.bound = turn.bound
      /\ turn'.conversation = turn.conversation /\ turn'.entry = turn.entry /\ turn'.replaced = turn.replaced
      /\ turn'.read = x /\ turn'.generation = turn.generation
    BY <1>2, <1>3, <1>4 DEF Hydrations
<1>6. requests' \in [Requests -> Hydrations] /\ requests'["helper"] = requests["helper"]
    BY <1>3, <1>4, <1>5 DEF Requests
<1>7. Proceeds
    BY <1>1, <1>2, <1>5, <1>6 DEF Proceeds, x
<1> QED
    BY <1>7, ProceedsKeeps

\* A read that throws leaves the copy what it had only if that is the latest.
LEMMA ReadThrowsKeeps ==
    ASSUME SavedConstants, TurnsInv, NEW r \in Requests, ReadThrows(r)
    PROVE  TurnsInv'
<1>1. requests[r].pc \in {"forgetting", "reading"}
      /\ UNCHANGED <<bound, lane, snapshot, turnRun, straggler, minted, finished, dead, spoilt>>
    BY DEF ReadThrows
<1>2. /\ r = "turn" /\ requests[r] = turn /\ Hydrating /\ turn \in Hydrations
      /\ HoldsLatest(turn.copy) => ~Lags(turn.copy) /\ Vouched
      /\ record \in Records /\ turn.copy \in Copies /\ Void \notin Conversations
      /\ Opened \in Records /\ Opened.present /\ Opened.held = record.held /\ Opened.unsaved = record.unsaved
    BY <1>1, OverIs
<1>3. /\ turn.bound # bound => turn.bound = Default /\ bound = Void
      /\ \/ MemoryAfterMove(turn) = Cleared(turn.copy, Active)
         \/ MemoryAfterMove(turn) = memory /\ ~Lags(turn.copy)
      /\ SameEntry(turn)
    BY <1>2, EntryIsSame
<1> DEFINE n == IF turn.pc = "forgetting" THEN Opened.reading ELSE Opened.reading - 1
           rec == [Opened EXCEPT !.reading = n]
           same == [record EXCEPT !.reading = n]
<1>4. n \in Int
    BY <1>2 DEF Records
<1>5. /\ requests' = [requests EXCEPT !["turn"] = Over("turn")]
      /\ IF bound # turn.bound THEN memory' = MemoryAfterMove(turn) /\ record' = [record EXCEPT !.reading = rec.reading]
         ELSE IF ~HoldsLatest(turn.copy) /\ SameEntry(turn) THEN GiveUp(turn, rec)
         ELSE UNCHANGED memory /\ record' = [record EXCEPT !.reading = rec.reading]
    BY <1>2 DEF ReadThrows
<1> HIDE DEF n
<1>6. /\ rec \in Records /\ rec.present /\ rec.generation = Opened.generation /\ rec.unsaved = record.unsaved
      /\ rec.held = record.held /\ rec.reading = n
    BY <1>2, <1>4, ReadingIs
<1>7. /\ same \in Records /\ same.present = record.present /\ same.generation = record.generation
      /\ same.unsaved = record.unsaved /\ same.held = record.held
    BY <1>2, <1>4, ReadingIs
<1>8. [record EXCEPT !.reading = rec.reading] = same
    BY <1>6
<1> HIDE DEF rec, same
<1>9. CASE bound # turn.bound
  <2>1. turn.bound # Void
    BY <1>2, <1>3, <1>9, Plain DEF TurnsInv
  <2>2. GoesOn
    BY <1>1, <1>2, <1>3, <1>5, <1>7, <1>8, <1>9, <2>1 DEF GoesOn
  <2> QED
    BY <2>2, GoesOnKeeps
<1>10. CASE bound = turn.bound /\ ~HoldsLatest(turn.copy)
  <2>1. GiveUp(turn, rec)
    BY <1>3, <1>5, <1>10
  <2>2. /\ record' \in Records /\ record'.present /\ record'.generation = Opened.generation
        /\ record'.unsaved = record.unsaved /\ record'.held[turn.copy] = record'.generation
        /\ \A o \in Copies \ {turn.copy} : record'.held[o] = record.held[o]
        /\ memory' = Cleared(turn.copy, Active)
    BY <1>2, <1>6, <2>1, GaveUp
  <2>3. GoesOn
    BY <1>1, <1>2, <1>5, <2>2 DEF GoesOn
  <2> QED
    BY <2>3, GoesOnKeeps
<1>11. CASE bound = turn.bound /\ HoldsLatest(turn.copy)
  <2>1. GoesOn
    BY <1>1, <1>2, <1>5, <1>7, <1>8, <1>11 DEF GoesOn
  <2> QED
    BY <2>1, GoesOnKeeps
<1> QED
    BY <1>9, <1>10, <1>11

\* A read that may be older than a write is made again, or given up.
LEMMA ReadAgainKeeps ==
    ASSUME SavedConstants, TurnsInv, NEW r \in Requests, ReadAgain(r)
    PROVE  TurnsInv'
<1>1. requests[r].pc = "read"
      /\ UNCHANGED <<bound, lane, snapshot, turnRun, straggler, minted, finished, dead, spoilt>>
    BY DEF ReadAgain
<1>2. /\ r = "turn" /\ requests[r] = turn /\ Hydrating /\ turn \in Hydrations
      /\ record.present
      /\ record \in Records /\ turn.copy \in Copies /\ Void \notin Conversations
      /\ Opened.generation = record.generation
    BY <1>1, OverIs
<1>3. /\ turn.bound # bound => turn.bound = Default /\ bound = Void
      /\ \/ MemoryAfterMove(turn) = Cleared(turn.copy, Active)
         \/ MemoryAfterMove(turn) = memory /\ ~Lags(turn.copy)
    BY <1>2, EntryIsSame
<1> DEFINE rec == [record EXCEPT !.reading = record.reading - 1]
<1>4. record.reading - 1 \in Int
    BY <1>2 DEF Records
<1>5. /\ rec \in Records /\ rec.present = record.present /\ rec.generation = record.generation
      /\ rec.unsaved = record.unsaved /\ rec.held = record.held
    BY <1>2, <1>4, ReadingIs
<1>6. IF turn.attempt < 3
      THEN /\ requests' = [requests EXCEPT !["turn"] =
                             [turn EXCEPT !.pc = "settling", !.attempt = turn.attempt + 1, !.waits = Len(lane),
                                          !.generation = 0, !.read = Void]]
           /\ record' = rec /\ UNCHANGED memory
      ELSE /\ requests' = [requests EXCEPT !["turn"] = Over("turn")]
           /\ IF bound # turn.bound THEN memory' = MemoryAfterMove(turn) /\ record' = rec ELSE GiveUp(turn, rec)
    BY <1>2 DEF ReadAgain
<1> HIDE DEF rec
<1>7. CASE turn.attempt < 3
  <2>1. requests \in [Requests -> Hydrations] /\ lane \in Seq(Jobs)
    BY DEF TurnsInv, Shapes
  <2>2. Len(lane) \in Nat /\ DOMAIN lane = 1..Len(lane) /\ turn.attempt + 1 \in Nat
    BY <1>2, <2>1 DEF Hydrations
  <2>3. turn' = [turn EXCEPT !.pc = "settling", !.attempt = turn.attempt + 1, !.waits = Len(lane),
                             !.generation = 0, !.read = Void]
        /\ requests' = [requests EXCEPT !["turn"] = turn']
    BY <1>6, <1>7, <2>1 DEF turn, Requests
  <2>4. /\ turn' \in Hydrations /\ turn'.pc = "settling" /\ turn'.copy = turn.copy /\ turn'.bound = turn.bound
        /\ turn'.conversation = turn.conversation /\ turn'.entry = turn.entry /\ turn'.replaced = turn.replaced
        /\ turn'.read = Void /\ turn'.waits = Len(lane)
    BY <1>2, <2>2, <2>3 DEF Hydrations
  <2>5. requests' \in [Requests -> Hydrations] /\ requests'["helper"] = requests["helper"]
    BY <2>1, <2>3, <2>4 DEF Requests
  <2>6. \A i \in DOMAIN lane : i <= turn'.waits
    BY <2>2, <2>4
  <2>7. Proceeds
    BY <1>1, <1>2, <1>5, <1>6, <1>7, <2>4, <2>5, <2>6 DEF Proceeds
  <2> QED
    BY <2>7, ProceedsKeeps
<1>8. CASE ~(turn.attempt < 3) /\ bound # turn.bound
  <2>1. turn.bound # Void
    BY <1>2, <1>3, <1>8, Plain DEF TurnsInv
  <2>2. GoesOn
    BY <1>1, <1>2, <1>3, <1>5, <1>6, <1>8, <2>1 DEF GoesOn
  <2> QED
    BY <2>2, GoesOnKeeps
<1>9. CASE ~(turn.attempt < 3) /\ bound = turn.bound
  <2>1. GiveUp(turn, rec) /\ requests' = [requests EXCEPT !["turn"] = Over("turn")]
    BY <1>6, <1>9
  <2>2. /\ record' \in Records /\ record'.present /\ record'.generation = Opened.generation
        /\ record'.unsaved = record.unsaved /\ record'.held[turn.copy] = record'.generation
        /\ \A o \in Copies \ {turn.copy} : record'.held[o] = record.held[o]
        /\ memory' = Cleared(turn.copy, Active)
    BY <1>2, <1>5, <2>1, GaveUp
  <2>3. GoesOn
    BY <1>1, <1>2, <2>1, <2>2 DEF GoesOn
  <2> QED
    BY <2>3, GoesOnKeeps
<1> QED
    BY <1>7, <1>8, <1>9


\* What was read is taken over: the binding is the snapshot's, the copy holds
\* what the snapshot has, and counts as holding the present generation.
TakesOver(k) ==
    /\ Hydrating /\ lane = <<>> /\ record.present
    /\ snapshot # Void /\ snapshot.conversation = k
    /\ bound \in {Void, k}
    /\ snapshot.upto # Void => snapshot.upto >= finished
    /\ requests' = [requests EXCEPT !["turn"] = Over("turn")]
    /\ bound' = k /\ dead' = dead \ {k}
    /\ UNCHANGED <<lane, snapshot, turnRun, straggler, minted, finished, spoilt>>
    /\ record' \in Records /\ record'.present /\ record'.unsaved = record.unsaved
    /\ record'.generation = record.generation /\ record'.held[turn.copy] = record'.generation
    /\ \A o \in Copies \ {turn.copy} : record'.held[o] = record.held[o]
    /\ \E u \in {Void, snapshot.upto, memory[turn.copy][k]} :
          /\ memory' = [memory EXCEPT ![turn.copy][k] = u]
          /\ u # Void => u >= finished

\* A snapshot taken over holds every finished turn.
LEMMA TakesOverKeeps ==
    ASSUME SavedConstants, TurnsInv, NEW k \in Conversations, TakesOver(k)
    PROVE  TurnsInv'
<1>1. /\ Shapes /\ NumberedSoFar /\ DefaultOnly /\ NothingAhead /\ RecordKept /\ LaneKept /\ StragglerServes
      /\ RunServes /\ HydrationKept /\ StaleUnread /\ LaggardsKnown /\ ReplacedLeave
    BY DEF TurnsInv
<1>2. /\ Void \notin Copies /\ Void \notin Conversations /\ Void \notin Upto /\ Void \notin Int
      /\ Void \notin Snapshots /\ Active \in Conversations /\ Active <= minted /\ minted \in Nat
      /\ finished \in Nat /\ MaxTurns \in Nat /\ MaxConversations \in Nat
    BY <1>1, Plain
<1> DEFINE c == turn.copy
<1>3. /\ Hydrating /\ lane = <<>> /\ snapshot # Void /\ snapshot.conversation = k /\ bound \in {Void, k}
      /\ snapshot.upto # Void => snapshot.upto >= finished
      /\ requests' = [requests EXCEPT !["turn"] = Over("turn")] /\ bound' = k /\ dead' = dead \ {k}
      /\ UNCHANGED <<lane, snapshot, turnRun, straggler, minted, finished, spoilt>>
    BY DEF TakesOver
<1>4. /\ c \in Copies /\ finished < MaxTurns /\ turn.pc # "idle" /\ turnRun.phase = "none"
    BY <1>1, <1>3 DEF HydrationKept, Hydrating, RunServes
<1>5. /\ requests' \in [Requests -> Hydrations] /\ requests'["helper"] = Idle
      /\ turn' \in Hydrations /\ turn'.pc = "hydrated" /\ turn'.copy = c /\ turn'.bound = Void /\ turn'.read = Void
  <2>1. requests \in [Requests -> Hydrations] /\ requests["helper"] = Idle
    BY <1>1 DEF Shapes, HydrationKept
  <2>2. Idle \in Hydrations /\ Idle.bound = Void /\ Idle.read = Void
    BY <2>1 DEF Requests, Idle
  <2>3. Over("turn") = [Idle EXCEPT !.pc = "hydrated", !.copy = c]
    BY DEF Over, turn
  <2>4. /\ Over("turn") \in Hydrations /\ Over("turn").pc = "hydrated" /\ Over("turn").copy = c
        /\ Over("turn").bound = Void /\ Over("turn").read = Void
    BY <1>4, <2>2, <2>3 DEF Hydrations
  <2> QED
    BY <1>3, <2>1, <2>4 DEF turn, Requests
<1>6. Active' = k
    BY <1>2, <1>3 DEF Active
<1>7. PICK u \in {Void, snapshot.upto, memory[c][k]} :
         memory' = [memory EXCEPT ![c][k] = u] /\ (u # Void => u >= finished)
    BY DEF TakesOver
<1>8. memory \in [Copies -> [Conversations -> Upto \union {Void}]] /\ snapshot \in Snapshots
    BY <1>1, <1>3 DEF Shapes
<1>9. u \in Upto \union {Void} /\ (u # Void => u <= finished + 1)
    BY <1>1, <1>3, <1>4, <1>7, <1>8 DEF NothingAhead, Snapshots
<1>10. /\ memory' \in [Copies -> [Conversations -> Upto \union {Void}]]
       /\ memory'[c][k] = u
       /\ \A o \in Copies, l \in Conversations : o # c \/ l # k => memory'[o][l] = memory[o][l]
    BY <1>4, <1>7, <1>8, <1>9
<1>11. /\ ~(memory'[c][k] # Void /\ memory'[c][k] < finished)
       /\ \A o \in Copies : o # c /\ memory'[o][k] # Void => k = Active
  <2>1. ~(memory'[c][k] # Void /\ memory'[c][k] < finished)
    BY <1>2, <1>7, <1>9, <1>10 DEF Upto
  <2>2. \A o \in Copies : o # c /\ memory'[o][k] # Void => k = Active
    BY <1>1, <1>3, <1>10 DEF DefaultOnly, Active
  <2> QED
    BY <2>1, <2>2
<1>12. \A o \in Copies : Lags(o)' => Lags(o) /\ o # c
    BY <1>3, <1>6, <1>10, <1>11 DEF Lags
<1>13. /\ record' \in Records /\ record'.present /\ record'.unsaved = record.unsaved /\ record.present
       /\ record'.generation = record.generation /\ record'.held[c] = record'.generation
       /\ \A o \in Copies \ {c} : record'.held[o] = record.held[o]
    BY DEF TakesOver
<1>14. Shapes'
    BY <1>1, <1>3, <1>5, <1>10, <1>13 DEF Shapes
<1>15. NumberedSoFar'
    BY <1>1, <1>2, <1>3, <1>5, <1>10 DEF NumberedSoFar, Conversations
<1>16. DefaultOnly'
    BY <1>1, <1>2, <1>3, <1>10 DEF DefaultOnly
<1>17. NothingAhead'
    BY <1>1, <1>2, <1>3, <1>5, <1>9, <1>10 DEF NothingAhead
<1>18. Vouched'
    BY <1>4, <1>13 DEF Vouched
<1>19. RecordKept'
  <2>1. record.generation \in Nat /\ record.held \in [Copies -> Nat] /\ record'.held \in [Copies -> Nat]
    BY <1>1, <1>13 DEF Shapes, Records
  <2> QED
    BY <1>1, <1>3, <1>4, <1>13, <1>18, <2>1 DEF RecordKept
<1>20. LaggardsKnown'
    BY <1>1, <1>12, <1>13, <1>18 DEF LaggardsKnown, HoldsLatest
<1>21. LaneKept'
  <2>1. DOMAIN lane' = {}
    BY <1>3
  <2> QED
    BY <2>1 DEF LaneKept
<1>22. StragglerServes'
    BY <1>1, <1>3, <1>4, <1>5, <1>6, <1>11 DEF StragglerServes, Lags
<1>23. RunServes'
    BY <1>3, <1>4 DEF RunServes
<1>24. HydrationKept'
    BY <1>3, <1>4, <1>5, <1>6, <1>11 DEF HydrationKept, Hydrating, Lags
<1>25. StaleUnread'
    BY <1>2, <1>3, <1>8 DEF StaleUnread, Snapshots, Upto
<1>26. ReplacedLeave'
    BY <1>3, <1>6 DEF ReplacedLeave, SupersededLeavesDisk
<1> QED
    BY <1>14, <1>15, <1>16, <1>17, <1>19, <1>20, <1>21, <1>22, <1>23, <1>24, <1>25, <1>26 DEF
       TurnsInv

\* A checkpoint that is set in another conversation is not seen replaced.
LEMMA NoneSeesIt ==
    ASSUME SavedConstants, TurnsInv, NEW k \in Conversations, Hydrating
    PROVE  LET over == [requests EXCEPT !["turn"] = Over("turn")] IN SeenReplaced(over, turn.copy, k) = over
<1> DEFINE over == [requests EXCEPT !["turn"] = Over("turn")]
<1>1. requests \in [Requests -> Hydrations] /\ requests["helper"] = Idle /\ Void \notin Conversations
    BY Plain DEF TurnsInv, Shapes, HydrationKept
<1>2. over["turn"] = Over("turn") /\ over["helper"] = Idle /\ over = [r \in Requests |-> over[r]]
    BY <1>1 DEF Requests
<1>3. Over("turn").conversation = Void /\ Idle.conversation = Void
    BY DEF Over, Idle
<1>4. \A r \in Requests : over[r].conversation # k
    BY <1>1, <1>2, <1>3 DEF Requests
<1> HIDE DEF over
<1>5. SeenReplaced(over, turn.copy, k) = [r \in Requests |-> over[r]]
    BY <1>4 DEF SeenReplaced
<1> QED
    BY <1>2, <1>5 DEF over

\* A read that counts: what it found is taken over, or the copy goes on with a
\* checkpoint no other copy has left behind, or with none.
LEMMA RestoreKeeps ==
    ASSUME SavedConstants, TurnsInv, NEW r \in Requests, Restore(r)
    PROVE  TurnsInv'
<1>1. /\ requests[r].pc = "read" /\ record.generation = requests[r].generation /\ ~Queued(Copies)
      /\ UNCHANGED <<lane, snapshot, turnRun, straggler, minted, finished, spoilt>>
    BY DEF Restore
<1>2. /\ r = "turn" /\ requests[r] = turn /\ Hydrating /\ turn \in Hydrations
      /\ record.present /\ record \in Records /\ turn.copy \in Copies /\ Void \notin Conversations
      /\ HoldsLatest(turn.copy) => ~Lags(turn.copy) /\ Vouched
      /\ Opened.generation = record.generation
    BY <1>1, OverIs
<1>3. /\ turn.conversation = Active
      /\ turn.bound # bound => turn.bound = Default /\ bound = Void
      /\ \/ MemoryAfterMove(turn) = Cleared(turn.copy, Active)
         \/ MemoryAfterMove(turn) = memory /\ ~Lags(turn.copy)
    BY <1>2, EntryIsSame
<1>4. /\ Shapes /\ NumberedSoFar /\ RecordKept /\ StragglerServes /\ HydrationKept /\ StaleUnread /\ LaggardsKnown
    BY DEF TurnsInv
<1>5. lane = <<>>
  <2>1. lane \in Seq(Jobs)
    BY <1>4 DEF Shapes
  <2>2. lane # <<>> => 1 \in DOMAIN lane /\ lane[1] \in Jobs
    BY <2>1
  <2> QED
    BY <1>1, <2>2 DEF Queued, Jobs
<1>6. turn.pc = "read" /\ turn.generation = record.generation /\ turn.read \in {Void, snapshot}
    BY <1>1, <1>2, <1>4 DEF HydrationKept
<1> DEFINE c == turn.copy
           n == record.reading - 1
           rec == [record EXCEPT !.reading = n]
           over == [requests EXCEPT !["turn"] = Over("turn")]
           replacing == rec.held[c] # turn.generation
           restores == turn.read # Void /\ (turn.bound = Void \/ turn.read.conversation = bound)
<1>7. n \in Int /\ record.generation \in Nat
    BY <1>2 DEF Records
<1> HIDE DEF n
<1>8. /\ rec \in Records /\ rec.present /\ rec.generation = record.generation /\ rec.unsaved = record.unsaved
      /\ rec.held = record.held
    BY <1>2, <1>7, ReadingIs
<1>9. replacing <=> ~HoldsLatest(c)
    BY <1>2, <1>6, <1>8 DEF HoldsLatest
<1>10. \/ /\ bound # turn.bound
          /\ memory' = MemoryAfterMove(turn) /\ record' = rec /\ requests' = over /\ UNCHANGED <<bound, dead>>
       \/ /\ bound = turn.bound /\ turn.bound # Void /\ ~replacing
          /\ record' = rec /\ requests' = over /\ UNCHANGED <<memory, bound, dead>>
       \/ /\ bound = turn.bound /\ ~restores /\ (turn.bound # Void => replacing)
          /\ requests' = over /\ UNCHANGED <<bound, dead>>
          /\ IF replacing THEN Accept(turn, rec) ELSE record' = rec /\ UNCHANGED memory
       \/ /\ bound = turn.bound /\ restores /\ (turn.bound # Void => replacing)
          /\ bound' = turn.read.conversation /\ dead' = dead \ {turn.read.conversation}
          /\ record' = IF replacing THEN [rec EXCEPT !.held[c] = turn.generation] ELSE rec
          /\ memory' = [memory EXCEPT ![c][turn.read.conversation] =
                            IF turn.read.upto # Void THEN turn.read.upto
                            ELSE IF replacing THEN Void ELSE memory[c][turn.read.conversation]]
          /\ requests' = IF turn.read.upto # Void THEN SeenReplaced(over, c, turn.read.conversation) ELSE over
  <2>1. Restore("turn") /\ requests["turn"] = turn
    BY <1>2
  <2> QED
    BY <2>1 DEF Restore, n
<1> HIDE DEF over, replacing, restores, rec
<1>11. CASE /\ bound # turn.bound
            /\ memory' = MemoryAfterMove(turn) /\ record' = rec /\ requests' = over /\ UNCHANGED <<bound, dead>>
  <2>1. turn.bound # Void
    BY <1>2, <1>3, <1>4, <1>11, Plain
  <2>2. GoesOn
    BY <1>1, <1>2, <1>3, <1>6, <1>8, <1>11, <2>1 DEF GoesOn, over
  <2> QED
    BY <2>2, GoesOnKeeps
<1>12. CASE /\ bound = turn.bound /\ turn.bound # Void /\ ~replacing
            /\ record' = rec /\ requests' = over /\ UNCHANGED <<memory, bound, dead>>
  <2>1. GoesOn
    BY <1>1, <1>2, <1>6, <1>8, <1>9, <1>12 DEF GoesOn, over
  <2> QED
    BY <2>1, GoesOnKeeps
<1>13. CASE /\ bound = turn.bound /\ ~restores /\ (turn.bound # Void => replacing)
            /\ requests' = over /\ UNCHANGED <<bound, dead>>
            /\ IF replacing THEN Accept(turn, rec) ELSE record' = rec /\ UNCHANGED memory
  <2>1. CASE ~replacing
    <3>1. record' = rec /\ UNCHANGED memory /\ HoldsLatest(c)
      BY <1>9, <1>13, <2>1
    <3>2. GoesOn
      BY <1>1, <1>2, <1>6, <1>8, <1>13, <3>1 DEF GoesOn, over
    <3> QED
      BY <3>2, GoesOnKeeps
  <2>2. CASE replacing
    <3>1. Accept(turn, rec)
      BY <1>13, <2>2
    <3>2. record' = [rec EXCEPT !.held[c] = turn.generation]
      BY <3>1 DEF Accept, ReplaceCopyState
    <3>3. /\ record' \in Records /\ record'.present /\ record'.generation = record.generation
          /\ record'.unsaved = record.unsaved /\ record'.held[c] = record'.generation
          /\ \A o \in Copies \ {c} : record'.held[o] = record.held[o]
      BY <1>2, <1>6, <1>7, <1>8, <3>2, HeldIs
    <3>4. memory' = Cleared(c, Active) \/ (memory' = memory /\ ~Lags(c))
      <4>1. CASE turn.bound # Void
        <5>1. turn.bound = Active
          BY <1>13, <4>1 DEF Active
        <5>2. memory' = IF Behind(rec, c) THEN Cleared(c, Active) ELSE memory
          BY <3>1, <4>1, <5>1 DEF Accept, ReplaceCopyState
        <5>3. ~Behind(rec, c) => ~Vouched
          BY <1>2, <1>4, <1>7, <1>8 DEF Behind, Vouched, RecordKept
        <5>4. ~Behind(rec, c) => ~Lags(c)
          BY <1>2, <1>4, <1>5, <1>6, <1>13, <4>1, <5>3 DEF LaggardsKnown, StragglerServes
        <5> QED
          BY <5>2, <5>4
      <4>2. CASE turn.bound = Void
        <5>1. turn.read = Void
          BY <1>13, <4>2 DEF restores
        <5> QED
          BY <1>3, <3>1, <4>2, <5>1 DEF Accept, ReplaceCopyState
      <4> QED
        BY <4>1, <4>2
    <3>5. GoesOn
      BY <1>1, <1>2, <1>6, <1>13, <3>3, <3>4 DEF GoesOn, over
    <3> QED
      BY <3>5, GoesOnKeeps
  <2> QED
    BY <2>1, <2>2
<1>14. CASE /\ bound = turn.bound /\ restores /\ (turn.bound # Void => replacing)
            /\ bound' = turn.read.conversation /\ dead' = dead \ {turn.read.conversation}
            /\ record' = IF replacing THEN [rec EXCEPT !.held[c] = turn.generation] ELSE rec
            /\ memory' = [memory EXCEPT ![c][turn.read.conversation] =
                              IF turn.read.upto # Void THEN turn.read.upto
                              ELSE IF replacing THEN Void ELSE memory[c][turn.read.conversation]]
            /\ requests' = IF turn.read.upto # Void THEN SeenReplaced(over, c, turn.read.conversation) ELSE over
  <2> DEFINE k == turn.read.conversation
  <2>1. turn.read = snapshot /\ snapshot # Void /\ snapshot \in Snapshots /\ k = snapshot.conversation /\ k \in Conversations
    <3>1. turn.read = snapshot /\ snapshot # Void
      BY <1>6, <1>14 DEF restores
    <3>2. snapshot \in Snapshots
      BY <1>4, <3>1 DEF Shapes
    <3> QED
      BY <3>1, <3>2 DEF Snapshots
  <2>2. bound \in {Void, k} /\ (bound # Void => replacing)
    BY <1>14 DEF restores
  <2>3. snapshot.upto # Void => snapshot.upto >= finished
    <3>1. snapshot.upto # Void => snapshot.upto \in Nat /\ finished \in Nat
      BY <1>4, <2>1, Plain DEF Snapshots, Upto
    <3>2. ~(bound \notin {Void, Default} /\ snapshot.conversation # bound)
      BY <2>1, <2>2
    <3> QED
      BY <1>4, <1>6, <2>1, <3>1, <3>2 DEF StaleUnread
  <2>4. requests' = over
    BY <1>2, <1>14, <2>1, NoneSeesIt DEF over
  <2>5. /\ record' \in Records /\ record'.present /\ record'.generation = record.generation
        /\ record'.unsaved = record.unsaved /\ record'.held[c] = record'.generation
        /\ \A o \in Copies \ {c} : record'.held[o] = record.held[o]
    <3>1. CASE replacing
      <4>1. record' = [rec EXCEPT !.held[c] = turn.generation]
        BY <1>14, <3>1
      <4> QED
        BY <1>2, <1>6, <1>7, <1>8, <4>1, HeldIs
    <3>2. CASE ~replacing
      BY <1>8, <1>9, <1>14, <3>2 DEF HoldsLatest
    <3> QED
      BY <3>1, <3>2
  <2> DEFINE u == IF snapshot.upto # Void THEN snapshot.upto ELSE IF replacing THEN Void ELSE memory[c][k]
  <2>6. memory' = [memory EXCEPT ![c][k] = u]
    BY <1>14, <2>1
  <2>7. u \in {Void, snapshot.upto, memory[c][k]}
    OBVIOUS
  <2>8. u # Void => u >= finished
    <3>1. CASE snapshot.upto = Void /\ ~replacing
      <4>1. bound = Void /\ ~Lags(c)
        BY <1>2, <1>9, <2>2, <3>1
      <4>2. memory[c][k] \in Upto \union {Void} /\ finished \in Nat
        BY <1>2, <1>4, <2>1, Plain DEF Shapes
      <4>3. memory[c][k] # Void => k = Active
        BY <1>2, <2>1, <4>1 DEF TurnsInv, DefaultOnly, Active
      <4> QED
        BY <3>1, <4>1, <4>2, <4>3 DEF Lags, Upto
    <3> QED
      BY <2>3, <3>1
  <2> HIDE DEF u
  <2>9. \E v \in {Void, snapshot.upto, memory[c][k]} : memory' = [memory EXCEPT ![c][k] = v] /\ (v # Void => v >= finished)
    BY <2>6, <2>7, <2>8
  <2>10. TakesOver(k)
    BY <1>1, <1>2, <1>5, <1>14, <2>1, <2>2, <2>3, <2>4, <2>5, <2>9 DEF TakesOver, over
  <2> QED
    BY <2>1, <2>10, TakesOverKeeps
<1> QED
  BY <1>10, <1>11, <1>12, <1>13, <1>14

(***************************************************************************)
(* The theorem                                                             *)
(***************************************************************************)

\* No step breaks the invariant.
LEMMA TurnsInvKept ==
    ASSUME SavedConstants, ~Helpers, ~Crowded, TurnsInv, [Next]_vars
    PROVE  TurnsInv'
<1>1. CASE UNCHANGED vars
  BY <1>1 DEF vars, TurnsInv, Shapes, NumberedSoFar, DefaultOnly, NothingAhead, RecordKept,
     LaneKept, StragglerServes,
      RunServes, HydrationKept, Hydrating, StaleUnread, LaggardsKnown, ReplacedLeave, SupersededLeavesDisk,
      Vouched, Lags, HoldsLatest, Active, turn
<1>2. CASE SaveBegins
  BY <1>2, SaveBeginsKeeps
<1>3. CASE SaveLands
  BY <1>3, SaveLandsKeeps
<1>4. CASE DeleteLands \/ DeleteFails
  BY <1>4, DeleteEndsKeeps
<1>5. ASSUME NEW b \in BOOLEAN, SaveFails(b) \/ RunStops(b) \/ RunCheckpoint(b)
      PROVE  TurnsInv'
  BY <1>5, SaveFailsKeeps, RunStopsKeeps, RunCheckpointKeeps
<1>6. ASSUME NEW r \in Requests, NEW c \in Copies, BeginHydration(r, c)
      PROVE  TurnsInv'
  BY <1>6, BeginHydrationKeeps
<1>7. ASSUME NEW r \in Requests, Settled(r) \/ ReadBegins(r) \/ ReadThrows(r) \/ ReadAgain(r) \/ Restore(r)
      PROVE  TurnsInv'
  BY <1>7, SettledKeeps, ReadBeginsKeeps, ReadThrowsKeeps, ReadAgainKeeps, RestoreKeeps
<1>8. ASSUME NEW r \in Requests, NEW usable \in BOOLEAN, ReadDisk(r, usable)
      PROVE  TurnsInv'
  BY <1>8, ReadDiskKeeps
<1>9. CASE SkipHydration
  BY <1>9, SkipHydrationKeeps
<1>10. CASE StartRun
  BY <1>10, StartRunKeeps
<1>11. CASE StartReset
  BY <1>11, StartResetKeeps
<1>12. CASE SaveInProgress \/ LateSave \/ RunEnds
  BY <1>12, RunQueuesKeeps
<1>13. CASE EvictBinding
  BY <1>13, EvictBindingKeeps
<1>14. CASE EvictRecord
  BY <1>14, EvictRecordKeeps
<1>15. CASE Restart
  BY <1>15, RestartKeeps
<1> QED
  BY <1>1, <1>2, <1>3, <1>4, <1>5, <1>6, <1>7, <1>8, <1>9, <1>10, <1>11, <1>12, <1>13, <1>14,
     <1>15 DEF Next

\* No Run resumes a checkpoint that lacks a turn the host has seen finish, and
\* a conversation a reset replaced leaves the disk: whichever copies ran the
\* turns, whatever writes and reads failed, and whenever the process restarted
\* (the comments of hydrateConversationState, replaceCopyState and startSession).
THEOREM TurnsStayKept ==
    ASSUME SavedConstants, ~Helpers, ~Crowded
    PROVE  Spec => []TurnsKept
<1>1. Init => TurnsInv
  BY InitTurns
<1>2. TurnsInv /\ [Next]_vars => TurnsInv'
  BY TurnsInvKept
<1>3. TurnsInv => TurnsKept
  <2> SUFFICES ASSUME TurnsInv PROVE TurnsKept
    OBVIOUS
  <2>1. SupersededLeavesDisk
    BY DEF TurnsInv, ReplacedLeave
  <2>2. turnRun.phase # "none" => turnRun.base \in Nat /\ finished \in Nat /\ finished <= turnRun.base
    BY Plain DEF TurnsInv, Shapes, Runs, Upto, RunServes
  <2> QED
    BY <2>1, <2>2 DEF TurnsKept, NeverResumesBehind
<1> QED
  BY <1>1, <1>2, <1>3, PTL DEF Spec

(***************************************************************************)
(* The context gauge                                                       *)
(***************************************************************************)

Guards == [fresh : BOOLEAN, pending : [used : Nat, at : Nat], model : Nat]
LastReadings == [used : Nat, explained : BOOLEAN, at : Nat]

\* What is held back was first seen in the observation of the last reading, and is a jump.
HeldSince(g, l, j) == g.pending # NoPending => g.pending.at = l.at /\ j = TRUE

GaugeInv ==
    /\ at \in Nat /\ model \in Nat /\ media \in BOOLEAN
    /\ guard \in Guards /\ last \in LastReadings /\ jumped \in BOOLEAN
    /\ saved.guard \in Guards /\ saved.last \in LastReadings /\ saved.jumped \in BOOLEAN
    /\ HeldSince(guard, last, jumped) /\ HeldSince(saved.guard, saved.last, saved.jumped)

\* No step breaks it, also when a restart brings back what was saved.
LEMMA GaugeInvKept ==
    ASSUME ReadingsAreCounts, GaugeInv, [GaugeNext]_gaugeVars
    PROVE  GaugeInv'
<1>1. NoGuard \in Guards /\ NoGuard.pending = NoPending
    BY DEF NoGuard, NoPending, Guards
<1>2. CASE SendsImages \/ UNCHANGED gaugeVars
    BY <1>2 DEF SendsImages, gaugeVars, GaugeInv, HeldSince
<1>3. CASE StepStarts
  <2>1. at' \in Nat /\ model' \in Nat /\ UNCHANGED <<media, guard, last, jumped, saved>>
    BY <1>3 DEF StepStarts, GaugeInv
  <2> QED
    BY <2>1 DEF GaugeInv, HeldSince
<1>4. CASE Saves
    BY <1>4 DEF Saves, GaugeInv, HeldSince
<1>5. CASE GaugeRestored
  <2>1. /\ at' \in Nat /\ model' \in Nat /\ media' \in BOOLEAN
        /\ guard' = saved.guard /\ last' = saved.last /\ jumped' = saved.jumped /\ UNCHANGED saved
    <3>1. at \in Nat /\ model \in Nat /\ at' = at + 1 /\ media' = FALSE /\ model' = model
      BY <1>5 DEF GaugeRestored, GaugeInv
    <3>2. guard' = saved.guard /\ last' = saved.last /\ jumped' = saved.jumped /\ UNCHANGED saved
      BY <1>5 DEF GaugeRestored
    <3>3. at' \in Nat /\ model' \in Nat
      BY <3>1
    <3>4. media' \in BOOLEAN
      BY <3>1
    <3> QED
      BY <3>2, <3>3, <3>4
  <2> QED
    BY <2>1 DEF GaugeInv, HeldSince
<1>6. ASSUME NEW used \in Readings, NEW explained \in BOOLEAN, NEW bypass \in BOOLEAN,
             SetReading(used, explained, bypass)
      PROVE  GaugeInv'
  <2>1. used \in Nat /\ used > 0 /\ at \in Nat /\ model \in Nat
    BY <1>6 DEF ReadingsAreCounts, SetReading, GaugeInv
  <2>2. /\ last' = [used |-> used, explained |-> explained, at |-> at] /\ media' \in BOOLEAN
        /\ UNCHANGED <<at, model, saved>>
    BY <1>6 DEF SetReading, GaugeInv
  <2>3. last' \in LastReadings /\ last'.at = at
    BY <2>1, <2>2 DEF LastReadings
  <2>4. CASE guard' = Admitted(used) /\ jumped' = FALSE
    <3>1. guard' \in Guards /\ guard'.pending = NoPending
      BY <1>1, <2>1, <2>4 DEF Admitted, Guards
    <3>2. jumped' \in BOOLEAN /\ HeldSince(guard', last', jumped')
      BY <2>4, <3>1 DEF HeldSince
    <3>3. at' \in Nat /\ model' \in Nat /\ saved' = saved
      BY <2>1, <2>2
    <3> QED
      BY <2>2, <2>3, <3>1, <3>2, <3>3 DEF GaugeInv
  <2>5. CASE guard' = Held(used) /\ jumped' = TRUE /\ ~Confirmed(used)
    <3>1. guard.pending # NoPending => guard.pending.at = at
      BY <2>5 DEF Confirmed
    <3>2. guard' = [fresh |-> FALSE, model |-> model, pending |-> [used |-> used, at |-> at]]
      BY <2>5, <3>1 DEF Held
    <3>3. guard' \in Guards /\ guard'.pending.at = at
      BY <2>1, <3>2 DEF Guards
    <3> QED
      BY <2>1, <2>2, <2>3, <2>5, <3>3 DEF GaugeInv, HeldSince
  <2> QED
    BY <1>6, <2>4, <2>5 DEF SetReading
<1>7. ASSUME NEW bypass \in BOOLEAN, NEW reading \in BOOLEAN, SetNoReading(bypass, reading)
      PROVE  GaugeInv'
  <2>1. UNCHANGED <<at, model, accepted, last, jumped, saved>> /\ media' \in BOOLEAN
    BY <1>7 DEF SetNoReading, GaugeInv
  <2>2. guard \in Guards /\ model \in Nat
    BY DEF GaugeInv
  <2>3. \/ guard' = [NoGuard EXCEPT !.fresh = TRUE, !.model = model]
        \/ guard' = [guard EXCEPT !.fresh = TRUE]
        \/ guard' = guard
    BY <1>7 DEF SetNoReading
  <2>4. guard' \in Guards /\ guard'.pending \in {NoPending, guard.pending}
    BY <1>1, <2>2, <2>3 DEF Guards
  <2> QED
    BY <2>1, <2>4 DEF GaugeInv, HeldSince
<1> QED
    BY <1>2, <1>3, <1>4, <1>5, <1>6, <1>7 DEF GaugeNext

\* A jump nothing explains is shown at its second reading, whatever readings
\* come, in whatever observations, and whenever the process restarts; and it is
\* shown then (selectCheckpointOccupancy, setCheckpoint).
THEOREM JumpStaysHeld ==
    ASSUME ReadingsAreCounts
    PROVE  GaugeSpec => JumpHeld
<1> DEFINE Seen == accepted > 0 /\ at' = at /\ media' = media
                   /\ ~guard.fresh /\ guard.model = model
                   /\ accepted' # accepted /\ ~last'.explained /\ 4 * accepted' >= 7 * accepted
                   => jumped
<1>1. GaugeInit => GaugeInv
  <2> SUFFICES ASSUME GaugeInit PROVE GaugeInv
    OBVIOUS
  <2>1. NoGuard \in Guards /\ NoReading \in LastReadings /\ NoGuard.pending = NoPending
    BY DEF NoGuard, NoPending, NoReading, Guards, LastReadings
  <2>2. /\ at = 1 /\ model = 1 /\ media = FALSE /\ guard = NoGuard /\ last = NoReading /\ jumped = FALSE
        /\ saved.guard = NoGuard /\ saved.last = NoReading /\ saved.jumped = FALSE
    BY DEF GaugeInit
  <2> QED
    BY <2>1, <2>2 DEF GaugeInv, HeldSince
<1>2. GaugeInv /\ [GaugeNext]_gaugeVars => GaugeInv'
    BY GaugeInvKept
<1>3. GaugeInv' => HoldEnds'
    BY DEF GaugeInv, HeldSince, HoldEnds
<1>4. GaugeInv /\ [GaugeNext]_gaugeVars => [Seen]_gaugeVars
  <2> SUFFICES ASSUME GaugeInv, GaugeNext, accepted > 0, at' = at, media' = media, ~guard.fresh, guard.model = model,
                      accepted' # accepted, ~last'.explained, 4 * accepted' >= 7 * accepted
               PROVE  jumped
    OBVIOUS
  <2>1. ~GaugeRestored
    BY DEF GaugeInv, GaugeRestored
  <2>2. PICK used \in Readings, explained \in BOOLEAN, bypass \in BOOLEAN : SetReading(used, explained, bypass)
    BY <2>1 DEF GaugeNext, StepStarts, SendsImages, Saves, SetNoReading
  <2>3. ~Reset(bypass)
    BY <2>2 DEF GaugeInv, SetReading, Reset
  <2>4. accepted' = used /\ last' = [used |-> used, explained |-> explained, at |-> at]
        /\ (~Jump(used, explained) \/ Confirmed(used))
    BY <2>2, <2>3 DEF SetReading
  <2>5. Jump(used, explained)
    BY <2>4 DEF Jump
  <2>6. guard.pending # NoPending
    BY <2>4, <2>5 DEF Confirmed
  <2> QED
    BY <2>6 DEF GaugeInv, HeldSince
<1> QED
    BY <1>1, <1>2, <1>3, <1>4, PTL DEF GaugeSpec, JumpHeld, JumpSeenTwice

(***************************************************************************)
(* Plans under review (PlanReview)                                         *)
(***************************************************************************)

PlanPhases == {"write", "review"}
Calls ==
    [q : Plans, phase : PlanPhases] \union [q : Switches, phase : {"switch"}]
        \union [q : Questions, phase : {"ask"}]

(* What each variable may hold, as far as the argument needs it.             *)
PlansTypes ==
    /\ planRun \in {"open", "cancelling", "over"}
    /\ asked \in [Queries -> {"new", "open", "answered"}]
    /\ told \in [Queries -> {Unset, "approved", "saved", "ack", "error", "answered"}]
    /\ after \in [Plans -> {Unset, "ack", "hold", "review", "stage"}]
    /\ pending \subseteq Calls /\ batch \subseteq pending
    /\ host \in [Queries -> {Unset, "running", "yes", "no", "feedback"}]
    /\ mem \in [Plans -> {Unset, "write", "review"}]
    /\ onDisk \in [Plans -> {Unset, "write", "review"}]
    /\ unsure \subseteq Plans

(* The calls of the host: at most one for a query, at most one for a plan,   *)
(* and only for a query that Cursor asked; a batch only in a delivery.       *)
CallsKept ==
    /\ pump # "delivering" => batch = {}
    /\ \A c, d \in pending : c.q = d.q \/ (c.q \in Plans /\ d.q \in Plans) => c = d
    /\ \A c \in pending : asked[c.q] # "new" /\ (c.q \in Plans => asked[c.q] = "open")
    /\ \A c \in pending : c.phase = "write" => after[c.q] \in {"ack", "hold", "review"}

NoPlanCalled == \A c \in pending : c.q \notin Plans

(* A plan whose receipt is being saved has no other place.                   *)
SaveKept ==
    /\ saving \in Plans \union {Unset} /\ (pump # "saving" => saving = Unset)
    /\ saving # Unset =>
           /\ NoPlanCalled /\ queued = Unset
           /\ asked[saving] = "open" /\ mem[saving] # Unset
           /\ after[saving] \in {"ack", "hold", "review"}

(* A plan that waits for its review, or for the end of the Run.              *)
QueueKept ==
    /\ queued \in Plans \union {Unset}
    /\ queued # Unset =>
           /\ NoPlanCalled
           /\ \/ after[queued] = "review" /\ asked[queued] = "open"
              \/ after[queued] = "hold" /\ asked[queued] = "answered"

(* An open query of an open Run has a place.                                 *)
OpenPlaced ==
    \A q \in Queries : planRun = "open" /\ asked[q] = "open" =>
        (\E c \in pending : c.q = q) \/ saving = q \/ queued = q

(* A plan the host may have written has its receipt, in memory and on disk.  *)
ReceiptKept ==
    \A q \in unsure :
        asked[q] = "open" /\ q # saving /\ mem[q] # Unset /\ onDisk[q] # Unset

PlansInv ==
    /\ PlansTypes /\ CallsKept /\ SaveKept /\ QueueKept /\ OpenPlaced /\ ReceiptKept
    /\ PlanNotReplayed

LEMMA NoPlanPending ==
    ASSUME QueriesAreApart, PlansTypes, ~PlanPending
    PROVE  NoPlanCalled
<1> SUFFICES ASSUME NEW c \in pending, c.q \in Plans
             PROVE  PlanPending
    BY DEF NoPlanCalled
<1>1. c \in [q : Plans, phase : PlanPhases]
    BY DEF PlansTypes, Calls, QueriesAreApart
<1>2. c = Call(c.q, c.phase) /\ c.phase \in {"write", "review"}
    BY <1>1 DEF Call, PlanPhases
<1> QED
    BY <1>2 DEF PlanPending

LEMMA CreatePlanRefusedKeeps ==
    ASSUME QueriesAreApart, PlansInv, NEW q \in Plans, CreatePlanRefused(q)
    PROVE  PlansInv'
<1>1. PlansTypes'
  BY DEF PlansInv, PlansTypes, calls, CreatePlanRefused, Answer
<1>2. CallsKept'
  BY DEF PlansInv, PlansTypes, CallsKept, Queries, Calls, calls, CreatePlanRefused, Answer
<1>3. SaveKept'
  BY DEF PlansInv, SaveKept, CreatePlanRefused, Reading
<1>4. QueueKept'
  BY DEF QueueKept, CreatePlanRefused, Reading
<1>5. OpenPlaced'
  BY DEF PlansInv, PlansTypes, OpenPlaced, calls, CreatePlanRefused, Answer
<1>6. ReceiptKept'
  BY DEF PlansInv, PlansTypes, ReceiptKept, Queries, CreatePlanRefused, Answer
<1>7. PlanNotReplayed'
  BY DEF PlansInv, PlanNotReplayed, CreatePlanRefused
<1> QED BY <1>1, <1>2, <1>3, <1>4, <1>5, <1>6, <1>7 DEF PlansInv

LEMMA CreatePlanStagesKeeps ==
    ASSUME QueriesAreApart, PlansInv, NEW q \in Plans, CreatePlanStages(q)
    PROVE  PlansInv'
<1>1. PlansTypes'
  BY DEF PlansInv, PlansTypes, Queries, Calls, PlanPhases, messageVars, runVars, settings,
     CreatePlanStages, Emitted, Call
<1>2. CallsKept'
  BY DEF PlansInv, PlansTypes, CallsKept, Queries, Calls, PlanPhases, QueriesAreApart,
     CreatePlanStages, Emitted, Call, PlanPending
<1>3. SaveKept'
  BY DEF PlansInv, SaveKept, CreatePlanStages, Reading
<1>4. QueueKept'
  BY DEF QueueKept, CreatePlanStages, Reading
<1>5. OpenPlaced'
  BY DEF PlansInv, OpenPlaced, runVars, CreatePlanStages, Emitted, Call, PlanPending
<1>6. ReceiptKept'
  BY DEF PlansInv, ReceiptKept, CreatePlanStages
<1>7. PlanNotReplayed'
  BY DEF PlansInv, PlanNotReplayed, CreatePlanStages
<1> QED BY <1>1, <1>2, <1>3, <1>4, <1>5, <1>6, <1>7 DEF PlansInv

LEMMA CreatePlanRecordsKeeps ==
    ASSUME QueriesAreApart, PlansInv, NEW q \in Plans, CreatePlanRecords(q)
    PROVE  PlansInv'
<1>1. PlansTypes'
  BY DEF PlansInv, PlansTypes, runVars, calls, CreatePlanRecords, Bridge
<1>2. CallsKept'
  BY DEF PlansInv, CallsKept, calls, CreatePlanRecords, Reading
<1>3. SaveKept'
  <2>1. NoPlanCalled
    BY NoPlanPending DEF PlansInv, CreatePlanRecords
  <2>2. /\ pump' = "saving" /\ saving' = q /\ UNCHANGED <<pending, queued>> /\ queued = Unset
        /\ asked'[q] = "open" /\ mem'[q] = "write" /\ after'[q] \in {"ack", "hold", "review"}
    BY DEF PlansInv, PlansTypes, Queries, CreatePlanRecords, Reading, Bridge, Ending, calls
  <2> QED
    BY <2>1, <2>2 DEF SaveKept, NoPlanCalled, QueriesAreApart, Unset
<1>4. QueueKept'
  BY DEF QueueKept, CreatePlanRecords, Reading
<1>5. OpenPlaced'
  BY DEF PlansInv, SaveKept, OpenPlaced, calls, CreatePlanRecords, Reading, Ending
<1>6. ReceiptKept'
  BY DEF PlansInv, ReceiptKept, CreatePlanRecords
<1>7. PlanNotReplayed'
  BY DEF PlansInv, PlanNotReplayed, CreatePlanRecords
<1> QED BY <1>1, <1>2, <1>3, <1>4, <1>5, <1>6, <1>7 DEF PlansInv

LEMMA SwitchModeKeeps ==
    ASSUME QueriesAreApart, PlansInv, NEW q \in Switches, SwitchMode(q)
    PROVE  PlansInv'
<1>1. PlansTypes'
  BY DEF PlansInv, PlansTypes, Calls, calls, SwitchMode, Answer, Emitted, Call
<1>2. CallsKept'
  BY DEF PlansInv, PlansTypes, CallsKept, Queries, Calls, calls, QueriesAreApart, SwitchMode,
     Answer, Emitted, Call
<1>3. SaveKept'
  BY DEF PlansInv, SaveKept, SwitchMode, Reading
<1>4. QueueKept'
  BY DEF QueueKept, SwitchMode, Reading
<1>5. OpenPlaced'
  <2> SUFFICES ASSUME NEW x \in Queries, planRun' = "open", asked'[x] = "open"
               PROVE  (\E d \in pending' : d.q = x) \/ saving' = x \/ queued' = x
    BY DEF OpenPlaced
  <2>1. UNCHANGED <<planRun, saving, queued>> /\ pending \subseteq pending'
    BY DEF SwitchMode, runVars, calls, Emitted
  <2>2. CASE x = q
    <3>1. asked' # [asked EXCEPT ![q] = "answered"]
      BY <2>2 DEF PlansInv, PlansTypes
    <3>2. Call(q, "switch") \in pending'
      BY <3>1 DEF SwitchMode, Answer, Emitted
    <3> QED
      BY <2>2, <3>2 DEF Call
  <2>3. CASE x # q
    <3>1. asked[x] = "open"
      BY <2>3 DEF SwitchMode, Answer, PlansInv, PlansTypes
    <3> QED
      BY <2>1, <3>1 DEF PlansInv, OpenPlaced
  <2> QED
    BY <2>2, <2>3
<1>6. ReceiptKept'
  BY DEF PlansInv, PlansTypes, ReceiptKept, Queries, SwitchMode, Answer
<1>7. PlanNotReplayed'
  BY DEF PlansInv, PlanNotReplayed, SwitchMode
<1> QED BY <1>1, <1>2, <1>3, <1>4, <1>5, <1>6, <1>7 DEF PlansInv

LEMMA AskQuestionKeeps ==
    ASSUME QueriesAreApart, PlansInv, NEW q \in Questions, AskQuestion(q)
    PROVE  PlansInv'
<1>1. PlansTypes'
  BY DEF PlansInv, PlansTypes, Calls, runVars, calls, AskQuestion, Answer, Emitted, Call
<1>2. CallsKept'
  BY DEF PlansInv, PlansTypes, CallsKept, Queries, Calls, calls, QueriesAreApart, AskQuestion,
     Answer, Emitted, Call
<1>3. SaveKept'
  BY DEF PlansInv, SaveKept, AskQuestion, Reading
<1>4. QueueKept'
  BY DEF QueueKept, AskQuestion, Reading
<1>5. OpenPlaced'
  <2> SUFFICES ASSUME NEW x \in Queries, planRun' = "open", asked'[x] = "open"
               PROVE  (\E d \in pending' : d.q = x) \/ saving' = x \/ queued' = x
    BY DEF OpenPlaced
  <2>1. UNCHANGED <<planRun, saving, queued>> /\ pending \subseteq pending'
    BY DEF AskQuestion, runVars, calls, Emitted
  <2>2. CASE x = q
    <3>1. asked' # [asked EXCEPT ![q] = "answered"]
      BY <2>2 DEF PlansInv, PlansTypes
    <3>2. Call(q, "ask") \in pending'
      BY <3>1 DEF AskQuestion, Answer, Emitted
    <3> QED
      BY <2>2, <3>2 DEF Call
  <2>3. CASE x # q
    <3>1. asked[x] = "open"
      BY <2>3 DEF AskQuestion, Answer, PlansInv, PlansTypes
    <3> QED
      BY <2>1, <3>1 DEF PlansInv, OpenPlaced
  <2> QED
    BY <2>2, <2>3
<1>6. ReceiptKept'
  BY DEF PlansInv, PlansTypes, ReceiptKept, Queries, AskQuestion, Answer
<1>7. PlanNotReplayed'
  BY DEF PlansInv, PlanNotReplayed, AskQuestion
<1> QED BY <1>1, <1>2, <1>3, <1>4, <1>5, <1>6, <1>7 DEF PlansInv

LEMMA ReceiptSavedKeeps ==
    ASSUME QueriesAreApart, PlansInv, NEW q \in Plans, ReceiptSaved(q)
    PROVE  PlansInv'
<1>1. PlansTypes'
  BY DEF PlansInv, PlansTypes, Queries, Calls, PlanPhases, runVars, ReceiptSaved, Emitted, Call
<1>2. CallsKept'
  <2>1. /\ saving = q /\ q # Unset /\ pump = "saving" /\ UNCHANGED <<asked, after, batch>>
        /\ pending' = pending \union {Call(q, "write")}
    BY DEF ReceiptSaved, Emitted, QueriesAreApart, Unset
  <2>2. NoPlanCalled /\ asked[q] = "open" /\ after[q] \in {"ack", "hold", "review"}
    BY <2>1 DEF PlansInv, SaveKept
  <2> QED
    BY <2>1, <2>2 DEF PlansInv, CallsKept, NoPlanCalled, Call
<1>3. SaveKept'
  BY DEF SaveKept, ReceiptSaved
<1>4. QueueKept'
  <2>1. saving = q /\ q # Unset /\ UNCHANGED queued
    BY DEF ReceiptSaved, QueriesAreApart, Unset
  <2> QED
    BY <2>1 DEF PlansInv, SaveKept, QueueKept
<1>5. OpenPlaced'
  <2> SUFFICES ASSUME NEW x \in Queries, planRun' = "open", asked'[x] = "open"
               PROVE  (\E d \in pending' : d.q = x) \/ saving' = x \/ queued' = x
    BY DEF OpenPlaced
  <2>1. /\ saving = q /\ UNCHANGED <<planRun, asked, queued>>
        /\ pending' = pending \union {Call(q, "write")}
    BY DEF ReceiptSaved, runVars, Emitted
  <2>2. (\E d \in pending : d.q = x) \/ x = q \/ queued = x
    BY <2>1 DEF PlansInv, OpenPlaced
  <2>3. Call(q, "write") \in pending' /\ Call(q, "write").q = q
    BY <2>1 DEF Call
  <2> QED
    BY <2>1, <2>2, <2>3
<1>6. ReceiptKept'
  <2> SUFFICES ASSUME NEW x \in unsure'
               PROVE  asked'[x] = "open" /\ x # saving' /\ mem'[x] # Unset /\ onDisk'[x] # Unset
    BY DEF ReceiptKept
  <2>1. saving = q /\ saving' = Unset /\ onDisk' = mem /\ unsure' = unsure \union {q} /\ UNCHANGED <<asked, mem>>
    BY DEF ReceiptSaved
  <2>2. asked[x] = "open" /\ mem[x] # Unset /\ x \in Plans
    BY <2>1 DEF PlansInv, PlansTypes, SaveKept, ReceiptKept, QueriesAreApart, Unset
  <2> QED
    BY <2>1, <2>2 DEF QueriesAreApart, Unset
<1>7. PlanNotReplayed'
  BY DEF PlansInv, PlanNotReplayed, ReceiptSaved
<1> QED BY <1>1, <1>2, <1>3, <1>4, <1>5, <1>6, <1>7 DEF PlansInv

LEMMA ReceiptFailsKeeps ==
    ASSUME QueriesAreApart, PlansInv, NEW q \in Plans, ReceiptFails(q)
    PROVE  PlansInv'
<1>1. PlansTypes'
  <2>1. /\ planRun' = "over" /\ pending' = {} /\ mem' = [mem EXCEPT ![q] = Unset]
        /\ UNCHANGED <<asked, told, after, host, onDisk, unsure>>
    BY DEF ReceiptFails, Without
  <2>2. batch' = {}
    BY DEF ReceiptFails, PlansInv, CallsKept
  <2> QED
    BY <2>1, <2>2 DEF PlansInv, PlansTypes
<1>2. CallsKept'
  BY DEF PlansInv, CallsKept, ReceiptFails
<1>3. SaveKept'
  BY DEF SaveKept, ReceiptFails
<1>4. QueueKept'
  BY DEF QueueKept, ReceiptFails
<1>5. OpenPlaced'
  BY DEF OpenPlaced, ReceiptFails
<1>6. ReceiptKept'
  <2> SUFFICES ASSUME NEW x \in unsure'
               PROVE  asked'[x] = "open" /\ x # saving' /\ mem'[x] # Unset /\ onDisk'[x] # Unset
    BY DEF ReceiptKept
  <2>1. saving = q /\ saving' = Unset /\ mem' = Without(mem, q) /\ UNCHANGED <<asked, onDisk, unsure>>
    BY DEF ReceiptFails
  <2>2. asked[x] = "open" /\ mem[x] # Unset /\ onDisk[x] # Unset /\ x # q /\ x \in Plans
    BY <2>1 DEF PlansInv, PlansTypes, ReceiptKept
  <2> QED
    BY <2>1, <2>2 DEF PlansInv, PlansTypes, Without, QueriesAreApart, Unset
<1>7. PlanNotReplayed'
  BY DEF PlansInv, PlanNotReplayed, ReceiptFails
<1> QED BY <1>1, <1>2, <1>3, <1>4, <1>5, <1>6, <1>7 DEF PlansInv

LEMMA ReceiptAbandonedKeeps ==
    ASSUME QueriesAreApart, PlansInv, NEW q \in Plans, ReceiptAbandoned(q)
    PROVE  PlansInv'
<1>1. PlansTypes'
  BY DEF PlansInv, PlansTypes, runVars, calls, ReceiptAbandoned, Without
<1>2. CallsKept'
  BY DEF PlansInv, CallsKept, calls, ReceiptAbandoned
<1>3. SaveKept'
  BY DEF SaveKept, ReceiptAbandoned
<1>4. QueueKept'
  BY DEF PlansInv, QueueKept, NoPlanCalled, calls, ReceiptAbandoned
<1>5. OpenPlaced'
  BY DEF OpenPlaced, runVars, ReceiptAbandoned
<1>6. ReceiptKept'
  <2> SUFFICES ASSUME NEW x \in unsure'
               PROVE  asked'[x] = "open" /\ x # saving' /\ mem'[x] # Unset /\ onDisk'[x] # Unset
    BY DEF ReceiptKept
  <2>1. saving = q /\ saving' = Unset /\ mem' = Without(mem, q) /\ onDisk' = mem' /\ UNCHANGED <<asked, unsure>>
    BY DEF ReceiptAbandoned
  <2>2. asked[x] = "open" /\ mem[x] # Unset /\ onDisk[x] # Unset /\ x # q /\ x \in Plans
    BY <2>1 DEF PlansInv, PlansTypes, ReceiptKept
  <2> QED
    BY <2>1, <2>2 DEF PlansInv, PlansTypes, Without, QueriesAreApart, Unset
<1>7. PlanNotReplayed'
  BY DEF PlansInv, PlanNotReplayed, ReceiptAbandoned
<1> QED BY <1>1, <1>2, <1>3, <1>4, <1>5, <1>6, <1>7 DEF PlansInv

LEMMA QueuedReviewKeeps ==
    ASSUME QueriesAreApart, PlansInv, NEW q \in Plans, QueuedReview(q)
    PROVE  PlansInv'
<1>1. PlansTypes'
  BY DEF PlansInv, PlansTypes, Calls, PlanPhases, calls, QueuedReview, Answer, NoAnswer, Emitted,
     Call, Without
<1>2. CallsKept'
  <2>1. /\ queued = q /\ q # Unset /\ UNCHANGED after
        /\ \/ pending' = pending /\ asked' = [asked EXCEPT ![q] = "answered"]
           \/ pending' = pending \union {Call(q, "review")} /\ asked' = asked
    BY DEF QueuedReview, Answer, NoAnswer, Emitted, QueriesAreApart, Unset, calls
  <2>2. NoPlanCalled /\ asked[q] = "open"
    BY <2>1 DEF PlansInv, QueueKept, QueuedReview
  <2>3. CASE pending' = pending /\ asked' = [asked EXCEPT ![q] = "answered"]
    BY <2>1, <2>2, <2>3 DEF PlansInv, PlansTypes, CallsKept, NoPlanCalled, Queries, QueuedReview
  <2>4. CASE pending' = pending \union {Call(q, "review")} /\ asked' = asked
    BY <2>1, <2>2, <2>4 DEF PlansInv, CallsKept, NoPlanCalled, Call, QueuedReview
  <2> QED
    BY <2>1, <2>3, <2>4
<1>3. SaveKept'
  BY DEF PlansInv, SaveKept, QueuedReview
<1>4. QueueKept'
  BY DEF QueueKept, QueuedReview
<1>5. OpenPlaced'
  <2> SUFFICES ASSUME NEW x \in Queries, planRun' = "open", asked'[x] = "open"
               PROVE  (\E d \in pending' : d.q = x) \/ saving' = x \/ queued' = x
    BY DEF OpenPlaced
  <2>1. queued = q /\ planRun = "open" /\ UNCHANGED saving /\ pending \subseteq pending'
    BY DEF QueuedReview, calls, Emitted
  <2>2. CASE x = q
    <3>1. asked' # [asked EXCEPT ![q] = "answered"]
      BY <2>2 DEF PlansInv, PlansTypes
    <3>2. Call(q, "review") \in pending'
      BY <3>1 DEF QueuedReview, Answer, Emitted
    <3> QED
      BY <2>2, <3>2 DEF Call
  <2>3. CASE x # q
    <3>1. asked[x] = "open"
      BY <2>3 DEF QueuedReview, Answer, NoAnswer, PlansInv, PlansTypes
    <3> QED
      BY <2>1, <2>3, <3>1 DEF PlansInv, OpenPlaced
  <2> QED
    BY <2>2, <2>3
<1>6. ReceiptKept'
  BY DEF PlansInv, PlansTypes, ReceiptKept, Queries, QueuedReview, Answer, NoAnswer, Without
<1>7. PlanNotReplayed'
  BY DEF PlansInv, PlanNotReplayed, QueuedReview
<1> QED BY <1>1, <1>2, <1>3, <1>4, <1>5, <1>6, <1>7 DEF PlansInv

LEMMA QueuedHoldKeeps ==
    ASSUME QueriesAreApart, PlansInv, NEW q \in Plans, QueuedHold(q)
    PROVE  PlansInv'
<1>1. PlansTypes'
  BY DEF PlansInv, PlansTypes, calls, QueuedHold
<1>2. CallsKept'
  BY DEF PlansInv, CallsKept, calls, QueuedHold
<1>3. SaveKept'
  BY DEF PlansInv, SaveKept, QueuedHold
<1>4. QueueKept'
  BY DEF QueueKept, QueuedHold
<1>5. OpenPlaced'
  BY DEF PlansInv, QueueKept, OpenPlaced, calls, QueuedHold
<1>6. ReceiptKept'
  BY DEF PlansInv, ReceiptKept, QueuedHold
<1>7. PlanNotReplayed'
  BY DEF PlansInv, PlanNotReplayed, QueuedHold
<1> QED BY <1>1, <1>2, <1>3, <1>4, <1>5, <1>6, <1>7 DEF PlansInv

LEMMA HostStepBeginsKeeps ==
    ASSUME QueriesAreApart, PlansInv, HostStepBegins
    PROVE  PlansInv'
<1>1. PlansTypes'
  BY DEF PlansInv, PlansTypes, runVars, calls, HostStepBegins
<1>2. CallsKept'
  BY DEF PlansInv, CallsKept, calls, HostStepBegins, Reading
<1>3. SaveKept'
  BY DEF PlansInv, SaveKept, HostStepBegins, Reading
<1>4. QueueKept'
  BY DEF QueueKept, HostStepBegins, Reading
<1>5. OpenPlaced'
  BY DEF PlansInv, OpenPlaced, runVars, calls, HostStepBegins
<1>6. ReceiptKept'
  BY DEF PlansInv, ReceiptKept, HostStepBegins
<1>7. PlanNotReplayed'
  BY DEF PlansInv, PlanNotReplayed, HostStepBegins
<1> QED BY <1>1, <1>2, <1>3, <1>4, <1>5, <1>6, <1>7 DEF PlansInv

LEMMA BatchDeliveredKeeps ==
    ASSUME QueriesAreApart, PlansInv, BatchDelivered
    PROVE  PlansInv'
<1>1. PlansTypes'
  BY DEF PlansInv, PlansTypes, runVars, calls, BatchDelivered
<1>2. CallsKept'
  BY DEF PlansInv, CallsKept, calls, BatchDelivered
<1>3. SaveKept'
  BY DEF PlansInv, SaveKept, BatchDelivered
<1>4. QueueKept'
  BY DEF PlansInv, QueueKept, NoPlanCalled, calls, BatchDelivered
<1>5. OpenPlaced'
  BY DEF PlansInv, OpenPlaced, calls, BatchDelivered
<1>6. ReceiptKept'
  BY DEF PlansInv, ReceiptKept, BatchDelivered
<1>7. PlanNotReplayed'
  BY DEF PlansInv, PlanNotReplayed, BatchDelivered
<1> QED BY <1>1, <1>2, <1>3, <1>4, <1>5, <1>6, <1>7 DEF PlansInv

LEMMA CancelsRunKeeps ==
    ASSUME QueriesAreApart, PlansInv, CancelsRun
    PROVE  PlansInv'
<1>1. PlansTypes'
  BY DEF PlansInv, PlansTypes, calls, CancelsRun
<1>2. CallsKept'
  BY DEF PlansInv, CallsKept, calls, CancelsRun
<1>3. SaveKept'
  BY DEF PlansInv, SaveKept, CancelsRun, Reading
<1>4. QueueKept'
  BY DEF QueueKept, CancelsRun, Reading
<1>5. OpenPlaced'
  BY DEF OpenPlaced, CancelsRun
<1>6. ReceiptKept'
  BY DEF PlansInv, ReceiptKept, CancelsRun
<1>7. PlanNotReplayed'
  BY DEF PlansInv, PlanNotReplayed, CancelsRun
<1> QED BY <1>1, <1>2, <1>3, <1>4, <1>5, <1>6, <1>7 DEF PlansInv

LEMMA RunOverKeeps ==
    ASSUME QueriesAreApart, PlansInv, RunOver
    PROVE  PlansInv'
<1>1. PlansTypes'
  BY DEF PlansInv, PlansTypes, calls, RunOver
<1>2. CallsKept'
  BY DEF PlansInv, CallsKept, calls, RunOver, Reading
<1>3. SaveKept'
  BY DEF PlansInv, SaveKept, RunOver, Reading
<1>4. QueueKept'
  BY DEF QueueKept, RunOver, Reading
<1>5. OpenPlaced'
  BY DEF OpenPlaced, RunOver
<1>6. ReceiptKept'
  BY DEF PlansInv, ReceiptKept, RunOver
<1>7. PlanNotReplayed'
  BY DEF PlansInv, PlanNotReplayed, RunOver
<1> QED BY <1>1, <1>2, <1>3, <1>4, <1>5, <1>6, <1>7 DEF PlansInv

LEMMA HostRunsKeeps ==
    ASSUME QueriesAreApart, PlansInv, NEW c \in pending, NEW result \in {"yes", "no", "feedback"}, HostRuns(c, result)
    PROVE  PlansInv'
<1>1. PlansTypes'
  BY DEF PlansInv, PlansTypes, runVars, HostRuns
<1>2. CallsKept'
  BY DEF PlansInv, CallsKept, HostRuns
<1>3. SaveKept'
  BY DEF PlansInv, SaveKept, NoPlanCalled, HostRuns
<1>4. QueueKept'
  BY DEF PlansInv, QueueKept, NoPlanCalled, HostRuns
<1>5. OpenPlaced'
  BY DEF PlansInv, OpenPlaced, runVars, HostRuns
<1>6. ReceiptKept'
  BY DEF PlansInv, ReceiptKept, HostRuns
<1>7. PlanNotReplayed'
  BY DEF PlansInv, PlanNotReplayed, HostRuns
<1> QED BY <1>1, <1>2, <1>3, <1>4, <1>5, <1>6, <1>7 DEF PlansInv

LEMMA ContinuationKeeps ==
    ASSUME QueriesAreApart, PlansInv, NEW allowed, NEW tool, Continuation(allowed, tool)
    PROVE  PlansInv'
<1>1. PlansTypes'
  BY DEF PlansInv, PlansTypes, runVars, calls, Continuation
<1>2. CallsKept'
  BY DEF PlansInv, CallsKept, calls, Continuation
<1>3. SaveKept'
  BY DEF PlansInv, SaveKept, Continuation
<1>4. QueueKept'
  BY DEF PlansInv, QueueKept, NoPlanCalled, calls, Continuation
<1>5. OpenPlaced'
  BY DEF PlansInv, OpenPlaced, calls, Continuation
<1>6. ReceiptKept'
  BY DEF PlansInv, ReceiptKept, Continuation
<1>7. PlanNotReplayed'
  BY DEF PlansInv, PlanNotReplayed, Continuation
<1> QED BY <1>1, <1>2, <1>3, <1>4, <1>5, <1>6, <1>7 DEF PlansInv

LEMMA UserTurnKeeps ==
    ASSUME QueriesAreApart, PlansInv, NEW allowed, NEW mode, UserTurn(allowed, mode)
    PROVE  PlansInv'
<1>1. PlansTypes'
  BY DEF PlansInv, PlansTypes, UserTurn, Opens
<1>2. CallsKept'
  BY DEF CallsKept, UserTurn, Opens
<1>3. SaveKept'
  BY DEF PlansInv, SaveKept, UserTurn
<1>4. QueueKept'
  BY DEF QueueKept, UserTurn, Opens
<1>5. OpenPlaced'
  BY DEF OpenPlaced, UserTurn, Opens
<1>6. ReceiptKept'
  BY DEF ReceiptKept, UserTurn
<1>7. PlanNotReplayed'
  BY DEF PlanNotReplayed, UserTurn, Opens
<1> QED BY <1>1, <1>2, <1>3, <1>4, <1>5, <1>6, <1>7 DEF PlansInv

LEMMA WriteDeliveredKeeps ==
    ASSUME QueriesAreApart, PlansInv, NEW c \in batch, WriteDelivered(c)
    PROVE  PlansInv'
<1>1. PlansTypes'
  BY DEF PlansInv, PlansTypes, Calls, WriteDelivered, Answer, NoAnswer, Without, Taken
<1>2. CallsKept'
  BY DEF PlansInv, PlansTypes, CallsKept, Queries, Calls, WriteDelivered, Answer, NoAnswer, Taken
<1>3. SaveKept'
  BY DEF PlansInv, SaveKept, WriteDelivered, Delivering
<1>4. QueueKept'
  BY DEF PlansInv, PlansTypes, CallsKept, QueueKept, Queries, NoPlanCalled, Calls,
     WriteDelivered, Answer, NoAnswer, Taken
<1>5. OpenPlaced'
  <2> SUFFICES ASSUME NEW x \in Queries, planRun' = "open", asked'[x] = "open"
               PROVE  (\E d \in pending' : d.q = x) \/ saving' = x \/ queued' = x
    BY DEF OpenPlaced
  <2>1. UNCHANGED <<planRun, saving>> /\ pending' = pending \ {c} /\ c \in pending /\ c.q \in Plans
    BY DEF WriteDelivered, Taken, PlansInv, PlansTypes, Calls
  <2>2. queued = Unset
    BY <2>1 DEF PlansInv, QueueKept, NoPlanCalled
  <2>3. CASE x = c.q
    <3>1. asked' # [asked EXCEPT ![c.q] = "answered"]
      BY <2>3 DEF PlansInv, PlansTypes
    <3>2. ResultOf(c) = "yes" /\ after[c.q] = "review"
      BY <3>1 DEF WriteDelivered, Answer
    <3> QED
      BY <2>3, <3>2 DEF WriteDelivered
  <2>4. CASE x # c.q
    <3>1. asked[x] = "open"
      BY <2>4 DEF WriteDelivered, Answer, NoAnswer, PlansInv, PlansTypes
    <3>2. (\E d \in pending : d.q = x) \/ saving = x
      BY <2>1, <2>2, <3>1 DEF PlansInv, OpenPlaced, Queries, QueriesAreApart, Unset
    <3> QED
      BY <2>1, <2>4, <3>2
  <2> QED
    BY <2>3, <2>4
<1>6. ReceiptKept'
  <2> SUFFICES ASSUME NEW x \in unsure'
               PROVE  asked'[x] = "open" /\ x # saving' /\ mem'[x] # Unset /\ onDisk'[x] # Unset
    BY DEF ReceiptKept
  <2>1. UNCHANGED saving /\ onDisk' = mem'
    BY DEF WriteDelivered
  <2>2. \/ mem' = [mem EXCEPT ![c.q] = "review"] /\ UNCHANGED <<asked, unsure>>
        \/ /\ mem' = Without(mem, c.q) /\ unsure' = unsure \ {c.q}
           /\ asked' = [asked EXCEPT ![c.q] = "answered"]
    BY DEF WriteDelivered, NoAnswer, Answer
  <2>3. asked[x] = "open" /\ x # saving /\ mem[x] # Unset /\ x \in Plans
    BY <2>2 DEF PlansInv, PlansTypes, ReceiptKept
  <2> QED
    BY <2>1, <2>2, <2>3 DEF PlansInv, PlansTypes, Without, Queries, Unset
<1>7. PlanNotReplayed'
  BY DEF PlansInv, PlanNotReplayed, WriteDelivered
<1> QED BY <1>1, <1>2, <1>3, <1>4, <1>5, <1>6, <1>7 DEF PlansInv

LEMMA ReviewDeliveredKeeps ==
    ASSUME QueriesAreApart, PlansInv, NEW c \in batch, ReviewDelivered(c)
    PROVE  PlansInv'
<1>1. PlansTypes'
  BY DEF PlansInv, PlansTypes, Queries, Calls, ReviewDelivered, Answer, Without, Taken
<1>2. CallsKept'
  BY DEF PlansInv, PlansTypes, CallsKept, ReviewDelivered, Answer, Taken
<1>3. SaveKept'
  BY DEF PlansInv, SaveKept, ReviewDelivered, Delivering
<1>4. QueueKept'
  BY DEF PlansInv, PlansTypes, QueueKept, NoPlanCalled, ReviewDelivered, Answer, Taken
<1>5. OpenPlaced'
  BY DEF PlansInv, PlansTypes, OpenPlaced, ReviewDelivered, Answer, Taken
<1>6. ReceiptKept'
  BY DEF PlansInv, PlansTypes, ReceiptKept, ReviewDelivered, Answer, Without
<1>7. PlanNotReplayed'
  BY DEF PlansInv, PlanNotReplayed, ReviewDelivered
<1> QED BY <1>1, <1>2, <1>3, <1>4, <1>5, <1>6, <1>7 DEF PlansInv

LEMMA QuestionDeliveredKeeps ==
    ASSUME QueriesAreApart, PlansInv, NEW c \in batch, QuestionDelivered(c)
    PROVE  PlansInv'
<1>1. PlansTypes'
  BY DEF PlansInv, PlansTypes, runVars, QuestionDelivered, Answer, Taken
<1>2. CallsKept'
  BY DEF PlansInv, PlansTypes, CallsKept, QuestionDelivered, Answer, Taken
<1>3. SaveKept'
  BY DEF PlansInv, SaveKept, QuestionDelivered, Delivering
<1>4. QueueKept'
  BY DEF PlansInv, PlansTypes, QueueKept, NoPlanCalled, QuestionDelivered, Answer, Taken
<1>5. OpenPlaced'
  BY DEF PlansInv, PlansTypes, OpenPlaced, runVars, QuestionDelivered, Answer, Taken
<1>6. ReceiptKept'
  BY DEF PlansInv, ReceiptKept, QuestionDelivered, Answer
<1>7. PlanNotReplayed'
  BY DEF PlansInv, PlanNotReplayed, QuestionDelivered
<1> QED BY <1>1, <1>2, <1>3, <1>4, <1>5, <1>6, <1>7 DEF PlansInv

LEMMA DeliveryFailsKeeps ==
    ASSUME QueriesAreApart, PlansInv, NEW c \in batch, DeliveryFails(c)
    PROVE  PlansInv'
<1>1. PlansTypes'
  BY DEF PlansInv, PlansTypes, DeliveryFails
<1>2. CallsKept'
  BY DEF CallsKept, DeliveryFails
<1>3. SaveKept'
  BY DEF PlansInv, SaveKept, DeliveryFails, Delivering
<1>4. QueueKept'
  BY DEF QueueKept, DeliveryFails
<1>5. OpenPlaced'
  BY DEF OpenPlaced, DeliveryFails
<1>6. ReceiptKept'
  <2> SUFFICES ASSUME NEW x \in unsure'
               PROVE  asked'[x] = "open" /\ x # saving' /\ mem'[x] # Unset /\ onDisk'[x] # Unset
    BY DEF ReceiptKept
  <2>1. UNCHANGED <<saving, asked, onDisk, unsure>>
    BY DEF DeliveryFails
  <2>2. mem' = mem \/ mem' = [mem EXCEPT ![c.q] = "review"]
    BY DEF DeliveryFails
  <2>3. asked[x] = "open" /\ x # saving /\ mem[x] # Unset /\ onDisk[x] # Unset /\ x \in Plans
    BY <2>1 DEF PlansInv, PlansTypes, ReceiptKept
  <2> QED
    BY <2>1, <2>2, <2>3 DEF PlansInv, PlansTypes, Unset
<1>7. PlanNotReplayed'
  BY DEF PlansInv, PlanNotReplayed, DeliveryFails
<1> QED BY <1>1, <1>2, <1>3, <1>4, <1>5, <1>6, <1>7 DEF PlansInv

LEMMA RunLostKeeps ==
    ASSUME QueriesAreApart, PlansInv, RunLost
    PROVE  PlansInv'
<1>1. PlansTypes'
  BY DEF PlansInv, PlansTypes, RunLost
<1>2. CallsKept'
  BY DEF CallsKept, RunLost
<1>3. SaveKept'
  BY DEF PlansInv, SaveKept, NoPlanCalled, RunLost
<1>4. QueueKept'
  BY DEF QueueKept, RunLost
<1>5. OpenPlaced'
  BY DEF OpenPlaced, RunLost
<1>6. ReceiptKept'
  BY DEF PlansInv, ReceiptKept, RunLost
<1>7. PlanNotReplayed'
  BY DEF PlansInv, PlanNotReplayed, RunLost
<1> QED BY <1>1, <1>2, <1>3, <1>4, <1>5, <1>6, <1>7 DEF PlansInv

LEMMA CrashKeeps ==
    ASSUME QueriesAreApart, PlansInv, Crash
    PROVE  PlansInv'
<1>1. PlansTypes'
  BY DEF PlansInv, PlansTypes, Crash
<1>2. CallsKept'
  BY DEF CallsKept, Crash
<1>3. SaveKept'
  BY DEF SaveKept, Crash
<1>4. QueueKept'
  BY DEF QueueKept, Crash
<1>5. OpenPlaced'
  BY DEF OpenPlaced, Crash
<1>6. ReceiptKept'
  <2> SUFFICES ASSUME NEW x \in unsure'
               PROVE  asked'[x] = "open" /\ x # saving' /\ mem'[x] # Unset /\ onDisk'[x] # Unset
    BY DEF ReceiptKept
  <2>1. saving' = Unset /\ mem' = onDisk /\ UNCHANGED <<asked, onDisk, unsure>>
    BY DEF Crash
  <2>2. asked[x] = "open" /\ onDisk[x] # Unset /\ x \in Plans
    BY <2>1 DEF PlansInv, PlansTypes, ReceiptKept
  <2> QED
    BY <2>1, <2>2 DEF QueriesAreApart, Unset
<1>7. PlanNotReplayed'
  BY DEF PlansInv, PlanNotReplayed, Crash
<1> QED BY <1>1, <1>2, <1>3, <1>4, <1>5, <1>6, <1>7 DEF PlansInv

LEMMA RebaseContinuationKeeps ==
    ASSUME QueriesAreApart, PlansInv, RebaseContinuation
    PROVE  PlansInv'
<1>1. PlansTypes'
  BY DEF PlansInv, PlansTypes, RebaseContinuation, Opens
<1>2. CallsKept'
  BY DEF CallsKept, RebaseContinuation, Opens
<1>3. SaveKept'
  BY DEF PlansInv, SaveKept, RebaseContinuation
<1>4. QueueKept'
  BY DEF QueueKept, RebaseContinuation, Opens
<1>5. OpenPlaced'
  BY DEF OpenPlaced, RebaseContinuation, Opens
<1>6. ReceiptKept'
  BY DEF PlansInv, PlansTypes, ReceiptKept, RebaseContinuation, Incomplete
<1>7. PlanNotReplayed'
  BY DEF PlansInv, PlanNotReplayed, ReceiptKept, PlansTypes, RebaseContinuation, Opens, Incomplete
<1> QED BY <1>1, <1>2, <1>3, <1>4, <1>5, <1>6, <1>7 DEF PlansInv

LEMMA PlansInvKept ==
    ASSUME QueriesAreApart, PlansInv, [PlansNext]_plansVars
    PROVE  PlansInv'
<1>1. ASSUME NEW q \in Queries, Query(q)
      PROVE  PlansInv'
  BY <1>1, CreatePlanRefusedKeeps, CreatePlanStagesKeeps, CreatePlanRecordsKeeps,
     SwitchModeKeeps, AskQuestionKeeps DEF Query
<1>2. ASSUME NEW q \in Plans, Receipt(q) \/ QueuedReview(q) \/ QueuedHold(q)
      PROVE  PlansInv'
  BY <1>2, ReceiptSavedKeeps, ReceiptFailsKeeps, ReceiptAbandonedKeeps,
     QueuedReviewKeeps, QueuedHoldKeeps DEF Receipt
<1>3. CASE HostStepBegins \/ BatchDelivered \/ CancelsRun \/ RunOver
  BY <1>3, HostStepBeginsKeeps, BatchDeliveredKeeps, CancelsRunKeeps, RunOverKeeps
<1>4. ASSUME NEW c \in pending, NEW result \in {"yes", "no", "feedback"}, HostRuns(c, result)
      PROVE  PlansInv'
  BY <1>4, HostRunsKeeps
<1>5. ASSUME NEW allowed, NEW tool, Continuation(allowed, tool)
      PROVE  PlansInv'
  BY <1>5, ContinuationKeeps
<1>6. ASSUME NEW allowed, NEW mode, UserTurn(allowed, mode)
      PROVE  PlansInv'
  BY <1>6, UserTurnKeeps
<1>7. ASSUME NEW c \in batch, Deliver(c)
      PROVE  PlansInv'
  BY <1>7, WriteDeliveredKeeps, ReviewDeliveredKeeps, QuestionDeliveredKeeps,
     DeliveryFailsKeeps DEF Deliver
<1>8. CASE RunLost \/ Crash \/ RebaseContinuation
  BY <1>8, RunLostKeeps, CrashKeeps, RebaseContinuationKeeps
<1>9. CASE UNCHANGED plansVars
  BY <1>9 DEF plansVars, PlansInv, PlansTypes, CallsKept, SaveKept, QueueKept, OpenPlaced,
     ReceiptKept, PlanNotReplayed, NoPlanCalled
<1> QED
  BY <1>1, <1>2, <1>3, <1>4, <1>5, <1>6, <1>7, <1>8, <1>9 DEF PlansNext

LEMMA PlansInvInit ==
    ASSUME QueriesAreApart, PlansInit
    PROVE  PlansInv
<1>1. PlansTypes
  BY DEF PlansInit, PlansTypes, Queries
<1>2. CallsKept /\ SaveKept /\ QueueKept /\ ReceiptKept /\ PlanNotReplayed
  BY DEF PlansInit, CallsKept, SaveKept, QueueKept, ReceiptKept, PlanNotReplayed
<1>3. OpenPlaced
  BY DEF PlansInit, OpenPlaced
<1> QED
  BY <1>1, <1>2, <1>3 DEF PlansInv

(* An open query of an open Run has one place and no other.                  *)
LEMMA PlansInvOwns ==
    ASSUME QueriesAreApart, PlansInv
    PROVE  OpenQueryOwned
<1> SUFFICES ASSUME NEW q \in Queries, planRun = "open", asked[q] = "open"
             PROVE  LET places == {c \in pending : c.q = q} \union {p \in {saving, queued} : p = q}
                    IN Cardinality(places) = 1 /\ (saving = q => queued # q)
  BY DEF OpenQueryOwned
<1> DEFINE places == {c \in pending : c.q = q} \union {p \in {saving, queued} : p = q}
<1>1. q # Unset
  BY DEF Queries, QueriesAreApart, Unset
<1>2. saving = q => queued # q
  BY <1>1 DEF PlansInv, SaveKept
<1>3. (saving = q \/ queued = q) => {c \in pending : c.q = q} = {}
  BY <1>1 DEF PlansInv, SaveKept, QueueKept, NoPlanCalled
<1>4. CASE saving = q \/ queued = q
  <2>1. places = {q}
    BY <1>3, <1>4
  <2>2. Cardinality({q}) = 1
    BY FS_Singleton
  <2> QED
    BY <1>2, <2>1, <2>2
<1>5. CASE saving # q /\ queued # q
  <2>1. PICK c \in pending : c.q = q
    BY <1>5 DEF PlansInv, OpenPlaced
  <2>2. \A d \in pending : d.q = q => d = c
    BY <2>1 DEF PlansInv, CallsKept
  <2>3. places = {c}
    BY <1>5, <2>1, <2>2
  <2>4. Cardinality({c}) = 1
    BY FS_Singleton
  <2> QED
    BY <1>2, <2>3, <2>4
<1> QED
  BY <1>4, <1>5

(* The step that approves is an answer to a Yes, or a switch with nothing to *)
(* leave: every other answer says something else.                            *)
LEMMA ApprovalDecided ==
    ASSUME QueriesAreApart, PlansInv, [PlansNext]_plansVars,
           NEW q \in Queries, told'[q] = "approved", told[q] # "approved"
    PROVE  perms = "ok" /\ ~declined /\ (host[q] = "yes" \/ (q \in Switches /\ ~planMode))
<1>1. told \in [Queries -> {Unset, "approved", "saved", "ack", "error", "answered"}]
  BY DEF PlansInv, PlansTypes
<1>2. ASSUME NEW x \in Queries, Query(x)
      PROVE  x \in Switches /\ SwitchMode(x)
  BY <1>1, <1>2 DEF Query, CreatePlanRefused, CreatePlanStages, CreatePlanRecords, AskQuestion,
     Answer
<1>3. ASSUME NEW x \in Switches, SwitchMode(x)
      PROVE  q = x /\ perms = "ok" /\ ~declined /\ ~planMode
  <2>1. PICK answer \in {"ack", "error", "approved"} :
            /\ told' = [told EXCEPT ![x] = answer]
            /\ answer = "approved" => ~Ending /\ perms = "ok" /\ ~planMode
    BY <1>1, <1>3 DEF SwitchMode, Answer
  <2>2. q = x /\ answer = "approved"
    BY <1>1, <2>1
  <2> QED
    BY <2>1, <2>2 DEF Ending
<1>4. ASSUME NEW x \in Plans, Receipt(x) \/ QueuedReview(x) \/ QueuedHold(x)
      PROVE  FALSE
  BY <1>1, <1>4 DEF Receipt, ReceiptSaved, ReceiptFails, ReceiptAbandoned, QueuedReview,
     QueuedHold, Answer, NoAnswer
<1>5. ASSUME NEW c \in batch, Deliver(c)
      PROVE  q = c.q /\ Granted(c) /\ perms = "ok"
  <2>1. PICK answer \in {"saved", "error", "answered", "approved"} :
            /\ told' = told \/ told' = [told EXCEPT ![c.q] = answer]
            /\ answer = "approved" => Granted(c)
    BY <1>5 DEF Deliver, WriteDelivered, ReviewDelivered, QuestionDelivered, DeliveryFails,
       Answer, NoAnswer
  <2>2. q = c.q /\ answer = "approved"
    BY <1>1, <2>1
  <2> QED
    BY <2>1, <2>2 DEF Granted
<1>6. ASSUME NEW c \in batch, Granted(c)
      PROVE  ~declined /\ host[c.q] = "yes"
  BY <1>6 DEF Granted, ResultOf
<1>7. ~(HostStepBegins \/ BatchDelivered \/ CancelsRun \/ RunOver \/ RunLost \/ Crash
          \/ RebaseContinuation \/ UNCHANGED plansVars)
  BY DEF HostStepBegins, BatchDelivered, CancelsRun, RunOver, RunLost, Crash,
     RebaseContinuation, plansVars
<1>8. /\ \A c \in pending, result \in {"yes", "no", "feedback"} : ~HostRuns(c, result)
      /\ \A allowed, tool : ~Continuation(allowed, tool)
      /\ \A allowed, mode : ~UserTurn(allowed, mode)
  BY DEF HostRuns, Continuation, UserTurn
<1> QED
  BY <1>2, <1>3, <1>4, <1>5, <1>6, <1>7, <1>8 DEF PlansNext

(* Cursor hears of an approval only after the user's Yes, under permissions  *)
(* of the answer and never after a No; a Run that replaces a lost one starts *)
(* over from no point where a plan may be written; an open query has one     *)
(* owner: for any queries, messages, losses and restarts                     *)
(* (language-model.ts:3921, plan-operations.ts:134).                         *)
THEOREM PlansStayReviewed ==
    ASSUME QueriesAreApart
    PROVE  PlansSpec => PlansReviewedOnce
<1>1. PlansInit => PlansInv
  BY PlansInvInit
<1>2. PlansInv /\ [PlansNext]_plansVars => PlansInv'
  BY PlansInvKept
<1>3. PlansInv' => PlanNotReplayed' /\ OpenQueryOwned'
  <2>1. PlansInv => OpenQueryOwned
    BY PlansInvOwns
  <2>2. PlansInv' => OpenQueryOwned'
    BY <2>1, PTL
  <2> QED
    BY <2>2 DEF PlansInv
<1>4. PlansInv /\ [PlansNext]_plansVars =>
          [\A q \in Queries :
              (told'[q] = "approved" /\ told[q] # "approved") =>
                  perms = "ok" /\ ~declined /\ (host[q] = "yes" \/ (q \in Switches /\ ~planMode))]_plansVars
  BY ApprovalDecided
<1>5. PlansSpec => []PlansInv
  BY <1>1, <1>2, PTL DEF PlansSpec
<1>6. PlansSpec => ReviewDecides
  BY <1>4, <1>5, PTL DEF PlansSpec, ReviewDecides
<1>7. PlansSpec => [][PlanNotReplayed' /\ OpenQueryOwned']_plansVars
  BY <1>2, <1>3, <1>5, PTL DEF PlansSpec
<1> QED
  BY <1>6, <1>7 DEF PlansReviewedOnce

(***************************************************************************)
(* Messages sent while a step runs (HostSteers)                            *)
(***************************************************************************)

Marks == [run : Nat, delivered : BOOLEAN, checkpointed : BOOLEAN, answered : BOOLEAN, promoted : BOOLEAN]

SteersTypes ==
    /\ opencode \in {"idle", "step", "tools", "boundary"}
    /\ stage \in {"pumped", "held", "over", "broken"}
    /\ newest \in Nat \ {0} /\ mine \in BOOLEAN
    /\ unsent \subseteq Messages /\ inbox \subseteq Messages /\ history \subseteq Messages
    /\ tail \subseteq Messages /\ left \subseteq Messages /\ unread \subseteq Messages
    /\ answered \subseteq Messages /\ nudged \subseteq Messages /\ plain \subseteq Messages
    /\ steers \in [Messages -> Marks]
    /\ inj \in [Messages -> {"no", "waiting", "sent", "taken"}]
    /\ ctx \in [Messages -> Nat] /\ checkpoint \in [Messages -> Nat]
    /\ onFile \in [steers : [Messages -> Marks], checkpoint : [Messages -> Nat]]

(* Where OpenCode is, and where it has each message.                         *)
HostAt ==
    /\ opencode = "step" <=> stage = "pumped"
    /\ opencode = "tools" => stage = "held" /\ tail = {}
    /\ opencode = "idle" => tail = {}
    /\ opencode = "boundary" /\ stage = "held" => inbox = {}
    /\ stage = "over" => inbox = {}
    /\ stage # "pumped" => left = {}
PlacesApart ==
    /\ unsent \cap (inbox \cup tail \cup history \cup plain \cup nudged) = {}
    /\ inbox \cap (tail \cup history \cup plain) = {}
    /\ tail \cap history = {}
    /\ stage = "held" => tail \cap plain = {}
    /\ nudged \subseteq answered
    /\ Messages \subseteq unsent \cup inbox \cup tail \cup history \cup plain

Live == stage \in {"pumped", "held"}

(* What a record can say of a message, here or on disk.                      *)
RecordOK(r, m) ==
    /\ r.run <= newest /\ (r.run = 0 => r = NoSteer)
    /\ r.answered => r.delivered /\ m \in answered
    /\ r.checkpointed => r.delivered
    /\ r.promoted => m \notin unsent \cup inbox
    /\ m \in unsent => r = NoSteer
    /\ r.answered /\ (m \in inbox \/ (stage = "held" /\ m \in tail)) => m \in nudged
RecordsOK ==
    \A m \in Messages : RecordOK(steers[m], m) /\ RecordOK(onFile.steers[m], m)

(* An unanswered record is of the Run at hand; what it says of it is so.     *)
RecordServes(m) ==
    /\ Tracked(m) /\ ~steers[m].answered => steers[m].run = newest /\ m \notin plain
    /\ steers[m].run = newest /\ steers[m].delivered => ctx[m] > 0 /\ m \notin unread
    /\ steers[m].run = newest /\ steers[m].checkpointed => checkpoint[m] > 0
RecordsServe == Live => \A m \in Messages : RecordServes(m)

(* The injection on its way.                                                 *)
NotHeld(f, m) == f = NoCheckpoint \/ f[m] = 0
InjectionKept ==
    /\ ~Live => unread = {} /\ \A m \in Messages : inj[m] = "no"
    /\ \A m \in unread : ctx[m] > 0
    /\ \A m \in Messages : inj[m] \in {"waiting", "sent"} \/ m \in unsent =>
           ctx[m] = 0 /\ NotHeld(checkpoint, m)
    /\ \A m \in Messages : inj[m] \in {"waiting", "sent"} /\ ~Tracked(m) => m \notin inbox \cup tail
    /\ \A m \in unsent : inj[m] = "no" /\ NotHeld(onFile.checkpoint, m)

(* A message the Run has and no record speaks of does not come again.        *)
Noticed(m) ==
    /\ Tracked(m) /\ steers[m].run = newest => steers[m].delivered \/ m \in unread
    /\ ~Tracked(m) => m \notin inbox /\ ~(stage = "held" /\ m \in tail)
NoneUnnoticed == Live => \A m \in Messages \ nudged : ctx[m] > 0 => Noticed(m)

(* The messages a Run was opened or goes on with are in it, or known.        *)
CallTail ==
    /\ stage = "pumped" => \A m \in tail :
           m \in plain \/ m \in nudged \/ (Tracked(m) /\ (steers[m].promoted \/ steers[m].answered))
    /\ \A m \in left : m \in nudged \/ steers[m].answered

(* What a checkpoint holds of a message that may still come, a record says.  *)
Unheld(r, f, m) == ~r.answered /\ ~r.checkpointed => NotHeld(f, m)
Known(m) ==
    /\ m \in inbox \cup tail \/ (Live /\ steers[m].run = newest) => Unheld(steers[m], checkpoint, m)
    /\ m \in unsent \cup inbox \cup tail => Unheld(onFile.steers[m], onFile.checkpoint, m)
CheckpointsKnown == \A m \in Messages \ (nudged \cup plain) : Known(m)

OnceEach(f) == \A m \in Messages \ nudged : f[m] <= 1
OnceKept ==
    /\ OnceEach(ctx)
    /\ checkpoint = NoCheckpoint \/ OnceEach(checkpoint)
    /\ onFile.checkpoint = NoCheckpoint \/ OnceEach(onFile.checkpoint)
    /\ Live /\ mine => OnceEach(checkpoint)

(* A message that is in OpenCode's history is answered, in the conversation, *)
(* or will be.                                                               *)
Holds(f, m) == f = NoCheckpoint \/ f[m] > 0
Awaited(r) == r.promoted /\ ~r.answered
Accounted(m) ==
    \/ m \in plain \cup answered
    \/ Tracked(m) /\ Awaited(steers[m])
    \/ Holds(checkpoint, m) /\ (Live => ctx[m] > 0 /\ m \notin unread)
Restored(m) ==
    \/ m \in plain \cup answered
    \/ Awaited(onFile.steers[m]) \/ Holds(onFile.checkpoint, m)
    \/ steers[m].promoted /\ ~onFile.steers[m].promoted
HistoryAccounted ==
    /\ \A m \in history : Accounted(m) /\ Restored(m)
    /\ stage = "pumped" => \A m \in tail : Accounted(m) /\ Restored(m)
    /\ stage = "over" => history \subseteq plain \cup answered

SteersInv ==
    /\ SteersTypes /\ HostAt /\ PlacesApart /\ RecordsOK /\ RecordsServe /\ InjectionKept
    /\ NoneUnnoticed /\ CallTail /\ CheckpointsKnown /\ OnceKept /\ HistoryAccounted

(* Supersedes, after a drain to the end and without.                         *)
SupersedesDrained ==
    /\ opencode = "boundary" /\ stage = "held" /\ tail # {} /\ Matched = {}
    /\ unread = {} /\ checkpoint = ctx
    /\ answered' = answered \cup {m \in Messages : ctx[m] > 0}
    /\ OpensRun(Resolved, tail, NeedsHistory(Resolved, 0))
    /\ UNCHANGED <<unsent, inbox, history, tail, left, nudged>>
SupersedesLost ==
    /\ opencode = "boundary" /\ stage = "held" /\ tail # {} /\ Matched = {}
    /\ OpensRun(steers, tail, TRUE)
    /\ UNCHANGED <<answered, unsent, inbox, history, tail, left, nudged>>

(* What an update of a record leaves in it.                                  *)
Says(r, n, d, c, a, p) ==
    /\ r \in Marks /\ r.run = n /\ r.delivered = d /\ r.checkpointed = c
    /\ r.answered = a /\ r.promoted = p
LEMMA NewMarks ==
    ASSUME NEW n \in Nat, NEW r \in Marks
    PROVE  /\ Says(NoSteer, 0, FALSE, FALSE, FALSE, FALSE)
           /\ Says([NoSteer EXCEPT !.run = n], n, FALSE, FALSE, FALSE, FALSE)
           /\ Says([NoSteer EXCEPT !.run = n, !.promoted = TRUE], n, FALSE, FALSE, FALSE, TRUE)
           /\ Says([r EXCEPT !.delivered = TRUE], r.run, TRUE, r.checkpointed, r.answered, r.promoted)
           /\ Says([r EXCEPT !.answered = TRUE], r.run, r.delivered, r.checkpointed, TRUE, r.promoted)
           /\ Says([r EXCEPT !.checkpointed = TRUE], r.run, r.delivered, TRUE, r.answered, r.promoted)
           /\ Says([r EXCEPT !.promoted = TRUE], r.run, r.delivered, r.checkpointed, r.answered, TRUE)
           /\ Says([r EXCEPT !.run = n], n, r.delivered, r.checkpointed, r.answered, r.promoted)
           /\ Says([r EXCEPT !.run = n, !.delivered = FALSE], n, FALSE, r.checkpointed, r.answered, r.promoted)
  BY DEF Marks, NoSteer, Says

LEMMA MarksFields ==
    ASSUME NEW r \in Marks
    PROVE  /\ r.run \in Nat
           /\ r.delivered = TRUE \/ r.delivered = FALSE
           /\ r.checkpointed = TRUE \/ r.checkpointed = FALSE
           /\ r.answered = TRUE \/ r.answered = FALSE
           /\ r.promoted = TRUE \/ r.promoted = FALSE
  BY DEF Marks

(* What settling makes of a message's record: nothing, an answered record of *)
(* this Run, or a record of this Run that counts as delivered.               *)
LEMMA ResolvedSays ==
    ASSUME SteersInv, Live, NEW x \in Messages
    PROVE  \/ /\ Resolved[x] = NoSteer
              /\ ~Tracked(x) \/ steers[x].run # newest \/ (~steers[x].delivered /\ ~steers[x].promoted)
           \/ /\ Tracked(x) /\ steers[x].run = newest /\ steers[x].delivered
              /\ Says(Resolved[x], newest, TRUE, steers[x].checkpointed, TRUE, steers[x].promoted)
           \/ /\ Tracked(x) /\ steers[x].run = newest /\ ~steers[x].delivered
              /\ steers[x].promoted /\ ~steers[x].answered /\ ~steers[x].checkpointed
              /\ Says(Resolved[x], newest, TRUE, FALSE, FALSE, TRUE)
<1>1. steers[x] \in Marks /\ newest \in Nat \ {0}
  BY DEF SteersInv, SteersTypes
<1>2. Resolved[x] = IF ~Tracked(x) \/ ~Stays(x) THEN NoSteer
                    ELSE IF steers[x].run # newest THEN steers[x]
                    ELSE IF steers[x].delivered THEN [steers[x] EXCEPT !.answered = TRUE]
                    ELSE [steers[x] EXCEPT !.delivered = TRUE]
  BY DEF Resolved
<1>3. /\ Tracked(x) /\ ~steers[x].answered => steers[x].run = newest
      /\ steers[x].answered => steers[x].delivered
      /\ steers[x].checkpointed => steers[x].delivered
  BY DEF SteersInv, RecordsServe, RecordServes, RecordsOK, RecordOK
<1>4. CASE ~Tracked(x) \/ ~Stays(x)
  BY <1>1, <1>2, <1>3, <1>4 DEF Stays
<1>5. CASE Tracked(x) /\ Stays(x) /\ steers[x].delivered
  <2>1. steers[x].run = newest
    BY <1>3, <1>5 DEF Stays
  <2>2. Resolved[x] = [steers[x] EXCEPT !.answered = TRUE]
    BY <1>2, <1>5, <2>1
  <2>3. steers[x].delivered = TRUE
    BY <1>1, <1>5, MarksFields
  <2>4. Says([steers[x] EXCEPT !.answered = TRUE], steers[x].run, steers[x].delivered,
             steers[x].checkpointed, TRUE, steers[x].promoted)
    BY <1>1, NewMarks
  <2>5. Says(Resolved[x], newest, TRUE, steers[x].checkpointed, TRUE, steers[x].promoted)
    BY <2>1, <2>2, <2>3, <2>4
  <2> QED
    BY <1>5, <2>1, <2>5
<1>6. CASE Tracked(x) /\ Stays(x) /\ ~steers[x].delivered
  <2>1. steers[x].run = newest /\ steers[x].promoted /\ ~steers[x].answered /\ ~steers[x].checkpointed
    BY <1>3, <1>6 DEF Stays
  <2>2. Resolved[x] = [steers[x] EXCEPT !.delivered = TRUE]
    BY <1>2, <1>6, <2>1
  <2>3. steers[x].promoted = TRUE /\ steers[x].answered = FALSE /\ steers[x].checkpointed = FALSE
    BY <1>1, <2>1, MarksFields
  <2>4. Says([steers[x] EXCEPT !.delivered = TRUE], steers[x].run, TRUE,
             steers[x].checkpointed, steers[x].answered, steers[x].promoted)
    BY <1>1, NewMarks
  <2>5. Says(Resolved[x], newest, TRUE, FALSE, FALSE, TRUE)
    BY <2>1, <2>2, <2>3, <2>4
  <2> QED
    BY <1>6, <2>1, <2>5
<1> QED
  BY <1>4, <1>5, <1>6

(* What a resume makes of it.                                                *)
LEMMA HandedOverSays ==
    ASSUME SteersInv, Live, NEW x \in Messages
    PROVE  \/ /\ steers[x].run # newest \/ steers[x].answered
              /\ HandedOver[x] = steers[x]
           \/ /\ steers[x].run = newest /\ ~steers[x].answered /\ steers[x].checkpointed
              /\ Says(HandedOver[x], newest + 1, TRUE, TRUE, FALSE, steers[x].promoted)
           \/ /\ steers[x].run = newest /\ ~steers[x].answered /\ ~steers[x].checkpointed
              /\ steers[x].promoted
              /\ Says(HandedOver[x], newest + 1, FALSE, FALSE, FALSE, TRUE)
           \/ /\ steers[x].run = newest /\ ~steers[x].answered /\ ~steers[x].checkpointed
              /\ ~steers[x].promoted
              /\ HandedOver[x] = NoSteer
<1>1. steers[x] \in Marks /\ newest + 1 \in Nat
  BY DEF SteersInv, SteersTypes
<1>2. HandedOver[x] = IF steers[x].run # newest \/ steers[x].answered THEN steers[x]
                      ELSE IF steers[x].checkpointed THEN [steers[x] EXCEPT !.run = newest + 1]
                      ELSE IF steers[x].promoted
                      THEN [steers[x] EXCEPT !.run = newest + 1, !.delivered = FALSE]
                      ELSE NoSteer
  BY DEF HandedOver
<1>3. steers[x].checkpointed => steers[x].delivered
  BY DEF SteersInv, RecordsOK, RecordOK
<1>4. CASE steers[x].run # newest \/ steers[x].answered
  BY <1>2, <1>4
<1>5. CASE steers[x].run = newest /\ ~steers[x].answered /\ steers[x].checkpointed
  <2>1. HandedOver[x] = [steers[x] EXCEPT !.run = newest + 1]
    BY <1>2, <1>5
  <2>2. steers[x].delivered = TRUE /\ steers[x].checkpointed = TRUE /\ steers[x].answered = FALSE
    BY <1>1, <1>3, <1>5, MarksFields
  <2>3. Says([steers[x] EXCEPT !.run = newest + 1], newest + 1, steers[x].delivered,
             steers[x].checkpointed, steers[x].answered, steers[x].promoted)
    BY <1>1, NewMarks
  <2>4. Says(HandedOver[x], newest + 1, TRUE, TRUE, FALSE, steers[x].promoted)
    BY <2>1, <2>2, <2>3
  <2> QED
    BY <1>5, <2>4
<1>6. CASE steers[x].run = newest /\ ~steers[x].answered /\ ~steers[x].checkpointed /\ steers[x].promoted
  <2>1. HandedOver[x] = [steers[x] EXCEPT !.run = newest + 1, !.delivered = FALSE]
    BY <1>2, <1>6
  <2>2. steers[x].checkpointed = FALSE /\ steers[x].answered = FALSE /\ steers[x].promoted = TRUE
    BY <1>1, <1>6, MarksFields
  <2>3. Says([steers[x] EXCEPT !.run = newest + 1, !.delivered = FALSE], newest + 1, FALSE,
             steers[x].checkpointed, steers[x].answered, steers[x].promoted)
    BY <1>1, NewMarks
  <2>4. Says(HandedOver[x], newest + 1, FALSE, FALSE, FALSE, TRUE)
    BY <2>1, <2>2, <2>3
  <2> QED
    BY <1>6, <2>4
<1>7. CASE steers[x].run = newest /\ ~steers[x].answered /\ ~steers[x].checkpointed /\ ~steers[x].promoted
  BY <1>2, <1>7
<1> QED
  BY <1>4, <1>5, <1>6, <1>7

LEMMA NoSteerIs == Says(NoSteer, 0, FALSE, FALSE, FALSE, FALSE)
  BY DEF NoSteer, Says, Marks
(* The functions the actions are written with, message by message.           *)
LEMMA OnceIs ==
    ASSUME NEW S
    PROVE  Once(S) \in [Messages -> Nat] /\ \A x \in Messages : Once(S)[x] = IF x \in S THEN 1 ELSE 0
  BY DEF Once
LEMMA PlusIs ==
    ASSUME NEW f \in [Messages -> Nat], NEW S
    PROVE  /\ Plus(f, S) \in [Messages -> Nat]
           /\ \A x \in Messages : Plus(f, S)[x] = IF x \in S THEN f[x] + 1 ELSE f[x]
<1>1. \A x \in Messages : f[x] + Once(S)[x] = IF x \in S THEN f[x] + 1 ELSE f[x]
  BY OnceIs
<1> QED
  BY <1>1 DEF Plus
LEMMA SeedIs ==
    ASSUME NEW f \in [Messages -> Nat], NEW S
    PROVE  /\ Seed(f, S) \in [Messages -> Nat]
           /\ \A x \in Messages : Seed(f, S)[x] = IF x \in S \ plain THEN f[x] + 1 ELSE f[x]
<1>1. \A x \in Messages : (IF x \in plain THEN f[x] ELSE Plus(f, S)[x]) = IF x \in S \ plain THEN f[x] + 1 ELSE f[x]
  BY PlusIs
<1> QED
  BY <1>1 DEF Seed
LEMMA KeepIs ==
    ASSUME SteersTypes, NEW S
    PROVE  /\ Keep(S) \in [Messages -> Marks]
           /\ \A x \in Messages : Keep(S)[x] = IF x \in S THEN steers[x] ELSE NoSteer
  BY NewMarks DEF Keep, SteersTypes, Says
LEMMA NothingIs ==
    /\ NoCheckpoint \in [Messages -> Nat] /\ (\A x \in Messages : NoCheckpoint[x] = 9)
    /\ NoSteers \in [Messages -> Marks] /\ (\A x \in Messages : NoSteers[x] = NoSteer)
    /\ Nothing \in [steers : [Messages -> Marks], checkpoint : [Messages -> Nat]]
    /\ Nothing.steers = NoSteers /\ Nothing.checkpoint = NoCheckpoint
<1>1. NoCheckpoint \in [Messages -> Nat] /\ \A x \in Messages : NoCheckpoint[x] = 9
  BY DEF NoCheckpoint
<1>2. NoSteers \in [Messages -> Marks] /\ \A x \in Messages : NoSteers[x] = NoSteer
  BY NoSteerIs DEF NoSteers, Says
<1> QED
  BY <1>1, <1>2 DEF Nothing

(* What a new Run starts with.                                               *)
Starts(r, rest, rebase) ==
    /\ newest' = newest + 1 /\ stage' = "pumped" /\ opencode' = "step" /\ mine' = FALSE /\ unread' = {}
    /\ inj' = [x \in Messages |-> "no"] /\ plain' = plain \cup rest
    /\ steers' \in [Messages -> Marks] /\ ctx' \in [Messages -> Nat] /\ checkpoint' \in [Messages -> Nat]
    /\ \A x \in Messages : steers'[x] = IF r[x].answered THEN r[x] ELSE NoSteer
    /\ \/ /\ rebase \/ checkpoint = NoCheckpoint
          /\ \A x \in Messages : ctx'[x] = IF x \in history \cup rest THEN 1 ELSE 0
       \/ /\ ~rebase /\ checkpoint # NoCheckpoint
          /\ \A x \in Messages : ctx'[x] = IF x \in rest \ plain THEN checkpoint[x] + 1 ELSE checkpoint[x]
    /\ \/ rebase /\ checkpoint' = NoCheckpoint /\ onFile' = Nothing
       \/ ~rebase /\ checkpoint' = checkpoint /\ onFile' = onFile
LEMMA OpensRunStarts ==
    ASSUME SteersTypes, NEW r \in [Messages -> Marks], NEW rest, NEW rebase \in BOOLEAN, OpensRun(r, rest, rebase)
    PROVE  Starts(r, rest, rebase)
<1>1. checkpoint \in [Messages -> Nat]
  BY DEF SteersTypes
<1>2. steers' \in [Messages -> Marks] /\ \A x \in Messages : steers'[x] = IF r[x].answered THEN r[x] ELSE NoSteer
  BY NewMarks DEF OpensRun, Says
<1>3. ctx' = IF rebase \/ checkpoint = NoCheckpoint THEN Once(history \cup rest) ELSE Seed(checkpoint, rest)
  BY DEF OpensRun
<1>4. ctx' \in [Messages -> Nat]
  BY <1>1, <1>3, OnceIs, SeedIs
<1>5. CASE rebase \/ checkpoint = NoCheckpoint
  <2>1. \A x \in Messages : ctx'[x] = IF x \in history \cup rest THEN 1 ELSE 0
    BY <1>3, <1>5, OnceIs
  <2>2. checkpoint' \in [Messages -> Nat]
    BY <1>1, NothingIs DEF OpensRun
  <2> QED
    BY <1>2, <1>4, <1>5, <2>1, <2>2 DEF OpensRun, Starts
<1>6. CASE ~(rebase \/ checkpoint = NoCheckpoint)
  <2>1. \A x \in Messages : ctx'[x] = IF x \in rest \ plain THEN checkpoint[x] + 1 ELSE checkpoint[x]
    BY <1>1, <1>3, <1>6, SeedIs
  <2> QED
    BY <1>1, <1>2, <1>4, <1>6, <2>1 DEF OpensRun, Starts
<1> QED
  BY <1>5, <1>6

LEMMA SendsSteers ==
    ASSUME SteersInv, NEW m \in Messages, Sends(m)
    PROVE  SteersInv'
<1>1. steers \in [Messages -> Marks] /\ newest \in Nat \ {0} /\ inj \in [Messages -> {"no", "waiting", "sent", "taken"}]
  BY DEF SteersInv, SteersTypes
<1>2. steers[m] = NoSteer /\ Says(NoSteer, 0, FALSE, FALSE, FALSE, FALSE)
  BY NoSteerIs DEF Sends, SteersInv, RecordsOK, RecordOK
<1>3. [NoSteer EXCEPT !.run = newest] \in Marks /\ Says([NoSteer EXCEPT !.run = newest], newest, FALSE, FALSE, FALSE, FALSE)
  BY <1>1, NewMarks DEF Says
<1>4. steers' \in [Messages -> Marks] /\ inj' \in [Messages -> {"no", "waiting", "sent", "taken"}]
  BY <1>1, <1>3 DEF Sends
<1>5. \A x \in Messages : x # m => steers'[x] = steers[x] /\ inj'[x] = inj[x]
  BY <1>1 DEF Sends
<1>6. \/ stage = "pumped" /\ inj'[m] = "waiting" /\ Says(steers'[m], newest, FALSE, FALSE, FALSE, FALSE)
      \/ stage # "pumped" /\ steers'[m] = NoSteer /\ inj'[m] = inj[m]
  BY <1>1, <1>2, <1>3 DEF Sends
<1>7. SteersTypes'
  BY <1>3 DEF SteersInv, SteersTypes, Sends
<1>8. HostAt'
  BY DEF SteersInv, HostAt, Sends
<1>9. PlacesApart'
  BY DEF SteersInv, PlacesApart, Sends
<1>10. RecordsOK'
  BY <1>1, <1>4 DEF SteersInv, NoSteer, RecordsOK, RecordOK, Sends
<1>11. RecordsServe'
  BY <1>4 DEF SteersInv, NoSteer, HostAt, PlacesApart, RecordsServe, RecordServes, InjectionKept,
     Live, Tracked, Sends
<1>12. InjectionKept'
  BY DEF SteersInv, SteersTypes, NoSteer, InjectionKept, Live, Tracked, Sends
<1>13. NoneUnnoticed'
  BY <1>1, <1>2, <1>3, <1>4 DEF SteersInv, InjectionKept, NoneUnnoticed, Noticed, Live, Tracked,
     Sends
<1>14. CallTail'
  <2>1. m \notin tail /\ m \notin left
    BY <1>2 DEF Sends, Says, SteersInv, PlacesApart, CallTail
  <2>2. (\A x \in tail : x # m) /\ (\A x \in left : x # m) /\ tail \subseteq Messages /\ left \subseteq Messages
    BY <2>1 DEF SteersInv, SteersTypes
  <2> QED
    BY <1>5, <2>2 DEF Sends, SteersInv, CallTail, Tracked
<1>15. CheckpointsKnown'
  BY <1>1, <1>2, <1>3, <1>4, <1>5, <1>6 DEF SteersInv, InjectionKept, CheckpointsKnown, Known,
     Unheld, Live, Sends
<1>16. OnceKept'
  BY DEF SteersInv, Live, OnceKept, OnceEach, Sends
<1>17. HistoryAccounted'
  <2>1. m \notin tail /\ m \notin history
    BY DEF Sends, SteersInv, PlacesApart
  <2>2. (\A x \in tail : x # m) /\ (\A x \in history : x # m) /\ tail \subseteq Messages /\ history \subseteq Messages
    BY <2>1 DEF SteersInv, SteersTypes
  <2> QED
    BY <1>5, <2>2 DEF Sends, SteersInv, HistoryAccounted, Accounted, Restored, Live, Tracked
<1> QED
  BY <1>7, <1>8, <1>9, <1>10, <1>11, <1>12, <1>13, <1>14, <1>15, <1>16, <1>17 DEF SteersInv

LEMMA WithdrawsSteers ==
    ASSUME SteersInv, NEW m \in Messages, Withdraws(m)
    PROVE  SteersInv'
<1>1. SteersTypes'
  BY DEF SteersInv, SteersTypes, Marks, NoSteer, Withdraws, Keep
<1>2. HostAt'
  BY DEF SteersInv, SteersTypes, Marks, NoSteer, HostAt, Withdraws, Keep
<1>3. PlacesApart'
  BY DEF SteersInv, PlacesApart, Withdraws
<1>4. RecordsOK'
  BY DEF SteersInv, SteersTypes, Marks, NoSteer, RecordsOK, RecordOK, Withdraws, Keep
<1>5. RecordsServe'
  BY DEF SteersInv, NoSteer, HostAt, PlacesApart, RecordsOK, RecordOK, RecordsServe,
     RecordServes, InjectionKept, Live, Tracked, NotHeld, Withdraws, Keep
<1>6. InjectionKept'
  BY DEF SteersInv, PlacesApart, InjectionKept, Live, Tracked, Withdraws, Keep
<1>7. NoneUnnoticed'
  BY DEF SteersInv, SteersTypes, HostAt, NoneUnnoticed, Noticed, Live, Tracked, Withdraws, Keep
<1>8. CallTail'
  BY DEF SteersInv, SteersTypes, RecordsOK, RecordOK, CallTail, Tracked, Withdraws, Keep
<1>9. CheckpointsKnown'
  BY DEF SteersInv, CheckpointsKnown, Known, Live, Withdraws, Keep
<1>10. OnceKept'
  BY DEF SteersInv, Live, OnceKept, OnceEach, Withdraws
<1>11. HistoryAccounted'
  BY DEF SteersInv, SteersTypes, Live, Tracked, Accounted, Restored, HistoryAccounted, Withdraws,
     Keep
<1> QED
  BY <1>1, <1>2, <1>3, <1>4, <1>5, <1>6, <1>7, <1>8, <1>9, <1>10, <1>11 DEF SteersInv

LEMMA WritesSteers ==
    ASSUME SteersInv, NEW m \in Messages, Writes(m)
    PROVE  SteersInv'
<1>1. SteersTypes'
  BY DEF SteersInv, SteersTypes, Marks, NoSteer, Writes, Tracked, Takes
<1>2. HostAt'
  BY DEF SteersInv, SteersTypes, Marks, NoSteer, HostAt, Writes, Tracked, Takes
<1>3. PlacesApart'
  BY DEF SteersInv, PlacesApart, Writes
<1>4. RecordsOK'
  BY DEF SteersInv, RecordsOK, RecordOK, Writes
<1>5. RecordsServe'
  BY DEF SteersInv, RecordsServe, RecordServes, InjectionKept, Tracked, Writes
<1>6. InjectionKept'
  BY DEF SteersInv, InjectionKept, Live, Tracked, Writes
<1>7. NoneUnnoticed'
  BY DEF SteersInv, InjectionKept, NoneUnnoticed, Noticed, Tracked, Writes
<1>8. CallTail'
  BY DEF SteersInv, CallTail, Tracked, Writes
<1>9. CheckpointsKnown'
  BY DEF SteersInv, InjectionKept, CheckpointsKnown, Known, Writes
<1>10. OnceKept'
  BY DEF SteersInv, InjectionKept, OnceKept, OnceEach, Writes
<1>11. HistoryAccounted'
  BY DEF SteersInv, InjectionKept, Tracked, Accounted, Restored, HistoryAccounted, Writes
<1> QED
  BY <1>1, <1>2, <1>3, <1>4, <1>5, <1>6, <1>7, <1>8, <1>9, <1>10, <1>11 DEF SteersInv

LEMMA SkipsWriteSteers ==
    ASSUME SteersInv, NEW m \in Messages, SkipsWrite(m)
    PROVE  SteersInv'
<1>1. SteersTypes'
  BY DEF SteersInv, SteersTypes, Marks, NoSteer, SkipsWrite, Forgotten, Keep
<1>2. HostAt'
  BY DEF SteersInv, SteersTypes, Marks, NoSteer, HostAt, SkipsWrite, Forgotten, Keep
<1>3. PlacesApart'
  BY DEF SteersInv, PlacesApart, SkipsWrite
<1>4. RecordsOK'
  <2>1. \A x \in Messages : steers'[x] = steers[x] \/ steers'[x] = NoSteer
    BY KeepIs DEF SkipsWrite, Forgotten, SteersInv
  <2>2. UNCHANGED <<newest, answered, unsent, inbox, stage, tail, nudged, onFile>>
    BY DEF SkipsWrite
  <2>3. ASSUME NEW x \in Messages
        PROVE  RecordOK(steers[x], x)' /\ RecordOK(onFile.steers[x], x)'
    <3>1. RecordOK(steers[x], x) /\ RecordOK(onFile.steers[x], x) /\ newest \in Nat
      BY DEF SteersInv, SteersTypes, RecordsOK
    <3>2. RecordOK(onFile.steers[x], x)'
      BY <2>2, <3>1 DEF RecordOK
    <3>3. RecordOK(NoSteer, x)
      BY <3>1, NoSteerIs DEF RecordOK, Says
    <3> QED
      BY <2>1, <2>2, <3>1, <3>2, <3>3 DEF RecordOK
  <2> QED
    BY <2>3 DEF RecordsOK
<1>5. RecordsServe'
  BY DEF SteersInv, NoSteer, HostAt, PlacesApart, RecordsOK, RecordOK, RecordsServe,
     RecordServes, InjectionKept, Live, Tracked, NotHeld, SkipsWrite, Forgotten, Keep
<1>6. InjectionKept'
  BY DEF SteersInv, SteersTypes, InjectionKept, Live, Tracked, SkipsWrite, Forgotten, Keep
<1>7. NoneUnnoticed'
  BY DEF SteersInv, InjectionKept, NoneUnnoticed, Noticed, Tracked, SkipsWrite, Forgotten, Keep
<1>8. CallTail'
  BY DEF SteersInv, SteersTypes, RecordsOK, RecordOK, CallTail, Tracked, SkipsWrite, Forgotten,
     Keep
<1>9. CheckpointsKnown'
  BY DEF SteersInv, InjectionKept, CheckpointsKnown, Known, Unheld, SkipsWrite, Forgotten, Keep
<1>10. OnceKept'
  BY DEF SteersInv, InjectionKept, OnceKept, OnceEach, SkipsWrite
<1>11. HistoryAccounted'
  BY DEF SteersInv, SteersTypes, InjectionKept, Tracked, Awaited, Accounted, Restored,
     HistoryAccounted, SkipsWrite, Forgotten, Keep
<1> QED
  BY <1>1, <1>2, <1>3, <1>4, <1>5, <1>6, <1>7, <1>8, <1>9, <1>10, <1>11 DEF SteersInv

LEMMA DeliversSteers ==
    ASSUME SteersInv, NEW m \in Messages, Delivers(m)
    PROVE  SteersInv'
<1>1. ctx' \in [Messages -> Nat] /\ \A x \in Messages : ctx'[x] = IF x = m THEN ctx[x] + 1 ELSE ctx[x]
  BY PlusIs DEF Delivers, SteersInv, SteersTypes
<1>2. SteersTypes'
  BY <1>1 DEF SteersInv, SteersTypes, Marks, NoSteer, Says, Delivers
<1>3. HostAt'
  BY <1>1 DEF SteersInv, SteersTypes, Marks, NoSteer, HostAt, Says, Delivers
<1>4. PlacesApart'
  BY DEF SteersInv, PlacesApart, Delivers
<1>5. RecordsOK'
  BY DEF SteersInv, RecordsOK, RecordOK, Delivers
<1>6. RecordsServe'
  BY DEF SteersInv, SteersTypes, RecordsServe, RecordServes, InjectionKept, Tracked, Delivers,
     Plus, Once
<1>7. InjectionKept'
  BY DEF SteersInv, SteersTypes, InjectionKept, Live, Tracked, Delivers, Plus, Once
<1>8. NoneUnnoticed'
  BY <1>1 DEF SteersInv, SteersTypes, Marks, NoSteer, HostAt, PlacesApart, RecordsOK, RecordOK,
     RecordsServe, RecordServes, InjectionKept, NoneUnnoticed, Noticed, CheckpointsKnown, Known,
     Unheld, Live, Tracked, NotHeld, OnceKept, OnceEach, Says, Delivers
<1>9. CallTail'
  BY DEF SteersInv, CallTail, Tracked, Delivers
<1>10. CheckpointsKnown'
  BY DEF SteersInv, InjectionKept, CheckpointsKnown, Known, Delivers
<1>11. OnceKept'
  BY DEF SteersInv, SteersTypes, InjectionKept, OnceKept, OnceEach, Delivers, Plus, Once
<1>12. HistoryAccounted'
  BY DEF SteersInv, SteersTypes, InjectionKept, Tracked, Accounted, Restored, HistoryAccounted,
     Delivers, Plus, Once
<1> QED
  BY <1>2, <1>3, <1>4, <1>5, <1>6, <1>7, <1>8, <1>9, <1>10, <1>11, <1>12 DEF SteersInv

LEMMA ReadsDeliverySteers ==
    ASSUME SteersInv, NEW m \in Messages, ReadsDelivery(m)
    PROVE  SteersInv'
<1>1. steers \in [Messages -> Marks] /\ steers[m] \in Marks
  BY DEF ReadsDelivery, SteersInv, SteersTypes
<1>2. [steers[m] EXCEPT !.delivered = TRUE] \in Marks /\ Says([steers[m] EXCEPT !.delivered = TRUE], steers[m].run, TRUE, steers[m].checkpointed, steers[m].answered, steers[m].promoted)
  BY <1>1, NewMarks DEF Says
<1>3. steers' \in [Messages -> Marks] /\ \A x \in Messages : x # m => steers'[x] = steers[x]
  BY <1>1, <1>2 DEF ReadsDelivery
<1>4. \/ ~Tracked(m) /\ steers'[m] = NoSteer
      \/ Tracked(m) /\ Says(steers'[m], steers[m].run, TRUE, steers[m].checkpointed, steers[m].answered, steers[m].promoted)
  BY <1>1, <1>2 DEF ReadsDelivery, Tracked
<1>5. SteersTypes'
  BY <1>1, <1>2, <1>3, <1>4 DEF SteersInv, SteersTypes, Marks, NoSteer, Says, ReadsDelivery
<1>6. HostAt'
  BY DEF SteersInv, HostAt, ReadsDelivery
<1>7. PlacesApart'
  BY DEF SteersInv, PlacesApart, ReadsDelivery
<1>8. RecordsOK'
  <2>1. ASSUME NEW x \in Messages, x # m
        PROVE  RecordOK(steers[x], x)'
    BY <1>3, <2>1 DEF ReadsDelivery, SteersInv, RecordsOK, RecordOK
  <2>2. RecordOK(steers[m], m)
    BY DEF SteersInv, RecordsOK
  <2>3. RecordOK(steers[m], m)'
    BY <1>1, <1>4, <2>2 DEF ReadsDelivery, RecordOK, Says, Tracked
  <2>4. \A x \in Messages : RecordOK(onFile.steers[x], x)'
    BY DEF ReadsDelivery, SteersInv, RecordsOK, RecordOK
  <2> QED
    BY <2>1, <2>3, <2>4 DEF RecordsOK
<1>9. RecordsServe'
  <2>1. ASSUME NEW x \in Messages, x # m, Live
        PROVE  RecordServes(x)'
    BY <1>3, <2>1 DEF ReadsDelivery, SteersInv, RecordsServe, RecordServes, Tracked
  <2>2. Live => RecordServes(m)'
    BY DEF ReadsDelivery, SteersInv, RecordsServe, RecordServes, InjectionKept, Tracked
  <2> QED
    BY <2>1, <2>2 DEF RecordsServe, Live, ReadsDelivery
<1>10. InjectionKept'
  BY DEF SteersInv, InjectionKept, Live, Tracked, ReadsDelivery
<1>11. NoneUnnoticed'
  BY DEF SteersInv, SteersTypes, NoSteer, InjectionKept, NoneUnnoticed, Noticed, Tracked,
     ReadsDelivery
<1>12. CallTail'
  BY DEF SteersInv, NoSteer, CallTail, Tracked, ReadsDelivery
<1>13. CheckpointsKnown'
  BY DEF SteersInv, InjectionKept, CheckpointsKnown, Known, Unheld, ReadsDelivery
<1>14. OnceKept'
  BY DEF SteersInv, InjectionKept, OnceKept, OnceEach, ReadsDelivery
<1>15. HistoryAccounted'
  BY <1>1, <1>2 DEF SteersInv, NoSteer, InjectionKept, Tracked, Awaited, Accounted, Restored,
     HistoryAccounted, ReadsDelivery
<1> QED
  BY <1>5, <1>6, <1>7, <1>8, <1>9, <1>10, <1>11, <1>12, <1>13, <1>14, <1>15 DEF SteersInv

LEMMA CheckpointsSteers ==
    ASSUME SteersInv, Checkpoints
    PROVE  SteersInv'
<1>1. steers \in [Messages -> Marks] /\ ctx \in [Messages -> Nat]
  BY DEF SteersInv, SteersTypes
<1>2. \A x \in Messages : ctx[x] - Once(unread)[x] = (IF x \in unread THEN ctx[x] - 1 ELSE ctx[x]) /\ (x \in unread => ctx[x] \in Nat \ {0})
  BY <1>1, OnceIs DEF SteersInv, InjectionKept, SteersTypes
<1>3. checkpoint' \in [Messages -> Nat] /\ \A x \in Messages : checkpoint'[x] = IF x \in unread THEN ctx[x] - 1 ELSE ctx[x]
  BY <1>1, <1>2 DEF Checkpoints
<1>4. \A x \in Messages :
         \/ steers[x].run = newest /\ steers[x].delivered /\ Says(steers'[x], newest, TRUE, TRUE, steers[x].answered, steers[x].promoted)
         \/ (steers[x].run # newest \/ ~steers[x].delivered) /\ steers'[x] = steers[x]
  <2>1. SUFFICES ASSUME NEW x \in Messages, steers[x].run = newest, steers[x].delivered
                  PROVE  Says(steers'[x], newest, TRUE, TRUE, steers[x].answered, steers[x].promoted)
    BY DEF Checkpoints
  <2>2. steers[x].delivered = TRUE /\ steers[x] \in Marks
    BY <1>1, <2>1, MarksFields
  <2>3. steers'[x] = [steers[x] EXCEPT !.checkpointed = TRUE]
    BY <2>1 DEF Checkpoints
  <2>4. Says([steers[x] EXCEPT !.checkpointed = TRUE], steers[x].run, steers[x].delivered, TRUE,
             steers[x].answered, steers[x].promoted)
    BY <2>2, NewMarks
  <2> QED
    BY <2>1, <2>2, <2>3, <2>4
<1>5. steers' \in [Messages -> Marks]
  BY <1>1, NewMarks DEF Checkpoints, Says
<1>6. SteersTypes'
  BY <1>2, <1>5 DEF SteersInv, SteersTypes, Checkpoints
<1>7. HostAt'
  BY DEF SteersInv, HostAt, Checkpoints
<1>8. PlacesApart'
  BY DEF SteersInv, PlacesApart, Checkpoints
<1>9. RecordsOK'
  <2>1. ASSUME NEW x \in Messages
        PROVE  RecordOK(steers[x], x)'
    <3>1. /\ RecordOK(steers[x], x) /\ newest \in Nat
          /\ UNCHANGED <<newest, unsent, inbox, tail, stage, answered, nudged>>
      BY DEF Checkpoints, SteersInv, RecordsOK, SteersTypes
    <3>2. CASE steers'[x] = steers[x]
      BY <3>1, <3>2 DEF RecordOK
    <3>3. CASE steers[x].run = newest /\ steers[x].delivered
               /\ Says(steers'[x], newest, TRUE, TRUE, steers[x].answered, steers[x].promoted)
      <4>1. steers[x] # NoSteer
        BY <3>3, NoSteerIs DEF Says
      <4> QED
        BY <3>1, <3>3, <4>1 DEF RecordOK, Says
    <3> QED
      BY <1>4, <3>2, <3>3
  <2>2. \A x \in Messages : RecordOK(onFile.steers[x], x)'
    BY DEF Checkpoints, SteersInv, RecordsOK, RecordOK
  <2> QED
    BY <2>1, <2>2 DEF RecordsOK
<1>10. RecordsServe'
  <2>1. ASSUME NEW x \in Messages
        PROVE  RecordServes(x)'
    <3>1. RecordServes(x) /\ ctx[x] \in Nat /\ newest \in Nat
      BY <1>1 DEF Checkpoints, SteersInv, SteersTypes, RecordsServe, Live
    <3>2. steers[x].run = newest => Tracked(x)
      BY DEF SteersInv, SteersTypes, Tracked, NoSteer
    <3>3. x \notin unread => checkpoint'[x] = ctx[x]
      BY <1>3
    <3>4. UNCHANGED <<newest, unread, ctx, plain>>
      BY DEF Checkpoints
    <3>5. CASE steers'[x] = steers[x] /\ (steers[x].run # newest \/ ~steers[x].delivered)
      <4>1. ~(steers[x].run = newest /\ steers[x].checkpointed)
        BY <3>5 DEF SteersInv, RecordsOK, RecordOK
      <4> QED
        BY <3>1, <3>4, <3>5, <4>1 DEF RecordServes, Tracked
    <3>6. CASE steers[x].run = newest /\ steers[x].delivered
               /\ Says(steers'[x], newest, TRUE, TRUE, steers[x].answered, steers[x].promoted)
      BY <3>1, <3>2, <3>3, <3>4, <3>6 DEF RecordServes, Says, Tracked
    <3> QED
      BY <1>4, <3>5, <3>6
  <2> QED
    BY <2>1 DEF RecordsServe
<1>11. InjectionKept'
  BY <1>2 DEF SteersInv, NoSteer, InjectionKept, Live, Tracked, NotHeld, Checkpoints
<1>12. NoneUnnoticed'
  BY <1>1, <1>2, <1>3, <1>4, <1>5 DEF SteersInv, SteersTypes, NoSteer, NoneUnnoticed, Noticed,
     Live, Tracked, Checkpoints
<1>13. CallTail'
  BY DEF SteersInv, SteersTypes, NoSteer, CallTail, Tracked, Checkpoints
<1>14. CheckpointsKnown'
  BY <1>1, <1>2, <1>3, <1>4, <1>5 DEF SteersInv, SteersTypes, Marks, NoSteer, HostAt,
     PlacesApart, RecordsOK, RecordOK, RecordsServe, RecordServes, NoneUnnoticed, Noticed,
     CallTail, CheckpointsKnown, Known, Unheld, Live, Tracked, NotHeld, OnceKept, OnceEach,
     Checkpoints
<1>15. OnceKept'
  BY <1>1, <1>2, <1>3, <1>4, <1>5 DEF SteersInv, RecordsOK, RecordOK, InjectionKept, OnceKept,
     OnceEach, Checkpoints
<1>16. HistoryAccounted'
  BY <1>1, <1>2, <1>3, <1>4, <1>5 DEF SteersInv, SteersTypes, RecordsServe, RecordServes, Live,
     Tracked, Holds, Accounted, Restored, HistoryAccounted, Checkpoints
<1> QED
  BY <1>6, <1>7, <1>8, <1>9, <1>10, <1>11, <1>12, <1>13, <1>14, <1>15, <1>16 DEF SteersInv

LEMMA SteeredTurnEndsSteers ==
    ASSUME SteersInv, SteeredTurnEnds
    PROVE  SteersInv'
<1>1. \A x \in Messages :
         \/ /\ Resolved[x] = NoSteer
            /\ ~Tracked(x) \/ steers[x].run # newest \/ (~steers[x].delivered /\ ~steers[x].promoted)
         \/ /\ Tracked(x) /\ steers[x].run = newest /\ steers[x].delivered
            /\ Says(Resolved[x], newest, TRUE, steers[x].checkpointed, TRUE, steers[x].promoted)
         \/ /\ Tracked(x) /\ steers[x].run = newest /\ ~steers[x].delivered
            /\ steers[x].promoted /\ ~steers[x].answered /\ ~steers[x].checkpointed
            /\ Says(Resolved[x], newest, TRUE, FALSE, FALSE, TRUE)
  BY ResolvedSays DEF SteeredTurnEnds, TurnDone, Live
<1>2. steers' = Resolved /\ Resolved \in [Messages -> Marks]
  BY <1>1, NoSteerIs DEF SteeredTurnEnds, Resolved, Says
<1>3. onFile'.steers = Resolved /\ onFile'.checkpoint = checkpoint /\ onFile' \in [steers : [Messages -> Marks], checkpoint : [Messages -> Nat]]
  BY <1>2 DEF SteeredTurnEnds, SteersInv, SteersTypes
<1>4. SteersTypes'
  BY <1>2 DEF SteersInv, SteersTypes, SteeredTurnEnds
<1>5. HostAt'
  BY DEF HostAt, SteeredTurnEnds
<1>6. PlacesApart'
  BY DEF SteersInv, PlacesApart, SteeredTurnEnds
<1>7. RecordsOK'
  BY <1>1, <1>2, <1>3 DEF SteersInv, SteersTypes, NoSteer, RecordsOK, RecordOK, RecordsServe,
     RecordServes, Live, Says, SteeredTurnEnds, TurnDone
<1>8. RecordsServe'
  BY DEF RecordsServe, Live, SteeredTurnEnds
<1>9. InjectionKept'
  BY DEF SteersInv, SteersTypes, InjectionKept, SteeredTurnEnds, TurnDone
<1>10. NoneUnnoticed'
  BY DEF NoneUnnoticed, Live, SteeredTurnEnds
<1>11. CallTail'
  BY DEF CallTail, SteeredTurnEnds
<1>12. CheckpointsKnown'
  BY <1>1, <1>2, <1>3 DEF SteersInv, SteersTypes, Marks, NoSteer, HostAt, PlacesApart, RecordsOK,
     RecordOK, RecordsServe, RecordServes, InjectionKept, CheckpointsKnown, Known, Unheld, Live,
     Tracked, Says, SteeredTurnEnds, TurnDone
<1>13. OnceKept'
  BY DEF SteersInv, Live, OnceKept, OnceEach, SteeredTurnEnds
<1>14. HistoryAccounted'
  BY <1>1, <1>2, <1>3 DEF SteersInv, SteersTypes, RecordsServe, RecordServes, Live, Awaited,
     Accounted, Restored, HistoryAccounted, SteeredTurnEnds, TurnDone, Undelivered
<1> QED
  BY <1>4, <1>5, <1>6, <1>7, <1>8, <1>9, <1>10, <1>11, <1>12, <1>13, <1>14 DEF SteersInv

LEMMA FollowsUpSteers ==
    ASSUME SteersInv, FollowsUp
    PROVE  SteersInv'
<1>1. \A x \in Messages :
         \/ /\ Resolved[x] = NoSteer
            /\ ~Tracked(x) \/ steers[x].run # newest \/ (~steers[x].delivered /\ ~steers[x].promoted)
         \/ /\ Tracked(x) /\ steers[x].run = newest /\ steers[x].delivered
            /\ Says(Resolved[x], newest, TRUE, steers[x].checkpointed, TRUE, steers[x].promoted)
         \/ /\ Tracked(x) /\ steers[x].run = newest /\ ~steers[x].delivered
            /\ steers[x].promoted /\ ~steers[x].answered /\ ~steers[x].checkpointed
            /\ Says(Resolved[x], newest, TRUE, FALSE, FALSE, TRUE)
  BY ResolvedSays DEF FollowsUp, TurnDone, Live
<1>2. steers' = Resolved /\ Resolved \in [Messages -> Marks]
  BY <1>1, NoSteerIs DEF FollowsUp, Resolved, Says
<1>3. onFile'.steers = Resolved /\ onFile'.checkpoint = checkpoint /\ onFile' \in [steers : [Messages -> Marks], checkpoint : [Messages -> Nat]]
  BY <1>2 DEF FollowsUp, SteersInv, SteersTypes
<1>4. ctx' \in [Messages -> Nat] /\ \A x \in Messages : ctx'[x] = IF x \in Undelivered THEN checkpoint[x] + 1 ELSE checkpoint[x]
  BY PlusIs DEF FollowsUp, SteersInv, SteersTypes
<1>5. SteersTypes'
  BY <1>2, <1>4 DEF SteersInv, SteersTypes, FollowsUp
<1>6. HostAt'
  BY DEF SteersInv, HostAt, FollowsUp
<1>7. PlacesApart'
  <2>1. ASSUME NEW x \in Messages, steers[x].answered \/ Resolved[x].answered
        PROVE  x \in answered'
    <3>1. steers[x].run = newest /\ steers[x].delivered => ctx[x] > 0
      BY DEF FollowsUp, TurnDone, SteersInv, RecordsServe, RecordServes, Live
    <3>2. steers[x].answered => x \in answered
      BY DEF SteersInv, RecordsOK, RecordOK
    <3> QED
      BY <1>1, <2>1, <3>1, <3>2, NoSteerIs DEF FollowsUp, Says
  <2>2. ASSUME NEW x \in unsent
        PROVE  ~steers[x].answered /\ ~Resolved[x].answered
    <3>1. x \in Messages /\ steers[x] = NoSteer
      BY DEF SteersInv, SteersTypes, RecordsOK, RecordOK
    <3> QED
      BY <1>1, <3>1, NoSteerIs DEF Says, Tracked
  <2>3. nudged' = nudged \cup {x \in Messages : steers[x].answered \/ Resolved[x].answered} /\ answered \subseteq answered'
    BY DEF FollowsUp
  <2>4. nudged' \subseteq answered' /\ unsent \cap nudged' = {}
    BY <2>1, <2>2, <2>3 DEF SteersInv, PlacesApart
  <2> QED
    BY <2>4 DEF FollowsUp, SteersInv, PlacesApart
<1>8. RecordsOK'
  BY <1>1, <1>2 DEF SteersInv, SteersTypes, NoSteer, RecordsOK, RecordOK, RecordsServe,
     RecordServes, Live, Says, FollowsUp, TurnDone
<1>9. RecordsServe'
  BY DEF SteersInv, SteersTypes, Marks, NoSteer, RecordsServe, RecordServes, Live, Tracked,
     NotHeld, FollowsUp, TurnDone, Undelivered, Resolved, Stays, Plus, Once
<1>10. InjectionKept'
  BY DEF SteersInv, SteersTypes, RecordsOK, RecordOK, InjectionKept, FollowsUp, TurnDone,
     Undelivered, Plus, Once
<1>11. NoneUnnoticed'
  BY DEF SteersInv, SteersTypes, Marks, NoSteer, HostAt, PlacesApart, RecordsOK, RecordOK,
     RecordsServe, RecordServes, InjectionKept, NoneUnnoticed, Noticed, Live, OnceKept, OnceEach,
     FollowsUp, TurnDone, Undelivered, Resolved, Stays, Plus, Once
<1>12. CallTail'
  BY <1>1, <1>2, <1>3, <1>4 DEF SteersInv, SteersTypes, NoSteer, RecordsServe, RecordServes,
     CallTail, Live, Tracked, Says, FollowsUp
<1>13. CheckpointsKnown'
  BY <1>1, <1>2, <1>3, <1>4 DEF SteersInv, SteersTypes, Marks, NoSteer, HostAt, PlacesApart,
     RecordsOK, RecordOK, RecordsServe, RecordServes, InjectionKept, CheckpointsKnown, Known,
     Unheld, Live, Tracked, Says, FollowsUp, TurnDone
<1>14. OnceKept'
  BY DEF SteersInv, SteersTypes, Marks, NoSteer, HostAt, PlacesApart, RecordsOK, RecordOK,
     RecordsServe, RecordServes, InjectionKept, NoneUnnoticed, Noticed, Live, Tracked, OnceKept,
     OnceEach, FollowsUp, TurnDone, Undelivered, Plus, Once
<1>15. HistoryAccounted'
  BY <1>1, <1>2, <1>3, <1>4 DEF SteersInv, SteersTypes, Marks, NoSteer, RecordsServe,
     RecordServes, Live, Tracked, Awaited, Accounted, Restored, HistoryAccounted, Says,
     FollowsUp, TurnDone
<1> QED
  BY <1>5, <1>6, <1>7, <1>8, <1>9, <1>10, <1>11, <1>12, <1>13, <1>14, <1>15 DEF SteersInv

LEMMA StepEndsSteers ==
    ASSUME SteersInv, StepEnds
    PROVE  SteersInv'
<1>1. \/ onFile' \in [steers : [Messages -> Marks], checkpoint : [Messages -> Nat]] /\ onFile'.steers = steers /\ onFile'.checkpoint = checkpoint
      \/ onFile' = onFile
  BY DEF StepEnds, SteersInv, SteersTypes
<1>2. SteersTypes'
  BY <1>1 DEF SteersInv, SteersTypes, Marks, NoSteer, Says, StepEnds
<1>3. HostAt'
  BY <1>1 DEF SteersInv, SteersTypes, Marks, NoSteer, HostAt, Says, StepEnds
<1>4. PlacesApart'
  BY DEF SteersInv, PlacesApart, StepEnds
<1>5. RecordsOK'
  BY DEF SteersInv, PlacesApart, RecordsOK, RecordOK, RecordsServe, RecordServes, Live, Tracked,
     Says, StepEnds
<1>6. RecordsServe'
  BY DEF SteersInv, RecordsServe, RecordServes, Live, Tracked, StepEnds
<1>7. InjectionKept'
  BY DEF SteersInv, SteersTypes, InjectionKept, Live, Tracked, StepEnds
<1>8. NoneUnnoticed'
  BY DEF SteersInv, NoneUnnoticed, Noticed, Live, Tracked, StepEnds
<1>9. CallTail'
  BY DEF CallTail, StepEnds
<1>10. CheckpointsKnown'
  BY <1>1 DEF SteersInv, InjectionKept, CheckpointsKnown, Known, Unheld, Live, StepEnds
<1>11. OnceKept'
  BY DEF SteersInv, Live, OnceKept, OnceEach, StepEnds
<1>12. HistoryAccounted'
  BY DEF SteersInv, Live, Tracked, Accounted, Restored, HistoryAccounted, StepEnds
<1> QED
  BY <1>2, <1>3, <1>4, <1>5, <1>6, <1>7, <1>8, <1>9, <1>10, <1>11, <1>12 DEF SteersInv

LEMMA PromotesSteers ==
    ASSUME SteersInv, Promotes
    PROVE  SteersInv'
<1>1. SteersTypes'
  BY DEF SteersInv, SteersTypes, Marks, NoSteer, Promotes, provider
<1>2. HostAt'
  BY DEF SteersInv, SteersTypes, Marks, NoSteer, HostAt, Promotes, provider
<1>3. PlacesApart'
  BY DEF SteersInv, HostAt, PlacesApart, Promotes
<1>4. RecordsOK'
  BY DEF SteersInv, RecordsOK, RecordOK, Promotes, provider
<1>5. RecordsServe'
  BY DEF SteersInv, RecordsServe, RecordServes, Live, Tracked, Promotes, provider
<1>6. InjectionKept'
  BY DEF SteersInv, InjectionKept, Live, Tracked, Promotes, provider
<1>7. NoneUnnoticed'
  BY DEF SteersInv, NoneUnnoticed, Noticed, Live, Tracked, Promotes, provider
<1>8. CallTail'
  BY DEF SteersInv, HostAt, CallTail, Promotes, provider
<1>9. CheckpointsKnown'
  BY DEF SteersInv, CheckpointsKnown, Known, Live, Promotes, provider
<1>10. OnceKept'
  BY DEF SteersInv, Live, OnceKept, OnceEach, Promotes, provider
<1>11. HistoryAccounted'
  BY DEF SteersInv, HostAt, Live, Tracked, Accounted, Restored, HistoryAccounted, Promotes,
     provider
<1> QED
  BY <1>1, <1>2, <1>3, <1>4, <1>5, <1>6, <1>7, <1>8, <1>9, <1>10, <1>11 DEF SteersInv

LEMMA ContinuesSteers ==
    ASSUME SteersInv, Continues
    PROVE  SteersInv'
<1>1. steers \in [Messages -> Marks] /\ newest \in Nat
  BY DEF SteersInv, SteersTypes
<1>2. \A x \in Matched : x \in tail /\ Says(steers'[x], newest, steers[x].delivered, steers[x].checkpointed, FALSE, TRUE) /\ steers[x].run = newest /\ ~steers[x].answered
  <2>1. SUFFICES ASSUME NEW x \in Matched
                  PROVE  /\ x \in tail /\ steers[x].run = newest /\ ~steers[x].answered
                         /\ Says(steers'[x], newest, steers[x].delivered, steers[x].checkpointed, FALSE, TRUE)
    OBVIOUS
  <2>2. x \in tail /\ x \in Messages /\ steers[x].run = newest /\ ~steers[x].answered
    BY DEF Matched, SteersInv, SteersTypes
  <2>3. steers[x].answered = FALSE /\ steers[x] \in Marks
    BY <1>1, <2>2, MarksFields
  <2>4. steers'[x] = [steers[x] EXCEPT !.promoted = TRUE]
    BY <2>2 DEF Continues
  <2>5. Says([steers[x] EXCEPT !.promoted = TRUE], steers[x].run, steers[x].delivered, steers[x].checkpointed,
             steers[x].answered, TRUE)
    BY <2>3, NewMarks
  <2> QED
    BY <2>2, <2>3, <2>4, <2>5
<1>3. \A x \in tail \ Matched : Says(steers'[x], newest, FALSE, FALSE, FALSE, TRUE) /\ (steers[x].run # newest \/ steers[x].answered)
  BY <1>1, NewMarks DEF Continues, Matched, SteersInv, SteersTypes
<1>4. \A x \in Messages \ tail : steers'[x] = steers[x]
  BY <1>1 DEF Continues, Matched
<1>5. steers' \in [Messages -> Marks]
  BY <1>1, NewMarks DEF Continues, Says
<1>6. Matched \subseteq tail
  BY DEF Matched
<1>7. SteersTypes'
  BY <1>5 DEF SteersInv, SteersTypes, Continues
<1>8. HostAt'
  BY DEF HostAt, Continues
<1>9. PlacesApart'
  BY DEF SteersInv, PlacesApart, Continues
<1>10. RecordsOK'
  <2>1. ASSUME NEW x \in Messages
        PROVE  RecordOK(steers[x], x)'
    <3>1. RecordOK(steers[x], x) /\ newest \in Nat \ {0} /\ (x \in tail => x \notin unsent \cup inbox)
      BY DEF SteersInv, SteersTypes, RecordsOK, PlacesApart
    <3>2. CASE x \in Matched
      BY <1>2, <3>1, <3>2 DEF Continues, RecordOK, Says
    <3>3. CASE x \in tail \ Matched
      <4>1. /\ newest' = newest /\ unsent' = unsent /\ inbox' = inbox /\ stage' = "pumped"
            /\ Says(steers'[x], newest, FALSE, FALSE, FALSE, TRUE)
        BY <1>3, <3>3 DEF Continues
      <4> QED
        BY <3>1, <3>3, <4>1 DEF RecordOK, Says
    <3>4. CASE x \notin tail
      BY <1>4, <3>1, <3>4 DEF Continues, RecordOK
    <3> QED
      BY <3>2, <3>3, <3>4
  <2>2. \A x \in Messages : RecordOK(onFile.steers[x], x)'
    BY DEF Continues, SteersInv, RecordsOK, RecordOK
  <2> QED
    BY <2>1, <2>2 DEF RecordsOK
<1>11. RecordsServe'
  BY <1>1, <1>2, <1>3, <1>4, <1>5, <1>6 DEF SteersInv, SteersTypes, Marks, NoSteer, HostAt,
     PlacesApart, RecordsOK, RecordOK, RecordsServe, RecordServes, InjectionKept, Live, Tracked,
     NotHeld, Says, Continues, Matched
<1>12. InjectionKept'
  <2>1. ASSUME NEW x \in tail
        PROVE  Tracked(x)'
    BY <1>2, <1>3, <2>1 DEF Tracked, Says, NoSteer, SteersInv, SteersTypes
  <2>2. ASSUME NEW x \in Messages, ~Tracked(x)', inj[x] \in {"waiting", "sent"}
        PROVE  x \notin inbox \cup tail
    BY <1>4, <2>1, <2>2 DEF SteersInv, InjectionKept, Tracked
  <2> QED
    BY <2>2 DEF Continues, SteersInv, InjectionKept, Live, NotHeld
<1>13. NoneUnnoticed'
  BY <1>1, <1>2, <1>3, <1>4, <1>5, <1>6 DEF SteersInv, SteersTypes, Marks, NoSteer, RecordsOK,
     RecordOK, RecordsServe, RecordServes, NoneUnnoticed, Noticed, Live, Tracked, Continues,
     Matched
<1>14. CallTail'
  <2>1. ASSUME NEW x \in tail
        PROVE  Tracked(x)' /\ steers'[x].promoted
    BY <1>2, <1>3, <2>1 DEF Tracked, Says, NoSteer, SteersInv, SteersTypes
  <2>2. left = {}
    BY DEF Continues, SteersInv, HostAt
  <2> QED
    BY <2>1, <2>2 DEF Continues, CallTail
<1>15. CheckpointsKnown'
  BY <1>1, <1>2, <1>3, <1>4, <1>5, <1>6 DEF SteersInv, SteersTypes, RecordsOK, RecordOK,
     RecordsServe, RecordServes, CheckpointsKnown, Known, Unheld, Live, Tracked, Continues,
     Matched
<1>16. OnceKept'
  BY DEF SteersInv, Live, OnceKept, OnceEach, Continues
<1>17. HistoryAccounted'
  <2>1. ASSUME NEW x \in tail
        PROVE  Tracked(x)' /\ steers'[x].promoted /\ ~steers'[x].answered
    BY <1>2, <1>3, <2>1 DEF Tracked, Says, NoSteer, SteersInv, SteersTypes
  <2>2. \A x \in history : x \notin tail /\ x \in Messages
    BY DEF SteersInv, SteersTypes, PlacesApart
  <2>3. \A x \in history : Accounted(x)' /\ Restored(x)'
    BY <1>4, <2>2 DEF Continues, SteersInv, HistoryAccounted, Accounted, Restored, Live, Tracked
  <2>4. ASSUME NEW x \in tail
        PROVE  Accounted(x)' /\ Restored(x)'
    <3>1. x \in Messages /\ RecordOK(steers[x], x) /\ RecordOK(onFile.steers[x], x) /\ onFile' = onFile
      BY DEF Continues, SteersInv, SteersTypes, RecordsOK
    <3>2. Accounted(x)'
      BY <2>1 DEF Accounted, Awaited
    <3>3. Awaited(onFile.steers[x]) \/ ~onFile.steers[x].promoted \/ x \in answered
      BY <3>1 DEF Awaited, RecordOK
    <3> QED
      BY <2>1, <3>1, <3>2, <3>3 DEF Continues, Restored, Awaited
  <2> QED
    BY <2>3, <2>4 DEF Continues, HistoryAccounted
<1> QED
  BY <1>7, <1>8, <1>9, <1>10, <1>11, <1>12, <1>13, <1>14, <1>15, <1>16, <1>17 DEF SteersInv

LEMMA SupersedesDrainedSteers ==
    ASSUME SteersInv, SupersedesDrained
    PROVE  SteersInv'
<1>1. \A x \in Messages :
         \/ /\ Resolved[x] = NoSteer
            /\ ~Tracked(x) \/ steers[x].run # newest \/ (~steers[x].delivered /\ ~steers[x].promoted)
         \/ /\ Tracked(x) /\ steers[x].run = newest /\ steers[x].delivered
            /\ Says(Resolved[x], newest, TRUE, steers[x].checkpointed, TRUE, steers[x].promoted)
         \/ /\ Tracked(x) /\ steers[x].run = newest /\ ~steers[x].delivered
            /\ steers[x].promoted /\ ~steers[x].answered /\ ~steers[x].checkpointed
            /\ Says(Resolved[x], newest, TRUE, FALSE, FALSE, TRUE)
  BY ResolvedSays DEF SupersedesDrained, Live
<1>2. Resolved \in [Messages -> Marks]
  BY <1>1, NoSteerIs DEF Resolved, Says
<1>3. NeedsHistory(Resolved, 0) \in BOOLEAN
  BY DEF NeedsHistory
<1>4. Starts(Resolved, tail, NeedsHistory(Resolved, 0))
  BY <1>2, <1>3, OpensRunStarts DEF SupersedesDrained, SteersInv
<1>5. \A x \in Messages :
         \/ steers'[x] = NoSteer /\ (~Tracked(x) \/ steers[x].run # newest \/ ~steers[x].delivered)
         \/ /\ Tracked(x) /\ steers[x].run = newest /\ steers[x].delivered
            /\ Says(steers'[x], newest, TRUE, steers[x].checkpointed, TRUE, steers[x].promoted)
  BY <1>1, <1>4 DEF Starts, Says
<1>6. NeedsHistory(Resolved, 0) \/ \A x \in Messages : Tracked(x) /\ steers[x].run = newest
          => ~steers[x].promoted \/ steers[x].delivered
  BY <1>1 DEF NeedsHistory, Says, NoSteer, SteersInv, SteersTypes
<1>7. onFile' \in [steers : [Messages -> Marks], checkpoint : [Messages -> Nat]] /\ (onFile' = onFile \/ onFile' = Nothing)
  BY <1>4, NothingIs DEF Starts, SteersInv, SteersTypes
<1>8. Nothing.checkpoint = NoCheckpoint /\ \A x \in Messages : Nothing.steers[x] = NoSteer
  BY NothingIs
<1>9. SteersTypes'
  <2>1. /\ steers' \in [Messages -> Marks] /\ ctx' \in [Messages -> Nat] /\ checkpoint' \in [Messages -> Nat]
        /\ inj' = [x \in Messages |-> "no"] /\ mine' = FALSE /\ unread' = {} /\ newest' = newest + 1
        /\ stage' = "pumped" /\ opencode' = "step"
    BY <1>4 DEF Starts
  <2>2. /\ plain' \subseteq Messages /\ unsent' \subseteq Messages /\ inbox' \subseteq Messages
        /\ history' \subseteq Messages /\ tail' \subseteq Messages /\ left' \subseteq Messages
        /\ answered' \subseteq Messages /\ nudged' \subseteq Messages
    BY <1>4 DEF Starts, SupersedesDrained, SteersInv, SteersTypes, Answered
  <2>3. newest' \in Nat \ {0} /\ unread' \subseteq Messages
        /\ inj' \in [Messages -> {"no", "waiting", "sent", "taken"}]
    BY <2>1 DEF SteersInv, SteersTypes
  <2> QED
    BY <1>7, <2>1, <2>2, <2>3 DEF SteersTypes
<1>10. HostAt'
  BY <1>4 DEF HostAt, Starts
<1>11. PlacesApart'
  BY <1>4 DEF SteersInv, PlacesApart, SupersedesDrained, Starts
<1>12. RecordsOK'
  BY <1>1, <1>2, <1>3, <1>4, <1>5, <1>6, <1>7, <1>8 DEF SteersInv, SteersTypes, Marks, NoSteer,
     HostAt, RecordsOK, RecordOK, RecordsServe, RecordServes, Live, Says, SupersedesDrained,
     Starts
<1>13. RecordsServe'
  BY <1>1, <1>4 DEF NoSteer, RecordsServe, RecordServes, Tracked, Says, Starts
<1>14. InjectionKept'
  BY <1>1, <1>2, <1>3, <1>4, <1>5, <1>6, <1>7, <1>8 DEF SteersInv, SteersTypes, PlacesApart,
     InjectionKept, NotHeld, SupersedesDrained, Starts
<1>15. NoneUnnoticed'
  BY <1>1, <1>2, <1>3, <1>4, <1>5, <1>6 DEF SteersInv, SteersTypes, NoSteer, HostAt,
     NoneUnnoticed, Noticed, Says, SupersedesDrained, Starts
<1>16. CallTail'
  BY <1>1, <1>4 DEF SteersInv, HostAt, CallTail, SupersedesDrained, Starts
<1>17. CheckpointsKnown'
  BY <1>1, <1>2, <1>3, <1>4, <1>5, <1>6, <1>7, <1>8 DEF SteersInv, SteersTypes, Marks, NoSteer,
     HostAt, PlacesApart, CheckpointsKnown, Known, Unheld, NotHeld, OnceKept, SupersedesDrained,
     Starts
<1>18. OnceKept'
  <2>1. checkpoint = NoCheckpoint \/ \A x \in Messages \ nudged : checkpoint[x] <= 1
    BY DEF SteersInv, OnceKept, OnceEach
  <2>2. ASSUME NEW x \in tail \ nudged, checkpoint # NoCheckpoint
        PROVE  checkpoint[x] = 0
    <3>1. x \in Messages /\ x \notin plain /\ Live
      BY DEF SupersedesDrained, SteersInv, SteersTypes, PlacesApart, Live
    <3>2. RecordServes(x) /\ RecordOK(steers[x], x) /\ Known(x)
      BY <3>1 DEF SteersInv, RecordsServe, RecordsOK, CheckpointsKnown
    <3>3. ~steers[x].answered
      BY <3>2 DEF RecordOK, SupersedesDrained
    <3>4. steers[x] = NoSteer
      BY <3>1, <3>2, <3>3 DEF SupersedesDrained, Matched, RecordServes, Tracked
    <3>5. ~steers[x].checkpointed
      BY <3>4, NoSteerIs DEF Says
    <3> QED
      BY <2>2, <3>2, <3>3, <3>5 DEF Known, Unheld, NotHeld
  <2>3. ASSUME NEW x \in Messages \ nudged
        PROVE  ctx'[x] <= 1
    BY <1>4, <2>1, <2>2 DEF Starts, SteersInv, SteersTypes
  <2>4. nudged' = nudged /\ mine' = FALSE /\ (checkpoint' = NoCheckpoint \/ checkpoint' = checkpoint)
        /\ (onFile' = onFile \/ onFile' = Nothing)
    BY <1>4 DEF SupersedesDrained, Starts
  <2> QED
    BY <1>8, <2>1, <2>3, <2>4 DEF SteersInv, OnceKept, OnceEach
<1>19. HistoryAccounted'
  BY <1>1, <1>2, <1>3, <1>4, <1>5, <1>6, <1>7, <1>8 DEF SteersInv, SteersTypes, RecordsServe,
     RecordServes, Live, Tracked, Holds, Awaited, Accounted, Restored, HistoryAccounted,
     SupersedesDrained, Starts
<1> QED
  BY <1>9, <1>10, <1>11, <1>12, <1>13, <1>14, <1>15, <1>16, <1>17, <1>18, <1>19 DEF SteersInv

LEMMA SupersedesLostSteers ==
    ASSUME SteersInv, SupersedesLost
    PROVE  SteersInv'
<1>1. steers \in [Messages -> Marks]
  BY DEF SteersInv, SteersTypes
<1>2. Starts(steers, tail, TRUE)
  BY <1>1, OpensRunStarts DEF SupersedesLost, SteersInv
<1>3. \A x \in Messages :
         \/ steers[x].answered /\ steers'[x] = steers[x]
         \/ ~steers[x].answered /\ steers'[x] = NoSteer
  BY <1>2 DEF Starts
<1>4. onFile' \in [steers : [Messages -> Marks], checkpoint : [Messages -> Nat]] /\ (onFile' = onFile \/ onFile' = Nothing)
  BY <1>2, NothingIs DEF Starts, SteersInv, SteersTypes
<1>5. Nothing.checkpoint = NoCheckpoint /\ \A x \in Messages : Nothing.steers[x] = NoSteer
  BY NothingIs
<1>6. SteersTypes'
  <2>1. /\ steers' \in [Messages -> Marks] /\ ctx' \in [Messages -> Nat] /\ checkpoint' \in [Messages -> Nat]
        /\ inj' = [x \in Messages |-> "no"] /\ mine' = FALSE /\ unread' = {} /\ newest' = newest + 1
        /\ stage' = "pumped" /\ opencode' = "step"
    BY <1>2 DEF Starts
  <2>2. /\ plain' \subseteq Messages /\ unsent' \subseteq Messages /\ inbox' \subseteq Messages
        /\ history' \subseteq Messages /\ tail' \subseteq Messages /\ left' \subseteq Messages
        /\ answered' \subseteq Messages /\ nudged' \subseteq Messages
    BY <1>2 DEF Starts, SupersedesLost, SteersInv, SteersTypes, Answered
  <2>3. newest' \in Nat \ {0} /\ unread' \subseteq Messages
        /\ inj' \in [Messages -> {"no", "waiting", "sent", "taken"}]
    BY <2>1 DEF SteersInv, SteersTypes
  <2> QED
    BY <1>4, <2>1, <2>2, <2>3 DEF SteersTypes
<1>7. HostAt'
  BY <1>2 DEF HostAt, Starts
<1>8. PlacesApart'
  BY <1>2 DEF SteersInv, PlacesApart, SupersedesLost, Starts
<1>9. RecordsOK'
  BY <1>1, <1>2, <1>5 DEF SteersInv, SteersTypes, Marks, NoSteer, RecordsOK, RecordOK,
     SupersedesLost, Starts
<1>10. RecordsServe'
  BY <1>1, <1>2 DEF SteersInv, SteersTypes, NoSteer, RecordsOK, RecordOK, RecordsServe,
     RecordServes, Tracked, Starts
<1>11. InjectionKept'
  BY <1>1, <1>2, <1>3, <1>4, <1>5 DEF SteersInv, SteersTypes, PlacesApart, InjectionKept,
     NotHeld, SupersedesLost, Starts
<1>12. NoneUnnoticed'
  BY <1>1, <1>2, <1>3, <1>4, <1>5 DEF SteersInv, SteersTypes, Marks, NoSteer, HostAt, RecordsOK,
     RecordOK, RecordsServe, InjectionKept, NoneUnnoticed, Noticed, SupersedesLost, Starts
<1>13. CallTail'
  BY <1>1, <1>2 DEF SteersInv, SteersTypes, CallTail, SupersedesLost, Starts
<1>14. CheckpointsKnown'
  BY <1>2, <1>5 DEF CheckpointsKnown, Known, Unheld, NotHeld, Starts
<1>15. OnceKept'
  BY DEF OnceKept, OnceEach, SupersedesLost, OpensRun, Once, Nothing
<1>16. HistoryAccounted'
  BY <1>1, <1>2, <1>3, <1>4, <1>5 DEF SteersInv, SteersTypes, Holds, Accounted, Restored,
     HistoryAccounted, SupersedesLost, Starts
<1> QED
  BY <1>6, <1>7, <1>8, <1>9, <1>10, <1>11, <1>12, <1>13, <1>14, <1>15, <1>16 DEF SteersInv

LEMMA NothingToAskSteers ==
    ASSUME SteersInv, NothingToAsk
    PROVE  SteersInv'
<1>1. SteersTypes'
  BY DEF SteersInv, SteersTypes, Marks, NoSteer, NothingToAsk, provider, Answered
<1>2. HostAt'
  BY DEF SteersInv, SteersTypes, Marks, NoSteer, HostAt, NothingToAsk, provider, Answered
<1>3. PlacesApart'
  BY DEF SteersInv, PlacesApart, NothingToAsk
<1>4. RecordsOK'
  BY DEF SteersInv, RecordsOK, RecordOK, NothingToAsk, provider
<1>5. RecordsServe'
  BY DEF RecordsServe, Live, NothingToAsk, provider
<1>6. InjectionKept'
  BY DEF SteersInv, SteersTypes, InjectionKept, Live, NothingToAsk, provider
<1>7. NoneUnnoticed'
  BY DEF NoneUnnoticed, Live, NothingToAsk, provider
<1>8. CallTail'
  BY DEF SteersInv, CallTail, NothingToAsk, provider
<1>9. CheckpointsKnown'
  BY DEF SteersInv, InjectionKept, CheckpointsKnown, Known, Unheld, Live, NothingToAsk, provider
<1>10. OnceKept'
  BY DEF SteersInv, Live, OnceKept, OnceEach, NothingToAsk, provider
<1>11. HistoryAccounted'
  BY DEF SteersInv, SteersTypes, RecordsOK, RecordOK, Live, Tracked, Accounted, Restored,
     HistoryAccounted, NothingToAsk, provider, Answered
<1> QED
  BY <1>1, <1>2, <1>3, <1>4, <1>5, <1>6, <1>7, <1>8, <1>9, <1>10, <1>11 DEF SteersInv

LEMMA AsksNextSteers ==
    ASSUME SteersInv, AsksNext
    PROVE  SteersInv'
<1>1. steers \in [Messages -> Marks]
  BY DEF SteersInv, SteersTypes
<1>2. NeedsHistory(steers, 0) \in BOOLEAN
  BY DEF NeedsHistory
<1>3. Starts(steers, tail \ Answered, NeedsHistory(steers, 0))
  BY <1>1, <1>2, OpensRunStarts DEF AsksNext, SteersInv
<1>4. \A x \in Messages :
         \/ steers[x].answered /\ steers'[x] = steers[x]
         \/ ~steers[x].answered /\ steers'[x] = NoSteer
  BY <1>3 DEF Starts
<1>5. NeedsHistory(steers, 0) \/ \A x \in Messages : Tracked(x) /\ ~steers[x].answered
          => ~steers[x].promoted /\ ~steers[x].checkpointed
  BY DEF NeedsHistory, Tracked, SteersInv, RecordsOK, RecordOK
<1>6. onFile' \in [steers : [Messages -> Marks], checkpoint : [Messages -> Nat]] /\ (onFile' = onFile \/ onFile' = Nothing)
  BY <1>3, NothingIs DEF Starts, SteersInv, SteersTypes
<1>7. Nothing.checkpoint = NoCheckpoint /\ \A x \in Messages : Nothing.steers[x] = NoSteer
  BY NothingIs
<1>8. SteersTypes'
  <2>1. /\ steers' \in [Messages -> Marks] /\ ctx' \in [Messages -> Nat] /\ checkpoint' \in [Messages -> Nat]
        /\ inj' = [x \in Messages |-> "no"] /\ mine' = FALSE /\ unread' = {} /\ newest' = newest + 1
        /\ stage' = "pumped" /\ opencode' = "step"
    BY <1>3 DEF Starts
  <2>2. /\ plain' \subseteq Messages /\ unsent' \subseteq Messages /\ inbox' \subseteq Messages
        /\ history' \subseteq Messages /\ tail' \subseteq Messages /\ left' \subseteq Messages
        /\ answered' \subseteq Messages /\ nudged' \subseteq Messages
    BY <1>3 DEF Starts, AsksNext, SteersInv, SteersTypes, Answered
  <2>3. newest' \in Nat \ {0} /\ unread' \subseteq Messages
        /\ inj' \in [Messages -> {"no", "waiting", "sent", "taken"}]
    BY <2>1 DEF SteersInv, SteersTypes
  <2> QED
    BY <1>6, <2>1, <2>2, <2>3 DEF SteersTypes
<1>9. HostAt'
  BY <1>3 DEF HostAt, Starts
<1>10. PlacesApart'
  BY <1>3 DEF SteersInv, PlacesApart, AsksNext, Starts
<1>11. RecordsOK'
  BY <1>1, <1>2, <1>3, <1>4, <1>7 DEF SteersInv, SteersTypes, Marks, NoSteer, RecordsOK,
     RecordOK, AsksNext, Starts
<1>12. RecordsServe'
  BY <1>1, <1>2, <1>3 DEF SteersInv, SteersTypes, NoSteer, RecordsOK, RecordOK, RecordsServe,
     RecordServes, Tracked, Starts
<1>13. InjectionKept'
  BY <1>1, <1>2, <1>3, <1>4, <1>5, <1>6, <1>7 DEF SteersInv, SteersTypes, PlacesApart,
     InjectionKept, NotHeld, AsksNext, Starts
<1>14. NoneUnnoticed'
  BY <1>1, <1>2, <1>3, <1>4, <1>5, <1>6, <1>7 DEF SteersInv, SteersTypes, Marks, NoSteer, HostAt,
     PlacesApart, RecordsOK, RecordOK, NoneUnnoticed, Noticed, CheckpointsKnown, Known, Unheld,
     Tracked, NotHeld, AsksNext, Starts
<1>15. CallTail'
  BY <1>1, <1>2, <1>3, <1>4, <1>5 DEF SteersInv, SteersTypes, NoSteer, CallTail, Tracked,
     AsksNext, Answered, Starts
<1>16. CheckpointsKnown'
  BY <1>1, <1>2, <1>3, <1>4, <1>5, <1>6, <1>7 DEF SteersInv, SteersTypes, NoSteer,
     CheckpointsKnown, Known, Unheld, Tracked, NotHeld, AsksNext, Answered, Starts
<1>17. OnceKept'
  BY DEF SteersInv, SteersTypes, Marks, NoSteer, HostAt, PlacesApart, RecordsOK, RecordOK,
     RecordsServe, RecordServes, InjectionKept, NoneUnnoticed, Noticed, CallTail,
     CheckpointsKnown, Known, Unheld, NotHeld, OnceKept, OnceEach, AsksNext, Answered, OpensRun,
     Seed, Plus, Once, NeedsHistory, Nothing
<1>18. HistoryAccounted'
  BY <1>1, <1>2, <1>3, <1>4, <1>5, <1>6, <1>7 DEF SteersInv, SteersTypes, Marks, NoSteer, HostAt,
     PlacesApart, RecordsOK, RecordOK, Tracked, Holds, Awaited, Accounted, Restored,
     HistoryAccounted, AsksNext, Answered, Starts
<1> QED
  BY <1>8, <1>9, <1>10, <1>11, <1>12, <1>13, <1>14, <1>15, <1>16, <1>17, <1>18 DEF SteersInv

LEMMA AsksAnewSteers ==
    ASSUME SteersInv, AsksAnew
    PROVE  SteersInv'
<1>1. steers \in [Messages -> Marks]
  BY DEF SteersInv, SteersTypes
<1>2. NeedsHistory(steers, 0) \in BOOLEAN
  BY DEF NeedsHistory
<1>3. Starts(steers, {x \in inbox : ~steers[x].answered}, NeedsHistory(steers, 0))
  BY <1>1, <1>2, OpensRunStarts DEF AsksAnew, SteersInv
<1>4. \A x \in Messages :
         \/ steers[x].answered /\ steers'[x] = steers[x]
         \/ ~steers[x].answered /\ steers'[x] = NoSteer
  BY <1>3 DEF Starts
<1>5. NeedsHistory(steers, 0) \/ \A x \in Messages : Tracked(x) /\ ~steers[x].answered
          => ~steers[x].promoted /\ ~steers[x].checkpointed
  BY DEF NeedsHistory, Tracked, SteersInv, RecordsOK, RecordOK
<1>6. onFile' \in [steers : [Messages -> Marks], checkpoint : [Messages -> Nat]] /\ (onFile' = onFile \/ onFile' = Nothing)
  BY <1>3, NothingIs DEF Starts, SteersInv, SteersTypes
<1>7. Nothing.checkpoint = NoCheckpoint /\ \A x \in Messages : Nothing.steers[x] = NoSteer
  BY NothingIs
<1>8. SteersTypes'
  <2>1. /\ steers' \in [Messages -> Marks] /\ ctx' \in [Messages -> Nat] /\ checkpoint' \in [Messages -> Nat]
        /\ inj' = [x \in Messages |-> "no"] /\ mine' = FALSE /\ unread' = {} /\ newest' = newest + 1
        /\ stage' = "pumped" /\ opencode' = "step"
    BY <1>3 DEF Starts
  <2>2. /\ plain' \subseteq Messages /\ unsent' \subseteq Messages /\ inbox' \subseteq Messages
        /\ history' \subseteq Messages /\ tail' \subseteq Messages /\ left' \subseteq Messages
        /\ answered' \subseteq Messages /\ nudged' \subseteq Messages
    BY <1>3 DEF Starts, AsksAnew, SteersInv, SteersTypes, Answered
  <2>3. newest' \in Nat \ {0} /\ unread' \subseteq Messages
        /\ inj' \in [Messages -> {"no", "waiting", "sent", "taken"}]
    BY <2>1 DEF SteersInv, SteersTypes
  <2> QED
    BY <1>6, <2>1, <2>2, <2>3 DEF SteersTypes
<1>9. HostAt'
  BY <1>3 DEF HostAt, Starts
<1>10. PlacesApart'
  BY <1>3 DEF SteersInv, HostAt, PlacesApart, AsksAnew, Starts
<1>11. RecordsOK'
  BY <1>1, <1>2, <1>3, <1>7 DEF SteersInv, SteersTypes, Marks, NoSteer, RecordsOK, RecordOK,
     AsksAnew, Starts
<1>12. RecordsServe'
  BY <1>1, <1>2, <1>3 DEF SteersInv, SteersTypes, NoSteer, RecordsOK, RecordOK, RecordsServe,
     RecordServes, Tracked, Starts
<1>13. InjectionKept'
  BY <1>1, <1>2, <1>3, <1>4, <1>7 DEF SteersInv, SteersTypes, PlacesApart, InjectionKept,
     NotHeld, AsksAnew, Starts
<1>14. NoneUnnoticed'
  BY <1>1, <1>2, <1>3, <1>4, <1>5, <1>6, <1>7 DEF SteersInv, SteersTypes, Marks, NoSteer,
     PlacesApart, RecordsOK, RecordOK, NoneUnnoticed, Noticed, AsksAnew, Starts
<1>15. CallTail'
  BY <1>1, <1>2, <1>3 DEF SteersInv, SteersTypes, RecordsOK, RecordOK, CallTail, AsksAnew, Starts
<1>16. CheckpointsKnown'
  BY <1>1, <1>2, <1>3, <1>4, <1>5, <1>6, <1>7 DEF SteersInv, SteersTypes, NoSteer,
     CheckpointsKnown, Known, Unheld, NotHeld, AsksAnew, Starts
<1>17. OnceKept'
  BY DEF SteersInv, SteersTypes, Marks, NoSteer, HostAt, PlacesApart, RecordsOK, RecordOK,
     RecordsServe, RecordServes, InjectionKept, NoneUnnoticed, Noticed, CallTail,
     CheckpointsKnown, Known, Unheld, NotHeld, OnceKept, OnceEach, AsksAnew, OpensRun, Seed,
     Plus, Once, NeedsHistory, Nothing
<1>18. HistoryAccounted'
  BY <1>1, <1>2, <1>3, <1>4, <1>5, <1>6, <1>7 DEF SteersInv, SteersTypes, Marks, RecordsOK,
     RecordOK, Tracked, Holds, Awaited, Accounted, Restored, HistoryAccounted, AsksAnew, Starts
<1> QED
  BY <1>8, <1>9, <1>10, <1>11, <1>12, <1>13, <1>14, <1>15, <1>16, <1>17, <1>18 DEF SteersInv

LEMMA ResumesSteers ==
    ASSUME SteersInv, Resumes
    PROVE  SteersInv'
<1>1. \A x \in Messages :
         \/ /\ steers[x].run # newest \/ steers[x].answered
            /\ steers'[x] = steers[x]
         \/ /\ steers[x].run = newest /\ ~steers[x].answered /\ steers[x].checkpointed
            /\ Says(steers'[x], newest + 1, TRUE, TRUE, FALSE, steers[x].promoted)
         \/ /\ steers[x].run = newest /\ ~steers[x].answered /\ ~steers[x].checkpointed
            /\ steers[x].promoted
            /\ Says(steers'[x], newest + 1, FALSE, FALSE, FALSE, TRUE)
         \/ /\ steers[x].run = newest /\ ~steers[x].answered /\ ~steers[x].checkpointed
            /\ ~steers[x].promoted
            /\ steers'[x] = NoSteer
  BY HandedOverSays DEF Resumes, Live
<1>2. steers \in [Messages -> Marks] /\ checkpoint \in [Messages -> Nat]
  BY DEF SteersInv, SteersTypes
<1>3. steers' \in [Messages -> Marks]
  BY <1>1, <1>2, NoSteerIs DEF Resumes, HandedOver, Says
<1>4. SteersTypes'
  BY <1>1, <1>2, <1>3 DEF SteersInv, SteersTypes, Marks, NoSteer, Says, Resumes
<1>5. HostAt'
  BY <1>1, <1>2, <1>3 DEF SteersInv, SteersTypes, Marks, NoSteer, HostAt, Says, Resumes
<1>6. PlacesApart'
  BY DEF SteersInv, PlacesApart, Resumes
<1>7. RecordsOK'
  BY <1>1, <1>3 DEF SteersInv, SteersTypes, Marks, NoSteer, RecordsOK, RecordOK, Says, Resumes
<1>8. RecordsServe'
  <2>1. ASSUME NEW x \in Messages
        PROVE  RecordServes(x)'
    <3>1. /\ RecordServes(x) /\ RecordOK(steers[x], x) /\ newest \in Nat /\ steers[x].run \in Nat
          /\ newest' = newest + 1 /\ ctx' = checkpoint /\ checkpoint' = checkpoint /\ plain' = plain /\ unread' = {}
      BY DEF Resumes, Live, SteersInv, SteersTypes, RecordsServe, RecordsOK, Marks
    <3>2. CASE steers[x].run # newest \/ steers[x].answered
      <4>1. steers'[x] = steers[x]
        BY <1>1, <3>2
      <4>2. steers'[x].run # newest'
        BY <3>1, <4>1 DEF RecordOK
      <4>3. Tracked(x)' => steers'[x].answered
        BY <3>1, <3>2, <4>1 DEF RecordServes, Tracked
      <4> QED
        BY <4>2, <4>3 DEF RecordServes
    <3>3. CASE steers[x].run = newest /\ ~steers[x].answered
      <4>1. steers[x] # NoSteer => steers[x].run = newest /\ x \notin plain
        BY <3>1, <3>3 DEF RecordServes, Tracked
      <4>2. NoSteer.run # newest + 1 /\ (steers[x].checkpointed => checkpoint[x] > 0)
        BY <3>1, <3>3, NoSteerIs DEF Says, RecordServes
      <4>3. steers[x] = NoSteer => ~steers[x].checkpointed /\ ~steers[x].promoted
        BY NoSteerIs DEF Says
      <4> QED
        BY <1>1, <3>1, <3>3, <4>1, <4>2, <4>3 DEF RecordServes, Tracked, Says
    <3> QED
      BY <3>2, <3>3
  <2> QED
    BY <2>1 DEF RecordsServe
<1>9. InjectionKept'
  <2>1. \A x \in unsent : ctx'[x] = 0 /\ NotHeld(checkpoint', x)
    BY DEF Resumes, Live, NotHeld, SteersInv, SteersTypes, PlacesApart, InjectionKept, OnceKept,
       OnceEach, NoCheckpoint
  <2> QED
    BY <2>1 DEF Resumes, Live, SteersInv, InjectionKept, NotHeld, SteersTypes
<1>10. NoneUnnoticed'
  <2>1. SUFFICES ASSUME NEW x \in Messages \ nudged, checkpoint[x] > 0
                  PROVE  Noticed(x)'
    BY DEF Resumes, NoneUnnoticed
  <2>2. x \in plain \/ (Live /\ RecordServes(x) /\ Known(x))
    BY DEF Resumes, Live, SteersInv, RecordsServe, CheckpointsKnown
  <2>3. /\ Live /\ RecordServes(x) /\ RecordOK(steers[x], x) /\ (x \in plain => x \notin inbox)
        /\ newest \in Nat /\ steers[x].run \in Nat
    BY DEF Resumes, Live, SteersInv, SteersTypes, RecordsServe, RecordsOK, PlacesApart, Marks
  <2>4. checkpoint # NoCheckpoint
    BY <2>1 DEF Resumes, Live, SteersInv, OnceKept, OnceEach, NoCheckpoint
  <2>5. x \in inbox \/ (Tracked(x) /\ steers[x].run = newest)
            => steers[x].answered \/ steers[x].checkpointed
    BY <2>1, <2>2, <2>3, <2>4 DEF Known, Unheld, NotHeld, RecordServes
  <2>6. stage' = "pumped" /\ inbox' = inbox /\ newest' = newest + 1
    BY DEF Resumes
  <2>7. CASE steers[x].run # newest \/ steers[x].answered
    BY <1>1, <2>3, <2>5, <2>6, <2>7, NoSteerIs DEF RecordOK, Noticed, Tracked, Says
  <2>8. CASE steers[x].run = newest /\ ~steers[x].answered /\ Tracked(x)
    BY <1>1, <2>3, <2>5, <2>6, <2>8 DEF Noticed, Tracked, Says, NoSteer
  <2>9. CASE ~Tracked(x)
    BY <1>1, <2>3, <2>5, <2>6, <2>9, NoSteerIs DEF RecordOK, Noticed, Tracked, Says
  <2> QED
    BY <2>7, <2>8, <2>9
<1>11. CallTail'
  BY <1>1 DEF SteersInv, SteersTypes, NoSteer, CallTail, Tracked, Says, Resumes
<1>12. CheckpointsKnown'
  BY <1>1 DEF SteersInv, SteersTypes, RecordsOK, RecordOK, CheckpointsKnown, Known, Unheld, Live,
     Says, Resumes
<1>13. OnceKept'
  BY DEF SteersInv, Live, OnceKept, OnceEach, Resumes
<1>14. HistoryAccounted'
  <2>1. ASSUME NEW x \in Messages, Accounted(x)
        PROVE  Accounted(x)'
    <3>1. Live /\ RecordServes(x) /\ checkpoint \in [Messages -> Nat]
      BY <1>2 DEF Resumes, Live, SteersInv, RecordsServe
    <3>2. CASE Tracked(x) /\ Awaited(steers[x])
      BY <1>1, <3>1, <3>2 DEF RecordServes, Accounted, Awaited, Tracked, Says, NoSteer
    <3>3. CASE Holds(checkpoint, x)
      BY <3>1, <3>3 DEF Resumes, Accounted, Holds, NoCheckpoint
    <3> QED
      BY <2>1, <3>2, <3>3 DEF Accounted, Resumes
  <2>2. ASSUME NEW x \in Messages, Restored(x)
        PROVE  Restored(x)'
    <3>1. steers[x].promoted => steers'[x].promoted
      BY <1>1 DEF Says
    <3> QED
      BY <2>2, <3>1 DEF Resumes, Restored
  <2> QED
    BY <2>1, <2>2 DEF Resumes, HistoryAccounted, SteersInv, SteersTypes
<1> QED
  BY <1>4, <1>5, <1>6, <1>7, <1>8, <1>9, <1>10, <1>11, <1>12, <1>13, <1>14 DEF SteersInv

LEMMA RebuildsSteers ==
    ASSUME SteersInv, Rebuilds
    PROVE  SteersInv'
<1>1. steers' \in [Messages -> Marks] /\ \A x \in Messages : steers'[x] = IF steers[x].run # newest \/ steers[x].answered THEN steers[x] ELSE NoSteer
  BY KeepIs DEF Rebuilds, SteersInv
<1>2. ctx' \in [Messages -> Nat] /\ \A x \in Messages : ctx'[x] = IF x \in history
          \cup (tail \ left) THEN 1 ELSE 0
  BY OnceIs DEF Rebuilds
<1>3. checkpoint' = NoCheckpoint /\ checkpoint' \in [Messages -> Nat] /\ onFile' = Nothing
  BY NothingIs DEF Rebuilds
<1>4. Nothing.checkpoint = NoCheckpoint /\ \A x \in Messages : Nothing.steers[x] = NoSteer
  BY NothingIs
<1>5. SteersTypes'
  <2>1. onFile' \in [steers : [Messages -> Marks], checkpoint : [Messages -> Nat]]
    BY <1>3, NothingIs
  <2>2. plain' \subseteq Messages /\ newest' \in Nat \ {0} /\ unread' \subseteq Messages /\ mine' \in BOOLEAN
        /\ inj' \in [Messages -> {"no", "waiting", "sent", "taken"}]
    <3>1. plain \subseteq Messages /\ tail \subseteq Messages /\ newest \in Nat \ {0}
      BY DEF SteersInv, SteersTypes
    <3>2. plain' \subseteq Messages
      BY <3>1 DEF Rebuilds
    <3>3. newest' \in Nat \ {0}
      BY <3>1 DEF Rebuilds
    <3> QED
      BY <3>2, <3>3 DEF Rebuilds
  <2>3. UNCHANGED <<opencode, unsent, inbox, history, tail, left, stage, answered, nudged>>
    BY DEF Rebuilds
  <2> QED
    BY <1>1, <1>2, <1>3, <2>1, <2>2, <2>3 DEF SteersInv, SteersTypes
<1>6. HostAt'
  BY DEF SteersInv, HostAt, Rebuilds
<1>7. PlacesApart'
  BY DEF SteersInv, PlacesApart, Rebuilds
<1>8. RecordsOK'
  <2>1. ASSUME NEW x \in Messages
        PROVE  RecordOK(steers[x], x)'
    <3>1. RecordOK(steers[x], x) /\ newest \in Nat /\ Says(NoSteer, 0, FALSE, FALSE, FALSE, FALSE) /\ steers[x].run \in Nat
      BY NoSteerIs DEF SteersInv, SteersTypes, RecordsOK, Marks
    <3> QED
      BY <1>1, <3>1 DEF Rebuilds, RecordOK, Says
  <2>2. ASSUME NEW x \in Messages
        PROVE  RecordOK(onFile.steers[x], x)'
    <3>1. onFile'.steers[x] = NoSteer /\ Says(NoSteer, 0, FALSE, FALSE, FALSE, FALSE) /\ newest \in Nat
      BY <1>3, <1>4, NoSteerIs DEF SteersInv, SteersTypes
    <3> QED
      BY <3>1 DEF Rebuilds, RecordOK, Says
  <2> QED
    BY <2>1, <2>2 DEF RecordsOK
<1>9. RecordsServe'
  <2>1. ASSUME NEW x \in Messages
        PROVE  RecordServes(x)'
    <3>1. RecordServes(x) /\ RecordOK(steers[x], x) /\ newest \in Nat /\ steers[x].run \in Nat
      BY DEF Rebuilds, Live, SteersInv, SteersTypes, RecordsOK, RecordsServe, Marks
    <3>2. steers'[x].run # newest'
      BY <1>1, <3>1, NoSteerIs DEF Rebuilds, RecordOK, Says
    <3>3. Tracked(x)' => steers'[x].answered
      BY <1>1, <3>1 DEF RecordServes, Tracked
    <3> QED
      BY <3>2, <3>3 DEF RecordServes
  <2> QED
    BY <2>1 DEF RecordsServe
<1>10. InjectionKept'
  BY <1>1, <1>2, <1>3, <1>4 DEF SteersInv, SteersTypes, Marks, NoSteer, HostAt, PlacesApart,
     RecordsOK, RecordOK, RecordsServe, RecordServes, InjectionKept, Live, Tracked, NotHeld,
     Says, Rebuilds, Rebuilt
<1>11. NoneUnnoticed'
  BY DEF SteersInv, SteersTypes, Marks, NoSteer, PlacesApart, RecordsOK, RecordOK, NoneUnnoticed,
     Noticed, Rebuilds, Keep, Once
<1>12. CallTail'
  BY <1>1, <1>2, <1>3, <1>4 DEF SteersInv, SteersTypes, Marks, NoSteer, HostAt, PlacesApart,
     RecordsOK, RecordOK, RecordsServe, RecordServes, InjectionKept, CallTail, Live, Tracked,
     Says, Rebuilds, Rebuilt
<1>13. CheckpointsKnown'
  BY <1>3, <1>4 DEF CheckpointsKnown, Known, Unheld, NotHeld
<1>14. OnceKept'
  BY DEF OnceKept, OnceEach, Rebuilds, Once, Nothing
<1>15. HistoryAccounted'
  <2>1. ASSUME NEW x \in history \cup tail
        PROVE  Accounted(x)' /\ Restored(x)'
    <3>1. x \in Messages /\ checkpoint' = NoCheckpoint /\ onFile'.checkpoint = NoCheckpoint
          /\ unread' = {} /\ answered' = answered /\ plain' = plain \cup (tail \ left)
      BY <1>3, <1>4 DEF Rebuilds, SteersInv, SteersTypes
    <3>2. Restored(x)'
      BY <3>1 DEF Restored, Holds
    <3>3. CASE x \in history \/ x \notin left
      <4>1. ctx'[x] = 1
        BY <1>2, <3>1, <3>3
      <4> QED
        BY <3>1, <3>2, <4>1 DEF Accounted, Holds
    <3>4. CASE x \in tail /\ x \in left
      <4>1. x \in plain \cup answered
        BY <3>1, <3>4 DEF Rebuilds, SteersInv, CallTail, RecordsOK, RecordOK, PlacesApart
      <4> QED
        BY <3>1, <3>2, <4>1 DEF Accounted
    <3> QED
      BY <3>3, <3>4
  <2> QED
    BY <2>1 DEF Rebuilds, HistoryAccounted
<1> QED
  BY <1>5, <1>6, <1>7, <1>8, <1>9, <1>10, <1>11, <1>12, <1>13, <1>14, <1>15 DEF SteersInv

LEMMA TurnFailsSteers ==
    ASSUME SteersInv, TurnFails
    PROVE  SteersInv'
<1>1. SteersTypes'
  BY DEF SteersInv, SteersTypes, Marks, NoSteer, TurnFails
<1>2. HostAt'
  BY DEF SteersInv, SteersTypes, Marks, NoSteer, HostAt, TurnFails
<1>3. PlacesApart'
  BY DEF SteersInv, PlacesApart, TurnFails
<1>4. RecordsOK'
  BY DEF SteersInv, RecordsOK, RecordOK, TurnFails
<1>5. RecordsServe'
  BY DEF RecordsServe, Live, TurnFails
<1>6. InjectionKept'
  BY DEF SteersInv, SteersTypes, InjectionKept, TurnFails
<1>7. NoneUnnoticed'
  BY DEF NoneUnnoticed, Live, TurnFails
<1>8. CallTail'
  BY DEF CallTail, TurnFails
<1>9. CheckpointsKnown'
  BY DEF SteersInv, CheckpointsKnown, Known, Live, TurnFails
<1>10. OnceKept'
  BY DEF SteersInv, Live, OnceKept, OnceEach, TurnFails
<1>11. HistoryAccounted'
  BY DEF SteersInv, Live, Tracked, Accounted, Restored, HistoryAccounted, TurnFails
<1> QED
  BY <1>1, <1>2, <1>3, <1>4, <1>5, <1>6, <1>7, <1>8, <1>9, <1>10, <1>11 DEF SteersInv

LEMMA ProcessRestartsSteers ==
    ASSUME SteersInv, ProcessRestarts
    PROVE  SteersInv'
<1>1. onFile.steers \in [Messages -> Marks] /\ onFile.checkpoint \in [Messages -> Nat]
  BY DEF SteersInv, SteersTypes
<1>2. SteersTypes'
  BY <1>1 DEF SteersInv, SteersTypes, Marks, NoSteer, Says, ProcessRestarts
<1>3. HostAt'
  BY <1>1 DEF SteersInv, SteersTypes, Marks, NoSteer, HostAt, Says, ProcessRestarts
<1>4. PlacesApart'
  BY DEF SteersInv, PlacesApart, RecordsOK, RecordOK, ProcessRestarts
<1>5. RecordsOK'
  BY DEF SteersInv, RecordsOK, RecordOK, ProcessRestarts
<1>6. RecordsServe'
  BY DEF RecordsServe, Live, ProcessRestarts
<1>7. InjectionKept'
  BY DEF SteersInv, SteersTypes, InjectionKept, ProcessRestarts
<1>8. NoneUnnoticed'
  BY DEF NoneUnnoticed, Live, ProcessRestarts
<1>9. CallTail'
  BY DEF SteersInv, HostAt, CallTail, ProcessRestarts
<1>10. CheckpointsKnown'
  BY DEF SteersInv, CheckpointsKnown, Known, Live, ProcessRestarts
<1>11. OnceKept'
  BY DEF SteersInv, Live, OnceKept, OnceEach, ProcessRestarts
<1>12. HistoryAccounted'
  BY <1>1 DEF SteersInv, SteersTypes, NoSteer, Live, Tracked, Awaited, Accounted, Restored,
     HistoryAccounted, ProcessRestarts
<1> QED
  BY <1>2, <1>3, <1>4, <1>5, <1>6, <1>7, <1>8, <1>9, <1>10, <1>11, <1>12 DEF SteersInv

LEMMA SteersInvKept ==
    ASSUME SteersInv, [SteersNext]_steersVars
    PROVE  SteersInv'
<1>1. ASSUME NEW m \in Messages,
             Sends(m) \/ Withdraws(m) \/ Writes(m) \/ SkipsWrite(m) \/ Delivers(m) \/ ReadsDelivery(m)
      PROVE  SteersInv'
  BY <1>1, SendsSteers, WithdrawsSteers, WritesSteers, SkipsWriteSteers, DeliversSteers,
     ReadsDeliverySteers
<1>2. CASE Checkpoints \/ SteeredTurnEnds \/ FollowsUp \/ StepEnds \/ Promotes \/ Continues
  BY <1>2, CheckpointsSteers, SteeredTurnEndsSteers, FollowsUpSteers, StepEndsSteers,
     PromotesSteers,
     ContinuesSteers
<1>3. CASE Supersedes
  <2>1. SupersedesDrained \/ SupersedesLost
    BY <1>3 DEF Supersedes, SupersedesDrained, SupersedesLost
  <2> QED
    BY <2>1, SupersedesDrainedSteers, SupersedesLostSteers
<1>4. CASE NothingToAsk \/ AsksNext \/ AsksAnew
  BY <1>4, NothingToAskSteers, AsksNextSteers, AsksAnewSteers
<1>5. CASE Resumes \/ Rebuilds \/ TurnFails \/ ProcessRestarts
  BY <1>5, ResumesSteers, RebuildsSteers, TurnFailsSteers, ProcessRestartsSteers
<1>6. CASE UNCHANGED steersVars
  <2>1. UNCHANGED <<opencode, unsent, inbox, history, tail, left, newest, stage, steers, inj, unread,
                    ctx, checkpoint, mine, answered, nudged, plain, onFile>>
    BY <1>6 DEF steersVars, provider
  <2>2. SteersTypes' /\ HostAt' /\ PlacesApart'
    BY <2>1 DEF SteersInv, SteersTypes, HostAt, PlacesApart
  <2>3. RecordsOK' /\ RecordsServe' /\ InjectionKept'
    BY <2>1 DEF SteersInv, RecordsOK, RecordOK, RecordsServe, RecordServes, InjectionKept,
       NotHeld, Live, Tracked
  <2>4. NoneUnnoticed' /\ CallTail' /\ CheckpointsKnown'
    BY <2>1 DEF SteersInv, NoneUnnoticed, Noticed, CallTail, CheckpointsKnown, Known, Unheld,
       NotHeld, Live, Tracked
  <2>5. OnceKept' /\ HistoryAccounted'
    BY <2>1 DEF SteersInv, OnceKept, OnceEach, HistoryAccounted, Accounted, Restored, Holds,
       Awaited, Live, Tracked
  <2> QED
    BY <2>2, <2>3, <2>4, <2>5 DEF SteersInv
<1> QED
  BY <1>1, <1>2, <1>3, <1>4, <1>5, <1>6 DEF SteersNext

LEMMA SteersInvInit ==
    ASSUME SteersInit
    PROVE  SteersInv
<1>1. Says(NoSteer, 0, FALSE, FALSE, FALSE, FALSE) /\ onFile = Nothing /\ steers = NoSteers
  BY NoSteerIs DEF SteersInit
<1>2. /\ \A x \in Messages : steers[x] = NoSteer /\ onFile.steers[x] = NoSteer /\ ctx[x] = 0 /\ inj[x] = "no"
      /\ checkpoint = NoCheckpoint /\ onFile.checkpoint = NoCheckpoint /\ ctx \in [Messages -> Nat]
  BY <1>1, NothingIs DEF SteersInit, Empty
<1>3. SteersTypes
  <2>1. /\ steers \in [Messages -> Marks] /\ checkpoint \in [Messages -> Nat]
        /\ onFile \in [steers : [Messages -> Marks], checkpoint : [Messages -> Nat]]
    BY <1>1, <1>2, NothingIs
  <2>2. inj \in [Messages -> {"no", "waiting", "sent", "taken"}]
    BY DEF SteersInit
  <2>3. opencode = "step" /\ stage = "pumped" /\ newest = 1 /\ mine = FALSE /\ unread = {} /\ left = {}
        /\ unsent = Messages /\ inbox = {} /\ history = {} /\ tail = {} /\ answered = {} /\ nudged = {} /\ plain = {}
    BY DEF SteersInit
  <2>4. newest \in Nat \ {0}
    BY <2>3
  <2>5. ctx \in [Messages -> Nat]
    BY <1>2
  <2> QED
    BY <2>1, <2>2, <2>3, <2>4, <2>5 DEF SteersTypes
<1>4. HostAt /\ PlacesApart
  BY DEF SteersInit, HostAt, PlacesApart
<1>5. RecordsOK
  BY <1>1, <1>2 DEF SteersInit, RecordsOK, RecordOK, Says
<1>6. RecordsServe
  BY <1>1, <1>2 DEF SteersInit, RecordsServe, RecordServes, Tracked, Says
<1>7. InjectionKept /\ NoneUnnoticed /\ CallTail /\ OnceKept
  BY <1>2 DEF SteersInit, InjectionKept, NotHeld, Live, NoneUnnoticed, CallTail, OnceKept,
     OnceEach
<1>8. CheckpointsKnown /\ HistoryAccounted
  BY <1>2 DEF SteersInit, CheckpointsKnown, Known, Unheld, NotHeld, HistoryAccounted
<1> QED
  BY <1>3, <1>4, <1>5, <1>6, <1>7, <1>8 DEF SteersInv

(* For any messages and any number of Runs, a message the user sends while a *)
(* step runs is in no conversation twice, as injection and as OpenCode's     *)
(* copy, unless its answer did not end the step; and when OpenCode rests     *)
(* after a turn that ended, the model has answered it.                       *)
THEOREM SteersStayKept == SteersSpec => []SteersKept
<1>1. SteersInit => SteersInv
  BY SteersInvInit
<1>2. SteersInv /\ [SteersNext]_steersVars => SteersInv'
  BY SteersInvKept
<1>3. SteersInv => SteersKept
  <2> SUFFICES ASSUME SteersInv
               PROVE  SteersKept
    OBVIOUS
  <2>1. SteerOnce
    BY DEF SteersInv, OnceKept, OnceEach, SteerOnce
  <2>2. SteerAnswered
    BY DEF SteersInv, HostAt, PlacesApart, HistoryAccounted, SteerAnswered
  <2> QED
    BY <2>1, <2>2 DEF SteersKept
<1> QED
  BY <1>1, <1>2, <1>3, PTL DEF SteersSpec
=============================================================================
