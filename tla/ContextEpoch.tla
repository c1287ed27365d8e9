----------------------------- MODULE ContextEpoch -----------------------------
(***************************************************************************)
(* How the host's instructions reach Cursor (src/context/epoch.ts and       *)
(* frozen.ts).  What the host said when a conversation began is frozen as a  *)
(* rule every Run carries; what changes later is told once, as a message of  *)
(* the Run that meets it, and stays in Cursor's checkpoint.  Which version   *)
(* was told last is kept in memory only.                                    *)
(***************************************************************************)
EXTENDS Naturals

CONSTANTS
    Ruled,       \* sources the rule holds: host system, guidance
    Named,       \* sources told by name only: host agent, workspace root
    MaxVersion,  \* versions the host has of each
    LosesTold    \* a Run that told of something may end before its checkpoint

Sources == Ruled \union Named
Versions == 1..MaxVersion

\* No version: a source absent from a request, or never told.
Nothing == [s \in Sources |-> 0]
Rule(texts) == [s \in Ruled |-> texts[s]]
NoRule == Rule(Nothing)

None == [is |-> "none"]

VARIABLES
    host,        \* the host's version of each source
    epoch,       \* byConversationId of epoch.ts: [is, baseline, snapshot], or None
    base,        \* the rule in the frozen RequestContext, or NoRule
    checkpoint,  \* [is, told, rule] of the Run Cursor sent it in, or None
    disk,        \* the saved [checkpoint, base]
    run          \* [is, offers, told, rule, resumes, news], or None
vars == <<host, epoch, base, checkpoint, disk, run>>

Init ==
    /\ host = [s \in Sources |-> 1]
    /\ epoch = None /\ base = NoRule /\ checkpoint = None /\ run = None
    /\ disk = [checkpoint |-> None, base |-> NoRule]

HostChanges(s, version) ==
    /\ version # host[s]
    /\ host' = [host EXCEPT ![s] = version]
    /\ UNCHANGED <<epoch, base, checkpoint, disk, run>>

\* What a request offers: a source may be unavailable, but some instructions
\* are there.
Presences == {present \in SUBSET Sources : present \cap Ruled # {}}
Offer(present) == [s \in Sources |-> IF s \in present THEN host[s] ELSE 0]

-----------------------------------------------------------------------------
(* Admission (admitContextEpoch): the epoch after it, and what it tells.    *)

\* An absent source keeps what was known of it.
Observed(known, offer) ==
    [s \in Sources |-> IF offer[s] # 0 THEN offer[s] ELSE known[s]]

\* The sources that changed (renderSourceUpdates).
Updates(known, offer) ==
    [s \in Sources |-> IF offer[s] # known[s] THEN offer[s] ELSE 0]

Epoch(baseline, snapshot) ==
    [is |-> "epoch", baseline |-> baseline, snapshot |-> snapshot]

\* A mutant: an epoch found again after a restart tells nothing.
Recovery_Silent(offer) == Nothing
\* After a restart the checkpoint may hold any version: all is told again. A
\* checkpoint without a rule has nothing to set it against.
Recovery(offer) ==
    [s \in Sources |-> IF base # NoRule /\ s \in Ruled THEN offer[s] ELSE 0]

\* A mutant: a recovered epoch takes what the host says now for its rule.
Recovered_Live(offer) == Epoch(Rule(offer), offer)
Recovered(offer) == Epoch(base, offer)

Admitted(known, held, offer) ==
    IF known # None
    THEN [epoch |-> [known EXCEPT !.snapshot = Observed(@, offer)],
          tells |-> Updates(known.snapshot, offer)]
    ELSE IF held # None
    THEN [epoch |-> Recovered(offer), tells |-> Recovery(offer)]
    ELSE [epoch |-> Epoch(Rule(offer), offer), tells |-> Nothing]

\* A mutant: what the host says now replaces the rule.
Instructed_Live(baseline, offer) == IF Rule(offer) # NoRule THEN Rule(offer) ELSE base
\* The rule of the RequestContext (withSystemInstructions): an epoch's baseline
\* replaces it, what the host says now only fills an empty one.
Instructed(baseline, offer) ==
    IF baseline # NoRule THEN baseline
    ELSE IF base # NoRule THEN base
    ELSE Rule(offer)

\* The messages of the conversation after this one.
Heard(earlier, tells) ==
    [s \in Sources |-> IF tells[s] # 0 THEN tells[s] ELSE earlier[s]]
Earlier(held) == IF held = None THEN Nothing ELSE held.told

-----------------------------------------------------------------------------
(* Runs                                                                     *)

\* A Run of this conversation, or the first after a reset (known is None).
Opened(known, held, offer) ==
    LET admitted == Admitted(known, held, offer)
        rule == Instructed(admitted.epoch.baseline, offer)
    IN /\ epoch' = admitted.epoch
       /\ base' = rule
       /\ run' = [is |-> "run", offers |-> offer, rule |-> rule,
                  told |-> Heard(Earlier(held), admitted.tells),
                  resumes |-> held # None, news |-> admitted.tells # Nothing]

Opens(present) ==
    /\ run = None
    /\ Opened(epoch, checkpoint, Offer(present))
    /\ UNCHANGED <<host, checkpoint, disk>>

\* A mutant: the epoch goes with the workspace's context.
Ended_Transferred == epoch
\* A conversation that is replaced ends its epoch (endContextEpoch).
Ended == None

\* Compaction, another model's work, a lost Run rebuilt: a new conversation
\* starts from the host's history, with the workspace's context
\* (transferFrozenRequestContext).
Rebases(present) ==
    /\ Opened(Ended, None, Offer(present))
    /\ checkpoint' = None
    /\ UNCHANGED <<host, disk>>

\* A lost Run is resumed from its checkpoint. The request of the moment, which
\* may be a later step's, is admitted again, but a resume carries no message.
Resumes(present) ==
    LET admitted == Admitted(epoch, checkpoint, Offer(present))
        rule == Instructed(admitted.epoch.baseline, Offer(present))
    IN /\ run # None /\ checkpoint # None
       /\ checkpoint.told = run.told
       /\ LosesTold \/ admitted.tells = Nothing
       /\ epoch' = admitted.epoch
       /\ base' = rule
       /\ run' = [run EXCEPT !.rule = rule, !.resumes = TRUE]
       /\ UNCHANGED <<host, checkpoint, disk>>

Checkpoints ==
    /\ run # None
    /\ checkpoint' = [is |-> "checkpoint", told |-> run.told, rule |-> run.rule]
    /\ UNCHANGED <<host, epoch, base, disk, run>>

\* A Run ends with the checkpoint it sent.
Ends ==
    /\ run # None /\ checkpoint # None /\ checkpoint.told = run.told
    /\ run' = None
    /\ UNCHANGED <<host, epoch, base, checkpoint, disk>>

\* A Run is stopped or fails before Cursor has checkpointed its message.
Fails ==
    /\ run # None /\ (run.news => LosesTold)
    /\ run' = None
    /\ UNCHANGED <<host, epoch, base, checkpoint, disk>>

-----------------------------------------------------------------------------
(* Saves, restarts and the limit of the map.                                *)

\* A mutant: a save holds what the map has.
SavedBase_Map == base
\* A save is made for a Run, which has the context it was opened with.
SavedBase == IF base # NoRule THEN base ELSE run.rule

Saves ==
    /\ run # None
    /\ disk' = [checkpoint |-> checkpoint, base |-> SavedBase]
    /\ UNCHANGED <<host, epoch, base, checkpoint, run>>

\* A restart; or the conversation is not among the 256 used last, and its
\* next Run reads it from disk.
Restarts ==
    /\ epoch' = None /\ run' = None
    /\ checkpoint' = disk.checkpoint /\ base' = disk.base
    /\ UNCHANGED <<host, disk>>

\* The map holds 256 contexts, those of title Runs among them.
EvictsBase ==
    /\ base # NoRule /\ epoch # None
    /\ base' = NoRule
    /\ UNCHANGED <<host, epoch, checkpoint, disk, run>>

Next ==
    \/ \E s \in Sources, version \in Versions : HostChanges(s, version)
    \/ \E present \in Presences : Opens(present)
    \/ \E present \in Presences : Rebases(present)
    \/ \E present \in Presences : Resumes(present)
    \/ Checkpoints \/ Ends \/ Fails
    \/ Saves \/ Restarts \/ EvictsBase

Spec == Init /\ [][Next]_vars

-----------------------------------------------------------------------------
\* What Cursor follows: the last message about a source, else the rule.
Followed(s) == IF run.told[s] # 0 THEN run.told[s] ELSE run.rule[s]

\* A Run follows the instructions its request offers, however often the host
\* changed them, through restarts, resets and sources that come and go.
InstructionsFollowed ==
    run # None => \A s \in Ruled : run.offers[s] # 0 => Followed(s) = run.offers[s]

\* A Run that resumes a checkpoint carries the rule the checkpoint was made
\* under: the prefix of the conversation never changes.
PrefixKept ==
    run # None /\ run.resumes /\ checkpoint # None => run.rule = checkpoint.rule
=============================================================================
