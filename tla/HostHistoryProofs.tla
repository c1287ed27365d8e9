------------------------- MODULE HostHistoryProofs -------------------------
(***************************************************************************)
(* What Cursor has of the host's side of a session, proved for every value *)
(* of the constants.  ContextEpoch: a Run follows the instructions its     *)
(* request offers, and its checkpoint keeps the rule it was made under.    *)
(* HistoryRewrite: no turn goes on with a conversation from before a       *)
(* compaction the session was told of, and only such a turn starts over.   *)
(* HostNotes: a note is told, and once.                                    *)
(***************************************************************************)
EXTENDS HostHistory, Sequences, SequenceTheorems, TLAPS

-----------------------------------------------------------------------------
(***************************************************************************)
(* Instructions told in order (ContextEpoch)                               *)
(***************************************************************************)

Texts == [Told!Sources -> Nat]
Rules == [Ruled -> Nat]
Epochs == [is : {"epoch"}, baseline : Rules \ {Told!NoRule}, snapshot : Texts]
ToldCheckpoints == [is : {"checkpoint"}, told : Texts, rule : Rules]
ToldRuns == [is : {"run"}, offers : Texts, told : Texts, rule : Rules, resumes : BOOLEAN, news : BOOLEAN]

EpochTypes ==
    /\ hostSays \in [Told!Sources -> Nat \ {0}]
    /\ epoch \in Epochs \union {Told!None} /\ rule \in Rules
    /\ toldCheckpoint \in ToldCheckpoints \union {Told!None}
    /\ toldDisk \in [checkpoint : ToldCheckpoints \union {Told!None}, base : Rules]
    /\ toldRun \in ToldRuns \union {Told!None}

\* What Cursor follows of a conversation with this rule after these messages.
View(told, s) == IF told[s] # 0 THEN told[s] ELSE epoch.baseline[s]

\* An epoch's baseline is the rule wherever one is; without an epoch, and on
\* the disk, a checkpoint comes with the rule it was made under.
OneRule ==
    /\ toldRun # Told!None => epoch # Told!None /\ toldRun.rule = epoch.baseline
    /\ epoch # Told!None =>
          /\ rule \in {Told!NoRule, epoch.baseline}
          /\ toldCheckpoint # Told!None => toldCheckpoint.rule = epoch.baseline
    /\ epoch = Told!None /\ toldCheckpoint # Told!None =>
          rule # Told!NoRule /\ toldCheckpoint.rule = rule
    /\ toldDisk.checkpoint # Told!None =>
          toldDisk.base # Told!NoRule /\ toldDisk.checkpoint.rule = toldDisk.base

\* What the epoch has observed last is what Cursor follows, in the Run and, when
\* there is none or it brought no news, in the checkpoint.
Observes(told) ==
    \A s \in Ruled : epoch.snapshot[s] # 0 => View(told, s) = epoch.snapshot[s]
SnapshotFollowed ==
    /\ epoch # Told!None /\ toldRun = Told!None => Observes(Told!Earlier(toldCheckpoint))
    /\ toldRun # Told!None =>
          /\ Observes(toldRun.told)
          /\ ~toldRun.news => Observes(Told!Earlier(toldCheckpoint))
          /\ \A s \in Ruled : toldRun.offers[s] # 0 => toldRun.offers[s] = epoch.snapshot[s]

EpochInv == EpochTypes /\ OneRule /\ SnapshotFollowed

LEMMA EpochInit == Told!Init => EpochInv
BY DEF Told!Init, EpochInv, EpochTypes, OneRule, SnapshotFollowed, Told!None, Told!NoRule, Told!Rule,
       Told!Nothing, Rules, Told!Sources, ToldCheckpoints, ToldRuns, Epochs

\* Records of each kind are none.
LEMMA NotNone ==
    /\ \A e \in Epochs : e # Told!None
    /\ \A c \in ToldCheckpoints : c # Told!None
    /\ \A r \in ToldRuns : r # Told!None
BY DEF Epochs, ToldCheckpoints, ToldRuns, Told!None

LEMMA OffersAreTexts ==
    ASSUME EpochTypes, NEW present \in Told!Presences
    PROVE  /\ Told!Offer(present) \in Texts /\ Told!Rule(Told!Offer(present)) \in Rules
           /\ Told!Rule(Told!Offer(present)) # Told!NoRule
<1>1. Told!Offer(present) \in Texts
  BY DEF Told!Offer, Texts, EpochTypes
<1>2. Told!Rule(Told!Offer(present)) \in Rules
  BY <1>1 DEF Told!Rule, Rules, Texts, Told!Sources
<1>3. PICK s \in Ruled : s \in present
  BY DEF Told!Presences
<1>4. Told!Offer(present)[s] # 0
  BY <1>3 DEF Told!Offer, EpochTypes, Told!Sources
<1>5. Told!Rule(Told!Offer(present))[s] # Told!NoRule[s]
  BY <1>3, <1>4 DEF Told!Rule, Told!NoRule, Told!Nothing, Told!Sources
<1> QED BY <1>1, <1>2, <1>5

LEMMA HeardIsText ==
    ASSUME NEW earlier \in Texts, NEW tells \in Texts
    PROVE  /\ Told!Heard(earlier, tells) \in Texts
           /\ \A s \in Told!Sources : Told!Heard(earlier, tells)[s] = IF tells[s] # 0 THEN tells[s] ELSE earlier[s]
BY DEF Told!Heard, Texts

LEMMA EarlierIsText ==
    ASSUME NEW c \in ToldCheckpoints \union {Told!None}
    PROVE  Told!Earlier(c) \in Texts /\ (c = Told!None => \A s \in Told!Sources : Told!Earlier(c)[s] = 0)
BY NotNone DEF Told!Earlier, Told!Nothing, Texts, ToldCheckpoints

\* Nothing told: the messages stay as they were.
LEMMA NothingHeard ==
    ASSUME NEW earlier \in Texts
    PROVE  Told!Nothing \in Texts /\ Told!Heard(earlier, Told!Nothing) = earlier
BY DEF Told!Heard, Told!Nothing, Texts

\* The epoch after an admission, its rule, and what the messages then say of it.
LEMMA Admits ==
    ASSUME EpochTypes, OneRule, NEW known \in Epochs \union {Told!None},
           NEW held \in ToldCheckpoints \union {Told!None}, NEW present \in Told!Presences,
           known \in {epoch, Told!None},
           known = Told!None /\ held # Told!None => rule # Told!NoRule /\ held.rule = rule,
           known # Told!None => held = toldCheckpoint,
           known # Told!None => Observes(Told!Earlier(held))
    PROVE  LET offer == Told!Offer(present)
               admitted == Told!Admitted(known, held, offer)
           IN /\ admitted.epoch \in Epochs /\ admitted.tells \in Texts
              /\ held # Told!None => admitted.epoch.baseline = held.rule
              /\ known # Told!None => admitted.epoch.baseline = known.baseline
              /\ \A s \in Ruled : offer[s] # 0 => offer[s] = admitted.epoch.snapshot[s]
              /\ \A s \in Ruled : admitted.epoch.snapshot[s] # 0 =>
                    (IF Told!Heard(Told!Earlier(held), admitted.tells)[s] # 0
                     THEN Told!Heard(Told!Earlier(held), admitted.tells)[s]
                     ELSE admitted.epoch.baseline[s]) = admitted.epoch.snapshot[s]
<1> DEFINE offer == Told!Offer(present)
           admitted == Told!Admitted(known, held, offer)
<1>1. offer \in Texts /\ Told!Rule(offer) \in Rules \ {Told!NoRule}
  BY OffersAreTexts
<1>2. Told!Earlier(held) \in Texts /\ (held = Told!None
          => \A s \in Told!Sources : Told!Earlier(held)[s] = 0)
  BY EarlierIsText
<1>3. Ruled \subseteq Told!Sources
  BY DEF Told!Sources
<1>4. CASE known # Told!None
  <2>1. known = epoch /\ known \in Epochs
    BY <1>4
  <2>2. /\ admitted.epoch = [known EXCEPT !.snapshot = Told!Observed(@, offer)]
        /\ admitted.tells = Told!Updates(known.snapshot, offer)
    BY <1>4 DEF Told!Admitted
  <2> DEFINE seen == Told!Observed(known.snapshot, offer)
  <2>3. seen \in Texts /\ \A s \in Told!Sources : seen[s] = IF offer[s] # 0 THEN offer[s] ELSE known.snapshot[s]
    BY <1>1, <2>1 DEF Told!Observed, Texts, Epochs
  <2>4. admitted.epoch \in Epochs /\ admitted.epoch.snapshot = seen /\ admitted.epoch.baseline = known.baseline
    BY <2>1, <2>2, <2>3 DEF Epochs
  <2>5. /\ admitted.tells \in Texts
        /\ \A s \in Told!Sources : admitted.tells[s] = IF offer[s] # known.snapshot[s] THEN offer[s] ELSE 0
    BY <1>1, <2>1, <2>2 DEF Told!Updates, Texts, Epochs
  <2>6. \A s \in Ruled : known.snapshot[s] # 0 =>
           (IF Told!Earlier(held)[s] # 0 THEN Told!Earlier(held)[s] ELSE known.baseline[s]) = known.snapshot[s]
    BY <1>4, <2>1 DEF Observes, View
  <2>7. held # Told!None => known.baseline = held.rule
    BY <1>4, <2>1 DEF OneRule
  <2> HIDE DEF admitted, offer, seen
  <2>8. \A s \in Ruled : offer[s] # 0 => offer[s] = admitted.epoch.snapshot[s]
    BY <1>3, <2>3, <2>4
  <2>9. \A s \in Ruled :
           Told!Heard(Told!Earlier(held), admitted.tells)[s]
             = IF admitted.tells[s] # 0 THEN admitted.tells[s] ELSE Told!Earlier(held)[s]
    BY <1>2, <1>3, <2>5, HeardIsText
  <2>10. \A s \in Ruled : admitted.epoch.snapshot[s] # 0 =>
                    (IF Told!Heard(Told!Earlier(held), admitted.tells)[s] # 0
                     THEN Told!Heard(Told!Earlier(held), admitted.tells)[s]
                     ELSE admitted.epoch.baseline[s]) = admitted.epoch.snapshot[s]
    BY <1>3, <2>3, <2>4, <2>5, <2>6, <2>9
  <2> QED BY <1>4, <2>4, <2>5, <2>7, <2>8, <2>10 DEF admitted, offer
<1>5. CASE known = Told!None /\ held # Told!None
  <2>1. admitted.epoch = [is |-> "epoch", baseline |-> rule, snapshot |-> offer] /\ admitted.tells = Told!Recovery(offer)
    BY <1>5 DEF Told!Admitted, Told!Recovered, Told!Epoch
  <2>2. admitted.epoch \in Epochs /\ admitted.epoch.baseline = held.rule /\ admitted.epoch.snapshot = offer
    BY <1>1, <1>5, <2>1 DEF Epochs, EpochTypes
  <2>3. admitted.tells \in Texts /\ \A s \in Ruled : admitted.tells[s] = offer[s]
    BY <1>1, <1>3, <1>5, <2>1 DEF Told!Recovery, Texts
  <2> HIDE DEF admitted, offer
  <2>4. \A s \in Ruled :
           Told!Heard(Told!Earlier(held), admitted.tells)[s]
             = IF admitted.tells[s] # 0 THEN admitted.tells[s] ELSE Told!Earlier(held)[s]
    BY <1>2, <1>3, <2>3, HeardIsText
  <2> QED BY <1>5, <2>2, <2>3, <2>4 DEF admitted, offer
<1>6. CASE known = Told!None /\ held = Told!None
  <2>1. admitted.epoch = [is |-> "epoch", baseline |-> Told!Rule(offer), snapshot |-> offer]
        /\ admitted.tells = Told!Nothing
    BY <1>6 DEF Told!Admitted, Told!Epoch
  <2>2. admitted.epoch \in Epochs /\ admitted.epoch.snapshot = offer /\ admitted.epoch.baseline = Told!Rule(offer)
    BY <1>1, <2>1 DEF Epochs
  <2>3. admitted.tells \in Texts /\ Told!Heard(Told!Earlier(held), admitted.tells) = Told!Earlier(held)
    BY <1>2, <2>1, NothingHeard
  <2>4. \A s \in Ruled : Told!Earlier(held)[s] = 0 /\ Told!Rule(offer)[s] = offer[s]
    BY <1>2, <1>3, <1>6 DEF Told!Rule
  <2> HIDE DEF admitted, offer
  <2> QED BY <1>6, <2>2, <2>3, <2>4 DEF admitted, offer
<1> QED BY <1>4, <1>5, <1>6

\* The rule of a Run is its epoch's baseline.
LEMMA BaselineRules ==
    ASSUME NEW e \in Epochs, NEW offer
    PROVE  Told!Instructed(e.baseline, offer) = e.baseline
BY DEF Told!Instructed, Epochs

LEMMA OpenedKeeps ==
    ASSUME EpochTypes, OneRule, NEW known \in Epochs \union {Told!None},
           NEW held \in ToldCheckpoints \union {Told!None}, NEW present \in Told!Presences,
           known \in {epoch, Told!None},
           known = Told!None /\ held # Told!None => rule # Told!NoRule /\ held.rule = rule,
           known # Told!None => held = toldCheckpoint,
           known # Told!None => Observes(Told!Earlier(held)),
           Told!Opened(known, held, Told!Offer(present)),
           toldCheckpoint' = held, UNCHANGED <<hostSays, toldDisk>>
    PROVE  EpochInv'
<1> DEFINE offer == Told!Offer(present)
           admitted == Told!Admitted(known, held, offer)
           heard == Told!Heard(Told!Earlier(held), admitted.tells)
<1>1. /\ admitted.epoch \in Epochs /\ admitted.tells \in Texts
      /\ held # Told!None => admitted.epoch.baseline = held.rule
      /\ \A s \in Ruled : offer[s] # 0 => offer[s] = admitted.epoch.snapshot[s]
      /\ \A s \in Ruled : admitted.epoch.snapshot[s] # 0 =>
            (IF heard[s] # 0 THEN heard[s] ELSE admitted.epoch.baseline[s]) = admitted.epoch.snapshot[s]
  BY Admits
<1>2. offer \in Texts /\ heard \in Texts
  BY <1>1, OffersAreTexts, HeardIsText, EarlierIsText
<1>3. admitted.tells = Told!Nothing => heard = Told!Earlier(held)
  BY NothingHeard, EarlierIsText
<1>4. /\ epoch' = admitted.epoch /\ rule' = admitted.epoch.baseline
      /\ toldRun' = [is |-> "run", offers |-> offer, rule |-> admitted.epoch.baseline, told |-> heard,
                     resumes |-> held # Told!None, news |-> admitted.tells # Told!Nothing]
  BY <1>1, BaselineRules DEF Told!Opened
<1> HIDE DEF admitted, offer, heard
<1>5. toldRun' \in ToldRuns /\ rule' \in Rules /\ epoch' # Told!None /\ toldRun' # Told!None
  BY <1>1, <1>2, <1>4, NotNone DEF ToldRuns, Epochs
<1>6. EpochTypes'
  BY <1>1, <1>4, <1>5 DEF EpochTypes
<1>7. OneRule'
  BY <1>1, <1>4, <1>5 DEF OneRule
<1>8. \A s \in Ruled : epoch'.snapshot[s] # 0 =>
         (IF heard[s] # 0 THEN heard[s] ELSE epoch'.baseline[s]) = epoch'.snapshot[s]
  BY <1>1, <1>4
<1>9. SnapshotFollowed'
  BY <1>1, <1>3, <1>4, <1>5, <1>8 DEF SnapshotFollowed, Observes, View
<1> QED BY <1>6, <1>7, <1>9 DEF EpochInv

LEMMA OpensKeeps ==
    ASSUME EpochInv, NEW present \in Told!Presences, Told!Opens(present) \/ Told!Rebases(present)
    PROVE  EpochInv'
<1>1. CASE Told!Opens(present)
  <2>1. Told!Opened(epoch, toldCheckpoint, Told!Offer(present)) /\ toldRun = Told!None
        /\ UNCHANGED <<hostSays, toldCheckpoint, toldDisk>>
    BY <1>1 DEF Told!Opens
  <2>2. epoch \in Epochs \union {Told!None} /\ toldCheckpoint \in ToldCheckpoints \union {Told!None}
    BY DEF EpochInv, EpochTypes
  <2> QED BY <2>1, <2>2, OpenedKeeps DEF EpochInv, OneRule, SnapshotFollowed
<1>2. CASE Told!Rebases(present)
  <2>1. Told!Opened(Told!None, Told!None, Told!Offer(present)) /\ toldCheckpoint' = Told!None
        /\ UNCHANGED <<hostSays, toldDisk>>
    BY <1>2 DEF Told!Rebases, Told!Ended
  <2> QED BY <2>1, OpenedKeeps DEF EpochInv
<1> QED BY <1>1, <1>2

\* The epoch has nothing new to say: it stays as it was.
LEMMA ResumesKeeps ==
    ASSUME EpochInv, ~LosesTold, NEW present \in Told!Presences, Told!Resumes(present)
    PROVE  EpochInv' 
<1> DEFINE offer == Told!Offer(present)
           seen == Told!Observed(epoch.snapshot, offer)
<1>1. toldRun \in ToldRuns /\ epoch \in Epochs /\ toldCheckpoint \in ToldCheckpoints
  BY DEF Told!Resumes, EpochInv, EpochTypes, OneRule
<1>2. /\ toldRun # Told!None /\ toldCheckpoint # Told!None /\ toldCheckpoint.told = toldRun.told
      /\ Told!Updates(epoch.snapshot, offer) = Told!Nothing
      /\ epoch' = [epoch EXCEPT !.snapshot = seen] /\ rule' = Told!Instructed(epoch'.baseline, offer)
      /\ toldRun' = [toldRun EXCEPT !.rule = rule', !.resumes = TRUE]
      /\ UNCHANGED <<hostSays, toldCheckpoint, toldDisk>>
  BY <1>1, NotNone DEF Told!Resumes, Told!Admitted
<1>3. offer \in Texts
  BY OffersAreTexts DEF EpochInv
<1>4. \A s \in Told!Sources : offer[s] = epoch.snapshot[s] \/ offer[s] = 0
  <2> TAKE s \in Told!Sources
  <2>1. Told!Updates(epoch.snapshot, offer)[s] = 0
    BY <1>2 DEF Told!Nothing
  <2> QED BY <2>1 DEF Told!Updates
<1>5. seen = epoch.snapshot
  BY <1>1, <1>3, <1>4 DEF Told!Observed, Epochs, Texts
<1> HIDE DEF offer, seen
<1>6. epoch' = epoch
  BY <1>1, <1>2, <1>5 DEF Epochs
<1>7. rule' = epoch.baseline
  BY <1>1, <1>2, <1>6, BaselineRules
<1>8. toldRun' \in ToldRuns /\ toldRun'.rule = epoch.baseline /\ toldRun'.told = toldRun.told
      /\ toldRun'.offers = toldRun.offers /\ toldRun'.news = toldRun.news
  BY <1>1, <1>2, <1>7 DEF ToldRuns, Epochs
<1>9. EpochTypes'
  BY <1>1, <1>2, <1>6, <1>7, <1>8 DEF EpochInv, EpochTypes, Epochs
<1>10. OneRule'
  BY <1>1, <1>2, <1>6, <1>7, <1>8, NotNone DEF EpochInv, OneRule
<1>11. SnapshotFollowed'
  BY <1>1, <1>2, <1>6, <1>8, NotNone DEF EpochInv, SnapshotFollowed, Observes, View
<1> QED BY <1>9, <1>10, <1>11 DEF EpochInv

LEMMA CheckpointsKeeps ==
    ASSUME EpochInv, Told!Checkpoints
    PROVE  EpochInv'
<1>1. toldRun \in ToldRuns /\ toldRun # Told!None
  BY DEF Told!Checkpoints, EpochInv, EpochTypes
<1>2. /\ toldCheckpoint' = [is |-> "checkpoint", told |-> toldRun.told, rule |-> toldRun.rule]
      /\ UNCHANGED <<hostSays, epoch, rule, toldDisk, toldRun>>
  BY DEF Told!Checkpoints
<1>3. toldCheckpoint' \in ToldCheckpoints /\ toldCheckpoint' # Told!None
      /\ Told!Earlier(toldCheckpoint') = toldRun.told
  BY <1>1, <1>2, NotNone DEF ToldCheckpoints, ToldRuns, Told!Earlier
<1>4. EpochTypes' /\ OneRule'
  BY <1>1, <1>2, <1>3 DEF EpochInv, EpochTypes, OneRule
<1>5. SnapshotFollowed'
  BY <1>1, <1>2, <1>3 DEF EpochInv, SnapshotFollowed, Observes, View
<1> QED BY <1>4, <1>5 DEF EpochInv

LEMMA EndsKeep ==
    ASSUME EpochInv, ~LosesTold, Told!Ends \/ Told!Fails
    PROVE  EpochInv'
<1>1. /\ toldRun # Told!None /\ toldRun \in ToldRuns /\ toldRun' = Told!None
      /\ UNCHANGED <<hostSays, epoch, rule, toldCheckpoint, toldDisk>>
  BY DEF Told!Ends, Told!Fails, EpochInv, EpochTypes
<1>2. Observes(Told!Earlier(toldCheckpoint))
  BY <1>1 DEF Told!Ends, Told!Fails, EpochInv, SnapshotFollowed, Told!Earlier
<1>3. EpochTypes' /\ OneRule'
  BY <1>1 DEF EpochInv, EpochTypes, OneRule
<1>4. SnapshotFollowed'
  BY <1>1, <1>2 DEF SnapshotFollowed, Observes, View
<1> QED BY <1>3, <1>4 DEF EpochInv

LEMMA SavesKeep ==
    ASSUME EpochInv, Told!Saves \/ Told!Restarts \/ Told!EvictsBase \/ UNCHANGED Told!vars
    PROVE  EpochInv'
<1>1. CASE Told!Saves
  <2>1. /\ toldRun # Told!None /\ toldRun \in ToldRuns /\ epoch \in Epochs /\ epoch # Told!None
        /\ toldDisk' = [checkpoint |-> toldCheckpoint, base |-> Told!SavedBase]
        /\ UNCHANGED <<hostSays, epoch, rule, toldCheckpoint, toldRun>>
    BY <1>1 DEF Told!Saves, EpochInv, EpochTypes, OneRule
  <2>2. Told!SavedBase = epoch.baseline
    BY <2>1 DEF Told!SavedBase, EpochInv, OneRule
  <2>3. epoch.baseline \in Rules /\ epoch.baseline # Told!NoRule
    BY <2>1 DEF Epochs
  <2>4. EpochTypes'
    BY <2>1, <2>2, <2>3 DEF EpochInv, EpochTypes
  <2>5. OneRule'
    BY <2>1, <2>2, <2>3 DEF EpochInv, OneRule
  <2>6. SnapshotFollowed'
    BY <2>1 DEF EpochInv, SnapshotFollowed, Observes, View
  <2> QED BY <2>4, <2>5, <2>6 DEF EpochInv
<1>2. CASE Told!Restarts
  <2>1. /\ epoch' = Told!None /\ toldRun' = Told!None /\ toldCheckpoint' = toldDisk.checkpoint
        /\ rule' = toldDisk.base /\ UNCHANGED <<hostSays, toldDisk>>
    BY <1>2 DEF Told!Restarts
  <2> QED BY <2>1 DEF EpochInv, EpochTypes, OneRule, SnapshotFollowed
<1>3. CASE Told!EvictsBase
  <2>1. /\ epoch # Told!None /\ rule' = Told!NoRule /\ UNCHANGED <<hostSays, epoch, toldCheckpoint,
                                                                   toldDisk, toldRun>>
    BY <1>3 DEF Told!EvictsBase
  <2>2. Told!NoRule \in Rules
    BY DEF Told!NoRule, Told!Rule, Told!Nothing, Rules, Told!Sources
  <2> QED BY <2>1, <2>2 DEF EpochInv, EpochTypes, OneRule, SnapshotFollowed, Observes, View
<1>4. CASE UNCHANGED Told!vars
  BY <1>4 DEF Told!vars, EpochInv, EpochTypes, OneRule, SnapshotFollowed, Observes, View
<1> QED BY <1>1, <1>2, <1>3, <1>4

LEMMA HostChangesKeeps ==
    ASSUME EpochInv, NEW s \in Told!Sources, NEW version \in Told!Versions, Told!HostChanges(s, version)
    PROVE  EpochInv'
<1>1. version \in Nat \ {0}
  BY DEF Told!Versions
<1>2. hostSays' \in [Told!Sources -> Nat \ {0}] /\ UNCHANGED <<epoch, rule, toldCheckpoint,
                                                               toldDisk, toldRun>>
  BY <1>1 DEF Told!HostChanges, EpochInv, EpochTypes
<1> QED BY <1>2 DEF EpochInv, EpochTypes, OneRule, SnapshotFollowed, Observes, View

LEMMA EpochNext == ASSUME EpochInv, ~LosesTold, [Told!Next]_(Told!vars) PROVE EpochInv'
BY OpensKeeps, ResumesKeeps, CheckpointsKeeps, EndsKeep, SavesKeep, HostChangesKeeps DEF Told!Next

LEMMA EpochServes == EpochInv => Told!InstructionsFollowed /\ Told!PrefixKept
<1> SUFFICES ASSUME EpochInv, toldRun # Told!None
             PROVE  Told!InstructionsFollowed /\ Told!PrefixKept
  BY DEF Told!InstructionsFollowed, Told!PrefixKept
<1>1. Told!InstructionsFollowed
  BY DEF EpochInv, OneRule, SnapshotFollowed, Observes, View, Told!InstructionsFollowed, Told!Followed
<1>2. Told!PrefixKept
  BY DEF EpochInv, OneRule, Told!PrefixKept
<1> QED BY <1>1, <1>2

\* A Run follows the instructions its request offers, and carries the rule its
\* checkpoint was made under, however often the host changes them and through
\* restarts, resets and evictions, where a Run that told news was checkpointed.
THEOREM InstructionsStayFollowed ==
    ASSUME ~LosesTold
    PROVE  Told!Spec => [](Told!InstructionsFollowed /\ Told!PrefixKept)
<1>1. Told!Init => EpochInv
  BY EpochInit
<1>2. EpochInv /\ [Told!Next]_(Told!vars) => EpochInv'
  BY EpochNext
<1>3. EpochInv => Told!InstructionsFollowed /\ Told!PrefixKept
  BY EpochServes
<1> QED BY <1>1, <1>2, <1>3, PTL DEF Told!Spec

-----------------------------------------------------------------------------
(***************************************************************************)
(* A rewritten history (HistoryRewrite)                                    *)
(***************************************************************************)

Seeds == [id : Nat, era : Nat, summary : BOOLEAN]
Writes == [kind : {"receipt", "save", "delete"}, conv : Seeds, post : BOOLEAN, begun : BOOLEAN]
HistRuns == [conv : Seeds, post : BOOLEAN, held : BOOLEAN]
HistTurns == [did : {"none", "opened", "continued"}, seeded : Nat, reset : BOOLEAN,
              told : Nat, needed : BOOLEAN]

RewriteTypes ==
    /\ era \in Nat /\ convs \in Nat /\ histKnown \in Nat
    /\ copies \in [1..MaxRewrites -> Nat]
    /\ receipt \in [event : Nat, pending : BOOLEAN, durable : BOOLEAN, saving : BOOLEAN]
    /\ flag \in BOOLEAN /\ excused \in BOOLEAN
    /\ histBound \in Seeds
    /\ histDisk \in [conv : Seeds, post : BOOLEAN]
    /\ histLane \in Seq(Writes)
    /\ histRun \in HistRuns /\ gone \in HistRuns
    /\ request \in {"idle", "asked", "passed"}
    /\ histTurn \in HistTurns

IsSave(w) == w.kind = "save"
Begins(w) == IsSave(w) /\ w.begun

\* What is kept is of conversations and compactions so far.
SoFar(conv) == conv = Hist!NoConv \/ (conv.id \in 1..convs /\ conv.era <= era)
RewritesSoFar ==
    /\ SoFar(histBound) /\ SoFar(histDisk.conv) /\ SoFar(histRun.conv) /\ SoFar(gone.conv)
    /\ \A i \in DOMAIN histLane : SoFar(histLane[i].conv)
    /\ histKnown <= era /\ receipt.event <= era
    /\ \A e \in 1..MaxRewrites : copies[e] > 0 => e <= era

\* A summary's conversation is marked wherever it is.
SummariesMarked ==
    /\ histBound.summary => flag
    /\ histDisk.conv.summary => histDisk.post
    /\ histRun.conv.summary => histRun.post
    /\ gone.conv.summary => gone.post
    /\ \A i \in DOMAIN histLane : IsSave(histLane[i]) /\ histLane[i].conv.summary => histLane[i].post

\* A Run is of the bound conversation, and none of a marked one is open or to
\* be saved, but a summary's.
OneConversation ==
    /\ histRun # Hist!NoRun => histRun.conv = histBound /\ histBound # Hist!NoConv
    /\ histRun.held => ~histRun.conv.summary
    /\ request # "idle" => histRun = Hist!NoRun \/ histRun.held
    /\ histRun.conv = Hist!NoConv => histRun = Hist!NoRun
    /\ gone.conv = Hist!NoConv => gone = Hist!NoRun
    /\ histDisk.conv = Hist!NoConv => histDisk = Hist!NoSnapshot
    /\ flag /\ ~histBound.summary =>
          /\ histRun = Hist!NoRun /\ gone.conv # histBound
          /\ \A i \in DOMAIN histLane : IsSave(histLane[i]) => histLane[i].conv # histBound

\* Only the first write of the lane has begun; a pending receipt is of an event.
WritesInOrder ==
    /\ \A i \in DOMAIN histLane : histLane[i].begun => i = 1 /\ IsSave(histLane[i])
    /\ \A i \in DOMAIN histLane : IsSave(histLane[i]) => histLane[i].conv # Hist!NoConv
    /\ \A i \in DOMAIN histLane : histLane[i].kind = "receipt" => receipt.event # 0
    /\ receipt.pending => receipt.event # 0

\* A session that is not bound has no Run, and a snapshot from before the event
\* it has heard, or may hear.
UnboundBehind ==
    histBound = Hist!NoConv =>
        /\ histRun = Hist!NoRun /\ gone = Hist!NoRun /\ ~flag
        /\ \A i \in DOMAIN histLane : histLane[i].kind = "receipt"
        /\ request # "idle" => histDisk = Hist!NoSnapshot \/ receipt.pending
        /\ receipt.pending => histDisk.conv.era < receipt.event
        /\ \A e \in 1..MaxRewrites : copies[e] > 0 => histDisk.conv.era < e

\* What another conversation left on the disk, or is about to, will be deleted.
ToDelete(conv) == \E i \in DOMAIN histLane : histLane[i].kind = "delete" /\ histLane[i].conv \in {Hist!NoConv, conv}
LeftDeleted ==
    histBound # Hist!NoConv =>
        /\ histDisk.conv \notin {Hist!NoConv, histBound} => ToDelete(histDisk.conv)
        /\ \A i \in DOMAIN histLane : Begins(histLane[i]) /\ histLane[i].conv # histBound
              => ToDelete(histLane[i].conv)

\* An event that is no longer pending has its conversation, and a receipt that
\* is saved then finds no snapshot of it.
EventsServed ==
    ~receipt.pending =>
        /\ receipt.event # 0 => receipt.durable /\ histBound # Hist!NoConv /\ histBound.era >= receipt.event
        /\ \A i \in DOMAIN histLane : histLane[i].kind = "receipt" =>
              histDisk.conv # histBound /\ \A j \in 1..(i - 1) : IsSave(histLane[j])
                    => histLane[j].conv # histBound

\* What is behind a compaction the session was told of is marked.
BehindMarked ==
    /\ histBound # Hist!NoConv => histBound.era >= histKnown \/ flag \/ receipt.pending
    /\ histDisk.conv # Hist!NoConv => histDisk.conv.era >= histKnown \/ histDisk.post
    /\ \A i \in DOMAIN histLane : Begins(histLane[i])
          => histLane[i].conv.era >= histKnown \/ histLane[i].post
    /\ receipt.pending /\ receipt.durable =>
          /\ histDisk.conv # Hist!NoConv => histDisk.conv.era >= receipt.event \/ histDisk.post
          /\ \A i \in DOMAIN histLane : Begins(histLane[i]) => histLane[i].post
    /\ request = "passed" =>
          /\ histTurn.told <= era /\ histTurn.did = "none" /\ ~histTurn.reset
          /\ histBound # Hist!NoConv => histBound.era >= histTurn.told \/ flag \/ receipt.pending
          /\ histRun # Hist!NoRun => histRun.conv.era >= histTurn.told

\* What is marked is behind a compaction, or replaced.
Behind(conv) == conv.era < era \/ conv.summary \/ excused
MarkedBehind ==
    /\ (receipt.pending \/ flag) /\ histBound # Hist!NoConv => Behind(histBound)
    /\ histDisk.conv # Hist!NoConv /\ histDisk.post
          => Behind(histDisk.conv) \/ (histBound # Hist!NoConv /\ histDisk.conv # histBound)
    /\ \A i \in DOMAIN histLane : Begins(histLane[i]) /\ histLane[i].post
          => Behind(histLane[i].conv) \/ histLane[i].conv # histBound
    /\ (histRun.post => histRun.conv.summary) /\ (gone.post => gone.conv.summary)
    /\ \A i \in DOMAIN histLane : IsSave(histLane[i]) /\ histLane[i].post /\ ~histLane[i].begun
          => histLane[i].conv.summary

\* An event heard by some copies is the latest one.
HeardInOrder ==
    \A e \in 1..MaxRewrites :
        /\ copies[e] <= MaxCopies
        /\ 0 < copies[e] /\ copies[e] < MaxCopies =>
              receipt.event = e /\ \A older \in 1..(e - 1) : copies[older] = 0

TurnsServed == Hist!RewriteHonoured /\ Hist!RebasedOnce /\ (request = "asked" => histTurn = Hist!NoTurn)

RewriteInv ==
    /\ RewriteTypes /\ RewritesSoFar /\ SummariesMarked /\ OneConversation /\ WritesInOrder
    /\ UnboundBehind /\ LeftDeleted /\ EventsServed /\ BehindMarked /\ MarkedBehind
    /\ HeardInOrder /\ TurnsServed

\* Nothing is of no conversation.
LEMMA NothingIsTyped ==
    /\ Hist!NoConv \in Seeds /\ Hist!NoConv = [id |-> 0, era |-> 0, summary |-> FALSE]
    /\ Hist!NoRun \in HistRuns /\ Hist!NoRun.conv = Hist!NoConv /\ ~Hist!NoRun.post /\ ~Hist!NoRun.held
    /\ Hist!NoSnapshot \in [conv : Seeds, post : BOOLEAN] /\ Hist!NoSnapshot.conv = Hist!NoConv /\ ~Hist!NoSnapshot.post
    /\ ~Hist!NoConv.summary /\ Hist!NoConv.era = 0
    /\ Hist!NoReceipt \in [event : Nat, pending : BOOLEAN, durable : BOOLEAN, saving : BOOLEAN]
    /\ Hist!NoReceipt.event = 0 /\ ~Hist!NoReceipt.pending
    /\ Hist!NoTurn \in HistTurns /\ Hist!NoTurn.did = "none" /\ ~Hist!NoTurn.reset
BY DEF Hist!NoConv, Hist!NoRun, Hist!NoSnapshot, Hist!NoReceipt, Hist!NoTurn, Seeds, HistRuns, HistTurns

\* What is kept has its type.
LEMMA KeptIsTyped ==
    ASSUME RewriteTypes
    PROVE  /\ histBound.era \in Nat /\ histDisk.conv \in Seeds /\ histDisk.conv.era \in Nat /\ histDisk.post \in BOOLEAN
           /\ histRun.conv.era \in Nat /\ gone.conv.era \in Nat /\ receipt.event \in Nat
           /\ \A i \in DOMAIN histLane : histLane[i] \in Writes /\ histLane[i].conv \in Seeds /\ histLane[i].conv.era \in Nat
           /\ DOMAIN histLane = 1..Len(histLane) /\ Len(histLane) \in Nat
<1>1. \A s \in Seeds : s.era \in Nat
  BY DEF Seeds
<1>2. /\ DOMAIN histLane = 1..Len(histLane) /\ Len(histLane) \in Nat
      /\ \A i \in DOMAIN histLane : histLane[i] \in Writes
  BY DEF RewriteTypes
<1>3. \A w \in Writes : w.conv \in Seeds
  BY DEF Writes
<1>4. /\ histDisk.conv \in Seeds /\ histDisk.post \in BOOLEAN /\ histBound \in Seeds
      /\ histRun.conv \in Seeds /\ gone.conv \in Seeds /\ receipt.event \in Nat
  BY DEF RewriteTypes, HistRuns
<1> QED BY <1>1, <1>2, <1>3, <1>4

\* A write joins the lane.
LEMMA WriteJoins ==
    ASSUME histLane \in Seq(Writes), NEW w \in Writes, histLane' = Append(histLane, w)
    PROVE  /\ histLane' \in Seq(Writes) /\ Len(histLane) \in Nat
           /\ DOMAIN histLane = 1..Len(histLane) /\ DOMAIN histLane' = 1..(Len(histLane) + 1)
           /\ \A i \in DOMAIN histLane : i \in DOMAIN histLane' /\ histLane'[i] = histLane[i] /\ histLane[i] \in Writes
           /\ histLane'[Len(histLane) + 1] = w
           /\ \A i \in DOMAIN histLane' : i \in DOMAIN histLane \/ i = Len(histLane) + 1
OBVIOUS

\* The first write leaves it.
LEMMA WriteLeaves ==
    ASSUME histLane \in Seq(Writes), histLane # <<>>, histLane' = Tail(histLane)
    PROVE  /\ histLane' \in Seq(Writes) /\ Head(histLane) = histLane[1] /\ histLane[1] \in Writes
           /\ 1 \in DOMAIN histLane /\ Len(histLane) \in Nat \ {0} /\ DOMAIN histLane = 1..Len(histLane)
           /\ DOMAIN histLane' = 1..(Len(histLane) - 1)
           /\ \A i \in DOMAIN histLane' : i + 1 \in DOMAIN histLane /\ histLane'[i] = histLane[i + 1]
           /\ \A i \in DOMAIN histLane : i = 1 \/ (i - 1 \in DOMAIN histLane' /\ histLane'[i - 1] = histLane[i])
OBVIOUS

LEMMA HostRewritesKeepsHistory ==
    ASSUME RewriteConstants, RewriteInv, Hist!HostRewrites PROVE RewriteInv'
<1>0. UNCHANGED <<receipt, flag, histBound, convs, histDisk, histLane, histRun, gone, request,
                  histKnown, excused, histTurn>>
  BY DEF Hist!HostRewrites
<1>1. RewriteTypes'
  BY <1>0, NothingIsTyped, KeptIsTyped DEF RewriteInv, RewriteTypes, RewriteConstants, Seeds,
     HistRuns, HistTurns, Hist!HostRewrites
<1>2. RewritesSoFar'
  BY <1>0, NothingIsTyped, KeptIsTyped DEF RewriteInv, RewritesSoFar, SoFar, RewriteConstants,
     RewriteTypes, Hist!HostRewrites
<1>3. SummariesMarked'
  BY <1>0 DEF RewriteInv, SummariesMarked, IsSave
<1>4. OneConversation'
  BY <1>0 DEF RewriteInv, OneConversation, IsSave
<1>5. WritesInOrder'
  BY <1>0 DEF RewriteInv, WritesInOrder, IsSave
<1>6. UnboundBehind'
  BY <1>0, NothingIsTyped, KeptIsTyped DEF RewriteInv, UnboundBehind, RewritesSoFar, SoFar,
     RewriteConstants, RewriteTypes, Hist!HostRewrites
<1>7. LeftDeleted'
  BY <1>0 DEF RewriteInv, LeftDeleted, ToDelete, IsSave, Begins
<1>8. EventsServed'
  BY <1>0 DEF RewriteInv, EventsServed, IsSave
<1>9. BehindMarked'
  BY <1>0, NothingIsTyped, KeptIsTyped DEF RewriteInv, BehindMarked, Begins, IsSave, RewriteTypes,
     Hist!HostRewrites
<1>10. MarkedBehind'
  BY <1>0, NothingIsTyped, KeptIsTyped DEF RewriteInv, MarkedBehind, Begins, IsSave, Behind,
     RewriteTypes, Hist!HostRewrites
<1>11. HeardInOrder'
  BY <1>0, NothingIsTyped, KeptIsTyped DEF RewriteInv, HeardInOrder, RewritesSoFar,
     RewriteConstants, RewriteTypes, Hist!HostRewrites
<1>12. TurnsServed'
  BY <1>0 DEF RewriteInv, TurnsServed, Hist!RewriteHonoured, Hist!RebasedOnce, Hist!NoTurn
<1> QED BY <1>1, <1>2, <1>3, <1>4, <1>5, <1>6, <1>7, <1>8, <1>9, <1>10, <1>11, <1>12 DEF RewriteInv

LEMMA AsksKeepsHistory ==
    ASSUME RewriteConstants, RewriteInv, Hist!Asks PROVE RewriteInv'
<1>0. UNCHANGED <<era, copies, receipt, convs, histDisk, histLane, histRun, gone, histKnown, excused>>
  BY DEF Hist!Asks
<1>1. RewriteTypes'
  BY <1>0, NothingIsTyped, KeptIsTyped DEF RewriteInv, RewriteTypes, Seeds, HistRuns, HistTurns, Hist!Asks
<1>2. RewritesSoFar'
  BY <1>0, NothingIsTyped, KeptIsTyped DEF RewriteInv, RewritesSoFar, SoFar, RewriteTypes, Hist!Asks
<1>3. SummariesMarked'
  BY <1>0, NothingIsTyped, KeptIsTyped DEF RewriteInv, SummariesMarked, IsSave, RewriteTypes, Hist!Asks
<1>4. OneConversation'
  BY <1>0, NothingIsTyped, KeptIsTyped DEF RewriteInv, OneConversation, IsSave, UnboundBehind,
     RewriteTypes, Hist!Asks
<1>5. WritesInOrder'
  BY <1>0 DEF RewriteInv, WritesInOrder, IsSave
<1>6. UnboundBehind'
  BY <1>0, NothingIsTyped, KeptIsTyped DEF RewriteInv, UnboundBehind, WritesInOrder, EventsServed,
     OneConversation, RewriteTypes, Hist!Asks
<1>7. LeftDeleted'
  BY <1>0, NothingIsTyped, KeptIsTyped DEF RewriteInv, LeftDeleted, ToDelete, IsSave, Begins,
     RewriteTypes, Hist!Asks
<1>8. EventsServed'
  BY <1>0, NothingIsTyped, KeptIsTyped DEF RewriteInv, EventsServed, IsSave, UnboundBehind,
     WritesInOrder, RewriteTypes, Hist!Asks
<1>9. BehindMarked'
  BY <1>0, NothingIsTyped, KeptIsTyped DEF RewriteInv, BehindMarked, Begins, IsSave, UnboundBehind,
     RewriteTypes, Hist!Asks
<1>10. MarkedBehind'
  BY <1>0, NothingIsTyped, KeptIsTyped DEF RewriteInv, MarkedBehind, Begins, IsSave, Behind,
     UnboundBehind, RewritesSoFar, OneConversation, RewriteTypes, Hist!Asks
<1>11. HeardInOrder'
  BY <1>0 DEF RewriteInv, HeardInOrder
<1>12. TurnsServed'
  BY <1>0, NothingIsTyped, KeptIsTyped DEF RewriteInv, TurnsServed, Hist!RewriteHonoured,
     Hist!RebasedOnce, Hist!NoTurn, RewriteTypes, Hist!Asks
<1> QED BY <1>1, <1>2, <1>3, <1>4, <1>5, <1>6, <1>7, <1>8, <1>9, <1>10, <1>11, <1>12 DEF RewriteInv

LEMMA PassesKeepsHistory ==
    ASSUME RewriteConstants, RewriteInv, Hist!Passes PROVE RewriteInv'
<1>0. UNCHANGED <<era, copies, receipt, flag, histBound, convs, histDisk, histLane, excused>>
  BY DEF Hist!Passes, Hist!MayPass
<1>1. RewriteTypes'
  <2>1. histRun' \in HistRuns /\ gone' \in HistRuns /\ histKnown' \in Nat /\ request' = "passed"
    BY NothingIsTyped, KeptIsTyped DEF RewriteInv, RewriteTypes, Hist!Passes
  <2>2. histTurn' \in HistTurns
    BY <2>1, NothingIsTyped DEF Hist!Passes, Hist!NoTurn, HistTurns
  <2> QED BY <1>0, <2>1, <2>2 DEF RewriteInv, RewriteTypes
<1>2. RewritesSoFar'
  BY <1>0, NothingIsTyped, KeptIsTyped DEF RewriteInv, RewritesSoFar, SoFar, RewriteTypes,
     Hist!Passes, Hist!MayPass
<1>3. SummariesMarked'
  BY <1>0, NothingIsTyped, KeptIsTyped DEF RewriteInv, SummariesMarked, IsSave, RewriteTypes,
     Hist!Passes, Hist!MayPass
<1>4. OneConversation'
  BY <1>0, NothingIsTyped, KeptIsTyped DEF RewriteInv, OneConversation, IsSave, UnboundBehind,
     RewriteTypes, Hist!Passes, Hist!MayPass
<1>5. WritesInOrder'
  BY <1>0 DEF RewriteInv, WritesInOrder, IsSave
<1>6. UnboundBehind'
  BY <1>0, NothingIsTyped, KeptIsTyped DEF RewriteInv, UnboundBehind, RewriteTypes, Hist!Passes,
     Hist!MayPass
<1>7. LeftDeleted'
  BY <1>0 DEF RewriteInv, LeftDeleted, ToDelete, IsSave, Begins
<1>8. EventsServed'
  BY <1>0 DEF RewriteInv, EventsServed, IsSave
<1>9. BehindMarked'
  BY <1>0, NothingIsTyped, KeptIsTyped DEF RewriteInv, BehindMarked, Begins, IsSave, RewritesSoFar,
     OneConversation, Hist!NoTurn, UnboundBehind, SummariesMarked, RewriteTypes, Hist!Passes, Hist!MayPass
<1>10. MarkedBehind'
  BY <1>0, NothingIsTyped, KeptIsTyped DEF RewriteInv, MarkedBehind, Begins, IsSave, Behind,
     RewriteTypes, Hist!Passes, Hist!MayPass
<1>11. HeardInOrder'
  BY <1>0 DEF RewriteInv, HeardInOrder
<1>12. TurnsServed'
  BY <1>0, NothingIsTyped, KeptIsTyped DEF RewriteInv, TurnsServed, Hist!RewriteHonoured,
     Hist!RebasedOnce, Hist!NoTurn, RewriteTypes, Hist!Passes, Hist!MayPass
<1> QED BY <1>1, <1>2, <1>3, <1>4, <1>5, <1>6, <1>7, <1>8, <1>9, <1>10, <1>11, <1>12 DEF RewriteInv

LEMMA ContinuesKeepsHistory ==
    ASSUME RewriteConstants, RewriteInv, Hist!Continues PROVE RewriteInv'
<1>0. UNCHANGED <<era, copies, receipt, flag, histBound, convs, histDisk, histLane, gone,
                  histKnown, excused>>
  BY DEF Hist!Continues
<1>1. histRun # Hist!NoRun /\ histRun' = [histRun EXCEPT !.held = FALSE] /\ histRun'.conv = histRun.conv /\ ~histRun'.held /\ histRun'.post = histRun.post /\ histRun.conv # Hist!NoConv
  BY NothingIsTyped DEF Hist!Continues, RewriteInv, RewriteTypes, HistRuns, OneConversation
<1>2. RewriteTypes'
  <2>1. histRun \in HistRuns /\ histTurn \in HistTurns /\ histRun.conv.era \in Nat
    BY DEF RewriteInv, RewriteTypes, HistRuns, Seeds
  <2>2. histRun' \in HistRuns
    BY <1>1, <2>1 DEF HistRuns
  <2>3. histTurn' \in HistTurns
    BY <2>1 DEF Hist!Continues, HistTurns
  <2>4. request' = "idle"
    BY DEF Hist!Continues
  <2> QED BY <1>0, <2>2, <2>3, <2>4 DEF RewriteInv, RewriteTypes
<1>3. RewritesSoFar'
  BY <1>0, <1>1, NothingIsTyped, KeptIsTyped
     DEF RewriteInv, RewritesSoFar, SoFar, RewriteTypes, Hist!Continues
<1>4. SummariesMarked'
  BY <1>0, <1>1, NothingIsTyped, KeptIsTyped
     DEF RewriteInv, SummariesMarked, IsSave, RewriteTypes, Hist!Continues
<1>5. OneConversation'
  BY <1>0, <1>1, NothingIsTyped, KeptIsTyped
     DEF RewriteInv, OneConversation, IsSave, RewriteTypes, Hist!Continues
<1>6. WritesInOrder'
  BY <1>0 DEF RewriteInv, WritesInOrder, IsSave
<1>7. UnboundBehind'
  BY <1>0, <1>1, NothingIsTyped, KeptIsTyped DEF RewriteInv, UnboundBehind, RewriteTypes, Hist!Continues
<1>8. LeftDeleted'
  BY <1>0 DEF RewriteInv, LeftDeleted, ToDelete, IsSave, Begins
<1>9. EventsServed'
  BY <1>0 DEF RewriteInv, EventsServed, IsSave
<1>10. BehindMarked'
  BY <1>0, <1>1, NothingIsTyped, KeptIsTyped
     DEF RewriteInv, BehindMarked, Begins, IsSave, RewriteTypes, Hist!Continues
<1>11. MarkedBehind'
  BY <1>0, <1>1, NothingIsTyped, KeptIsTyped
     DEF RewriteInv, MarkedBehind, Begins, IsSave, Behind, RewriteTypes, Hist!Continues
<1>12. HeardInOrder'
  BY <1>0 DEF RewriteInv, HeardInOrder
<1>13. TurnsServed'
  BY <1>0, <1>1, NothingIsTyped, KeptIsTyped
     DEF RewriteInv, TurnsServed, Hist!RewriteHonoured, Hist!RebasedOnce, Hist!NoTurn,
         BehindMarked, OneConversation, RewriteTypes, Hist!Continues
<1> QED BY <1>2, <1>3, <1>4, <1>5, <1>6, <1>7, <1>8, <1>9, <1>10, <1>11, <1>12, <1>13 DEF RewriteInv

LEMMA RequestFailsKeepsHistory ==
    ASSUME RewriteConstants, RewriteInv, Hist!RequestFails PROVE RewriteInv'
<1>0. UNCHANGED <<era, copies, receipt, flag, histBound, convs, histDisk, histLane, histRun, gone,
                  histKnown, excused>>
  BY DEF Hist!RequestFails
<1>1. RewriteTypes'
  BY <1>0, NothingIsTyped, KeptIsTyped DEF RewriteInv, RewriteTypes, Seeds, HistRuns, HistTurns,
     Hist!RequestFails
<1>2. RewritesSoFar'
  BY <1>0 DEF RewriteInv, RewritesSoFar, SoFar
<1>3. SummariesMarked'
  BY <1>0 DEF RewriteInv, SummariesMarked, IsSave
<1>4. OneConversation'
  BY <1>0, NothingIsTyped, KeptIsTyped DEF RewriteInv, OneConversation, IsSave, RewriteTypes,
     Hist!RequestFails
<1>5. WritesInOrder'
  BY <1>0 DEF RewriteInv, WritesInOrder, IsSave
<1>6. UnboundBehind'
  BY <1>0, NothingIsTyped, KeptIsTyped DEF RewriteInv, UnboundBehind, RewriteTypes, Hist!RequestFails
<1>7. LeftDeleted'
  BY <1>0 DEF RewriteInv, LeftDeleted, ToDelete, IsSave, Begins
<1>8. EventsServed'
  BY <1>0 DEF RewriteInv, EventsServed, IsSave
<1>9. BehindMarked'
  BY <1>0, NothingIsTyped, KeptIsTyped DEF RewriteInv, BehindMarked, Begins, IsSave, RewriteTypes,
     Hist!RequestFails
<1>10. MarkedBehind'
  BY <1>0 DEF RewriteInv, MarkedBehind, Begins, IsSave, Behind
<1>11. HeardInOrder'
  BY <1>0 DEF RewriteInv, HeardInOrder
<1>12. TurnsServed'
  BY <1>0, NothingIsTyped, KeptIsTyped DEF RewriteInv, TurnsServed, Hist!RewriteHonoured,
     Hist!RebasedOnce, Hist!NoTurn, RewriteTypes, Hist!RequestFails
<1> QED BY <1>1, <1>2, <1>3, <1>4, <1>5, <1>6, <1>7, <1>8, <1>9, <1>10, <1>11, <1>12 DEF RewriteInv

LEMMA SummaryCommittedKeepsHistory ==
    ASSUME RewriteConstants, RewriteInv, Hist!SummaryCommitted PROVE RewriteInv'
<1>0. UNCHANGED <<copies, receipt, flag, histBound, convs, histDisk, histLane, histRun, gone,
                  request, excused>>
  BY DEF Hist!SummaryCommitted
<1>1. RewriteTypes'
  BY <1>0, NothingIsTyped, KeptIsTyped DEF RewriteInv, RewriteTypes, Seeds, HistRuns, HistTurns,
     Hist!SummaryCommitted
<1>2. RewritesSoFar'
  BY <1>0, NothingIsTyped, KeptIsTyped DEF RewriteInv, RewritesSoFar, SoFar, RewriteTypes,
     Hist!SummaryCommitted
<1>3. SummariesMarked'
  BY <1>0 DEF RewriteInv, SummariesMarked, IsSave
<1>4. OneConversation'
  BY <1>0 DEF RewriteInv, OneConversation, IsSave
<1>5. WritesInOrder'
  BY <1>0 DEF RewriteInv, WritesInOrder, IsSave
<1>6. UnboundBehind'
  BY <1>0 DEF RewriteInv, UnboundBehind
<1>7. LeftDeleted'
  BY <1>0 DEF RewriteInv, LeftDeleted, ToDelete, IsSave, Begins
<1>8. EventsServed'
  BY <1>0 DEF RewriteInv, EventsServed, IsSave
<1>9. BehindMarked'
  BY <1>0, NothingIsTyped, KeptIsTyped DEF RewriteInv, BehindMarked, Begins, IsSave,
     SummariesMarked, LeftDeleted, ToDelete, RewriteTypes, Hist!SummaryCommitted
<1>10. MarkedBehind'
  BY <1>0, NothingIsTyped, KeptIsTyped DEF RewriteInv, MarkedBehind, Begins, IsSave, Behind,
     RewriteTypes, Hist!SummaryCommitted
<1>11. HeardInOrder'
  BY <1>0 DEF RewriteInv, HeardInOrder
<1>12. TurnsServed'
  BY <1>0, NothingIsTyped, KeptIsTyped DEF RewriteInv, TurnsServed, Hist!RewriteHonoured,
     Hist!RebasedOnce, Hist!NoTurn, RewriteTypes, Hist!SummaryCommitted
<1> QED BY <1>1, <1>2, <1>3, <1>4, <1>5, <1>6, <1>7, <1>8, <1>9, <1>10, <1>11, <1>12 DEF RewriteInv

LEMMA StepEndsKeepsHistory ==
    ASSUME RewriteConstants, RewriteInv, Hist!StepEnds PROVE RewriteInv'
<1>0. UNCHANGED <<era, copies, receipt, flag, histBound, convs, histDisk, gone, request, histKnown,
                  excused>>
  BY DEF Hist!StepEnds, Hist!Save
<1>1. histRun # Hist!NoRun /\ histBound # Hist!NoConv /\ histRun.conv = histBound /\ histRun.conv # Hist!NoConv /\ ~histRun.post
  BY DEF Hist!StepEnds, RewriteInv, OneConversation, MarkedBehind
<1>2. LET w == Hist!Save(histRun)
      IN  /\ w \in Writes /\ histLane' = Append(histLane, w) /\ histLane' \in Seq(Writes) /\ Len(histLane) \in Nat
          /\ DOMAIN histLane = 1..Len(histLane) /\ DOMAIN histLane' = 1..(Len(histLane) + 1)
          /\ \A i \in DOMAIN histLane : i \in DOMAIN histLane' /\ histLane'[i] = histLane[i]
          /\ histLane'[Len(histLane) + 1] = w
          /\ \A i \in DOMAIN histLane' : i \in DOMAIN histLane \/ i = Len(histLane) + 1
  BY WriteJoins DEF Hist!StepEnds, Hist!Save, RewriteInv, RewriteTypes, Writes, HistRuns
<1>3. \A c : ToDelete(c) => ToDelete(c)'
  BY <1>2 DEF ToDelete
<1>4. RewriteTypes'
  <2>1. histRun \in HistRuns
    BY DEF RewriteInv, RewriteTypes
  <2>2. histRun' \in HistRuns
    BY <2>1 DEF Hist!StepEnds, HistRuns
  <2>3. histTurn' \in HistTurns
    BY NothingIsTyped DEF Hist!StepEnds
  <2> QED BY <1>0, <1>2, <2>2, <2>3 DEF RewriteInv, RewriteTypes
<1>5. RewritesSoFar'
  BY <1>0, <1>1, <1>2, <1>3, NothingIsTyped, KeptIsTyped
     DEF RewriteInv, RewritesSoFar, SoFar, RewriteTypes, Hist!StepEnds, Hist!Save
<1>6. SummariesMarked'
  BY <1>0, <1>1, <1>2, <1>3, NothingIsTyped, KeptIsTyped
     DEF RewriteInv, SummariesMarked, IsSave, RewriteTypes, Hist!StepEnds, Hist!Save
<1>7. OneConversation'
  BY <1>0, <1>1, <1>2, <1>3, NothingIsTyped, KeptIsTyped
     DEF RewriteInv, OneConversation, IsSave, RewriteTypes, Hist!StepEnds, Hist!Save
<1>8. WritesInOrder'
  BY <1>0, <1>1, <1>2, <1>3, NothingIsTyped, KeptIsTyped
     DEF RewriteInv, WritesInOrder, IsSave, RewriteTypes, Hist!StepEnds, Hist!Save
<1>9. UnboundBehind'
  BY <1>0, <1>1, <1>2, <1>3, NothingIsTyped, KeptIsTyped
     DEF RewriteInv, UnboundBehind, RewriteTypes, Hist!StepEnds, Hist!Save
<1>10. LeftDeleted'
  BY <1>0, <1>1, <1>2, <1>3, NothingIsTyped, KeptIsTyped
     DEF RewriteInv, LeftDeleted, IsSave, Begins, RewriteTypes, Hist!StepEnds, Hist!Save
<1>11. EventsServed'
  BY <1>0, <1>1, <1>2, <1>3, NothingIsTyped, KeptIsTyped
     DEF RewriteInv, EventsServed, IsSave, RewriteTypes, Hist!StepEnds, Hist!Save
<1>12. BehindMarked'
  BY <1>0, <1>1, <1>2, <1>3, NothingIsTyped, KeptIsTyped
     DEF RewriteInv, BehindMarked, Begins, IsSave, RewriteTypes, Hist!StepEnds, Hist!Save
<1>13. MarkedBehind'
  BY <1>0, <1>1, <1>2, <1>3, NothingIsTyped, KeptIsTyped
     DEF RewriteInv, MarkedBehind, Begins, IsSave, Behind, RewriteTypes, Hist!StepEnds, Hist!Save
<1>14. HeardInOrder'
  BY <1>0 DEF RewriteInv, HeardInOrder
<1>15. TurnsServed'
  BY <1>0, <1>1, <1>2, <1>3, NothingIsTyped, KeptIsTyped
     DEF RewriteInv, TurnsServed, Hist!RewriteHonoured, Hist!RebasedOnce, Hist!NoTurn,
         RewriteTypes, Hist!StepEnds, Hist!Save
<1> QED BY <1>4, <1>5, <1>6, <1>7, <1>8, <1>9, <1>10, <1>11, <1>12, <1>13, <1>14, <1>15 DEF RewriteInv

LEMMA TurnEndsKeepsHistory ==
    ASSUME RewriteConstants, RewriteInv, Hist!TurnEnds PROVE RewriteInv'
<1>0. UNCHANGED <<era, copies, receipt, flag, histBound, convs, histDisk, gone, request, histKnown,
                  excused>>
  BY DEF Hist!TurnEnds, Hist!Save
<1>1. histRun # Hist!NoRun /\ histBound # Hist!NoConv /\ histRun.conv = histBound /\ histRun.conv # Hist!NoConv
  BY DEF Hist!TurnEnds, RewriteInv, OneConversation
<1>2. LET w == Hist!Save(histRun)
      IN  /\ w \in Writes /\ histLane' = Append(histLane, w) /\ histLane' \in Seq(Writes) /\ Len(histLane) \in Nat
          /\ DOMAIN histLane = 1..Len(histLane) /\ DOMAIN histLane' = 1..(Len(histLane) + 1)
          /\ \A i \in DOMAIN histLane : i \in DOMAIN histLane' /\ histLane'[i] = histLane[i]
          /\ histLane'[Len(histLane) + 1] = w
          /\ \A i \in DOMAIN histLane' : i \in DOMAIN histLane \/ i = Len(histLane) + 1
  BY WriteJoins DEF Hist!TurnEnds, Hist!Save, RewriteInv, RewriteTypes, Writes, HistRuns
<1>3. \A c : ToDelete(c) => ToDelete(c)'
  BY <1>2 DEF ToDelete
<1>4. RewriteTypes'
  BY <1>0, <1>1, <1>2, <1>3, NothingIsTyped, KeptIsTyped
     DEF RewriteInv, RewriteTypes, Seeds, HistRuns, HistTurns, Hist!TurnEnds, Hist!Save
<1>5. RewritesSoFar'
  BY <1>0, <1>1, <1>2, <1>3, NothingIsTyped, KeptIsTyped
     DEF RewriteInv, RewritesSoFar, SoFar, RewriteTypes, Hist!TurnEnds, Hist!Save
<1>6. SummariesMarked'
  BY <1>0, <1>1, <1>2, <1>3, NothingIsTyped, KeptIsTyped
     DEF RewriteInv, SummariesMarked, IsSave, RewriteTypes, Hist!TurnEnds, Hist!Save
<1>7. OneConversation'
  BY <1>0, <1>1, <1>2, <1>3, NothingIsTyped, KeptIsTyped
     DEF RewriteInv, OneConversation, IsSave, RewriteTypes, Hist!TurnEnds, Hist!Save
<1>8. WritesInOrder'
  BY <1>0, <1>1, <1>2, <1>3, NothingIsTyped, KeptIsTyped
     DEF RewriteInv, WritesInOrder, IsSave, RewriteTypes, Hist!TurnEnds, Hist!Save
<1>9. UnboundBehind'
  BY <1>0, <1>1, <1>2, <1>3, NothingIsTyped, KeptIsTyped
     DEF RewriteInv, UnboundBehind, RewriteTypes, Hist!TurnEnds, Hist!Save
<1>10. LeftDeleted'
  BY <1>0, <1>1, <1>2, <1>3, NothingIsTyped, KeptIsTyped
     DEF RewriteInv, LeftDeleted, IsSave, Begins, RewriteTypes, Hist!TurnEnds, Hist!Save
<1>11. EventsServed'
  BY <1>0, <1>1, <1>2, <1>3, NothingIsTyped, KeptIsTyped
     DEF RewriteInv, EventsServed, IsSave, RewriteTypes, Hist!TurnEnds, Hist!Save
<1>12. BehindMarked'
  BY <1>0, <1>1, <1>2, <1>3, NothingIsTyped, KeptIsTyped
     DEF RewriteInv, BehindMarked, Begins, IsSave, RewriteTypes, Hist!TurnEnds, Hist!Save
<1>13. MarkedBehind'
  BY <1>0, <1>1, <1>2, <1>3, NothingIsTyped, KeptIsTyped
     DEF RewriteInv, MarkedBehind, Begins, IsSave, Behind, RewriteTypes, Hist!TurnEnds, Hist!Save
<1>14. HeardInOrder'
  BY <1>0 DEF RewriteInv, HeardInOrder
<1>15. TurnsServed'
  BY <1>0, <1>1, <1>2, <1>3, NothingIsTyped, KeptIsTyped
     DEF RewriteInv, TurnsServed, Hist!RewriteHonoured, Hist!RebasedOnce, Hist!NoTurn,
         RewriteTypes, Hist!TurnEnds, Hist!Save
<1> QED BY <1>4, <1>5, <1>6, <1>7, <1>8, <1>9, <1>10, <1>11, <1>12, <1>13, <1>14, <1>15 DEF RewriteInv

LEMMA LateSaveKeepsHistory ==
    ASSUME RewriteConstants, RewriteInv, Hist!LateSave PROVE RewriteInv'
<1>0. UNCHANGED <<era, copies, receipt, flag, histBound, convs, histDisk, histRun, request,
                  histKnown, excused, histTurn>>
  BY DEF Hist!LateSave, Hist!Save
<1>1. gone.conv # Hist!NoConv /\ histBound # Hist!NoConv
  BY DEF Hist!LateSave, RewriteInv, OneConversation, UnboundBehind
<1>2. LET w == Hist!Save(gone)
      IN  /\ w \in Writes /\ histLane' = Append(histLane, w) /\ histLane' \in Seq(Writes) /\ Len(histLane) \in Nat
          /\ DOMAIN histLane = 1..Len(histLane) /\ DOMAIN histLane' = 1..(Len(histLane) + 1)
          /\ \A i \in DOMAIN histLane : i \in DOMAIN histLane' /\ histLane'[i] = histLane[i]
          /\ histLane'[Len(histLane) + 1] = w
          /\ \A i \in DOMAIN histLane' : i \in DOMAIN histLane \/ i = Len(histLane) + 1
  BY WriteJoins DEF Hist!LateSave, Hist!Save, RewriteInv, RewriteTypes, Writes, HistRuns
<1>3. \A c : ToDelete(c) => ToDelete(c)'
  BY <1>2 DEF ToDelete
<1>4. RewriteTypes'
  BY <1>0, <1>1, <1>2, <1>3, NothingIsTyped, KeptIsTyped
     DEF RewriteInv, RewriteTypes, Seeds, HistRuns, HistTurns, Hist!LateSave, Hist!Save
<1>5. RewritesSoFar'
  BY <1>0, <1>1, <1>2, <1>3, NothingIsTyped, KeptIsTyped
     DEF RewriteInv, RewritesSoFar, SoFar, RewriteTypes, Hist!LateSave, Hist!Save
<1>6. SummariesMarked'
  BY <1>0, <1>1, <1>2, <1>3, NothingIsTyped, KeptIsTyped
     DEF RewriteInv, SummariesMarked, IsSave, RewriteTypes, Hist!LateSave, Hist!Save
<1>7. OneConversation'
  BY <1>0, <1>1, <1>2, <1>3, NothingIsTyped, KeptIsTyped
     DEF RewriteInv, OneConversation, IsSave, RewriteTypes, Hist!LateSave, Hist!Save
<1>8. WritesInOrder'
  BY <1>0, <1>1, <1>2, <1>3, NothingIsTyped, KeptIsTyped
     DEF RewriteInv, WritesInOrder, IsSave, RewriteTypes, Hist!LateSave, Hist!Save
<1>9. UnboundBehind'
  BY <1>0, <1>1, <1>2, <1>3, NothingIsTyped, KeptIsTyped
     DEF RewriteInv, UnboundBehind, RewriteTypes, Hist!LateSave, Hist!Save
<1>10. LeftDeleted'
  BY <1>0, <1>1, <1>2, <1>3, NothingIsTyped, KeptIsTyped
     DEF RewriteInv, LeftDeleted, IsSave, Begins, RewriteTypes, Hist!LateSave, Hist!Save
<1>11. EventsServed'
  BY <1>0, <1>1, <1>2, <1>3, NothingIsTyped, KeptIsTyped
     DEF RewriteInv, EventsServed, IsSave, RewriteTypes, Hist!LateSave, Hist!Save
<1>12. BehindMarked'
  BY <1>0, <1>1, <1>2, <1>3, NothingIsTyped, KeptIsTyped
     DEF RewriteInv, BehindMarked, Begins, IsSave, RewriteTypes, Hist!LateSave, Hist!Save
<1>13. MarkedBehind'
  BY <1>0, <1>1, <1>2, <1>3, NothingIsTyped, KeptIsTyped
     DEF RewriteInv, MarkedBehind, Begins, IsSave, Behind, RewriteTypes, Hist!LateSave, Hist!Save
<1>14. HeardInOrder'
  BY <1>0 DEF RewriteInv, HeardInOrder
<1>15. TurnsServed'
  BY <1>0 DEF RewriteInv, TurnsServed, Hist!RewriteHonoured, Hist!RebasedOnce, Hist!NoTurn
<1> QED BY <1>4, <1>5, <1>6, <1>7, <1>8, <1>9, <1>10, <1>11, <1>12, <1>13, <1>14, <1>15 DEF RewriteInv

LEMMA AwaitsKeepsHistory ==
    ASSUME RewriteConstants, RewriteInv, Hist!Awaits PROVE RewriteInv'
<1>0. UNCHANGED <<era, copies, flag, histBound, convs, histDisk, histRun, gone, request, histKnown,
                  excused, histTurn>>
  BY DEF Hist!Awaits
<1>1. /\ receipt.pending /\ ~receipt.durable /\ ~receipt.saving
      /\ receipt' = [receipt EXCEPT !.saving = TRUE] /\ histLane' = Append(histLane, Hist!ReceiptWrite)
  BY DEF Hist!Awaits, Hist!MayPass, Hist!Saving, Hist!Queued, RewriteInv, RewriteTypes
<1>2. Hist!ReceiptWrite \in Writes
  BY NothingIsTyped DEF Hist!ReceiptWrite, Writes
<1>3. LET w == Hist!ReceiptWrite
      IN  /\ w \in Writes /\ histLane' = Append(histLane, w) /\ histLane' \in Seq(Writes) /\ Len(histLane) \in Nat
          /\ DOMAIN histLane = 1..Len(histLane) /\ DOMAIN histLane' = 1..(Len(histLane) + 1)
          /\ \A i \in DOMAIN histLane : i \in DOMAIN histLane' /\ histLane'[i] = histLane[i]
          /\ histLane'[Len(histLane) + 1] = w
          /\ \A i \in DOMAIN histLane' : i \in DOMAIN histLane \/ i = Len(histLane) + 1
  BY <1>1, <1>2, WriteJoins DEF RewriteInv, RewriteTypes
<1>4. \A c : ToDelete(c) => ToDelete(c)'
  BY <1>3 DEF ToDelete
<1>5. RewriteTypes'
  BY <1>0, <1>1, <1>2, <1>3, <1>4, NothingIsTyped, KeptIsTyped
     DEF RewriteInv, RewriteTypes, Hist!ReceiptWrite, Hist!Awaits
<1>6. RewritesSoFar'
  BY <1>0, <1>1, <1>2, <1>3, <1>4, NothingIsTyped, KeptIsTyped
     DEF RewriteInv, RewritesSoFar, SoFar, Hist!ReceiptWrite, RewriteTypes, Hist!Awaits
<1>7. SummariesMarked'
  BY <1>0, <1>1, <1>2, <1>3, <1>4, NothingIsTyped, KeptIsTyped
     DEF RewriteInv, SummariesMarked, IsSave, Hist!ReceiptWrite, RewriteTypes, Hist!Awaits
<1>8. OneConversation'
  BY <1>0, <1>1, <1>2, <1>3, <1>4, NothingIsTyped, KeptIsTyped
     DEF RewriteInv, OneConversation, IsSave, Hist!ReceiptWrite, RewriteTypes, Hist!Awaits
<1>9. WritesInOrder'
  BY <1>0, <1>1, <1>2, <1>3, <1>4, NothingIsTyped, KeptIsTyped
     DEF RewriteInv, WritesInOrder, IsSave, Hist!ReceiptWrite, RewriteTypes, Hist!Awaits
<1>10. UnboundBehind'
  BY <1>0, <1>1, <1>2, <1>3, <1>4, NothingIsTyped, KeptIsTyped
     DEF RewriteInv, UnboundBehind, Hist!ReceiptWrite, RewriteTypes, Hist!Awaits
<1>11. LeftDeleted'
  BY <1>0, <1>1, <1>2, <1>3, <1>4, NothingIsTyped, KeptIsTyped
     DEF RewriteInv, LeftDeleted, IsSave, Begins, Hist!ReceiptWrite, RewriteTypes, Hist!Awaits
<1>12. EventsServed'
  BY <1>0, <1>1, <1>2, <1>3, <1>4, NothingIsTyped, KeptIsTyped
     DEF RewriteInv, EventsServed, IsSave, Hist!ReceiptWrite, RewriteTypes, Hist!Awaits
<1>13. BehindMarked'
  BY <1>0, <1>1, <1>2, <1>3, <1>4, NothingIsTyped, KeptIsTyped
     DEF RewriteInv, BehindMarked, Begins, IsSave, Hist!ReceiptWrite, RewriteTypes, Hist!Awaits
<1>14. MarkedBehind'
  BY <1>0, <1>1, <1>2, <1>3, <1>4, NothingIsTyped, KeptIsTyped
     DEF RewriteInv, MarkedBehind, Begins, IsSave, Behind, Hist!ReceiptWrite, RewriteTypes, Hist!Awaits
<1>15. HeardInOrder'
  BY <1>0, <1>1, <1>2, <1>3, <1>4, NothingIsTyped, KeptIsTyped
     DEF RewriteInv, HeardInOrder, Hist!ReceiptWrite, RewriteTypes, Hist!Awaits
<1>16. TurnsServed'
  BY <1>0 DEF RewriteInv, TurnsServed, Hist!RewriteHonoured, Hist!RebasedOnce, Hist!NoTurn
<1> QED BY <1>5, <1>6, <1>7, <1>8, <1>9, <1>10, <1>11, <1>12, <1>13, <1>14, <1>15, <1>16 DEF RewriteInv

LEMMA SaveLandsKeepsHistory ==
    ASSUME RewriteConstants, RewriteInv, Hist!SaveLands PROVE RewriteInv'
<1>0. UNCHANGED <<era, copies, receipt, flag, histBound, convs, histRun, gone, request, histKnown,
                  excused, histTurn>>
  BY DEF Hist!SaveLands
<1>1. /\ histLane' = Tail(histLane) /\ histLane' \in Seq(Writes) /\ Head(histLane) = histLane[1] /\ histLane[1] \in Writes
      /\ 1 \in DOMAIN histLane /\ Len(histLane) \in Nat \ {0} /\ DOMAIN histLane = 1..Len(histLane)
      /\ DOMAIN histLane' = 1..(Len(histLane) - 1)
      /\ \A i \in DOMAIN histLane' : i + 1 \in DOMAIN histLane /\ histLane'[i] = histLane[i + 1]
      /\ \A i \in DOMAIN histLane : i = 1 \/ (i - 1 \in DOMAIN histLane' /\ histLane'[i - 1] = histLane[i])
  BY WriteLeaves DEF RewriteInv, RewriteTypes, Hist!SaveLands
<1>2. /\ histBound # Hist!NoConv /\ Begins(histLane[1]) /\ histLane[1].conv # Hist!NoConv /\ histLane[1].kind # "delete"
  BY <1>1 DEF Hist!SaveLands, Begins, IsSave, RewriteInv, UnboundBehind, WritesInOrder
<1>3. \A c : ToDelete(c) => ToDelete(c)'
  BY <1>1, <1>2 DEF ToDelete
<1>4. /\ histDisk'.conv = histLane[1].conv /\ histDisk'.post = histLane[1].post /\ histLane[1].kind = "save" /\ histLane[1].begun
      /\ histDisk' \in [conv : Seeds, post : BOOLEAN]
  BY <1>1 DEF Hist!SaveLands, Writes
<1>5. RewriteTypes'
  BY <1>0, <1>1, <1>2, <1>3, <1>4, NothingIsTyped, KeptIsTyped DEF RewriteInv, RewriteTypes
<1>6. RewritesSoFar'
  <2>1. SoFar(histDisk'.conv)
    BY <1>1, <1>4 DEF RewriteInv, RewritesSoFar
  <2> QED BY <2>1, <1>0, <1>1 DEF RewriteInv, RewritesSoFar, SoFar
<1>7. SummariesMarked'
  <2>1. histDisk'.conv.summary => histDisk'.post
    BY <1>1, <1>4 DEF RewriteInv, SummariesMarked, IsSave
  <2>2. \A i \in DOMAIN histLane' : IsSave(histLane'[i]) /\ histLane'[i].conv.summary => histLane'[i].post
    BY <1>1 DEF RewriteInv, SummariesMarked
  <2> QED BY <1>0, <2>1, <2>2 DEF RewriteInv, SummariesMarked
<1>8. OneConversation'
  BY <1>0, <1>1, <1>2, <1>3, <1>4, NothingIsTyped, KeptIsTyped
     DEF RewriteInv, OneConversation, IsSave, RewriteTypes
<1>9. WritesInOrder'
  BY <1>0, <1>1, <1>2, <1>3, <1>4, NothingIsTyped, KeptIsTyped
     DEF RewriteInv, WritesInOrder, IsSave, RewriteTypes
<1>10. UnboundBehind'
  BY <1>0, <1>1, <1>2, <1>3, <1>4, NothingIsTyped, KeptIsTyped DEF RewriteInv, UnboundBehind, RewriteTypes
<1>11. LeftDeleted'
  BY <1>0, <1>1, <1>2, <1>3, <1>4, NothingIsTyped, KeptIsTyped
     DEF RewriteInv, LeftDeleted, IsSave, Begins, RewriteTypes
<1>12. EventsServed'
  BY <1>0, <1>1, <1>2, <1>3, <1>4, NothingIsTyped, KeptIsTyped
     DEF RewriteInv, EventsServed, IsSave, RewriteTypes
<1>13. BehindMarked'
  BY <1>0, <1>1, <1>2, <1>3, <1>4, NothingIsTyped, KeptIsTyped
     DEF RewriteInv, BehindMarked, Begins, IsSave, RewriteTypes
<1>14. MarkedBehind'
  <2>1. histDisk'.post => Behind(histDisk'.conv) \/ histDisk'.conv # histBound
    BY <1>1, <1>2, <1>4 DEF RewriteInv, MarkedBehind
  <2>2. \A i \in DOMAIN histLane' : Begins(histLane'[i]) /\ histLane'[i].post =>
          Behind(histLane'[i].conv) \/ histLane'[i].conv # histBound
    BY <1>1 DEF RewriteInv, MarkedBehind
  <2>3. \A i \in DOMAIN histLane' : IsSave(histLane'[i]) /\ histLane'[i].post /\ ~histLane'[i].begun =>
          histLane'[i].conv.summary
    BY <1>1 DEF RewriteInv, MarkedBehind
  <2>4. UNCHANGED <<receipt, flag, histBound, histRun, gone>> /\ \A c : Behind(c)' = Behind(c)
    BY <1>0 DEF Behind
  <2>5. \A w : Begins(w)' = Begins(w) /\ IsSave(w)' = IsSave(w)
    BY DEF Begins, IsSave
  <2> QED BY <1>2, <2>1, <2>2, <2>3, <2>4, <2>5 DEF RewriteInv, MarkedBehind
<1>15. HeardInOrder'
  BY <1>0 DEF RewriteInv, HeardInOrder
<1>16. TurnsServed'
  BY <1>0 DEF RewriteInv, TurnsServed, Hist!RewriteHonoured, Hist!RebasedOnce, Hist!NoTurn
<1> QED BY <1>5, <1>6, <1>7, <1>8, <1>9, <1>10, <1>11, <1>12, <1>13, <1>14, <1>15, <1>16 DEF RewriteInv

LEMMA SaveFailsKeepsHistory ==
    ASSUME RewriteConstants, RewriteInv, Hist!SaveFails PROVE RewriteInv'
<1>0. UNCHANGED <<era, copies, receipt, flag, histBound, convs, histRun, gone, request, histKnown,
                  excused, histTurn>>
  BY DEF Hist!SaveFails
<1>1. /\ histLane' = Tail(histLane) /\ histLane' \in Seq(Writes) /\ Head(histLane) = histLane[1] /\ histLane[1] \in Writes
      /\ 1 \in DOMAIN histLane /\ Len(histLane) \in Nat \ {0} /\ DOMAIN histLane = 1..Len(histLane)
      /\ DOMAIN histLane' = 1..(Len(histLane) - 1)
      /\ \A i \in DOMAIN histLane' : i + 1 \in DOMAIN histLane /\ histLane'[i] = histLane[i + 1]
      /\ \A i \in DOMAIN histLane : i = 1 \/ (i - 1 \in DOMAIN histLane' /\ histLane'[i - 1] = histLane[i])
  BY WriteLeaves DEF RewriteInv, RewriteTypes, Hist!SaveFails
<1>2. /\ histBound # Hist!NoConv /\ Begins(histLane[1]) /\ histLane[1].kind # "delete"
  BY <1>1 DEF Hist!SaveFails, Begins, IsSave, RewriteInv, UnboundBehind
<1>3. \A c : ToDelete(c) => ToDelete(c)'
  BY <1>1, <1>2 DEF ToDelete
<1>4. histDisk' = Hist!NoSnapshot
  BY DEF Hist!SaveFails
<1>5. RewriteTypes'
  BY <1>0, <1>1, <1>2, <1>3, <1>4, NothingIsTyped, KeptIsTyped
     DEF RewriteInv, RewriteTypes, Seeds, HistRuns, HistTurns
<1>6. RewritesSoFar'
  BY <1>0, <1>1, <1>2, <1>3, <1>4, NothingIsTyped, KeptIsTyped
     DEF RewriteInv, RewritesSoFar, SoFar, RewriteTypes
<1>7. SummariesMarked'
  BY <1>0, <1>1, <1>2, <1>3, <1>4, NothingIsTyped, KeptIsTyped
     DEF RewriteInv, SummariesMarked, IsSave, RewriteTypes
<1>8. OneConversation'
  BY <1>0, <1>1, <1>2, <1>3, <1>4, NothingIsTyped, KeptIsTyped
     DEF RewriteInv, OneConversation, IsSave, RewriteTypes
<1>9. WritesInOrder'
  BY <1>0, <1>1, <1>2, <1>3, <1>4, NothingIsTyped, KeptIsTyped
     DEF RewriteInv, WritesInOrder, IsSave, RewriteTypes
<1>10. UnboundBehind'
  BY <1>0, <1>1, <1>2, <1>3, <1>4, NothingIsTyped, KeptIsTyped DEF RewriteInv, UnboundBehind, RewriteTypes
<1>11. LeftDeleted'
  BY <1>0, <1>1, <1>2, <1>3, <1>4, NothingIsTyped, KeptIsTyped
     DEF RewriteInv, LeftDeleted, IsSave, Begins, RewriteTypes
<1>12. EventsServed'
  BY <1>0, <1>1, <1>2, <1>3, <1>4, NothingIsTyped, KeptIsTyped
     DEF RewriteInv, EventsServed, IsSave, RewriteTypes
<1>13. BehindMarked'
  BY <1>0, <1>1, <1>2, <1>3, <1>4, NothingIsTyped, KeptIsTyped
     DEF RewriteInv, BehindMarked, Begins, IsSave, RewriteTypes
<1>14. MarkedBehind'
  BY <1>0, <1>1, <1>2, <1>3, <1>4, NothingIsTyped, KeptIsTyped
     DEF RewriteInv, MarkedBehind, Begins, IsSave, Behind, RewriteTypes
<1>15. HeardInOrder'
  BY <1>0 DEF RewriteInv, HeardInOrder
<1>16. TurnsServed'
  BY <1>0 DEF RewriteInv, TurnsServed, Hist!RewriteHonoured, Hist!RebasedOnce, Hist!NoTurn
<1> QED BY <1>5, <1>6, <1>7, <1>8, <1>9, <1>10, <1>11, <1>12, <1>13, <1>14, <1>15, <1>16 DEF RewriteInv

LEMMA ReceiptLandsKeepsHistory ==
    ASSUME RewriteConstants, RewriteInv, Hist!ReceiptLands PROVE RewriteInv'
<1>0. UNCHANGED <<era, copies, flag, histBound, convs, histRun, gone, request, excused, histTurn>>
  BY DEF Hist!ReceiptLands
<1>1. /\ histLane' = Tail(histLane) /\ histLane' \in Seq(Writes) /\ Head(histLane) = histLane[1] /\ histLane[1] \in Writes
      /\ 1 \in DOMAIN histLane /\ Len(histLane) \in Nat \ {0} /\ DOMAIN histLane = 1..Len(histLane)
      /\ DOMAIN histLane' = 1..(Len(histLane) - 1)
      /\ \A i \in DOMAIN histLane' : i + 1 \in DOMAIN histLane /\ histLane'[i] = histLane[i + 1]
      /\ \A i \in DOMAIN histLane : i = 1 \/ (i - 1 \in DOMAIN histLane' /\ histLane'[i - 1] = histLane[i])
  BY WriteLeaves DEF RewriteInv, RewriteTypes, Hist!ReceiptLands
<1>2. /\ receipt' = [receipt EXCEPT !.durable = TRUE, !.saving = FALSE] /\ receipt.event # 0
      /\ histDisk'.conv = histDisk.conv /\ (histDisk = Hist!NoSnapshot
            => histDisk' = Hist!NoSnapshot) /\ (histDisk # Hist!NoSnapshot
                  => histDisk'.post /\ histDisk' # Hist!NoSnapshot)
      /\ histDisk' \in [conv : Seeds, post : BOOLEAN] /\ histLane[1].kind = "receipt"
  BY <1>1, NothingIsTyped DEF Hist!ReceiptLands, Hist!Marked, RewriteInv, RewriteTypes, WritesInOrder
<1>3. \A i \in DOMAIN histLane' : ~histLane'[i].begun
  BY <1>1 DEF RewriteInv, WritesInOrder
<1>4. \A c : ToDelete(c) /\ histLane[1].kind # "delete" => ToDelete(c)'
  BY <1>1 DEF ToDelete
<1>5. RewriteTypes'
  BY <1>0, <1>1, <1>2, <1>3, <1>4, NothingIsTyped, KeptIsTyped
     DEF RewriteInv, RewriteTypes, Hist!ReceiptLands
<1>6. RewritesSoFar'
  BY <1>0, <1>1, <1>2, <1>3, <1>4, NothingIsTyped, KeptIsTyped
     DEF RewriteInv, RewritesSoFar, SoFar, RewriteTypes, Hist!ReceiptLands
<1>7. SummariesMarked'
  BY <1>0, <1>1, <1>2, <1>3, <1>4, NothingIsTyped, KeptIsTyped
     DEF RewriteInv, SummariesMarked, IsSave, RewriteTypes, Hist!ReceiptLands
<1>8. OneConversation'
  BY <1>0, <1>1, <1>2, <1>3, <1>4, NothingIsTyped, KeptIsTyped
     DEF RewriteInv, OneConversation, IsSave, RewriteTypes, Hist!ReceiptLands
<1>9. WritesInOrder'
  BY <1>0, <1>1, <1>2, <1>3, <1>4, NothingIsTyped, KeptIsTyped
     DEF RewriteInv, WritesInOrder, IsSave, RewriteTypes, Hist!ReceiptLands
<1>10. UnboundBehind'
  BY <1>0, <1>1, <1>2, <1>3, <1>4, NothingIsTyped, KeptIsTyped
     DEF RewriteInv, UnboundBehind, OneConversation, RewriteTypes, Hist!ReceiptLands
<1>11. LeftDeleted'
  BY <1>0, <1>1, <1>2, <1>3, <1>4, NothingIsTyped, KeptIsTyped
     DEF RewriteInv, LeftDeleted, IsSave, Begins, RewriteTypes, Hist!ReceiptLands
<1>12. EventsServed'
  BY <1>0, <1>1, <1>2, <1>3, <1>4, NothingIsTyped, KeptIsTyped
     DEF RewriteInv, EventsServed, IsSave, RewriteTypes, Hist!ReceiptLands
<1>13. BehindMarked'
  BY <1>0, <1>1, <1>2, <1>3, <1>4, NothingIsTyped, KeptIsTyped
     DEF RewriteInv, BehindMarked, Begins, IsSave, EventsServed, OneConversation, RewriteTypes,
         Hist!ReceiptLands
<1>14. MarkedBehind'
  BY <1>0, <1>1, <1>2, <1>3, <1>4, NothingIsTyped, KeptIsTyped
     DEF RewriteInv, MarkedBehind, Begins, IsSave, Behind, UnboundBehind, EventsServed,
         RewritesSoFar, OneConversation, RewriteTypes, Hist!ReceiptLands
<1>15. HeardInOrder'
  BY <1>0, <1>1, <1>2, <1>3, <1>4, NothingIsTyped, KeptIsTyped
     DEF RewriteInv, HeardInOrder, RewriteTypes, Hist!ReceiptLands
<1>16. TurnsServed'
  BY <1>0 DEF RewriteInv, TurnsServed, Hist!RewriteHonoured, Hist!RebasedOnce, Hist!NoTurn
<1> QED BY <1>5, <1>6, <1>7, <1>8, <1>9, <1>10, <1>11, <1>12, <1>13, <1>14, <1>15, <1>16 DEF RewriteInv

LEMMA ReceiptFailsKeepsHistory ==
    ASSUME RewriteConstants, RewriteInv, Hist!ReceiptFails PROVE RewriteInv'
<1>0. UNCHANGED <<era, copies, flag, histBound, convs, histDisk, histRun, gone, histKnown, excused,
                  histTurn>>
  BY DEF Hist!ReceiptFails
<1>1. /\ histLane' = Tail(histLane) /\ histLane' \in Seq(Writes) /\ Head(histLane) = histLane[1] /\ histLane[1] \in Writes
      /\ 1 \in DOMAIN histLane /\ Len(histLane) \in Nat \ {0} /\ DOMAIN histLane = 1..Len(histLane)
      /\ DOMAIN histLane' = 1..(Len(histLane) - 1)
      /\ \A i \in DOMAIN histLane' : i + 1 \in DOMAIN histLane /\ histLane'[i] = histLane[i + 1]
      /\ \A i \in DOMAIN histLane : i = 1 \/ (i - 1 \in DOMAIN histLane' /\ histLane'[i - 1] = histLane[i])
  BY WriteLeaves DEF RewriteInv, RewriteTypes, Hist!ReceiptFails
<1>2. receipt' = [receipt EXCEPT !.saving = FALSE] /\ histLane[1].kind = "receipt"
  BY <1>1 DEF Hist!ReceiptFails, RewriteInv, RewriteTypes
<1>3. \A c : ToDelete(c) /\ histLane[1].kind # "delete" => ToDelete(c)'
  BY <1>1 DEF ToDelete
<1>4. RewriteTypes'
  BY <1>0, <1>1, <1>2, <1>3, NothingIsTyped, KeptIsTyped DEF RewriteInv, RewriteTypes, Hist!ReceiptFails
<1>5. RewritesSoFar'
  BY <1>0, <1>1, <1>2, <1>3, NothingIsTyped, KeptIsTyped
     DEF RewriteInv, RewritesSoFar, SoFar, RewriteTypes, Hist!ReceiptFails
<1>6. SummariesMarked'
  BY <1>0, <1>1, <1>2, <1>3, NothingIsTyped, KeptIsTyped
     DEF RewriteInv, SummariesMarked, IsSave, RewriteTypes, Hist!ReceiptFails
<1>7. OneConversation'
  BY <1>0, <1>1, <1>2, <1>3, NothingIsTyped, KeptIsTyped
     DEF RewriteInv, OneConversation, IsSave, RewriteTypes, Hist!ReceiptFails
<1>8. WritesInOrder'
  BY <1>0, <1>1, <1>2, <1>3, NothingIsTyped, KeptIsTyped
     DEF RewriteInv, WritesInOrder, IsSave, RewriteTypes, Hist!ReceiptFails
<1>9. UnboundBehind'
  BY <1>0, <1>1, <1>2, <1>3, NothingIsTyped, KeptIsTyped
     DEF RewriteInv, UnboundBehind, RewriteTypes, Hist!ReceiptFails
<1>10. LeftDeleted'
  BY <1>0, <1>1, <1>2, <1>3, NothingIsTyped, KeptIsTyped
     DEF RewriteInv, LeftDeleted, IsSave, Begins, RewriteTypes, Hist!ReceiptFails
<1>11. EventsServed'
  BY <1>0, <1>1, <1>2, <1>3, NothingIsTyped, KeptIsTyped
     DEF RewriteInv, EventsServed, IsSave, RewriteTypes, Hist!ReceiptFails
<1>12. BehindMarked'
  BY <1>0, <1>1, <1>2, <1>3, NothingIsTyped, KeptIsTyped
     DEF RewriteInv, BehindMarked, Begins, IsSave, RewriteTypes, Hist!ReceiptFails
<1>13. MarkedBehind'
  BY <1>0, <1>1, <1>2, <1>3, NothingIsTyped, KeptIsTyped
     DEF RewriteInv, MarkedBehind, Begins, IsSave, Behind, RewriteTypes, Hist!ReceiptFails
<1>14. HeardInOrder'
  BY <1>0, <1>1, <1>2, <1>3, NothingIsTyped, KeptIsTyped
     DEF RewriteInv, HeardInOrder, RewriteTypes, Hist!ReceiptFails
<1>15. TurnsServed'
  BY <1>0, <1>1, <1>2, <1>3, NothingIsTyped, KeptIsTyped
     DEF RewriteInv, TurnsServed, Hist!RewriteHonoured, Hist!RebasedOnce, Hist!NoTurn,
         RewriteTypes, Hist!ReceiptFails
<1> QED BY <1>4, <1>5, <1>6, <1>7, <1>8, <1>9, <1>10, <1>11, <1>12, <1>13, <1>14, <1>15 DEF RewriteInv

LEMMA DeletedKeepsHistory ==
    ASSUME RewriteConstants, RewriteInv, Hist!Deleted PROVE RewriteInv'
<1>0. UNCHANGED <<era, copies, receipt, flag, histBound, convs, histRun, gone, request, histKnown,
                  excused, histTurn>>
  BY DEF Hist!Deleted
<1>1. /\ histLane' = Tail(histLane) /\ histLane' \in Seq(Writes) /\ Head(histLane) = histLane[1] /\ histLane[1] \in Writes
      /\ 1 \in DOMAIN histLane /\ Len(histLane) \in Nat \ {0} /\ DOMAIN histLane = 1..Len(histLane)
      /\ DOMAIN histLane' = 1..(Len(histLane) - 1)
      /\ \A i \in DOMAIN histLane' : i + 1 \in DOMAIN histLane /\ histLane'[i] = histLane[i + 1]
      /\ \A i \in DOMAIN histLane : i = 1 \/ (i - 1 \in DOMAIN histLane' /\ histLane'[i - 1] = histLane[i])
  BY WriteLeaves DEF RewriteInv, RewriteTypes, Hist!Deleted
<1>2. /\ histLane[1].kind = "delete" /\ histBound # Hist!NoConv /\ histDisk' \in {histDisk, Hist!NoSnapshot} /\ (histLane[1].conv \in {Hist!NoConv, histDisk.conv} => histDisk' = Hist!NoSnapshot)
      /\ histDisk'.conv \in {histDisk.conv, Hist!NoConv} /\ histDisk' \in [conv : Seeds, post : BOOLEAN]
      /\ (histDisk'.post => histDisk' = histDisk)
  BY <1>1, NothingIsTyped DEF Hist!Deleted, RewriteInv, UnboundBehind, RewriteTypes
<1>3. \A i \in DOMAIN histLane' : ~histLane'[i].begun
  BY <1>1 DEF RewriteInv, WritesInOrder, IsSave
<1>4. \A c : ToDelete(c) /\ histLane[1].conv \notin {Hist!NoConv, c} => ToDelete(c)'
  BY <1>1 DEF ToDelete
<1>5. RewriteTypes'
  BY <1>0, <1>1, <1>2, <1>3, <1>4, NothingIsTyped, KeptIsTyped DEF RewriteInv, RewriteTypes
<1>6. RewritesSoFar'
  BY <1>0, <1>1, <1>2, <1>3, <1>4, NothingIsTyped, KeptIsTyped
     DEF RewriteInv, RewritesSoFar, SoFar, RewriteTypes
<1>7. SummariesMarked'
  BY <1>0, <1>1, <1>2, <1>3, <1>4, NothingIsTyped, KeptIsTyped
     DEF RewriteInv, SummariesMarked, IsSave, RewriteTypes
<1>8. OneConversation'
  BY <1>0, <1>1, <1>2, <1>3, <1>4, NothingIsTyped, KeptIsTyped
     DEF RewriteInv, OneConversation, IsSave, RewriteTypes
<1>9. WritesInOrder'
  BY <1>0, <1>1, <1>2, <1>3, <1>4, NothingIsTyped, KeptIsTyped
     DEF RewriteInv, WritesInOrder, IsSave, RewriteTypes
<1>10. UnboundBehind'
  BY <1>0, <1>1, <1>2, <1>3, <1>4, NothingIsTyped, KeptIsTyped DEF RewriteInv, UnboundBehind, RewriteTypes
<1>11. LeftDeleted'
  BY <1>0, <1>1, <1>2, <1>3, <1>4, NothingIsTyped, KeptIsTyped
     DEF RewriteInv, LeftDeleted, IsSave, Begins, RewriteTypes
<1>12. EventsServed'
  BY <1>0, <1>1, <1>2, <1>3, <1>4, NothingIsTyped, KeptIsTyped
     DEF RewriteInv, EventsServed, IsSave, RewriteTypes
<1>13. BehindMarked'
  BY <1>0, <1>1, <1>2, <1>3, <1>4, NothingIsTyped, KeptIsTyped
     DEF RewriteInv, BehindMarked, Begins, IsSave, RewriteTypes
<1>14. MarkedBehind'
  BY <1>0, <1>1, <1>2, <1>3, <1>4, NothingIsTyped, KeptIsTyped
     DEF RewriteInv, MarkedBehind, Begins, IsSave, Behind, RewriteTypes
<1>15. HeardInOrder'
  BY <1>0 DEF RewriteInv, HeardInOrder
<1>16. TurnsServed'
  BY <1>0 DEF RewriteInv, TurnsServed, Hist!RewriteHonoured, Hist!RebasedOnce, Hist!NoTurn
<1> QED BY <1>5, <1>6, <1>7, <1>8, <1>9, <1>10, <1>11, <1>12, <1>13, <1>14, <1>15, <1>16 DEF RewriteInv

LEMMA RestartsKeepsHistory ==
    ASSUME RewriteConstants, RewriteInv, Hist!Restarts PROVE RewriteInv'
<1>0. UNCHANGED <<era, convs, histDisk, histKnown>>
  BY DEF Hist!Restarts
<1>1. /\ histLane' = <<>> /\ histLane' \in Seq(Writes) /\ DOMAIN histLane' = {} /\ receipt' = Hist!NoReceipt /\ flag' = FALSE /\ histBound' = Hist!NoConv
      /\ histRun' = Hist!NoRun /\ gone' = Hist!NoRun /\ request' = "idle" /\ histTurn' = Hist!NoTurn
  BY DEF Hist!Restarts
<1>2. copies' \in [1..MaxRewrites -> Nat] /\ \A e \in 1..MaxRewrites : copies'[e] = 0
  BY DEF Hist!Restarts, RewriteInv, RewriteTypes
<1>3. excused' \in BOOLEAN /\ (excused => excused') /\ \A c : ToDelete(c) => excused'
  BY DEF Hist!Restarts, RewriteInv, RewriteTypes, ToDelete
<1>4. RewriteTypes'
  BY <1>0, <1>1, <1>2, <1>3, NothingIsTyped, KeptIsTyped DEF RewriteInv, RewriteTypes
<1>5. RewritesSoFar'
  BY <1>0, <1>1, <1>2, <1>3, NothingIsTyped, KeptIsTyped DEF RewriteInv, RewritesSoFar, SoFar, RewriteTypes
<1>6. SummariesMarked'
  BY <1>0, <1>1, <1>2, <1>3, NothingIsTyped, KeptIsTyped
     DEF RewriteInv, SummariesMarked, IsSave, RewriteTypes
<1>7. OneConversation'
  BY <1>0, <1>1, <1>2, <1>3, NothingIsTyped, KeptIsTyped
     DEF RewriteInv, OneConversation, IsSave, RewriteTypes
<1>8. WritesInOrder'
  BY <1>0, <1>1, <1>2, <1>3, NothingIsTyped, KeptIsTyped DEF RewriteInv, WritesInOrder, IsSave, RewriteTypes
<1>9. UnboundBehind'
  BY <1>0, <1>1, <1>2, <1>3, NothingIsTyped, KeptIsTyped DEF RewriteInv, UnboundBehind, RewriteTypes
<1>10. LeftDeleted'
  BY <1>0, <1>1, <1>2, <1>3, NothingIsTyped, KeptIsTyped
     DEF RewriteInv, LeftDeleted, ToDelete, IsSave, Begins, RewriteTypes
<1>11. EventsServed'
  BY <1>0, <1>1, <1>2, <1>3, NothingIsTyped, KeptIsTyped DEF RewriteInv, EventsServed, IsSave, RewriteTypes
<1>12. BehindMarked'
  BY <1>0, <1>1, <1>2, <1>3, NothingIsTyped, KeptIsTyped
     DEF RewriteInv, BehindMarked, Begins, IsSave, RewriteTypes
<1>13. MarkedBehind'
  BY <1>0, <1>1, <1>2, <1>3, NothingIsTyped, KeptIsTyped
     DEF RewriteInv, MarkedBehind, Begins, IsSave, Behind, LeftDeleted, RewriteTypes
<1>14. HeardInOrder'
  BY <1>2 DEF HeardInOrder, RewriteConstants
<1>15. TurnsServed'
  BY <1>0, <1>1, <1>2, <1>3, NothingIsTyped, KeptIsTyped
     DEF RewriteInv, TurnsServed, Hist!RewriteHonoured, Hist!RebasedOnce, RewriteTypes
<1> QED BY <1>4, <1>5, <1>6, <1>7, <1>8, <1>9, <1>10, <1>11, <1>12, <1>13, <1>14, <1>15 DEF RewriteInv

LEMMA EventHeardKeepsHistory ==
    ASSUME RewriteConstants, RewriteInv, NEW e \in 1..MaxRewrites, Hist!EventHeard(e) PROVE RewriteInv'
<1>0. UNCHANGED <<era, flag, histBound, convs, histDisk, histRun, gone, request, histKnown, histTurn>>
  BY DEF Hist!EventHeard
<1>1. e \in Nat \ {0} /\ e <= era /\ copies[e] > 0
  BY DEF Hist!EventHeard, RewriteInv, RewriteTypes, RewritesSoFar, RewriteConstants
<1>2. /\ copies' \in [1..MaxRewrites -> Nat] /\ copies'[e] = copies[e] - 1
      /\ \A f \in 1..MaxRewrites : f # e => copies'[f] = copies[f]
  BY DEF Hist!EventHeard, RewriteInv, RewriteTypes
<1>3. \/ receipt.event = e /\ \E saves \in BOOLEAN : receipt' = [receipt EXCEPT !.saving = saves]
      \/ receipt.event # e /\ receipt' = [event |-> e, pending |-> TRUE, durable |-> FALSE, saving |-> TRUE]
  BY DEF Hist!EventHeard, Hist!Noted, Hist!Saving, RewriteInv, RewriteTypes
<1>4. receipt' \in [event : Nat, pending : BOOLEAN, durable : BOOLEAN, saving : BOOLEAN]
  <2>1. receipt \in [event : Nat, pending : BOOLEAN, durable : BOOLEAN, saving : BOOLEAN]
    BY DEF RewriteInv, RewriteTypes
  <2>2. \A saves \in BOOLEAN :
           [receipt EXCEPT !.saving = saves] \in [event : Nat, pending : BOOLEAN, durable : BOOLEAN, saving : BOOLEAN]
    BY <2>1
  <2>3. CASE receipt.event = e
    BY <2>2, <2>3, <1>3
  <2>4. CASE receipt.event # e
    <3>1. receipt' = [event |-> e, pending |-> TRUE, durable |-> FALSE, saving |-> TRUE]
      BY <2>4, <1>3
    <3> QED BY <3>1, <1>1
  <2> QED BY <2>3, <2>4
<1>5. /\ receipt'.event = e
      /\ receipt.event # e => receipt'.pending /\ ~receipt'.durable
      /\ receipt.event = e => receipt'.pending = receipt.pending /\ receipt'.durable = receipt.durable
  BY <1>3 DEF RewriteInv, RewriteTypes
<1>6. histLane' = histLane \/ (receipt'.pending /\ histLane' = Append(histLane, Hist!ReceiptWrite))
  <2>1. CASE receipt.event # e
    BY <2>1, <1>3 DEF Hist!EventHeard, Hist!Noted, Hist!Queued
  <2>2. CASE receipt.event = e
    <3>1. histLane' = Hist!Queued(receipt)
      BY <2>2 DEF Hist!EventHeard, Hist!Noted
    <3>2. ~receipt.pending => receipt.durable
      BY <2>2, <1>1 DEF RewriteInv, EventsServed
    <3>3. receipt'.pending = receipt.pending
      BY <2>2, <1>3 DEF RewriteInv, RewriteTypes
    <3>4. receipt.pending \in BOOLEAN
      BY DEF RewriteInv, RewriteTypes
    <3> QED BY <3>1, <3>2, <3>3, <3>4 DEF Hist!Queued
  <2> QED BY <2>1, <2>2
<1>7. Hist!ReceiptWrite \in Writes /\ Hist!ReceiptWrite.kind = "receipt" /\ ~Hist!ReceiptWrite.begun /\ Hist!ReceiptWrite.conv = Hist!NoConv
  BY NothingIsTyped DEF Hist!ReceiptWrite, Writes
<1>8. /\ histLane' \in Seq(Writes) /\ Len(histLane) \in Nat /\ DOMAIN histLane = 1..Len(histLane)
      /\ \A i \in DOMAIN histLane : i \in DOMAIN histLane' /\ histLane'[i] = histLane[i]
      /\ \A i \in DOMAIN histLane' : i \in DOMAIN histLane
            \/ (receipt'.pending /\ histLane'[i] = Hist!ReceiptWrite /\ i = Len(histLane) + 1)
  BY <1>6, <1>7, WriteJoins, KeptIsTyped DEF RewriteInv, RewriteTypes
<1>9. \A c : ToDelete(c) => ToDelete(c)'
  BY <1>8 DEF ToDelete
<1>10. excused' \in BOOLEAN /\ (excused
           => excused') /\ (copies[e] = MaxCopies /\ histBound.era >= e => excused')
  BY DEF Hist!EventHeard, RewriteInv, RewriteTypes
<1>11. copies[e] = MaxCopies \/ receipt.event = e
  BY <1>1 DEF RewriteInv, HeardInOrder, RewriteTypes, RewriteConstants
<1>12. \A older \in 1..(e - 1) : copies[older] = 0
  BY DEF Hist!EventHeard
<1>13. RewriteTypes'
  BY <1>0, <1>1, <1>2, <1>3, <1>4, <1>5, <1>6, <1>7, <1>8, <1>9, <1>10, <1>11, <1>12,
     NothingIsTyped, KeptIsTyped DEF RewriteInv, RewriteTypes, Seeds, HistRuns, HistTurns
<1>14. RewritesSoFar'
  BY <1>0, <1>1, <1>2, <1>3, <1>4, <1>5, <1>6, <1>7, <1>8, <1>9, <1>10, <1>11, <1>12,
     NothingIsTyped, KeptIsTyped DEF RewriteInv, RewritesSoFar, SoFar, RewriteTypes
<1>15. SummariesMarked'
  BY <1>0, <1>1, <1>2, <1>3, <1>4, <1>5, <1>6, <1>7, <1>8, <1>9, <1>10, <1>11, <1>12,
     NothingIsTyped, KeptIsTyped DEF RewriteInv, SummariesMarked, IsSave, RewriteTypes
<1>16. OneConversation'
  BY <1>0, <1>1, <1>2, <1>3, <1>4, <1>5, <1>6, <1>7, <1>8, <1>9, <1>10, <1>11, <1>12,
     NothingIsTyped, KeptIsTyped DEF RewriteInv, OneConversation, IsSave, RewriteTypes
<1>17. WritesInOrder'
  BY <1>0, <1>1, <1>2, <1>3, <1>4, <1>5, <1>6, <1>7, <1>8, <1>9, <1>10, <1>11, <1>12,
     NothingIsTyped, KeptIsTyped DEF RewriteInv, WritesInOrder, IsSave, RewriteTypes
<1>18. UnboundBehind'
  <2>1. \A f \in 1..MaxRewrites : copies'[f] > 0 => copies[f] > 0
    BY <1>1, <1>2 DEF RewriteInv, RewriteTypes
  <2>2. histBound = Hist!NoConv =>
           /\ histRun = Hist!NoRun /\ gone = Hist!NoRun /\ ~flag /\ histDisk.conv.era < e
           /\ \A i \in DOMAIN histLane : histLane[i].kind = "receipt"
           /\ \A f \in 1..MaxRewrites : copies[f] > 0 => histDisk.conv.era < f
           /\ request # "idle" => histDisk = Hist!NoSnapshot \/ receipt.pending
    BY <1>1 DEF RewriteInv, UnboundBehind
  <2>3. receipt.pending => receipt'.pending
    BY <1>5
  <2> QED BY <1>0, <1>5, <1>7, <1>8, <2>1, <2>2, <2>3 DEF UnboundBehind
<1>19. LeftDeleted'
  BY <1>0, <1>1, <1>2, <1>3, <1>4, <1>5, <1>6, <1>7, <1>8, <1>9, <1>10, <1>11, <1>12,
     NothingIsTyped, KeptIsTyped DEF RewriteInv, LeftDeleted, IsSave, Begins, RewriteTypes
<1>20. EventsServed'
  BY <1>0, <1>1, <1>2, <1>3, <1>4, <1>5, <1>6, <1>7, <1>8, <1>9, <1>10, <1>11, <1>12,
     NothingIsTyped, KeptIsTyped DEF RewriteInv, EventsServed, IsSave, RewriteTypes
<1>21. BehindMarked'
  BY <1>0, <1>1, <1>2, <1>3, <1>4, <1>5, <1>6, <1>7, <1>8, <1>9, <1>10, <1>11, <1>12,
     NothingIsTyped, KeptIsTyped DEF RewriteInv, BehindMarked, Begins, IsSave, RewriteTypes
<1>22. MarkedBehind'
  <2>1. \A c \in Seeds : Behind(c) => Behind(c)'
    BY <1>0, <1>10 DEF Behind
  <2>2. receipt'.pending /\ histBound # Hist!NoConv => Behind(histBound)'
    <3>1. CASE receipt.event = e
      BY <3>1, <2>1, <1>0, <1>5 DEF RewriteInv, MarkedBehind, RewriteTypes
    <3>2. CASE receipt.event # e
      BY <3>2, <1>0, <1>1, <1>10, <1>11, KeptIsTyped DEF RewriteInv, RewriteTypes, Behind
    <3> QED BY <3>1, <3>2
  <2>3. /\ flag' /\ histBound # Hist!NoConv => Behind(histBound)'
        /\ histDisk'.conv # Hist!NoConv /\ histDisk'.post
              => Behind(histDisk.conv)' \/ (histBound # Hist!NoConv /\ histDisk.conv # histBound)
    BY <2>1, <1>0, KeptIsTyped DEF RewriteInv, MarkedBehind, RewriteTypes
  <2>4. \A i \in DOMAIN histLane' :
           /\ Begins(histLane'[i]) /\ histLane'[i].post
                 => Behind(histLane[i].conv)' \/ histLane'[i].conv # histBound
           /\ IsSave(histLane'[i]) /\ histLane'[i].post /\ ~histLane'[i].begun => histLane'[i].conv.summary
    BY <2>1, <1>7, <1>8, KeptIsTyped DEF RewriteInv, MarkedBehind, Begins, IsSave
  <2> QED BY <1>0, <2>2, <2>3, <2>4 DEF RewriteInv, MarkedBehind, Begins, IsSave, Behind
<1>23. HeardInOrder'
  <2> SUFFICES ASSUME NEW f \in 1..MaxRewrites
               PROVE  /\ copies'[f] <= MaxCopies
                      /\ 0 < copies'[f] /\ copies'[f] < MaxCopies =>
                            receipt'.event = f /\ \A older \in 1..(f - 1) : copies'[older] = 0
    BY DEF HeardInOrder
  <2>1. /\ copies \in [1..MaxRewrites -> Nat] /\ {MaxCopies, MaxRewrites} \subseteq Nat /\ copies[f] <= MaxCopies
        /\ copies[e] <= MaxCopies
        /\ 0 < copies[f] /\ copies[f] < MaxCopies => \A older \in 1..(f - 1) : copies[older] = 0
    BY DEF RewriteInv, RewriteTypes, HeardInOrder, RewriteConstants
  <2>2. CASE f = e
    BY <2>1, <2>2, <1>1, <1>2, <1>5, <1>12
  <2>3. CASE f < e
    BY <2>1, <2>3, <1>1, <1>2, <1>12
  <2>4. CASE e < f
    BY <2>1, <2>4, <1>1, <1>2
  <2> QED BY <2>2, <2>3, <2>4, <1>1
<1>24. TurnsServed'
  BY <1>0 DEF RewriteInv, TurnsServed, Hist!RewriteHonoured, Hist!RebasedOnce, Hist!NoTurn
<1> QED BY <1>13, <1>14, <1>15, <1>16, <1>17, <1>18, <1>19, <1>20, <1>21, <1>22, <1>23, <1>24 DEF RewriteInv

LEMMA SaveDroppedKeepsHistory ==
    ASSUME RewriteConstants, RewriteInv, Hist!SaveBegins, Hist!Superseded(Head(histLane)) PROVE RewriteInv'
<1>0. UNCHANGED <<era, copies, receipt, flag, histBound, convs, histDisk, histRun, gone, request,
                  histKnown, excused, histTurn>>
  BY DEF Hist!SaveBegins
<1>1. /\ histLane' = Tail(histLane) /\ histLane' \in Seq(Writes) /\ Head(histLane) = histLane[1] /\ histLane[1] \in Writes
      /\ 1 \in DOMAIN histLane /\ Len(histLane) \in Nat \ {0} /\ DOMAIN histLane = 1..Len(histLane)
      /\ DOMAIN histLane' = 1..(Len(histLane) - 1)
      /\ \A i \in DOMAIN histLane' : i + 1 \in DOMAIN histLane /\ histLane'[i] = histLane[i + 1]
      /\ \A i \in DOMAIN histLane : i = 1 \/ (i - 1 \in DOMAIN histLane' /\ histLane'[i - 1] = histLane[i])
  BY WriteLeaves DEF RewriteInv, RewriteTypes, Hist!SaveBegins
<1>2. histLane[1].kind = "save"
  BY <1>1 DEF Hist!SaveBegins
<1>3. \A c : ToDelete(c) => ToDelete(c)'
  BY <1>1, <1>2 DEF ToDelete
<1>4. \A i \in DOMAIN histLane' : ~histLane'[i].begun
  BY <1>1 DEF RewriteInv, WritesInOrder
<1>5. RewriteTypes'
  BY <1>0, <1>1, <1>2, <1>3, <1>4, NothingIsTyped, KeptIsTyped
     DEF RewriteInv, RewriteTypes, Seeds, HistRuns, HistTurns
<1>6. RewritesSoFar'
  BY <1>0, <1>1, <1>2, <1>3, <1>4, NothingIsTyped, KeptIsTyped
     DEF RewriteInv, RewritesSoFar, SoFar, RewriteTypes
<1>7. SummariesMarked'
  BY <1>0, <1>1, <1>2, <1>3, <1>4, NothingIsTyped, KeptIsTyped
     DEF RewriteInv, SummariesMarked, IsSave, RewriteTypes
<1>8. OneConversation'
  BY <1>0, <1>1, <1>2, <1>3, <1>4, NothingIsTyped, KeptIsTyped
     DEF RewriteInv, OneConversation, IsSave, RewriteTypes
<1>9. WritesInOrder'
  BY <1>0, <1>1, <1>2, <1>3, <1>4, NothingIsTyped, KeptIsTyped
     DEF RewriteInv, WritesInOrder, IsSave, RewriteTypes
<1>10. UnboundBehind'
  BY <1>0, <1>1, <1>2, <1>3, <1>4, NothingIsTyped, KeptIsTyped DEF RewriteInv, UnboundBehind, RewriteTypes
<1>11. LeftDeleted'
  BY <1>0, <1>1, <1>2, <1>3, <1>4, NothingIsTyped, KeptIsTyped
     DEF RewriteInv, LeftDeleted, IsSave, Begins, RewriteTypes
<1>12. EventsServed'
  BY <1>0, <1>1, <1>2, <1>3, <1>4, NothingIsTyped, KeptIsTyped
     DEF RewriteInv, EventsServed, IsSave, RewriteTypes
<1>13. BehindMarked'
  BY <1>0, <1>1, <1>2, <1>3, <1>4, NothingIsTyped, KeptIsTyped
     DEF RewriteInv, BehindMarked, Begins, IsSave, RewriteTypes
<1>14. MarkedBehind'
  BY <1>0, <1>1, <1>2, <1>3, <1>4, NothingIsTyped, KeptIsTyped
     DEF RewriteInv, MarkedBehind, Begins, IsSave, Behind, RewriteTypes
<1>15. HeardInOrder'
  BY <1>0 DEF RewriteInv, HeardInOrder
<1>16. TurnsServed'
  BY <1>0 DEF RewriteInv, TurnsServed, Hist!RewriteHonoured, Hist!RebasedOnce, Hist!NoTurn
<1> QED BY <1>5, <1>6, <1>7, <1>8, <1>9, <1>10, <1>11, <1>12, <1>13, <1>14, <1>15, <1>16 DEF RewriteInv

LEMMA SaveBegunKeepsHistory ==
    ASSUME RewriteConstants, RewriteInv, Hist!SaveBegins, ~Hist!Superseded(Head(histLane)) PROVE RewriteInv'
<1>0. UNCHANGED <<era, copies, receipt, flag, histBound, convs, histDisk, histRun, gone, request,
                  histKnown, excused, histTurn>>
  BY DEF Hist!SaveBegins
<1>1. /\ histLane # <<>> /\ histLane[1] \in Writes /\ histLane[1].kind = "save" /\ ~histLane[1].begun /\ histLane[1].conv = histBound
      /\ 1 \in DOMAIN histLane /\ DOMAIN histLane = 1..Len(histLane) /\ Len(histLane) \in Nat /\ histBound # Hist!NoConv
  BY KeptIsTyped DEF Hist!SaveBegins, Hist!Superseded, RewriteInv, RewriteTypes, UnboundBehind
<1>2. \E post \in BOOLEAN :
         /\ post = TRUE <=> histLane[1].post = TRUE \/ receipt.pending = TRUE
         /\ histLane' = [histLane EXCEPT ![1] = [histLane[1] EXCEPT !.begun = TRUE, !.post = post]]
  BY <1>1 DEF Hist!SaveBegins, RewriteInv, RewriteTypes, Writes
<1>3. /\ histLane' \in Seq(Writes) /\ DOMAIN histLane' = DOMAIN histLane
      /\ histLane'[1].kind = "save" /\ histLane'[1].begun = TRUE /\ histLane'[1].conv = histBound
      /\ histLane'[1].post <=> histLane[1].post \/ receipt.pending
      /\ \A i \in DOMAIN histLane : i # 1 => histLane'[i] = histLane[i] /\ ~histLane[i].begun
  <2>1. PICK post \in BOOLEAN :
           /\ post = TRUE <=> histLane[1].post = TRUE \/ receipt.pending = TRUE
           /\ histLane' = [histLane EXCEPT ![1] = [histLane[1] EXCEPT !.begun = TRUE, !.post = post]]
    BY <1>2
  <2> DEFINE w == [histLane[1] EXCEPT !.begun = TRUE, !.post = post]
  <2>2. /\ w \in Writes /\ w.kind = "save" /\ w.begun = TRUE /\ w.conv = histBound /\ w.post = post
        /\ histLane[1].post \in BOOLEAN /\ receipt.pending \in BOOLEAN
    BY <1>1 DEF Writes, RewriteInv, RewriteTypes
  <2> HIDE DEF w
  <2>3. histLane \in Seq(Writes) /\ histLane' = [histLane EXCEPT ![1] = w]
    BY <2>1 DEF w, RewriteInv, RewriteTypes
  <2>4. /\ histLane' \in Seq(Writes) /\ DOMAIN histLane' = DOMAIN histLane /\ histLane'[1] = w
        /\ \A i \in DOMAIN histLane : i # 1 => histLane'[i] = histLane[i]
    BY <2>2, <2>3, <1>1
  <2>5. \A i \in DOMAIN histLane : i # 1 => ~histLane[i].begun
    BY DEF RewriteInv, WritesInOrder
  <2> QED BY <2>1, <2>2, <2>4, <2>5
<1>4. \A c : ToDelete(c) => ToDelete(c)'
  BY <1>1, <1>3 DEF ToDelete
<1>5. RewriteTypes'
  BY <1>0, <1>1, <1>2, <1>3, <1>4, NothingIsTyped, KeptIsTyped
     DEF RewriteInv, RewriteTypes, Seeds, HistRuns, HistTurns
<1>6. RewritesSoFar'
  BY <1>0, <1>1, <1>2, <1>3, <1>4, NothingIsTyped, KeptIsTyped
     DEF RewriteInv, RewritesSoFar, SoFar, RewriteTypes
<1>7. SummariesMarked'
  BY <1>0, <1>1, <1>2, <1>3, <1>4, NothingIsTyped, KeptIsTyped
     DEF RewriteInv, SummariesMarked, IsSave, RewriteTypes
<1>8. OneConversation'
  BY <1>0, <1>1, <1>2, <1>3, <1>4, NothingIsTyped, KeptIsTyped
     DEF RewriteInv, OneConversation, IsSave, RewriteTypes
<1>9. WritesInOrder'
  BY <1>0, <1>1, <1>2, <1>3, <1>4, NothingIsTyped, KeptIsTyped
     DEF RewriteInv, WritesInOrder, IsSave, RewriteTypes
<1>10. UnboundBehind'
  BY <1>0, <1>1, <1>2, <1>3, <1>4, NothingIsTyped, KeptIsTyped DEF RewriteInv, UnboundBehind, RewriteTypes
<1>11. LeftDeleted'
  BY <1>0, <1>1, <1>2, <1>3, <1>4, NothingIsTyped, KeptIsTyped
     DEF RewriteInv, LeftDeleted, IsSave, Begins, RewriteTypes
<1>12. EventsServed'
  BY <1>0, <1>1, <1>2, <1>3, <1>4, NothingIsTyped, KeptIsTyped
     DEF RewriteInv, EventsServed, IsSave, RewriteTypes
<1>13. BehindMarked'
  BY <1>0, <1>1, <1>2, <1>3, <1>4, NothingIsTyped, KeptIsTyped
     DEF RewriteInv, BehindMarked, Begins, IsSave, OneConversation, SummariesMarked, RewriteTypes
<1>14. MarkedBehind'
  BY <1>0, <1>1, <1>2, <1>3, <1>4, NothingIsTyped, KeptIsTyped
     DEF RewriteInv, MarkedBehind, Begins, IsSave, Behind, RewriteTypes
<1>15. HeardInOrder'
  BY <1>0 DEF RewriteInv, HeardInOrder
<1>16. TurnsServed'
  BY <1>0 DEF RewriteInv, TurnsServed, Hist!RewriteHonoured, Hist!RebasedOnce, Hist!NoTurn
<1> QED BY <1>5, <1>6, <1>7, <1>8, <1>9, <1>10, <1>11, <1>12, <1>13, <1>14, <1>15, <1>16 DEF RewriteInv

LEMMA StartOverKeepsHistory ==
    ASSUME RewriteConstants, RewriteInv, NEW summary \in BOOLEAN, Hist!StartOver(summary), Hist!MayPass,
           flag' = summary, histRun' = [conv |-> histBound', post |-> summary, held |-> FALSE],
           request' = "idle", histTurn' \in HistTurns, TurnsServed',
           UNCHANGED <<gone, era, copies, histDisk, histKnown>> PROVE RewriteInv'
<1>0. UNCHANGED <<era, copies, histDisk, gone, histKnown>>
  BY DEF Hist!StartOver
<1>1. LET conv == [id |-> convs + 1, era |-> era, summary |-> summary]
      IN  /\ histBound' = conv /\ conv \in Seeds /\ conv # Hist!NoConv /\ histRun'.conv = conv /\ histRun'.post = summary
          /\ ~histRun'.held /\ histRun' # Hist!NoRun /\ histRun' \in HistRuns /\ convs' = convs + 1 /\ excused' = FALSE
  BY NothingIsTyped DEF Hist!StartOver, Hist!Bind, RewriteInv, RewriteTypes, Seeds, HistRuns
<1>2. /\ histBound'.id = convs + 1 /\ histBound'.era = era /\ histBound'.summary = summary
      /\ histBound' \in Seeds /\ histRun' \in HistRuns /\ convs' \in Nat /\ excused' \in BOOLEAN
  <2>1. convs' = convs + 1 /\ excused' = FALSE /\ convs \in Nat
    BY <1>1 DEF RewriteInv, RewriteTypes
  <2>2. histBound'.id = convs + 1 /\ histBound'.era = era /\ histBound'.summary = summary /\ histBound' \in Seeds /\ histRun' \in HistRuns
    BY <1>1
  <2>3. convs' \in Nat
    BY <2>1
  <2>4. excused' \in BOOLEAN
    BY <2>1
  <2> QED BY <2>2, <2>3, <2>4
<1>3. /\ receipt' \in [event : Nat, pending : BOOLEAN, durable : BOOLEAN, saving : BOOLEAN]
      /\ receipt'.event = receipt.event /\ receipt'.pending = FALSE /\ receipt'.durable = receipt.durable
      /\ receipt.event # 0 => receipt.durable
  BY DEF Hist!StartOver, Hist!Acknowledged, Hist!MayPass, RewriteInv, RewriteTypes, EventsServed
<1>4. \A c \in Seeds : SoFar(c) => SoFar(c)' /\ c # histBound'
  BY <1>0, <1>1, <1>2, NothingIsTyped DEF SoFar, RewriteInv, RewriteTypes
<1>5. /\ histDisk.conv # histBound' /\ gone.conv # histBound' /\ histBound # histBound'
      /\ \A i \in DOMAIN histLane : histLane[i].conv # histBound'
  BY <1>4, KeptIsTyped DEF RewriteInv, RewritesSoFar, RewriteTypes, HistRuns
<1>6. LET w == Hist!Delete(histBound)
      IN  /\ w \in Writes /\ histLane' = Append(histLane, w) /\ histLane' \in Seq(Writes) /\ Len(histLane) \in Nat
          /\ DOMAIN histLane = 1..Len(histLane) /\ DOMAIN histLane' = 1..(Len(histLane) + 1)
          /\ \A i \in DOMAIN histLane : i \in DOMAIN histLane' /\ histLane'[i] = histLane[i]
          /\ histLane'[Len(histLane) + 1] = w
          /\ \A i \in DOMAIN histLane' : i \in DOMAIN histLane \/ i = Len(histLane) + 1
  BY WriteJoins DEF Hist!StartOver, Hist!Delete, RewriteInv, RewriteTypes, Writes, Seeds
<1>7. Hist!Delete(histBound).kind = "delete" /\ Hist!Delete(histBound).conv = histBound /\ ~Hist!Delete(histBound).begun /\ ~IsSave(Hist!Delete(histBound))
  BY DEF Hist!Delete, IsSave
<1>8. /\ histDisk.conv # Hist!NoConv => ToDelete(histDisk.conv)'
      /\ \A i \in DOMAIN histLane : Begins(histLane[i])
            => (\E j \in DOMAIN histLane' : histLane'[j].kind = "delete" /\ histLane'[j].conv \in {Hist!NoConv, histLane[i].conv})
  <2>1. \A c : ToDelete(c) \/ histBound \in {Hist!NoConv, c} =>
              (\E j \in DOMAIN histLane' : histLane'[j].kind = "delete" /\ histLane'[j].conv \in {Hist!NoConv, c})
    BY <1>6, <1>7 DEF ToDelete
  <2>2. /\ histDisk.conv # Hist!NoConv
              => ToDelete(histDisk.conv) \/ histBound \in {Hist!NoConv, histDisk.conv}
        /\ \A i \in DOMAIN histLane : Begins(histLane[i])
              => ToDelete(histLane[i].conv) \/ histBound \in {Hist!NoConv, histLane[i].conv}
    BY DEF RewriteInv, LeftDeleted
  <2> QED BY <2>1, <2>2, <1>0 DEF ToDelete
<1>9. RewriteTypes'
  BY <1>0, <1>2, <1>3, <1>6 DEF RewriteInv, RewriteTypes
<1>10. RewritesSoFar'
  <2>1. SoFar(histBound)' /\ SoFar(histRun.conv)'
    BY <1>0, <1>1, <1>2 DEF SoFar, RewriteInv, RewriteTypes
  <2>2. SoFar(histDisk.conv)' /\ SoFar(gone.conv)'
    BY <1>0, <1>4, KeptIsTyped DEF RewriteInv, RewritesSoFar, RewriteTypes, HistRuns
  <2>3. \A i \in DOMAIN histLane' : SoFar(histLane[i].conv)'
    <3>1. SoFar(histBound) /\ histBound \in Seeds
      BY DEF RewriteInv, RewritesSoFar, RewriteTypes
    <3>2. \A i \in DOMAIN histLane' : histLane'[i].conv \in Seeds /\ SoFar(histLane'[i].conv)
      BY <3>1, <1>6, <1>7, KeptIsTyped DEF RewriteInv, RewritesSoFar
    <3>3. \A i \in DOMAIN histLane' : LET c == histLane'[i].conv IN c = Hist!NoConv \/ (c.id \in 1..convs' /\ c.era <= era')
      BY <3>2, <1>0, <1>1 DEF SoFar, RewriteInv, RewriteTypes
    <3> QED BY <3>3 DEF SoFar
  <2> QED BY <2>1, <2>2, <2>3, <1>0, <1>3 DEF RewriteInv, RewritesSoFar
<1>11. SummariesMarked'
  BY <1>0, <1>1, <1>2, <1>3, <1>4, <1>5, <1>6, <1>7, <1>8, NothingIsTyped, KeptIsTyped
     DEF RewriteInv, SummariesMarked, IsSave, RewriteTypes
<1>12. OneConversation'
  BY <1>0, <1>1, <1>2, <1>3, <1>4, <1>5, <1>6, <1>7, <1>8, NothingIsTyped, KeptIsTyped
     DEF RewriteInv, OneConversation, IsSave, RewriteTypes
<1>13. WritesInOrder'
  BY <1>0, <1>1, <1>2, <1>3, <1>4, <1>5, <1>6, <1>7, <1>8, NothingIsTyped, KeptIsTyped
     DEF RewriteInv, WritesInOrder, IsSave, RewriteTypes
<1>14. UnboundBehind'
  BY <1>0, <1>1, <1>2, <1>3, <1>4, <1>5, <1>6, <1>7, <1>8, NothingIsTyped, KeptIsTyped
     DEF RewriteInv, UnboundBehind, RewriteTypes
<1>15. LeftDeleted'
  <2>1. /\ histDisk'.conv # Hist!NoConv => ToDelete(histDisk.conv)'
        /\ \A i \in DOMAIN histLane' : IsSave(histLane'[i]) /\ histLane'[i].begun
              => i \in DOMAIN histLane /\ histLane'[i] = histLane[i]
    BY <1>0, <1>6, <1>7, <1>8 DEF IsSave
  <2>2. \A i \in DOMAIN histLane' : Begins(histLane[i])' => ToDelete(histLane[i].conv)'
    BY <2>1, <1>8 DEF Begins, IsSave, ToDelete
  <2> QED BY <2>1, <2>2 DEF LeftDeleted
<1>16. EventsServed'
  <2>1. receipt'.event <= histBound'.era /\ histBound' # Hist!NoConv /\ histBound'.era \in Nat
    BY <1>1, <1>2, <1>3, KeptIsTyped DEF RewriteInv, RewriteTypes, RewritesSoFar
  <2>2. \A i \in DOMAIN histLane' : histLane'[i].conv # histBound'
    BY <1>5, <1>6, <1>7
  <2>3. \A i \in DOMAIN histLane' : \A j \in 1..(i - 1) : j \in DOMAIN histLane'
    BY <1>6
  <2> QED BY <2>1, <2>2, <2>3, <1>0, <1>3, <1>5, KeptIsTyped DEF EventsServed, RewriteInv, RewriteTypes
<1>17. BehindMarked'
  <2>1. histBound'.era >= histKnown'
    BY <1>0, <1>2 DEF RewriteInv, RewritesSoFar, RewriteTypes
  <2>2. histDisk.conv # Hist!NoConv => histDisk.conv.era >= histKnown \/ histDisk.post
    BY DEF RewriteInv, BehindMarked
  <2>3. \A i \in DOMAIN histLane' : Begins(histLane'[i])
            => histLane'[i].conv.era >= histKnown \/ histLane'[i].post
    BY <1>6, <1>7 DEF RewriteInv, BehindMarked, Begins
  <2> QED BY <2>1, <2>2, <2>3, <1>0, <1>3 DEF BehindMarked, Begins, IsSave
<1>18. MarkedBehind'
  BY <1>0, <1>1, <1>2, <1>3, <1>4, <1>5, <1>6, <1>7, <1>8, NothingIsTyped, KeptIsTyped
     DEF RewriteInv, MarkedBehind, Begins, IsSave, Behind, RewriteTypes
<1>19. HeardInOrder'
  BY <1>0, <1>3 DEF RewriteInv, HeardInOrder
<1>20. TurnsServed'
  BY <1>0, <1>1, <1>2, <1>3, <1>4, <1>5, <1>6, <1>7, <1>8, NothingIsTyped, KeptIsTyped
     DEF RewriteInv, TurnsServed, Hist!RewriteHonoured, Hist!RebasedOnce, Hist!NoTurn, RewriteTypes
<1> QED BY <1>9, <1>10, <1>11, <1>12, <1>13, <1>14, <1>15, <1>16, <1>17, <1>18, <1>19, <1>20 DEF RewriteInv

\* A turn opens: it starts over, or in a conversation of its own, or goes on.
LEMMA OpenedTurn ==
    ASSUME RewriteInv, Hist!Opens
    PROVE  /\ histTurn' \in HistTurns /\ TurnsServed'
           /\ request' = "idle" /\ histRun'.conv = histBound'
<1> DEFINE t == [histTurn EXCEPT !.did = "opened", !.seeded = histBound'.era, !.reset = Hist!Reset,
                            !.needed = Hist!Outdated \/ excused]
<1>1. histBound' \in Seeds /\ histBound'.era \in Nat
  <2>1. CASE histBound' = histBound
    BY <2>1, KeptIsTyped DEF RewriteInv, RewriteTypes
  <2>2. CASE Hist!Bind(FALSE)
    BY <2>2 DEF Hist!Bind, RewriteInv, RewriteTypes, Seeds
  <2> QED BY <2>1, <2>2 DEF Hist!Opens, Hist!StartOver
<1>2. histTurn' = t /\ request' = "idle" /\ request = "passed" /\ histRun' = [conv |-> histBound', post |-> FALSE, held |-> FALSE]
  BY DEF Hist!Opens
<1>3. Hist!Reset \in BOOLEAN /\ (Hist!Outdated \/ excused) \in BOOLEAN
  BY DEF Hist!Reset
<1>4. /\ t \in HistTurns /\ t.seeded = histBound'.era /\ t.told = histTurn.told /\ t.reset = Hist!Reset
      /\ t.needed = (Hist!Outdated \/ excused)
  BY <1>1, <1>3 DEF RewriteInv, RewriteTypes, HistTurns
<1>5. histBound'.era >= histTurn.told
  <2>1. histTurn.told <= era /\ histTurn.told \in Nat /\ era \in Nat
    BY <1>2 DEF RewriteInv, BehindMarked, RewriteTypes, HistTurns
  <2>2. CASE Hist!Bind(FALSE)
    BY <2>1, <2>2 DEF Hist!Bind
  <2>3. CASE ~Hist!Reset /\ histBound # Hist!NoConv /\ histBound' = histBound
    BY <2>3, <1>2 DEF RewriteInv, BehindMarked, Hist!Reset
  <2> QED BY <2>2, <2>3 DEF Hist!Opens, Hist!StartOver
<1>6. Hist!Reset => Hist!Outdated \/ excused
  BY DEF Hist!Reset, Hist!Outdated, RewriteInv, MarkedBehind, Behind
<1> QED BY <1>2, <1>4, <1>5, <1>6 DEF TurnsServed, Hist!RewriteHonoured, Hist!RebasedOnce

LEMMA GoesOnKeepsHistory ==
    ASSUME RewriteConstants, RewriteInv, Hist!Opens, ~Hist!Reset PROVE RewriteInv'
<1>0. UNCHANGED <<era, copies, receipt, histDisk, histLane, gone, histKnown, excused>>
  BY DEF Hist!Opens
<1>1. /\ ~flag /\ receipt.pending = FALSE /\ flag' = FALSE /\ request' = "idle" /\ request = "passed"
      /\ histRun' = [conv |-> histBound', post |-> FALSE, held |-> FALSE]
      /\ histTurn' \in HistTurns /\ TurnsServed'
  BY OpenedTurn DEF Hist!Opens, Hist!Reset, RewriteInv, RewriteTypes
<1>2. /\ histBound' \in Seeds /\ histBound' # Hist!NoConv /\ ~histBound'.summary /\ convs' \in Nat /\ convs' >= convs
      /\ SoFar(histBound)' /\ histBound'.era \in Nat /\ histBound'.era >= histKnown
      /\ histBound = Hist!NoConv => receipt.event = 0 /\ histDisk = Hist!NoSnapshot
      /\ histBound # Hist!NoConv => histBound' = histBound
  <2>1. CASE histBound = Hist!NoConv /\ Hist!Bind(FALSE)
    <3>1. histBound' = [id |-> convs + 1, era |-> era, summary |-> FALSE] /\ convs' = convs + 1
      BY <2>1 DEF Hist!Bind
    <3>2. receipt.event = 0 /\ histDisk = Hist!NoSnapshot
      BY <2>1, <1>1, KeptIsTyped DEF RewriteInv, EventsServed, UnboundBehind
    <3> QED BY <3>1, <3>2, <2>1, <1>0, NothingIsTyped
               DEF Seeds, SoFar, RewriteInv, RewriteTypes, RewritesSoFar
  <2>2. CASE histBound # Hist!NoConv /\ histBound' = histBound /\ convs' = convs
    BY <2>2, <1>0, <1>1, KeptIsTyped DEF RewriteInv, RewriteTypes, RewritesSoFar, SoFar,
       BehindMarked, SummariesMarked
  <2> QED BY <2>1, <2>2 DEF Hist!Opens
<1>3. /\ histRun' \in HistRuns /\ histRun'.conv = histBound' /\ ~histRun'.held /\ histRun'.post = FALSE /\ histRun' # Hist!NoRun
  BY <1>1, <1>2, NothingIsTyped DEF HistRuns
<1>4. \A c \in Seeds : SoFar(c) => SoFar(c)'
  BY <1>0, <1>2 DEF SoFar, RewriteInv, RewriteTypes
<1>5. histBound = Hist!NoConv => \A i \in DOMAIN histLane : FALSE
  BY <1>2 DEF RewriteInv, UnboundBehind, WritesInOrder
<1>6. RewriteTypes'
  BY <1>0, <1>1, <1>2, <1>3, <1>4, <1>5, NothingIsTyped, KeptIsTyped
     DEF RewriteInv, RewriteTypes, Seeds, HistRuns, HistTurns
<1>7. RewritesSoFar'
  BY <1>0, <1>2, <1>3, <1>4, KeptIsTyped DEF RewriteInv, RewritesSoFar, RewriteTypes, HistRuns
<1>8. SummariesMarked'
  BY <1>0, <1>1, <1>2, <1>3, <1>4, <1>5, NothingIsTyped, KeptIsTyped
     DEF RewriteInv, SummariesMarked, IsSave, RewriteTypes
<1>9. OneConversation'
  BY <1>0, <1>1, <1>2, <1>3, <1>4, <1>5, NothingIsTyped, KeptIsTyped
     DEF RewriteInv, OneConversation, IsSave, RewriteTypes
<1>10. WritesInOrder'
  BY <1>0 DEF RewriteInv, WritesInOrder, IsSave
<1>11. UnboundBehind'
  BY <1>0, <1>1, <1>2, <1>3, <1>4, <1>5, NothingIsTyped, KeptIsTyped
     DEF RewriteInv, UnboundBehind, RewriteTypes
<1>12. LeftDeleted'
  BY <1>0, <1>1, <1>2, <1>3, <1>4, <1>5, NothingIsTyped, KeptIsTyped
     DEF RewriteInv, LeftDeleted, ToDelete, IsSave, Begins, RewriteTypes
<1>13. EventsServed'
  BY <1>0, <1>1, <1>2, <1>3, <1>4, <1>5, NothingIsTyped, KeptIsTyped
     DEF RewriteInv, EventsServed, IsSave, RewriteTypes
<1>14. BehindMarked'
  BY <1>0, <1>1, <1>2, <1>3, <1>4, <1>5, NothingIsTyped, KeptIsTyped
     DEF RewriteInv, BehindMarked, Begins, IsSave, RewriteTypes
<1>15. MarkedBehind'
  BY <1>0, <1>1, <1>2, <1>3, <1>4, <1>5, NothingIsTyped, KeptIsTyped
     DEF RewriteInv, MarkedBehind, Begins, IsSave, Behind, RewriteTypes
<1>16. HeardInOrder'
  BY <1>0 DEF RewriteInv, HeardInOrder
<1>17. TurnsServed'
  BY <1>0, <1>1, <1>2, <1>3, <1>4, <1>5, NothingIsTyped, KeptIsTyped
     DEF RewriteInv, TurnsServed, Hist!RewriteHonoured, Hist!RebasedOnce, Hist!NoTurn, RewriteTypes
<1> QED BY <1>6, <1>7, <1>8, <1>9, <1>10, <1>11, <1>12, <1>13, <1>14, <1>15, <1>16, <1>17 DEF RewriteInv

LEMMA OpensKeepsHistory ==
    ASSUME RewriteConstants, RewriteInv, Hist!Opens PROVE RewriteInv'
<1>1. CASE Hist!Reset
  <2>1. Hist!StartOver(FALSE) /\ flag' = FALSE /\ histRun' = [conv |-> histBound', post |-> FALSE, held |-> FALSE]
    BY <1>1 DEF Hist!Opens
  <2>2. UNCHANGED <<gone, era, copies, histDisk, histKnown>> /\ Hist!MayPass
    BY DEF Hist!Opens
  <2> QED BY <2>1, <2>2, OpenedTurn, StartOverKeepsHistory
<1>2. CASE ~Hist!Reset
  BY <1>2, GoesOnKeepsHistory
<1> QED BY <1>1, <1>2

LEMMA SummarizesKeepsHistory ==
    ASSUME RewriteConstants, RewriteInv, Hist!Summarizes PROVE RewriteInv'
<1>1. /\ Hist!StartOver(TRUE) /\ flag' = TRUE /\ histRun' = [conv |-> histBound', post |-> TRUE, held |-> FALSE]
      /\ UNCHANGED <<gone, era, copies, histDisk, histKnown,
                     request>> /\ Hist!MayPass /\ request = "idle" /\ histTurn' = Hist!NoTurn
  BY DEF Hist!Summarizes, Hist!AfterSummary, Hist!MaySummarize
<1>2. TurnsServed' /\ histTurn' \in HistTurns
  BY <1>1, NothingIsTyped DEF TurnsServed, Hist!RewriteHonoured, Hist!RebasedOnce
<1> QED BY <1>1, <1>2, StartOverKeepsHistory

LEMMA HistoryInit == ASSUME RewriteConstants, Hist!Init PROVE RewriteInv
<1>1. /\ era = 0 /\ copies = [e \in 1..MaxRewrites |-> 0] /\ receipt = Hist!NoReceipt /\ flag = FALSE /\ histBound = Hist!NoConv
      /\ convs = 0 /\ histDisk = Hist!NoSnapshot /\ histLane = <<>> /\ histRun = Hist!NoRun /\ gone = Hist!NoRun /\ request = "idle"
      /\ histKnown = 0 /\ excused = FALSE /\ histTurn = Hist!NoTurn
  BY DEF Hist!Init
<1>2. RewriteTypes
  <2>1. copies \in [1..MaxRewrites -> Nat] /\ histLane \in Seq(Writes)
    BY <1>1
  <2>2. /\ receipt \in [event : Nat, pending : BOOLEAN, durable : BOOLEAN, saving : BOOLEAN]
        /\ histBound \in Seeds /\ histDisk \in [conv : Seeds, post : BOOLEAN] /\ histRun \in HistRuns /\ gone \in HistRuns
        /\ histTurn \in HistTurns
    BY <1>1, NothingIsTyped
  <2> QED BY <2>1, <2>2, <1>1 DEF RewriteTypes
<1>3. DOMAIN histLane = {}
  BY <1>1
<1>4. HeardInOrder
  BY <1>1 DEF HeardInOrder, RewriteConstants
<1> QED BY <1>1, <1>2, <1>3, <1>4, NothingIsTyped
        DEF RewriteInv, RewritesSoFar, SoFar, SummariesMarked, OneConversation, WritesInOrder,
            UnboundBehind, LeftDeleted,
            EventsServed, BehindMarked, MarkedBehind, TurnsServed, Hist!RewriteHonoured, Hist!RebasedOnce, IsSave, Begins

LEMMA HistoryNext ==
    ASSUME RewriteConstants, RewriteInv, [Hist!Next]_(Hist!vars) PROVE RewriteInv'
<1>1. CASE UNCHANGED Hist!vars
  <2>1. UNCHANGED <<era, copies, receipt, flag, histBound, convs, histDisk, histLane, histRun,
                    gone, request, histKnown, excused, histTurn>>
    BY <1>1 DEF Hist!vars
  <2> QED BY <2>1 DEF RewriteInv, RewriteTypes, RewritesSoFar, SoFar, SummariesMarked,
             OneConversation, WritesInOrder,
                      UnboundBehind, LeftDeleted, ToDelete, EventsServed, BehindMarked, MarkedBehind, Behind, HeardInOrder,
                      TurnsServed, Hist!RewriteHonoured, Hist!RebasedOnce, IsSave, Begins
<1>2. CASE Hist!SaveBegins
  BY <1>2, SaveDroppedKeepsHistory, SaveBegunKeepsHistory
<1>3. CASE \E e \in 1..MaxRewrites : Hist!EventHeard(e)
  BY <1>3, EventHeardKeepsHistory
<1> QED BY <1>1, <1>2, <1>3, HostRewritesKeepsHistory, AsksKeepsHistory, AwaitsKeepsHistory,
           PassesKeepsHistory,
           ContinuesKeepsHistory, OpensKeepsHistory, SummarizesKeepsHistory, RequestFailsKeepsHistory,
           StepEndsKeepsHistory, TurnEndsKeepsHistory, LateSaveKeepsHistory, SummaryCommittedKeepsHistory,
           SaveLandsKeepsHistory, SaveFailsKeepsHistory, ReceiptLandsKeepsHistory, ReceiptFailsKeepsHistory,
           DeletedKeepsHistory, RestartsKeepsHistory DEF Hist!Next

\* No turn opens or continues a conversation from before a compaction the
\* session was told of, and only such a turn starts over, however many
\* compactions, copies of their events, restarts and failed writes there are.
THEOREM CompactionsStayServed ==
    ASSUME RewriteConstants
    PROVE  Hist!Spec => [](Hist!RewriteHonoured /\ Hist!RebasedOnce)
<1>1. Hist!Init => RewriteInv
  BY HistoryInit
<1>2. RewriteInv /\ [Hist!Next]_(Hist!vars) => RewriteInv'
  BY HistoryNext
<1>3. RewriteInv => Hist!RewriteHonoured /\ Hist!RebasedOnce
  BY DEF RewriteInv, TurnsServed
<1> QED BY <1>1, <1>2, <1>3, PTL DEF Hist!Spec

-----------------------------------------------------------------------------
(***************************************************************************)
(* What OpenCode tells between its messages (HostNotes)                    *)
(***************************************************************************)

NoteEntries == [note : Notes, of : {"open", "closed"}, delivered : BOOLEAN]
NoteCheckpoints == [has : BOOLEAN, holds : SUBSET Notes]
TellingRuns == [state : {"none", "open", "broken"}, knows : SUBSET Notes, carried : SUBSET Notes, own : BOOLEAN]
CursorFrames == [is : {"delivered", "declined"}, note : Notes] \union [is : {"checkpoint"}, holds : SUBSET Notes]
                  \union [is : {"ended"}]
NoteSnapshots == [checkpoint : NoteCheckpoints, note : SUBSET Notes, runNote : SUBSET Notes, rebase : BOOLEAN]

NoteTypes ==
    /\ coming \subseteq Notes /\ noteBefore \subseteq Notes /\ noteHistory \subseteq Notes
    /\ undelivered \subseteq Notes /\ interrupted \subseteq Notes
    /\ owed \subseteq Notes /\ noteTurn \subseteq Notes /\ superseded \subseteq Notes /\ repeated \subseteq Notes
    /\ noteStored \in NoteCheckpoints /\ noteRun \in TellingRuns /\ noteFrames \in Seq(CursorFrames)
    /\ injections \subseteq NoteEntries /\ noteRebase \in BOOLEAN /\ noteDisk \in NoteSnapshots

Injected(of) == Note!NotesOf(Note!Entries(of))

\* A note still to come is nowhere; one behind the last reply is in no history.
NotesInPlace ==
    /\ coming \cap (noteBefore \cup noteHistory \cup owed \cup noteTurn) = {}
    /\ coming \cap (undelivered \cup interrupted \cup Note!NotesOf(injections)
          \cup noteRun.knows \cup noteRun.carried) = {}
    /\ coming \cap (noteStored.holds \cup noteDisk.checkpoint.holds \cup noteDisk.note
          \cup noteDisk.runNote) = {}
    /\ noteBefore \cap (noteHistory \cup noteStored.holds \cup noteDisk.checkpoint.holds) = {}
    /\ ~noteRebase => Injected("open") \subseteq noteHistory

\* What a Run carries belongs to its turn, or a checkpoint has held it.
RunInPlace ==
    /\ noteRun.state = "none" => noteRun = Note!NoRun /\ Injected("open") = {}
    /\ noteRun.state = "broken" => noteFrames = <<>>
    /\ noteRun.state # "none" =>
        /\ interrupted = {}
        /\ noteBefore \subseteq noteTurn /\ noteTurn \subseteq noteRun.carried
        /\ noteRun.carried \cap owed \subseteq noteTurn
    /\ noteRun.own => noteRun.carried \cap owed = {}
    /\ noteRun.state = "open" => Injected("closed") \cap owed = {}
    /\ interrupted \cap owed \subseteq noteBefore

\* NoteKept, whatever the seeds hold.
NotesHeld ==
    owed \cup noteTurn \subseteq noteBefore \cup noteRun.carried \cup Note!NotesOf(injections)
          \cup undelivered \cup interrupted

FrameIs(i, what) == noteFrames[i].is = what

\* A checkpoint holds what the Run had when it was made, an acknowledged
\* injection included, and the end follows one.
FramesInOrder ==
    noteRun.state = "open" =>
    /\ noteRun.carried \cap owed \subseteq noteRun.knows
    /\ \A i \in DOMAIN noteFrames : FrameIs(i, "checkpoint") =>
          noteFrames[i].holds \subseteq noteRun.knows /\ noteRun.carried \cap owed \subseteq noteFrames[i].holds
    /\ \A i \in DOMAIN noteFrames : FrameIs(i, "ended")
          => noteRun.own \/ \E j \in DOMAIN noteFrames : j < i /\ FrameIs(j, "checkpoint")
    /\ \A j \in DOMAIN noteFrames : FrameIs(j, "delivered") =>
          noteFrames[j].note \in noteRun.knows
          /\ \A i \in DOMAIN noteFrames : i > j /\ FrameIs(i, "checkpoint")
                => noteFrames[j].note \in noteFrames[i].holds
    /\ \A e \in injections : e.of = "open" /\ e.delivered =>
          e.note \in noteRun.knows /\ \A i \in DOMAIN noteFrames : FrameIs(i, "checkpoint")
                => e.note \in noteFrames[i].holds

\* The Run does not know what it waits to be told, but for what another Run of
\* the session was told in vain, or what Cursor has acknowledged unread.
HeardOnce ==
    noteRun.state = "open" =>
    /\ undelivered \cap noteRun.knows \subseteq superseded
    /\ Injected("closed") \subseteq superseded
    /\ \A e \in injections : e.of = "open" /\ ~e.delivered /\ e.note \notin superseded =>
          /\ e.note \in noteRun.knows
                => \E j \in DOMAIN noteFrames : FrameIs(j, "delivered") /\ noteFrames[j].note = e.note
          /\ \A i \in DOMAIN noteFrames : FrameIs(i, "checkpoint") /\ e.note \in noteFrames[i].holds =>
                \E j \in DOMAIN noteFrames : j < i /\ FrameIs(j, "delivered") /\ noteFrames[j].note = e.note
    /\ \A j \in DOMAIN noteFrames : FrameIs(j, "declined")
          => noteFrames[j].note \notin noteRun.knows \/ noteFrames[j].note \in superseded

\* Nor does a checkpoint hold what is kept to be told.
StoredOnce ==
    /\ noteStored.holds \cap (undelivered \cup Note!NotesOf(injections)) \subseteq superseded
    /\ noteDisk.checkpoint.holds \cap noteDisk.note \subseteq superseded

\* An injection of the open Run is not kept for the next one, too.
KeptOnce == Injected("open") \cap (undelivered \cup Injected("closed")) \subseteq superseded

NotesInv ==
    NoteTypes /\ NotesInPlace /\ RunInPlace /\ NotesHeld /\ FramesInOrder /\ HeardOnce /\ StoredOnce
        /\ KeptOnce /\ Note!ToldOnce

-----------------------------------------------------------------------------
LEMMA NothingKept ==
    Note!NoRun \in TellingRuns /\ Note!NoCheckpoint \in NoteCheckpoints /\ Note!NoSnapshot \in NoteSnapshots
BY DEF Note!NoRun, Note!NoCheckpoint, Note!NoSnapshot, TellingRuns, NoteCheckpoints, NoteSnapshots

LEMMA FrameJoins ==
    ASSUME NEW f \in Seq(CursorFrames), NEW x \in CursorFrames, noteFrames' = f \o <<x>>
    PROVE  /\ noteFrames' \in Seq(CursorFrames) /\ Len(f) \in Nat
           /\ DOMAIN f = 1..Len(f) /\ DOMAIN noteFrames' = 1..(Len(f) + 1)
           /\ \A i \in DOMAIN f : noteFrames'[i] = f[i]
           /\ noteFrames'[Len(f) + 1] = x
OBVIOUS

LEMMA FrameLeaves ==
    ASSUME noteFrames \in Seq(CursorFrames), noteFrames # <<>>, noteFrames' = Tail(noteFrames)
    PROVE  /\ noteFrames' \in Seq(CursorFrames) /\ Head(noteFrames) = noteFrames[1] /\ noteFrames[1] \in CursorFrames
           /\ 1 \in DOMAIN noteFrames /\ Len(noteFrames) \in Nat \ {0} /\ DOMAIN noteFrames = 1..Len(noteFrames)
           /\ DOMAIN noteFrames' = 1..(Len(noteFrames) - 1)
           /\ \A i \in DOMAIN noteFrames' : i + 1 \in DOMAIN noteFrames /\ noteFrames'[i] = noteFrames[i + 1]
           /\ \A i \in DOMAIN noteFrames : i = 1 \/ (i - 1 \in DOMAIN noteFrames' /\ noteFrames'[i - 1] = noteFrames[i])
OBVIOUS

LEMMA PlacedKeepsNotes ==
    ASSUME NotesInv, NEW n \in Notes, Note!Placed(n) PROVE NotesInv'
<1>0. UNCHANGED <<noteHistory, noteStored, noteRun, noteFrames, injections, undelivered,
                  interrupted, noteRebase, noteDisk, noteTurn, superseded, repeated>>
      /\ noteRun.state = "none" /\ n \in coming /\ coming' = coming \ {n} /\ noteBefore' = noteBefore \cup {n} /\ owed' = owed \cup {n}
  BY DEF Note!Placed, Note!kept
<1>1. NoteTypes'
  BY <1>0 DEF NotesInv, NoteTypes
<1>2. NotesInPlace'
  BY <1>0 DEF NotesInv, NotesInPlace, Note!NotesOf, Note!Entries, Injected
<1>3. RunInPlace'
  BY <1>0 DEF NotesInv, RunInPlace, NotesInPlace, NoteTypes, Note!NoRun, Injected, Note!NotesOf,
     Note!Entries
<1>4. NotesHeld'
  BY <1>0 DEF NotesInv, NotesHeld, Note!NotesOf
<1>5. FramesInOrder' /\ HeardOnce'
  BY <1>0 DEF FramesInOrder, HeardOnce
<1>6. StoredOnce' /\ KeptOnce' /\ Note!ToldOnce'
  BY <1>0 DEF NotesInv, StoredOnce, KeptOnce, Note!ToldOnce, Note!NotesOf, Note!Entries, Injected
<1> QED BY <1>1, <1>2, <1>3, <1>4, <1>5, <1>6 DEF NotesInv

\* A conversation, the present one or a new one, may be told these notes.
MayOpen(warm, notes, boundary, has, since) ==
    LET waited == IF warm THEN interrupted ELSE {}
    IN /\ {notes, boundary, has, since, noteBefore', noteHistory', owed', superseded'} \subseteq SUBSET Notes
       /\ coming' = coming /\ noteFrames' = <<>> /\ noteRebase' \in BOOLEAN /\ superseded \subseteq superseded'
       /\ coming \cap (noteBefore' \cup noteHistory' \cup notes \cup boundary \cup has
             \cup since \cup owed') = {}
       /\ noteBefore' \cap noteHistory' = {} /\ noteBefore' \subseteq since \cup notes \cup boundary
       /\ (noteStored' = Note!NoCheckpoint /\ noteDisk' = Note!NoSnapshot) \/ (warm /\ UNCHANGED <<noteStored, noteDisk, noteBefore>>)
       /\ injections' \subseteq NoteEntries /\ \A e \in injections' : e.of = "closed"
       /\ coming \cap Note!NotesOf(injections') = {} /\ Note!NotesOf(injections') \cap owed' = {}
       /\ Note!NotesOf(injections') \subseteq superseded'
       /\ since \subseteq notes \cup boundary \cup waited
       /\ owed' \subseteq noteBefore' \cup notes \cup boundary \cup waited
       /\ boundary \cap has = {} /\ waited \cap owed' \subseteq boundary
       /\ warm => notes \cap has \subseteq superseded

LEMMA OpensKeepsNotes ==
    ASSUME NotesInv, NEW warm \in BOOLEAN, NEW notes, NEW boundary, NEW has, NEW since,
           Note!Opens(warm, notes, boundary, has, since), MayOpen(warm, notes, boundary, has, since)
    PROVE  NotesInv'
<1> USE DEF MayOpen
<1> DEFINE waited == IF warm THEN interrupted ELSE {}
           seeded == IF warm THEN {} ELSE has
           told == Note!Deferred(notes, seeded, boundary) \cup boundary
<1>1. /\ noteRun' = [state |-> "open", knows |-> has
            \cup told, own |-> FALSE, carried |-> waited \cup notes \cup boundary]
      /\ noteTurn' = since \cup notes \cup boundary /\ repeated' = repeated \cup (told \cap has)
      /\ undelivered' = {} /\ interrupted' = {}
  BY DEF Note!Opens
<1>2. /\ waited \subseteq Notes /\ told \subseteq Notes /\ told \cap has \subseteq superseded
      /\ notes \cup boundary \subseteq has \cup told /\ told \subseteq notes \cup boundary
      /\ waited \cap owed' \subseteq boundary /\ coming \cap waited = {}
  BY DEF Note!Deferred, NotesInv, NoteTypes, NotesInPlace
<1> HIDE DEF waited, told
<1>3. /\ noteRun' \in TellingRuns /\ noteRun'.state = "open" /\ noteRun'.knows = has
            \cup told /\ ~noteRun'.own
      /\ noteRun'.carried = waited \cup notes \cup boundary
  BY <1>1, <1>2 DEF TellingRuns
<1>4. \A e \in injections' : e.of # "open"
  OBVIOUS
<1>5. Injected("open")' = {} /\ Injected("closed")' \subseteq Note!NotesOf(injections')
  BY <1>4 DEF Injected, Note!NotesOf, Note!Entries
<1>6. /\ noteStored' \in NoteCheckpoints /\ noteDisk' \in NoteSnapshots
      /\ coming \cap (noteStored'.holds \cup noteDisk'.checkpoint.holds \cup noteDisk'.note
            \cup noteDisk'.runNote) = {}
      /\ noteBefore' \cap (noteStored'.holds \cup noteDisk'.checkpoint.holds) = {}
      /\ noteDisk'.checkpoint.holds \cap noteDisk'.note \subseteq superseded
  <2>1. CASE noteStored' = Note!NoCheckpoint /\ noteDisk' = Note!NoSnapshot
    BY <2>1, NothingKept DEF Note!NoCheckpoint, Note!NoSnapshot
  <2>2. CASE UNCHANGED <<noteStored, noteDisk, noteBefore>>
    BY <2>2 DEF NotesInv, NoteTypes, NotesInPlace, StoredOnce
  <2> QED BY <2>1, <2>2
<1>7. NoteTypes'
  <2>1. noteFrames' \in Seq(CursorFrames)
    OBVIOUS
  <2>2. noteTurn' \subseteq Notes /\ repeated' \subseteq Notes /\ coming' \subseteq Notes
    BY <1>1, <1>2 DEF NotesInv, NoteTypes
  <2> QED BY <1>1, <1>3, <1>6, <2>1, <2>2 DEF NoteTypes
<1>8. NotesInPlace'
  <2>1. coming \cap (has \cup told \cup waited \cup notes \cup boundary) = {}
    BY <1>2
  <2>2. coming' \cap (noteBefore' \cup noteHistory' \cup owed' \cup noteTurn') = {}
    BY <1>1
  <2>3. coming' \cap (undelivered' \cup interrupted' \cup Note!NotesOf(injections')
            \cup noteRun'.knows \cup noteRun'.carried) = {}
    BY <1>1, <1>3, <2>1
  <2> QED BY <1>5, <1>6, <2>2, <2>3 DEF NotesInPlace, Note!NotesOf
<1>9. RunInPlace'
  <2>1. noteBefore' \subseteq noteTurn' /\ noteTurn' \subseteq noteRun'.carried
    BY <1>1, <1>3 DEF waited
  <2>2. noteRun'.carried \cap owed' \subseteq noteTurn'
    BY <1>1, <1>2, <1>3
  <2> QED BY <1>1, <1>3, <1>5, <2>1, <2>2 DEF RunInPlace
<1>10. NotesHeld'
  BY <1>1, <1>3 DEF NotesHeld, waited
<1>11. FramesInOrder'
  BY <1>2, <1>3, <1>4 DEF FramesInOrder
<1>12. HeardOnce'
  BY <1>1, <1>4, <1>5 DEF HeardOnce
<1>13. StoredOnce' /\ KeptOnce' /\ Note!ToldOnce'
  BY <1>1, <1>2, <1>5, <1>6 DEF StoredOnce, KeptOnce, NotesInv, Note!ToldOnce, Note!NotesOf
<1> QED BY <1>7, <1>8, <1>9, <1>10, <1>11, <1>12, <1>13 DEF NotesInv

\* No Run opens, and these notes wait for the next request.
MayFail(warm, notes, next, since) ==
    LET waited == IF warm THEN interrupted ELSE {}
    IN /\ {notes, since, noteBefore', noteHistory', owed'} \subseteq SUBSET Notes
       /\ coming' = coming /\ noteFrames' = <<>> /\ noteRebase' \in BOOLEAN /\ superseded' = superseded
       /\ \/ next = Note!NoRun
          \/ /\ next = noteRun /\ noteRun.state = "broken" /\ since = noteTurn /\ ~warm
             /\ UNCHANGED <<noteBefore, noteHistory, owed>>
       /\ coming \cap (noteBefore' \cup noteHistory' \cup notes \cup since \cup owed') = {}
       /\ noteBefore' \cap noteHistory' = {} /\ injections' = {}
       /\ (noteStored' = Note!NoCheckpoint /\ noteDisk' = Note!NoSnapshot) \/ (warm /\ UNCHANGED <<noteStored, noteDisk, noteBefore>>)
       /\ owed' \cup since \subseteq noteBefore' \cup notes \cup waited
       /\ waited \cap owed' \subseteq noteBefore'
       /\ warm => noteStored.holds \cap notes \subseteq superseded

LEMMA FailsKeepsNotes ==
    ASSUME NotesInv, NEW warm \in BOOLEAN, NEW notes, NEW next, NEW since,
           Note!Fails(warm, notes, next, since), MayFail(warm, notes, next, since)
    PROVE  NotesInv'
<1> USE DEF MayFail
<1>1. /\ noteRun' = next /\ undelivered' = notes /\ interrupted' = (IF warm THEN interrupted ELSE {})
      /\ noteTurn' = since /\ repeated' = repeated
  BY DEF Note!Fails
<1>2. /\ noteRun' \in TellingRuns /\ noteRun'.state \in {"none", "broken"}
      /\ coming \cap (noteRun'.knows \cup noteRun'.carried \cup interrupted') = {}
      /\ interrupted' \subseteq Notes /\ interrupted' \cap owed' \subseteq noteBefore'
  <2>1. CASE next = Note!NoRun
    BY <1>1, <2>1, NothingKept DEF NotesInv, NoteTypes, NotesInPlace, Note!NoRun
  <2>2. CASE next # Note!NoRun
    BY <1>1, <2>2 DEF NotesInv, NoteTypes, NotesInPlace
  <2> QED BY <2>1, <2>2
<1>3. /\ noteStored' \in NoteCheckpoints /\ noteDisk' \in NoteSnapshots
      /\ coming \cap (noteStored'.holds \cup noteDisk'.checkpoint.holds \cup noteDisk'.note
            \cup noteDisk'.runNote) = {}
      /\ noteBefore' \cap (noteStored'.holds \cup noteDisk'.checkpoint.holds) = {}
      /\ noteDisk'.checkpoint.holds \cap noteDisk'.note \subseteq superseded
      /\ noteStored'.holds \cap undelivered' \subseteq superseded
  <2>1. CASE noteStored' = Note!NoCheckpoint /\ noteDisk' = Note!NoSnapshot
    BY <2>1, NothingKept DEF Note!NoCheckpoint, Note!NoSnapshot
  <2>2. CASE warm /\ UNCHANGED <<noteStored, noteDisk, noteBefore>>
    BY <1>1, <2>2 DEF NotesInv, NoteTypes, NotesInPlace, StoredOnce
  <2> QED BY <2>1, <2>2
<1>4. Injected("open")' = {} /\ Injected("closed")' = {} /\ Note!NotesOf(injections') = {}
  BY DEF Injected, Note!NotesOf, Note!Entries
<1>5. NoteTypes'
  <2>1. noteFrames' \in Seq(CursorFrames) /\ injections' \subseteq NoteEntries
    OBVIOUS
  <2>2. /\ noteTurn' \subseteq Notes /\ repeated' \subseteq Notes /\ coming' \subseteq Notes /\ superseded' \subseteq Notes
        /\ undelivered' \subseteq Notes
    BY <1>1 DEF NotesInv, NoteTypes
  <2> QED BY <1>2, <1>3, <2>1, <2>2 DEF NoteTypes
<1>6. NotesInPlace'
  <2>1. coming' \cap (noteBefore' \cup noteHistory' \cup owed' \cup noteTurn') = {}
    BY <1>1
  <2>2. coming' \cap (undelivered' \cup interrupted' \cup Note!NotesOf(injections)'
            \cup noteRun'.knows \cup noteRun'.carried) = {}
    BY <1>1, <1>2, <1>4 DEF Note!NotesOf
  <2> QED BY <1>3, <1>4, <2>1, <2>2 DEF NotesInPlace
<1>7. RunInPlace'
  <2>1. CASE next = Note!NoRun
    <3>1. noteRun' = Note!NoRun
      BY <1>1, <2>1
    <3> QED BY <1>2, <1>4, <3>1 DEF RunInPlace, Note!NoRun
  <2>2. CASE next # Note!NoRun
    BY <1>1, <1>2, <1>4, <2>2 DEF NotesInv, RunInPlace
  <2> QED BY <2>1, <2>2
<1>8. NotesHeld'
  BY <1>1 DEF NotesHeld
<1>9. FramesInOrder' /\ HeardOnce'
  BY <1>2 DEF FramesInOrder, HeardOnce
<1>10. StoredOnce' /\ KeptOnce' /\ Note!ToldOnce'
  BY <1>1, <1>3, <1>4 DEF StoredOnce, KeptOnce, NotesInv, Note!ToldOnce, Note!NotesOf
<1> QED BY <1>5, <1>6, <1>7, <1>8, <1>9, <1>10 DEF NotesInv

LEMMA SeedsAreHistory ==
    ASSUME NEW notes, NEW seeded \in Note!Seeds(notes) PROVE seeded \subseteq notes
BY DEF Note!Seeds

\* The notes of the injections are those of the open Run and of closed ones.
LEMMA InjectedSplit ==
    ASSUME NotesInv
    PROVE  /\ Note!NotesOf(injections) = Injected("open") \cup Injected("closed")
           /\ Note!NotesOf(injections) \subseteq Notes
           /\ Note!Released = Injected("closed") /\ Note!NotesOf(Note!Unacked("open")) = Injected("open")
BY DEF NotesInv, NoteTypes, NoteEntries, Injected, Note!NotesOf, Note!Entries, Note!Released, Note!Unacked

LEMMA NewTurnKeepsNotes ==
    ASSUME NotesInv, Note!NewTurn PROVE NotesInv'
<1>0. /\ noteRun = Note!NoRun /\ Injected("open") = {} /\ Note!NoRun.state = "none"
      /\ Note!NotesOf(injections) = Note!Released /\ Note!Released \subseteq Notes
      /\ injections' = {} /\ noteFrames' = <<>> /\ UNCHANGED <<coming, noteBefore, noteHistory,
                                                               owed, superseded>>
  BY InjectedSplit DEF Note!NewTurn, Note!host, NotesInv, RunInPlace, Note!NoRun
<1>1. /\ Note!NotesOf(injections') = {} /\ noteRun.carried = {}
      /\ owed \cup noteTurn \subseteq noteBefore \cup Note!Released \cup undelivered \cup interrupted
  BY <1>0 DEF NotesInv, NotesHeld, Note!NoRun, Note!NotesOf
<1>2. /\ coming \cap (noteBefore \cup noteHistory \cup owed \cup noteTurn \cup undelivered
            \cup Note!Released \cup interrupted) = {}
      /\ noteBefore \cap noteHistory = {} /\ interrupted \cap owed \subseteq noteBefore
      /\ {noteBefore, noteHistory, owed, noteTurn, undelivered, interrupted} \subseteq SUBSET Notes
  BY <1>0 DEF NotesInv, NotesInPlace, RunInPlace, NoteTypes
<1>3. noteRebase \in BOOLEAN
  BY DEF NotesInv, NoteTypes
<1>4. ASSUME noteStored.has, NEW notes, notes = undelivered \cup Note!Released,
             Note!Opens(TRUE, notes, noteBefore, noteStored.holds, noteTurn) \/ Note!Fails(TRUE, notes, Note!NoRun, noteTurn),
             UNCHANGED <<noteStored, noteDisk, noteRebase>>
      PROVE  NotesInv'
  <2>1. /\ noteStored.holds \in SUBSET Notes /\ noteBefore \cap noteStored.holds = {}
        /\ noteStored.holds \cap notes \subseteq superseded
        /\ coming \cap noteStored.holds = {} /\ superseded \subseteq Notes
    BY <1>0, <1>4 DEF NotesInv, NoteTypes, NoteCheckpoints, NotesInPlace, StoredOnce
  <2>2. MayOpen(TRUE, notes, noteBefore, noteStored.holds, noteTurn)
    BY <1>0, <1>1, <1>2, <1>3, <1>4, <2>1 DEF MayOpen
  <2>3. MayFail(TRUE, notes, Note!NoRun, noteTurn)
    BY <1>0, <1>1, <1>2, <1>3, <1>4, <2>1 DEF MayFail
  <2> QED BY <1>4, <2>2, <2>3, OpensKeepsNotes, FailsKeepsNotes
<1>5. ASSUME NEW notes, notes = undelivered \cup Note!Released \cup interrupted,
             \/ \E seeded \in Note!Seeds(noteHistory) : Note!Opens(FALSE, notes, noteBefore, seeded, noteTurn)
             \/ Note!Fails(FALSE, notes, Note!NoRun, noteTurn),
             Note!StartsOver
      PROVE  NotesInv'
  <2>1. noteStored' = Note!NoCheckpoint /\ noteDisk' = Note!NoSnapshot /\ noteRebase' \in BOOLEAN /\ superseded \subseteq Notes
    BY <1>5 DEF Note!StartsOver, NotesInv, NoteTypes
  <2>2. ASSUME NEW seeded \in Note!Seeds(noteHistory), Note!Opens(FALSE, notes, noteBefore, seeded, noteTurn)
        PROVE  NotesInv'
    <3>1. seeded \subseteq noteHistory
      BY SeedsAreHistory
    <3>2. MayOpen(FALSE, notes, noteBefore, seeded, noteTurn)
      BY <1>0, <1>1, <1>2, <1>5, <2>1, <3>1 DEF MayOpen
    <3> QED BY <2>2, <3>2, OpensKeepsNotes
  <2>3. MayFail(FALSE, notes, Note!NoRun, noteTurn)
    BY <1>0, <1>1, <1>2, <1>5, <2>1 DEF MayFail
  <2> QED BY <1>5, <2>2, <2>3, FailsKeepsNotes
<1> QED BY <1>4, <1>5 DEF Note!NewTurn

\* Injections of a Run that closes keep their notes.
LEMMA ClosedEntries ==
    ASSUME NEW S \in SUBSET NoteEntries
    PROVE  LET T == {[e EXCEPT !.of = "closed"] : e \in S}
           IN  T \subseteq NoteEntries /\ (\A e \in T : e.of = "closed") /\ Note!NotesOf(T) = Note!NotesOf(S)
<1> DEFINE closed(e) == [e EXCEPT !.of = "closed"]
           T == {closed(e) : e \in S}
<1>1. \A e \in NoteEntries : closed(e) \in NoteEntries /\ closed(e).of = "closed" /\ closed(e).note = e.note
  BY DEF NoteEntries
<1>2. (\A e \in S : closed(e) \in T) /\ \A x \in T : \E e \in S : x = closed(e)
  OBVIOUS
<1> HIDE DEF closed, T
<1>3. T \subseteq NoteEntries /\ \A x \in T : x.of = "closed" /\ \E e \in S : x.note = e.note
  BY <1>1, <1>2
<1>4. \A e \in S : \E x \in T : x.note = e.note
  BY <1>1, <1>2
<1>5. Note!NotesOf(T) = Note!NotesOf(S)
  BY <1>3, <1>4 DEF Note!NotesOf
<1> QED BY <1>3, <1>5 DEF T, closed

LEMMA NewTurnRewrittenKeepsNotes ==
    ASSUME NotesInv, Note!NewTurnRewritten PROVE NotesInv'
<1> DEFINE notes == undelivered \cup Note!Released \cup noteRun.carried
      \cup Note!NotesOf(Note!Unacked("open")) \cup interrupted
<1>1. /\ injections' = {} /\ noteFrames' = <<>> /\ UNCHANGED <<coming, noteBefore, noteHistory,
                                                               owed, superseded>>
      /\ noteStored' = Note!NoCheckpoint /\ noteDisk' = Note!NoSnapshot /\ noteRebase' \in BOOLEAN
  BY DEF Note!NewTurnRewritten, Note!StartsOver, Note!host
<1>2. /\ notes = undelivered \cup Note!NotesOf(injections) \cup noteRun.carried \cup interrupted
      /\ Note!NotesOf(injections) \subseteq Notes
  BY InjectedSplit
<1> HIDE DEF notes
<1>3. /\ {notes, noteBefore, noteHistory, noteTurn, owed, superseded} \subseteq SUBSET Notes
      /\ coming \cap (noteBefore \cup noteHistory \cup notes \cup noteTurn \cup owed) = {}
      /\ owed \cup noteTurn \subseteq noteBefore \cup notes /\ noteBefore \cap noteHistory = {}
  BY <1>2 DEF NotesInv, NoteTypes, TellingRuns, NotesInPlace, NotesHeld
<1>4. Note!NotesOf(injections') = {}
  BY <1>1 DEF Note!NotesOf
<1>5. ASSUME NEW seeded \in Note!Seeds(noteHistory), Note!Opens(FALSE, notes, noteBefore, seeded, noteTurn)
      PROVE  NotesInv'
  <2>1. seeded \subseteq noteHistory
    BY SeedsAreHistory
  <2>2. MayOpen(FALSE, notes, noteBefore, seeded, noteTurn)
    BY <1>1, <1>3, <1>4, <2>1 DEF MayOpen
  <2> QED BY <1>5, <2>2, OpensKeepsNotes
<1>6. MayFail(FALSE, notes, Note!NoRun, noteTurn)
  BY <1>1, <1>3 DEF MayFail
<1> QED BY <1>5, <1>6, FailsKeepsNotes DEF Note!NewTurnRewritten, notes

LEMMA NewTurnUnfinishedKeepsNotes ==
    ASSUME NotesInv, Note!NewTurnUnfinished PROVE NotesInv'
<1> DEFINE notes == undelivered \cup Note!Released \cup interrupted
<1>1. /\ injections' = {[e EXCEPT !.of = "closed"] : e \in Note!Unacked("open")}
      /\ noteFrames' = <<>> /\ UNCHANGED <<coming, noteBefore, noteHistory>>
      /\ superseded' = superseded \cup Injected("open") /\ owed' = (owed \ noteTurn) \ noteHistory
      /\ noteStored' = Note!NoCheckpoint /\ noteDisk' = Note!NoSnapshot /\ noteRebase' \in BOOLEAN
      /\ noteRun.state = "open" /\ ~noteRebase /\ Note!Opens(FALSE, notes, noteBefore, noteHistory, {})
  BY InjectedSplit DEF Note!NewTurnUnfinished, Note!StartsOver, Note!host
<1>2. notes \subseteq undelivered \cup Note!NotesOf(injections)
          \cup interrupted /\ Note!NotesOf(injections) \subseteq Notes
      /\ Injected("closed") \subseteq notes /\ undelivered \cup interrupted \subseteq notes
  BY InjectedSplit
<1> HIDE DEF notes
<1>3. /\ {notes, noteBefore, noteHistory, owed, superseded, owed'} \subseteq SUBSET Notes
      /\ coming \cap (noteBefore \cup noteHistory \cup notes
            \cup owed') = {} /\ noteBefore \cap noteHistory = {}
      /\ coming \cap Note!NotesOf(injections) = {} /\ Injected("open") \subseteq noteHistory
      /\ noteRun.carried \cap owed' = {} /\ noteBefore \cap owed' = {}
  BY <1>1, <1>2 DEF NotesInv, NoteTypes, NotesInPlace, RunInPlace
<1>4. /\ injections' \subseteq NoteEntries /\ \A e \in injections' : e.of = "closed"
      /\ Note!NotesOf(injections') = Injected("open")
  <2>1. Note!Unacked("open") \subseteq NoteEntries
    BY DEF Note!Unacked, Note!Entries, NotesInv, NoteTypes
  <2> QED BY <1>1, <2>1, ClosedEntries DEF Injected, Note!Unacked
<1>5. owed' \subseteq notes
  <2>1. Note!NotesOf(injections) = Injected("open") \cup Injected("closed")
    BY InjectedSplit
  <2> QED BY <1>1, <1>2, <1>3, <2>1 DEF NotesInv, NotesHeld
<1>6. MayOpen(FALSE, notes, noteBefore, noteHistory, {})
  <2>1. Injected("open") \subseteq Notes /\ Injected("open") \cap coming = {} /\ Injected("open") \cap owed' = {}
    BY <1>1, <1>2, <1>3, InjectedSplit
  <2> QED BY <1>1, <1>3, <1>4, <1>5, <2>1 DEF MayOpen
<1> QED BY <1>1, <1>6, OpensKeepsNotes

LEMMA ContinuationKeepsNotes ==
    ASSUME NotesInv, Note!Continuation PROVE NotesInv'
<1> DEFINE notes == undelivered \cup Note!Released \cup Note!NotesOf(Note!Unacked("open")) \cup interrupted
           since == IF noteRun.state = "open" THEN {} ELSE noteTurn
<1>1. /\ injections' = {} /\ noteFrames' = <<>> /\ UNCHANGED <<coming, superseded>>
      /\ noteStored' = Note!NoCheckpoint /\ noteDisk' = Note!NoSnapshot /\ noteRebase' \in BOOLEAN
      /\ noteBefore' = {} /\ noteHistory' = noteHistory \cup noteBefore
      /\ owed' = IF noteRun.state = "open" THEN owed \ noteTurn ELSE owed
      /\ noteRun.state = "open" \/ (noteRun.state = "none" /\ noteBefore = {})
  BY DEF Note!Continuation, Note!StartsOver, Note!Replied
<1>2. /\ notes = undelivered \cup Note!NotesOf(injections) \cup interrupted
      /\ Note!NotesOf(injections) \subseteq Notes
  BY InjectedSplit
<1> HIDE DEF notes
<1>3. /\ {notes, noteBefore', noteHistory', since, owed', superseded} \subseteq SUBSET Notes
      /\ coming \cap (noteBefore' \cup noteHistory' \cup notes \cup since \cup owed') = {}
  BY <1>1, <1>2 DEF NotesInv, NoteTypes, NotesInPlace
<1>4. owed' \cup since \subseteq notes
  <2>1. CASE noteRun.state = "open"
    BY <1>1, <1>2, <2>1 DEF NotesInv, NotesHeld, RunInPlace
  <2>2. CASE noteRun.state = "none" /\ noteBefore = {}
    BY <1>1, <1>2, <2>2 DEF NotesInv, NotesHeld, RunInPlace, Note!NoRun
  <2> QED BY <1>1, <2>1, <2>2
<1>5. Note!NotesOf(injections') = {}
  BY <1>1 DEF Note!NotesOf
<1> HIDE DEF since
<1>6. ASSUME NEW seeded \in Note!Seeds(noteHistory
          \cup noteBefore), Note!Opens(FALSE, notes, {}, seeded, since)
      PROVE  NotesInv'
  <2>1. seeded \subseteq noteHistory'
    BY <1>1, SeedsAreHistory
  <2>2. MayOpen(FALSE, notes, {}, seeded, since)
    BY <1>1, <1>3, <1>4, <1>5, <2>1 DEF MayOpen
  <2> QED BY <1>6, <2>2, OpensKeepsNotes
<1>7. MayFail(FALSE, notes, Note!NoRun, since)
  BY <1>1, <1>3, <1>4 DEF MayFail
<1> QED BY <1>6, <1>7, FailsKeepsNotes DEF Note!Continuation, notes, since

LEMMA RebasesKeepsNotes ==
    ASSUME NotesInv, Note!Rebases PROVE NotesInv'
<1> DEFINE notes == undelivered \cup Note!Transferred \cup Note!Released \cup interrupted
<1>1. /\ injections' = {} /\ UNCHANGED <<coming, noteBefore, noteHistory, owed, superseded, noteFrames>>
      /\ noteStored' = Note!NoCheckpoint /\ noteDisk' = Note!NoSnapshot /\ noteRebase' \in BOOLEAN
      /\ noteRun.state = "broken"
  BY DEF Note!Rebases, Note!StartsOver, Note!host
<1>2. /\ notes = undelivered \cup Note!NotesOf(injections) \cup noteRun.carried \cup interrupted
      /\ Note!NotesOf(injections) \subseteq Notes
  BY InjectedSplit DEF Note!Transferred
<1> HIDE DEF notes
<1>3. /\ {notes, noteBefore, noteHistory, noteTurn, owed, superseded} \subseteq SUBSET Notes
      /\ coming \cap (noteBefore \cup noteHistory \cup notes \cup noteTurn \cup owed) = {}
      /\ noteBefore \cap noteHistory = {} /\ noteFrames = <<>> /\ noteBefore \subseteq noteTurn /\ noteTurn \subseteq notes
      /\ owed \cup noteTurn \subseteq notes
  BY <1>1, <1>2 DEF NotesInv, NoteTypes, TellingRuns, NotesInPlace, NotesHeld, RunInPlace
<1>4. Note!NotesOf(injections') = {}
  BY <1>1 DEF Note!NotesOf
<1>5. ASSUME NEW boundary \in {noteBefore, {}}, NEW seeded \in Note!Seeds(noteHistory
          \cup (noteBefore \ boundary)),
             Note!Opens(FALSE, notes, boundary, seeded, noteTurn)
      PROVE  NotesInv'
  <2>1. seeded \subseteq noteHistory \cup (noteBefore \ boundary)
    BY SeedsAreHistory
  <2>2. MayOpen(FALSE, notes, boundary, seeded, noteTurn)
    BY <1>1, <1>3, <1>4, <2>1 DEF MayOpen
  <2> QED BY <1>5, <2>2, OpensKeepsNotes
<1>6. ASSUME NEW seeded \in Note!Seeds(noteHistory), Note!Opens(FALSE, notes, noteBefore, seeded, noteTurn)
      PROVE  NotesInv'
  <2>1. noteHistory \cup (noteBefore \ noteBefore) = noteHistory
    OBVIOUS
  <2> QED BY <1>5, <1>6, <2>1
<1>7. ASSUME NEW seeded \in Note!Seeds(noteHistory
          \cup noteBefore), Note!Opens(FALSE, notes, {}, seeded, noteTurn)
      PROVE  NotesInv'
  <2>1. noteHistory \cup (noteBefore \ {}) = noteHistory \cup noteBefore
    OBVIOUS
  <2> QED BY <1>5, <1>7, <2>1
<1>8. ASSUME Note!Fails(FALSE, notes, noteRun, noteTurn)
      PROVE  NotesInv'
  <2>1. MayFail(FALSE, notes, noteRun, noteTurn)
    BY <1>1, <1>3 DEF MayFail
  <2> QED BY <1>8, <2>1, FailsKeepsNotes
<1> QED BY <1>6, <1>7, <1>8 DEF Note!Rebases, notes

\* Snapshots of what is in memory: nothing in them is still to come.
LEMMA SavedInPlace ==
    ASSUME NotesInv, noteRun.state # "none" PROVE
      /\ Note!InProgress \in NoteSnapshots
      /\ coming \cap (Note!InProgress.checkpoint.holds \cup Note!InProgress.note
            \cup Note!InProgress.runNote) = {}
      /\ noteBefore \cap Note!InProgress.checkpoint.holds = {}
      /\ Note!InProgress.checkpoint.holds \cap Note!InProgress.note \subseteq superseded
      /\ Note!InProgress = [checkpoint |-> noteStored, note |-> undelivered \cup Injected("open"),
                       runNote |-> noteRun.carried, rebase |-> noteRebase]
<1>1. Note!InProgress = [checkpoint |-> noteStored, note |-> undelivered \cup Injected("open"),
                    runNote |-> noteRun.carried, rebase |-> noteRebase]
  BY InjectedSplit DEF Note!InProgress
<1>2. /\ noteStored \in NoteCheckpoints /\ noteRebase \in BOOLEAN
      /\ {undelivered \cup Injected("open"), noteRun.carried} \subseteq SUBSET Notes
      /\ Injected("open") \subseteq Note!NotesOf(injections)
  BY InjectedSplit DEF NotesInv, NoteTypes, TellingRuns
<1>3. Note!InProgress \in NoteSnapshots
  BY <1>1, <1>2 DEF NoteSnapshots
<1> QED BY <1>1, <1>2, <1>3 DEF NotesInv, NotesInPlace, StoredOnce

LEMMA StepDoneKeepsNotes ==
    ASSUME NotesInv, NEW n \in Notes, Note!StepDone(n) PROVE NotesInv'
<1> DEFINE e0 == [note |-> n, of |-> "open", delivered |-> FALSE]
<1>1. /\ noteRun.state = "open" /\ n \in coming /\ ~noteRebase
      /\ coming' = coming \ {n} /\ owed' = owed \cup {n}
      /\ noteBefore' = {} /\ noteHistory' = noteHistory \cup noteBefore \cup {n}
      /\ UNCHANGED <<noteStored, noteRun, noteFrames, interrupted, noteRebase, noteDisk, noteTurn,
                     superseded, repeated>>
      /\ \/ undelivered' = undelivered \cup {n} /\ injections' = injections
         \/ undelivered' = undelivered /\ injections' = injections \cup {e0}
  BY DEF Note!StepDone
<1>2. /\ e0 \in NoteEntries /\ e0.note = n /\ e0.of = "open" /\ ~e0.delivered
  BY DEF NoteEntries
<1> HIDE DEF e0
<1>3. /\ Note!NotesOf(injections) \subseteq Note!NotesOf(injections)' /\ Note!NotesOf(injections)' \subseteq Note!NotesOf(injections) \cup {n}
      /\ Injected("open")' \subseteq Injected("open") \cup {n} /\ Injected("closed")' = Injected("closed")
      /\ n \in Note!NotesOf(injections)' \cup undelivered'
      /\ n \in Injected("open")' => undelivered' = undelivered
  BY <1>1, <1>2, InjectedSplit DEF Note!NotesOf, Injected, Note!Entries, NotesInv, NotesInPlace
<1>4. /\ n \notin noteBefore \cup noteHistory \cup owed \cup noteTurn \cup undelivered
            \cup interrupted \cup noteRun.knows
             \cup noteRun.carried \cup noteStored.holds \cup noteDisk.checkpoint.holds
                   \cup noteDisk.note \cup noteDisk.runNote
      /\ n \notin Note!NotesOf(injections)
  BY <1>1 DEF NotesInv, NotesInPlace
<1>5. NoteTypes'
  BY <1>1, <1>2 DEF NotesInv, NoteTypes
<1>6. NotesInPlace'
  BY <1>1, <1>3 DEF NotesInv, NotesInPlace
<1>7. RunInPlace'
  BY <1>1, <1>3, <1>4, InjectedSplit DEF NotesInv, RunInPlace
<1>8. NotesHeld'
  BY <1>1, <1>3 DEF NotesInv, NotesHeld, RunInPlace
<1>9. FramesInOrder'
  BY <1>1, <1>2, <1>4 DEF NotesInv, FramesInOrder, FrameIs
<1>10. HeardOnce'
  BY <1>1, <1>2, <1>3, <1>4 DEF NotesInv, HeardOnce, FramesInOrder, FrameIs
<1>11. StoredOnce' /\ KeptOnce' /\ Note!ToldOnce'
  BY <1>1, <1>3, <1>4, InjectedSplit DEF NotesInv, StoredOnce, KeptOnce, Note!ToldOnce
<1> QED BY <1>5, <1>6, <1>7, <1>8, <1>9, <1>10, <1>11 DEF NotesInv

LEMMA CursorAnswersKeepsNotes ==
    ASSUME NotesInv, NEW e0 \in injections, Note!CursorAnswers(e0) PROVE NotesInv'
<1>1. /\ e0.of = "open" /\ ~e0.delivered /\ ~Note!About(e0.note) /\ noteRun.state = "open"
      /\ UNCHANGED <<coming, noteBefore, noteHistory, noteStored, injections, undelivered,
                     interrupted, noteRebase, noteDisk,
                     owed, noteTurn, superseded, repeated>>
  BY DEF Note!CursorAnswers, Note!Sends, Note!host, Note!kept, Note!truth
<1>2. e0 \in NoteEntries /\ e0.note \in Notes /\ e0.note \in Injected("open") /\ noteFrames \in Seq(CursorFrames)
  BY <1>1 DEF NotesInv, NoteTypes, NoteEntries, Injected, Note!NotesOf, Note!Entries
<1>3. PICK x \in CursorFrames :
        /\ noteFrames' = noteFrames \o <<x>> /\ x.is \in {"delivered", "declined"} /\ x.note = e0.note
        /\ x.is = "delivered" => noteRun' = [noteRun EXCEPT !.knows = @ \cup {e0.note}]
        /\ x.is = "declined" => noteRun' = noteRun
  <2>1. [is |-> "delivered", note |-> e0.note] \in CursorFrames /\ [is |-> "declined", note |-> e0.note] \in CursorFrames
    BY <1>2 DEF CursorFrames
  <2> QED BY <2>1 DEF Note!CursorAnswers, Note!Sends
<1>4. /\ noteFrames' \in Seq(CursorFrames) /\ Len(noteFrames) \in Nat
      /\ DOMAIN noteFrames = 1..Len(noteFrames) /\ DOMAIN noteFrames' = 1..(Len(noteFrames) + 1)
      /\ \A i \in DOMAIN noteFrames : noteFrames'[i] = noteFrames[i]
      /\ noteFrames'[Len(noteFrames) + 1] = x
  BY <1>2, <1>3, FrameJoins
<1>5. /\ noteRun' \in TellingRuns /\ noteRun'.state = "open" /\ noteRun'.carried = noteRun.carried /\ noteRun'.own = noteRun.own
      /\ noteRun.knows \subseteq noteRun'.knows /\ noteRun'.knows \subseteq noteRun.knows \cup {e0.note}
      /\ x.is = "delivered" => e0.note \in noteRun'.knows
      /\ x.is = "declined" => noteRun'.knows = noteRun.knows
  BY <1>1, <1>2, <1>3 DEF NotesInv, NoteTypes, TellingRuns
<1>6. /\ ~\E i \in DOMAIN noteFrames : noteFrames[i].is \in {"delivered", "declined"} /\ noteFrames[i].note = e0.note
      /\ e0.note \notin coming
  BY <1>1, <1>2, InjectedSplit DEF Note!About, NotesInv, NotesInPlace
<1>7. e0.note \in noteRun.knows => e0.note \in superseded
  BY <1>1, <1>6 DEF NotesInv, HeardOnce, FrameIs
<1>8. NoteTypes'
  BY <1>1, <1>4, <1>5 DEF NotesInv, NoteTypes
<1>9. NotesInPlace'
  BY <1>1, <1>5, <1>6 DEF NotesInv, NotesInPlace, Injected, Note!Entries, Note!NotesOf
<1>10. RunInPlace'
  BY <1>1, <1>5 DEF NotesInv, RunInPlace, Injected, Note!Entries, Note!NotesOf
<1>11. NotesHeld'
  BY <1>1, <1>5 DEF NotesInv, NotesHeld, Note!NotesOf
<1>12. FramesInOrder'
  BY <1>1, <1>3, <1>4, <1>5 DEF NotesInv, FramesInOrder, FrameIs
<1>13. HeardOnce'
  <2>1. undelivered' \cap noteRun'.knows \subseteq superseded' /\ Injected("closed")' \subseteq superseded'
    BY <1>1, <1>2, <1>5 DEF NotesInv, HeardOnce, KeptOnce, Injected, Note!Entries, Note!NotesOf
  <2>2. \A e \in injections' : e.of = "open" /\ ~e.delivered /\ e.note \notin superseded' /\ e.note \in noteRun'.knows =>
          \E j \in DOMAIN noteFrames' : FrameIs(j, "delivered")' /\ noteFrames'[j].note = e.note
    BY <1>1, <1>3, <1>4, <1>5 DEF NotesInv, HeardOnce, FrameIs
  <2>3. \A e \in injections' : e.of = "open" /\ ~e.delivered /\ e.note \notin superseded' =>
          \A i \in DOMAIN noteFrames' : FrameIs(i, "checkpoint")' /\ e.note \in noteFrames'[i].holds =>
                \E j \in DOMAIN noteFrames' : j < i /\ FrameIs(j, "delivered")' /\ noteFrames'[j].note = e.note
    BY <1>1, <1>3, <1>4 DEF NotesInv, HeardOnce, FrameIs
  <2>4. \A j \in DOMAIN noteFrames' : FrameIs(j, "declined")'
            => noteFrames'[j].note \notin noteRun'.knows \/ noteFrames'[j].note \in superseded'
    BY <1>1, <1>3, <1>4, <1>5, <1>6, <1>7 DEF NotesInv, HeardOnce, FrameIs
  <2> QED BY <2>1, <2>2, <2>3, <2>4 DEF HeardOnce
<1>14. StoredOnce' /\ KeptOnce' /\ Note!ToldOnce'
  BY <1>1 DEF NotesInv, StoredOnce, KeptOnce, Note!ToldOnce, Injected, Note!Entries, Note!NotesOf
<1> QED BY <1>8, <1>9, <1>10, <1>11, <1>12, <1>13, <1>14 DEF NotesInv

\* Cursor sends a checkpoint of what the Run knows, and may end the turn.
LEMMA SendsKeepsNotes ==
    ASSUME NotesInv, noteRun' = noteRun, NEW more \in {<<Note!Checkpoint>>, <<Note!Checkpoint, [is |-> "ended"]>>}, Note!Sends(more)
    PROVE  NotesInv'
<1> DEFINE k == Len(noteFrames)
<1>1. /\ noteRun.state = "open" /\ noteFrames' = noteFrames \o more
      /\ UNCHANGED <<coming, noteBefore, noteHistory, noteStored, noteRun, injections, undelivered,
                     interrupted, noteRebase, noteDisk,
                     owed, noteTurn, superseded, repeated>>
  BY DEF Note!Sends, Note!host, Note!kept, Note!truth
<1>2. /\ Note!Checkpoint \in CursorFrames /\ Note!Checkpoint.is = "checkpoint" /\ Note!Checkpoint.holds = noteRun.knows
      /\ [is |-> "ended"] \in CursorFrames /\ noteFrames \in Seq(CursorFrames)
  BY DEF NotesInv, NoteTypes, TellingRuns, CursorFrames, Note!Checkpoint
<1> HIDE DEF Note!Checkpoint
<1>3. /\ noteFrames' \in Seq(CursorFrames) /\ k \in Nat /\ DOMAIN noteFrames = 1..k
      /\ DOMAIN noteFrames' \in {1..(k + 1), 1..(k + 2)}
      /\ \A i \in DOMAIN noteFrames : noteFrames'[i] = noteFrames[i]
      /\ noteFrames'[k + 1] = Note!Checkpoint
      /\ k + 2 \in DOMAIN noteFrames' => noteFrames'[k + 2] = [is |-> "ended"]
  <2>1. CASE more = <<Note!Checkpoint>>
    BY <1>1, <1>2, <2>1, FrameJoins
  <2>2. CASE more = <<Note!Checkpoint, [is |-> "ended"]>>
    BY <1>1, <1>2, <2>2
  <2> QED BY <2>1, <2>2
<1> HIDE DEF k
<1>4. \A i \in DOMAIN noteFrames' :
        /\ i \in DOMAIN noteFrames \/ i = k + 1 \/ (i = k + 2 /\ noteFrames'[i].is = "ended")
        /\ i \in DOMAIN noteFrames => i < k + 1
  BY <1>3
<1>5. NoteTypes'
  BY <1>1, <1>3 DEF NotesInv, NoteTypes
<1>6. NotesInPlace' /\ RunInPlace' /\ NotesHeld'
  BY <1>1 DEF NotesInv, NotesInPlace, RunInPlace, NotesHeld, Injected, Note!Entries, Note!NotesOf
<1>7. FramesInOrder'
  <2>1. \A i \in DOMAIN noteFrames' : FrameIs(i, "checkpoint")' =>
          noteFrames'[i].holds \subseteq noteRun'.knows /\ noteRun'.carried \cap owed' \subseteq noteFrames'[i].holds
    BY <1>1, <1>2, <1>3, <1>4 DEF NotesInv, FramesInOrder, FrameIs
  <2>2. \A i \in DOMAIN noteFrames' : FrameIs(i, "ended")'
            => noteRun'.own \/ \E j \in DOMAIN noteFrames' : j < i /\ FrameIs(j, "checkpoint")'
    <3> SUFFICES ASSUME NEW i \in DOMAIN noteFrames', FrameIs(i, "ended")', ~noteRun.own
                 PROVE  \E j \in DOMAIN noteFrames' : j < i /\ FrameIs(j, "checkpoint")'
      BY <1>1
    <3>1. CASE i \in DOMAIN noteFrames
      <4>1. PICK j \in DOMAIN noteFrames : j < i /\ noteFrames[j].is = "checkpoint"
        BY <1>1, <1>3, <3>1 DEF NotesInv, FramesInOrder, FrameIs
      <4> QED BY <1>3, <4>1 DEF FrameIs
    <3>2. CASE i = k + 2
      BY <1>2, <1>3, <3>2 DEF FrameIs
    <3>3. i # k + 1
      BY <1>2, <1>3 DEF FrameIs
    <3> QED BY <1>4, <3>1, <3>2, <3>3
  <2>3. \A j \in DOMAIN noteFrames' : FrameIs(j, "delivered")' =>
          noteFrames'[j].note \in noteRun'.knows
          /\ \A i \in DOMAIN noteFrames' : i > j /\ FrameIs(i, "checkpoint")'
                => noteFrames'[j].note \in noteFrames'[i].holds
    BY <1>1, <1>2, <1>3, <1>4 DEF NotesInv, FramesInOrder, FrameIs
  <2>4. \A e \in injections' : e.of = "open" /\ e.delivered =>
          e.note \in noteRun'.knows /\ \A i \in DOMAIN noteFrames' : FrameIs(i, "checkpoint")'
                => e.note \in noteFrames'[i].holds
    BY <1>1, <1>2, <1>3, <1>4 DEF NotesInv, FramesInOrder, FrameIs
  <2> QED BY <1>1, <2>1, <2>2, <2>3, <2>4 DEF NotesInv, FramesInOrder
<1>8. HeardOnce'
  <2>1. undelivered' \cap noteRun'.knows \subseteq superseded' /\ Injected("closed")' \subseteq superseded'
    BY <1>1 DEF NotesInv, HeardOnce, Injected, Note!Entries, Note!NotesOf
  <2>2. \A e \in injections' : e.of = "open" /\ ~e.delivered /\ e.note \notin superseded' /\ e.note \in noteRun'.knows =>
          \E j \in DOMAIN noteFrames' : j < k + 1 /\ FrameIs(j, "delivered")' /\ noteFrames'[j].note = e.note
    BY <1>1, <1>3, <1>4 DEF NotesInv, HeardOnce, FrameIs
  <2>3. \A e \in injections' : e.of = "open" /\ ~e.delivered /\ e.note \notin superseded' =>
          \A i \in DOMAIN noteFrames' : FrameIs(i, "checkpoint")' /\ e.note \in noteFrames'[i].holds =>
                \E j \in DOMAIN noteFrames' : j < i /\ FrameIs(j, "delivered")' /\ noteFrames'[j].note = e.note
    <3> SUFFICES ASSUME NEW e \in injections', e.of = "open", ~e.delivered, e.note \notin superseded',
                        NEW i \in DOMAIN noteFrames', FrameIs(i, "checkpoint")', e.note \in noteFrames'[i].holds
                 PROVE  \E j \in DOMAIN noteFrames' : j < i /\ FrameIs(j, "delivered")' /\ noteFrames'[j].note = e.note
      OBVIOUS
    <3>1. CASE i \in DOMAIN noteFrames
      <4>1. noteFrames[i].is = "checkpoint" /\ e.note \in noteFrames[i].holds
        BY <1>3, <3>1 DEF FrameIs
      <4>2. PICK j \in DOMAIN noteFrames : j < i /\ noteFrames[j].is = "delivered" /\ noteFrames[j].note = e.note
        BY <1>1, <3>1, <4>1 DEF NotesInv, HeardOnce, FrameIs
      <4> QED BY <1>3, <4>2 DEF FrameIs
    <3>2. CASE i = k + 1
      BY <1>1, <1>2, <1>3, <2>2, <3>2
    <3> QED BY <1>4, <3>1, <3>2 DEF FrameIs
  <2>4. \A j \in DOMAIN noteFrames' : FrameIs(j, "declined")'
            => noteFrames'[j].note \notin noteRun'.knows \/ noteFrames'[j].note \in superseded'
    BY <1>1, <1>2, <1>3, <1>4 DEF NotesInv, HeardOnce, FrameIs
  <2> QED BY <2>1, <2>2, <2>3, <2>4 DEF HeardOnce
<1>9. StoredOnce' /\ KeptOnce' /\ Note!ToldOnce'
  BY <1>1 DEF NotesInv, StoredOnce, KeptOnce, Note!ToldOnce, Injected, Note!Entries, Note!NotesOf
<1> QED BY <1>5, <1>6, <1>7, <1>8, <1>9 DEF NotesInv

-----------------------------------------------------------------------------
LEMMA ReadsCheckpointKeepsNotes ==
    ASSUME NotesInv, Note!Reads, Note!ReadsCheckpoint(Head(noteFrames)) PROVE NotesInv'
<1>1. /\ noteRun.state = "open" /\ noteFrames # <<>> /\ noteFrames' = Tail(noteFrames) /\ noteFrames \in Seq(CursorFrames)
      /\ UNCHANGED <<noteRebase, superseded, repeated>>
  BY DEF Note!Reads, NotesInv, NoteTypes
<1>2. /\ noteFrames' \in Seq(CursorFrames) /\ Head(noteFrames) = noteFrames[1] /\ noteFrames[1] \in CursorFrames
      /\ 1 \in DOMAIN noteFrames /\ Len(noteFrames) \in Nat \ {0} /\ DOMAIN noteFrames = 1..Len(noteFrames)
      /\ DOMAIN noteFrames' = 1..(Len(noteFrames) - 1)
      /\ \A i \in DOMAIN noteFrames' : i + 1 \in DOMAIN noteFrames /\ noteFrames'[i] = noteFrames[i + 1]
      /\ \A i \in DOMAIN noteFrames : i = 1 \/ (i - 1 \in DOMAIN noteFrames' /\ noteFrames'[i - 1] = noteFrames[i])
  BY <1>1, FrameLeaves
<1> DEFINE holds == noteFrames[1].holds
<1>3. /\ noteFrames[1].is = "checkpoint" /\ holds \subseteq Notes
      /\ noteStored' = [has |-> TRUE, holds |-> holds] /\ noteRun' = [noteRun EXCEPT !.own = TRUE]
      /\ injections' = injections \ Note!Forgotten /\ owed' = owed \ holds
      /\ noteBefore' = {} /\ noteHistory' = noteHistory \cup noteBefore
      /\ UNCHANGED <<coming, undelivered, interrupted, noteDisk, noteTurn>>
  BY <1>2 DEF Note!ReadsCheckpoint, Note!Replied, CursorFrames
<1>4. /\ holds \subseteq noteRun.knows /\ noteRun.carried \cap owed \subseteq holds
      /\ \A e \in injections : e.of = "open" /\ e.delivered => e.note \in holds
      /\ \A e \in injections : e.of = "open" /\ ~e.delivered => e.note \notin holds \/ e.note \in superseded
      /\ Injected("closed") \subseteq superseded /\ undelivered \cap noteRun.knows \subseteq superseded
  BY <1>1, <1>2, <1>3 DEF NotesInv, FramesInOrder, HeardOnce, FrameIs
<1> HIDE DEF holds
<1>5. /\ noteRun' \in TellingRuns /\ noteRun'.state = "open" /\ noteRun'.knows = noteRun.knows /\ noteRun'.carried = noteRun.carried /\ noteRun'.own
      /\ noteStored' \in NoteCheckpoints /\ noteStored'.holds = holds
  BY <1>1, <1>3 DEF NotesInv, NoteTypes, TellingRuns, NoteCheckpoints
<1>6. /\ injections' \subseteq injections
      /\ \A e \in injections' : e.of = "open" => ~e.delivered
      /\ \A e \in injections : e.note \notin holds => e \in injections'
      /\ \A e \in injections : e.of \in {"open", "closed"}
      /\ Injected("closed")' = Injected("closed") /\ Injected("open")' \subseteq Injected("open")
      /\ Note!NotesOf(injections)' \subseteq Note!NotesOf(injections)
  BY <1>3, <1>4 DEF Note!Forgotten, Note!Entries, Injected, Note!NotesOf, NotesInv, NoteTypes, NoteEntries
<1>7. NoteTypes'
  BY <1>1, <1>2, <1>3, <1>5, <1>6 DEF NotesInv, NoteTypes
<1>8. NotesInPlace'
  BY <1>1, <1>3, <1>4, <1>5, <1>6 DEF NotesInv, NotesInPlace
<1>9. RunInPlace'
  BY <1>1, <1>3, <1>4, <1>5, <1>6 DEF NotesInv, RunInPlace
<1>10. NotesHeld'
  <2>1. noteBefore \subseteq noteRun.carried /\ noteTurn \subseteq noteRun.carried
    BY <1>1 DEF NotesInv, RunInPlace
  <2>2. Note!NotesOf(injections) \subseteq Note!NotesOf(injections)' \cup holds
    BY <1>6 DEF Note!NotesOf
  <2> QED BY <1>3, <1>5, <2>1, <2>2 DEF NotesInv, NotesHeld
<1>11. FramesInOrder'
  <2>1. \A i \in DOMAIN noteFrames' : FrameIs(i, "checkpoint")' =>
          noteFrames'[i].holds \subseteq noteRun'.knows /\ noteRun'.carried \cap owed' \subseteq noteFrames'[i].holds
    BY <1>1, <1>2, <1>3, <1>5 DEF NotesInv, FramesInOrder, FrameIs
  <2>2. \A j \in DOMAIN noteFrames' : FrameIs(j, "delivered")' =>
          noteFrames'[j].note \in noteRun'.knows
          /\ \A i \in DOMAIN noteFrames' : i > j /\ FrameIs(i, "checkpoint")'
                => noteFrames'[j].note \in noteFrames'[i].holds
    BY <1>1, <1>2, <1>5 DEF NotesInv, FramesInOrder, FrameIs
  <2> QED BY <1>1, <1>3, <1>4, <1>5, <1>6, <2>1, <2>2 DEF FramesInOrder
<1>12. HeardOnce'
  <2>1. \A e \in injections' : e.of = "open" /\ ~e.delivered /\ e.note \notin superseded' /\ e.note \in noteRun'.knows =>
          \E j \in DOMAIN noteFrames' : FrameIs(j, "delivered")' /\ noteFrames'[j].note = e.note
    <3> SUFFICES ASSUME NEW e \in injections', e.of = "open", ~e.delivered, e.note \notin superseded',
                        e.note \in noteRun'.knows
                 PROVE  \E j \in DOMAIN noteFrames' : FrameIs(j, "delivered")' /\ noteFrames'[j].note = e.note
      OBVIOUS
    <3>1. PICK j \in DOMAIN noteFrames : noteFrames[j].is = "delivered" /\ noteFrames[j].note = e.note
      BY <1>1, <1>5, <1>6 DEF NotesInv, HeardOnce, FrameIs
    <3>2. j # 1 /\ j - 1 \in DOMAIN noteFrames' /\ noteFrames'[j - 1] = noteFrames[j]
      BY <1>2, <1>3, <3>1
    <3> QED BY <3>1, <3>2 DEF FrameIs
  <2>2. \A e \in injections' : e.of = "open" /\ ~e.delivered /\ e.note \notin superseded' =>
          \A i \in DOMAIN noteFrames' : FrameIs(i, "checkpoint")' /\ e.note \in noteFrames'[i].holds =>
                \E j \in DOMAIN noteFrames' : j < i /\ FrameIs(j, "delivered")' /\ noteFrames'[j].note = e.note
    <3> SUFFICES ASSUME NEW e \in injections', e.of = "open", ~e.delivered, e.note \notin superseded',
                        NEW i \in DOMAIN noteFrames', FrameIs(i, "checkpoint")', e.note \in noteFrames'[i].holds
                 PROVE  \E j \in DOMAIN noteFrames' : j < i /\ FrameIs(j, "delivered")' /\ noteFrames'[j].note = e.note
      OBVIOUS
    <3>1. i + 1 \in DOMAIN noteFrames /\ noteFrames'[i] = noteFrames[i + 1] /\ noteFrames[i + 1].is = "checkpoint"
      BY <1>2 DEF FrameIs
    <3>2. PICK j \in DOMAIN noteFrames : j < i + 1 /\ noteFrames[j].is = "delivered" /\ noteFrames[j].note = e.note
      BY <1>1, <1>6, <3>1 DEF NotesInv, HeardOnce, FrameIs
    <3>3. j # 1 /\ j - 1 \in DOMAIN noteFrames' /\ noteFrames'[j - 1] = noteFrames[j] /\ j - 1 < i
      BY <1>2, <1>3, <3>2
    <3> QED BY <3>2, <3>3 DEF FrameIs
  <2>3. \A j \in DOMAIN noteFrames' : FrameIs(j, "declined")'
            => noteFrames'[j].note \notin noteRun'.knows \/ noteFrames'[j].note \in superseded'
    BY <1>1, <1>2, <1>5 DEF NotesInv, HeardOnce, FrameIs
  <2> QED BY <1>1, <1>3, <1>4, <1>5, <1>6, <2>1, <2>2, <2>3 DEF HeardOnce
<1>13. StoredOnce' /\ KeptOnce' /\ Note!ToldOnce'
  <2>1. holds \cap Note!NotesOf(injections)' \subseteq superseded
    <3>1. \A e \in injections' : e.note \in holds => e.note \in superseded
      <4> SUFFICES ASSUME NEW e \in injections', e.note \in holds
                   PROVE  e.note \in superseded
        OBVIOUS
      <4>1. CASE e.of = "open"
        BY <1>4, <1>6, <4>1
      <4>2. CASE e.of = "closed"
        BY <1>4, <1>6, <4>2 DEF Injected, Note!NotesOf, Note!Entries
      <4> QED BY <1>6, <4>1, <4>2
    <3> QED BY <3>1 DEF Note!NotesOf
  <2> QED BY <1>1, <1>3, <1>4, <1>5, <1>6, <2>1 DEF NotesInv, StoredOnce, KeptOnce, Note!ToldOnce
<1> QED BY <1>7, <1>8, <1>9, <1>10, <1>11, <1>12, <1>13 DEF NotesInv

LEMMA ReadsInjectionStateKeepsNotes ==
    ASSUME NotesInv, Note!Reads, Note!ReadsInjectionState(Head(noteFrames)) PROVE NotesInv'
<1>1. /\ noteRun.state = "open" /\ noteFrames # <<>> /\ noteFrames' = Tail(noteFrames) /\ noteFrames \in Seq(CursorFrames)
      /\ UNCHANGED <<noteRebase, superseded, repeated>>
  BY DEF Note!Reads, NotesInv, NoteTypes
<1>2. /\ noteFrames' \in Seq(CursorFrames) /\ Head(noteFrames) = noteFrames[1] /\ noteFrames[1] \in CursorFrames
      /\ 1 \in DOMAIN noteFrames /\ Len(noteFrames) \in Nat \ {0} /\ DOMAIN noteFrames = 1..Len(noteFrames)
      /\ DOMAIN noteFrames' = 1..(Len(noteFrames) - 1)
      /\ \A i \in DOMAIN noteFrames' : i + 1 \in DOMAIN noteFrames /\ noteFrames'[i] = noteFrames[i + 1]
      /\ \A i \in DOMAIN noteFrames : i = 1 \/ (i - 1 \in DOMAIN noteFrames' /\ noteFrames'[i - 1] = noteFrames[i])
  BY <1>1, FrameLeaves
<1> DEFINE m == noteFrames[1].note
           mine == {e \in Note!Entries("open") : e.note = m}
           acked(e) == [e EXCEPT !.delivered = TRUE]
<1>3. /\ noteFrames[1].is \in {"delivered", "declined"}
      /\ noteFrames[1].is = "delivered" =>
            injections' = (injections \ mine) \cup {acked(e) : e \in mine} /\ undelivered' = undelivered
      /\ noteFrames[1].is = "declined" =>
            injections' = injections \ mine /\ undelivered' = undelivered \cup Note!NotesOf(mine)
      /\ UNCHANGED <<coming, noteBefore, noteHistory, noteStored, noteRun, interrupted, noteDisk,
                     owed, noteTurn>>
  BY <1>2 DEF Note!ReadsInjectionState, Note!host
<1>4. /\ mine \subseteq injections /\ \A e \in injections : e \in mine <=> e.of = "open" /\ e.note = m
      /\ \A e \in injections : e \in NoteEntries
      /\ \A e \in mine : acked(e) \in NoteEntries /\ acked(e).of = "open" /\ acked(e).note = m /\ acked(e).delivered
      /\ mine # {} => m \in Injected("open") /\ Note!NotesOf(mine) = {m}
      /\ mine = {} => Note!NotesOf(mine) = {}
  BY DEF Note!Entries, Note!NotesOf, Injected, NotesInv, NoteTypes, NoteEntries
<1>5. /\ noteFrames[1].is = "delivered" => m \in noteRun.knows
            /\ \A i \in DOMAIN noteFrames : i > 1 /\ FrameIs(i, "checkpoint") => m \in noteFrames[i].holds
      /\ noteFrames[1].is = "declined" => m \notin noteRun.knows \/ m \in superseded
  BY <1>1, <1>2 DEF NotesInv, FramesInOrder, HeardOnce, FrameIs
<1> DEFINE answered == {acked(e) : e \in mine}
<1> HIDE DEF m, mine, acked
<1>6. /\ \A e \in answered : e \in NoteEntries /\ e.of = "open" /\ e.note = m /\ e.delivered
      /\ mine # {} => \E e \in answered : TRUE
  BY <1>4
<1> HIDE DEF answered
<1>7. /\ injections' \subseteq (injections \ mine)
            \cup (IF noteFrames[1].is = "delivered" THEN answered ELSE {})
      /\ injections \ mine \subseteq injections'
      /\ noteFrames[1].is = "delivered" => answered \subseteq injections'
  BY <1>3 DEF answered
<1>8. /\ injections' \subseteq NoteEntries
      /\ Note!NotesOf(injections)' \subseteq Note!NotesOf(injections) /\ Note!NotesOf(injections) \subseteq Note!NotesOf(injections)' \cup undelivered'
      /\ Injected("open")' \subseteq Injected("open") /\ Injected("closed")' = Injected("closed")
      /\ undelivered \subseteq undelivered' /\ undelivered' \subseteq undelivered
            \cup Note!NotesOf(injections)
  <2>1. injections' \subseteq NoteEntries
    BY <1>4, <1>6, <1>7
  <2>2. \A e \in injections' : \E f \in injections : f.note = e.note /\ f.of = e.of
    <3>1. \A e \in answered : \E f \in mine : f.note = e.note /\ f.of = e.of
      BY <1>4, <1>6 DEF answered
    <3> QED BY <1>4, <1>7, <3>1
  <2>3. Injected("open")' \subseteq Injected("open") /\ Injected("closed")' \subseteq Injected("closed")
        /\ Note!NotesOf(injections)' \subseteq Note!NotesOf(injections)
    BY <2>2 DEF Injected, Note!Entries, Note!NotesOf
  <2>4. Injected("closed") \subseteq Injected("closed")'
    BY <1>4, <1>7 DEF Injected, Note!Entries, Note!NotesOf
  <2>5. \A e \in injections : e.note \in Note!NotesOf(injections)' \cup undelivered'
    <3> SUFFICES ASSUME NEW e \in injections PROVE e.note \in Note!NotesOf(injections)' \cup undelivered'
      OBVIOUS
    <3>1. CASE e \notin mine
      BY <1>7, <3>1 DEF Note!NotesOf
    <3>2. CASE e \in mine /\ noteFrames[1].is = "delivered"
      <4>1. PICK f \in answered : TRUE
        BY <1>6, <3>2
      <4>2. f \in injections' /\ f.note = e.note
        BY <1>4, <1>6, <1>7, <3>2, <4>1
      <4> QED BY <4>2 DEF Note!NotesOf
    <3>3. CASE e \in mine /\ noteFrames[1].is = "declined"
      BY <1>3, <1>4, <3>3
    <3> QED BY <1>3, <3>1, <3>2, <3>3
  <2>6. undelivered \subseteq undelivered' /\ undelivered' \subseteq undelivered
            \cup Note!NotesOf(injections)
    BY <1>3, <1>4 DEF Note!NotesOf
  <2> QED BY <2>1, <2>3, <2>4, <2>5, <2>6 DEF Note!NotesOf
<1>9. /\ \A e \in injections' : e.of = "open" /\ ~e.delivered => e \in injections /\ e.note # m
      /\ \A e \in injections' : e.of = "open" /\ e.delivered =>
            e \in injections \/ (e.note = m /\ noteFrames[1].is = "delivered")
  BY <1>4, <1>6, <1>7
<1>10. NoteTypes'
  BY <1>1, <1>2, <1>3, <1>8, InjectedSplit DEF NotesInv, NoteTypes
<1>11. NotesInPlace'
  BY <1>1, <1>3, <1>8 DEF NotesInv, NotesInPlace
<1>12. RunInPlace'
  BY <1>1, <1>3, <1>8 DEF NotesInv, RunInPlace
<1>13. NotesHeld'
  BY <1>1, <1>3, <1>8 DEF NotesInv, NotesHeld
<1>14. FramesInOrder'
  <2>1. \A i \in DOMAIN noteFrames' : FrameIs(i, "checkpoint")' =>
          noteFrames'[i].holds \subseteq noteRun'.knows /\ noteRun'.carried \cap owed' \subseteq noteFrames'[i].holds
    BY <1>1, <1>2, <1>3 DEF NotesInv, FramesInOrder, FrameIs
  <2>2. \A i \in DOMAIN noteFrames' : FrameIs(i, "ended")'
            => noteRun'.own \/ \E j \in DOMAIN noteFrames' : j < i /\ FrameIs(j, "checkpoint")'
    <3> SUFFICES ASSUME NEW i \in DOMAIN noteFrames', FrameIs(i, "ended")', ~noteRun'.own
                 PROVE  \E j \in DOMAIN noteFrames' : j < i /\ FrameIs(j, "checkpoint")'
      OBVIOUS
    <3>1. PICK j \in DOMAIN noteFrames : j < i + 1 /\ noteFrames[j].is = "checkpoint"
      BY <1>1, <1>2, <1>3 DEF NotesInv, FramesInOrder, FrameIs
    <3>2. j # 1 /\ j - 1 \in DOMAIN noteFrames' /\ noteFrames'[j - 1] = noteFrames[j] /\ j - 1 < i
      BY <1>2, <1>3, <3>1
    <3> QED BY <3>1, <3>2 DEF FrameIs
  <2>3. \A j \in DOMAIN noteFrames' : FrameIs(j, "delivered")' =>
          noteFrames'[j].note \in noteRun'.knows
          /\ \A i \in DOMAIN noteFrames' : i > j /\ FrameIs(i, "checkpoint")'
                => noteFrames'[j].note \in noteFrames'[i].holds
    BY <1>1, <1>2, <1>3 DEF NotesInv, FramesInOrder, FrameIs
  <2>4. \A e \in injections' : e.of = "open" /\ e.delivered =>
          e.note \in noteRun'.knows /\ \A i \in DOMAIN noteFrames' : FrameIs(i, "checkpoint")'
                => e.note \in noteFrames'[i].holds
    <3> SUFFICES ASSUME NEW e \in injections', e.of = "open", e.delivered
                 PROVE  /\ e.note \in noteRun.knows
                        /\ \A i \in DOMAIN noteFrames : i > 1 /\ FrameIs(i, "checkpoint")
                              => e.note \in noteFrames[i].holds
      BY <1>2, <1>3 DEF FrameIs
    <3>1. CASE e \in injections
      BY <1>1, <3>1 DEF NotesInv, FramesInOrder
    <3>2. CASE e.note = m /\ noteFrames[1].is = "delivered"
      BY <1>5, <3>2
    <3> QED BY <1>9, <3>1, <3>2
  <2> QED BY <1>1, <1>3, <2>1, <2>2, <2>3, <2>4 DEF NotesInv, FramesInOrder
<1>15. HeardOnce'
  <2>1. undelivered' \cap noteRun'.knows \subseteq superseded' /\ Injected("closed")' \subseteq superseded'
    BY <1>1, <1>3, <1>4, <1>5, <1>8 DEF NotesInv, HeardOnce
  <2>2. \A e \in injections' : e.of = "open" /\ ~e.delivered /\ e.note \notin superseded' /\ e.note \in noteRun'.knows =>
          \E j \in DOMAIN noteFrames' : FrameIs(j, "delivered")' /\ noteFrames'[j].note = e.note
    <3> SUFFICES ASSUME NEW e \in injections', e.of = "open", ~e.delivered, e.note \notin superseded',
                        e.note \in noteRun'.knows
                 PROVE  \E j \in DOMAIN noteFrames' : FrameIs(j, "delivered")' /\ noteFrames'[j].note = e.note
      OBVIOUS
    <3>1. PICK j \in DOMAIN noteFrames : noteFrames[j].is = "delivered" /\ noteFrames[j].note = e.note
      BY <1>1, <1>3, <1>9 DEF NotesInv, HeardOnce, FrameIs
    <3>2. j # 1 /\ j - 1 \in DOMAIN noteFrames' /\ noteFrames'[j - 1] = noteFrames[j]
      BY <1>2, <1>9, <3>1 DEF m
    <3> QED BY <3>1, <3>2 DEF FrameIs
  <2>3. \A e \in injections' : e.of = "open" /\ ~e.delivered /\ e.note \notin superseded' =>
          \A i \in DOMAIN noteFrames' : FrameIs(i, "checkpoint")' /\ e.note \in noteFrames'[i].holds =>
                \E j \in DOMAIN noteFrames' : j < i /\ FrameIs(j, "delivered")' /\ noteFrames'[j].note = e.note
    <3> SUFFICES ASSUME NEW e \in injections', e.of = "open", ~e.delivered, e.note \notin superseded',
                        NEW i \in DOMAIN noteFrames', FrameIs(i, "checkpoint")', e.note \in noteFrames'[i].holds
                 PROVE  \E j \in DOMAIN noteFrames' : j < i /\ FrameIs(j, "delivered")' /\ noteFrames'[j].note = e.note
      OBVIOUS
    <3>1. i + 1 \in DOMAIN noteFrames /\ noteFrames'[i] = noteFrames[i + 1] /\ noteFrames[i + 1].is = "checkpoint"
      BY <1>2 DEF FrameIs
    <3>2. PICK j \in DOMAIN noteFrames : j < i + 1 /\ noteFrames[j].is = "delivered" /\ noteFrames[j].note = e.note
      BY <1>1, <1>9, <3>1 DEF NotesInv, HeardOnce, FrameIs
    <3>3. j # 1 /\ j - 1 \in DOMAIN noteFrames' /\ noteFrames'[j - 1] = noteFrames[j] /\ j - 1 < i
      BY <1>2, <1>9, <3>2 DEF m
    <3> QED BY <3>2, <3>3 DEF FrameIs
  <2>4. \A j \in DOMAIN noteFrames' : FrameIs(j, "declined")'
            => noteFrames'[j].note \notin noteRun'.knows \/ noteFrames'[j].note \in superseded'
    BY <1>1, <1>2, <1>3 DEF NotesInv, HeardOnce, FrameIs
  <2> QED BY <2>1, <2>2, <2>3, <2>4 DEF HeardOnce
<1>16. StoredOnce' /\ Note!ToldOnce'
  BY <1>1, <1>3, <1>8 DEF NotesInv, StoredOnce, Note!ToldOnce
<1>17. KeptOnce'
  <2>1. CASE noteFrames[1].is = "delivered"
    BY <1>1, <1>3, <1>8, <2>1 DEF NotesInv, KeptOnce
  <2>2. CASE noteFrames[1].is = "declined"
    <3>1. m \notin Injected("open")'
      BY <1>4, <1>7, <2>2 DEF Injected, Note!NotesOf, Note!Entries
    <3> QED BY <1>1, <1>3, <1>4, <1>8, <2>2, <3>1 DEF NotesInv, KeptOnce
  <2> QED BY <1>3, <2>1, <2>2
<1> QED BY <1>10, <1>11, <1>12, <1>13, <1>14, <1>15, <1>16, <1>17 DEF NotesInv

-----------------------------------------------------------------------------
\* No Run is left, and what it was told is kept where it must be.
MayClose ==
    /\ noteRun' = Note!NoRun /\ noteFrames' \in Seq(CursorFrames) /\ noteRebase' \in BOOLEAN
    /\ {noteBefore', noteHistory', owed', noteTurn', undelivered', interrupted'} \subseteq SUBSET Notes
    /\ noteStored' \in NoteCheckpoints /\ noteDisk' \in NoteSnapshots /\ injections' \subseteq NoteEntries
    /\ Injected("open")' = {} /\ UNCHANGED <<coming, superseded, repeated>>
    /\ coming \cap (noteBefore' \cup noteHistory' \cup owed' \cup noteTurn') = {}
    /\ coming \cap (undelivered' \cup interrupted' \cup Note!NotesOf(injections)') = {}
    /\ coming \cap (noteStored'.holds \cup noteDisk'.checkpoint.holds \cup noteDisk'.note
          \cup noteDisk'.runNote) = {}
    /\ noteBefore' \cap (noteHistory' \cup noteStored'.holds \cup noteDisk'.checkpoint.holds) = {}
    /\ interrupted' \cap owed' \subseteq noteBefore'
    /\ owed' \cup noteTurn' \subseteq noteBefore' \cup Note!NotesOf(injections)'
          \cup undelivered' \cup interrupted'
    /\ noteStored'.holds \cap (undelivered' \cup Note!NotesOf(injections)') \subseteq superseded
    /\ noteDisk'.checkpoint.holds \cap noteDisk'.note \subseteq superseded

LEMMA ClosesKeepsNotes ==
    ASSUME NotesInv, MayClose PROVE NotesInv'
<1>1. noteRun' = Note!NoRun /\ noteRun' \in TellingRuns /\ noteRun'.state = "none" /\ noteRun'.carried = {} /\ noteRun'.knows = {} /\ ~noteRun'.own
  BY NothingKept DEF MayClose, Note!NoRun
<1>2. NoteTypes'
  BY <1>1 DEF NotesInv, NoteTypes, MayClose
<1>3. NotesInPlace'
  BY <1>1 DEF NotesInPlace, MayClose
<1>4. RunInPlace'
  BY <1>1 DEF RunInPlace, MayClose
<1>5. NotesHeld' /\ StoredOnce' /\ KeptOnce' /\ Note!ToldOnce'
  BY <1>1 DEF NotesHeld, StoredOnce, KeptOnce, Note!ToldOnce, MayClose, NotesInv
<1>6. FramesInOrder' /\ HeardOnce'
  BY <1>1 DEF FramesInOrder, HeardOnce
<1> QED BY <1>2, <1>3, <1>4, <1>5, <1>6 DEF NotesInv

\* An open Run's injections are kept for the next one.
LEMMA InjectionsLeft ==
    ASSUME NotesInv, injections' = injections \ Note!Entries("open")
    PROVE  /\ Injected("open")' = {} /\ Note!NotesOf(injections)' = Injected("closed")
           /\ Note!NotesOf(injections) = Note!NotesOf(injections)' \cup Injected("open")
<1>1. injections' = Note!Entries("closed")
  BY DEF Note!Entries, NotesInv, NoteTypes, NoteEntries
<1> QED BY <1>1, InjectedSplit DEF Injected, Note!NotesOf, Note!Entries

LEMMA ReadsEndKeepsNotes ==
    ASSUME NotesInv, Note!Reads, Note!ReadsEnd(Head(noteFrames)) PROVE NotesInv'
<1>1. /\ noteRun.state = "open" /\ noteFrames # <<>> /\ noteFrames' = Tail(noteFrames) /\ noteFrames \in Seq(CursorFrames)
      /\ UNCHANGED <<noteRebase, superseded, repeated>>
  BY DEF Note!Reads, NotesInv, NoteTypes
<1>2. /\ noteFrames' \in Seq(CursorFrames) /\ Head(noteFrames) = noteFrames[1] /\ 1 \in DOMAIN noteFrames /\ DOMAIN noteFrames = 1..Len(noteFrames)
  BY <1>1, FrameLeaves
<1>3. /\ noteFrames[1].is = "ended" /\ undelivered' = undelivered \cup Injected("open")
      /\ injections' = injections \ Note!Entries("open") /\ noteDisk' = Note!Terminal(noteStored, undelivered')
      /\ noteRun' = Note!NoRun /\ noteTurn' = {} /\ noteBefore' = {} /\ noteHistory' = noteHistory \cup noteBefore
      /\ UNCHANGED <<coming, noteStored, interrupted, owed>>
  BY <1>2, InjectedSplit DEF Note!ReadsEnd, Note!Replied
<1>4. noteRun.own
  <2>1. ~\E j \in DOMAIN noteFrames : j < 1
    BY <1>2
  <2> QED BY <1>1, <1>2, <1>3, <2>1 DEF NotesInv, FramesInOrder, FrameIs
<1>5. /\ Injected("open")' = {} /\ Note!NotesOf(injections) = Note!NotesOf(injections)'
            \cup Injected("open")
      /\ Note!NotesOf(injections) \subseteq Notes
  BY <1>3, InjectionsLeft, InjectedSplit
<1>6. /\ noteDisk' = [checkpoint |-> noteStored, note |-> undelivered', runNote |-> {}, rebase |-> noteRebase]
      /\ undelivered' \subseteq Notes
  BY <1>3, <1>5 DEF Note!Terminal, NotesInv, NoteTypes
<1>7. noteDisk' \in NoteSnapshots
  BY <1>6 DEF NotesInv, NoteTypes, NoteSnapshots
<1>8. owed \subseteq Note!NotesOf(injections) \cup undelivered /\ interrupted = {}
  BY <1>1, <1>4 DEF NotesInv, NotesHeld, RunInPlace
<1>9. /\ {noteBefore', noteHistory', owed', noteTurn', undelivered', interrupted'} \subseteq SUBSET Notes
      /\ injections' \subseteq NoteEntries /\ noteStored' \in NoteCheckpoints /\ noteRebase' \in BOOLEAN
  BY <1>1, <1>3, <1>6 DEF NotesInv, NoteTypes
<1>10. MayClose
  <2>0. noteDisk'.checkpoint = noteStored /\ noteDisk'.note = undelivered' /\ noteDisk'.runNote = {}
    BY <1>6
  <2>1. /\ coming \cap (noteBefore' \cup noteHistory' \cup owed' \cup noteTurn') = {}
        /\ coming \cap (undelivered' \cup interrupted' \cup Note!NotesOf(injections)') = {}
        /\ coming \cap (noteStored'.holds \cup noteDisk'.checkpoint.holds \cup noteDisk'.note
              \cup noteDisk'.runNote) = {}
    BY <1>3, <1>5, <2>0 DEF NotesInv, NotesInPlace
  <2>2. /\ noteStored'.holds \cap (undelivered' \cup Note!NotesOf(injections)') \subseteq superseded
        /\ noteDisk'.checkpoint.holds \cap noteDisk'.note \subseteq superseded
    BY <1>3, <1>5, <2>0 DEF NotesInv, StoredOnce
  <2>3. owed' \cup noteTurn' \subseteq noteBefore' \cup Note!NotesOf(injections)'
            \cup undelivered' \cup interrupted'
    BY <1>3, <1>5, <1>8
  <2> QED BY <1>1, <1>2, <1>3, <1>5, <1>7, <1>8, <1>9, <2>0, <2>1, <2>2, <2>3 DEF MayClose
<1> QED BY <1>10, ClosesKeepsNotes

LEMMA BreaksKeepsNotes ==
    ASSUME NotesInv, Note!Breaks PROVE NotesInv'
<1>1. /\ noteRun.state = "open" /\ noteRun' = [noteRun EXCEPT !.state = "broken"] /\ noteFrames' = <<>>
      /\ UNCHANGED <<coming, noteBefore, noteHistory, noteStored, injections, undelivered,
                     interrupted, noteRebase, noteDisk,
                     owed, noteTurn, superseded, repeated>>
  BY DEF Note!Breaks, Note!host, Note!kept, Note!truth
<1>2. /\ noteRun' \in TellingRuns /\ noteRun'.state = "broken" /\ noteRun'.knows = noteRun.knows /\ noteRun'.carried = noteRun.carried
      /\ noteRun'.own = noteRun.own
  BY <1>1 DEF NotesInv, NoteTypes, TellingRuns
<1>3. NoteTypes'
  BY <1>1, <1>2 DEF NotesInv, NoteTypes
<1>4. NotesInPlace' /\ RunInPlace' /\ NotesHeld'
  BY <1>1, <1>2 DEF NotesInv, NotesInPlace, RunInPlace, NotesHeld, Injected, Note!Entries, Note!NotesOf
<1>5. FramesInOrder' /\ HeardOnce'
  BY <1>2 DEF FramesInOrder, HeardOnce
<1>6. StoredOnce' /\ KeptOnce' /\ Note!ToldOnce'
  BY <1>1 DEF NotesInv, StoredOnce, KeptOnce, Note!ToldOnce, Injected, Note!Entries, Note!NotesOf
<1> QED BY <1>3, <1>4, <1>5, <1>6 DEF NotesInv

LEMMA HeldRunSavedKeepsNotes ==
    ASSUME NotesInv, Note!HeldRunSaved PROVE NotesInv'
<1>1. /\ noteRun.state = "open" /\ noteDisk' = Note!InProgress
      /\ UNCHANGED <<coming, noteBefore, noteHistory, noteStored, noteRun, noteFrames, injections,
                     undelivered, interrupted, noteRebase,
                     owed, noteTurn, superseded, repeated>>
  BY DEF Note!HeldRunSaved, Note!host, Note!kept, Note!truth
<1>2. /\ noteDisk' \in NoteSnapshots /\ noteBefore \cap noteDisk'.checkpoint.holds = {}
      /\ coming \cap (noteDisk'.checkpoint.holds \cup noteDisk'.note \cup noteDisk'.runNote) = {}
      /\ noteDisk'.checkpoint.holds \cap noteDisk'.note \subseteq superseded
  BY <1>1, SavedInPlace
<1>3. NoteTypes'
  BY <1>1, <1>2 DEF NotesInv, NoteTypes
<1>4. NotesInPlace'
  BY <1>1, <1>2 DEF NotesInv, NotesInPlace, Injected, Note!Entries, Note!NotesOf
<1>5. RunInPlace' /\ NotesHeld' /\ KeptOnce' /\ Note!ToldOnce'
  BY <1>1 DEF NotesInv, RunInPlace, NotesHeld, KeptOnce, Note!ToldOnce, Injected, Note!Entries, Note!NotesOf
<1>6. FramesInOrder' /\ HeardOnce'
  BY <1>1 DEF NotesInv, FramesInOrder, HeardOnce, FrameIs, Injected, Note!Entries, Note!NotesOf
<1>7. StoredOnce'
  BY <1>1, <1>2 DEF NotesInv, StoredOnce, Note!NotesOf
<1> QED BY <1>3, <1>4, <1>5, <1>6, <1>7 DEF NotesInv

LEMMA HostStopsKeepsNotes ==
    ASSUME NotesInv, Note!HostStops PROVE NotesInv'
<1>1. /\ noteRun.state = "open" /\ undelivered' = undelivered \cup Injected("open")
      /\ injections' = injections \ Note!Entries("open")
      /\ noteDisk' = [Note!Terminal(noteStored, undelivered') EXCEPT !.runNote = noteRun.carried]
      /\ noteRun' = Note!NoRun /\ noteFrames' = <<>> /\ noteTurn' = {}
      /\ \/ noteBefore' = {} /\ noteHistory' = noteHistory \cup noteBefore
         \/ UNCHANGED <<noteBefore, noteHistory>>
      /\ owed' = IF noteRun.own THEN owed ELSE owed \ (noteTurn \ noteBefore')
      /\ UNCHANGED <<coming, noteStored, interrupted, noteRebase, superseded, repeated>>
  BY InjectedSplit DEF Note!HostStops, Note!Replied
<1>2. /\ Injected("open")' = {} /\ Note!NotesOf(injections) = Note!NotesOf(injections)'
            \cup Injected("open")
      /\ Note!NotesOf(injections) \subseteq Notes
  BY <1>1, InjectionsLeft, InjectedSplit
<1>3. /\ undelivered' \subseteq Notes /\ noteRun.carried \subseteq Notes /\ noteStored \in NoteCheckpoints /\ noteRebase \in BOOLEAN
      /\ interrupted = {} /\ noteBefore \subseteq noteTurn /\ noteTurn \subseteq noteRun.carried /\ noteRun.carried \cap owed \subseteq noteTurn
      /\ noteRun.own => noteRun.carried \cap owed = {}
  BY <1>1, <1>2 DEF NotesInv, NoteTypes, TellingRuns, RunInPlace
<1>4. /\ noteDisk' = [checkpoint |-> noteStored, note |-> undelivered', runNote |-> noteRun.carried, rebase |-> noteRebase]
      /\ noteDisk' \in NoteSnapshots
  BY <1>1, <1>3 DEF Note!Terminal, NoteSnapshots
<1>5. noteDisk'.checkpoint = noteStored /\ noteDisk'.note = undelivered' /\ noteDisk'.runNote = noteRun.carried
  BY <1>4
<1>6. owed' \subseteq noteBefore' \cup undelivered' \cup Note!NotesOf(injections)'
  BY <1>1, <1>2, <1>3 DEF NotesInv, NotesHeld
<1>7. /\ coming \cap (noteBefore' \cup noteHistory' \cup owed' \cup noteTurn') = {}
      /\ coming \cap (undelivered' \cup interrupted' \cup Note!NotesOf(injections)') = {}
      /\ coming \cap (noteStored'.holds \cup noteDisk'.checkpoint.holds \cup noteDisk'.note
            \cup noteDisk'.runNote) = {}
      /\ noteBefore' \cap (noteHistory' \cup noteStored'.holds \cup noteDisk'.checkpoint.holds) = {}
  BY <1>1, <1>2, <1>5 DEF NotesInv, NotesInPlace
<1>8. /\ noteStored'.holds \cap (undelivered' \cup Note!NotesOf(injections)') \subseteq superseded
      /\ noteDisk'.checkpoint.holds \cap noteDisk'.note \subseteq superseded
  BY <1>1, <1>2, <1>5 DEF NotesInv, StoredOnce
<1>9. /\ {noteBefore', noteHistory', owed', noteTurn', undelivered', interrupted'} \subseteq SUBSET Notes
      /\ injections' \subseteq NoteEntries /\ noteFrames' \in Seq(CursorFrames)
  BY <1>1, <1>3 DEF NotesInv, NoteTypes
<1>10. MayClose
  BY <1>1, <1>2, <1>3, <1>4, <1>6, <1>7, <1>8, <1>9 DEF MayClose
<1> QED BY <1>10, ClosesKeepsNotes

LEMMA GivesUpKeepsNotes ==
    ASSUME NotesInv, Note!GivesUp PROVE NotesInv'
<1>1. /\ noteRun.state = "broken" /\ noteDisk' \in {Note!InProgress, noteDisk}
      /\ injections' = {[e EXCEPT !.of = "closed"] : e \in injections}
      /\ noteRun' = Note!NoRun /\ noteTurn' = {}
      /\ \/ noteBefore' = {} /\ noteHistory' = noteHistory \cup noteBefore
         \/ UNCHANGED <<noteBefore, noteHistory>>
      /\ owed' = owed \ (noteTurn \ noteBefore')
      /\ UNCHANGED <<coming, noteStored, noteFrames, undelivered, interrupted, noteRebase,
                     superseded, repeated>>
  BY DEF Note!GivesUp, Note!Replied
<1>2. /\ injections' \subseteq NoteEntries /\ \A e \in injections' : e.of = "closed"
      /\ Note!NotesOf(injections') = Note!NotesOf(injections)
  BY <1>1, ClosedEntries DEF NotesInv, NoteTypes
<1>3. Injected("open")' = {} /\ Note!NotesOf(injections)' = Note!NotesOf(injections)
  BY <1>2 DEF Injected, Note!Entries, Note!NotesOf
<1>4. /\ noteDisk' \in NoteSnapshots /\ noteBefore \cap noteDisk'.checkpoint.holds = {}
      /\ coming \cap (noteDisk'.checkpoint.holds \cup noteDisk'.note \cup noteDisk'.runNote) = {}
      /\ noteDisk'.checkpoint.holds \cap noteDisk'.note \subseteq superseded
  <2>1. CASE noteDisk' = Note!InProgress
    BY <1>1, <2>1, SavedInPlace
  <2>2. CASE noteDisk' = noteDisk
    BY <2>2 DEF NotesInv, NoteTypes, NotesInPlace, StoredOnce
  <2> QED BY <1>1, <2>1, <2>2
<1>5. interrupted = {} /\ noteBefore \subseteq noteTurn /\ noteRun.carried \cap owed \subseteq noteTurn
  BY <1>1 DEF NotesInv, RunInPlace
<1>6. owed' \subseteq noteBefore' \cup undelivered' \cup Note!NotesOf(injections)'
  BY <1>1, <1>3, <1>5 DEF NotesInv, NotesHeld
<1>7. /\ coming \cap (noteBefore' \cup noteHistory' \cup owed' \cup noteTurn') = {}
      /\ coming \cap (undelivered' \cup interrupted' \cup Note!NotesOf(injections)'
            \cup noteStored'.holds) = {}
      /\ noteBefore' \cap (noteHistory' \cup noteStored'.holds \cup noteDisk'.checkpoint.holds) = {}
  BY <1>1, <1>3, <1>4 DEF NotesInv, NotesInPlace
<1>8. noteStored'.holds \cap (undelivered' \cup Note!NotesOf(injections)') \subseteq superseded
  BY <1>1, <1>3 DEF NotesInv, StoredOnce
<1>9. /\ {noteBefore', noteHistory', owed', noteTurn', undelivered', interrupted'} \subseteq SUBSET Notes
      /\ noteStored' \in NoteCheckpoints /\ noteRebase' \in BOOLEAN /\ noteFrames' \in Seq(CursorFrames)
  BY <1>1 DEF NotesInv, NoteTypes
<1>10. MayClose
  BY <1>1, <1>2, <1>3, <1>4, <1>5, <1>6, <1>7, <1>8, <1>9 DEF MayClose
<1> QED BY <1>10, ClosesKeepsNotes

LEMMA ShutsDownKeepsNotes ==
    ASSUME NotesInv, Note!ShutsDown PROVE NotesInv'
<1> DEFINE s == Note!InProgress
<1>1. /\ noteRun.state = "open"
      /\ noteStored' = s.checkpoint /\ noteRebase' = s.rebase
      /\ undelivered' = s.note /\ interrupted' = s.runNote \ s.note
      /\ injections' = {} /\ noteRun' = Note!NoRun /\ noteFrames' = <<>> /\ noteDisk' = s
      /\ noteBefore' = {} /\ noteHistory' = noteHistory \cup noteBefore
      /\ IF noteRun.own THEN UNCHANGED <<owed, noteTurn>> ELSE owed' = owed \ noteTurn /\ noteTurn' = {}
      /\ UNCHANGED <<coming, superseded, repeated>>
  BY DEF Note!ShutsDown, Note!Restored, Note!Replied
<1>2. /\ s \in NoteSnapshots /\ coming \cap (s.checkpoint.holds \cup s.note \cup s.runNote) = {}
      /\ s.checkpoint.holds \cap s.note \subseteq superseded
      /\ s = [checkpoint |-> noteStored, note |-> undelivered
            \cup Injected("open"), runNote |-> noteRun.carried, rebase |-> noteRebase]
  BY <1>1, SavedInPlace
<1> HIDE DEF s
<1>3. s.note = undelivered \cup Injected("open") /\ s.runNote = noteRun.carried
  BY <1>2
<1>4. /\ s.checkpoint \in NoteCheckpoints /\ s.note \subseteq Notes /\ s.runNote \subseteq Notes /\ s.rebase \in BOOLEAN
  BY <1>2 DEF NoteSnapshots
<1>5. /\ interrupted = {} /\ noteBefore \subseteq noteTurn /\ noteTurn \subseteq noteRun.carried /\ noteRun.carried \cap owed \subseteq noteTurn
      /\ noteRun.own => noteRun.carried \cap owed = {}
      /\ Injected("closed") \cap owed = {}
  BY <1>1 DEF NotesInv, RunInPlace
<1>6. Injected("open")' = {} /\ Note!NotesOf(injections)' = {}
  BY <1>1 DEF Injected, Note!Entries, Note!NotesOf
<1>7. owed \cup noteTurn \subseteq noteBefore \cup noteRun.carried \cup Injected("open")
          \cup Injected("closed") \cup undelivered
  BY <1>5, InjectedSplit DEF NotesInv, NotesHeld
<1>8. /\ interrupted' \cap owed' \subseteq noteBefore'
      /\ owed' \cup noteTurn' \subseteq noteBefore' \cup Note!NotesOf(injections)'
            \cup undelivered' \cup interrupted'
  BY <1>1, <1>3, <1>5, <1>6, <1>7
<1>9. coming \cap (noteBefore' \cup noteHistory' \cup owed' \cup noteTurn') = {}
  BY <1>1 DEF NotesInv, NotesInPlace
<1>10. /\ {noteBefore', noteHistory', owed', noteTurn', undelivered', interrupted'} \subseteq SUBSET Notes
       /\ injections' \subseteq NoteEntries /\ noteFrames' \in Seq(CursorFrames)
  BY <1>1, <1>4 DEF NotesInv, NoteTypes
<1>11. MayClose
  BY <1>1, <1>2, <1>4, <1>6, <1>8, <1>9, <1>10 DEF MayClose
<1> QED BY <1>11, ClosesKeepsNotes

LEMMA DiesKeepsNotes ==
    ASSUME NotesInv, Note!Dies PROVE NotesInv'
<1>1. /\ noteStored' = noteDisk.checkpoint /\ noteRebase' = noteDisk.rebase
      /\ undelivered' = noteDisk.note /\ interrupted' = noteDisk.runNote \ noteDisk.note
      /\ injections' = {} /\ noteRun' = Note!NoRun /\ noteFrames' = <<>> /\ noteDisk' = noteDisk
      /\ owed' = owed \cap (noteDisk.note \cup noteBefore) /\ noteTurn' = {}
      /\ UNCHANGED <<coming, noteBefore, noteHistory, superseded, repeated>>
  BY DEF Note!Dies, Note!Restored, Note!host
<1>2. /\ noteDisk \in NoteSnapshots /\ noteDisk.checkpoint \in NoteCheckpoints /\ noteDisk.note \subseteq Notes
      /\ noteDisk.runNote \subseteq Notes /\ noteDisk.rebase \in BOOLEAN
  BY DEF NotesInv, NoteTypes, NoteSnapshots
<1>3. Injected("open")' = {} /\ Note!NotesOf(injections)' = {}
  BY <1>1 DEF Injected, Note!Entries, Note!NotesOf
<1>4. /\ {noteBefore', noteHistory', owed', noteTurn', undelivered', interrupted'} \subseteq SUBSET Notes
      /\ injections' \subseteq NoteEntries /\ noteFrames' \in Seq(CursorFrames)
  BY <1>1, <1>2 DEF NotesInv, NoteTypes
<1>5. MayClose
  BY <1>1, <1>2, <1>3, <1>4 DEF MayClose, NotesInv, NotesInPlace, StoredOnce
<1> QED BY <1>5, ClosesKeepsNotes

\* A Run that goes on from its checkpoint is told again what waited for it.
LEMMA ReinjectedNotes ==
    ASSUME NotesInv
    PROVE  /\ Note!Reinjected \subseteq NoteEntries /\ \A e \in Note!Reinjected : e.of = "open" /\ ~e.delivered
           /\ Note!NotesOf(Note!Reinjected) = Injected("open")
<1> DEFINE again(n) == [note |-> n, of |-> "open", delivered |-> FALSE]
<1>1. Note!Reinjected = {again(n) : n \in Injected("open")} /\ Injected("open") \subseteq Notes
  BY InjectedSplit DEF Note!Reinjected
<1>2. \A n \in Notes : again(n) \in NoteEntries /\ again(n).of = "open" /\ ~again(n).delivered /\ again(n).note = n
  BY DEF NoteEntries
<1> HIDE DEF again
<1>3. /\ \A n \in Injected("open") : again(n) \in Note!Reinjected
      /\ \A e \in Note!Reinjected : \E n \in Injected("open") : e = again(n)
  BY <1>1
<1>4. Note!Reinjected \subseteq NoteEntries /\ \A e \in Note!Reinjected : e.of = "open" /\ ~e.delivered
  BY <1>1, <1>2, <1>3
<1>5. \A n : n \in Note!NotesOf(Note!Reinjected) <=> n \in Injected("open")
  BY <1>1, <1>2, <1>3 DEF Note!NotesOf
<1> QED BY <1>4, <1>5

LEMMA ResumesKeepsNotes ==
    ASSUME NotesInv, Note!Resumes PROVE NotesInv'
<1>1. /\ noteRun.state = "broken" /\ noteRun.own /\ noteFrames = <<>> /\ noteFrames' = <<>>
      /\ UNCHANGED <<coming, noteBefore, noteHistory, noteStored, interrupted, noteRebase,
                     noteDisk, owed, noteTurn, superseded>>
  BY DEF Note!Resumes, Note!host, NotesInv, RunInPlace
<1>2. /\ Note!Reinjected \subseteq NoteEntries /\ \A e \in Note!Reinjected : e.of = "open" /\ ~e.delivered
      /\ Note!NotesOf(Note!Reinjected) = Injected("open")
  BY ReinjectedNotes
<1>3. /\ Note!NotesOf(injections) = Injected("open")
            \cup Injected("closed") /\ Note!NotesOf(injections) \subseteq Notes
      /\ Note!Released = Injected("closed")
  BY InjectedSplit
<1>4. ASSUME noteRun' = [noteRun EXCEPT !.state = "open", !.knows = noteStored.holds],
             injections' = Note!Reinjected, undelivered' = undelivered \cup Note!Released,
             repeated' = repeated \cup (Note!NotesOf(Note!Reinjected) \cap noteStored.holds)
      PROVE  NotesInv'
  <2>1. /\ noteRun' \in TellingRuns /\ noteRun'.state = "open" /\ noteRun'.knows = noteStored.holds /\ noteRun'.carried = noteRun.carried
        /\ noteRun'.own
    BY <1>1, <1>4 DEF NotesInv, NoteTypes, TellingRuns, NoteCheckpoints
  <2>2. /\ Injected("open")' = Injected("open") /\ Injected("closed")' = {}
        /\ Note!NotesOf(injections)' = Injected("open")
    <3>1. Note!Entries("open")' = Note!Reinjected /\ Note!Entries("closed")' = {}
      BY <1>2, <1>4 DEF Note!Entries
    <3> QED BY <1>2, <1>4, <3>1 DEF Injected, Note!NotesOf
  <2>3. noteStored.holds \cap Note!NotesOf(injections) \subseteq superseded /\ noteStored.holds \cap undelivered \subseteq superseded
    BY DEF NotesInv, StoredOnce
  <2>4. NoteTypes'
    BY <1>1, <1>2, <1>3, <1>4, <2>1 DEF NotesInv, NoteTypes
  <2>5. NotesInPlace'
    BY <1>1, <1>3, <1>4, <2>1, <2>2 DEF NotesInv, NotesInPlace
  <2>6. RunInPlace'
    BY <1>1, <2>1, <2>2 DEF NotesInv, RunInPlace
  <2>7. NotesHeld'
    BY <1>1, <1>3, <1>4, <2>1, <2>2 DEF NotesInv, NotesHeld
  <2>8. FramesInOrder'
    BY <1>1, <1>2, <1>4, <2>1 DEF NotesInv, RunInPlace, FramesInOrder
  <2>9. HeardOnce'
    <3>1. \A e \in injections' : e.note \in noteRun'.knows => e.note \in superseded
      BY <1>2, <1>3, <1>4, <2>1, <2>3 DEF Note!NotesOf
    <3> QED BY <1>1, <1>3, <1>4, <2>1, <2>2, <2>3, <3>1 DEF HeardOnce
  <2>10. StoredOnce'
    BY <1>1, <1>3, <1>4, <2>2 DEF NotesInv, StoredOnce
  <2>11. KeptOnce' /\ Note!ToldOnce'
    BY <1>1, <1>2, <1>3, <1>4, <2>2, <2>3 DEF NotesInv, KeptOnce, Note!ToldOnce
  <2> QED BY <2>4, <2>5, <2>6, <2>7, <2>8, <2>9, <2>10, <2>11 DEF NotesInv
<1>5. ASSUME injections' \subseteq NoteEntries, \A e \in injections' : e.of = "closed",
             undelivered' \cup Note!NotesOf(injections') = undelivered \cup Note!Released
                   \cup Injected("open"),
             UNCHANGED <<noteRun, repeated>>
      PROVE  NotesInv'
  <2>1. Injected("open")' = {}
    BY <1>5 DEF Injected, Note!Entries, Note!NotesOf
  <2>2. undelivered' \cup Note!NotesOf(injections)' = undelivered \cup Note!NotesOf(injections)
    BY <1>3, <1>5 DEF Note!NotesOf
  <2>3. NoteTypes'
    BY <1>1, <1>3, <1>5, <2>2 DEF NotesInv, NoteTypes
  <2>4. NotesInPlace'
    BY <1>1, <1>5, <2>1, <2>2 DEF NotesInv, NotesInPlace
  <2>5. RunInPlace' /\ NotesHeld'
    BY <1>1, <1>5, <2>1, <2>2 DEF NotesInv, RunInPlace, NotesHeld
  <2>6. FramesInOrder' /\ HeardOnce'
    BY <1>1, <1>5 DEF FramesInOrder, HeardOnce
  <2>7. StoredOnce' /\ KeptOnce' /\ Note!ToldOnce'
    BY <1>1, <1>5, <2>1, <2>2 DEF NotesInv, StoredOnce, KeptOnce, Note!ToldOnce
  <2> QED BY <2>3, <2>4, <2>5, <2>6, <2>7 DEF NotesInv
<1>6. ASSUME NEW e \in Note!Reinjected, injections' = {[e EXCEPT !.of = "closed"]},
             undelivered' = undelivered \cup Note!Released \cup (Note!NotesOf(Note!Reinjected) \ {e.note}),
             UNCHANGED <<noteRun, repeated>>
      PROVE  NotesInv'
  <2>1. e \in NoteEntries /\ e.note \in Injected("open")
    BY <1>2 DEF Note!NotesOf
  <2>2. PICK f : f = [e EXCEPT !.of = "closed"]
    OBVIOUS
  <2>3. f \in NoteEntries /\ f.of = "closed" /\ f.note = e.note
    BY <2>1, <2>2 DEF NoteEntries
  <2>4. injections' = {f}
    BY <1>6, <2>2
  <2>5. Note!NotesOf(injections') = {e.note}
    BY <2>3, <2>4 DEF Note!NotesOf
  <2>6. undelivered' \cup Note!NotesOf(injections') = undelivered \cup Note!Released \cup Injected("open")
    BY <1>2, <1>6, <2>1, <2>5
  <2> QED BY <1>5, <1>6, <2>3, <2>4, <2>6
<1>7. ASSUME injections' = {}, undelivered' = undelivered \cup Note!Released
          \cup Note!NotesOf(Note!Reinjected),
             UNCHANGED <<noteRun, repeated>>
      PROVE  NotesInv'
  <2>1. Note!NotesOf(injections') = {}
    BY <1>7 DEF Note!NotesOf
  <2> QED BY <1>2, <1>5, <1>7, <2>1
<1> QED BY <1>4, <1>6, <1>7 DEF Note!Resumes

LEMMA RewrittenKeepsNotes ==
    ASSUME NotesInv, Note!Rewritten PROVE NotesInv'
<1>1. /\ noteRebase' = TRUE /\ noteHistory' \subseteq noteHistory
      /\ noteDisk' = IF noteDisk = Note!NoSnapshot THEN noteDisk ELSE [noteDisk EXCEPT !.rebase = TRUE]
      /\ UNCHANGED <<coming, noteBefore, noteStored, noteRun, noteFrames, injections, undelivered,
                     interrupted,
                     owed, noteTurn, superseded, repeated>>
  BY DEF Note!Rewritten, Note!kept, Note!truth
<1>2. /\ noteDisk' \in NoteSnapshots /\ noteDisk'.checkpoint = noteDisk.checkpoint /\ noteDisk'.note = noteDisk.note
      /\ noteDisk'.runNote = noteDisk.runNote
  BY <1>1 DEF NotesInv, NoteTypes, NoteSnapshots
<1>3. NoteTypes'
  BY <1>1, <1>2 DEF NotesInv, NoteTypes
<1>4. NotesInPlace'
  BY <1>1, <1>2 DEF NotesInv, NotesInPlace, Note!NotesOf
<1>5. RunInPlace' /\ NotesHeld' /\ KeptOnce' /\ Note!ToldOnce'
  BY <1>1 DEF NotesInv, RunInPlace, NotesHeld, KeptOnce, Note!ToldOnce, Injected, Note!Entries, Note!NotesOf
<1>6. FramesInOrder' /\ HeardOnce'
  BY <1>1 DEF NotesInv, FramesInOrder, HeardOnce, FrameIs, Injected, Note!Entries, Note!NotesOf
<1>7. StoredOnce'
  BY <1>1, <1>2 DEF NotesInv, StoredOnce, Note!NotesOf
<1> QED BY <1>3, <1>4, <1>5, <1>6, <1>7 DEF NotesInv

LEMMA CompactedKeepsNotes ==
    ASSUME NotesInv, Note!Compacted PROVE NotesInv'
<1>1. /\ noteRun.state = "none" /\ noteRebase' = TRUE /\ undelivered' = undelivered
            \cup interrupted /\ interrupted' = {}
      /\ noteHistory' \subseteq noteHistory /\ noteStored' = [has |-> TRUE, holds |-> {}]
      /\ noteDisk' = [Note!Terminal(noteStored', undelivered') EXCEPT !.rebase = TRUE]
      /\ UNCHANGED <<coming, noteBefore, noteRun, noteFrames, injections, owed, noteTurn,
                     superseded, repeated>>
  BY DEF Note!Compacted, Note!truth
<1>2. noteStored' \in NoteCheckpoints /\ noteStored'.holds = {} /\ undelivered' \subseteq Notes
  BY <1>1 DEF NoteCheckpoints, NotesInv, NoteTypes
<1>3. noteDisk' = [checkpoint |-> noteStored', note |-> undelivered', runNote |-> {}, rebase |-> TRUE]
  BY <1>1 DEF Note!Terminal
<1>4. /\ noteDisk' \in NoteSnapshots /\ noteDisk'.checkpoint = noteStored' /\ noteDisk'.note = undelivered' /\ noteDisk'.runNote = {}
  BY <1>2, <1>3 DEF NoteSnapshots
<1>5. noteRun = Note!NoRun /\ Injected("open") = {}
  BY <1>1 DEF NotesInv, RunInPlace
<1>6. Injected("open")' = {} /\ Note!NotesOf(injections)' = Note!NotesOf(injections)
  BY <1>1, <1>5 DEF Injected, Note!Entries, Note!NotesOf
<1>7. /\ {noteBefore', noteHistory', owed', noteTurn', undelivered', interrupted'} \subseteq SUBSET Notes
      /\ injections' \subseteq NoteEntries /\ noteFrames' \in Seq(CursorFrames)
  BY <1>1, <1>2 DEF NotesInv, NoteTypes
<1>8. owed' \cup noteTurn' \subseteq noteBefore' \cup Note!NotesOf(injections)'
          \cup undelivered' \cup interrupted'
  BY <1>1, <1>5, <1>6 DEF NotesInv, NotesHeld, Note!NoRun
<1>9. MayClose
  BY <1>1, <1>2, <1>4, <1>5, <1>6, <1>7, <1>8 DEF MayClose, NotesInv, NotesInPlace
<1> QED BY <1>9, ClosesKeepsNotes

-----------------------------------------------------------------------------
LEMMA NotesStart == Note!Init => NotesInv
<1> SUFFICES ASSUME Note!Init PROVE NotesInv
  OBVIOUS
<1>1. /\ coming = Notes /\ noteBefore = {} /\ noteHistory = {} /\ injections = {} /\ undelivered = {} /\ interrupted = {}
      /\ owed = {} /\ noteTurn = {} /\ superseded = {} /\ repeated = {} /\ noteFrames = <<>> /\ noteRebase = FALSE
      /\ noteStored = Note!NoCheckpoint /\ noteStored.holds = {} /\ noteRun = Note!NoRun /\ noteRun.state = "none" /\ noteRun.knows = {}
      /\ noteRun.carried = {} /\ ~noteRun.own /\ noteDisk = Note!NoSnapshot /\ noteDisk.checkpoint.holds = {} /\ noteDisk.note = {}
      /\ noteDisk.runNote = {}
  BY DEF Note!Init, Note!NoCheckpoint, Note!NoRun, Note!NoSnapshot
<1>2. \A of : Injected(of) = {}
  BY <1>1 DEF Injected, Note!Entries, Note!NotesOf
<1>3. NoteTypes
  <2>1. noteStored \in NoteCheckpoints /\ noteRun \in TellingRuns /\ noteDisk \in NoteSnapshots
    BY <1>1, NothingKept
  <2>2. noteFrames = <<>> /\ <<>> \in Seq(CursorFrames)
    BY <1>1
  <2>3. noteRebase = FALSE
    BY <1>1
  <2> QED BY <1>1, <2>1, <2>2, <2>3 DEF NoteTypes
<1>4. NotesInPlace /\ RunInPlace /\ NotesHeld
  BY <1>1, <1>2 DEF NotesInPlace, RunInPlace, NotesHeld, Note!NotesOf
<1>5. FramesInOrder /\ HeardOnce
  BY <1>1 DEF FramesInOrder, HeardOnce
<1>6. StoredOnce /\ KeptOnce /\ Note!ToldOnce
  BY <1>1, <1>2 DEF StoredOnce, KeptOnce, Note!ToldOnce, Note!NotesOf
<1> QED BY <1>3, <1>4, <1>5, <1>6 DEF NotesInv

LEMMA NotesKeptByNext == NotesInv /\ [Note!Next]_(Note!vars) => NotesInv'
<1> SUFFICES ASSUME NotesInv, [Note!Next]_(Note!vars) PROVE NotesInv'
  OBVIOUS
<1>1. ASSUME NEW n \in Notes, Note!Placed(n) \/ Note!StepDone(n) PROVE NotesInv'
  BY <1>1, PlacedKeepsNotes, StepDoneKeepsNotes
<1>2. CASE Note!NewTurn \/ Note!NewTurnRewritten \/ Note!NewTurnUnfinished \/ Note!Continuation
  BY <1>2, NewTurnKeepsNotes, NewTurnRewrittenKeepsNotes, NewTurnUnfinishedKeepsNotes,
     ContinuationKeepsNotes
<1>3. ASSUME NEW e \in injections, Note!CursorAnswers(e) PROVE NotesInv'
  BY <1>3, CursorAnswersKeepsNotes
<1>4. CASE Note!CursorCheckpoints \/ Note!CursorEnds
  <2>1. noteRun' = noteRun /\ \E more \in {<<Note!Checkpoint>>, <<Note!Checkpoint, [is |-> "ended"]>>} : Note!Sends(more)
    BY <1>4 DEF Note!CursorCheckpoints, Note!CursorEnds
  <2> QED BY <2>1, SendsKeepsNotes
<1>5. CASE Note!Reads
  BY <1>5, ReadsCheckpointKeepsNotes, ReadsInjectionStateKeepsNotes, ReadsEndKeepsNotes DEF Note!Reads
<1>6. CASE Note!Breaks \/ Note!Resumes \/ Note!Rebases \/ Note!GivesUp
  BY <1>6, BreaksKeepsNotes, ResumesKeepsNotes, RebasesKeepsNotes, GivesUpKeepsNotes
<1>7. CASE Note!HeldRunSaved \/ Note!HostStops \/ Note!ShutsDown \/ Note!Dies
  BY <1>7, HeldRunSavedKeepsNotes, HostStopsKeepsNotes, ShutsDownKeepsNotes, DiesKeepsNotes
<1>8. CASE Note!Rewritten \/ Note!Compacted
  BY <1>8, RewrittenKeepsNotes, CompactedKeepsNotes
<1>9. CASE UNCHANGED Note!vars
  <2>1. UNCHANGED <<coming, noteBefore, noteHistory, noteStored, noteRun, noteFrames, injections,
                    undelivered, interrupted, noteRebase,
                    noteDisk, owed, noteTurn, superseded, repeated>>
    BY <1>9 DEF Note!vars, Note!host, Note!kept, Note!truth
  <2>2. NoteTypes' /\ NotesInPlace' /\ RunInPlace' /\ NotesHeld'
    BY <2>1 DEF NotesInv, NoteTypes, NotesInPlace, RunInPlace, NotesHeld, Injected, Note!Entries,
       Note!NotesOf
  <2>3. FramesInOrder' /\ HeardOnce'
    BY <2>1 DEF NotesInv, FramesInOrder, HeardOnce, FrameIs, Injected, Note!Entries, Note!NotesOf
  <2>4. StoredOnce' /\ KeptOnce' /\ Note!ToldOnce'
    BY <2>1 DEF NotesInv, StoredOnce, KeptOnce, Note!ToldOnce, Injected, Note!Entries, Note!NotesOf
  <2> QED BY <2>2, <2>3, <2>4 DEF NotesInv
<1> QED BY <1>1, <1>2, <1>3, <1>4, <1>5, <1>6, <1>7, <1>8, <1>9 DEF Note!Next

\* No note is lost while no checkpoint has held it or a conversation that
\* starts over would have to be told it, and none is told to a conversation
\* that has it, but for one injected into a Run that another took over from
\* unread; whatever notes, requests, losses, stops, shutdowns, crashes and
\* compactions there are.
THEOREM NotesStayTold == Note!Spec => [](Note!NoteKept /\ Note!ToldOnce)
<1>1. NotesInv => Note!NoteKept /\ Note!ToldOnce
  BY DEF NotesInv, NotesHeld, Note!NoteKept
<1> QED BY NotesStart, NotesKeptByNext, <1>1, PTL DEF Note!Spec

-----------------------------------------------------------------------------
\* Whatever the three do beside each other, Cursor goes by the history, the
\* instructions and the notes the host has.
THEOREM HostStaysHeard ==
    ASSUME HostConstants
    PROVE  Hist!Spec /\ Told!Spec /\ Note!Spec => []HostHeard
<1>1. RewriteConstants /\ ~LosesTold
  BY DEF HostConstants
<1>2. Hist!Spec => [](Hist!RewriteHonoured /\ Hist!RebasedOnce)
  BY <1>1, CompactionsStayServed
<1>3. Told!Spec => [](Told!InstructionsFollowed /\ Told!PrefixKept)
  BY <1>1, InstructionsStayFollowed
<1>4. Note!Spec => [](Note!NoteKept /\ Note!ToldOnce)
  BY NotesStayTold
<1> QED BY <1>2, <1>3, <1>4, PTL DEF HostHeard
=============================================================================
