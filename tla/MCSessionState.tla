---------------------------- MODULE MCSessionState ----------------------------
(***************************************************************************)
(* What a conversation keeps from one turn or process to the next, for TLC: *)
(* its checkpoint in memory and on disk, the blobs a checkpoint names,      *)
(* requests not checkpointed, messages sent early, plans under review, the  *)
(* context gauge, whose words the host's history holds, a history the host  *)
(* replaced, what Cursor was told of the host, and the images it has. They  *)
(* share no state, so one of them runs in each behaviour; the others stay   *)
(* as they start.                                                           *)
(***************************************************************************)
EXTENDS ConversationState, BlobStore, HostSteers, Occupancy, PlanReview, HostHistory, TLC

VARIABLES
    part,  \* the component under way
    \* LostRequests
    lostHost, lostTail, lostStage, sent, lostCheckpoint, lostRecord,
    lostSaved, turns, lostOwed,
    \* TurnProvenance
    provHistory, entry, provBound, knows, provDisk, unsaved, provRun, step,
    kept, steps, provFaults, latest, judged, provExcused,
    \* HistoryImages
    imagesHistory, entries, stored, imagesDisk, imagesRun, writing, clock,
    queue, net, holds, cursor, wire, settled, imagesLosses

CONSTANTS a, b, u, v, m1, m2

\* What the blobs name; v came before this client.
References == a :> {b} @@ b :> {u} @@ u :> {} @@ v :> {u}

Lost == INSTANCE LostRequests WITH
    host <- lostHost, tail <- lostTail, stage <- lostStage,
    checkpoint <- lostCheckpoint, record <- lostRecord, saved <- lostSaved,
    owed <- lostOwed, Texts <- {"red", "blue"}, Hosts <- {"keeps", "drops"},
    MaxTurns <- 5, MaxCheckpoint <- 3

Prov == INSTANCE TurnProvenance WITH
    history <- provHistory, bound <- provBound, disk <- provDisk,
    run <- provRun, faults <- provFaults, excused <- provExcused,
    MaxSteps <- 2, MaxParts <- 2, MaxConvs <- 2, Cap <- 2, MaxFaults <- 1,
    DropsAgain <- FALSE

Images == INSTANCE HistoryImages WITH
    history <- imagesHistory, disk <- imagesDisk, run <- imagesRun,
    losses <- imagesLosses, Attached <- {a}, Returned <- {b},
    MaxCheckpoints <- 3, MaxEntries <- 2, MaxLosses <- 2

lostVars == <<lostHost, lostTail, lostStage, sent, lostCheckpoint, lostRecord,
    lostSaved, turns, lostOwed>>
provVars == <<provHistory, entry, provBound, knows, provDisk, unsaved,
    provRun, step, kept, steps, provFaults, latest, judged, provExcused>>
imagesVars == <<imagesHistory, entries, stored, imagesDisk, imagesRun,
    writing, clock, queue, net, holds, cursor, wire, settled, imagesLosses>>
allVars == <<part, vars, blobsVars, lostVars, steersVars, gaugeVars,
    plansVars, provVars, histVars, notesVars, toldVars, imagesVars>>

InitAny ==
    /\ part \in {"saved", "blobs", "lost", "steers", "gauge", "plans", "prov", "rewrite", "notes", "epoch", "images"}
    /\ Init
    /\ BlobsInit
    /\ Lost!Init /\ (part = "lost" \/ (lostHost = "keeps" /\ lostCheckpoint = 0))
    /\ SteersInit
    /\ GaugeInit
    /\ PlansInit /\ (part = "plans" \/ (perms = "ok" /\ planMode = FALSE /\ reviewer = "stage"))
    /\ Prov!Init
    /\ Hist!Init
    /\ Note!Init
    /\ Told!Init
    /\ Images!Init

SavedSteps ==
    /\ part = "saved" /\ Next
    /\ UNCHANGED <<part, blobsVars, lostVars, steersVars, gaugeVars,
        plansVars, provVars, histVars, notesVars, toldVars, imagesVars>>

BlobsSteps ==
    /\ part = "blobs" /\ BlobsNext
    /\ UNCHANGED <<part, vars, lostVars, steersVars, gaugeVars, plansVars,
        provVars, histVars, notesVars, toldVars, imagesVars>>

LostSteps ==
    /\ part = "lost" /\ Lost!Next
    /\ UNCHANGED <<part, vars, blobsVars, steersVars, gaugeVars, plansVars,
        provVars, histVars, notesVars, toldVars, imagesVars>>

SteersSteps ==
    /\ part = "steers" /\ SteersNext
    /\ UNCHANGED <<part, vars, blobsVars, lostVars, gaugeVars, plansVars,
        provVars, histVars, notesVars, toldVars, imagesVars>>

GaugeSteps ==
    /\ part = "gauge" /\ GaugeNext
    /\ UNCHANGED <<part, vars, blobsVars, lostVars, steersVars, plansVars,
        provVars, histVars, notesVars, toldVars, imagesVars>>

PlansSteps ==
    /\ part = "plans" /\ PlansNext
    /\ UNCHANGED <<part, vars, blobsVars, lostVars, steersVars, gaugeVars,
        provVars, histVars, notesVars, toldVars, imagesVars>>

ProvSteps ==
    /\ part = "prov" /\ Prov!Next
    /\ UNCHANGED <<part, vars, blobsVars, lostVars, steersVars, gaugeVars,
        plansVars, histVars, notesVars, toldVars, imagesVars>>

HistSteps ==
    /\ part = "rewrite" /\ Hist!Next
    /\ UNCHANGED <<part, vars, blobsVars, lostVars, steersVars, gaugeVars,
        plansVars, provVars, notesVars, toldVars, imagesVars>>

NotesSteps ==
    /\ part = "notes" /\ Note!Next
    /\ UNCHANGED <<part, vars, blobsVars, lostVars, steersVars, gaugeVars,
        plansVars, provVars, histVars, toldVars, imagesVars>>

ToldSteps ==
    /\ part = "epoch" /\ Told!Next
    /\ UNCHANGED <<part, vars, blobsVars, lostVars, steersVars, gaugeVars,
        plansVars, provVars, histVars, notesVars, imagesVars>>

ImagesSteps ==
    /\ part = "images" /\ Images!Next
    /\ UNCHANGED <<part, vars, blobsVars, lostVars, steersVars, gaugeVars,
        plansVars, provVars, histVars, notesVars, toldVars>>

NextAny == SavedSteps \/ BlobsSteps \/ LostSteps \/ SteersSteps \/ GaugeSteps
    \/ PlansSteps \/ ProvSteps \/ HistSteps \/ NotesSteps \/ ToldSteps \/
    ImagesSteps

SpecAny == InitAny /\ [][NextAny]_allVars

-----------------------------------------------------------------------------
\* The theorems about these components speak of this instance.
ASSUME Instance == Constants /\ SavedConstants /\ ReadingsAreCounts /\ QueriesAreApart /\ HostConstants

\* Another model's answer, or a turn the user took back, does not pass for
\* Cursor's own. A request the stream lost is sent again, once. An image
\* reaches Cursor, and one its checkpoint holds is not sent again.
HistoryJudged ==
    /\ Prov!NothingHidden /\ Prov!RevertNoticed /\ Prov!OwnStepsRecognised
    /\ Lost!NothingLost /\ Lost!SentOnce
    /\ Images!ImagesReachCursor /\ Images!SettledNotSentAgain
=============================================================================
