-------------------------- MODULE LostRequests --------------------------
(***************************************************************************)
(* Requests whose Run failed before Cursor checkpointed them               *)
(* (src/lost-request.ts, and startSession in src/language-model.ts).  The  *)
(* next turn continues Cursor's last checkpoint, which does not hold them, *)
(* so it sends them again ahead of its own text.  The host may send them   *)
(* again too: a retry repeats the failed turn's text, OpenCode 1 merges    *)
(* the messages left without a reply, OpenCode 2 adds a note before each   *)
(* retry.  Memory may be lost, and the conversation's snapshot restored.   *)
(***************************************************************************)
EXTENDS Naturals, Sequences, SequencesExt

CONSTANTS Texts,     \* what the user may ask
          Hosts,     \* "keeps" a failed turn's partial reply, "drops" it, or "either"
          MaxTurns,
          MaxCheckpoint

Note == "continue"   \* the host's own note before a retry

VARIABLES host,        \* what the host does with a failed turn's reply
          tail,        \* the user texts since the host's last reply
          stage,       \* how the last turn ended, or "running"
          sent,        \* what the last Run sent
          checkpoint,  \* Cursor's newest checkpoint, 0 without one
          record,      \* the text Cursor has not checkpointed
          saved,       \* the snapshot: its checkpoint and record
          turns,       \* bounds the behaviour
          owed         \* the texts asked since the checkpoint, and not stopped

vars == <<host, tail, stage, sent, checkpoint, record, saved, turns, owed>>

NoRecord == [key |-> 0, text |-> <<>>, latest |-> <<>>]

Init == /\ host \in Hosts
        /\ tail = <<>>
        /\ stage = "idle"
        /\ sent = <<>>
        /\ checkpoint \in {0, 1}
        /\ record = NoRecord
        /\ saved = [checkpoint |-> checkpoint, record |-> NoRecord]
        /\ turns = 0
        /\ owed = <<>>

----------------------------------------------------------------------------
\* Mutant: a retry is taken for a new request.
carryLostRequest_Appends(live) ==
  IF record = NoRecord \/ checkpoint = 0 \/ record.key # checkpoint THEN live
  ELSE IF IsPrefix(record.text, live) THEN live
  ELSE record.text \o live

\* Mutant: a text asked before counts as sent.
carryLostRequest_Seen(live) ==
  IF record = NoRecord \/ checkpoint = 0 \/ record.key # checkpoint THEN live
  ELSE IF ToSet(live) \subseteq ToSet(record.text) THEN record.text
  ELSE record.text \o live

\* A turn without a checkpoint seeds the whole history instead.
carryLostRequest(live) ==
  IF record = NoRecord \/ checkpoint = 0 \/ record.key # checkpoint THEN live
  ELSE IF live = record.latest THEN record.text
  ELSE IF IsPrefix(record.text, live) THEN live
  ELSE record.text \o live

\* What a turn remembers of what it sends.
rememberLostRequest(text, live) ==
  IF checkpoint = 0 THEN NoRecord ELSE [key |-> checkpoint, text |-> text, latest |-> live]

\* A turn with this live text.  The same text again is the host's retry.
Sends(live) ==
  /\ tail' = live
  /\ sent' = carryLostRequest(live)
  /\ record' = rememberLostRequest(carryLostRequest(live), live)
  /\ stage' = "running"
  /\ turns' = turns + 1
  /\ UNCHANGED <<host, checkpoint, saved>>

\* The user asks.  Asking for what the failed turn asked repeats it.
Asks ==
  /\ stage # "running" /\ turns < MaxTurns
  /\ \E t \in Texts :
       LET live == Append(tail, t)
           repeats == record # NoRecord /\ live = record.latest
       IN /\ Sends(live)
          /\ owed' = IF repeats THEN owed ELSE IF owed = <<>> THEN live ELSE Append(owed, t)

\* The host retries the failed turn by itself, after a note or with the same
\* messages.
Retries ==
  /\ stage = "failed" /\ turns < MaxTurns
  /\ \/ tail # <<>> /\ Sends(tail) /\ owed' = IF owed = <<>> THEN tail ELSE owed
     \/ /\ tail = <<>>
        /\ Sends(<<Note>>)
        /\ owed' = IF owed # <<>> /\ Last(owed) = Note THEN owed ELSE Append(owed, Note)

\* Mutant: a checkpoint that is not the first leaves the record.
noteCheckpoint_Keeps(c) == record

\* Cursor kept the turn.
noteCheckpoint(c) == IF c # record.key THEN NoRecord ELSE record

Checkpoints ==
  /\ stage = "running" /\ checkpoint < MaxCheckpoint
  /\ checkpoint' = checkpoint + 1
  /\ record' = noteCheckpoint(checkpoint + 1)
  /\ owed' = <<>>
  /\ UNCHANGED <<host, tail, stage, sent, saved, turns>>

\* A save of the conversation carries the record.
serializeLostRequest == [checkpoint |-> checkpoint, record |-> record]

\* Cursor ends a turn it has checkpointed.
Ends ==
  /\ stage = "running" /\ record = NoRecord
  /\ stage' = "idle" /\ tail' = <<>>
  /\ saved' = serializeLostRequest
  /\ UNCHANGED <<host, sent, checkpoint, record, turns, owed>>

\* Mutant: a failed Run reaches no save.
FailedSave_Not == saved

\* Only the snapshot carries the request past a restart.
FailedSave == IF record # NoRecord THEN serializeLostRequest ELSE saved

\* The Run fails for good.  A partial reply ends the host's open messages.
Fails ==
  /\ stage = "running"
  /\ stage' = "failed"
  /\ \/ host \in {"keeps", "either"} /\ tail' = <<>>
     \/ host \in {"drops", "either"} /\ UNCHANGED tail
  /\ saved' = FailedSave
  /\ UNCHANGED <<host, sent, checkpoint, record, turns, owed>>

\* The user stops the turn: what it asked is not asked again.  A Run being
\* opened is only dropped, an open one is saved.
Stops ==
  /\ stage = "running"
  /\ record' = NoRecord
  /\ stage' = "stopped" /\ tail' = <<>> /\ owed' = <<>>
  /\ saved' \in {saved, [checkpoint |-> checkpoint, record |-> NoRecord]}
  /\ UNCHANGED <<host, sent, checkpoint, turns>>

\* The conversation starts over: its history is seeded, and holds every request.
Rebases ==
  /\ stage # "running" /\ checkpoint # 0
  /\ checkpoint' = 0 /\ record' = NoRecord /\ owed' = <<>>
  /\ saved' = [checkpoint |-> 0, record |-> NoRecord]
  /\ UNCHANGED <<host, tail, stage, sent, turns>>

\* Memory is lost, in a Run or between two.  After a failed turn nothing owed
\* is.  Where the snapshot holds an older checkpoint, or the program died in
\* the middle of a turn or after a stop, only what it holds is owed, and what
\* a host that drops replies then shows of that turn is open.
Restarts ==
  /\ turns < MaxTurns
  /\ checkpoint' = saved.checkpoint /\ record' = saved.record
  /\ stage' = "idle"
  /\ IF stage \in {"idle", "failed"} /\ saved.checkpoint = checkpoint THEN UNCHANGED <<host, tail, owed>>
     ELSE /\ owed' = saved.record.text
          /\ tail' = <<>>
          /\ host' = IF host = "drops" THEN "either" ELSE host
  /\ UNCHANGED <<sent, saved, turns>>

Next == Asks \/ Retries \/ Checkpoints \/ Ends \/ Fails \/ Stops \/ Rebases \/ Restarts

Spec == Init /\ [][Next]_vars

----------------------------------------------------------------------------
(* Correctness.                                                            *)

\* One sequence is found in another, in order.
Within(s, u) ==
  LET upTo[k \in 0..Len(u)] ==  \* how much of s the first k of u hold
        IF k = 0 THEN 0
        ELSE LET n == upTo[k - 1] IN IF n < Len(s) /\ s[n + 1] = u[k] THEN n + 1 ELSE n
  IN upTo[Len(u)] = Len(s)

\* A turn that continues a checkpoint sends every request the checkpoint lacks,
\* in the order they were asked: none is lost to a failed Run, a retry or a
\* restart (carryLostRequest, "everything Cursor has not checkpointed").
NothingLost ==
  stage = "running" /\ checkpoint # 0 => Within(owed, sent)

\* Where the host always keeps, or always drops, a failed turn's reply, a turn
\* sends what is owed and nothing twice, however often the host retries it.
SentOnce ==
  stage = "running" /\ checkpoint # 0 /\ host # "either" /\ owed # <<>> => sent = owed
=============================================================================
