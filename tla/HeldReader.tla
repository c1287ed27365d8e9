----------------------------- MODULE HeldReader -----------------------------
(***************************************************************************)
(* The readers of one Run's frames (src/src/language-model.ts, and          *)
(* readSessionFrame of src/src/session.ts). The pump of a host step, the    *)
(* drain of a stopped Run and, while the host runs the tools of a step, the *)
(* held reader share one iterator, one pending read (pendingFrameRead), one *)
(* pushed-back frame and one queue (heldFrames).                            *)
(*                                                                         *)
(* The held reader answers KV requests, applies aborts of execs the host    *)
(* still runs and drops heartbeats; everything else waits in the queue, in  *)
(* order, for the next pump.                                                *)
(***************************************************************************)
EXTENDS Integers, Sequences, FiniteSets, SequencesExt

CONSTANTS
    Execs,     \* the execs Cursor sends
    Payloads,  \* the kinds of frame it sends beside execs and their aborts
    MaxSent,   \* bound: frames of the Run
    MaxHeld    \* frames the queue takes before reading stops (1000 in the code)

None == 0      \* no frame
Pending == -1  \* a read that has not resolved

VARIABLES
    sent,      \* every frame Cursor sent, in order; a frame is its place here
    given,     \* how many of them the iterator has given out
    read,      \* pendingFrameRead: None, Pending, or the frame it resolved to
    pushback,  \* pushbackFrame
    queue,     \* heldFrames
    reader,    \* the held reader: "off", "waiting" on the read, "replying" to KV
    replying,  \* the KV request it answers
    pump,      \* the pump or drain: "off", "reading", "waiting", "handling"
    current,   \* the frame it handles
    run,       \* the Run: "open", "stopped" by the host, "draining", "closed"
    owed,      \* registered execs the host runs
    aborted,   \* registered execs Cursor withdrew meanwhile
    handled    \* the frames handled so far, in order (history)

vars == <<sent, given, read, pushback, queue, reader, replying, pump, current, run, owed, aborted, handled>>

Kind(n) == sent[n].kind
Exec(n) == sent[n].exec

Init ==
    /\ sent = <<>> /\ given = 0
    /\ read = None /\ pushback = None /\ queue = <<>>
    /\ reader = "off" /\ replying = None
    /\ pump = "reading" /\ current = None
    /\ run = "open"
    /\ owed = {} /\ aborted = {}
    /\ handled = <<>>

-----------------------------------------------------------------------------
(* Cursor, external: an exec is sent once, its abort after it, the end last. *)
Sent(kind) == {sent[n].exec : n \in {m \in DOMAIN sent : Kind(m) = kind}}
CursorSends(kind, e) ==
    /\ run # "closed" /\ Len(sent) < MaxSent
    /\ \A n \in DOMAIN sent : Kind(n) # "end"
    /\ kind = "exec" => e \notin Sent("exec")
    /\ kind = "abort" => e \in Sent("exec") \ Sent("abort")
    /\ sent' = Append(sent, [kind |-> kind, exec |-> e])
    /\ UNCHANGED <<given, read, pushback, queue, reader, replying, pump, current, run, owed, aborted, handled>>

(* The iterator resolves the pending read with the next frame. *)
ReadResolves ==
    /\ read = Pending /\ given < Len(sent)
    /\ given' = given + 1 /\ read' = given + 1
    /\ UNCHANGED <<sent, pushback, queue, reader, replying, pump, current, run, owed, aborted, handled>>

(* `pendingFrameRead ??= frames.next()` *)
Share(r) == IF r = None THEN Pending ELSE r

-----------------------------------------------------------------------------
(* The held reader. *)

Registered == owed \union aborted

(* isHeldRunIdle, given the pump, the registered execs and the queue.        *)
Idle(pumping, registered, q) ==
    run = "open" /\ pumping = "off" /\ registered # {} /\ Len(q) < MaxHeld

(* Mutant of AbortsPendingExec: an abort is applied wherever its exec is.    *)
AbortsPendingExec_Any(n, registered) == Kind(n) = "abort"

(* abortsPendingExec: the abort's exec is registered and not yet withdrawn.  *)
AbortsPendingExec(n, registered) == Kind(n) = "abort" /\ Exec(n) \in registered

(* applyQueuedAborts: the aborts in the queue whose exec is registered.      *)
QueuedAborts == SelectSeq(queue, LAMBDA n : AbortsPendingExec(n, owed))
ApplyQueuedAborts ==
    LET applied == {Exec(n) : n \in Range(QueuedAborts)}
    IN /\ queue' = SelectSeq(queue, LAMBDA n : n \notin Range(QueuedAborts))
       /\ handled' = handled \o QueuedAborts
       /\ owed' = owed \ applied /\ aborted' = aborted \union applied

(* Mutant of ReadsOn: the reader takes one frame and leaves.                 *)
ReadsOn_Once(r, registered, q) == reader' = "off" /\ read' = r

(* The loop's head: read on, or share the read under way. *)
ReadsOn(r, registered, q) ==
    IF Idle(pump, registered, q) THEN reader' = "waiting" /\ read' = Share(r)
    ELSE reader' = "off" /\ read' = r

(* The read resolved after a pump started, which takes the frame itself.     *)
ReaderYields ==
    /\ reader = "waiting" /\ read # Pending /\ ~Idle(pump, Registered, queue)
    /\ reader' = "off"
    /\ UNCHANGED <<sent, given, read, pushback, queue, replying, pump, current, run, owed, aborted, handled>>

ReaderTakes(kind) ==
    /\ reader = "waiting" /\ read \notin {None, Pending} /\ Idle(pump, Registered, queue)
    /\ Kind(read) = kind
    /\ UNCHANGED <<sent, given, pushback, pump, current, run>>

ReaderSkipsHeartbeat ==
    /\ ReaderTakes("heartbeat")
    /\ handled' = Append(handled, read)
    /\ ReadsOn(None, Registered, queue)
    /\ UNCHANGED <<queue, replying, owed, aborted>>

ReaderAnswersKv ==
    /\ ReaderTakes("kv")
    /\ reader' = "replying" /\ replying' = read /\ read' = None
    /\ UNCHANGED <<queue, owed, aborted, handled>>

ReaderAborts ==
    /\ ReaderTakes("abort") /\ AbortsPendingExec(read, owed)
    /\ handled' = Append(handled, read)
    /\ owed' = owed \ {Exec(read)} /\ aborted' = aborted \union {Exec(read)}
    /\ ReadsOn(None, Registered, queue)
    /\ UNCHANGED <<queue, replying>>

(* Everything else; after the end of the stream there is nothing to read.    *)
ReaderQueues ==
    /\ \E kind \in {"data", "exec", "abort", "end"} : ReaderTakes(kind)
    /\ ~AbortsPendingExec(read, owed)
    /\ queue' = Append(queue, read)
    /\ IF Kind(read) = "end" THEN reader' = "off" /\ read' = None
       ELSE ReadsOn(None, Registered, queue')
    /\ UNCHANGED <<replying, owed, aborted, handled>>

(* The reply is written; a pump may have started, or ended again, meanwhile. *)
KvReplied ==
    /\ reader = "replying" /\ run # "closed"
    /\ replying' = None /\ handled' = Append(handled, replying)
    /\ ReadsOn(read, Registered, queue)
    /\ UNCHANGED <<sent, given, pushback, queue, pump, current, run, owed, aborted>>

(* close(): nothing of the Run is kept. *)
Closes ==
    /\ run' = "closed" /\ pump' = "off" /\ current' = None
    /\ read' = None /\ pushback' = None /\ queue' = <<>>
    /\ reader' = "off" /\ replying' = None
    /\ owed' = {} /\ aborted' = {}

KvReplyFails ==
    /\ reader = "replying"
    /\ Closes
    /\ UNCHANGED <<sent, given, handled>>

-----------------------------------------------------------------------------
(* The pump, and the drain of a stopped Run. *)

(* Mutant of Parked: a reader that has not left is joined by a second read.  *)
Parked_Fresh(r, registered) ==
    IF Idle("off", registered, queue') THEN reader' = "waiting" /\ read' = Pending
    ELSE UNCHANGED reader /\ read' = r

(* readHeldRun: unless one still waits or writes, a reader starts.           *)
Parked(r, registered) ==
    IF Idle("off", registered, queue') /\ reader = "off" THEN reader' = "waiting" /\ read' = Share(r)
    ELSE UNCHANGED reader /\ read' = r

(* endPump, the Run held for its tools: aborts that waited behind their exec *)
(* apply first.                                                             *)
StepEnds ==
    /\ pump' = "off" /\ current' = None
    /\ IF Idle("off", Registered, queue) THEN ApplyQueuedAborts
       ELSE UNCHANGED <<queue, owed, aborted, handled>>
    /\ Parked(read, Registered)

(* readSessionFrame: the pushed-back frame, the queue, the shared read.      *)
PumpReads ==
    /\ pump = "reading" /\ run # "stopped"
    /\ IF pushback # None
       THEN current' = pushback /\ pushback' = None /\ pump' = "handling" /\ UNCHANGED <<read, queue>>
       ELSE IF queue # <<>>
       THEN current' = Head(queue) /\ queue' = Tail(queue) /\ pump' = "handling" /\ UNCHANGED <<read, pushback>>
       ELSE pump' = "waiting" /\ read' = Share(read) /\ UNCHANGED <<current, pushback, queue>>
    /\ UNCHANGED <<sent, given, reader, replying, run, owed, aborted, handled>>

(* A held reader waits on the same read first: it runs before the pump does. *)
PumpReceives ==
    /\ pump = "waiting" /\ read \notin {None, Pending} /\ reader # "waiting"
    /\ read' = None
    /\ IF run = "stopped"
       THEN pushback' = read /\ pump' = "off" /\ UNCHANGED current
       ELSE current' = read /\ pump' = "handling" /\ UNCHANGED pushback
    /\ UNCHANGED <<sent, given, queue, reader, replying, run, owed, aborted, handled>>

(* stopForHostInterrupt at the loop's head. *)
PumpStops ==
    /\ pump = "reading" /\ run = "stopped"
    /\ pump' = "off"
    /\ UNCHANGED <<sent, given, read, pushback, queue, reader, replying, current, run, owed, aborted, handled>>

(* The idle guard closes a step that waits for more calls; the read stays.   *)
GuardCloses ==
    /\ pump = "waiting" /\ read = Pending /\ run = "open" /\ Registered # {}
    /\ StepEnds
    /\ UNCHANGED <<sent, given, pushback, replying, run>>

Handling(kind) == pump = "handling" /\ Kind(current) = kind
Continues == pump' = "reading" /\ current' = None

(* The exec goes to the host: the step waits for more calls, or ends.        *)
PumpExec ==
    /\ Handling("exec")
    /\ handled' = Append(handled, current)
    /\ owed' = IF run = "draining" THEN owed ELSE owed \union {Exec(current)}
    /\ Continues
    /\ UNCHANGED <<sent, given, read, pushback, queue, reader, replying, run, aborted>>

CountMet ==
    /\ pump = "reading" /\ run = "open" /\ Registered # {}
    /\ StepEnds
    /\ UNCHANGED <<sent, given, pushback, replying, run>>

PumpAbort ==
    /\ Handling("abort")
    /\ handled' = Append(handled, current)
    /\ owed' = owed \ {Exec(current)}
    /\ aborted' = IF Exec(current) \in owed THEN aborted \union {Exec(current)} ELSE aborted
    /\ Continues
    /\ UNCHANGED <<sent, given, read, pushback, queue, reader, replying, run>>

(* Output, heartbeats, and KV requests, which the pump answers as well.      *)
PumpOther ==
    /\ \E kind \in {"data", "heartbeat", "kv"} : Handling(kind)
    /\ handled' = Append(handled, current)
    /\ Continues
    /\ UNCHANGED <<sent, given, read, pushback, queue, reader, replying, run, owed, aborted>>

(* The end of the turn: it waits while the step has tools for the host.      *)
PumpEnd ==
    /\ Handling("end")
    /\ IF Registered # {}
       THEN /\ pushback' = current /\ StepEnds
            /\ UNCHANGED <<replying, run>>
       ELSE Closes /\ handled' = Append(handled, current)
    /\ UNCHANGED <<sent, given>>

-----------------------------------------------------------------------------
(* The host. *)

(* A result is delivered, or skipped for an exec Cursor withdrew.            *)
HostAnswers(e) ==
    /\ run = "open" /\ pump = "off" /\ e \in Registered
    /\ owed' = owed \ {e} /\ aborted' = aborted \ {e}
    /\ UNCHANGED <<sent, given, read, pushback, queue, reader, replying, pump, current, run, handled>>

(* The continuation pumps the Run once every result is delivered. *)
PumpStarts ==
    /\ run = "open" /\ pump = "off" /\ Registered = {}
    /\ pump' = "reading"
    /\ UNCHANGED <<sent, given, read, pushback, queue, reader, replying, current, run, owed, aborted, handled>>

HostStops ==
    /\ run = "open"
    /\ run' = "stopped"
    /\ UNCHANGED <<sent, given, read, pushback, queue, reader, replying, pump, current, owed, aborted, handled>>

(* cancelRun, once nothing pumps: what the host owed is abandoned. *)
DrainStarts ==
    /\ run = "stopped" /\ pump = "off"
    /\ run' = "draining" /\ pump' = "reading"
    /\ owed' = {} /\ aborted' = {}
    /\ UNCHANGED <<sent, given, read, pushback, queue, reader, replying, current, handled>>

-----------------------------------------------------------------------------
Reader ==
    \/ ReaderYields \/ ReaderSkipsHeartbeat \/ ReaderAnswersKv \/ ReaderAborts \/ ReaderQueues
Pump ==
    \/ PumpReads \/ PumpReceives \/ PumpStops \/ PumpExec \/ CountMet
    \/ PumpAbort \/ PumpOther \/ PumpEnd \/ DrainStarts

Next ==
    \/ \E kind \in Payloads : CursorSends(kind, None)
    \/ \E e \in Execs, kind \in {"exec", "abort"} : CursorSends(kind, e)
    \/ ReadResolves \/ Reader \/ KvReplied \/ KvReplyFails
    \/ Pump \/ GuardCloses
    \/ \E e \in Execs : HostAnswers(e)
    \/ PumpStarts \/ HostStops

(* The event loop runs what can run, a write drains, an idle guard fires;    *)
(* nothing is asked of Cursor or of the host.                                *)
Fairness ==
    /\ WF_vars(ReadResolves) /\ WF_vars(Reader) /\ WF_vars(KvReplied)
    /\ WF_vars(Pump) /\ WF_vars(GuardCloses) /\ WF_vars(PumpStarts)
Spec == Init /\ [][Next]_vars /\ Fairness

-----------------------------------------------------------------------------
Sorted(seq) == \A i, j \in DOMAIN seq : i < j => seq[i] < seq[j]

(* Whoever reads, each frame the iterator gave out of an open Run is in one  *)
(* place: handled once, or in one reader's hands, or queued once; what is    *)
(* kept for the pump precedes what it has yet to read; and output, execs and *)
(* the end reached the pump in the order Cursor sent them: only KV requests, *)
(* heartbeats and aborts overtake (language-model.ts:3146-3192,              *)
(* session.ts:1216-1250).                                                    *)
FramesKeptInOrder ==
    run # "closed" =>
        LET hands == <<read, pushback, replying, current>>
            held == SelectSeq(hands, LAMBDA n : n \notin {None, Pending})
            kept == SelectSeq(<<pushback>> \o queue \o <<read>>, LAMBDA n : n \notin {None, Pending})
        IN /\ Sorted(kept)
           /\ 1..given = Range(handled \o queue \o held)
           /\ given = Len(handled \o queue \o held)
           /\ Sorted(SelectSeq(handled, LAMBDA n : Kind(n) \in {"data", "exec", "end"}))

(* A withdrawn exec is not owed any longer once its abort was handled: an    *)
(* abort never runs ahead of its exec (language-model.ts:3126-3144).         *)
AbortsTakeEffect ==
    \A n \in Range(handled) : Kind(n) = "abort" => Exec(n) \notin owed

(* A KV request is answered while the host is still running tools, for as    *)
(* long as the queue has room, or the Run closes (language-model.ts:3104).   *)
KvAnswered ==
    []<>(\A n \in DOMAIN sent :
            Kind(n) = "kv" => n \in Range(handled) \/ run = "closed" \/ Len(queue) >= MaxHeld)
=============================================================================
