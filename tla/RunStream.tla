------------------------------ MODULE RunStream ------------------------------
(***************************************************************************)
(* One Run's HTTP/2 stream (bidiRunStream in src/src/transport/connect.ts): *)
(* frames from Cursor for the one reader, messages of the Run to Cursor,    *)
(* and the stream's end, told once.                                        *)
(*                                                                         *)
(* Bytes are counted in halves of frames, so that a chunk can end within a  *)
(* frame; a message is its number, in the order of the calls of write().    *)
(***************************************************************************)
EXTENDS Integers, Sequences, SequencesExt

CONSTANTS MaxFrames, MaxMessages

None == "none"
Metadata == {"http", "grpc", "raw"}
Failures == Metadata \cup {"idle", "write"}

VARIABLES
    arrived,   \* halves of frames that came in
    pending,   \* pendingChunks: halves not parsed into a frame yet
    inbound,   \* inboundFrames
    finished,  \* inboundEnded, inboundFailure: "no", "ended" or "failed"
    reading,   \* inboundReaderStarted
    consumer,  \* the reader: "busy", "waiting", "done", "error"
    taken,     \* the frames it got (history)
    meta,      \* what the peer has told of a failure: status, trailers, error
    failure,   \* streamFailure, or None
    terminal,  \* terminalEvent: None, "local-close", "clean" or the failure
    scheduled, \* terminalSettlementScheduled
    writable, local, remote,  \* the flags writable, locallyClosed, remotelyClosed
    http2,     \* the stream: "open", "half" (we ended), "reset", "ended" (Cursor ended), "closed"
    written,   \* messages passed to write()
    queued,    \* queuedWrites: the messages that wait for compression, in order
    sent,      \* messages on the wire, in order
    blocked,   \* the peer holds our bytes back
    backpressured, drain      \* drain: the sender in waitForDrain: "no", "waiting", "drained", "rejected"

vars == <<arrived, pending, inbound, finished, reading, consumer, taken, meta, failure, terminal, scheduled,
          writable, local, remote, http2, written, queued, sent, blocked, backpressured, drain>>
frameVars == <<arrived, pending, inbound, finished, reading, consumer, taken>>
endVars == <<meta, failure, terminal, scheduled, writable, local, remote, http2>>
writeVars == <<written, queued, sent, blocked, backpressured, drain>>

Init ==
    /\ arrived = 0 /\ pending = 0 /\ inbound = <<>> /\ finished = "no" /\ reading = TRUE
    /\ consumer = "busy" /\ taken = <<>>
    /\ meta = {} /\ failure = None /\ terminal = None /\ scheduled = FALSE
    /\ writable = TRUE /\ local = FALSE /\ remote = FALSE /\ http2 = "open"
    /\ written = 0 /\ queued = <<>> /\ sent = <<>> /\ blocked = FALSE /\ backpressured = FALSE /\ drain = "no"

(* observedFailure: what was settled before, then the strongest metadata.    *)
Observed ==
    IF failure # None THEN failure
    ELSE IF "http" \in meta THEN "http"
    ELSE IF "grpc" \in meta THEN "grpc"
    ELSE IF "raw" \in meta THEN "raw" ELSE None

-----------------------------------------------------------------------------
(* The reader asks for a frame: what is queued comes before any failure.     *)
Outcome == IF local THEN "done" ELSE "error"

(* Mutant of TakesQueued: a failed stream hands out nothing more. *)
TakesQueued_UnlessFailed == inbound # <<>> /\ finished # "failed"

TakesQueued == inbound # <<>>

Takes ==
    /\ consumer = "busy"
    /\ IF TakesQueued
       THEN /\ taken' = Append(taken, Head(inbound)) /\ inbound' = Tail(inbound)
            /\ UNCHANGED <<consumer, reading, remote, failure>>
       ELSE IF finished # "no"
       THEN /\ consumer' = Outcome /\ reading' = FALSE
            /\ remote' = IF finished = "ended" THEN ~local ELSE remote
            /\ failure' = Observed
            /\ UNCHANGED <<taken, inbound>>
       ELSE /\ consumer' = "waiting"
            /\ UNCHANGED <<taken, inbound, reading, remote, failure>>
    /\ UNCHANGED <<arrived, pending, finished, meta, terminal, scheduled, writable, local, http2>>
    /\ UNCHANGED writeVars

(* onInboundChunk: a chunk ends at any half; whole frames go to the waiting  *)
(* reader or into the queue.                                                *)
Parsed(n) == (pending + n) \div 2
FrameNumbers(n) == [i \in 1..Parsed(n) |-> (arrived - pending) \div 2 + i]

ChunkArrives(n) ==
    /\ http2 \notin {"reset", "ended", "closed"}
    /\ arrived + n <= 2 * MaxFrames
    /\ arrived' = arrived + n
    /\ IF ~reading \/ finished # "no" THEN UNCHANGED <<pending, inbound, consumer, taken>>
       ELSE /\ pending' = (pending + n) % 2
            /\ IF consumer = "waiting" /\ Parsed(n) > 0
               THEN /\ taken' = Append(taken, FrameNumbers(n)[1])
                    /\ inbound' = inbound \o Tail(FrameNumbers(n))
                    /\ consumer' = "busy"
               ELSE inbound' = inbound \o FrameNumbers(n) /\ UNCHANGED <<taken, consumer>>
    /\ UNCHANGED <<finished, reading>>
    /\ UNCHANGED endVars /\ UNCHANGED writeVars

-----------------------------------------------------------------------------
(* finishInbound and stopInboundReader; a reader that waits is told.         *)
Finish(why, told) ==
    /\ finished' = IF why = "failed" THEN "failed" ELSE IF finished = "no" THEN "ended" ELSE finished
    /\ reading' = FALSE
    /\ consumer' = IF consumer = "waiting" THEN told ELSE consumer

(* settleTerminal: the first event stands, and every drain wait ends.        *)

(* Mutant of Settle: a wait for a drain does not listen to the end. *)
Settle_Alone(event) ==
    /\ terminal' = IF terminal = None THEN event ELSE terminal
    /\ UNCHANGED drain

Settle(event) ==
    /\ terminal' = IF terminal = None THEN event ELSE terminal
    /\ drain' = IF terminal = None /\ drain = "waiting" THEN "rejected" ELSE drain

(* Cursor's end, in its stages: status and trailers, "end", "error" or       *)
(* "aborted", and "close". Each schedules the settlement.                   *)
HeadersArrive(kind) ==
    /\ kind \in {"http", "grpc"} /\ kind \notin meta
    /\ http2 \in {"open", "half"}
    /\ meta' = meta \cup {kind}
    /\ UNCHANGED <<failure, terminal, scheduled, writable, local, remote, http2>>
    /\ UNCHANGED frameVars /\ UNCHANGED writeVars

Schedules == scheduled' = (scheduled \/ terminal = None)

CursorEnds ==
    /\ http2 \in {"open", "half"}
    /\ http2' = "ended" /\ writable' = FALSE
    /\ Schedules
    /\ UNCHANGED <<meta, failure, terminal, local, remote>>
    /\ UNCHANGED frameVars /\ UNCHANGED writeVars

StreamErrs ==
    /\ http2 \in {"open", "half"} /\ "raw" \notin meta
    /\ writable' = FALSE
    /\ http2' = "reset"
    /\ IF local THEN UNCHANGED <<meta, scheduled>>
       ELSE meta' = meta \cup {"raw"} /\ Schedules
    /\ drain' = IF drain = "waiting" THEN "rejected" ELSE drain
    /\ failure' = IF drain = "waiting" /\ failure = None THEN "raw" ELSE failure
    /\ UNCHANGED <<terminal, local, remote>>
    /\ UNCHANGED frameVars /\ UNCHANGED <<written, queued, sent, blocked, backpressured>>

(* The stream closes: after a reset at once, after Cursor's end when our     *)
(* side has nothing buffered.                                               *)
Closes ==
    /\ \/ http2 = "reset"
       \/ http2 = "ended" /\ ~blocked
    /\ http2' = "closed" /\ writable' = FALSE /\ remote' = ~local
    /\ Schedules
    /\ drain' = IF drain = "waiting" THEN "rejected" ELSE drain
    /\ UNCHANGED <<meta, failure, terminal, local>>
    /\ UNCHANGED frameVars /\ UNCHANGED <<written, queued, sent, blocked, backpressured>>

(* settleObservedTerminal, one turn later.                                   *)
Settles ==
    /\ scheduled /\ scheduled' = FALSE
    /\ IF terminal # None THEN UNCHANGED <<frameVars, failure, terminal, drain>>
       ELSE /\ failure' = IF local THEN failure ELSE Observed
            /\ Settle(IF local THEN "local-close" ELSE IF Observed = None THEN "clean" ELSE Observed)
            /\ Finish(IF local \/ Observed = None THEN "ended" ELSE "failed", Outcome)
            /\ pending' = IF local \/ Observed = None THEN pending ELSE 0
            /\ UNCHANGED <<arrived, inbound, taken>>
    /\ UNCHANGED <<meta, writable, local, remote, http2>>
    /\ UNCHANGED <<written, queued, sent, blocked, backpressured>>

(* onReadIdleTimeout: nothing came for readIdleMs.                           *)
ReadIdle ==
    /\ reading /\ ~local /\ ~remote /\ failure = None
    /\ failure' = "idle" /\ writable' = FALSE
    /\ Settle("idle")
    /\ Finish("failed", "error")
    /\ pending' = 0
    /\ http2' = IF http2 = "closed" THEN http2 ELSE "reset"
    /\ UNCHANGED <<arrived, inbound, taken, meta, scheduled, local, remote>>
    /\ UNCHANGED <<written, queued, sent, blocked, backpressured>>

(* end(), destroy() and the abort signal close the Run locally; what came    *)
(* in and was not read is dropped.                                          *)
ClosesHere(next) ==
    /\ local' = TRUE /\ writable' = FALSE
    /\ inbound' = <<>> /\ pending' = 0
    /\ Finish("ended", "done")
    /\ Settle("local-close")
    /\ http2' = next
    /\ UNCHANGED <<arrived, taken, meta, failure, scheduled, remote>>
    /\ UNCHANGED <<written, queued, sent, blocked, backpressured>>

Reset == IF http2 = "closed" THEN "closed" ELSE "reset"

Ended ==
    IF backpressured \/ queued # <<>> THEN Reset
    ELSE IF http2 = "open" THEN "half" ELSE http2

Ends == ~local /\ ClosesHere(Ended)
Destroys == ~local /\ ClosesHere(Reset)

(* destroy() after end() still resets the stream.                            *)
DestroysEnded ==
    /\ local /\ http2 \notin {"reset", "closed"}
    /\ http2' = "reset"
    /\ UNCHANGED <<meta, failure, terminal, scheduled, writable, local, remote>>
    /\ UNCHANGED frameVars /\ UNCHANGED writeVars

-----------------------------------------------------------------------------
(* write(): a small message goes out at once unless one before it waits; a   *)
(* large one is compressed first.                                           *)
Open == writable /\ ~remote /\ http2 \in {"open", "half"}

WriteFrame(m) ==
    /\ sent' = Append(sent, m)
    /\ blocked' \in {blocked, TRUE}
    /\ backpressured' = blocked'
    /\ UNCHANGED <<failure, meta, scheduled, writable>>

(* stream.write throws: the Run failed, and not before its first message.    *)
WriteThrows ==
    /\ meta' = meta \cup {"raw"} /\ failure' = "write" /\ writable' = FALSE
    /\ Schedules
    /\ UNCHANGED <<sent, blocked, backpressured>>

(* Mutant of AtOnce: a small message does not wait for those before it. *)
AtOnce_Small(compressed) == ~compressed

AtOnce(compressed) == ~compressed /\ queued = <<>>

Writes(compressed) ==
    /\ Open /\ written < MaxMessages
    /\ written' = written + 1
    /\ IF AtOnce(compressed)
       THEN (WriteFrame(written + 1) \/ WriteThrows) /\ UNCHANGED queued
       ELSE /\ queued' = Append(queued, written + 1)
            /\ UNCHANGED <<sent, blocked, backpressured, failure, meta, scheduled, writable>>
    /\ UNCHANGED <<terminal, local, remote, http2, drain>> /\ UNCHANGED frameVars

(* The first queued message is ready: written, unless the stream is closed   *)
(* by then.                                                                *)
QueuedReady ==
    /\ queued # <<>> /\ queued' = Tail(queued)
    /\ IF Open THEN WriteFrame(Head(queued)) \/ WriteThrows
       ELSE UNCHANGED <<sent, blocked, backpressured, failure, meta, scheduled, writable>>
    /\ UNCHANGED <<terminal, local, remote, http2, written, drain>> /\ UNCHANGED frameVars

(* waitForDrain, by the sender whose write was not accepted.                 *)
WaitsForDrain ==
    /\ backpressured /\ drain # "waiting"
    /\ drain' = IF terminal = None THEN "waiting" ELSE "rejected"
    /\ drain' # drain
    /\ UNCHANGED <<written, queued, sent, blocked, backpressured>>
    /\ UNCHANGED frameVars /\ UNCHANGED endVars

Drains ==
    /\ blocked /\ http2 \in {"open", "half", "ended"}
    /\ blocked' = FALSE
    /\ IF drain = "waiting" THEN drain' = "drained" /\ backpressured' = FALSE
       ELSE UNCHANGED <<drain, backpressured>>
    /\ UNCHANGED <<written, queued, sent>> /\ UNCHANGED frameVars /\ UNCHANGED endVars

Next ==
    \/ Takes
    \/ \E n \in 1..3 : ChunkArrives(n)
    \/ \E kind \in {"http", "grpc"} : HeadersArrive(kind)
    \/ CursorEnds \/ StreamErrs \/ Closes \/ Settles \/ ReadIdle
    \/ Ends \/ Destroys \/ DestroysEnded
    \/ \E compressed \in BOOLEAN : Writes(compressed)
    \/ QueuedReady \/ WaitsForDrain \/ Drains

(* The event loop, the compressor and the idle timer run; a stream that was  *)
(* reset closes. The peer owes nothing: it may block or go silent for good.  *)
Fairness ==
    /\ WF_vars(Settles) /\ WF_vars(ReadIdle) /\ WF_vars(QueuedReady)
    /\ WF_vars(http2 = "reset" /\ Closes)
    /\ WF_vars(Takes)

Spec == Init /\ [][Next]_vars /\ Fairness

-----------------------------------------------------------------------------
(* Frames reach the reader in order and without a gap, wherever chunks are   *)
(* cut; a Run that failed first hands over the frames that came before.      *)
(* Messages reach the wire in the order of the writes, compressed or not.    *)
StreamsInOrder ==
    /\ \A i \in DOMAIN taken : taken[i] = i
    /\ consumer = "error" => inbound = <<>>
    /\ \A i, j \in DOMAIN sent : i < j => sent[i] < sent[j]

(* A sender that waits for a drain is always told, though the peer may hold  *)
(* the bytes back for good.                                                 *)
DrainSettles == drain = "waiting" ~> drain # "waiting"

(* A Run ended here with bytes or messages outstanding does not keep its     *)
(* stream, and with it the session and the process.                          *)
EndedStreamCloses == (local /\ http2 # "closed" /\ (blocked \/ queued # <<>>)) ~> (http2 = "closed" \/ ~blocked)

(* What the reader is told and what the listeners of the end are told agree. *)
EndsAgree == (consumer = "error" /\ terminal \in Failures) => failure = terminal
=============================================================================
