----------------------------- MODULE MCConnection -----------------------------
(***************************************************************************)
(* The client's side of the connection to Cursor, for TLC: the HTTP/2       *)
(* sessions, one Run's stream, and the reader that answers Cursor while the *)
(* host runs tools. They share no state, so one of them runs in each        *)
(* behaviour; the others stay as they start.                                *)
(***************************************************************************)
EXTENDS Http2Sessions, Integers, Sequences, TLC

VARIABLES
    part,  \* the component under way
    \* RunStream
    arrived, pending, inbound, finished, reading, consumer, taken, meta,
    failure, terminal, scheduled, writable, local, remote, http2, written,
    queued, streamSent, blocked, backpressured, drain,
    \* HeldReader
    heldSent, given, read, pushback, queue, reader, replying, pump, current,
    heldRun, owed, aborted, handled

Stream == INSTANCE RunStream WITH
    sent <- streamSent, MaxFrames <- 2, MaxMessages <- 2

Held == INSTANCE HeldReader WITH
    sent <- heldSent, run <- heldRun, Execs <- {1, 2},
    Payloads <- {"data", "kv", "end"}, MaxSent <- 4, MaxHeld <- 2

streamVars == <<arrived, pending, inbound, finished, reading, consumer, taken,
    meta, failure, terminal, scheduled, writable, local, remote, http2,
    written, queued, streamSent, blocked, backpressured, drain>>
heldVars == <<heldSent, given, read, pushback, queue, reader, replying, pump,
    current, heldRun, owed, aborted, handled>>
allVars == <<part, vars, streamVars, heldVars>>

InitAny ==
    /\ part \in {"pool", "stream", "held"}
    /\ Init /\ (part = "pool" \/ (offered = NoSession))
    /\ Stream!Init
    /\ Held!Init

PoolSteps ==
    /\ part = "pool" /\ Next
    /\ UNCHANGED <<part, streamVars, heldVars>>

StreamSteps ==
    /\ part = "stream" /\ Stream!Next
    /\ UNCHANGED <<part, vars, heldVars>>

HeldSteps ==
    /\ part = "held" /\ Held!Next
    /\ UNCHANGED <<part, vars, streamVars>>

NextAny == PoolSteps \/ StreamSteps \/ HeldSteps

FairnessAny ==
    /\ WF_vars(part = "pool" /\ PingFails)
    /\ WF_vars(part = "pool" /\ ConnectFails)
    /\ WF_streamVars(part = "stream" /\ Stream!Settles)
    /\ WF_streamVars(part = "stream" /\ Stream!ReadIdle)
    /\ WF_streamVars(part = "stream" /\ Stream!QueuedReady)
    /\ WF_streamVars(part = "stream" /\ http2 = "reset" /\ Stream!Closes)
    /\ WF_streamVars(part = "stream" /\ Stream!Takes)
    /\ WF_heldVars(part = "held" /\ Held!ReadResolves)
    /\ WF_heldVars(part = "held" /\ Held!Reader)
    /\ WF_heldVars(part = "held" /\ Held!KvReplied)
    /\ WF_heldVars(part = "held" /\ Held!Pump)
    /\ WF_heldVars(part = "held" /\ Held!GuardCloses)
    /\ WF_heldVars(part = "held" /\ Held!PumpStarts)

SpecAny == InitAny /\ [][NextAny]_allVars /\ FairnessAny

-----------------------------------------------------------------------------
\* A Run that asks for a session gets one or an error. Frames and messages
\* keep their order on its stream, and both ends of it agree; a sender that
\* waits for a drain is told, and an ended stream closes.
StreamsInOrder ==
    /\ [](Stream!StreamsInOrder /\ Stream!EndsAgree)
    /\ RunsAnswered /\ Stream!DrainSettles /\ Stream!EndedStreamCloses

\* Whoever reads the held Run, its frames are handled once and in order, and
\* a KV request is answered while the host runs tools.
FramesHandled == [](Held!FramesKeptInOrder /\ Held!AbortsTakeEffect) /\ Held!KvAnswered
=============================================================================
