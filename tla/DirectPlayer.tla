----------------------------- MODULE DirectPlayer -----------------------------
(***************************************************************************)
(* The browser's end of the direct H.264 stream: the worker that receives  *)
(* frames, decodes and draws them, acknowledges them, asks for a fresh     *)
(* start and reconnects (web/.../screen/direct.worker.ts), together with   *)
(* the queue that serves it (FrameQueue, direct/client.go).                *)
(*                                                                         *)
(* The worker is one thread: every callback is a step.  p is its state,    *)
(* and each of its functions is an operator from p to p.  Time passes in   *)
(* Tick, one stall check interval and one captured frame at a time, once   *)
(* everything that is due has happened: a step that is late is a fault,    *)
(* and so is each failure of the decoder, the canvas or the network.       *)
(***************************************************************************)
EXTENDS FrameQueue

CONSTANTS
    Flow,           \* flowControlWindow
    High, Low,      \* decoderHighWatermark, decoderLowWatermark
    StallTimeout,   \* frameStallTimeoutMs in check intervals
    KeyPeriod,      \* the encoder's GOP: every so many frames is a keyframe
    WireCap,        \* frames the connection holds before a write blocks
    MaxTicks,       \* bound: frames captured
    MaxFaults,      \* bound: faults, a hung connection apart
    MaxHangs        \* bound: connections that hang without closing

ASSUME DirectPlayerAssumption ==
    /\ {Flow, High, Low, StallTimeout, KeyPeriod, WireCap} \subseteq Nat \ {0}
    /\ Low < High
    /\ {MaxTicks, MaxFaults, MaxHangs} \subseteq Nat

None == -2

VARIABLES
    p,          \* the worker
    queue,      \* the server's queue for the open connection
    down, up,   \* the connection: frames to the worker, control messages from it
    hung,       \* the open connection carries nothing any more
    seq,        \* frames captured
    frozen,     \* history: ticks since the last picture or the end of a fault
    faults, hangs

serverVars == <<queue, seq>>
faultVars == <<faults, hangs>>
vars == <<p, serverVars, down, up, hung, frozen, faultVars>>

NoDecoder == [on |-> FALSE, waiting |-> 0, working |-> 0, last |-> Never]

(* self.onmessage 'h264' has run: connect has created the socket.          *)
Init ==
    /\ p = [socket |-> "connecting", timer |-> 0, delay |-> 1, stopped |-> FALSE,
            resyncRequested |-> FALSE, pendingAck |-> None, backpressured |-> FALSE,
            age |-> 0, strikes |-> 0, check |-> FALSE,
            decoder |-> NoDecoder, ready |-> 0,     \* ready: size of frameQueue
            rendering |-> FALSE, flushScheduled |-> FALSE, flushes |-> 0, out |-> <<>>]
    /\ queue = Close(New) /\ down = <<>> /\ up = <<>> /\ hung = FALSE
    /\ seq \in 0..(KeyPeriod - 1)
    /\ frozen = 0 /\ faults = 0 /\ hangs = 0

-----------------------------------------------------------------------------
(* The worker's functions.  out is what a callback sends on the socket.    *)

Send(s, m) == IF s.socket = "open" THEN [s EXCEPT !.out = Append(@, m)] ELSE s

(* requestStreamResync: one outstanding request.                           *)
RequestStreamResync(s) ==
    IF s.resyncRequested \/ s.socket # "open" THEN s
    ELSE [Send(s, None) EXCEPT !.resyncRequested = TRUE]

(* Defect: a reset forgets that it also ends the drawing.                  *)
ResetDecoderStillRendering(s) ==
    [s EXCEPT !.decoder = NoDecoder, !.pendingAck = None, !.backpressured = FALSE,
              !.flushScheduled = FALSE, !.ready = 0]

(* resetDecoder.  What the old decoder had in hand goes with it: a closed  *)
(* VideoDecoder drops its queue and calls its output no more, so the tests *)
(* for source !== decoder in its callbacks have nothing to find.           *)
ResetDecoder(s) ==
    [s EXCEPT !.decoder = NoDecoder, !.pendingAck = None, !.backpressured = FALSE,
              !.rendering = FALSE, !.flushScheduled = FALSE, !.ready = 0]

Restart(s) == ResetDecoder(RequestStreamResync(s))

(* releaseDecodeBackpressure: acknowledges the last frame handed over,     *)
(* unless the decoder is behind.                                           *)
ReleaseDecodeBackpressure(s) ==
    IF s.pendingAck = None \/ (s.backpressured /\ s.decoder.waiting > Low) THEN s
    ELSE [Send(s, s.pendingAck) EXCEPT !.backpressured = FALSE, !.pendingAck = None]

Decode(s, f) ==
    LET fed == [s EXCEPT !.decoder.waiting = @ + 1, !.decoder.last = f.ts, !.pendingAck = f.ts]
    IN  ReleaseDecodeBackpressure(
            [fed EXCEPT !.backpressured = @ \/ fed.decoder.waiting >= High])

ScheduleFrameQueue(s) ==
    IF s.flushScheduled THEN s
    ELSE [s EXCEPT !.flushScheduled = TRUE, !.flushes = @ + 1]

(* handleDecodedFrame: the newest frame replaces the one queued.           *)
HandleDecodedFrame(s) ==
    IF s.rendering THEN [s EXCEPT !.ready = 1]
    ELSE ScheduleFrameQueue([s EXCEPT !.ready = 1, !.rendering = TRUE])

(* scheduleReconnect: the delay, in seconds, doubles up to a limit.        *)
ScheduleReconnect(s) ==
    IF s.stopped \/ s.timer > 0 THEN s
    ELSE [s EXCEPT !.timer = s.delay, !.delay = IF 2 * @ > 5 THEN 5 ELSE 2 * @]

-----------------------------------------------------------------------------
(* Steps.  A callback of the worker leaves p = s and sends what s.out has. *)

Runs(s) == p' = [s EXCEPT !.out = <<>>] /\ up' = up \o s.out

Faulty == faults < MaxFaults /\ faults' = faults + 1 /\ frozen' = 0 /\ UNCHANGED hangs
Faultless == UNCHANGED <<frozen, faultVars>>

(* onopen; the server has a fresh flow-controlled queue for the socket.    *)
OnOpen ==
    /\ p.socket = "connecting"
    /\ Runs([p EXCEPT !.socket = "open", !.delay = 1, !.resyncRequested = FALSE,
                      !.pendingAck = None, !.backpressured = FALSE, !.age = 0, !.strikes = 0])
    /\ queue' = EnableFlowControl(New, Flow)
    /\ Faultless /\ UNCHANGED <<seq, down, hung>>

(* The connection ends, and what is under way with it.                     *)
Ends(s) ==
    /\ p' = s
    /\ queue' = Close(queue) /\ down' = <<>> /\ up' = <<>> /\ hung' = FALSE

(* The worker closes the socket, or the network does; onclose follows.     *)
Closing(s) == Ends([s EXCEPT !.socket = "closing"])

Drop ==
    /\ p.socket \in {"connecting", "open"}
    /\ Closing(p)
    /\ Faulty /\ UNCHANGED seq

OnClose ==
    /\ p.socket = "closing"
    /\ Runs(ScheduleReconnect(ResetDecoder([p EXCEPT !.socket = "none", !.resyncRequested = FALSE])))
    /\ Faultless /\ UNCHANGED <<serverVars, down, hung>>

(* The reconnect timer: connect.                                           *)
Reconnect ==
    /\ p.socket = "none" /\ p.timer = 1 /\ ~p.stopped
    /\ Runs([p EXCEPT !.timer = 0, !.socket = "connecting"])
    /\ Faultless /\ UNCHANGED <<serverVars, down, hung>>

Received(s) == /\ down # <<>> /\ ~hung
               /\ Runs(s)
               /\ down' = Tail(down)
               /\ UNCHANGED <<serverVars, hung>>

(* Defect: a decoder is started on any frame.                              *)
ReceiveAny ==
    LET f == Head(down) IN
    /\ Received(IF p.decoder.on THEN Decode(p, f)
                ELSE Decode([p EXCEPT !.resyncRequested = FALSE, !.decoder.on = TRUE], f))
    /\ Faultless

(* handleWsMessage: without a decoder a keyframe makes one, and any other  *)
(* frame is dropped, not acknowledged, and asks for a fresh start.         *)
Receive ==
    LET f == Head(down) IN
    /\ Received(IF p.decoder.on THEN Decode(p, f)
                ELSE IF f.key
                  THEN Decode([p EXCEPT !.resyncRequested = FALSE, !.decoder.on = TRUE], f)
                  ELSE RequestStreamResync(p))
    /\ Faultless

(* createDecoder fails ...                                                 *)
CreateFails ==
    /\ ~p.decoder.on /\ down # <<>> /\ Head(down).key
    /\ Received(RequestStreamResync([p EXCEPT !.resyncRequested = FALSE]))
    /\ Faulty

(* ... decode throws ...                                                   *)
DecodeThrows ==
    /\ p.decoder.on
    /\ Received(Restart(p))
    /\ Faulty

(* ... or the decoder fails later.                                         *)
DecoderError ==
    /\ p.decoder.on
    /\ Runs(Restart(p))
    /\ Faulty /\ UNCHANGED <<serverVars, down, hung>>

(* ondequeue: the decoder has taken a chunk.                               *)
OnDequeue ==
    /\ p.decoder.waiting > 0
    /\ Runs(ReleaseDecodeBackpressure(
               [p EXCEPT !.decoder.waiting = @ - 1, !.decoder.working = @ + 1]))
    /\ Faultless /\ UNCHANGED <<serverVars, down, hung>>

(* output: the decoder has a picture.                                      *)
Output ==
    /\ p.decoder.working > 0
    /\ Runs(HandleDecodedFrame([p EXCEPT !.decoder.working = @ - 1]))
    /\ Faultless /\ UNCHANGED <<serverVars, down, hung>>

Flushed == [p EXCEPT !.flushes = @ - 1, !.flushScheduled = FALSE]

(* processFrameQueue, on a message of frameChannel: draws the frame queued *)
(* if there is one.                                                        *)
Flush ==
    /\ p.flushes > 0
    /\ Runs([Flushed EXCEPT !.ready = 0, !.rendering = FALSE, !.age = IF p.ready = 1 THEN 0 ELSE @])
    /\ frozen' = IF p.ready = 1 THEN 0 ELSE frozen
    /\ UNCHANGED <<serverVars, down, hung, faultVars>>

RenderFails ==
    /\ p.flushes > 0 /\ p.ready = 1
    /\ Runs(Restart([Flushed EXCEPT !.ready = 0]))
    /\ Faulty /\ UNCHANGED <<serverVars, down, hung>>

Stalled == p.socket = "open" /\ p.age >= StallTimeout

(* checkFrameStall: nothing to do, a first remedy, or the last one.        *)
CheckFrameStall ==
    /\ p.check /\ ~(Stalled /\ p.strikes > 0)
    /\ Runs(IF Stalled
              THEN RequestStreamResync([p EXCEPT !.check = FALSE, !.age = 0, !.strikes = 1,
                                                 !.resyncRequested = FALSE])
              ELSE [p EXCEPT !.check = FALSE, !.strikes = IF p.socket = "open" THEN 0 ELSE @])
    /\ Faultless /\ UNCHANGED <<serverVars, down, hung>>

CheckDropsSocket ==
    /\ p.check /\ Stalled /\ p.strikes > 0
    /\ Closing([p EXCEPT !.check = FALSE, !.age = 0, !.strikes = @ + 1])
    /\ frozen' = IF hung THEN 0 ELSE frozen
    /\ UNCHANGED <<seq, faultVars>>

(* 'stop': the page leaves the stream and ends the worker.                 *)
Stop ==
    /\ ~p.stopped
    /\ Ends(ResetDecoder([p EXCEPT !.socket = "none", !.stopped = TRUE, !.timer = 0,
                                   !.check = FALSE]))
    /\ Faultless /\ UNCHANGED seq

-----------------------------------------------------------------------------
(* The server's end                                                        *)

(* writeLoop                                                               *)
WriteFrame ==
    /\ CanPop(queue) /\ Len(down) < WireCap
    /\ down' = Append(down, Head(queue.frames))
    /\ queue' = PopForWrite(queue)
    /\ Faultless /\ UNCHANGED <<p, up, hung, seq>>

(* handleControl                                                           *)
HandleControl ==
    /\ up # <<>> /\ ~hung
    /\ up' = Tail(up)
    /\ queue' = IF Head(up) = None THEN RequestResync(queue) ELSE Acknowledge(queue, Head(up))
    /\ Faultless /\ UNCHANGED <<p, down, hung, seq>>

(* The connection stays open and carries nothing more.                     *)
Hang ==
    /\ p.socket = "open" /\ ~hung /\ hangs < MaxHangs
    /\ hung' = TRUE /\ hangs' = hangs + 1 /\ frozen' = 0
    /\ UNCHANGED <<p, serverVars, down, up, faults>>

(* Something is due now.                                                   *)
Due ==
    \/ p.socket \in {"connecting", "closing"}
    \/ p.socket = "none" /\ p.timer = 1
    \/ p.decoder.waiting + p.decoder.working + p.flushes > 0 \/ p.check
    \/ down # <<>> /\ ~hung
    \/ up # <<>> /\ ~hung
    \/ CanPop(queue) /\ Len(down) < WireCap

(* A second passes and the encoder captures the next frame.                *)
Passes ==
    /\ ~p.stopped /\ seq < MaxTicks
    /\ seq' = seq + 1
    /\ queue' = Offer(queue, seq' % KeyPeriod = 0, seq')
    /\ p' = [p EXCEPT !.age = IF @ < StallTimeout THEN @ + 1 ELSE @, !.check = TRUE,
                      !.timer = IF @ > 1 THEN @ - 1 ELSE @]
    /\ UNCHANGED <<down, up, hung>>

Tick ==
    /\ ~Due
    /\ Passes
    /\ frozen' = frozen + 1
    /\ UNCHANGED faultVars

(* The worker or the network is late.                                      *)
Lag ==
    /\ Due
    /\ Passes
    /\ Faulty

Next ==
    \/ OnOpen \/ Drop \/ OnClose \/ Reconnect
    \/ Receive \/ CreateFails \/ DecodeThrows \/ DecoderError
    \/ OnDequeue \/ Output \/ Flush \/ RenderFails
    \/ CheckFrameStall \/ CheckDropsSocket \/ Stop
    \/ WriteFrame \/ HandleControl
    \/ Hang \/ Tick \/ Lag

Spec == Init /\ [][Next]_vars

-----------------------------------------------------------------------------

(* A frame handed to a decoder is a keyframe or follows the frame handed   *)
(* to the same decoder before: neither frames the server skipped nor       *)
(* frames the worker dropped, nor those of an earlier connection, are ever *)
(* referenced (direct.worker.ts handleWsMessage, resetDecoder).            *)
DecodesInOrder ==
    [][p'.decoder.last \notin {p.decoder.last, Never} =>
           LET f == Head(down) IN f.key \/ f.after = p.decoder.last]_vars

(* A picture that is queued will be drawn: its flush message is in the     *)
(* channel, although a reset forgets the message that was there before     *)
(* (direct.worker.ts scheduleFrameQueue, processFrameQueue, resetDecoder). *)
PictureIsFlushed == p.ready = 1 => p.rendering /\ p.flushes > 0

(* The picture moves again within two stall time-outs and one keyframe     *)
(* period, whatever failed before, as long as the connection carries what  *)
(* is sent: dropped frames are never acknowledged, so the server's window  *)
(* fills up and nothing but a resync empties it                            *)
(* (direct.worker.ts requestStreamResync, checkFrameStall, onclose).       *)
PictureReturns == (~p.stopped /\ ~hung) => frozen <= 2 * StallTimeout + KeyPeriod

(* "Ask for a fresh key frame first, and if that changes nothing drop the  *)
(* socket so the existing reconnect can rebuild the whole stream": two     *)
(* time-outs without a picture end the connection                          *)
(* (direct.worker.ts checkFrameStall).                                     *)
StalledSocketDropped ==
    (p.socket = "open" /\ hung /\ ~p.check) => frozen <= 2 * StallTimeout + 1
=============================================================================
