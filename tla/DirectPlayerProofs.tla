-------------------------- MODULE DirectPlayerProofs --------------------------
(***************************************************************************)
(* The direct player decodes only frames that can be decoded after the one *)
(* before, and draws every picture it queues, for every window, watermark, *)
(* time-out and number of faults.                                          *)
(*                                                                         *)
(* The worker's functions keep what its flags say of each other (Drawing). *)
(* The frames on the wire follow each other from the one the decoder had   *)
(* last to the one the server's queue handed out last (WireInv), where the *)
(* queue's own invariant takes over.                                       *)
(***************************************************************************)
EXTENDS DirectPlayer, FrameQueueProofs

Decoders == [on : BOOLEAN, waiting : Nat, working : Nat, last : Int]

Workers ==
    [socket : {"connecting", "open", "closing", "none"}, timer : Nat, delay : Nat,
     stopped : BOOLEAN, resyncRequested : BOOLEAN, pendingAck : Int, backpressured : BOOLEAN,
     age : Nat, strikes : Nat, check : BOOLEAN, decoder : Decoders, ready : {0, 1},
     rendering : BOOLEAN, flushScheduled : BOOLEAN, flushes : Nat, out : Seq(Int)]

(* A picture that is queued is being drawn, and whoever draws has a flush  *)
(* message scheduled since the last reset and in the channel.              *)
Drawing(s) ==
    /\ s.ready = 1 => s.rendering
    /\ s.rendering => s.flushScheduled
    /\ s.flushScheduled => s.flushes > 0

WorkerInv(s) == s \in Workers /\ Drawing(s)

(* What a function of the worker leaves alone.                             *)
Keeps(s, t) == t.socket = s.socket /\ t.decoder = s.decoder
Quits(s, t) == t.socket = s.socket /\ t.decoder = NoDecoder

(* Two frames in a row on the wire.                                        *)
Chained(frames) ==
    \A i \in 1..Len(frames) : i > 1 => frames[i].key \/ frames[i].after = frames[i - 1].ts

(* From the decoder over the wire to what the queue handed out last.       *)
Joined(frames, last, taken) ==
    IF frames = <<>> THEN last = taken ELSE Head(frames).key \/ Head(frames).after = last

EndsWith(frames, taken) == frames # <<>> => frames[Len(frames)].ts = taken

WireInv ==
    /\ Chained(down) /\ EndsWith(down, queue.taken)
    /\ (p.socket = "open" /\ p.decoder.on) => Joined(down, p.decoder.last, queue.taken)
    /\ p.socket # "open" => down = <<>> /\ queue.closed
    /\ p.socket \in {"connecting", "none"} => ~p.decoder.on

(* What every step but the hand-over of a frame does to the decoder.       *)
LastKept == p'.decoder.last = p.decoder.last \/ p'.decoder.last = Never

Typed ==
    /\ down \in Seq(Frame) /\ up \in Seq(Int)
    /\ seq \in Nat

Inv == WorkerInv(p) /\ QueueInv(queue) /\ Typed /\ WireInv

-----------------------------------------------------------------------------
(* The worker's functions.                                                 *)

LEMMA SendInv ==
    ASSUME NEW s, WorkerInv(s), NEW m \in Int
    PROVE  WorkerInv(Send(s, m)) /\ Keeps(s, Send(s, m))
<1>1. s \in Workers /\ s.out \in Seq(Int) /\ Append(s.out, m) \in Seq(Int)
  BY DEF WorkerInv, Workers
<1>2. Send(s, m) \in Workers
  BY <1>1 DEF Send, Workers
<1> QED BY <1>1, <1>2 DEF Send, Workers, WorkerInv, Drawing, Keeps

LEMMA RequestInv ==
    ASSUME NEW s, WorkerInv(s)
    PROVE  WorkerInv(RequestStreamResync(s)) /\ Keeps(s, RequestStreamResync(s))
<1> DEFINE t == Send(s, None)
<1>1. WorkerInv(t) /\ Keeps(s, t)
  BY SendInv DEF None
<1> HIDE DEF t
<1>2. /\ WorkerInv([t EXCEPT !.resyncRequested = TRUE])
      /\ Keeps(s, [t EXCEPT !.resyncRequested = TRUE])
  BY <1>1 DEF WorkerInv, Workers, Drawing, Keeps
<1>3. WorkerInv(s) /\ Keeps(s, s)
  BY DEF Keeps
<1> QED BY <1>2, <1>3 DEF RequestStreamResync, t

LEMMA NoDecoderFacts == NoDecoder \in Decoders /\ NoDecoder.last = Never /\ ~NoDecoder.on
BY DEF NoDecoder, Decoders, Never

LEMMA ResetInv ==
    ASSUME NEW s \in Workers
    PROVE  WorkerInv(ResetDecoder(s)) /\ Quits(s, ResetDecoder(s))
<1>1. NoDecoder \in Decoders /\ None \in Int /\ FALSE \in BOOLEAN /\ 0 \in {0, 1}
  BY NoDecoderFacts DEF None
<1>2. ResetDecoder(s) \in Workers
  BY <1>1 DEF ResetDecoder, Workers
<1>3. /\ ~ResetDecoder(s).rendering /\ ~ResetDecoder(s).flushScheduled
      /\ ResetDecoder(s).ready = 0
      /\ ResetDecoder(s).socket = s.socket /\ ResetDecoder(s).decoder = NoDecoder
  BY DEF ResetDecoder, Workers
<1> QED BY <1>2, <1>3 DEF WorkerInv, Drawing, Quits

LEMMA RestartInv ==
    ASSUME NEW s, WorkerInv(s)
    PROVE  WorkerInv(Restart(s)) /\ Quits(s, Restart(s))
<1> DEFINE t == RequestStreamResync(s)
<1>1. WorkerInv(t) /\ Keeps(s, t)
  BY RequestInv
<1>2. Restart(s) = ResetDecoder(t)
  BY DEF Restart
<1> HIDE DEF t
<1>3. WorkerInv(ResetDecoder(t)) /\ Quits(t, ResetDecoder(t))
  BY <1>1, ResetInv DEF WorkerInv
<1> QED BY <1>1, <1>2, <1>3 DEF Quits, Keeps

LEMMA ReleaseInv ==
    ASSUME NEW s, WorkerInv(s)
    PROVE  /\ WorkerInv(ReleaseDecodeBackpressure(s))
           /\ Keeps(s, ReleaseDecodeBackpressure(s))
<1> DEFINE t == Send(s, s.pendingAck)
           u == [t EXCEPT !.backpressured = FALSE, !.pendingAck = None]
<1>1. WorkerInv(t) /\ Keeps(s, t)
  BY SendInv DEF WorkerInv, Workers
<1>2. WorkerInv(s) /\ Keeps(s, s)
  BY DEF Keeps
<1>3. WorkerInv(u) /\ Keeps(s, u)
  <2>1. None \in Int /\ FALSE \in BOOLEAN
    BY DEF None
  <2> HIDE DEF t
  <2>2. t \in Workers /\ u \in Workers
    BY <1>1, <2>1 DEF WorkerInv, Workers
  <2> QED BY <1>1, <2>2 DEF WorkerInv, Workers, Drawing, Keeps
<1> QED BY <1>2, <1>3 DEF ReleaseDecodeBackpressure

LEMMA DecodeInv ==
    ASSUME NEW s, WorkerInv(s), NEW f \in Frame
    PROVE  /\ WorkerInv(Decode(s, f))
           /\ Decode(s, f).socket = s.socket
           /\ Decode(s, f).decoder.last = f.ts
           /\ Decode(s, f).decoder.on = s.decoder.on
<1> DEFINE fed == [s EXCEPT !.decoder.waiting = @ + 1, !.decoder.last = f.ts, !.pendingAck = f.ts]
           b == fed.backpressured \/ fed.decoder.waiting >= High
           t == [fed EXCEPT !.backpressured = b]
<1>1. s \in Workers /\ s.decoder \in Decoders /\ f.ts \in Int /\ s.decoder.waiting + 1 \in Nat
  BY DEF WorkerInv, Workers, Decoders, Frame
<1>2. fed \in Workers
  BY <1>1 DEF Workers, Decoders
<1>3. /\ fed.decoder.last = f.ts /\ fed.decoder.on = s.decoder.on /\ fed.socket = s.socket
      /\ Drawing(fed)
  BY <1>1 DEF Workers, Decoders, WorkerInv, Drawing
<1>4. WorkerInv(t) /\ Keeps(fed, t)
  <2>1. b \in BOOLEAN
    OBVIOUS
  <2> HIDE DEF fed, b
  <2> QED BY <2>1, <1>2, <1>3 DEF Workers, WorkerInv, Drawing, Keeps
<1>5. Decode(s, f) = ReleaseDecodeBackpressure(t)
  BY DEF Decode
<1> HIDE DEF t, fed
<1> QED BY <1>3, <1>4, <1>5, ReleaseInv DEF Keeps

LEMMA HandleInv ==
    ASSUME NEW s, WorkerInv(s)
    PROVE  WorkerInv(HandleDecodedFrame(s)) /\ Keeps(s, HandleDecodedFrame(s))
<1>1. s \in Workers /\ Drawing(s) /\ s.flushes + 1 \in Nat /\ s.flushes + 1 > 0
  BY DEF WorkerInv, Workers
<1>2. HandleDecodedFrame(s) \in Workers
  BY <1>1 DEF HandleDecodedFrame, ScheduleFrameQueue, Workers
<1> QED BY <1>1, <1>2 DEF HandleDecodedFrame, ScheduleFrameQueue, WorkerInv, Workers, Drawing, Keeps

LEMMA ReconnectInv ==
    ASSUME NEW s, WorkerInv(s)
    PROVE  WorkerInv(ScheduleReconnect(s)) /\ Keeps(s, ScheduleReconnect(s))
<1> DEFINE d == IF 2 * s.delay > 5 THEN 5 ELSE 2 * s.delay
           t == [s EXCEPT !.timer = s.delay, !.delay = d]
<1>1. s \in Workers /\ s.delay \in Nat /\ d \in Nat
  BY DEF WorkerInv, Workers
<1>2. ScheduleReconnect(s) = s \/ ScheduleReconnect(s) = t
  BY DEF ScheduleReconnect
<1> HIDE DEF d
<1>3. t \in Workers
  BY <1>1 DEF Workers
<1> QED BY <1>1, <1>2, <1>3 DEF WorkerInv, Workers, Drawing, Keeps

LEMMA RunsInv ==
    ASSUME Typed, NEW s, WorkerInv(s), Runs(s)
    PROVE  WorkerInv(p') /\ Keeps(s, p') /\ up' \in Seq(Int)
<1>1. s \in Workers /\ s.out \in Seq(Int) /\ up \in Seq(Int)
  BY DEF WorkerInv, Workers, Typed
<1>2. up' \in Seq(Int)
  BY <1>1 DEF Runs
<1>3. p' = [s EXCEPT !.out = <<>>] /\ <<>> \in Seq(Int)
  BY DEF Runs
<1> QED BY <1>1, <1>2, <1>3 DEF WorkerInv, Workers, Drawing, Keeps

-----------------------------------------------------------------------------
(* The wire.                                                               *)

LEMMA WireEmpty == Chained(<<>>) /\ \A t : EndsWith(<<>>, t)
BY DEF Chained, EndsWith

(* The worker takes the head: the rest is chained, and joins the head.     *)
LEMMA WireReceive ==
    ASSUME NEW d \in Seq(Frame), d # <<>>, NEW taken \in Int, Chained(d), EndsWith(d, taken)
    PROVE  /\ Head(d) \in Frame /\ Tail(d) \in Seq(Frame)
           /\ Chained(Tail(d)) /\ EndsWith(Tail(d), taken)
           /\ Joined(Tail(d), Head(d).ts, taken)
<1> DEFINE e == Tail(d)
<1>a. /\ Len(d) \in Nat /\ Len(d) # 0 /\ Head(d) = d[1]
      /\ e \in Seq(Frame) /\ Len(e) = Len(d) - 1
      /\ \A i \in 1..Len(e) : e[i] = d[i + 1]
  BY EmptySeq
<1>b. Head(d) \in Frame
  BY <1>a
<1> HIDE DEF e
<1>c. e # <<>> => Len(e) # 0 /\ Head(e) = e[1]
  BY <1>a, EmptySeq
<1>d. e = <<>> => Len(e) = 0
  OBVIOUS
<1>1. /\ Len(d) \in Nat /\ Len(d) # 0 /\ Head(d) = d[1] /\ Head(d) \in Frame
      /\ e \in Seq(Frame) /\ Len(e) = Len(d) - 1
      /\ \A i \in 1..Len(e) : e[i] = d[i + 1]
      /\ e # <<>> => Len(e) # 0 /\ Head(e) = e[1]
      /\ e = <<>> => Len(e) = 0
  BY <1>a, <1>b, <1>c, <1>d
<1>2. Chained(e)
  BY <1>1 DEF Chained
<1>3. EndsWith(e, taken)
  BY <1>1 DEF EndsWith
<1>4. ASSUME e = <<>> PROVE Joined(e, Head(d).ts, taken)
  <2>1. Len(d) = 1 /\ d[1].ts = taken
    <3>1. Len(d) = 1
      BY <1>1, <1>4
    <3>2. d[Len(d)].ts = taken
      BY DEF EndsWith
    <3> QED BY <3>1, <3>2
  <2> QED BY <2>1, <1>1, <1>4 DEF Joined
<1>5. ASSUME e # <<>> PROVE Joined(e, Head(d).ts, taken)
  <2>1. e[1] = d[2] /\ (d[2].key \/ d[2].after = d[1].ts)
    BY <1>1, <1>5 DEF Chained
  <2> QED BY <2>1, <1>1, <1>5 DEF Joined
<1> QED BY <1>1, <1>2, <1>3, <1>4, <1>5 DEF e

(* The server writes the frame it took.                                    *)
LEMMA WireSend ==
    ASSUME NEW d \in Seq(Frame), NEW taken \in Int, NEW f \in Frame, Chained(d),
           EndsWith(d, taken), f.key \/ f.after = taken
    PROVE  /\ Append(d, f) \in Seq(Frame) /\ Append(d, f) # <<>>
           /\ Chained(Append(d, f)) /\ EndsWith(Append(d, f), f.ts)
           /\ \A last : Joined(d, last, taken) => Joined(Append(d, f), last, f.ts)
<1> DEFINE e == Append(d, f)
<1>1. /\ Len(d) \in Nat /\ e \in Seq(Frame) /\ Len(e) = Len(d) + 1 /\ e # <<>>
      /\ \A i \in 1..Len(d) : e[i] = d[i]
      /\ e[Len(d) + 1] = f /\ Head(e) = e[1]
      /\ d # <<>> => Len(d) # 0 /\ Head(d) = d[1]
      /\ d = <<>> => Len(d) = 0
  BY EmptySeq, AppendProperties
<1> HIDE DEF e
<1>2. EndsWith(e, f.ts)
  BY <1>1 DEF EndsWith
<1>3. Chained(e)
  <2> SUFFICES ASSUME NEW i \in 1..Len(e), i > 1
               PROVE  e[i].key \/ e[i].after = e[i - 1].ts
    BY DEF Chained
  <2>1. CASE i \in 1..Len(d)
    BY <2>1, <1>1 DEF Chained
  <2>2. CASE i = Len(d) + 1
    BY <2>2, <1>1 DEF EndsWith
  <2> QED BY <2>1, <2>2, <1>1
<1>4. ASSUME NEW last, Joined(d, last, taken)
      PROVE  Joined(e, last, f.ts)
  BY <1>1, <1>4 DEF Joined
<1> QED BY <1>1, <1>2, <1>3, <1>4 DEF e

(* A step that leaves the wire alone keeps it, unless the socket opens or  *)
(* a decoder starts.                                                       *)
LEMMA WireKept ==
    ASSUME Inv, WorkerInv(p'), QueueInv(queue'), Typed', down' = down,
           queue'.taken = queue.taken, queue'.closed = queue.closed, p'.socket = p.socket,
           p'.decoder.last = p.decoder.last, p'.decoder.on = p.decoder.on
    PROVE  Inv'
BY DEF Inv, WireInv

(* A step that ends the connection, or follows on its end, leaves nothing  *)
(* on the wire.                                                            *)
LEMMA WireDown ==
    ASSUME WorkerInv(p'), QueueInv(queue'), Typed', down' = <<>>, queue'.closed,
           p'.socket # "open", p'.socket = "closing" \/ ~p'.decoder.on
    PROVE  Inv'
BY WireEmpty DEF Inv, WireInv

-----------------------------------------------------------------------------
(* One lemma per group of steps.                                           *)

LEMMA InvFacts ==
    ASSUME Inv
    PROVE  /\ WorkerInv(p) /\ p \in Workers /\ p.decoder \in Decoders
           /\ QueueInv(queue) /\ queue \in Queue /\ Typed /\ WireInv
BY DEF Inv, WorkerInv, Workers, QueueInv

LEMMA ClosedFact ==
    ASSUME NEW q \in Queue
    PROVE  Close(q).closed
BY ClearFramesFacts DEF Close, Queue

LEMMA OfferClosed ==
    ASSUME NEW q \in Queue, NEW key, NEW ts
    PROVE  Offer(q, key, ts).closed = q.closed
BY DEF Offer, Accept, Push, Skip, ClearFrames, Queue

LEMMA InitInv == Init => Inv
<1> SUFFICES ASSUME Init PROVE Inv
  OBVIOUS
<1>1. p \in Workers
  BY NoDecoderFacts DEF Init, Workers, None
<1>2. Drawing(p)
  BY DEF Init, Drawing
<1>3. QueueInv(queue) /\ queue.closed
  <2>1. QueueInv(New) /\ New \in Queue
    BY NewInv DEF QueueInv
  <2>2. QueueInv(Close(New))
    BY <2>1, CloseInv
  <2>3. Close(New).closed
    BY <2>1, ClosedFact
  <2> QED BY <2>2, <2>3 DEF Init
<1>4. Typed
  BY DirectPlayerAssumption DEF Init, Typed
<1>5. WireInv
  BY <1>3, WireEmpty, NoDecoderFacts DEF Init, WireInv
<1> QED BY <1>1, <1>2, <1>3, <1>4, <1>5 DEF Inv, WorkerInv

(* A callback that neither receives nor changes the connection.            *)
LEMMA CallbackInv ==
    ASSUME Inv, NEW s, WorkerInv(s), Runs(s), s.socket = p.socket,
           s.decoder.last = p.decoder.last, s.decoder.on = p.decoder.on,
           UNCHANGED <<serverVars, down>>
    PROVE  Inv' /\ LastKept
<1>1. WorkerInv(p') /\ Keeps(s, p') /\ up' \in Seq(Int)
  BY InvFacts, RunsInv
<1>2. QueueInv(queue') /\ queue' = queue /\ seq' = seq
  BY InvFacts DEF serverVars
<1>3. Typed'
  BY <1>1, <1>2, InvFacts DEF Typed
<1> QED BY <1>1, <1>2, <1>3, WireKept DEF Keeps, LastKept

(* A callback that ends the decoder.                                       *)
LEMMA RestartsInv ==
    ASSUME Inv, NEW s, WorkerInv(s), Runs(s), s.socket = p.socket, s.decoder = NoDecoder,
           UNCHANGED <<serverVars, down>>
    PROVE  Inv' /\ LastKept
<1>1. WorkerInv(p') /\ Keeps(s, p') /\ up' \in Seq(Int)
  BY InvFacts, RunsInv
<1>2. QueueInv(queue') /\ queue' = queue /\ seq' = seq
  BY InvFacts DEF serverVars
<1>3. Typed'
  BY <1>1, <1>2, InvFacts DEF Typed
<1>4. p'.socket = p.socket /\ ~p'.decoder.on /\ LastKept
  BY <1>1, NoDecoderFacts DEF Keeps, LastKept
<1>5. WireInv'
  BY <1>2, <1>4, InvFacts DEF WireInv
<1> QED BY <1>1, <1>2, <1>3, <1>4, <1>5 DEF Inv

(* A frame is received: decoded, or dropped without a decoder.             *)
LEMMA ReceivedInv ==
    ASSUME Inv, NEW s, WorkerInv(s), Received(s), s.socket = p.socket,
           s.decoder.on => s.decoder.last = Head(down).ts
    PROVE  Inv'
<1>1. WorkerInv(p') /\ Keeps(s, p') /\ up' \in Seq(Int)
  BY InvFacts, RunsInv DEF Received
<1>2. QueueInv(queue') /\ queue' = queue /\ seq' = seq /\ queue.taken \in Int
  BY InvFacts DEF Received, serverVars, Queue
<1>3. down # <<>> /\ down' = Tail(down) /\ down \in Seq(Frame)
  BY InvFacts DEF Received, Typed
<1>4. /\ Tail(down) \in Seq(Frame) /\ Chained(Tail(down)) /\ EndsWith(Tail(down), queue.taken)
      /\ Joined(Tail(down), Head(down).ts, queue.taken)
  BY <1>2, <1>3, WireReceive, InvFacts DEF WireInv
<1>5. Typed'
  BY <1>1, <1>2, <1>3, <1>4, InvFacts DEF Typed
<1>6. p.socket = "open" /\ p'.socket = "open" /\ p'.decoder = s.decoder
  BY <1>1, <1>3, InvFacts DEF WireInv, Keeps
<1>7. WireInv'
  BY <1>2, <1>3, <1>4, <1>6 DEF WireInv
<1> QED BY <1>1, <1>2, <1>5, <1>7 DEF Inv

(* The connection ends.                                                    *)
LEMMA EndsInv ==
    ASSUME Inv, NEW s, WorkerInv(s), Ends(s), s.socket # "open",
           \/ s.socket = "closing" /\ s.decoder = p.decoder
           \/ s.decoder = NoDecoder,
           UNCHANGED seq
    PROVE  Inv' /\ LastKept
<1>1. QueueInv(queue') /\ queue'.closed
  <2>1. QueueInv(Close(queue))
    BY InvFacts, CloseInv
  <2>2. Close(queue).closed
    BY InvFacts, ClosedFact
  <2> QED BY <2>1, <2>2 DEF Ends
<1>2. Typed'
  BY InvFacts DEF Typed, Ends
<1>3. p' = s /\ LastKept
  BY NoDecoderFacts DEF Ends, LastKept
<1> QED BY <1>1, <1>2, <1>3, WireDown, NoDecoderFacts DEF Ends

(* The server's queue changes, and neither what it handed out last nor the *)
(* wire does.                                                              *)
LEMMA ServesInv ==
    ASSUME Inv, WorkerInv(p'), QueueInv(queue'), queue'.taken = queue.taken,
           queue'.closed = queue.closed, down' = down, up' \in Seq(Int), seq' \in Nat,
           p'.socket = p.socket, p'.decoder = p.decoder
    PROVE  Inv' /\ LastKept
<1>1. Typed'
  BY InvFacts DEF Typed
<1> QED BY <1>1, WireKept DEF LastKept

LEMMA ConnectionStep ==
    ASSUME Inv, OnOpen \/ Drop \/ OnClose \/ Reconnect \/ CheckDropsSocket \/ Stop
    PROVE  Inv' /\ LastKept
<1> USE InvFacts
<1>1. CASE OnOpen
  <2> DEFINE s == [p EXCEPT !.socket = "open", !.delay = 1, !.resyncRequested = FALSE,
                      !.pendingAck = None, !.backpressured = FALSE, !.age = 0, !.strikes = 0]
             q == EnableFlowControl(New, Flow)
  <2>1. None \in Int /\ FALSE \in BOOLEAN /\ p.socket = "connecting" /\ Runs(s)
    BY <1>1 DEF OnOpen, None
  <2>2. WorkerInv(s) /\ s.socket = "open" /\ s.decoder = p.decoder
    <3>1. s \in Workers
      BY <2>1 DEF Workers
    <3> QED BY <3>1 DEF Workers, WorkerInv, Drawing
  <2>3. QueueInv(q) /\ q.taken = New.taken
    <3>1. New \in Queue /\ Flow \in Nat
      BY NewInv, DirectPlayerAssumption DEF QueueInv
    <3> QED BY <3>1, EnableFlowControlInv
  <2> HIDE DEF s, q
  <2>4. WorkerInv(p') /\ Keeps(s, p') /\ up' \in Seq(Int)
    BY <2>1, <2>2, RunsInv
  <2>5. queue' = q /\ down = <<>> /\ down' = <<>> /\ seq' = seq /\ ~p.decoder.on
    BY <1>1, <2>1 DEF OnOpen, WireInv, q
  <2>6. Typed'
    BY <2>4, <2>5 DEF Typed
  <2>7. p'.socket = "open" /\ ~p'.decoder.on /\ LastKept
    BY <2>2, <2>4, <2>5 DEF Keeps, LastKept
  <2>8. WireInv'
    BY <2>5, <2>7, WireEmpty DEF WireInv
  <2> QED BY <2>3, <2>4, <2>5, <2>6, <2>7, <2>8 DEF Inv
<1>2. CASE Drop
  <2> DEFINE s == [p EXCEPT !.socket = "closing"]
  <2>1. WorkerInv(s) /\ s.socket = "closing" /\ s.decoder = p.decoder
    BY DEF WorkerInv, Workers, Drawing
  <2>2. Ends(s) /\ seq' = seq
    BY <1>2 DEF Drop, Closing
  <2> HIDE DEF s
  <2> QED BY <2>1, <2>2, EndsInv
<1>3. CASE OnClose
  <2> DEFINE a == [p EXCEPT !.socket = "none", !.resyncRequested = FALSE]
             b == ResetDecoder(a)
             s == ScheduleReconnect(b)
  <2>1. a \in Workers /\ a.socket = "none"
    BY DEF Workers
  <2>2. WorkerInv(b) /\ b.socket = "none" /\ b.decoder = NoDecoder
    <3> HIDE DEF a
    <3> QED BY <2>1, ResetInv DEF Quits
  <2>3. WorkerInv(s) /\ s.socket = "none" /\ s.decoder = NoDecoder
    <3> HIDE DEF b
    <3> QED BY <2>2, ReconnectInv DEF Keeps
  <2>4. Runs(s) /\ UNCHANGED <<queue, seq, down>> /\ p.socket = "closing"
    BY <1>3 DEF OnClose, serverVars
  <2> HIDE DEF s
  <2>5. WorkerInv(p') /\ Keeps(s, p') /\ up' \in Seq(Int)
    BY <2>3, <2>4, RunsInv
  <2>6. p'.socket = "none" /\ ~p'.decoder.on /\ LastKept
    BY <2>3, <2>5, NoDecoderFacts DEF Keeps, LastKept
  <2>7. down' = <<>> /\ queue'.closed /\ QueueInv(queue')
    BY <2>4 DEF WireInv
  <2>8. Typed'
    BY <2>4, <2>5 DEF Typed
  <2> QED BY <2>5, <2>6, <2>7, <2>8, WireDown
<1>4. CASE Reconnect
  <2> DEFINE s == [p EXCEPT !.timer = 0, !.socket = "connecting"]
  <2>1. Runs(s) /\ UNCHANGED <<queue, seq, down>> /\ p.socket = "none"
    BY <1>4 DEF Reconnect, serverVars
  <2>2. WorkerInv(s) /\ s.socket = "connecting" /\ s.decoder = p.decoder
    BY DEF WorkerInv, Workers, Drawing
  <2> HIDE DEF s
  <2>3. WorkerInv(p') /\ Keeps(s, p') /\ up' \in Seq(Int)
    BY <2>1, <2>2, RunsInv
  <2>4. p'.socket = "connecting" /\ ~p'.decoder.on /\ LastKept
    BY <2>1, <2>2, <2>3 DEF Keeps, WireInv, LastKept
  <2>5. down' = <<>> /\ queue'.closed /\ QueueInv(queue')
    BY <2>1 DEF WireInv
  <2>6. Typed'
    BY <2>1, <2>3 DEF Typed
  <2> QED BY <2>3, <2>4, <2>5, <2>6, WireDown
<1>5. CASE CheckDropsSocket
  <2> DEFINE a == [p EXCEPT !.check = FALSE, !.age = 0, !.strikes = @ + 1]
             s == [a EXCEPT !.socket = "closing"]
  <2>0. p.strikes + 1 \in Nat
    BY DEF Workers
  <2>1. a \in Workers /\ Drawing(a) /\ a.decoder = p.decoder
    BY <2>0 DEF WorkerInv, Workers, Drawing
  <2>2. WorkerInv(s) /\ s.socket = "closing" /\ s.decoder = p.decoder
    <3> HIDE DEF a
    <3> QED BY <2>1 DEF WorkerInv, Workers, Drawing
  <2>3. Ends(s) /\ seq' = seq
    BY <1>5 DEF CheckDropsSocket, Closing
  <2> HIDE DEF s
  <2> QED BY <2>2, <2>3, EndsInv
<1>6. CASE Stop
  <2> DEFINE a == [p EXCEPT !.socket = "none", !.stopped = TRUE, !.timer = 0, !.check = FALSE]
             s == ResetDecoder(a)
  <2>1. a \in Workers /\ a.socket = "none"
    BY DEF Workers
  <2>2. WorkerInv(s) /\ s.socket = "none" /\ s.decoder = NoDecoder
    <3> HIDE DEF a
    <3> QED BY <2>1, ResetInv DEF Quits
  <2>3. Ends(s) /\ seq' = seq
    BY <1>6 DEF Stop
  <2> HIDE DEF s
  <2> QED BY <2>2, <2>3, EndsInv
<1> QED BY <1>1, <1>2, <1>3, <1>4, <1>5, <1>6

LEMMA ReceiveStep ==
    ASSUME Inv, Receive \/ CreateFails \/ DecodeThrows
    PROVE  Inv' /\ (LastKept \/ Head(down).key \/ Head(down).after = p.decoder.last)
<1> USE InvFacts
<1> DEFINE f == Head(down)
<1>0. down # <<>> => f \in Frame
  BY DEF Typed
<1>1. CASE Receive
  <2> DEFINE a == [p EXCEPT !.resyncRequested = FALSE, !.decoder.on = TRUE]
             s == IF p.decoder.on THEN Decode(p, f)
                  ELSE IF f.key THEN Decode(a, f) ELSE RequestStreamResync(p)
  <2>1. Received(s) /\ f \in Frame
    BY <1>0, <1>1 DEF Receive, Received
  <2>2. WorkerInv(a) /\ a.socket = p.socket
    <3>1. a \in Workers
      BY DEF Workers, Decoders
    <3> QED BY <3>1 DEF WorkerInv, Workers, Drawing
  <2> HIDE DEF a, f
  <2>3. /\ WorkerInv(Decode(a, f)) /\ Decode(a, f).socket = a.socket
        /\ Decode(a, f).decoder.last = f.ts
    BY <2>1, <2>2, DecodeInv
  <2>4. /\ WorkerInv(Decode(p, f)) /\ Decode(p, f).socket = p.socket
        /\ Decode(p, f).decoder.last = f.ts
    BY <2>1, DecodeInv
  <2>5. WorkerInv(RequestStreamResync(p)) /\ Keeps(p, RequestStreamResync(p))
    BY RequestInv
  <2>6. WorkerInv(s) /\ s.socket = p.socket /\ (s.decoder.on => s.decoder.last = f.ts)
    BY <2>2, <2>3, <2>4, <2>5 DEF Keeps
  <2>7. LastKept \/ f.key \/ f.after = p.decoder.last
    <3>1. p' = [s EXCEPT !.out = <<>>] /\ s \in Workers
      BY <2>1, <2>6 DEF Received, Runs, WorkerInv
    <3>2. CASE p.decoder.on
      BY <2>1, <3>2 DEF Received, WireInv, Joined, f
    <3>3. CASE ~p.decoder.on /\ ~f.key
      <4>1. s.decoder = p.decoder
        BY <2>5, <3>3 DEF Keeps
      <4> HIDE DEF s
      <4> QED BY <3>1, <4>1 DEF LastKept, Workers
    <3> QED BY <3>2, <3>3
  <2> HIDE DEF s
  <2> QED BY <2>1, <2>6, <2>7, ReceivedInv DEF f
<1>2. CASE CreateFails
  <2> DEFINE a == [p EXCEPT !.resyncRequested = FALSE]
             s == RequestStreamResync(a)
  <2>1. WorkerInv(a) /\ Keeps(p, a)
    BY DEF WorkerInv, Workers, Drawing, Keeps
  <2>2. WorkerInv(s) /\ Keeps(a, s)
    <3> HIDE DEF a
    <3> QED BY <2>1, RequestInv
  <2>3. Received(s) /\ ~p.decoder.on
    BY <1>2 DEF CreateFails
  <2> HIDE DEF s, a
  <2>4. LastKept
    BY <2>1, <2>2, <2>3, RunsInv DEF Received, Keeps, LastKept
  <2> QED BY <2>1, <2>2, <2>3, <2>4, ReceivedInv DEF Keeps
<1>3. CASE DecodeThrows
  <2>1. Received(Restart(p)) /\ WorkerInv(Restart(p)) /\ Quits(p, Restart(p))
    BY <1>3, RestartInv DEF DecodeThrows
  <2>2. LastKept
    BY <2>1, RunsInv, NoDecoderFacts DEF Received, Quits, Keeps, LastKept
  <2> QED BY <2>1, <2>2, ReceivedInv, NoDecoderFacts DEF Quits
<1> QED BY <1>1, <1>2, <1>3

LEMMA WorkerStep ==
    ASSUME Inv, DecoderError \/ OnDequeue \/ Output \/ Flush \/ RenderFails \/ CheckFrameStall
    PROVE  Inv' /\ LastKept
<1> USE InvFacts
<1>1. CASE DecoderError
  <2>1. Runs(Restart(p)) /\ WorkerInv(Restart(p)) /\ Quits(p, Restart(p))
    BY <1>1, RestartInv DEF DecoderError
  <2>2. UNCHANGED <<serverVars, down>>
    BY <1>1 DEF DecoderError
  <2> QED BY <2>1, <2>2, RestartsInv DEF Quits
<1>2. CASE OnDequeue
  <2> DEFINE a == [p EXCEPT !.decoder.waiting = @ - 1, !.decoder.working = @ + 1]
             s == ReleaseDecodeBackpressure(a)
  <2>1. Runs(s) /\ UNCHANGED <<serverVars, down>> /\ p.decoder.waiting > 0
    BY <1>2 DEF OnDequeue
  <2>0. p.decoder.waiting - 1 \in Nat /\ p.decoder.working + 1 \in Nat
    BY <2>1 DEF Decoders
  <2>2. a \in Workers
    BY <2>0 DEF Workers, Decoders
  <2>3. /\ WorkerInv(a) /\ a.socket = p.socket /\ a.decoder.last = p.decoder.last
        /\ a.decoder.on = p.decoder.on
    BY <2>2 DEF WorkerInv, Workers, Drawing, Decoders
  <2> HIDE DEF a
  <2>4. WorkerInv(s) /\ Keeps(a, s)
    BY <2>3, ReleaseInv
  <2> HIDE DEF s
  <2> QED BY <2>1, <2>3, <2>4, CallbackInv DEF Keeps
<1>3. CASE Output
  <2> DEFINE a == [p EXCEPT !.decoder.working = @ - 1]
             s == HandleDecodedFrame(a)
  <2>1. Runs(s) /\ UNCHANGED <<serverVars, down>> /\ p.decoder.working > 0
    BY <1>3 DEF Output
  <2>0. p.decoder.working - 1 \in Nat
    BY <2>1 DEF Decoders
  <2>2. a \in Workers
    BY <2>0 DEF Workers, Decoders
  <2>3. /\ WorkerInv(a) /\ a.socket = p.socket /\ a.decoder.last = p.decoder.last
        /\ a.decoder.on = p.decoder.on
    BY <2>2 DEF WorkerInv, Workers, Drawing, Decoders
  <2> HIDE DEF a
  <2>4. WorkerInv(s) /\ Keeps(a, s)
    BY <2>3, HandleInv
  <2> HIDE DEF s
  <2> QED BY <2>1, <2>3, <2>4, CallbackInv DEF Keeps
<1>4. CASE Flush
  <2> DEFINE g == IF p.ready = 1 THEN 0 ELSE p.age
             s == [Flushed EXCEPT !.ready = 0, !.rendering = FALSE, !.age = g]
  <2>1. p.flushes > 0 /\ p.flushes - 1 \in Nat /\ g \in Nat
    BY <1>4 DEF Flush, Workers
  <2>2. Flushed \in Workers /\ Keeps(p, Flushed) /\ Flushed.age = p.age /\ ~Flushed.flushScheduled
    BY <2>1 DEF Flushed, Workers, Keeps
  <2>3. Runs(s) /\ UNCHANGED <<serverVars, down>>
    BY <1>4, <2>2 DEF Flush
  <2> HIDE DEF g
  <2>4. s \in Workers /\ Drawing(s) /\ Keeps(p, s)
    <3>1. s \in Workers
      BY <2>1, <2>2 DEF Workers
    <3>2. s.ready = 0 /\ ~s.rendering /\ ~s.flushScheduled /\ Keeps(p, s)
      BY <2>2 DEF Workers, Keeps
    <3> QED BY <3>1, <3>2 DEF Drawing
  <2> HIDE DEF s
  <2> QED BY <2>3, <2>4, CallbackInv DEF Keeps, WorkerInv
<1>5. CASE RenderFails
  <2> DEFINE a == [Flushed EXCEPT !.ready = 0]
             r == RequestStreamResync(a)
             s == Restart(a)
  <2>1. p.flushes > 0 /\ p.flushes - 1 \in Nat /\ Runs(s) /\ UNCHANGED <<serverVars, down>>
    BY <1>5 DEF RenderFails, Workers
  <2>2. Flushed \in Workers /\ Keeps(p, Flushed)
    BY <2>1 DEF Flushed, Workers, Keeps
  <2>3. a \in Workers /\ Keeps(p, a)
    BY <2>2 DEF Workers, Keeps
  <2> HIDE DEF a
  <2>4. r \in Workers /\ Keeps(a, r)
    <3> DEFINE t == Send(a, None)
    <3>1. t \in Workers /\ Keeps(a, t)
      <4>1. a.out \in Seq(Int) /\ None \in Int
        BY <2>3 DEF Workers, None
      <4>2. Append(a.out, None) \in Seq(Int)
        BY <4>1
      <4> QED BY <2>3, <4>2 DEF Send, Workers, Keeps
    <3>2. r = a \/ r = [t EXCEPT !.resyncRequested = TRUE]
      BY DEF RequestStreamResync
    <3> HIDE DEF t
    <3>3. /\ [t EXCEPT !.resyncRequested = TRUE] \in Workers
          /\ Keeps(a, [t EXCEPT !.resyncRequested = TRUE])
      BY <3>1 DEF Workers, Keeps
    <3> QED BY <2>3, <3>2, <3>3 DEF Keeps
  <2>5. s = ResetDecoder(r)
    BY DEF Restart
  <2> HIDE DEF s, r
  <2>6. WorkerInv(s) /\ Quits(r, s)
    BY <2>4, <2>5, ResetInv
  <2> QED BY <2>1, <2>3, <2>4, <2>6, RestartsInv DEF Keeps, Quits
<1>6. CASE CheckFrameStall
  <2> DEFINE a == [p EXCEPT !.check = FALSE, !.age = 0, !.strikes = 1, !.resyncRequested = FALSE]
             k == IF p.socket = "open" THEN 0 ELSE p.strikes
             b == [p EXCEPT !.check = FALSE, !.strikes = k]
             s == IF Stalled THEN RequestStreamResync(a) ELSE b
  <2>1. Runs(s) /\ UNCHANGED <<serverVars, down>>
    BY <1>6 DEF CheckFrameStall
  <2>2. WorkerInv(a) /\ Keeps(p, a)
    BY DEF WorkerInv, Workers, Drawing, Keeps
  <2>3. k \in Nat
    BY DEF Workers
  <2>4. WorkerInv(b) /\ Keeps(p, b)
    <3> HIDE DEF k
    <3> QED BY <2>3 DEF WorkerInv, Workers, Drawing, Keeps
  <2> HIDE DEF a, b
  <2>5. WorkerInv(RequestStreamResync(a)) /\ Keeps(a, RequestStreamResync(a))
    BY <2>2, RequestInv
  <2>6. WorkerInv(s) /\ Keeps(p, s)
    BY <2>2, <2>4, <2>5 DEF Keeps
  <2> HIDE DEF s
  <2> QED BY <2>1, <2>6, CallbackInv DEF Keeps
<1> QED BY <1>1, <1>2, <1>3, <1>4, <1>5, <1>6

LEMMA ServerStep ==
    ASSUME Inv, WriteFrame \/ HandleControl \/ Hang \/ Passes
    PROVE  Inv' /\ LastKept
<1> USE InvFacts
<1>1. CASE WriteFrame
  <2> DEFINE f == Head(queue.frames)
  <2>1. /\ QueueInv(queue') /\ f \in Frame /\ queue'.taken = f.ts
        /\ f.key \/ f.after = queue.taken
    BY <1>1, PopForWriteInv DEF WriteFrame
  <2>2. UNCHANGED <<p, up, seq>> /\ down' = Append(down, f) /\ ~queue.closed
    BY <1>1 DEF WriteFrame, CanPop
  <2>3. down \in Seq(Frame) /\ queue.taken \in Int /\ p.socket = "open"
    BY <2>2 DEF Typed, Queue, WireInv
  <2> HIDE DEF f
  <2>4. /\ down' \in Seq(Frame) /\ Chained(down') /\ EndsWith(down', f.ts)
        /\ \A last : Joined(down, last, queue.taken) => Joined(down', last, f.ts)
    BY <2>1, <2>2, <2>3, WireSend DEF WireInv
  <2>5. Typed'
    BY <2>2, <2>4 DEF Typed
  <2>6. WireInv' /\ LastKept
    BY <2>1, <2>2, <2>3, <2>4 DEF WireInv, LastKept
  <2> QED BY <2>1, <2>2, <2>5, <2>6 DEF Inv
<1>2. CASE HandleControl
  <2>1. up \in Seq(Int) /\ up # <<>> /\ up' = Tail(up)
    BY <1>2 DEF HandleControl, Typed
  <2>2. Head(up) \in Int /\ up' \in Seq(Int)
    BY <2>1
  <2>3. QueueInv(queue') /\ queue'.taken = queue.taken
    BY <1>2, <2>2, RequestResyncInv, AcknowledgeInv DEF HandleControl
  <2>4. queue'.closed = queue.closed
    BY <1>2, ClearFramesFacts DEF HandleControl, RequestResync, Acknowledge, Queue
  <2>5. UNCHANGED <<p, down, seq>> /\ seq \in Nat
    BY <1>2 DEF HandleControl, Typed
  <2> QED BY <2>2, <2>3, <2>4, <2>5, ServesInv
<1>3. CASE Hang
  <2>1. UNCHANGED <<p, queue, seq, down, up>> /\ seq \in Nat /\ up \in Seq(Int)
    BY <1>3 DEF Hang, serverVars, Typed
  <2> QED BY <2>1, ServesInv
<1>4. CASE Passes
  <2> DEFINE g == IF p.age < StallTimeout THEN p.age + 1 ELSE p.age
             m == IF p.timer > 1 THEN p.timer - 1 ELSE p.timer
             s == [p EXCEPT !.age = g, !.check = TRUE, !.timer = m]
             key == (seq' % KeyPeriod = 0)
  <2>1. p' = s /\ seq' \in Nat /\ UNCHANGED <<down, up>> /\ up \in Seq(Int)
    BY <1>4 DEF Passes, Typed
  <2>2. g \in Nat /\ m \in Nat
    BY DEF Workers
  <2>3. WorkerInv(s) /\ Keeps(p, s)
    <3> HIDE DEF g, m
    <3> QED BY <2>2 DEF WorkerInv, Workers, Drawing, Keeps
  <2>4. key \in BOOLEAN /\ seq' \in Int /\ queue' = Offer(queue, key, seq')
    BY <1>4, <2>1 DEF Passes
  <2> HIDE DEF key, s
  <2>5. QueueInv(queue') /\ queue'.taken = queue.taken
    BY <2>4, OfferInv, OfferTaken
  <2>6. queue'.closed = queue.closed
    BY <2>4, OfferClosed
  <2> QED BY <2>1, <2>3, <2>5, <2>6, ServesInv DEF Keeps
<1> QED BY <1>1, <1>2, <1>3, <1>4

LEMMA StepInv == Inv /\ [Next]_vars => Inv'
<1> SUFFICES ASSUME Inv, [Next]_vars PROVE Inv'
  OBVIOUS
<1>1. CASE UNCHANGED vars
  BY <1>1 DEF vars, serverVars, Inv, Typed, WireInv
<1>2. CASE Next
  BY <1>2, ConnectionStep, ReceiveStep, WorkerStep, ServerStep DEF Next, Tick, Lag
<1> QED BY <1>1, <1>2

(* The inductive invariant holds in every state.                           *)
THEOREM PlayerInvariant == Spec => []Inv
BY InitInv, StepInv, PTL DEF Spec

(* A picture that is queued will be drawn, for every window, time-out and  *)
(* number of faults (direct.worker.ts scheduleFrameQueue, resetDecoder).   *)
THEOREM FlushedTheorem == Spec => []PictureIsFlushed
<1>1. Inv => PictureIsFlushed
  BY DEF Inv, WorkerInv, Drawing, PictureIsFlushed
<1> QED BY <1>1, PlayerInvariant, PTL

(* What is handed to a decoder can be decoded: only handing over a frame   *)
(* changes what the decoder had last, and the frame is the head of a wire  *)
(* that joins the decoder (direct.worker.ts handleWsMessage).              *)
THEOREM InOrderTheorem == Spec => DecodesInOrder
<1> DEFINE A == p'.decoder.last \notin {p.decoder.last, Never} =>
                    LET f == Head(down) IN f.key \/ f.after = p.decoder.last
<1>1. Inv /\ [Next]_vars => A
  <2> SUFFICES ASSUME Inv, [Next]_vars, p'.decoder.last \notin {p.decoder.last, Never}
               PROVE  Head(down).key \/ Head(down).after = p.decoder.last
    OBVIOUS
  <2>1. CASE UNCHANGED vars
    BY <2>1 DEF vars
  <2>2. CASE Next
    BY <2>2, ConnectionStep, ReceiveStep, WorkerStep, ServerStep DEF Next, Tick, Lag, LastKept
  <2> QED BY <2>1, <2>2
<1>2. Inv /\ [Next]_vars => [A]_vars
  BY <1>1
<1> QED BY <1>2, PlayerInvariant, PTL DEF Spec, DecodesInOrder
=============================================================================
