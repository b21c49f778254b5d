-------------------------------- MODULE Nexit --------------------------------
(***************************************************************************)
(* One nexit/1 session: the kvm end (server/service/exit/mux.go) opens TCP *)
(* streams for hev, the exit end (nexit/session.go) dials destinations and *)
(* relays their bytes, over one WebSocket whose two directions are FIFO.   *)
(* Each end is one read loop plus the goroutines of its streams; a step of *)
(* the model is what one goroutine does between two points where another   *)
(* can interfere.  DATA carries a byte count; addresses and payloads are   *)
(* left out.  The session ends only by a protocol error here: connection   *)
(* loss and supersede are ExitSlot's subject.                              *)
(***************************************************************************)
EXTENDS Integers, Sequences, FiniteSets

CONSTANTS
    NStreams,       \* streams hev opens in this session: ids 1..NStreams
    StreamWindow,   \* credit of one stream in each direction
    ConnWindow,     \* credit of the connection in each direction
    MaxStreams,     \* streams the kvm table may hold at once
    MaxFrame,       \* bytes of one DATA frame
    ReleasedCap,    \* releasedCap: released ids the kvm remembers
    MaxUp,          \* bound: bytes hev writes to one stream
    MaxDown,        \* bound: bytes a destination sends on one stream
    HalfClosers,    \* bound: the streams of which hev closes its side
    MaxFaults       \* bound: refusals, timeouts, resets and aborts in a behaviour

ASSUME NexitAssumption ==
    /\ {NStreams, MaxStreams, MaxFrame, ReleasedCap} \subseteq Nat \ {0}
    /\ {StreamWindow, ConnWindow} \subseteq Nat \ {0, 1}
    /\ {MaxUp, MaxDown, MaxFaults} \subseteq Nat

Streams == 1..NStreams
NoData == [id |-> 0, n |-> 0]

VARIABLES
    kv,     \* the kvm's stream objects, and what hev's relay did with them
    kc,     \* the kvm's session-level state
    ex,     \* the exit's stream objects, and their destination sockets
    ec,     \* the exit's session-level state
    k2e,    \* frames from the kvm to the exit, oldest first
    e2k,    \* frames from the exit to the kvm, oldest first
    faults  \* faults so far, a bound on behaviours only

vars == <<kv, kc, ex, ec, k2e, e2k, faults>>

Frame(t, s, n) == [type |-> t, id |-> s, n |-> n]

(* The bytes of a function to naturals, such as a queue of frame sizes:    *)
(* each is known by where it is and its number there.                      *)
Bytes(f) == UNION {{i} \X (1..f[i]) : i \in DOMAIN f}
Sum(f) == Cardinality(Bytes(f))

(* WINDOW is sent once half a window has been consumed, with all of it.    *)
Owed(w, owed, n) == IF owed + n >= w \div 2 THEN 0 ELSE owed + n

WindowFrame(s, w, owed, n) ==
    IF n > 0 /\ owed + n >= w \div 2 THEN <<Frame("WINDOW", s, owed + n)>> ELSE <<>>

NewStream ==                    \* kvm: type stream struct, newStream
    [tab |-> FALSE,             \* in session.streams
     caller |-> "idle",         \* hev's side: idle, await, use, gone
     res |-> "none",            \* openResult: none, ok, err
     rel |-> "no",              \* released: no, clean (err = EOF), abort
     remoteEOF |-> FALSE, localEOF |-> FALSE,
     recvQ |-> <<>>,            \* sizes of the queued DATA frames
     consumed |-> 0,            \* read by hev since the last WINDOW
     credit |-> StreamWindow,   \* sendCredit.avail, 0 once closed
     claim |-> 0,               \* stream credit taken, connection credit awaited
     sending |-> 0,             \* both taken, DATA not yet queued
     sent |-> 0, got |-> 0, eof |-> FALSE]    \* bytes hev wrote, read; saw EOF

NewExitStream ==                \* exit: type stream struct, onOpen
    [st |-> "none",             \* none, dial, live (in the table), gone, failed
     end |-> "",                \* why it is gone: clean, rst, err
     remoteEOF |-> FALSE, localEOF |-> FALSE,
     queue |-> <<>>,            \* sizes of queued DATA, 0 for the eof item
     consumed |-> 0,
     credit |-> StreamWindow,
     claim |-> 0,
     sending |-> 0,
     read |-> 0, put |-> 0,     \* bytes relayed from, written to the destination
     shut |-> FALSE]            \* the destination saw shutdown(SHUT_WR)

Init ==
    /\ kv = [s \in Streams |-> NewStream]
    /\ kc = [next |-> 1, credit |-> ConnWindow, outstanding |-> 0, consumed |-> 0,
             released |-> <<>>, data |-> NoData, err |-> "none", breach |-> FALSE]
    /\ ex = [s \in Streams |-> NewExitStream]
    /\ ec = [credit |-> ConnWindow, consumed |-> 0, breach |-> FALSE]
    /\ k2e = <<>>
    /\ e2k = <<>>
    /\ faults = 0

Running == kc.err = "none"

(* Every step is the code's own, or a fault of its surroundings.           *)
Step == Running /\ UNCHANGED faults
Fault == Running /\ faults < MaxFaults /\ faults' = faults + 1

-----------------------------------------------------------------------------
(* The kvm end.                                                            *)

Table == {s \in Streams : kv[s].tab}

(* Defect: consumed credits the bytes but leaves them outstanding.         *)
ConsumedStillOutstanding(c, n) == [c EXCEPT !.consumed = Owed(ConnWindow, @, n)]

(* session.consumed on session state c, for n outstanding bytes.           *)
Consumed(c, n) ==
    [c EXCEPT !.outstanding = @ - n, !.consumed = Owed(ConnWindow, @, n)]
ConnWindowFrame(c, n) == WindowFrame(0, ConnWindow, c.consumed, n)

(* The bounded FIFO of released ids after id s left the table.             *)
Remember(order, s) ==
    LET all == Append(order, s)
    IN  IF Len(all) > ReleasedCap THEN Tail(all) ELSE all

(* releaseStream(st, err, rst): st is k, err is nil iff clean, c the       *)
(* session state; pre are frames the caller has queued before.             *)
ReleaseStream(s, k, c, clean, rst, pre) ==
    LET dropped == IF clean THEN 0 ELSE Sum(k.recvQ)
        c1 == IF k.tab THEN [c EXCEPT !.released = Remember(@, s)] ELSE c
    IN  /\ kv' = [kv EXCEPT ![s] =
                    [k EXCEPT !.tab = FALSE,
                              !.rel = IF @ # "no" THEN @ ELSE IF clean THEN "clean" ELSE "abort",
                              !.recvQ = IF clean THEN @ ELSE <<>>,
                              !.credit = 0]]
        /\ kc' = IF dropped > 0 THEN Consumed(c1, dropped) ELSE c1
        /\ k2e' = k2e \o pre \o ConnWindowFrame(c1, dropped)
                      \o (IF k.tab /\ rst THEN <<Frame("RST", s, 0)>> ELSE <<>>)

(* openStream: the next id, unless the table is full.                      *)
OpenStream ==
    /\ Step
    /\ kc.next \in Streams
    /\ Cardinality(Table) < MaxStreams
    /\ kv' = [kv EXCEPT ![kc.next].tab = TRUE, ![kc.next].caller = "await"]
    /\ kc' = [kc EXCEPT !.next = @ + 1]
    /\ k2e' = Append(k2e, Frame("OPEN", kc.next, 0))
    /\ UNCHANGED <<ex, ec, e2k>>

(* awaitOpen: OPENED was delivered ...                                     *)
AwaitResult(s) ==
    /\ Step
    /\ kv[s].caller = "await"
    /\ kv[s].res = "ok"
    /\ kv' = [kv EXCEPT ![s].caller = "use"]
    /\ UNCHANGED <<kc, ex, ec, k2e, e2k>>

(* ... or the OPEN timer, or the caller's context, whichever is seen first. *)
AwaitGivesUp(s) ==
    /\ Fault
    /\ kv[s].caller = "await"
    /\ ReleaseStream(s, [kv[s] EXCEPT !.caller = "gone"], kc, FALSE, TRUE, <<>>)
    /\ UNCHANGED <<ex, ec, e2k>>

(* credit.take of frame.go: what is there of the bytes wanted.             *)
Take(avail, want) == IF want <= avail THEN want ELSE avail

(* Write: the checks, and takeBoth's first half, the stream's credit for   *)
(* one frame of n bytes at most ...                                        *)
WriteClaim(s, n) ==
    LET k == kv[s]
        m == Take(k.credit, n)
    IN
    /\ Step
    /\ k.caller = "use" /\ k.rel = "no" /\ ~k.localEOF
    /\ k.claim = 0 /\ k.sending = 0
    /\ n <= MaxFrame /\ k.sent + n <= MaxUp
    /\ k.credit > 0
    /\ kv' = [kv EXCEPT ![s].credit = @ - m, ![s].claim = m]
    /\ UNCHANGED <<kc, ex, ec, k2e, e2k>>

(* ... its second half, the connection's credit for as much of that as it  *)
(* has; the rest returns to the stream, unless it was released meanwhile:  *)
(* take looks for credit before it looks at the context.                   *)
WriteTake(s) ==
    LET k == kv[s]
        m == Take(kc.credit, k.claim)
    IN
    /\ Step
    /\ k.claim > 0 /\ kc.credit > 0
    /\ kv' = [kv EXCEPT ![s].credit = IF k.rel = "no" THEN @ + (k.claim - m) ELSE @,
                        ![s].claim = 0, ![s].sending = m, ![s].sent = @ + m]
    /\ kc' = [kc EXCEPT !.credit = @ - m]
    /\ UNCHANGED <<ex, ec, k2e, e2k>>

(* ... or the release ended the wait for the connection's credit.          *)
WriteGivesUp(s) ==
    /\ Step
    /\ kv[s].claim > 0 /\ kc.credit = 0 /\ kv[s].rel # "no"
    /\ kv' = [kv EXCEPT ![s].claim = 0]
    /\ UNCHANGED <<kc, ex, ec, k2e, e2k>>

(* ... and the frame, which another goroutine's release may overtake.      *)
WriteSend(s) ==
    /\ Step
    /\ kv[s].sending > 0
    /\ kv' = [kv EXCEPT ![s].sending = 0]
    /\ k2e' = Append(k2e, Frame("DATA", s, kv[s].sending))
    /\ UNCHANGED <<kc, ex, ec, e2k>>

(* CloseWrite, by the goroutine that writes: hev closed its side.          *)
CloseWrite(s) ==
    LET k == [kv[s] EXCEPT !.localEOF = TRUE]
        eof == <<Frame("EOF", s, 0)>>
    IN
    /\ Step
    /\ s \in HalfClosers
    /\ kv[s].caller = "use" /\ kv[s].rel = "no" /\ ~kv[s].localEOF
    /\ kv[s].claim = 0 /\ kv[s].sending = 0
    /\ IF k.remoteEOF
         THEN ReleaseStream(s, k, kc, TRUE, FALSE, eof)
         ELSE /\ kv' = [kv EXCEPT ![s] = k]
              /\ k2e' = k2e \o eof
              /\ UNCHANGED kc
    /\ UNCHANGED <<ex, ec, e2k>>

(* relayTCP also closes the stream when both copies have ended or the      *)
(* stream was aborted; nothing is left to release then.                    *)
RelayOver(k) == (k.eof /\ k.localEOF) \/ k.rel = "abort"

(* Close: hev's own connection failed, or the front door stopped.          *)
Close(s) ==
    /\ Fault
    /\ kv[s].caller = "use" /\ ~RelayOver(kv[s])
    /\ ReleaseStream(s, [kv[s] EXCEPT !.caller = "gone"], kc, FALSE, TRUE, <<>>)
    /\ UNCHANGED <<ex, ec, e2k>>

(* Read: one queued frame goes to hev, with the WINDOWs this calls for.    *)
Read(s) ==
    LET k == kv[s]
        n == Head(k.recvQ)
    IN
    /\ Step
    /\ k.caller = "use" /\ k.recvQ # <<>>
    /\ kv' = [kv EXCEPT ![s].recvQ = Tail(@), ![s].got = @ + n,
                        ![s].consumed = Owed(StreamWindow, @, n)]
    /\ kc' = Consumed(kc, n)
    /\ k2e' = k2e \o WindowFrame(s, StreamWindow, k.consumed, n) \o ConnWindowFrame(kc, n)
    /\ UNCHANGED <<ex, ec, e2k>>

(* Defect: Read reports the half close before the queue is empty.          *)
ReadEOFEarly(s) ==
    LET k == kv[s] IN
    /\ Step
    /\ k.caller = "use" /\ ~k.eof
    /\ k.rel = "clean" \/ (k.rel = "no" /\ k.remoteEOF)
    /\ kv' = [kv EXCEPT ![s].eof = TRUE]
    /\ UNCHANGED <<kc, ex, ec, k2e, e2k>>

(* Read returns io.EOF: the exit's half close, or a clean release.         *)
ReadEOF(s) ==
    LET k == kv[s] IN
    /\ Step
    /\ k.caller = "use" /\ k.recvQ = <<>> /\ ~k.eof
    /\ k.rel = "clean" \/ (k.rel = "no" /\ k.remoteEOF)
    /\ kv' = [kv EXCEPT ![s].eof = TRUE]
    /\ UNCHANGED <<kc, ex, ec, k2e, e2k>>

(* readLoop takes the next frame once the previous one is handled.         *)
Receives(t) ==
    /\ Step
    /\ kc.data = NoData
    /\ e2k # <<>> /\ Head(e2k).type = t
    /\ e2k' = Tail(e2k)
    /\ UNCHANGED <<ex, ec>>

RecvWindow ==
    /\ Receives("WINDOW")
    /\ LET f == Head(e2k) IN
         IF f.id = 0
           THEN kc' = [kc EXCEPT !.credit = @ + f.n] /\ UNCHANGED kv
           ELSE /\ kv' = IF kv[f.id].tab THEN [kv EXCEPT ![f.id].credit = @ + f.n] ELSE kv
                /\ UNCHANGED kc
    /\ UNCHANGED k2e

(* deliverOpen happens once: the first result stands, and an opener still  *)
(* waiting returns the error.                                              *)
DeliverOpen(k, res) ==
    IF k.res # "none" THEN k
    ELSE [k EXCEPT !.res = res,
                   !.caller = IF @ = "await" /\ res = "err" THEN "gone" ELSE @]

RecvOpened ==
    /\ Receives("OPENED")
    /\ LET s == Head(e2k).id IN
         kv' = IF kv[s].tab THEN [kv EXCEPT ![s] = DeliverOpen(@, "ok")] ELSE kv
    /\ UNCHANGED <<kc, k2e>>

(* OPEN_FAIL and RST: an error for the opener, and the stream is released. *)
RecvFailure ==
    /\ Receives("OPEN_FAIL") \/ Receives("RST")
    /\ LET s == Head(e2k).id IN
         IF kv[s].tab
           THEN ReleaseStream(s, DeliverOpen(kv[s], "err"), kc, FALSE, FALSE, <<>>)
           ELSE UNCHANGED <<kv, kc, k2e>>

(* Defect: DATA for a released id is dropped without crediting it.         *)
RecvDataUncredited ==
    /\ Receives("DATA")
    /\ UNCHANGED <<kv, k2e>>
    /\ LET s == Head(e2k).id
           n == Head(e2k).n
       IN  kc' = IF kv[s].tab
                   THEN [kc EXCEPT !.outstanding = @ + n, !.data = [id |-> s, n |-> n]]
                   ELSE kc

(* DATA: credited at once for a released id; otherwise it becomes          *)
(* outstanding (the first half of onData).                                 *)
RecvData ==
    /\ Receives("DATA")
    /\ UNCHANGED kv
    /\ LET s == Head(e2k).id
           n == Head(e2k).n
       IN  IF kv[s].tab
             THEN /\ kc' = IF kv[s].res # "ok"
                             THEN [kc EXCEPT !.err = "DATA before OPENED"]
                           ELSE IF kc.outstanding + n > ConnWindow
                             THEN [kc EXCEPT !.err = "connection window exceeded"]
                           ELSE [kc EXCEPT !.outstanding = @ + n, !.data = [id |-> s, n |-> n]]
                  /\ UNCHANGED k2e
             ELSE IF \E i \in DOMAIN kc.released : kc.released[i] = s
               THEN /\ kc' = [kc EXCEPT !.consumed = Owed(ConnWindow, @, n)]
                    /\ k2e' = k2e \o ConnWindowFrame(kc, n)
               ELSE UNCHANGED <<kc, k2e>>

(* enqueue and what onData does with its result; the stream may have been  *)
(* released since it was looked up.                                        *)
Enqueue ==
    /\ Step
    /\ kc.data # NoData
    /\ LET s == kc.data.id
           n == kc.data.n
           c == [kc EXCEPT !.data = NoData]
       IN  IF kv[s].rel # "no"
             THEN /\ kc' = Consumed(c, n)
                  /\ k2e' = k2e \o ConnWindowFrame(c, n)
                  /\ UNCHANGED kv
           ELSE IF kv[s].remoteEOF \/ Sum(kv[s].recvQ) + n > StreamWindow
             THEN ReleaseStream(s, kv[s], [Consumed(c, n) EXCEPT !.breach = TRUE],
                                FALSE, TRUE, ConnWindowFrame(c, n))
           ELSE /\ kv' = [kv EXCEPT ![s].recvQ = Append(@, n)]
                /\ kc' = c
                /\ UNCHANGED k2e
    /\ UNCHANGED <<ex, ec, e2k>>

(* Defect: an EOF that completes the exchange is taken for a late frame.   *)
RecvEOFIgnoredWhenClosing ==
    /\ Receives("EOF")
    /\ LET s == Head(e2k).id IN
         kv' = IF kv[s].tab /\ ~kv[s].localEOF
                 THEN [kv EXCEPT ![s].remoteEOF = TRUE] ELSE kv
    /\ UNCHANGED <<kc, k2e>>

RecvEOF ==
    /\ Receives("EOF")
    /\ LET s == Head(e2k).id
           k == [kv[s] EXCEPT !.remoteEOF = TRUE]
       IN  IF ~kv[s].tab
             THEN UNCHANGED <<kv, kc, k2e>>
           ELSE IF kv[s].res # "ok"
             THEN /\ kc' = [kc EXCEPT !.err = "EOF before OPENED"]
                  /\ UNCHANGED <<kv, k2e>>
           ELSE IF k.localEOF
             THEN ReleaseStream(s, k, kc, TRUE, FALSE, <<>>)
           ELSE /\ kv' = [kv EXCEPT ![s] = k]
                /\ UNCHANGED <<kc, k2e>>

-----------------------------------------------------------------------------
(* The exit end.                                                           *)

(* drop: out of the table, remembered as released, socket and send credit  *)
(* closed.  The queue and the credit it stands for are left as they are.   *)
Drop(x, why) ==
    IF x.st = "live" THEN [x EXCEPT !.st = "gone", !.end = why, !.credit = 0] ELSE x

(* creditConn.                                                             *)
CreditConn(c, n) == [c EXCEPT !.consumed = Owed(ConnWindow, @, n)]

ExitReceives(t) ==
    /\ k2e # <<>> /\ Head(k2e).type = t
    /\ k2e' = Tail(k2e)
    /\ UNCHANGED <<kv, kc>>

(* onOpen: a dial starts off the read loop ...                             *)
OnOpen ==
    /\ Step
    /\ ExitReceives("OPEN")
    /\ ex' = [ex EXCEPT ![Head(k2e).id].st = "dial"]
    /\ UNCHANGED <<ec, e2k>>

(* ... unless the policy or the address refuses it.                        *)
OnOpenRefused ==
    /\ Fault
    /\ ExitReceives("OPEN")
    /\ ex' = [ex EXCEPT ![Head(k2e).id].st = "failed"]
    /\ e2k' = Append(e2k, Frame("OPEN_FAIL", Head(k2e).id, 0))
    /\ UNCHANGED ec

(* connect: the dial fails ...                                             *)
DialFails(s) ==
    /\ Fault
    /\ ex[s].st = "dial"
    /\ ex' = [ex EXCEPT ![s].st = "failed"]
    /\ e2k' = Append(e2k, Frame("OPEN_FAIL", s, 0))
    /\ UNCHANGED <<kv, kc, ec, k2e>>

(* ... or the stream enters the table, OPENED leaves and its two           *)
(* goroutines start.                                                       *)
DialSucceeds(s) ==
    /\ Step
    /\ ex[s].st = "dial"
    /\ ex' = [ex EXCEPT ![s].st = "live"]
    /\ e2k' = Append(e2k, Frame("OPENED", s, 0))
    /\ UNCHANGED <<kv, kc, ec, k2e>>

ExitRecvData ==
    /\ Step
    /\ ExitReceives("DATA")
    /\ LET s == Head(k2e).id
           n == Head(k2e).n
           x == ex[s]
       IN  \/ /\ x.st = "live" /\ ~x.remoteEOF
              /\ ex' = [ex EXCEPT ![s].queue = Append(@, n)]
              /\ UNCHANGED <<ec, e2k>>
           \/ /\ x.st = "live" /\ x.remoteEOF
              /\ ex' = [ex EXCEPT ![s] = Drop(@, "err")]
              /\ ec' = [ec EXCEPT !.breach = TRUE]
              /\ e2k' = Append(e2k, Frame("RST", s, 0))
           \/ /\ x.st = "gone"
              /\ ec' = CreditConn(ec, n)
              /\ e2k' = e2k \o WindowFrame(0, ConnWindow, ec.consumed, n)
              /\ UNCHANGED ex
           \/ /\ x.st \notin {"live", "gone"}
              /\ UNCHANGED <<ex, ec, e2k>>

(* Defect: the socket is shut down when EOF arrives, not in queue order.   *)
ExitRecvEOFAtOnce ==
    /\ Step
    /\ ExitReceives("EOF")
    /\ LET s == Head(k2e).id IN
         ex' = IF ex[s].st = "live"
                 THEN [ex EXCEPT ![s].remoteEOF = TRUE, ![s].shut = TRUE]
                 ELSE ex
    /\ UNCHANGED <<ec, e2k>>

ExitRecvEOF ==
    /\ Step
    /\ ExitReceives("EOF")
    /\ LET s == Head(k2e).id IN
         ex' = IF ex[s].st = "live"
                 THEN [ex EXCEPT ![s].remoteEOF = TRUE, ![s].queue = Append(@, 0)]
                 ELSE ex
    /\ UNCHANGED <<ec, e2k>>

ExitRecvRST ==
    /\ Step
    /\ ExitReceives("RST")
    /\ ex' = [ex EXCEPT ![Head(k2e).id] = Drop(@, "rst")]
    /\ UNCHANGED <<ec, e2k>>

ExitRecvWindow ==
    /\ Step
    /\ ExitReceives("WINDOW")
    /\ LET f == Head(k2e) IN
         IF f.id = 0
           THEN ec' = [ec EXCEPT !.credit = @ + f.n] /\ UNCHANGED ex
           ELSE /\ ex' = IF ex[f.id].st = "live" THEN [ex EXCEPT ![f.id].credit = @ + f.n] ELSE ex
                /\ UNCHANGED ec
    /\ UNCHANGED e2k

(* The pump reads while the stream is live and its socket has not ended.   *)
Pumping(s) ==
    ex[s].st = "live" /\ ~ex[s].localEOF /\ ex[s].claim = 0 /\ ex[s].sending = 0

(* pump: the destination sent n bytes, and stream credit for some is       *)
(* taken ...                                                               *)
PumpClaim(s, n) ==
    LET m == Take(ex[s].credit, n) IN
    /\ Step
    /\ Pumping(s)
    /\ n <= MaxFrame /\ ex[s].read + n <= MaxDown
    /\ ex[s].credit > 0
    /\ ex' = [ex EXCEPT ![s].credit = @ - m, ![s].claim = m]
    /\ UNCHANGED <<kv, kc, ec, k2e, e2k>>

(* Defect: the stream credit that the connection did not grant is lost.    *)
PumpTakeKeepsRest(s) ==
    LET m == Take(ec.credit, ex[s].claim) IN
    /\ Step
    /\ ex[s].claim > 0 /\ ec.credit > 0
    /\ ex' = [ex EXCEPT ![s].claim = 0, ![s].sending = m, ![s].read = @ + m]
    /\ ec' = [ec EXCEPT !.credit = @ - m]
    /\ UNCHANGED <<kv, kc, k2e, e2k>>

(* Defect: a frame smaller than the connection's credit uses all of it.    *)
PumpTakeDrains(s) ==
    LET m == Take(ec.credit, ex[s].claim) IN
    /\ Step
    /\ ex[s].claim > 0 /\ ec.credit > 0
    /\ ex' = [ex EXCEPT ![s].claim = 0, ![s].sending = m, ![s].read = @ + m]
    /\ ec' = [ec EXCEPT !.credit = 0]
    /\ UNCHANGED <<kv, kc, k2e, e2k>>

(* ... and connection credit for as much of that as there is ...           *)
PumpTake(s) ==
    LET x == ex[s]
        m == Take(ec.credit, x.claim)
    IN
    /\ Step
    /\ x.claim > 0 /\ ec.credit > 0
    /\ ex' = [ex EXCEPT ![s].credit = IF x.st = "live" THEN @ + (x.claim - m) ELSE @,
                        ![s].claim = 0, ![s].sending = m, ![s].read = @ + m]
    /\ ec' = [ec EXCEPT !.credit = @ - m]
    /\ UNCHANGED <<kv, kc, k2e, e2k>>

(* ... unless the stream was dropped while there was none.                 *)
PumpGivesUp(s) ==
    /\ Step
    /\ ex[s].claim > 0 /\ ec.credit = 0 /\ ex[s].st = "gone"
    /\ ex' = [ex EXCEPT ![s].claim = 0]
    /\ UNCHANGED <<kv, kc, ec, k2e, e2k>>

(* ... and the frame, which a RST of the drain may overtake.               *)
PumpSend(s) ==
    /\ Step
    /\ ex[s].sending > 0
    /\ ex' = [ex EXCEPT ![s].sending = 0]
    /\ e2k' = Append(e2k, Frame("DATA", s, ex[s].sending))
    /\ UNCHANGED <<kv, kc, ec, k2e>>

(* The destination closed its side: EOF, and a drop after both EOFs.       *)
PumpEOF(s) ==
    LET x == [ex[s] EXCEPT !.localEOF = TRUE] IN
    /\ Step
    /\ Pumping(s)
    /\ ex' = [ex EXCEPT ![s] = IF x.remoteEOF THEN Drop(x, "clean") ELSE x]
    /\ e2k' = Append(e2k, Frame("EOF", s, 0))
    /\ UNCHANGED <<kv, kc, ec, k2e>>

(* The destination reset the connection.                                   *)
PumpFails(s) ==
    /\ Fault
    /\ Pumping(s)
    /\ ex' = [ex EXCEPT ![s] = Drop(@, "err")]
    /\ e2k' = Append(e2k, Frame("RST", s, 0))
    /\ UNCHANGED <<kv, kc, ec, k2e>>

(* drainTCP: the head of the queue reached the socket.                     *)
DrainWrites(s) ==
    LET x == ex[s]
        n == Head(x.queue)
    IN
    /\ Step
    /\ x.st = "live" /\ x.queue # <<>> /\ n > 0
    /\ ex' = [ex EXCEPT ![s].queue = Tail(@), ![s].put = @ + n,
                        ![s].consumed = Owed(StreamWindow, @, n)]
    /\ ec' = CreditConn(ec, n)
    /\ e2k' = e2k \o WindowFrame(s, StreamWindow, x.consumed, n)
                  \o WindowFrame(0, ConnWindow, ec.consumed, n)
    /\ UNCHANGED <<kv, kc, k2e>>

(* ... or the write failed and the goroutine ends, its queue unread: by    *)
(* the destination's doing (DrainFails), or because the stream was dropped *)
(* and its socket closed (DrainClosed).                                    *)
WriteFails(s) ==
    LET x == ex[s] IN
    /\ x.queue # <<>> /\ Head(x.queue) > 0
    /\ ex' = [ex EXCEPT ![s] = Drop([x EXCEPT !.queue = <<>>], "err")]
    /\ e2k' = Append(e2k, Frame("RST", s, 0))
    /\ UNCHANGED <<kv, kc, ec, k2e>>

DrainFails(s) == Fault /\ ex[s].st = "live" /\ WriteFails(s)
DrainClosed(s) == Step /\ ex[s].st = "gone" /\ WriteFails(s)

(* ... or it is the eof item: shutdown, and a drop after both EOFs.        *)
DrainEOF(s) ==
    LET x == [ex[s] EXCEPT !.queue = Tail(@), !.shut = TRUE] IN
    /\ Step
    /\ ex[s].st = "live" /\ ex[s].queue # <<>> /\ Head(ex[s].queue) = 0
    /\ ex' = [ex EXCEPT ![s] = IF x.localEOF THEN Drop(x, "clean") ELSE x]
    /\ UNCHANGED <<kv, kc, ec, k2e, e2k>>

-----------------------------------------------------------------------------

KvmReadLoop ==
    RecvWindow \/ RecvOpened \/ RecvFailure \/ RecvData \/ Enqueue \/ RecvEOF
HevRead(s) == Read(s) \/ ReadEOF(s)
HevWrite(s) == AwaitResult(s) \/ WriteTake(s) \/ WriteGivesUp(s) \/ WriteSend(s)
ExitReadLoop ==
    OnOpen \/ ExitRecvData \/ ExitRecvEOF \/ ExitRecvRST \/ ExitRecvWindow
ExitPump(s) ==
    DialSucceeds(s) \/ DialFails(s) \/ PumpTake(s) \/ PumpGivesUp(s) \/ PumpSend(s)
ExitDrain(s) == DrainClosed(s) \/ DrainEOF(s)

Next ==
    \/ OpenStream
    \/ KvmReadLoop
    \/ ExitReadLoop
    \/ OnOpenRefused
    \/ \E s \in Streams :
        \/ HevRead(s) \/ HevWrite(s) \/ CloseWrite(s)
        \/ \E n \in 1..MaxFrame : WriteClaim(s, n) \/ PumpClaim(s, n)
        \/ ExitPump(s) \/ PumpEOF(s) \/ ExitDrain(s) \/ DrainWrites(s)
        \/ AwaitGivesUp(s) \/ Close(s)
        \/ PumpFails(s) \/ DrainFails(s)

(* Goroutines that can run do run.  Nothing is assumed of hev or of a      *)
(* destination: whether it opens, sends, closes or resets, nor that it     *)
(* reads.  relayTCP and drainTCP write to their sockets without a          *)
(* deadline, so Read and DrainWrites, the steps after such a write, may    *)
(* never come; a write to a closed socket (DrainClosed) and a shutdown     *)
(* (DrainEOF) return.                                                      *)
Fairness ==
    /\ WF_vars(KvmReadLoop)
    /\ WF_vars(ExitReadLoop)
    /\ \A s \in Streams :
        /\ WF_vars(HevWrite(s))
        /\ WF_vars(ExitPump(s))
        /\ WF_vars(ExitDrain(s))

(* hev keeps reading the connections it opened: an assumption about hev,   *)
(* named by the properties that need it.                                   *)
HevReads == \A s \in Streams : WF_vars(HevRead(s))

Spec == Init /\ [][Next]_vars /\ Fairness

-----------------------------------------------------------------------------
(* Properties.                                                             *)

(* The bytes that frames of type t for these ids carry on a channel.       *)
Carried(chan, t, ids) ==
    Sum([i \in DOMAIN chan |-> IF chan[i].type = t /\ chan[i].id \in ids THEN chan[i].n ELSE 0])
InHand(s) == IF kc.data.id = s THEN kc.data.n ELSE 0

(* Two ends that follow the code never end the session with a protocol     *)
(* error, nor reset a stream for one: no DATA or EOF before OPENED, no     *)
(* window exceeded, no DATA after EOF (mux.go handle, onData, enqueue;     *)
(* session.go handle).                                                     *)
NoProtocolError == kc.err = "none" /\ ~kc.breach /\ ~ec.breach

(* While both ends hold a stream, no byte of its two windows is lost: the  *)
(* credit is at the sender, taken while the connection's is awaited and    *)
(* returned when it falls short, on the wire, queued, consumed but not yet *)
(* announced, or announced (mux.go Read, enqueue, Write; session.go pump,  *)
(* drainTCP; takeBoth).                                                    *)
StreamCreditConserved ==
    \A s \in Streams :
        (kv[s].tab /\ kv[s].res = "ok" /\ ex[s].st = "live") =>
        /\ ex[s].credit + ex[s].claim + ex[s].sending + Carried(e2k, "DATA", {s}) + InHand(s)
             + Sum(kv[s].recvQ) + kv[s].consumed + Carried(k2e, "WINDOW", {s}) = StreamWindow
        /\ kv[s].credit + kv[s].claim + kv[s].sending + Carried(k2e, "DATA", {s})
             + Sum(ex[s].queue) + ex[s].consumed + Carried(e2k, "WINDOW", {s}) = StreamWindow

(* hev sees end of file only after every byte the exit read from the       *)
(* destination before the destination closed (mux.go Read, release).       *)
DownloadIntact == \A s \in Streams : kv[s].eof => kv[s].got = ex[s].read

(* The destination sees the half close only after every byte hev wrote     *)
(* (session.go drainTCP, mux.go CloseWrite).                               *)
UploadBeforeShutdown == \A s \in Streams : ex[s].shut => ex[s].put = kv[s].sent

(* The exit -> kvm connection window is a CreditWindow: whatever happens   *)
(* to the streams, every byte of it is accounted for.                      *)
DownConn == INSTANCE CreditWindow WITH
    Window <- ConnWindow,
    MaxFrame <- MaxFrame,
    avail <- ec.credit,
    wire <- Carried(e2k, "DATA", Streams) + Sum([s \in Streams |-> ex[s].sending]),
    held <- kc.outstanding,
    owed <- kc.consumed,
    granted <- Carried(k2e, "WINDOW", {0}),
    exceeded <- (kc.err = "connection window exceeded")

(* Refinement: each step of the session moves the exit's connection credit *)
(* as the window's specification allows, or leaves it alone (mux.go        *)
(* onData, consumed, creditReleased, releaseStream).                       *)
DownWindow == DownConn!Spec

(* As long as hev reads, an exit out of connection credit gets some back:  *)
(* what aborted, released and finished streams held returns as surely as   *)
(* what hev reads, and less than half a window stays unannounced (mux.go   *)
(* consumed, creditReleased, releaseStream).  A hev that stops reading one *)
(* stream may hold the whole window.                                       *)
ConnCreditReturns == HevReads => (ec.credit = 0 ~> ec.credit > 0)

(* As long as hev reads, it gets the end of file once the destination has  *)
(* closed, or the stream was aborted or abandoned (mux.go Read,            *)
(* remoteEOFArrived).                                                      *)
DownloadFinishes ==
    HevReads => \A s \in Streams :
        ex[s].localEOF ~> (kv[s].eof \/ kv[s].caller = "gone" \/ kv[s].rel = "abort")

-----------------------------------------------------------------------------
(* What the clients' documentation promises of an exit.                    *)

Quiet ==
    /\ k2e = <<>> /\ e2k = <<>>
    /\ \A s \in Streams : /\ ~kv[s].tab /\ kv[s].sending = 0
                          /\ ex[s].st \notin {"dial", "live"}

(* "bytes buffered for a stream that gets RST are still returned to the    *)
(* connection window": with no stream left and nothing on the wire, the    *)
(* kvm holds all connection credit but what the exit owes it.              *)
UpCreditReturned == Quiet => kc.credit + ec.consumed = ConnWindow

(* "kvm EOF -> pending bytes flushed -> shutdown(SHUT_WR)": a stream       *)
(* released after both EOFs has delivered everything hev wrote.            *)
HalfCloseFlushed == \A s \in Streams : ex[s].end = "clean" => ex[s].put = kv[s].sent
=============================================================================
