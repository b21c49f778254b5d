------------------------------ MODULE H264Stream ------------------------------
(***************************************************************************)
(* From the encoder to the viewers of the direct H.264 stream: the shared  *)
(* source and its subscriptions (stream/h264_source.go), the direct        *)
(* streamer that broadcasts one subscription to every viewer's queue       *)
(* (stream/direct/streamer.go), and each viewer's connection: its reader   *)
(* (direct/h264.go) and its writer goroutine (direct/client.go).           *)
(*                                                                         *)
(* A step ends where the code unlocks a mutex, touches a channel or does   *)
(* I/O.  seq numbers the frames the encoder produced since the source was  *)
(* started and is the frame's timestamp.                                   *)
(***************************************************************************)
EXTENDS FrameQueue

CONSTANTS
    Viewers,        \* connections of the direct stream
    FlowOf,         \* each one's "flow" query parameter; 0: absent
    ChanCap,        \* capacity of a subscription's channel
    MaxTicks,       \* bound: frames captured
    MaxRuns         \* bound: times the streamer's run is started

ASSUME H264StreamAssumption ==
    /\ IsFiniteSet(Viewers)
    /\ FlowOf \in [Viewers -> Nat]
    /\ ChanCap \in Nat \ {0}
    /\ {MaxTicks, MaxRuns} \subseteq Nat

Runs == 1..MaxRuns
Idle == [kind |-> "none", seq |-> 0]

VARIABLES
    srcRunning,     \* H264Source.running
    seq,            \* frames encoded since the source started
    frame,          \* the frame being sent to subscriptions, or Idle
    todo,           \* subscriptions it has still to be sent to
    draining,       \* subscription whose full channel is being emptied, or 0
    ticks,
    sub,            \* the subscription of each run of the streamer
    run,            \* the run itself: where it is, its frame, queues to offer it to
    running,        \* Streamer.running
    runs,           \* runs started
    clients,        \* Streamer.clients (and its snapshot)
    conn,           \* where each viewer's connection handler is
    queue,          \* each viewer's frame queue
    writer,         \* where each viewer's writeLoop is, and the frame it holds
    got             \* timestamp of the last frame each connected viewer received

sourceVars == <<srcRunning, seq, frame, todo, draining, ticks>>
streamerVars == <<running, runs, clients>>
viewerVars == <<conn, queue, writer, got>>
vars == <<sourceVars, sub, run, streamerVars, viewerVars>>

Init ==
    /\ srcRunning = FALSE /\ seq = 0
    /\ frame = Idle /\ todo = {} /\ draining = 0 /\ ticks = 0
    /\ sub = [r \in Runs |-> [frames |-> <<>>, waiting |-> FALSE, open |-> FALSE]]
    /\ run = [r \in Runs |-> [pc |-> "none", frame |-> Idle, to |-> {}]]
    /\ running = FALSE /\ runs = 0 /\ clients = {}
    /\ conn = [c \in Viewers |-> "new"]
    /\ queue = [c \in Viewers |-> New]
    /\ writer = [c \in Viewers |-> [pc |-> "none", frame |-> Idle]]
    /\ got = [c \in Viewers |-> Never]

-----------------------------------------------------------------------------
(* H264Source.run                                                          *)

(* Defect: timestamps too coarse to tell a frame from the one before.      *)
TickCoarse(kind) ==
    /\ srcRunning /\ todo = {} /\ ticks < MaxTicks
    /\ \E r \in Runs : sub[r].open
    /\ ticks' = ticks + 1
    /\ seq' = IF kind = "key" THEN seq + 1 ELSE seq
    /\ frame' = [kind |-> kind, seq |-> seq']
    /\ todo' = {r \in Runs : sub[r].open}
    /\ UNCHANGED <<srcRunning, draining, sub, run, streamerVars, viewerVars>>

(* A tick reads a frame, or an error, for the subscriptions of the moment. *)
Tick(kind) ==
    /\ srcRunning /\ todo = {} /\ ticks < MaxTicks
    /\ \E r \in Runs : sub[r].open
    /\ ticks' = ticks + 1
    /\ seq' = IF kind = "error" THEN seq ELSE seq + 1
    /\ frame' = [kind |-> kind, seq |-> seq']
    /\ todo' = {r \in Runs : sub[r].open}
    /\ UNCHANGED <<srcRunning, draining, sub, run, streamerVars, viewerVars>>

(* A tick with no subscription left ends the source; the next one starts   *)
(* its timestamps over.                                                    *)
SourceStops ==
    /\ srcRunning /\ todo = {}
    /\ \A r \in Runs : ~sub[r].open
    /\ srcRunning' = FALSE
    /\ seq' = 0
    /\ UNCHANGED <<frame, todo, draining, ticks, sub, run, streamerVars, viewerVars>>

Sent(r) == /\ todo' = todo \ {r}
           /\ frame' = IF todo = {r} THEN Idle ELSE frame
           /\ UNCHANGED <<srcRunning, seq, ticks, run, streamerVars, viewerVars>>

(* send: skipped when the subscription is closed or waits for a keyframe.  *)
SendSkips(r) ==
    /\ r \in todo /\ draining = 0
    /\ ~sub[r].open \/ (sub[r].waiting /\ frame.kind # "key")
    /\ Sent(r)
    /\ UNCHANGED <<draining, sub>>

Wanted(r) == sub[r].open /\ (sub[r].waiting => frame.kind = "key")

(* Defect: the frame is queued whether or not the channel has room.        *)
SendUnbounded(r) ==
    /\ r \in todo /\ draining = 0
    /\ Wanted(r)
    /\ sub' = [sub EXCEPT ![r] = [@ EXCEPT !.frames = Append(sub[r].frames, frame),
                                         !.waiting = FALSE]]
    /\ Sent(r)
    /\ UNCHANGED draining

Send(r) ==
    /\ r \in todo /\ draining = 0
    /\ Wanted(r)
    /\ Len(sub[r].frames) < ChanCap
    /\ sub' = [sub EXCEPT ![r] = [@ EXCEPT !.frames = Append(sub[r].frames, frame),
                                         !.waiting = FALSE]]
    /\ Sent(r)
    /\ UNCHANGED draining

(* The channel is full: send empties it, one receive at a time ...         *)
SendOverflows(r) ==
    /\ r \in todo /\ draining = 0
    /\ Wanted(r)
    /\ Len(sub[r].frames) = ChanCap
    /\ draining' = r
    /\ sub' = [sub EXCEPT ![r].waiting = FALSE]
    /\ UNCHANGED <<srcRunning, seq, frame, todo, ticks, run, streamerVars, viewerVars>>

Drain ==
    /\ draining # 0 /\ sub[draining].frames # <<>>
    /\ sub' = [sub EXCEPT ![draining].frames = Tail(@)]
    /\ UNCHANGED <<sourceVars, run, streamerVars, viewerVars>>

(* ... or stops because the subscription was closed meanwhile ...          *)
DrainClosed ==
    /\ draining # 0 /\ ~sub[draining].open
    /\ draining' = 0
    /\ Sent(draining)
    /\ UNCHANGED sub

(* ... and, once it is empty, keeps a keyframe or waits for one.           *)
Drained ==
    /\ draining # 0 /\ sub[draining].open /\ sub[draining].frames = <<>>
    /\ draining' = 0
    /\ sub' = [sub EXCEPT ![draining] =
                  [@ EXCEPT !.waiting = frame.kind # "key",
                            !.frames = IF frame.kind = "key" THEN <<frame>> ELSE <<>>]]
    /\ Sent(draining)

-----------------------------------------------------------------------------
(* Streamer.run                                                            *)

At(r, pc) == run' = [run EXCEPT ![r].pc = pc]

(* The subscription is registered and starts the source when it is idle.   *)
Subscribe(r) ==
    /\ run[r].pc = "start"
    /\ At(r, "next")
    /\ sub' = [sub EXCEPT ![r].open = TRUE]
    /\ srcRunning' = TRUE
    /\ UNCHANGED <<seq, frame, todo, draining, ticks, streamerVars, viewerVars>>

(* The next frame, and the viewers it is for.                              *)
NextFrame(r) ==
    /\ run[r].pc = "next" /\ sub[r].frames # <<>>
    /\ sub' = [sub EXCEPT ![r].frames = Tail(@)]
    /\ LET f == Head(sub[r].frames) IN
           run' = [run EXCEPT ![r] =
                      IF clients = {} THEN [@ EXCEPT !.pc = "idle"]
                      ELSE IF f.kind = "error" THEN @
                      ELSE [pc |-> "broadcast", frame |-> f, to |-> clients]]
    /\ UNCHANGED <<sourceVars, streamerVars, viewerVars>>

(* Broadcast offers the frame to one queue after the other.                *)
Broadcast(r) ==
    /\ run[r].pc = "broadcast"
    /\ \E c \in run[r].to :
           /\ queue' = [queue EXCEPT
                 ![c] = Offer(@, run[r].frame.kind = "key", run[r].frame.seq)]
           /\ run' = [run EXCEPT ![r] =
                 IF run[r].to = {c} THEN [pc |-> "next", frame |-> Idle, to |-> {}]
                 ELSE [@ EXCEPT !.to = run[r].to \ {c}]]
    /\ UNCHANGED <<sourceVars, sub, streamerVars, conn, writer, got>>

(* Defect: a run that saw no viewer stops without looking again.           *)
StopIfIdleUnchecked(r) ==
    /\ run[r].pc = "idle"
    /\ running' = FALSE /\ At(r, "close")
    /\ UNCHANGED <<sourceVars, sub, runs, clients, viewerVars>>

(* stopIfIdle looks again under the lock.                                  *)
StopIfIdle(r) ==
    /\ run[r].pc = "idle"
    /\ IF clients = {} THEN running' = FALSE /\ At(r, "close")
                       ELSE At(r, "next") /\ UNCHANGED running
    /\ UNCHANGED <<sourceVars, sub, runs, clients, viewerVars>>

(* The deferred subscription.Close; the channel becomes garbage.           *)
Unsubscribe(r) ==
    /\ run[r].pc = "close"
    /\ At(r, "done")
    /\ sub' = [sub EXCEPT ![r] = [@ EXCEPT !.open = FALSE, !.frames = <<>>]]
    /\ UNCHANGED <<sourceVars, streamerVars, viewerVars>>

-----------------------------------------------------------------------------
(* Connect, the reader                                                     *)

(* Connect: flow control if asked for, then addClient, which starts the    *)
(* writer, and a run of the streamer when there is none.                   *)
AddClient(c) ==
    /\ conn[c] = "new"
    /\ running \/ runs < MaxRuns
    /\ conn' = [conn EXCEPT ![c] = "open"]
    /\ queue' = [queue EXCEPT ![c] = IF FlowOf[c] > 0 THEN EnableFlowControl(@, FlowOf[c]) ELSE @]
    /\ writer' = [writer EXCEPT ![c].pc = "loop"]
    /\ clients' = clients \cup {c}
    /\ running' = TRUE
    /\ IF running THEN UNCHANGED <<runs, run>>
                  ELSE runs' = runs + 1 /\ At(runs + 1, "start")
    /\ UNCHANGED <<sourceVars, sub, got>>

(* handleControl: the acknowledgement of a frame the viewer received,      *)
(* perhaps some time ago ...                                               *)
Ack(c) ==
    /\ conn[c] = "open"
    /\ \E ts \in 1..got[c] : queue' = [queue EXCEPT ![c] = Acknowledge(@, ts)]
    /\ UNCHANGED <<sourceVars, sub, run, streamerVars, conn, writer, got>>

(* ... or asks for a fresh start.                                          *)
Resync(c) ==
    /\ conn[c] = "open"
    /\ queue' = [queue EXCEPT ![c] = RequestResync(@)]
    /\ UNCHANGED <<sourceVars, sub, run, streamerVars, conn, writer, got>>

(* The connection ends: removeClient takes the viewer off the map ...      *)
RemoveClient(c) ==
    /\ conn[c] = "open"
    /\ conn' = [conn EXCEPT ![c] = "removed"]
    /\ clients' = clients \ {c}
    /\ UNCHANGED <<sourceVars, sub, run, running, runs, queue, writer, got>>

(* ... and then closes its queue.                                          *)
CloseClient(c) ==
    /\ conn[c] = "removed"
    /\ conn' = [conn EXCEPT ![c] = "gone"]
    /\ queue' = [queue EXCEPT ![c] = Close(@)]
    /\ got' = [got EXCEPT ![c] = Never]
    /\ UNCHANGED <<sourceVars, sub, run, streamerVars, writer>>

-----------------------------------------------------------------------------
(* writeLoop                                                               *)

(* PopForWrite: a frame to write, or nothing and the writer waits.         *)
Pop(c) ==
    /\ writer[c].pc = "loop"
    /\ IF CanPop(queue[c])
         THEN LET f == Head(queue[c].frames) IN
              /\ queue' = [queue EXCEPT ![c] = PopForWrite(@)]
              /\ writer' = [writer EXCEPT ![c] =
                    [pc |-> "write",
                     frame |-> [kind |-> IF f.key THEN "key" ELSE "delta", seq |-> f.ts]]]
         ELSE writer' = [writer EXCEPT ![c].pc = "wait"] /\ UNCHANGED queue
    /\ UNCHANGED <<sourceVars, sub, run, streamerVars, conn, got>>

Write(c) ==
    /\ writer[c].pc = "write" /\ ~queue[c].closed
    /\ got' = [got EXCEPT ![c] = writer[c].frame.seq]
    /\ writer' = [writer EXCEPT ![c] = [pc |-> "loop", frame |-> Idle]]
    /\ UNCHANGED <<sourceVars, sub, run, streamerVars, conn, queue>>

(* A write or a ping fails: the writer closes the client and returns.      *)
WriteFails(c) ==
    /\ writer[c].pc \in {"loop", "write", "wait"}
    /\ queue' = [queue EXCEPT ![c] = Close(@)]
    /\ writer' = [writer EXCEPT ![c] = [pc |-> "exited", frame |-> Idle]]
    /\ got' = [got EXCEPT ![c] = Never]
    /\ UNCHANGED <<sourceVars, sub, run, streamerVars, conn>>

(* The writer is signalled, or a ping was due and went out.                *)
Wake(c) ==
    /\ writer[c].pc = "wait" /\ queue[c].wake
    /\ queue' = [queue EXCEPT ![c].wake = FALSE]
    /\ writer' = [writer EXCEPT ![c].pc = "loop"]
    /\ UNCHANGED <<sourceVars, sub, run, streamerVars, conn, got>>

Ping(c) ==
    /\ writer[c].pc = "wait"
    /\ writer' = [writer EXCEPT ![c].pc = "loop"]
    /\ UNCHANGED <<sourceVars, sub, run, streamerVars, conn, queue, got>>

(* done is closed: the writer returns.                                     *)
WriterDone(c) ==
    /\ writer[c].pc = "wait" /\ queue[c].closed
    /\ writer' = [writer EXCEPT ![c].pc = "exited"]
    /\ UNCHANGED <<sourceVars, sub, run, streamerVars, conn, queue, got>>

Next ==
    \/ \E kind \in {"key", "delta", "error"} : Tick(kind)
    \/ SourceStops \/ Drain \/ DrainClosed \/ Drained
    \/ \E r \in Runs :
           \/ SendSkips(r) \/ Send(r) \/ SendOverflows(r)
           \/ Subscribe(r) \/ NextFrame(r) \/ Broadcast(r) \/ StopIfIdle(r) \/ Unsubscribe(r)
    \/ \E c \in Viewers :
           \/ AddClient(c) \/ Ack(c) \/ Resync(c) \/ RemoveClient(c) \/ CloseClient(c)
           \/ Pop(c) \/ Write(c) \/ WriteFails(c) \/ Wake(c) \/ Ping(c) \/ WriterDone(c)

Spec == Init /\ [][Next]_vars

-----------------------------------------------------------------------------

Message == [kind : {"none", "key", "delta", "error"}, seq : Int]

SourceTypeOK ==
    /\ srcRunning \in BOOLEAN /\ seq \in Nat /\ ticks \in Nat
    /\ frame \in Message /\ todo \subseteq Runs /\ draining \in {0} \cup Runs
    /\ sub \in [Runs -> [frames : Seq(Message), waiting : BOOLEAN, open : BOOLEAN]]
    /\ \A r \in Runs : Len(sub[r].frames) <= ChanCap

StreamerTypeOK ==
    /\ running \in BOOLEAN /\ runs \in 0..MaxRuns /\ clients \subseteq Viewers
    /\ run \in [Runs -> [pc : {"none", "start", "next", "broadcast", "idle", "close", "done"},
                         frame : Message, to : SUBSET Viewers]]

ViewerTypeOK ==
    /\ conn \in [Viewers -> {"new", "open", "removed", "gone"}]
    /\ queue \in [Viewers -> Queue]
    /\ writer \in [Viewers -> [pc : {"none", "loop", "write", "wait", "exited"},
                               frame : Message]]
    /\ got \in [Viewers -> Int]

(* The goroutines, the channels and the queues hold values of their kinds, *)
(* and no subscription's channel holds more than it can.                   *)
TypeOK == SourceTypeOK /\ StreamerTypeOK /\ ViewerTypeOK

(* A viewer without flow control never has more queued than the limits     *)
(* allow, whatever its queue dropped before (queue.go offer,               *)
(* clearFramesLocked).                                                     *)
QueueBounded == \A c \in Viewers : InLimits(queue[c])

(* No viewer is owed more than its flow window, whatever the order of      *)
(* broadcasts, writes, acknowledgements and resyncs (queue.go offer,       *)
(* PopForWrite, Acknowledge).                                              *)
WindowRespected == \A c \in Viewers : InWindow(queue[c])

(* A viewer's writer takes a keyframe, or the frame offered right after    *)
(* the one it took before: a frame its queue skipped is never referenced   *)
(* (queue.go offer, Broadcast).                                            *)
TakesDecodable ==
    [][\A c \in Viewers : queue'[c].taken \notin {queue[c].taken, Never} =>
           LET f == Head(queue[c].frames) IN f.key \/ f.after = queue[c].taken]_vars

(* Timestamps in flight increase, although they start over whenever the    *)
(* source is restarted: an acknowledgement covers exactly the frames       *)
(* written up to it (h264_source.go run, queue.go Acknowledge).            *)
AcksExact ==
    \A c \in Viewers : \A i, j \in DOMAIN queue[c].inFlight :
        i < j => queue[c].inFlight[i] < queue[c].inFlight[j]

(* A writer that waits with a frame queued has its wake-up on the way      *)
(* (queue.go signalLocked, client.go writeLoop).                           *)
NoLostWakeup ==
    \A c \in Viewers : (writer[c].pc = "wait" /\ queue[c].frames # <<>>) => queue[c].wake

Broadcasting == {r \in Runs : run[r].pc \in {"start", "next", "broadcast", "idle"}}

(* As long as somebody watches, exactly one run broadcasts and its source  *)
(* is running: a viewer that arrives while the last one leaves is neither  *)
(* forgotten nor served by two runs at once (streamer.go addClient,        *)
(* stopIfIdle; h264_source.go subscribe, run).                             *)
ViewersServed ==
    /\ clients # {} => Cardinality(Broadcasting) = 1
    /\ Cardinality(Broadcasting) <= 1
    /\ (\E r \in Runs : sub[r].open) => srcRunning

-----------------------------------------------------------------------------

(* "otherwise the next delivered delta references a picture the client     *)
(* never received": a viewer receives a keyframe, or the frame the encoder *)
(* produced right after the one received before (queue.go Broadcast).      *)
ReceivesDecodable ==
    [][\A c \in Viewers : got'[c] \notin {got[c], Never} =>
           writer[c].frame.kind = "key" \/ got'[c] = got[c] + 1]_vars
=============================================================================
