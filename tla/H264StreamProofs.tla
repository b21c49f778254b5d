--------------------------- MODULE H264StreamProofs ---------------------------
(***************************************************************************)
(* For every set of viewers, every window and every capacity: the state of *)
(* the direct H.264 stream stays well typed, no viewer is owed more than   *)
(* its flow window, and every writer takes frames it can decode; while     *)
(* anybody watches, one run serves the viewers; queues keep to their       *)
(* limits, acknowledgements cover what they name, and no wake-up is lost.  *)
(***************************************************************************)
EXTENDS H264Stream, FrameQueueProofs

QueuesInv == \A c \in Viewers : QueueInv(queue[c])
Inv == TypeOK /\ QueuesInv

(* What one queue may do in a step: stay within the invariant, and if the  *)
(* writer took a frame, one that can be decoded.                           *)
QueueStep(q, p) ==
    /\ QueueInv(p)
    /\ p.taken \notin {q.taken, Never} =>
           LET f == Head(q.frames) IN f.key \/ f.after = q.taken

QueuesStep == /\ queue' \in [Viewers -> Queue]
              /\ \A c \in Viewers : QueueStep(queue[c], queue'[c])

(* A step that leaves every queue alone.                                   *)
LEMMA QueuesUnchanged == Inv /\ UNCHANGED queue => QueuesStep
BY DEF Inv, QueuesInv, QueuesStep, QueueStep, TypeOK, ViewerTypeOK, QueueInv

(* A step that changes the queue of one viewer.                            *)
LEMMA OneQueue ==
    ASSUME Inv, NEW c \in Viewers, NEW p, QueueStep(queue[c], p),
           queue' = [queue EXCEPT ![c] = p]
    PROVE  QueuesStep
<1>1. queue \in [Viewers -> Queue] /\ p \in Queue
  BY DEF Inv, TypeOK, ViewerTypeOK, QueueStep, QueueInv
<1>2. queue' \in [Viewers -> Queue]
  BY <1>1
<1>3. ASSUME NEW d \in Viewers
      PROVE  QueueStep(queue[d], queue'[d])
  <2>1. CASE d = c
    BY <2>1, <1>1
  <2>2. CASE d # c
    BY <2>2, <1>1 DEF Inv, QueuesInv, QueueStep
  <2> QED BY <2>1, <2>2
<1> QED BY <1>2, <1>3 DEF QueuesStep

(* A method that takes no frame.                                           *)
LEMMA NothingTaken ==
    ASSUME NEW q, NEW p, QueueInv(p), p.taken \in {q.taken, Never}
    PROVE  QueueStep(q, p)
BY DEF QueueStep

(* Every step of the stream is such a step of the queues (queue.go, as     *)
(* called by Broadcast, handleControl, writeLoop and close).               *)
LEMMA NextQueues ==
    ASSUME Inv, [Next]_vars
    PROVE  QueuesStep
<1> USE DEF viewerVars
<1>1. \A c \in Viewers : QueueInv(queue[c]) /\ queue[c] \in Queue
  BY DEF Inv, QueuesInv, QueueInv
<1>2. ASSUME NEW c \in Viewers, AddClient(c)
      PROVE  QueuesStep
  <2>1. CASE FlowOf[c] > 0
    <3>1. queue' = [queue EXCEPT ![c] = EnableFlowControl(queue[c], FlowOf[c])]
      BY <1>2, <2>1 DEF AddClient
    <3>2. FlowOf[c] \in Nat
      BY H264StreamAssumption
    <3>3. QueueStep(queue[c], EnableFlowControl(queue[c], FlowOf[c]))
      BY <1>1, <3>2, EnableFlowControlInv, NothingTaken
    <3> QED BY <3>1, <3>3, OneQueue
  <2>2. CASE ~(FlowOf[c] > 0)
    <3>1. queue' = [queue EXCEPT ![c] = queue[c]]
      BY <1>2, <2>2 DEF AddClient
    <3>2. QueueStep(queue[c], queue[c])
      BY <1>1, NothingTaken
    <3> QED BY <3>1, <3>2, OneQueue
  <2> QED BY <2>1, <2>2
<1>3. ASSUME NEW r \in Runs, Broadcast(r)
      PROVE  QueuesStep
  <2>1. PICK c \in run[r].to :
            queue' = [queue EXCEPT
                ![c] = Offer(queue[c], run[r].frame.kind = "key", run[r].frame.seq)]
    BY <1>3 DEF Broadcast
  <2>2. c \in Viewers /\ run[r].frame.seq \in Int /\ (run[r].frame.kind = "key") \in BOOLEAN
    BY <2>1 DEF Inv, TypeOK, StreamerTypeOK, Message
  <2>3. QueueInv(Offer(queue[c], run[r].frame.kind = "key", run[r].frame.seq))
    BY <1>1, <2>2, OfferInv
  <2>4. Offer(queue[c], run[r].frame.kind = "key", run[r].frame.seq).taken = queue[c].taken
    BY <1>1, <2>2, OfferTaken
  <2>5. QueueStep(queue[c], Offer(queue[c], run[r].frame.kind = "key", run[r].frame.seq))
    BY <2>3, <2>4, NothingTaken
  <2> QED BY <2>1, <2>2, <2>5, OneQueue
<1>4. ASSUME NEW c \in Viewers, Ack(c)
      PROVE  QueuesStep
  <2>1. PICK ts \in 1..got[c] : queue' = [queue EXCEPT ![c] = Acknowledge(queue[c], ts)]
    BY <1>4 DEF Ack
  <2>2. ts \in Int
    OBVIOUS
  <2>3. QueueStep(queue[c], Acknowledge(queue[c], ts))
    BY <1>1, <2>2, AcknowledgeInv, NothingTaken
  <2> QED BY <2>1, <2>3, OneQueue
<1>5. ASSUME NEW c \in Viewers, Resync(c)
      PROVE  QueuesStep
  <2>1. queue' = [queue EXCEPT ![c] = RequestResync(queue[c])]
    BY <1>5 DEF Resync
  <2>2. QueueStep(queue[c], RequestResync(queue[c]))
    BY <1>1, RequestResyncInv, NothingTaken
  <2> QED BY <2>1, <2>2, OneQueue
<1>6. ASSUME NEW c \in Viewers, CloseClient(c) \/ WriteFails(c)
      PROVE  QueuesStep
  <2>1. queue' = [queue EXCEPT ![c] = Close(queue[c])]
    BY <1>6 DEF CloseClient, WriteFails
  <2>2. QueueStep(queue[c], Close(queue[c]))
    BY <1>1, CloseInv, NothingTaken
  <2> QED BY <2>1, <2>2, OneQueue
<1>7. ASSUME NEW c \in Viewers, Pop(c)
      PROVE  QueuesStep
  <2>1. CASE CanPop(queue[c])
    <3>1. queue' = [queue EXCEPT ![c] = PopForWrite(queue[c])]
      BY <1>7, <2>1 DEF Pop
    <3>2. QueueStep(queue[c], PopForWrite(queue[c]))
      BY <1>1, <2>1, PopForWriteInv DEF QueueStep
    <3> QED BY <3>1, <3>2, OneQueue
  <2>2. CASE ~CanPop(queue[c])
    BY <1>7, <2>2, QueuesUnchanged DEF Pop
  <2> QED BY <2>1, <2>2
<1>8. ASSUME NEW c \in Viewers, Wake(c)
      PROVE  QueuesStep
  <2>1. queue' = [queue EXCEPT ![c] = [queue[c] EXCEPT !.wake = FALSE]]
    BY <1>8 DEF Wake
  <2>2. QueueStep(queue[c], [queue[c] EXCEPT !.wake = FALSE])
    BY <1>1, WakeInv, NothingTaken
  <2> QED BY <2>1, <2>2, OneQueue
<1>9. ASSUME NEW c \in Viewers,
             RemoveClient(c) \/ Write(c) \/ Ping(c) \/ WriterDone(c)
      PROVE  QueuesStep
  BY <1>9, QueuesUnchanged DEF RemoveClient, Write, Ping, WriterDone
<1>10. ASSUME NEW r \in Runs,
              \/ SendSkips(r) \/ Send(r) \/ SendOverflows(r) \/ Subscribe(r)
              \/ NextFrame(r) \/ StopIfIdle(r) \/ Unsubscribe(r)
       PROVE  QueuesStep
  BY <1>10, QueuesUnchanged
     DEF SendSkips, Send, SendOverflows, Sent, Subscribe, NextFrame, StopIfIdle, Unsubscribe
<1>11. ASSUME SourceStops \/ Drain \/ DrainClosed \/ Drained
       PROVE  QueuesStep
  BY <1>11, QueuesUnchanged DEF SourceStops, Drain, DrainClosed, Drained, Sent
<1>12. ASSUME NEW kind \in {"key", "delta", "error"}, Tick(kind)
       PROVE  QueuesStep
  BY <1>12, QueuesUnchanged DEF Tick
<1>13. CASE UNCHANGED vars
  BY <1>13, QueuesUnchanged DEF vars
<1> QED BY <1>2, <1>3, <1>4, <1>5, <1>6, <1>7, <1>8, <1>9, <1>10, <1>11, <1>12, <1>13 DEF Next

(* The source's goroutine keeps its state well typed, and never puts more  *)
(* into a channel than it holds (h264_source.go run, send).                *)
LEMMA NextSource ==
    ASSUME Inv, [Next]_vars
    PROVE  SourceTypeOK'
<1> USE DEF SourceTypeOK, sourceVars
<1>1. /\ SourceTypeOK
      /\ sub \in [Runs -> [frames : Seq(Message), waiting : BOOLEAN, open : BOOLEAN]]
      /\ ChanCap \in Nat /\ 1 <= ChanCap /\ 0 \notin Runs
  BY H264StreamAssumption DEF Inv, TypeOK, Runs
<1>2. ASSUME NEW kind \in {"key", "delta", "error"}, Tick(kind)
      PROVE  SourceTypeOK'
  <2>1. seq' \in Nat /\ ticks' \in Nat
    BY <1>1, <1>2 DEF Tick
  <2>2. frame' \in Message
    BY <1>2, <2>1 DEF Tick, Message
  <2> QED BY <1>1, <1>2, <2>1, <2>2 DEF Tick
<1>3. CASE SourceStops
  BY <1>1, <1>3 DEF SourceStops
<1>4. Idle \in Message
  BY DEF Idle, Message
<1>5. ASSUME NEW r \in Runs, Sent(r)
      PROVE  todo' \subseteq Runs /\ frame' \in Message
  BY <1>1, <1>4, <1>5 DEF Sent
<1>6. ASSUME NEW r \in Runs, SendSkips(r)
      PROVE  SourceTypeOK'
  BY <1>1, <1>5, <1>6 DEF SendSkips, Sent
<1>7. ASSUME NEW r \in Runs, Len(sub'[r].frames) <= ChanCap,
             NEW x \in [frames : Seq(Message), waiting : BOOLEAN, open : BOOLEAN],
             sub' = [sub EXCEPT ![r] = x]
      PROVE  /\ sub' \in [Runs -> [frames : Seq(Message), waiting : BOOLEAN, open : BOOLEAN]]
             /\ \A d \in Runs : Len(sub'[d].frames) <= ChanCap
  <2>1. sub' \in [Runs -> [frames : Seq(Message), waiting : BOOLEAN, open : BOOLEAN]]
    BY <1>1, <1>7
  <2>2. ASSUME NEW d \in Runs
        PROVE  Len(sub'[d].frames) <= ChanCap
    <3>1. CASE d = r
      BY <3>1, <1>7
    <3>2. CASE d # r
      <4>1. sub'[d] = sub[d]
        BY <1>1, <1>7, <3>2
      <4> QED BY <4>1, <1>1
    <3> QED BY <3>1, <3>2
  <2> QED BY <2>1, <2>2
<1>8. \A r \in Runs : /\ sub[r].frames \in Seq(Message) /\ sub[r].waiting \in BOOLEAN
                      /\ sub[r].open \in BOOLEAN /\ Len(sub[r].frames) <= ChanCap
                      /\ sub[r] \in [frames : Seq(Message), waiting : BOOLEAN, open : BOOLEAN]
  BY <1>1
<1>9. ASSUME NEW r \in Runs, Send(r)
      PROVE  SourceTypeOK'
  <2> DEFINE s == Append(sub[r].frames, frame)
  <2>1. s \in Seq(Message) /\ Len(s) <= ChanCap
    <3>1. sub[r].frames \in Seq(Message) /\ frame \in Message /\ Len(sub[r].frames) < ChanCap
      BY <1>1, <1>8, <1>9 DEF Send
    <3>2. \A t \in Seq(Message) : Len(t) < ChanCap =>
              Append(t, frame) \in Seq(Message) /\ Len(Append(t, frame)) <= ChanCap
      BY <1>1
    <3> QED BY <3>1, <3>2
  <2> DEFINE x == [sub[r] EXCEPT !.frames = s, !.waiting = FALSE]
  <2>2. sub' = [sub EXCEPT ![r] = x]
    BY <1>9 DEF Send
  <2>3. FALSE \in BOOLEAN
    OBVIOUS
  <2> HIDE DEF s
  <2>4. x \in [frames : Seq(Message), waiting : BOOLEAN, open : BOOLEAN] /\ x.frames = s
    BY <1>8, <2>1, <2>3
  <2>5. sub'[r].frames = s
    BY <1>1, <2>2, <2>4
  <2> HIDE DEF x
  <2>6. /\ sub' \in [Runs -> [frames : Seq(Message), waiting : BOOLEAN, open : BOOLEAN]]
        /\ \A d \in Runs : Len(sub'[d].frames) <= ChanCap
    BY <1>7, <2>1, <2>2, <2>4, <2>5
  <2> QED BY <1>1, <1>5, <1>9, <2>6 DEF Send, Sent
<1>10. ASSUME NEW r \in Runs, SendOverflows(r)
       PROVE  SourceTypeOK'
  <2> DEFINE x == [sub[r] EXCEPT !.waiting = FALSE]
  <2>1. sub' = [sub EXCEPT ![r] = x]
    BY <1>10 DEF SendOverflows
  <2>2. FALSE \in BOOLEAN
    OBVIOUS
  <2>3. /\ x \in [frames : Seq(Message), waiting : BOOLEAN, open : BOOLEAN]
        /\ x.frames = sub[r].frames
    BY <1>8, <2>2
  <2>4. sub'[r].frames = sub[r].frames
    BY <1>1, <2>1, <2>3
  <2> HIDE DEF x
  <2>5. /\ sub' \in [Runs -> [frames : Seq(Message), waiting : BOOLEAN, open : BOOLEAN]]
        /\ \A d \in Runs : Len(sub'[d].frames) <= ChanCap
    BY <1>7, <1>8, <2>1, <2>3, <2>4
  <2> QED BY <1>1, <1>10, <2>5 DEF SendOverflows
<1>11. ASSUME NEW r \in Runs, sub[r].frames # <<>>,
              sub' = [sub EXCEPT ![r].frames = Tail(@)]
       PROVE  /\ sub' \in [Runs -> [frames : Seq(Message), waiting : BOOLEAN, open : BOOLEAN]]
              /\ \A d \in Runs : Len(sub'[d].frames) <= ChanCap
  <2> DEFINE s == Tail(sub[r].frames)
  <2>1. s \in Seq(Message) /\ Len(s) <= ChanCap
    <3>1. \A t \in Seq(Message) : (t # <<>> /\ Len(t) <= ChanCap) =>
              Tail(t) \in Seq(Message) /\ Len(Tail(t)) <= ChanCap
      BY <1>1, HeadTailProperties
    <3> QED BY <3>1, <1>8, <1>11
  <2> DEFINE x == [sub[r] EXCEPT !.frames = s]
  <2>2. sub' = [sub EXCEPT ![r] = x]
    BY <1>11
  <2> HIDE DEF s
  <2>3. x \in [frames : Seq(Message), waiting : BOOLEAN, open : BOOLEAN] /\ x.frames = s
    BY <1>8, <2>1
  <2>4. sub'[r].frames = s
    BY <1>1, <2>2, <2>3
  <2> HIDE DEF x
  <2> QED BY <1>7, <2>1, <2>2, <2>3, <2>4
<1>12. CASE Drain
  <2>1. draining \in Runs /\ sub[draining].frames # <<>>
        /\ sub' = [sub EXCEPT ![draining].frames = Tail(@)]
    BY <1>1, <1>12 DEF Drain
  <2> QED BY <1>1, <1>11, <1>12, <2>1 DEF Drain
<1>13. CASE DrainClosed
  <2>1. draining \in Runs
    BY <1>1, <1>13 DEF DrainClosed
  <2> QED BY <1>1, <1>5, <1>13, <2>1 DEF DrainClosed, Sent
<1>14. CASE Drained
  <2> DEFINE s == IF frame.kind = "key" THEN <<frame>> ELSE <<>>
  <2>1. draining \in Runs
    BY <1>1, <1>14 DEF Drained
  <2>2. s \in Seq(Message) /\ Len(s) <= ChanCap
    <3>1. <<frame>> \in Seq(Message) /\ Len(<<frame>>) = 1
      BY <1>1
    <3>2. <<>> \in Seq(Message) /\ Len(<<>>) = 0
      OBVIOUS
    <3> QED BY <1>1, <3>1, <3>2
  <2> DEFINE x == [sub[draining] EXCEPT !.waiting = frame.kind # "key", !.frames = s]
  <2>3. sub' = [sub EXCEPT ![draining] = x]
    BY <1>14 DEF Drained
  <2>4. (frame.kind # "key") \in BOOLEAN
    OBVIOUS
  <2> HIDE DEF s
  <2>5. x \in [frames : Seq(Message), waiting : BOOLEAN, open : BOOLEAN] /\ x.frames = s
    BY <1>8, <2>1, <2>2, <2>4
  <2>6. sub'[draining].frames = s
    BY <1>1, <2>1, <2>3, <2>5
  <2> HIDE DEF x
  <2>7. /\ sub' \in [Runs -> [frames : Seq(Message), waiting : BOOLEAN, open : BOOLEAN]]
        /\ \A d \in Runs : Len(sub'[d].frames) <= ChanCap
    BY <1>7, <2>1, <2>2, <2>3, <2>5, <2>6
  <2> QED BY <1>1, <1>5, <1>14, <2>1, <2>7 DEF Drained, Sent
<1>15. ASSUME NEW r \in Runs, Subscribe(r)
       PROVE  SourceTypeOK'
  <2> DEFINE x == [sub[r] EXCEPT !.open = TRUE]
  <2>1. sub' = [sub EXCEPT ![r] = x]
    BY <1>15 DEF Subscribe
  <2>2. TRUE \in BOOLEAN
    OBVIOUS
  <2>3. /\ x \in [frames : Seq(Message), waiting : BOOLEAN, open : BOOLEAN]
        /\ x.frames = sub[r].frames
    BY <1>8, <2>2
  <2>4. sub'[r].frames = sub[r].frames
    BY <1>1, <2>1, <2>3
  <2> HIDE DEF x
  <2>5. /\ sub' \in [Runs -> [frames : Seq(Message), waiting : BOOLEAN, open : BOOLEAN]]
        /\ \A d \in Runs : Len(sub'[d].frames) <= ChanCap
    BY <1>7, <1>8, <2>1, <2>3, <2>4
  <2> QED BY <1>1, <1>15, <2>5 DEF Subscribe
<1>16. ASSUME NEW r \in Runs, NextFrame(r)
       PROVE  SourceTypeOK'
  BY <1>1, <1>11, <1>16 DEF NextFrame
<1>17. ASSUME NEW r \in Runs, Unsubscribe(r)
       PROVE  SourceTypeOK'
  <2> DEFINE x == [sub[r] EXCEPT !.open = FALSE, !.frames = <<>>]
  <2>1. sub' = [sub EXCEPT ![r] = x]
    BY <1>17 DEF Unsubscribe
  <2>2. FALSE \in BOOLEAN /\ <<>> \in Seq(Message) /\ Len(<<>>) <= ChanCap
    BY <1>1
  <2>3. x \in [frames : Seq(Message), waiting : BOOLEAN, open : BOOLEAN] /\ x.frames = <<>>
    BY <1>8, <2>2
  <2>4. sub'[r].frames = <<>>
    BY <1>1, <2>1, <2>3
  <2> HIDE DEF x
  <2>5. /\ sub' \in [Runs -> [frames : Seq(Message), waiting : BOOLEAN, open : BOOLEAN]]
        /\ \A d \in Runs : Len(sub'[d].frames) <= ChanCap
    BY <1>7, <2>1, <2>2, <2>3, <2>4
  <2> QED BY <1>1, <1>17, <2>5 DEF Unsubscribe
<1>18. ASSUME NEW r \in Runs, Broadcast(r) \/ StopIfIdle(r)
       PROVE  SourceTypeOK'
  BY <1>1, <1>18 DEF Broadcast, StopIfIdle
<1>19. ASSUME NEW c \in Viewers,
              \/ AddClient(c) \/ Ack(c) \/ Resync(c) \/ RemoveClient(c) \/ CloseClient(c)
              \/ Pop(c) \/ Write(c) \/ WriteFails(c) \/ Wake(c) \/ Ping(c) \/ WriterDone(c)
       PROVE  SourceTypeOK'
  BY <1>1, <1>19 DEF AddClient, Ack, Resync, RemoveClient, CloseClient, Pop, Write, WriteFails,
                    Wake, Ping, WriterDone
<1>20. CASE UNCHANGED vars
  BY <1>1, <1>20 DEF vars
<1> QED BY <1>2, <1>3, <1>6, <1>9, <1>10, <1>12, <1>13, <1>14, <1>15, <1>16, <1>17, <1>18,
           <1>19, <1>20 DEF Next

(* The runs of the streamer keep theirs (streamer.go).                     *)
LEMMA NextStreamer ==
    ASSUME Inv, [Next]_vars
    PROVE  StreamerTypeOK'
<1> USE DEF StreamerTypeOK, streamerVars
<1> DEFINE Run == [pc : {"none", "start", "next", "broadcast", "idle", "close", "done"},
                   frame : Message, to : SUBSET Viewers]
<1>1. /\ StreamerTypeOK /\ run \in [Runs -> Run]
      /\ \A r \in Runs : /\ run[r] \in Run
                         /\ run[r].frame \in Message /\ run[r].to \subseteq Viewers
  BY DEF Inv, TypeOK
<1>2. Idle \in Message
  BY DEF Idle, Message
<1>3. ASSUME NEW r \in Runs, NEW x \in Run, run' = [run EXCEPT ![r] = x]
      PROVE  run' \in [Runs -> Run]
  BY <1>1, <1>3
<1>4. ASSUME NEW r \in Runs, NEW pc \in {"start", "next", "idle", "close", "done"}
      PROVE  /\ [run[r] EXCEPT !.pc = pc] \in Run
             /\ At(r, pc) => run' \in [Runs -> Run]
  <2>1. [run[r] EXCEPT !.pc = pc] \in Run
    BY <1>1
  <2>2. At(r, pc) => run' = [run EXCEPT ![r] = [run[r] EXCEPT !.pc = pc]]
    BY DEF At
  <2> QED BY <1>3, <2>1, <2>2
<1>5. ASSUME NEW c \in Viewers, AddClient(c)
      PROVE  StreamerTypeOK'
  <2>1. CASE running
    BY <1>1, <1>5, <2>1 DEF AddClient
  <2>2. CASE ~running
    <3>1. runs' = runs + 1 /\ At(runs + 1, "start") /\ runs < MaxRuns
      BY <1>5, <2>2 DEF AddClient
    <3>2. runs \in Nat /\ MaxRuns \in Nat /\ runs \in 0..MaxRuns
      BY <1>1, H264StreamAssumption
    <3>3. runs + 1 \in Runs /\ runs + 1 \in 0..MaxRuns
      BY <3>1, <3>2 DEF Runs
    <3>4. run' \in [Runs -> Run]
      BY <1>4, <3>1, <3>3
    <3>5. running' \in BOOLEAN /\ clients' \subseteq Viewers
      BY <1>1, <1>5 DEF AddClient
    <3> QED BY <3>1, <3>3, <3>4, <3>5
  <2> QED BY <2>1, <2>2
<1>6. ASSUME NEW r \in Runs, Subscribe(r) \/ Unsubscribe(r)
      PROVE  StreamerTypeOK'
  <2>1. run' \in [Runs -> Run]
    BY <1>4, <1>6 DEF Subscribe, Unsubscribe
  <2> QED BY <1>1, <1>6, <2>1 DEF Subscribe, Unsubscribe
<1>7. ASSUME NEW r \in Runs, NextFrame(r)
      PROVE  StreamerTypeOK'
  <2> DEFINE f == Head(sub[r].frames)
             x == IF clients = {} THEN [run[r] EXCEPT !.pc = "idle"]
                  ELSE IF f.kind = "error" THEN run[r]
                  ELSE [pc |-> "broadcast", frame |-> f, to |-> clients]
  <2>1. run' = [run EXCEPT ![r] = x]
    BY <1>7 DEF NextFrame
  <2>2. f \in Message
    <3>1. sub[r].frames \in Seq(Message) /\ sub[r].frames # <<>>
      BY <1>7 DEF NextFrame, Inv, TypeOK, SourceTypeOK
    <3> QED BY <3>1, HeadTailProperties
  <2>3. [run[r] EXCEPT !.pc = "idle"] \in Run
    BY <1>4
  <2> HIDE DEF f
  <2>4. [pc |-> "broadcast", frame |-> f, to |-> clients] \in Run
    BY <1>1, <2>2
  <2>5. x \in Run
    BY <1>1, <2>3, <2>4
  <2> HIDE DEF x
  <2>6. run' \in [Runs -> Run]
    BY <1>3, <2>1, <2>5
  <2> QED BY <1>1, <1>7, <2>6 DEF NextFrame
<1>8. ASSUME NEW r \in Runs, Broadcast(r)
      PROVE  StreamerTypeOK'
  <2>1. PICK c \in run[r].to :
            run' = [run EXCEPT ![r] =
                IF run[r].to = {c} THEN [pc |-> "next", frame |-> Idle, to |-> {}]
                ELSE [run[r] EXCEPT !.to = run[r].to \ {c}]]
    BY <1>1, <1>8 DEF Broadcast
  <2>2. [pc |-> "next", frame |-> Idle, to |-> {}] \in Run
    BY <1>2
  <2>3. [run[r] EXCEPT !.to = run[r].to \ {c}] \in Run
    BY <1>1
  <2>4. run' \in [Runs -> Run]
    BY <1>3, <2>1, <2>2, <2>3
  <2> QED BY <1>1, <1>8, <2>4 DEF Broadcast
<1>9. ASSUME NEW r \in Runs, StopIfIdle(r)
      PROVE  StreamerTypeOK'
  <2>1. run' \in [Runs -> Run]
    BY <1>4, <1>9 DEF StopIfIdle
  <2> QED BY <1>1, <1>9, <2>1 DEF StopIfIdle
<1>10. ASSUME NEW r \in Runs, SendSkips(r) \/ Send(r) \/ SendOverflows(r)
       PROVE  StreamerTypeOK'
  BY <1>1, <1>10 DEF SendSkips, Send, SendOverflows, Sent
<1>11. ASSUME SourceStops \/ Drain \/ DrainClosed \/ Drained
       PROVE  StreamerTypeOK'
  BY <1>1, <1>11 DEF SourceStops, Drain, DrainClosed, Drained, Sent
<1>12. ASSUME NEW kind \in {"key", "delta", "error"}, Tick(kind)
       PROVE  StreamerTypeOK'
  BY <1>1, <1>12 DEF Tick
<1>13. ASSUME NEW c \in Viewers,
              \/ Ack(c) \/ Resync(c) \/ RemoveClient(c) \/ CloseClient(c) \/ Pop(c)
              \/ Write(c) \/ WriteFails(c) \/ Wake(c) \/ Ping(c) \/ WriterDone(c)
       PROVE  StreamerTypeOK'
  BY <1>1, <1>13 DEF Ack, Resync, RemoveClient, CloseClient, Pop, Write, WriteFails, Wake,
                    Ping, WriterDone
<1>14. CASE UNCHANGED vars
  BY <1>1, <1>14 DEF vars
<1> QED BY <1>5, <1>6, <1>7, <1>8, <1>9, <1>10, <1>11, <1>12, <1>13, <1>14 DEF Next

(* The readers and the writers keep theirs (h264.go, client.go).           *)
LEMMA NextViewer ==
    ASSUME Inv, [Next]_vars
    PROVE  ViewerTypeOK'
<1> USE DEF viewerVars
<1> DEFINE Writer == [pc : {"none", "loop", "write", "wait", "exited"}, frame : Message]
           ConnTypeOK == /\ conn \in [Viewers -> {"new", "open", "removed", "gone"}]
                         /\ writer \in [Viewers -> Writer]
                         /\ got \in [Viewers -> Int]
<1>1. /\ ConnTypeOK
      /\ \A c \in Viewers : writer[c] \in Writer /\ writer[c].frame \in Message
      /\ \A c \in Viewers : queue[c] \in Queue
  BY DEF Inv, TypeOK, ViewerTypeOK
<1>2. Idle \in Message /\ Never \in Int
  BY DEF Idle, Message, Never
<1>3. ASSUME NEW c \in Viewers, NEW x \in Writer, writer' = [writer EXCEPT ![c] = x]
      PROVE  writer' \in [Viewers -> Writer]
  BY <1>1, <1>3
<1>4. ASSUME NEW c \in Viewers, NEW pc \in {"loop", "wait", "exited"}
      PROVE  /\ [pc |-> pc, frame |-> Idle] \in Writer
             /\ writer' = [writer EXCEPT ![c].pc = pc] => writer' \in [Viewers -> Writer]
  <2>1. [writer[c] EXCEPT !.pc = pc] \in Writer /\ [pc |-> pc, frame |-> Idle] \in Writer
    BY <1>1, <1>2
  <2> QED BY <1>3, <2>1
<1>5. ASSUME NEW c \in Viewers, AddClient(c) \/ Wake(c) \/ Ping(c) \/ WriterDone(c)
      PROVE  ConnTypeOK'
  <2>1. writer' \in [Viewers -> Writer]
    BY <1>4, <1>5 DEF AddClient, Wake, Ping, WriterDone
  <2> QED BY <1>1, <1>5, <2>1 DEF AddClient, Wake, Ping, WriterDone
<1>6. ASSUME NEW c \in Viewers, RemoveClient(c) \/ CloseClient(c) \/ Ack(c) \/ Resync(c)
      PROVE  ConnTypeOK'
  BY <1>1, <1>2, <1>6 DEF RemoveClient, CloseClient, Ack, Resync
<1>7. ASSUME NEW c \in Viewers, Pop(c)
      PROVE  ConnTypeOK'
  <2>1. CASE CanPop(queue[c])
    <3> DEFINE f == Head(queue[c].frames)
               m == [kind |-> IF f.key THEN "key" ELSE "delta", seq |-> f.ts]
    <3>1. writer' = [writer EXCEPT ![c] = [pc |-> "write", frame |-> m]]
      BY <1>7, <2>1 DEF Pop
    <3>2. f \in Frame
      <4>1. queue[c].frames \in Seq(Frame) /\ queue[c].frames # <<>>
        BY <1>1, <2>1 DEF Queue, CanPop
      <4> QED BY <4>1, HeadTailProperties
    <3> HIDE DEF f
    <3>3. m \in Message
      BY <3>2 DEF Frame, Message
    <3> HIDE DEF m
    <3>4. [pc |-> "write", frame |-> m] \in Writer
      BY <3>3
    <3>5. writer' \in [Viewers -> Writer]
      BY <1>3, <3>1, <3>4
    <3> QED BY <1>1, <1>7, <3>5 DEF Pop
  <2>2. CASE ~CanPop(queue[c])
    <3>1. writer' \in [Viewers -> Writer]
      BY <1>4, <1>7, <2>2 DEF Pop
    <3> QED BY <1>1, <1>7, <3>1 DEF Pop
  <2> QED BY <2>1, <2>2
<1>8. ASSUME NEW c \in Viewers, Write(c)
      PROVE  ConnTypeOK'
  <2>1. writer[c].frame.seq \in Int
    BY <1>1 DEF Message
  <2>2. writer' \in [Viewers -> Writer]
    BY <1>3, <1>4, <1>8 DEF Write
  <2> QED BY <1>1, <1>8, <2>1, <2>2 DEF Write
<1>9. ASSUME NEW c \in Viewers, WriteFails(c)
      PROVE  ConnTypeOK'
  <2>1. writer' \in [Viewers -> Writer]
    BY <1>3, <1>4, <1>9 DEF WriteFails
  <2> QED BY <1>1, <1>2, <1>9, <2>1 DEF WriteFails
<1>10. ASSUME NEW r \in Runs,
              \/ SendSkips(r) \/ Send(r) \/ SendOverflows(r) \/ Subscribe(r) \/ NextFrame(r)
              \/ Broadcast(r) \/ StopIfIdle(r) \/ Unsubscribe(r)
       PROVE  ConnTypeOK'
  BY <1>1, <1>10 DEF SendSkips, Send, SendOverflows, Sent, Subscribe, NextFrame, Broadcast,
                    StopIfIdle, Unsubscribe
<1>11. ASSUME SourceStops \/ Drain \/ DrainClosed \/ Drained
       PROVE  ConnTypeOK'
  BY <1>1, <1>11 DEF SourceStops, Drain, DrainClosed, Drained, Sent
<1>12. ASSUME NEW kind \in {"key", "delta", "error"}, Tick(kind)
       PROVE  ConnTypeOK'
  BY <1>1, <1>12 DEF Tick
<1>13. ASSUME UNCHANGED vars
       PROVE  ConnTypeOK'
  BY <1>1, <1>13 DEF vars
<1> HIDE DEF ConnTypeOK
<1>14. ConnTypeOK'
  BY <1>5, <1>6, <1>7, <1>8, <1>9, <1>10, <1>11, <1>12, <1>13 DEF Next
<1>15. queue' \in [Viewers -> Queue]
  BY NextQueues DEF QueuesStep
<1> QED BY <1>14, <1>15 DEF ViewerTypeOK, ConnTypeOK

LEMMA InitInv == Init => Inv
<1> SUFFICES ASSUME Init PROVE Inv
  OBVIOUS
<1>1. Idle \in Message /\ Never \in Int
  BY DEF Idle, Message, Never
<1>2. ChanCap \in Nat /\ MaxRuns \in Nat
  BY H264StreamAssumption
<1>3. [frames |-> <<>>, waiting |-> FALSE, open |-> FALSE]
          \in [frames : Seq(Message), waiting : BOOLEAN, open : BOOLEAN]
  OBVIOUS
<1>4. SourceTypeOK
  <2>1. sub \in [Runs -> [frames : Seq(Message), waiting : BOOLEAN, open : BOOLEAN]]
    BY <1>3 DEF Init
  <2>2. \A r \in Runs : Len(sub[r].frames) <= ChanCap
    BY <1>2 DEF Init
  <2>3. srcRunning \in BOOLEAN /\ seq \in Nat /\ ticks \in Nat
    BY DEF Init
  <2> QED BY <1>1, <2>1, <2>2, <2>3 DEF Init, SourceTypeOK
<1>5. StreamerTypeOK
  <2>1. [pc |-> "none", frame |-> Idle, to |-> {}]
            \in [pc : {"none", "start", "next", "broadcast", "idle", "close", "done"},
                 frame : Message, to : SUBSET Viewers]
    BY <1>1
  <2>2. runs \in 0..MaxRuns
    BY <1>2 DEF Init
  <2> QED BY <2>1, <2>2 DEF Init, StreamerTypeOK
<1>6. New \in Queue /\ QueueInv(New)
  BY NewInv DEF QueueInv
<1>7. ViewerTypeOK
  BY <1>1, <1>6 DEF Init, ViewerTypeOK
<1>8. QueuesInv
  BY <1>6 DEF Init, QueuesInv
<1> QED BY <1>4, <1>5, <1>7, <1>8 DEF Inv, TypeOK

(* The invariant is inductive.                                             *)
LEMMA NextInv == Inv /\ [Next]_vars => Inv'
<1> SUFFICES ASSUME Inv, [Next]_vars PROVE Inv'
  OBVIOUS
<1>1. TypeOK'
  BY NextSource, NextStreamer, NextViewer DEF TypeOK
<1>2. QueuesInv'
  BY NextQueues DEF QueuesStep, QueueStep, QueuesInv
<1> QED BY <1>1, <1>2 DEF Inv

(* The source, the streamer's runs and the viewers' connections stay well  *)
(* typed, and no channel overfills (h264_source.go, streamer.go,           *)
(* client.go).                                                             *)
THEOREM StreamTypeCorrect == Spec => []TypeOK
<1>1. Inv => TypeOK
  BY DEF Inv
<1> QED BY <1>1, InitInv, NextInv, PTL DEF Spec

(* No flow-controlled viewer is ever owed more than its window, whatever   *)
(* the order of broadcasts, writes, acknowledgements and resyncs           *)
(* (queue.go).                                                             *)
THEOREM FlowWindowKept == Spec => []WindowRespected
<1>1. Inv => WindowRespected
  BY DEF Inv, QueuesInv, QueueInv, WindowRespected
<1> QED BY <1>1, InitInv, NextInv, PTL DEF Spec

(* Every writer takes a keyframe, or the frame offered right after the one *)
(* it took before (queue.go offer, PopForWrite).                           *)
THEOREM WritersTakeDecodable == Spec => TakesDecodable
<1>1. Inv /\ [Next]_vars =>
          [\A c \in Viewers : queue'[c].taken \notin {queue[c].taken, Never} =>
               LET f == Head(queue[c].frames) IN f.key \/ f.after = queue[c].taken]_vars
  BY NextQueues DEF QueuesStep, QueueStep
<1> QED BY <1>1, InitInv, NextInv, PTL DEF Spec, TakesDecodable

-----------------------------------------------------------------------------
(* Who serves the viewers.                                                 *)

Live == {"start", "next", "broadcast", "idle"}

(* The run started last is the one that broadcasts, if any does, and it    *)
(* does as long as there are clients.                                      *)
RunsKnown ==
    /\ \A r \in Runs : run[r].pc \in Live <=> (running /\ r = runs)
    /\ \A r \in Runs : r > runs => run[r].pc = "none"
    /\ running => runs \in Runs
    /\ clients # {} => running

(* A run subscribes once, before its first frame, and closes its           *)
(* subscription at its end; the source runs for every open subscription.   *)
SubsKnown ==
    \A r \in Runs :
        /\ sub[r].open <=> run[r].pc \in {"next", "broadcast", "idle", "close"}
        /\ sub[r].open => srcRunning
        /\ ~sub[r].open => sub[r].frames = <<>>
        /\ run[r].to # {} => run[r].pc = "broadcast"

(* The frame being sent is the latest, and the channel being emptied is    *)
(* one it has still to be sent to.                                         *)
SourceKnown ==
    /\ todo # {} => frame.seq = seq
    /\ draining # 0 => draining \in todo

ServedInv == RunsKnown /\ SubsKnown /\ SourceKnown

LEMMA InitServed == Init => ServedInv
BY DEF Init, ServedInv, RunsKnown, SubsKnown, SourceKnown, Live, Idle

LEMMA ServedTyped ==
    ASSUME Inv
    PROVE  /\ sub \in [Runs -> [frames : Seq(Message), waiting : BOOLEAN, open : BOOLEAN]]
           /\ run \in [Runs -> [pc : {"none", "start", "next", "broadcast", "idle", "close",
                                      "done"},
                                frame : Message, to : SUBSET Viewers]]
           /\ running \in BOOLEAN /\ runs \in 0..MaxRuns /\ MaxRuns \in Nat
           /\ todo \subseteq Runs /\ draining \in {0} \cup Runs /\ 0 \notin Runs
           /\ srcRunning \in BOOLEAN /\ clients \subseteq Viewers
BY H264StreamAssumption DEF Inv, TypeOK, SourceTypeOK, StreamerTypeOK, Runs

(* The runs and the clients (streamer.go addClient, removeClient, run,     *)
(* stopIfIdle).                                                            *)
LEMMA NextRuns ==
    ASSUME Inv, ServedInv, [Next]_vars
    PROVE  RunsKnown'
<1> USE DEF ServedInv, RunsKnown, Live
<1>1. /\ run \in [Runs -> [pc : {"none", "start", "next", "broadcast", "idle", "close", "done"},
                           frame : Message, to : SUBSET Viewers]]
      /\ running \in BOOLEAN /\ runs \in 0..MaxRuns /\ MaxRuns \in Nat
  BY ServedTyped
<1>2. ASSUME NEW r \in Runs,
             Subscribe(r) \/ NextFrame(r) \/ Broadcast(r) \/ StopIfIdle(r) \/ Unsubscribe(r)
      PROVE  RunsKnown'
  BY <1>1, <1>2 DEF Subscribe, NextFrame, Broadcast, StopIfIdle, Unsubscribe, At, streamerVars
<1>3. ASSUME NEW c \in Viewers, AddClient(c)
      PROVE  RunsKnown'
  <2>1. CASE running
    BY <1>1, <1>3, <2>1 DEF AddClient
  <2>2. CASE ~running
    <3>1. /\ runs' = runs + 1 /\ runs + 1 \in Runs /\ running' = TRUE
          /\ run' = [run EXCEPT ![runs + 1].pc = "start"]
      BY <1>1, <1>3, <2>2 DEF AddClient, At, Runs
    <3>2. \A r \in Runs : r > runs + 1 => r > runs /\ r # runs + 1
      BY <1>1 DEF Runs
    <3> QED BY <1>1, <2>2, <3>1, <3>2
  <2> QED BY <2>1, <2>2
<1>4. ASSUME NEW c \in Viewers,
             \/ Ack(c) \/ Resync(c) \/ RemoveClient(c) \/ CloseClient(c) \/ Pop(c)
             \/ Write(c) \/ WriteFails(c) \/ Wake(c) \/ Ping(c) \/ WriterDone(c)
      PROVE  RunsKnown'
  BY <1>4 DEF Ack, Resync, RemoveClient, CloseClient, Pop, Write, WriteFails, Wake, Ping,
              WriterDone, streamerVars
<1>5. ASSUME NEW r \in Runs, SendSkips(r) \/ Send(r) \/ SendOverflows(r)
      PROVE  RunsKnown'
  BY <1>5 DEF SendSkips, Send, SendOverflows, Sent, streamerVars
<1>6. ASSUME SourceStops \/ Drain \/ DrainClosed \/ Drained
      PROVE  RunsKnown'
  BY <1>6 DEF SourceStops, Drain, DrainClosed, Drained, Sent, streamerVars
<1>7. ASSUME NEW kind \in {"key", "delta", "error"}, Tick(kind)
      PROVE  RunsKnown'
  BY <1>7 DEF Tick, streamerVars
<1>8. CASE UNCHANGED vars
  BY <1>8 DEF vars, streamerVars
<1> QED BY <1>2, <1>3, <1>4, <1>5, <1>6, <1>7, <1>8 DEF Next

(* The subscriptions and the source (h264_source.go subscribe, Close, run).*)
LEMMA NextSubs ==
    ASSUME Inv, ServedInv, [Next]_vars
    PROVE  SubsKnown' /\ SourceKnown'
<1> USE DEF ServedInv, SubsKnown, SourceKnown
<1>1. /\ run \in [Runs -> [pc : {"none", "start", "next", "broadcast", "idle", "close", "done"},
                           frame : Message, to : SUBSET Viewers]]
      /\ sub \in [Runs -> [frames : Seq(Message), waiting : BOOLEAN, open : BOOLEAN]]
      /\ todo \subseteq Runs /\ draining \in {0} \cup Runs /\ 0 \notin Runs
      /\ srcRunning \in BOOLEAN
  BY ServedTyped
<1>2. ASSUME NEW r \in Runs, Subscribe(r) \/ StopIfIdle(r) \/ Unsubscribe(r)
      PROVE  SubsKnown' /\ SourceKnown'
  <2>1. CASE Subscribe(r)
    <3> DEFINE x == [sub[r] EXCEPT !.open = TRUE]
    <3>1. sub[r] \in [frames : Seq(Message), waiting : BOOLEAN, open : BOOLEAN]
      BY <1>1
    <3>2. x.open = TRUE /\ x.frames = sub[r].frames /\ sub' = [sub EXCEPT ![r] = x]
      BY <2>1, <3>1 DEF Subscribe
    <3> HIDE DEF x
    <3> QED BY <1>1, <2>1, <3>2 DEF Subscribe, At
  <2>2. CASE StopIfIdle(r)
    <3>1. PICK l \in {"next", "close"} : run' = [run EXCEPT ![r].pc = l]
      BY <2>2 DEF StopIfIdle, At
    <3>2. /\ run'[r].pc = l /\ run'[r].to = run[r].to
          /\ \A d \in Runs \ {r} : run'[d] = run[d]
      BY <1>1, <3>1
    <3>3. run[r].pc = "idle" /\ UNCHANGED <<sourceVars, sub>>
      BY <2>2 DEF StopIfIdle
    <3> QED BY <3>1, <3>2, <3>3 DEF sourceVars
  <2>3. CASE Unsubscribe(r)
    <3> DEFINE x == [sub[r] EXCEPT !.open = FALSE, !.frames = <<>>]
    <3>1. sub[r] \in [frames : Seq(Message), waiting : BOOLEAN, open : BOOLEAN]
      BY <1>1
    <3>2. x.open = FALSE /\ x.frames = <<>> /\ sub' = [sub EXCEPT ![r] = x]
      BY <2>3, <3>1 DEF Unsubscribe
    <3> HIDE DEF x
    <3> QED BY <1>1, <2>3, <3>2 DEF Unsubscribe, At, sourceVars
  <2> QED BY <1>2, <2>1, <2>2, <2>3
<1>3. ASSUME NEW r \in Runs, NextFrame(r)
      PROVE  SubsKnown' /\ SourceKnown'
  BY <1>1, <1>3 DEF NextFrame, sourceVars
<1>4. ASSUME NEW r \in Runs, Broadcast(r)
      PROVE  SubsKnown' /\ SourceKnown'
  BY <1>1, <1>4 DEF Broadcast, sourceVars
<1>5. ASSUME NEW c \in Viewers, AddClient(c)
      PROVE  SubsKnown' /\ SourceKnown'
  <2>1. CASE running
    BY <1>5, <2>1 DEF AddClient, sourceVars
  <2>2. CASE ~running
    <3>1. /\ runs + 1 \in Runs /\ run[runs + 1].pc = "none"
          /\ run' = [run EXCEPT ![runs + 1].pc = "start"]
      <4>1. runs \in 0..MaxRuns /\ MaxRuns \in Nat
        BY ServedTyped
      <4> QED BY <1>5, <2>2, <4>1 DEF AddClient, At, RunsKnown, Runs
    <3> QED BY <1>1, <1>5, <3>1 DEF AddClient, sourceVars
  <2> QED BY <2>1, <2>2
<1>6. ASSUME NEW c \in Viewers,
             \/ Ack(c) \/ Resync(c) \/ RemoveClient(c) \/ CloseClient(c) \/ Pop(c)
             \/ Write(c) \/ WriteFails(c) \/ Wake(c) \/ Ping(c) \/ WriterDone(c)
      PROVE  SubsKnown' /\ SourceKnown'
  BY <1>6 DEF Ack, Resync, RemoveClient, CloseClient, Pop, Write, WriteFails, Wake, Ping,
              WriterDone, sourceVars
<1>7. ASSUME NEW r \in Runs, SendSkips(r) \/ Send(r) \/ SendOverflows(r)
      PROVE  SubsKnown' /\ SourceKnown'
  <2> DEFINE x == [sub[r] EXCEPT !.frames = Append(sub[r].frames, frame), !.waiting = FALSE]
             y == [sub[r] EXCEPT !.waiting = FALSE]
  <2>1. sub[r] \in [frames : Seq(Message), waiting : BOOLEAN, open : BOOLEAN]
    BY <1>1
  <2>2. x.open = sub[r].open /\ y.open = sub[r].open /\ y.frames = sub[r].frames
    BY <2>1
  <2>3. Send(r) => sub' = [sub EXCEPT ![r] = x] /\ sub[r].open /\ Sent(r) /\ UNCHANGED draining
    BY DEF Send, Wanted
  <2>4. SendOverflows(r) => sub' = [sub EXCEPT ![r] = y]
    BY DEF SendOverflows
  <2> HIDE DEF x, y
  <2>5. SourceKnown'
    BY <1>1, <1>7 DEF SendSkips, Send, SendOverflows, Sent
  <2>6. CASE SendSkips(r)
    BY <2>5, <2>6 DEF SendSkips, Sent
  <2>7. CASE Send(r)
    BY <1>1, <2>2, <2>3, <2>5, <2>7 DEF Sent
  <2>8. CASE SendOverflows(r)
    BY <1>1, <2>2, <2>4, <2>5, <2>8 DEF SendOverflows
  <2> QED BY <1>7, <2>6, <2>7, <2>8
<1>8. CASE Drain
  <2>1. draining \in Runs
    BY <1>1, <1>8 DEF Drain
  <2> QED BY <1>1, <1>8, <2>1 DEF Drain, sourceVars
<1>9. CASE DrainClosed \/ Drained
  <2> DEFINE x == [sub[draining] EXCEPT
                      !.waiting = frame.kind # "key",
                      !.frames = IF frame.kind = "key" THEN <<frame>> ELSE <<>>]
  <2>1. draining \in Runs
    BY <1>1, <1>9 DEF DrainClosed, Drained
  <2>2. sub[draining] \in [frames : Seq(Message), waiting : BOOLEAN, open : BOOLEAN]
    BY <1>1, <2>1
  <2>3. x.open = sub[draining].open
    BY <2>2
  <2>4. Drained => sub[draining].open /\ sub' = [sub EXCEPT ![draining] = x]
    BY DEF Drained
  <2> HIDE DEF x
  <2>5. SourceKnown'
    BY <1>1, <1>9, <2>1 DEF DrainClosed, Drained, Sent
  <2>6. CASE DrainClosed
    BY <2>5, <2>6 DEF DrainClosed, Sent
  <2>7. CASE Drained
    BY <1>1, <2>1, <2>3, <2>4, <2>5, <2>7 DEF Drained, Sent
  <2> QED BY <1>9, <2>6, <2>7
<1>10. CASE SourceStops
  BY <1>10 DEF SourceStops
<1>11. ASSUME NEW kind \in {"key", "delta", "error"}, Tick(kind)
       PROVE  SubsKnown' /\ SourceKnown'
  BY <1>1, <1>11 DEF Tick
<1>12. CASE UNCHANGED vars
  BY <1>12 DEF vars, sourceVars
<1> QED BY <1>2, <1>3, <1>4, <1>5, <1>6, <1>7, <1>8, <1>9, <1>10, <1>11, <1>12 DEF Next

LEMMA NextServed == Inv /\ ServedInv /\ [Next]_vars => ServedInv'
BY NextRuns, NextSubs DEF ServedInv

(* While anybody watches, one run broadcasts and the source runs, however  *)
(* arrivals, departures and stopIfIdle interleave (streamer.go,            *)
(* h264_source.go).                                                        *)
THEOREM ViewersServedTheorem == Spec => []ViewersServed
<1>1. Inv /\ ServedInv => ViewersServed
  <2> SUFFICES ASSUME Inv, ServedInv PROVE ViewersServed
    OBVIOUS
  <2>1. Broadcasting = IF running THEN {runs} ELSE {}
    BY DEF ServedInv, RunsKnown, Broadcasting, Live
  <2>2. Cardinality(Broadcasting) = IF running THEN 1 ELSE 0
    BY <2>1, FS_Singleton, FS_EmptySet
  <2> QED BY <2>2 DEF ServedInv, RunsKnown, SubsKnown, ViewersServed
<1> QED BY <1>1, InitInv, NextInv, InitServed, NextServed, PTL DEF Spec

-----------------------------------------------------------------------------
(* In which order the timestamps travel: what a viewer was offered is      *)
(* older than what its run broadcasts, that than what the channel holds,   *)
(* and that than the frame being sent.  An error carries the timestamp of  *)
(* the frame before it and reaches no viewer.                              *)

ChanOrder(s, x) ==
    /\ \A i \in 1..Len(s) : 0 <= s[i].seq /\ s[i].seq <= x
    /\ \A i, j \in 1..Len(s) : (i < j /\ s[j].kind # "error") => s[i].seq < s[j].seq
Below(s, x) == \A i \in 1..Len(s) : s[i].seq < x
Behind(y, s) == \A i \in 1..Len(s) : s[i].kind # "error" => y < s[i].seq

(* A frame is still to be sent to subscription r.                          *)
Due(r) == r \in todo /\ frame.kind # "error"

ChanInv(r) == ChanOrder(sub[r].frames, seq) /\ (Due(r) => Below(sub[r].frames, seq))

(* Timestamp y is older than everything run r has still to broadcast.      *)
Older(y, r) == y <= seq /\ Behind(y, sub[r].frames) /\ (Due(r) => y < seq)

ChansInv == \A r \in Runs : ChanInv(r)
RunsInv == \A r \in Runs : run[r].pc = "broadcast" => Older(run[r].frame.seq, r)

ViewersInv ==
    /\ \A c \in Viewers : conn[c] = "new" => queue[c].seen = Never
    /\ \A c \in clients : conn[c] = "open"
    /\ \A c \in clients : queue[c].closed \/ Older(queue[c].seen, runs)
    /\ \A c \in clients : run[runs].pc = "start" => queue[c].closed \/ queue[c].seen = Never
    /\ \A r \in Runs : \A c \in run[r].to :
           conn[c] # "new" /\ (queue[c].closed \/ queue[c].seen < run[r].frame.seq)

QueuesKept == \A c \in Viewers : KeptInv(queue[c])
WritersTold == \A c \in Viewers : writer[c].pc = "wait" => Signalled(queue[c])

OrderInv == ChansInv /\ RunsInv /\ ViewersInv /\ QueuesKept /\ WritersTold

(* What the order of a channel makes of sending and receiving.             *)
LEMMA ChanFacts ==
    ASSUME NEW s \in Seq(Message), NEW x \in Nat
    PROVE  /\ ChanOrder(<<>>, x) /\ Below(<<>>, x) /\ \A y : Behind(y, <<>>)
           /\ ChanOrder(s, x) =>
                  ChanOrder(s, x + 1) /\ Below(s, x + 1) /\ Behind(Never, s)
           /\ \A m \in Message : m.seq = x =>
                /\ ChanOrder(<<m>>, x)
                /\ \A y \in Int : (m.kind # "error" => y < x) => Behind(y, <<m>>)
                /\ (ChanOrder(s, x) /\ (m.kind # "error" => Below(s, x))) =>
                       ChanOrder(Append(s, m), x)
                /\ \A y \in Int : (Behind(y, s) /\ (m.kind # "error" => y < x)) =>
                       Behind(y, Append(s, m))
           /\ s # <<>> =>
                /\ Head(s) \in Message
                /\ ChanOrder(s, x) => /\ ChanOrder(Tail(s), x) /\ Head(s).seq <= x
                                      /\ Behind(Head(s).seq, Tail(s))
                /\ Below(s, x) => Below(Tail(s), x) /\ Head(s).seq < x
                /\ \A y : Behind(y, s) =>
                       Behind(y, Tail(s)) /\ (Head(s).kind # "error" => y < Head(s).seq)
<1>1. /\ Len(s) \in Nat /\ (s # <<>> => Len(s) # 0)
      /\ \A i \in 1..Len(s) : s[i] \in Message /\ s[i].seq \in Int
  <2>1. \A m \in Message : m.seq \in Int
    BY DEF Message
  <2> QED BY <2>1, EmptySeq
<1>2. ChanOrder(<<>>, x) /\ Below(<<>>, x) /\ \A y : Behind(y, <<>>)
  BY DEF ChanOrder, Below, Behind
<1>3. ChanOrder(s, x) => ChanOrder(s, x + 1) /\ Below(s, x + 1) /\ Behind(Never, s)
  BY <1>1 DEF ChanOrder, Below, Behind, Never
<1>4. ASSUME NEW m \in Message, m.seq = x
      PROVE  /\ ChanOrder(<<m>>, x)
             /\ \A y \in Int : (m.kind # "error" => y < x) => Behind(y, <<m>>)
  <2>1. Len(<<m>>) = 1 /\ \A i \in 1..1 : i = 1 /\ <<m>>[i] = m
    OBVIOUS
  <2> QED BY <1>4, <2>1 DEF ChanOrder, Behind
<1>5. ASSUME NEW m \in Message, m.seq = x
      PROVE  /\ (ChanOrder(s, x) /\ (m.kind # "error" => Below(s, x))) =>
                    ChanOrder(Append(s, m), x)
             /\ \A y \in Int : (Behind(y, s) /\ (m.kind # "error" => y < x)) =>
                    Behind(y, Append(s, m))
  <2> DEFINE p == Append(s, m)
  <2>1. Len(p) = Len(s) + 1 /\ (\A i \in 1..Len(s) : p[i] = s[i]) /\ p[Len(s) + 1] = m
    BY AppendProperties
  <2> HIDE DEF p
  <2>2. \A i \in 1..Len(p) : (i \in 1..Len(s) /\ p[i] = s[i]) \/ (i = Len(s) + 1 /\ p[i] = m)
    BY <1>1, <2>1
  <2>3. ASSUME ChanOrder(s, x), m.kind # "error" => Below(s, x)
        PROVE  ChanOrder(p, x)
    <3>1. \A i \in 1..Len(p) : 0 <= p[i].seq /\ p[i].seq <= x
      BY <1>5, <2>2, <2>3 DEF ChanOrder
    <3>2. ASSUME NEW i \in 1..Len(p), NEW j \in 1..Len(p), i < j, p[j].kind # "error"
          PROVE  p[i].seq < p[j].seq
      <4>1. i \in 1..Len(s) /\ p[i] = s[i]
        BY <1>1, <2>1, <2>2, <3>2
      <4>2. CASE j \in 1..Len(s)
        BY <2>1, <2>3, <3>2, <4>1, <4>2 DEF ChanOrder
      <4>3. CASE p[j] = m
        BY <1>5, <2>3, <3>2, <4>1, <4>3 DEF Below
      <4> QED BY <2>2, <4>2, <4>3
    <3> QED BY <3>1, <3>2 DEF ChanOrder
  <2>4. ASSUME NEW y \in Int, Behind(y, s), m.kind # "error" => y < x
        PROVE  Behind(y, p)
    BY <1>5, <2>2, <2>4 DEF Behind
  <2> QED BY <2>3, <2>4 DEF p
<1>6. ASSUME s # <<>>
      PROVE  /\ Head(s) \in Message
             /\ ChanOrder(s, x) => /\ ChanOrder(Tail(s), x) /\ Head(s).seq <= x
                                   /\ Behind(Head(s).seq, Tail(s))
             /\ Below(s, x) => Below(Tail(s), x) /\ Head(s).seq < x
             /\ \A y : Behind(y, s) =>
                    Behind(y, Tail(s)) /\ (Head(s).kind # "error" => y < Head(s).seq)
  <2> DEFINE p == Tail(s)
  <2>1. /\ Head(s) = s[1] /\ 1 \in 1..Len(s)
        /\ Len(p) = Len(s) - 1
        /\ \A i \in 1..Len(p) : p[i] = s[i + 1] /\ i + 1 \in 1..Len(s) /\ 1 < i + 1
    BY <1>1, <1>6, HeadTailProperties
  <2> HIDE DEF p
  <2>2. ASSUME ChanOrder(s, x)
        PROVE  ChanOrder(p, x) /\ s[1].seq <= x /\ Behind(s[1].seq, p)
    <3>1. ASSUME NEW i \in 1..Len(p), NEW j \in 1..Len(p), i < j, p[j].kind # "error"
          PROVE  p[i].seq < p[j].seq
      <4>1. /\ i + 1 \in 1..Len(s) /\ j + 1 \in 1..Len(s) /\ i + 1 < j + 1
            /\ p[i] = s[i + 1] /\ p[j] = s[j + 1]
        BY <2>1, <3>1
      <4> QED BY <2>2, <3>1, <4>1 DEF ChanOrder
    <3>2. (\A i \in 1..Len(p) : 0 <= p[i].seq /\ p[i].seq <= x) /\ s[1].seq <= x
      BY <2>1, <2>2 DEF ChanOrder
    <3>3. Behind(s[1].seq, p)
      BY <2>1, <2>2 DEF ChanOrder, Behind
    <3> QED BY <3>1, <3>2, <3>3 DEF ChanOrder
  <2>3. Below(s, x) => Below(p, x) /\ s[1].seq < x
    BY <2>1 DEF Below
  <2>4. \A y : Behind(y, s) => Behind(y, p) /\ (s[1].kind # "error" => y < s[1].seq)
    BY <2>1 DEF Behind
  <2>5. s[1] \in Message
    BY <1>1, <2>1
  <2> QED BY <2>1, <2>2, <2>3, <2>4, <2>5 DEF p
<1> QED BY <1>2, <1>3, <1>4, <1>5, <1>6

(* Run r's channel stays in order, and what was older than everything the  *)
(* run had to broadcast still is; what was never offered always is.        *)
Carries(r) ==
    /\ ChanInv(r)'
    /\ \A y \in Int : (Older(y, r) /\ (sub[r].open \/ y = Never)) => Older(y, r)'

LEMMA OrderTyped ==
    ASSUME Inv
    PROVE  /\ seq \in Nat /\ frame \in Message /\ Never \in Int
           /\ \A r \in Runs : sub[r].frames \in Seq(Message)
BY DEF Inv, TypeOK, SourceTypeOK, Never

(* A step that sends nothing to r, and receives at most one frame.         *)
LEMMA KeepsOrder ==
    ASSUME Inv, ChansInv, NEW r \in Runs, seq' = seq, Due(r)' => Due(r),
           \/ sub'[r].frames = sub[r].frames
           \/ sub[r].frames # <<>> /\ sub'[r].frames = Tail(sub[r].frames)
           \/ sub'[r].frames = <<>>
    PROVE  Carries(r)
<1>1. seq \in Nat /\ sub[r].frames \in Seq(Message)
  BY OrderTyped
<1>2. ChanOrder(sub[r].frames, seq) /\ (Due(r) => Below(sub[r].frames, seq))
  BY DEF ChansInv, ChanInv
<1>3. ChanOrder(sub'[r].frames, seq) /\ (Due(r) => Below(sub'[r].frames, seq))
  BY <1>1, <1>2, ChanFacts
<1>4. \A y \in Int : Behind(y, sub[r].frames) => Behind(y, sub'[r].frames)
  BY <1>1, ChanFacts
<1>5. ChanInv(r)'
  BY <1>3 DEF ChanInv
<1>6. \A y \in Int : Older(y, r) => Older(y, r)'
  BY <1>4 DEF Older
<1> QED BY <1>5, <1>6 DEF Carries

(* A step that sends the frame to r.                                       *)
LEMMA SendsInOrder ==
    ASSUME Inv, ChansInv, NEW r \in Runs, r \in todo, frame.seq = seq, seq' = seq, ~Due(r)',
           sub'[r].frames = Append(sub[r].frames, frame) \/ sub'[r].frames = <<frame>>
    PROVE  Carries(r)
<1>1. seq \in Nat /\ sub[r].frames \in Seq(Message) /\ frame \in Message
  BY OrderTyped
<1>2. ChanOrder(sub[r].frames, seq) /\ (frame.kind # "error" => Below(sub[r].frames, seq))
  BY DEF ChansInv, ChanInv, Due
<1>3. ChanOrder(sub'[r].frames, seq)
  <2>1. ChanOrder(Append(sub[r].frames, frame), seq) /\ ChanOrder(<<frame>>, seq)
    BY <1>1, <1>2, ChanFacts
  <2> QED BY <2>1
<1>4. ASSUME NEW y \in Int, Older(y, r)
      PROVE  Older(y, r)'
  <2>1. y <= seq /\ Behind(y, sub[r].frames) /\ (frame.kind # "error" => y < seq)
    BY <1>4 DEF Older, Due
  <2>2. Behind(y, Append(sub[r].frames, frame)) /\ Behind(y, <<frame>>)
    BY <1>1, <2>1, ChanFacts
  <2>3. Behind(y, sub'[r].frames)
    BY <2>2
  <2> QED BY <2>1, <2>3 DEF Older
<1>5. ChanInv(r)'
  BY <1>3 DEF ChanInv
<1> QED BY <1>4, <1>5 DEF Carries

(* Every step of the source and of the runs carries the order on.          *)
LEMMA NextCarries ==
    ASSUME Inv, ServedInv, ChansInv, [Next]_vars
    PROVE  \A d \in Runs : Carries(d)
<1>1. /\ sub \in [Runs -> [frames : Seq(Message), waiting : BOOLEAN, open : BOOLEAN]]
      /\ todo \subseteq Runs /\ draining \in {0} \cup Runs /\ 0 \notin Runs
      /\ seq \in Nat /\ frame \in Message
  BY ServedTyped, OrderTyped
<1>2. ASSUME NEW d \in Runs, UNCHANGED <<sourceVars, sub>>
      PROVE  Carries(d)
  BY <1>2, KeepsOrder DEF sourceVars, Due
<1>3. ASSUME NEW kind \in {"key", "delta", "error"}, Tick(kind), NEW d \in Runs
      PROVE  Carries(d)
  <2>1. sub' = sub /\ ~Due(d)
    BY <1>3 DEF Tick, Due
  <2>2. CASE kind = "error"
    <3>1. seq' = seq /\ ~Due(d)'
      BY <1>3, <2>2 DEF Tick, Due
    <3> QED BY <2>1, <3>1, KeepsOrder
  <2>3. CASE kind # "error"
    <3>1. seq' = seq + 1
      BY <1>3, <2>3 DEF Tick
    <3>2. ChanOrder(sub[d].frames, seq + 1) /\ Below(sub[d].frames, seq + 1)
      BY <1>1, ChanFacts DEF ChansInv, ChanInv
    <3>3. \A y \in Int : y <= seq => y <= seq + 1 /\ y < seq + 1
      BY <1>1
    <3> QED BY <2>1, <3>1, <3>2, <3>3 DEF Carries, ChanInv, Older
  <2> QED BY <2>2, <2>3
<1>4. ASSUME SourceStops, NEW d \in Runs
      PROVE  Carries(d)
  <2>1. sub' = sub /\ seq' = 0 /\ ~Due(d)' /\ ~sub[d].open /\ sub[d].frames = <<>>
    BY <1>4 DEF SourceStops, Due, ServedInv, SubsKnown
  <2>2. ChanOrder(<<>>, 0) /\ Behind(Never, <<>>) /\ Never <= 0
    BY DEF ChanOrder, Behind, Never
  <2> QED BY <2>1, <2>2 DEF Carries, ChanInv, Older
<1>5. ASSUME NEW r \in Runs, Sent(r), NEW d \in Runs
      PROVE  /\ seq' = seq /\ (Due(d)' => Due(d)) /\ ~Due(r)'
  BY <1>5 DEF Sent, Due
<1>6. ASSUME NEW r \in Runs, SendSkips(r), NEW d \in Runs
      PROVE  Carries(d)
  BY <1>5, <1>6, KeepsOrder DEF SendSkips
<1>7. ASSUME NEW r \in Runs, NEW x, sub' = [sub EXCEPT ![r] = x]
      PROVE  sub'[r] = x /\ \A d \in Runs \ {r} : sub'[d] = sub[d]
  BY <1>1, <1>7
<1>8. ASSUME NEW r \in Runs, Send(r), NEW d \in Runs
      PROVE  Carries(d)
  <2> DEFINE x == [sub[r] EXCEPT !.frames = Append(sub[r].frames, frame), !.waiting = FALSE]
  <2>1. x.frames = Append(sub[r].frames, frame)
    BY <1>1
  <2>2. sub' = [sub EXCEPT ![r] = x] /\ Sent(r) /\ r \in todo
    BY <1>8 DEF Send
  <2> HIDE DEF x
  <2>3. CASE d = r
    <3>1. frame.seq = seq /\ sub'[r].frames = Append(sub[r].frames, frame)
      BY <1>7, <2>1, <2>2 DEF ServedInv, SourceKnown
    <3> QED BY <1>5, <2>2, <2>3, <3>1, SendsInOrder
  <2>4. CASE d # r
    <3>1. sub'[d] = sub[d]
      BY <1>7, <2>2, <2>4
    <3> QED BY <1>5, <2>2, <3>1, KeepsOrder
  <2> QED BY <2>3, <2>4
<1>9. ASSUME NEW r \in Runs, SendOverflows(r), NEW d \in Runs
      PROVE  Carries(d)
  <2>1. sub'[d].frames = sub[d].frames /\ seq' = seq /\ (Due(d)' => Due(d))
    BY <1>1, <1>9 DEF SendOverflows, Due
  <2> QED BY <2>1, KeepsOrder
<1>10. ASSUME Drain, NEW d \in Runs
       PROVE  Carries(d)
  <2>1. draining \in Runs
    BY <1>1, <1>10 DEF Drain
  <2>2. seq' = seq /\ (Due(d)' => Due(d))
    BY <1>10 DEF Drain, sourceVars, Due
  <2>3. \/ sub'[d].frames = sub[d].frames
        \/ sub[d].frames # <<>> /\ sub'[d].frames = Tail(sub[d].frames)
    BY <1>1, <1>10, <2>1 DEF Drain
  <2> QED BY <2>2, <2>3, KeepsOrder
<1>11. ASSUME DrainClosed, NEW d \in Runs
       PROVE  Carries(d)
  <2>1. draining \in Runs /\ sub' = sub /\ Sent(draining)
    BY <1>1, <1>11 DEF DrainClosed
  <2> QED BY <1>5, <2>1, KeepsOrder
<1>12. ASSUME Drained, NEW d \in Runs
       PROVE  Carries(d)
  <2> DEFINE s == IF frame.kind = "key" THEN <<frame>> ELSE <<>>
             x == [sub[draining] EXCEPT !.waiting = frame.kind # "key", !.frames = s]
  <2>1. draining \in Runs /\ Sent(draining) /\ draining \in todo
    BY <1>1, <1>12 DEF Drained, ServedInv, SourceKnown
  <2>2. x.frames = s
    BY <1>1, <2>1
  <2>3. sub' = [sub EXCEPT ![draining] = x]
    BY <1>12 DEF Drained
  <2> HIDE DEF x
  <2>4. CASE d = draining
    <3>1. frame.seq = seq /\ sub'[d].frames = s
      BY <1>7, <2>1, <2>2, <2>3, <2>4 DEF ServedInv, SourceKnown
    <3>2. s = <<frame>> \/ s = <<>>
      OBVIOUS
    <3> HIDE DEF s
    <3> QED BY <1>5, <2>1, <2>4, <3>1, <3>2, SendsInOrder, KeepsOrder
  <2>5. CASE d # draining
    <3>1. sub'[d] = sub[d]
      BY <1>7, <2>1, <2>3, <2>5
    <3> QED BY <1>5, <2>1, <3>1, KeepsOrder
  <2> QED BY <2>4, <2>5
<1>13. ASSUME NEW r \in Runs, Subscribe(r) \/ NextFrame(r) \/ Unsubscribe(r), NEW d \in Runs
       PROVE  Carries(d)
  <2>1. seq' = seq /\ (Due(d)' => Due(d))
    BY <1>13 DEF Subscribe, NextFrame, Unsubscribe, sourceVars, Due
  <2>2. \/ sub'[d].frames = sub[d].frames
        \/ sub[d].frames # <<>> /\ sub'[d].frames = Tail(sub[d].frames)
        \/ sub'[d].frames = <<>>
    <3>1. sub[r] \in [frames : Seq(Message), waiting : BOOLEAN, open : BOOLEAN]
      BY <1>1
    <3>2. CASE Subscribe(r)
      <4>1. sub' = [sub EXCEPT ![r] = [sub[r] EXCEPT !.open = TRUE]]
        BY <3>2 DEF Subscribe
      <4> QED BY <1>7, <3>1, <4>1
    <3>3. CASE NextFrame(r)
      <4>1. /\ sub' = [sub EXCEPT ![r] = [sub[r] EXCEPT !.frames = Tail(sub[r].frames)]]
            /\ sub[r].frames # <<>>
        BY <3>3 DEF NextFrame
      <4> QED BY <1>7, <3>1, <4>1
    <3>4. CASE Unsubscribe(r)
      <4>1. sub' = [sub EXCEPT ![r] = [sub[r] EXCEPT !.open = FALSE, !.frames = <<>>]]
        BY <3>4 DEF Unsubscribe
      <4> QED BY <1>7, <3>1, <4>1
    <3> QED BY <1>13, <3>2, <3>3, <3>4
  <2> QED BY <2>1, <2>2, KeepsOrder
<1>14. ASSUME NEW r \in Runs, Broadcast(r) \/ StopIfIdle(r), NEW d \in Runs
       PROVE  Carries(d)
  BY <1>2, <1>14 DEF Broadcast, StopIfIdle
<1>15. ASSUME NEW c \in Viewers,
              \/ AddClient(c) \/ Ack(c) \/ Resync(c) \/ RemoveClient(c) \/ CloseClient(c)
              \/ Pop(c) \/ Write(c) \/ WriteFails(c) \/ Wake(c) \/ Ping(c) \/ WriterDone(c),
              NEW d \in Runs
       PROVE  Carries(d)
  BY <1>2, <1>15 DEF AddClient, Ack, Resync, RemoveClient, CloseClient, Pop, Write, WriteFails,
                    Wake, Ping, WriterDone
<1>16. ASSUME UNCHANGED vars, NEW d \in Runs
       PROVE  Carries(d)
  BY <1>2, <1>16 DEF vars
<1> QED BY <1>3, <1>4, <1>6, <1>8, <1>9, <1>10, <1>11, <1>12, <1>13, <1>14, <1>15, <1>16 DEF Next

(* What a queue may do in a step in which nothing is offered to it.        *)
Unoffered(q, p) ==
    /\ KeptInv(p)
    /\ p.closed \/ (p.seen = q.seen /\ ~q.closed)
    /\ p.seen \in {q.seen, Never}

LEMMA ServedFacts ==
    ASSUME Inv, ServedInv, OrderInv
    PROVE  /\ \A c \in Viewers : queue[c].seen \in Int /\ KeptInv(queue[c]) /\ QueueInv(queue[c])
           /\ \A c \in clients : /\ c \in Viewers /\ running /\ runs \in Runs
                                 /\ run[runs].pc \in Live
                                 /\ queue[c].closed \/ sub[runs].open \/ queue[c].seen = Never
           /\ \A r \in Runs : run[r].pc = "broadcast" =>
                                 sub[r].open /\ r = runs /\ run[r].frame.seq \in Int
           /\ \A r \in Runs : run[r].to \subseteq Viewers
<1>1. /\ clients \subseteq Viewers
      /\ run \in [Runs -> [pc : {"none", "start", "next", "broadcast", "idle", "close", "done"},
                           frame : Message, to : SUBSET Viewers]]
  BY ServedTyped
<1>2. \A c \in Viewers : queue[c].seen \in Int /\ KeptInv(queue[c]) /\ QueueInv(queue[c])
  BY DEF OrderInv, QueuesKept, KeptInv, Queue, Inv, QueuesInv
<1>3. ASSUME NEW c \in clients
      PROVE  /\ c \in Viewers /\ running /\ runs \in Runs /\ run[runs].pc \in Live
             /\ queue[c].closed \/ sub[runs].open \/ queue[c].seen = Never
  <2>1. c \in Viewers /\ running /\ runs \in Runs /\ run[runs].pc \in Live
    BY <1>1, <1>3 DEF ServedInv, RunsKnown
  <2>2. run[runs].pc = "start" \/ sub[runs].open
    BY <2>1 DEF ServedInv, SubsKnown, Live
  <2> QED BY <2>1, <2>2 DEF OrderInv, ViewersInv
<1>4. ASSUME NEW r \in Runs, run[r].pc = "broadcast"
      PROVE  sub[r].open /\ r = runs /\ run[r].frame.seq \in Int
  <2>1. run[r].frame \in Message
    BY <1>1
  <2> QED BY <1>4, <2>1 DEF ServedInv, RunsKnown, SubsKnown, Live, Message
<1>5. \A r \in Runs : run[r].to \subseteq Viewers
  BY <1>1
<1> QED BY <1>2, <1>3, <1>4, <1>5

(* What a viewer was offered stays older than what its run has to offer.   *)
LEMMA StillOlder ==
    ASSUME Inv, ServedInv, OrderInv, \A r \in Runs : Carries(r), NEW c \in clients,
           ~queue[c].closed, runs' = runs, queue'[c].seen = queue[c].seen
    PROVE  Older(queue[c].seen, runs)'
<1> DEFINE y == queue[c].seen
<1>1. y \in Int /\ runs \in Runs /\ (sub[runs].open \/ y = Never) /\ Older(y, runs)
  BY ServedFacts DEF OrderInv, ViewersInv
<1>2. queue'[c].seen = y
  OBVIOUS
<1> HIDE DEF y
<1>3. y <= seq' /\ Behind(y, sub'[runs].frames) /\ (Due(runs)' => y < seq')
  BY <1>1 DEF Carries, Older, Due
<1> QED BY <1>2, <1>3 DEF Older, Due

(* A step that offers nothing and starts no broadcast.                     *)
LEMMA QuietStep ==
    ASSUME Inv, ServedInv, OrderInv, \A r \in Runs : Carries(r),
           runs' = runs, clients' \subseteq clients,
           \A r \in Runs : /\ run'[r].to = run[r].to /\ run'[r].frame = run[r].frame
                           /\ run'[r].pc = "broadcast" => run[r].pc = "broadcast"
                           /\ run'[r].pc = "start" => run[r].pc = "start",
           \A c \in Viewers : /\ Unoffered(queue[c], queue'[c])
                              /\ conn'[c] = "new" <=> conn[c] = "new"
                              /\ c \in clients' => conn'[c] = "open"
    PROVE  RunsInv' /\ ViewersInv' /\ QueuesKept'
<1>1. RunsInv'
  BY ServedFacts DEF OrderInv, RunsInv, Carries
<1>2. QueuesKept'
  BY DEF QueuesKept, Unoffered
<1>3. ASSUME NEW c \in clients'
      PROVE  /\ conn'[c] = "open"
             /\ queue'[c].closed \/ Older(queue[c].seen, runs)'
             /\ run'[runs].pc = "start" => queue'[c].closed \/ queue'[c].seen = Never
  <2>1. /\ c \in Viewers /\ c \in clients /\ runs \in Runs
        /\ queue[c].closed \/ sub[runs].open \/ queue[c].seen = Never
        /\ queue[c].seen \in Int
    BY <1>3, ServedFacts
  <2>2. queue'[c].closed \/ (queue'[c].seen = queue[c].seen /\ ~queue[c].closed)
    BY <2>1 DEF Unoffered
  <2>3. ASSUME ~queue'[c].closed
        PROVE  Older(queue[c].seen, runs)'
    BY <2>1, <2>2, <2>3, StillOlder
  <2>4. run'[runs].pc = "start" => queue'[c].closed \/ queue'[c].seen = Never
    BY <2>1, <2>2 DEF OrderInv, ViewersInv
  <2>5. conn'[c] = "open"
    BY <1>3, <2>1
  <2> QED BY <2>3, <2>4, <2>5
<1>4. ASSUME NEW c \in Viewers, conn'[c] = "new"
      PROVE  queue'[c].seen = Never
  BY <1>4 DEF Unoffered, OrderInv, ViewersInv
<1>5. ASSUME NEW r \in Runs, NEW c \in run'[r].to
      PROVE  conn'[c] # "new" /\ (queue'[c].closed \/ queue'[c].seen < run'[r].frame.seq)
  <2>1. c \in run[r].to /\ c \in Viewers
    BY <1>5, ServedFacts
  <2>2. conn[c] # "new" /\ (queue[c].closed \/ queue[c].seen < run[r].frame.seq)
    BY <2>1 DEF OrderInv, ViewersInv
  <2> QED BY <2>1, <2>2 DEF Unoffered
<1> QED BY <1>1, <1>2, <1>3, <1>4, <1>5 DEF ViewersInv

(* A step of one viewer's connection: its reader, its writer or its end.   *)
LEMMA ViewerStep ==
    ASSUME Inv, ServedInv, OrderInv, \A r \in Runs : Carries(r), NEW c \in Viewers,
           \/ Ack(c) \/ Resync(c) \/ RemoveClient(c) \/ CloseClient(c) \/ Pop(c)
           \/ Write(c) \/ WriteFails(c) \/ Wake(c) \/ Ping(c) \/ WriterDone(c)
    PROVE  RunsInv' /\ ViewersInv' /\ QueuesKept'
<1>1. \A d \in Viewers : KeptInv(queue[d]) /\ QueueInv(queue[d]) /\ Unoffered(queue[d], queue[d])
  BY ServedFacts DEF Unoffered
<1>2. queue \in [Viewers -> Queue] /\ conn \in [Viewers -> {"new", "open", "removed", "gone"}]
  BY DEF Inv, TypeOK, ViewerTypeOK
<1>3. PICK p : queue' = [queue EXCEPT ![c] = p] /\ Unoffered(queue[c], p)
  <2>1. CASE Ack(c)
    <3>1. PICK ts \in 1..got[c] : queue' = [queue EXCEPT ![c] = Acknowledge(queue[c], ts)]
      BY <2>1 DEF Ack
    <3>2. Unoffered(queue[c], Acknowledge(queue[c], ts))
      BY <1>1, AcknowledgeKept DEF Unoffered
    <3> QED BY <3>1, <3>2
  <2>2. CASE Resync(c)
    <3>1. queue' = [queue EXCEPT ![c] = RequestResync(queue[c])]
      BY <2>2 DEF Resync
    <3>2. Unoffered(queue[c], RequestResync(queue[c]))
      BY <1>1, StartedOverKept DEF Unoffered
    <3> QED BY <3>1, <3>2
  <2>3. CASE CloseClient(c) \/ WriteFails(c)
    <3>1. queue' = [queue EXCEPT ![c] = Close(queue[c])]
      BY <2>3 DEF CloseClient, WriteFails
    <3>2. Unoffered(queue[c], Close(queue[c]))
      BY <1>1, StartedOverKept DEF Unoffered
    <3> QED BY <3>1, <3>2
  <2>4. CASE Pop(c) /\ CanPop(queue[c])
    <3>1. queue' = [queue EXCEPT ![c] = PopForWrite(queue[c])]
      BY <2>4 DEF Pop
    <3>2. Unoffered(queue[c], PopForWrite(queue[c]))
      BY <1>1, <2>4, PopForWriteKept DEF Unoffered
    <3> QED BY <3>1, <3>2
  <2>5. CASE Wake(c)
    <3>1. queue' = [queue EXCEPT ![c] = [queue[c] EXCEPT !.wake = FALSE]]
      BY <2>5 DEF Wake
    <3>2. Unoffered(queue[c], [queue[c] EXCEPT !.wake = FALSE])
      BY <1>1, WakeKept DEF Unoffered
    <3> QED BY <3>1, <3>2
  <2>6. CASE \/ RemoveClient(c) \/ Write(c) \/ Ping(c) \/ WriterDone(c)
             \/ (Pop(c) /\ ~CanPop(queue[c]))
    <3>1. queue' = [queue EXCEPT ![c] = queue[c]]
      BY <1>2, <2>6 DEF RemoveClient, Write, Ping, WriterDone, Pop
    <3> QED BY <1>1, <3>1
  <2> QED BY <2>1, <2>2, <2>3, <2>4, <2>5, <2>6
<1>4. \A d \in Viewers : Unoffered(queue[d], queue'[d])
  BY <1>1, <1>2, <1>3
<1>5. run' = run /\ runs' = runs /\ clients' \subseteq clients
  BY DEF Ack, Resync, RemoveClient, CloseClient, Pop, Write, WriteFails, Wake, Ping, WriterDone,
         streamerVars
<1>6. \A d \in Viewers : /\ conn'[d] = "new" <=> conn[d] = "new"
                         /\ d \in clients' => conn'[d] = "open"
  <2>1. \A d \in clients : conn[d] = "open"
    BY DEF OrderInv, ViewersInv
  <2>2. CASE RemoveClient(c)
    BY <1>2, <2>1, <2>2 DEF RemoveClient
  <2>3. CASE CloseClient(c)
    BY <1>2, <2>1, <2>3 DEF CloseClient, streamerVars
  <2>4. CASE conn' = conn
    BY <1>5, <2>1, <2>4
  <2> QED BY <2>2, <2>3, <2>4 DEF Ack, Resync, Pop, Write, WriteFails, Wake, Ping, WriterDone
<1> QED BY <1>4, <1>5, <1>6, QuietStep

(* A step of the source, or of a run that does not broadcast.              *)
LEMMA SourceStep ==
    ASSUME Inv, ServedInv, OrderInv, \A r \in Runs : Carries(r), UNCHANGED <<runs, clients>>,
           UNCHANGED viewerVars,
           \/ UNCHANGED run
           \/ \E r \in Runs, l \in {"next", "idle", "close", "done"} : At(r, l)
    PROVE  RunsInv' /\ ViewersInv' /\ QueuesKept'
<1>1. \A d \in Viewers : /\ Unoffered(queue[d], queue'[d])
                         /\ conn'[d] = "new" <=> conn[d] = "new"
                         /\ d \in clients' => conn'[d] = "open"
  BY ServedFacts DEF Unoffered, viewerVars, OrderInv, ViewersInv
<1>2. \A r \in Runs : /\ run'[r].to = run[r].to /\ run'[r].frame = run[r].frame
                      /\ run'[r].pc = "broadcast" => run[r].pc = "broadcast"
                      /\ run'[r].pc = "start" => run[r].pc = "start"
  <2>1. CASE UNCHANGED run
    BY <2>1
  <2>2. run \in [Runs -> [pc : {"none", "start", "next", "broadcast", "idle", "close", "done"},
                          frame : Message, to : SUBSET Viewers]]
    BY ServedTyped
  <2> QED BY <2>1, <2>2 DEF At
<1>3. runs' = runs /\ clients' \subseteq clients
  OBVIOUS
<1> QED BY <1>1, <1>2, <1>3, QuietStep

(* The run receives a frame; what its viewers were offered is older.       *)
LEMMA NextFrameStep ==
    ASSUME Inv, ServedInv, OrderInv, \A r \in Runs : Carries(r), NEW r \in Runs, NextFrame(r)
    PROVE  RunsInv' /\ ViewersInv' /\ QueuesKept'
<1> DEFINE s == sub[r].frames
           f == Head(s)
<1>1. /\ run \in [Runs -> [pc : {"none", "start", "next", "broadcast", "idle", "close", "done"},
                           frame : Message, to : SUBSET Viewers]]
      /\ sub \in [Runs -> [frames : Seq(Message), waiting : BOOLEAN, open : BOOLEAN]]
      /\ seq \in Nat /\ s \in Seq(Message) /\ s # <<>>
  BY ServedTyped, OrderTyped DEF NextFrame
<1>2. /\ run[r].pc = "next" /\ UNCHANGED <<runs, clients, seq, todo, frame>> /\ UNCHANGED viewerVars
      /\ sub'[r].frames = Tail(s)
  BY <1>1 DEF NextFrame, sourceVars, streamerVars
<1>3. CASE clients = {} \/ f.kind = "error"
  <2>1. run' = run \/ At(r, "idle")
    BY <1>1, <1>3 DEF NextFrame, At
  <2> QED BY <1>2, <2>1, SourceStep
<1>4. CASE clients # {} /\ f.kind # "error"
  <2>1. run' = [run EXCEPT ![r] = [pc |-> "broadcast", frame |-> f, to |-> clients]]
    BY <1>4 DEF NextFrame
  <2>2. /\ run'[r].pc = "broadcast" /\ run'[r].frame = f /\ run'[r].to = clients
        /\ \A d \in Runs \ {r} : run'[d] = run[d]
    BY <1>1, <2>1
  <2>3. r = runs /\ \A d \in Runs \ {r} : run[d].pc # "broadcast"
    BY <1>2 DEF ServedInv, RunsKnown, Live
  <2>4. ChanOrder(s, seq) /\ (Due(r) => Below(s, seq))
    BY DEF OrderInv, ChansInv, ChanInv
  <2>5. /\ f.seq <= seq /\ Behind(f.seq, Tail(s)) /\ (Below(s, seq) => f.seq < seq)
        /\ \A y : Behind(y, s) => y < f.seq
    BY <1>1, <1>4, <2>4, ChanFacts
  <2> HIDE DEF f, s
  <2>6. RunsInv'
    <3>1. ASSUME NEW d \in Runs, run'[d].pc = "broadcast"
          PROVE  Older(run[d].frame.seq, d)'
      <4>1. d = r /\ run'[d].frame.seq = f.seq
        BY <2>2, <2>3, <3>1
      <4>2. Due(d)' => f.seq < seq
        BY <1>2, <2>4, <2>5, <4>1 DEF Due
      <4> QED BY <1>2, <2>5, <4>1, <4>2 DEF Older
    <3> QED BY <3>1 DEF RunsInv
  <2>7. ASSUME NEW c \in clients
        PROVE  /\ conn[c] = "open"
               /\ queue[c].closed \/ Older(queue[c].seen, runs)'
               /\ queue[c].closed \/ queue[c].seen < f.seq
    <3>1. conn[c] = "open" /\ (queue[c].closed \/ Older(queue[c].seen, r))
      BY <2>3 DEF OrderInv, ViewersInv
    <3>2. Older(queue[c].seen, r) => queue[c].seen < f.seq
      BY <2>5 DEF Older, s
    <3>3. queue[c].closed \/ Older(queue[c].seen, runs)'
      BY <1>2, StillOlder DEF viewerVars
    <3> QED BY <3>1, <3>2, <3>3
  <2>8. ViewersInv'
    <3>1. \A c \in Viewers : conn'[c] = "new" => queue'[c].seen = Never
      BY <1>2 DEF viewerVars, OrderInv, ViewersInv
    <3>2. \A c \in clients' : /\ conn'[c] = "open"
                              /\ queue'[c].closed \/ Older(queue[c].seen, runs)'
                              /\ run'[runs].pc # "start"
      BY <1>2, <2>2, <2>3, <2>7 DEF viewerVars
    <3>3. ASSUME NEW d \in Runs, NEW c \in run'[d].to
          PROVE  conn'[c] # "new" /\ (queue'[c].closed \/ queue'[c].seen < run'[d].frame.seq)
      <4>1. CASE d = r
        BY <1>2, <2>2, <2>7, <3>3, <4>1 DEF viewerVars
      <4>2. CASE d # r
        BY <1>2, <2>2, <3>3, <4>2 DEF viewerVars, OrderInv, ViewersInv
      <4> QED BY <4>1, <4>2
    <3> QED BY <1>2, <3>1, <3>2, <3>3 DEF ViewersInv
  <2>9. QueuesKept'
    BY <1>2 DEF viewerVars, OrderInv, QueuesKept
  <2> QED BY <2>6, <2>8, <2>9
<1> QED BY <1>3, <1>4

(* The run offers its frame to one of the viewers it is for.               *)
LEMMA BroadcastStep ==
    ASSUME Inv, ServedInv, OrderInv, \A r \in Runs : Carries(r), NEW r \in Runs, Broadcast(r)
    PROVE  RunsInv' /\ ViewersInv' /\ QueuesKept' /\ WritersTold'
<1> DEFINE key == run[r].frame.kind = "key"
           ts == run[r].frame.seq
<1>1. PICK c \in run[r].to :
        /\ queue' = [queue EXCEPT ![c] = Offer(queue[c], key, ts)]
        /\ run' = [run EXCEPT ![r] =
                IF run[r].to = {c} THEN [pc |-> "next", frame |-> Idle, to |-> {}]
                ELSE [run[r] EXCEPT !.to = run[r].to \ {c}]]
  BY DEF Broadcast
<1>2. /\ run \in [Runs -> [pc : {"none", "start", "next", "broadcast", "idle", "close", "done"},
                           frame : Message, to : SUBSET Viewers]]
      /\ queue \in [Viewers -> Queue] /\ c \in Viewers /\ run[r].pc = "broadcast"
      /\ ts \in Int /\ key \in BOOLEAN /\ r = runs
  <2>1. run[r].pc = "broadcast"
    BY DEF Broadcast
  <2> QED BY <1>1, <2>1, ServedTyped, ServedFacts DEF Inv, TypeOK, ViewerTypeOK
<1>3. /\ UNCHANGED <<runs, clients, seq, frame, todo, sub, conn, writer>>
  BY DEF Broadcast, sourceVars, streamerVars
<1>4. /\ QueueInv(queue[c]) /\ KeptInv(queue[c]) /\ queue[c].seen \in Int
      /\ queue[c].closed \/ queue[c].seen < ts
      /\ Older(ts, r)
  BY <1>1, <1>2, ServedFacts DEF OrderInv, ViewersInv, RunsInv
<1>5. /\ KeptInv(queue'[c]) /\ (Signalled(queue[c]) => Signalled(queue'[c]))
      /\ queue'[c].closed = queue[c].closed
      /\ queue'[c].seen = IF queue[c].closed THEN queue[c].seen ELSE ts
      /\ \A d \in Viewers \ {c} : queue'[d] = queue[d]
  <2>1. queue'[c] = Offer(queue[c], key, ts) /\ \A d \in Viewers \ {c} : queue'[d] = queue[d]
    BY <1>1, <1>2
  <2> HIDE DEF key, ts
  <2> QED BY <1>2, <1>4, <2>1, OfferKept
<1>6. /\ \A d \in Runs \ {r} : run'[d] = run[d]
      /\ \/ run'[r].pc = "next" /\ run'[r].to = {}
         \/ /\ run'[r].pc = "broadcast" /\ run'[r].frame = run[r].frame
            /\ run'[r].to = run[r].to \ {c}
  BY <1>1, <1>2
<1> HIDE DEF key
<1>7. \A y, d : Older(y, d) => y <= seq' /\ Behind(y, sub'[d].frames) /\ (Due(d)' => y < seq')
  BY <1>3 DEF Older, Due
<1>8. RunsInv'
  <2>1. ASSUME NEW d \in Runs, run'[d].pc = "broadcast"
        PROVE  Older(run[d].frame.seq, d)'
    <3>1. run'[d].frame.seq = run[d].frame.seq /\ Older(run[d].frame.seq, d)
      BY <1>2, <1>6, <2>1 DEF OrderInv, RunsInv
    <3> QED BY <1>7, <3>1 DEF Older, Due
  <2> QED BY <2>1 DEF RunsInv
<1>9. QueuesKept' /\ WritersTold'
  BY <1>3, <1>5 DEF OrderInv, QueuesKept, WritersTold
<1>10. ViewersInv'
  <2>1. \A d \in Viewers : conn'[d] = "new" => queue'[d].seen = Never
    BY <1>1, <1>3, <1>5 DEF OrderInv, ViewersInv
  <2>2. ASSUME NEW d \in clients'
        PROVE  /\ conn'[d] = "open"
               /\ queue'[d].closed \/ Older(queue[d].seen, runs)'
               /\ run'[runs'].pc # "start"
    <3>1. conn'[d] = "open" /\ run'[runs'].pc # "start" /\ d \in clients /\ d \in Viewers
      BY <1>2, <1>3, <1>6, <2>2, ServedFacts DEF OrderInv, ViewersInv
    <3>2. CASE d = c
      <4>1. queue'[d].closed \/ queue'[d].seen = ts
        BY <1>5, <3>2
      <4>2. ts <= seq' /\ Behind(ts, sub'[runs'].frames) /\ (Due(runs)' => ts < seq')
        BY <1>2, <1>3, <1>4, <1>7 DEF Due
      <4> HIDE DEF ts
      <4> QED BY <3>1, <4>1, <4>2 DEF Older
    <3>3. CASE d # c
      <4>1. queue'[d] = queue[d]
        BY <1>5, <3>1, <3>3
      <4> QED BY <1>3, <3>1, <4>1, StillOlder
    <3> QED BY <3>1, <3>2, <3>3
  <2>3. ASSUME NEW e \in Runs, NEW d \in run'[e].to
        PROVE  conn'[d] # "new" /\ (queue'[d].closed \/ queue'[d].seen < run'[e].frame.seq)
    <3>1. d \in run[e].to /\ d \in Viewers /\ run'[e].frame = run[e].frame
      BY <1>6, <2>3, ServedFacts
    <3>2. d # c
      <4>1. e # r => run[e].pc # "broadcast"
        BY <1>2, ServedFacts
      <4> QED BY <1>6, <2>3, <3>1, <4>1 DEF ServedInv, SubsKnown
    <3>3. queue'[d] = queue[d]
      BY <1>5, <3>1, <3>2
    <3> QED BY <1>3, <3>1, <3>3 DEF OrderInv, ViewersInv
  <2> QED BY <2>1, <2>2, <2>3 DEF ViewersInv
<1> QED BY <1>8, <1>9, <1>10

(* A viewer arrives: nothing was offered to it.                            *)
LEMMA AddClientStep ==
    ASSUME Inv, ServedInv, OrderInv, \A r \in Runs : Carries(r), NEW c \in Viewers, AddClient(c)
    PROVE  RunsInv' /\ ViewersInv' /\ QueuesKept' /\ WritersTold'
<1>1. /\ run \in [Runs -> [pc : {"none", "start", "next", "broadcast", "idle", "close", "done"},
                           frame : Message, to : SUBSET Viewers]]
      /\ queue \in [Viewers -> Queue] /\ conn \in [Viewers -> {"new", "open", "removed", "gone"}]
      /\ writer \in [Viewers -> [pc : {"none", "loop", "write", "wait", "exited"},
                                 frame : Message]]
      /\ running \in BOOLEAN /\ runs \in 0..MaxRuns /\ MaxRuns \in Nat
  BY ServedTyped DEF Inv, TypeOK, ViewerTypeOK
<1>2. /\ UNCHANGED <<seq, frame, todo, sub>> /\ clients' = clients \cup {c}
      /\ conn[c] = "new" /\ conn'[c] = "open" /\ writer'[c].pc = "loop"
      /\ \A d \in Viewers \ {c} : /\ conn'[d] = conn[d] /\ queue'[d] = queue[d]
                                  /\ writer'[d] = writer[d]
  BY <1>1 DEF AddClient, sourceVars
<1>3. KeptInv(queue'[c]) /\ queue'[c].seen = Never
  <2>1. QueueInv(queue[c]) /\ KeptInv(queue[c]) /\ queue[c].seen = Never /\ FlowOf[c] \in Nat
    BY <1>2, ServedFacts, H264StreamAssumption DEF OrderInv, ViewersInv
  <2>2. queue'[c] = queue[c] \/ queue'[c] = EnableFlowControl(queue[c], FlowOf[c])
    BY <1>1 DEF AddClient
  <2> QED BY <2>1, <2>2, StartedOverKept
<1>4. QueuesKept' /\ WritersTold'
  BY <1>2, <1>3 DEF OrderInv, QueuesKept, WritersTold
<1>5. \A y, d : Older(y, d) => y <= seq' /\ Behind(y, sub'[d].frames) /\ (Due(d)' => y < seq')
  BY <1>2 DEF Older, Due
<1>6. \A r \in Runs : Older(Never, r)
  <2>1. seq \in Nat /\ Never <= seq /\ Never < seq
    BY OrderTyped DEF Never
  <2>2. \A r \in Runs : Behind(Never, sub[r].frames)
    BY OrderTyped, ChanFacts DEF OrderInv, ChansInv, ChanInv
  <2> QED BY <2>1, <2>2 DEF Older
<1>7. /\ \A r \in Runs : run'[r].to = run[r].to /\ run'[r].frame = run[r].frame
      /\ \A r \in Runs : run'[r].pc = "broadcast" => run[r].pc = "broadcast"
      /\ runs' \in Runs
      /\ \/ runs' = runs /\ run' = run
         \/ clients = {}
  <2>1. CASE running
    BY <2>1 DEF AddClient, ServedInv, RunsKnown
  <2>2. CASE ~running
    <3>1. /\ run' = [run EXCEPT ![runs + 1].pc = "start"] /\ runs' = runs + 1 /\ runs + 1 \in Runs
          /\ clients = {}
      BY <1>1, <2>2 DEF AddClient, At, Runs, ServedInv, RunsKnown
    <3> QED BY <1>1, <3>1
  <2> QED BY <2>1, <2>2
<1>8. RunsInv'
  <2>1. ASSUME NEW d \in Runs, run'[d].pc = "broadcast"
        PROVE  Older(run[d].frame.seq, d)'
    <3>1. run'[d].frame.seq = run[d].frame.seq /\ Older(run[d].frame.seq, d)
      BY <1>7, <2>1 DEF OrderInv, RunsInv
    <3> QED BY <1>5, <3>1 DEF Older, Due
  <2> QED BY <2>1 DEF RunsInv
<1>9. ViewersInv'
  <2>1. \A d \in Viewers : conn'[d] = "new" => queue'[d].seen = Never
    BY <1>2, <1>3 DEF OrderInv, ViewersInv
  <2>2. ASSUME NEW d \in clients'
        PROVE  /\ conn'[d] = "open"
               /\ queue'[d].closed \/ Older(queue[d].seen, runs)'
               /\ run'[runs'].pc = "start" => queue'[d].closed \/ queue'[d].seen = Never
    <3>1. CASE d = c
      BY <1>2, <1>3, <1>5, <1>6, <1>7, <3>1 DEF Older, Due
    <3>2. CASE d # c
      <4>1. d \in clients /\ d \in Viewers /\ runs' = runs /\ run' = run /\ queue'[d] = queue[d]
        BY <1>2, <1>7, <2>2, <3>2, ServedFacts
      <4>2. conn'[d] = "open"
        BY <1>2, <3>2, <4>1 DEF OrderInv, ViewersInv
      <4>3. queue'[d].closed \/ Older(queue[d].seen, runs)'
        BY <4>1, StillOlder
      <4> QED BY <4>1, <4>2, <4>3 DEF OrderInv, ViewersInv
    <3> QED BY <3>1, <3>2
  <2>3. ASSUME NEW e \in Runs, NEW d \in run'[e].to
        PROVE  conn'[d] # "new" /\ (queue'[d].closed \/ queue'[d].seen < run'[e].frame.seq)
    <3>1. d \in run[e].to /\ d \in Viewers /\ run'[e].frame = run[e].frame
      BY <1>7, <2>3, ServedFacts
    <3>2. conn[d] # "new" /\ (queue[d].closed \/ queue[d].seen < run[e].frame.seq)
      BY <3>1 DEF OrderInv, ViewersInv
    <3>3. conn'[d] = conn[d] /\ queue'[d] = queue[d]
      BY <1>2, <3>1, <3>2
    <3> QED BY <3>1, <3>2, <3>3
  <2> QED BY <2>1, <2>2, <2>3 DEF ViewersInv
<1> QED BY <1>4, <1>8, <1>9

(* A writer that goes to wait found its queue empty, and whatever fills a  *)
(* queue signals (queue.go signalLocked, client.go writeLoop).             *)
LEMMA ViewerStepTold ==
    ASSUME Inv, ServedInv, OrderInv, NEW c \in Viewers,
           \/ Ack(c) \/ Resync(c) \/ RemoveClient(c) \/ CloseClient(c) \/ Pop(c)
           \/ Write(c) \/ WriteFails(c) \/ Wake(c) \/ Ping(c) \/ WriterDone(c)
    PROVE  WritersTold'
<1>1. /\ queue \in [Viewers -> Queue]
      /\ writer \in [Viewers -> [pc : {"none", "loop", "write", "wait", "exited"},
                                 frame : Message]]
      /\ QueueInv(queue[c]) /\ KeptInv(queue[c])
  BY ServedFacts DEF Inv, TypeOK, ViewerTypeOK
<1>2. \A d \in Viewers : writer[d].pc = "wait" => Signalled(queue[d])
  BY DEF OrderInv, WritersTold
<1>3. \A d \in Viewers \ {c} : queue'[d] = queue[d] /\ writer'[d] = writer[d]
  BY <1>1 DEF Ack, Resync, RemoveClient, CloseClient, Pop, Write, WriteFails, Wake, Ping,
              WriterDone
<1>4. writer'[c].pc = "wait" => Signalled(queue'[c])
  <2>1. CASE Ack(c)
    <3>1. PICK ts \in 1..got[c] : queue'[c] = Acknowledge(queue[c], ts)
      BY <1>1, <2>1 DEF Ack
    <3>2. writer'[c] = writer[c]
      BY <2>1 DEF Ack
    <3> QED BY <1>1, <1>2, <3>1, <3>2, AcknowledgeKept
  <2>2. CASE Resync(c)
    <3>1. queue'[c] = RequestResync(queue[c])
      BY <1>1, <2>2 DEF Resync
    <3> QED BY <1>1, <3>1, StartedOverKept
  <2>3. CASE CloseClient(c) \/ WriteFails(c)
    <3>1. queue'[c] = Close(queue[c])
      BY <1>1, <2>3 DEF CloseClient, WriteFails
    <3> QED BY <1>1, <3>1, StartedOverKept
  <2>4. CASE RemoveClient(c)
    BY <1>2, <2>4 DEF RemoveClient
  <2>5. CASE Pop(c)
    <3>1. CASE CanPop(queue[c])
      BY <1>1, <2>5, <3>1 DEF Pop
    <3>2. CASE ~CanPop(queue[c])
      BY <1>1, <2>5, <3>2 DEF Pop, CanPop, Signalled, KeptInv
    <3> QED BY <3>1, <3>2
  <2>6. CASE Write(c) \/ Wake(c) \/ Ping(c) \/ WriterDone(c)
    BY <1>1, <2>6 DEF Write, Wake, Ping, WriterDone
  <2> QED BY <2>1, <2>2, <2>3, <2>4, <2>5, <2>6
<1> QED BY <1>2, <1>3, <1>4 DEF WritersTold

LEMMA NextOrder == Inv /\ ServedInv /\ OrderInv /\ [Next]_vars => OrderInv'
<1> SUFFICES ASSUME Inv, ServedInv, OrderInv, [Next]_vars
             PROVE  ChansInv' /\ RunsInv' /\ ViewersInv' /\ QueuesKept' /\ WritersTold'
  BY DEF OrderInv
<1>1. (\A r \in Runs : Carries(r)) /\ ChansInv'
  <2>1. \A r \in Runs : Carries(r)
    BY NextCarries DEF OrderInv
  <2> QED BY <2>1 DEF Carries, ChansInv
<1>2. ASSUME NEW r \in Runs, NextFrame(r)
      PROVE  RunsInv' /\ ViewersInv' /\ QueuesKept' /\ WritersTold'
  <2>1. WritersTold'
    BY <1>2 DEF NextFrame, viewerVars, OrderInv, WritersTold
  <2> QED BY <1>1, <1>2, <2>1, NextFrameStep
<1>3. ASSUME NEW r \in Runs, Broadcast(r)
      PROVE  RunsInv' /\ ViewersInv' /\ QueuesKept' /\ WritersTold'
  BY <1>1, <1>3, BroadcastStep
<1>4. ASSUME NEW c \in Viewers, AddClient(c)
      PROVE  RunsInv' /\ ViewersInv' /\ QueuesKept' /\ WritersTold'
  BY <1>1, <1>4, AddClientStep
<1>5. ASSUME NEW c \in Viewers,
             \/ Ack(c) \/ Resync(c) \/ RemoveClient(c) \/ CloseClient(c) \/ Pop(c)
             \/ Write(c) \/ WriteFails(c) \/ Wake(c) \/ Ping(c) \/ WriterDone(c)
      PROVE  RunsInv' /\ ViewersInv' /\ QueuesKept' /\ WritersTold'
  BY <1>1, <1>5, ViewerStep, ViewerStepTold
<1>6. ASSUME UNCHANGED <<runs, clients>>, UNCHANGED viewerVars,
             \/ UNCHANGED run
             \/ \E r \in Runs, l \in {"next", "idle", "close", "done"} : At(r, l)
      PROVE  RunsInv' /\ ViewersInv' /\ QueuesKept' /\ WritersTold'
  <2>1. WritersTold'
    BY <1>6 DEF viewerVars, OrderInv, WritersTold
  <2> QED BY <1>1, <1>6, <2>1, SourceStep
<1>7. ASSUME NEW r \in Runs, Subscribe(r) \/ StopIfIdle(r) \/ Unsubscribe(r)
      PROVE  RunsInv' /\ ViewersInv' /\ QueuesKept' /\ WritersTold'
  BY <1>6, <1>7 DEF Subscribe, StopIfIdle, Unsubscribe, streamerVars
<1>8. ASSUME NEW r \in Runs, SendSkips(r) \/ Send(r) \/ SendOverflows(r)
      PROVE  RunsInv' /\ ViewersInv' /\ QueuesKept' /\ WritersTold'
  BY <1>6, <1>8 DEF SendSkips, Send, SendOverflows, Sent, streamerVars
<1>9. ASSUME SourceStops \/ Drain \/ DrainClosed \/ Drained
      PROVE  RunsInv' /\ ViewersInv' /\ QueuesKept' /\ WritersTold'
  BY <1>6, <1>9 DEF SourceStops, Drain, DrainClosed, Drained, Sent, streamerVars
<1>10. ASSUME NEW kind \in {"key", "delta", "error"}, Tick(kind)
       PROVE  RunsInv' /\ ViewersInv' /\ QueuesKept' /\ WritersTold'
  BY <1>6, <1>10 DEF Tick, streamerVars
<1>11. CASE UNCHANGED vars
  BY <1>1, <1>6, <1>11 DEF vars, streamerVars
<1> QED BY <1>1, <1>2, <1>3, <1>4, <1>5, <1>7, <1>8, <1>9, <1>10, <1>11 DEF Next

LEMMA InitOrder == Init => OrderInv
<1> SUFFICES ASSUME Init PROVE OrderInv
  OBVIOUS
<1>1. ChansInv
  <2>1. \A r \in Runs : sub[r].frames = <<>> /\ seq = 0
    BY DEF Init
  <2>2. ChanOrder(<<>>, 0) /\ Below(<<>>, 0)
    BY DEF ChanOrder, Below
  <2> QED BY <2>1, <2>2 DEF ChansInv, ChanInv
<1>2. RunsInv
  BY DEF Init, RunsInv
<1>3. ViewersInv
  BY DEF Init, ViewersInv, New
<1>4. QueuesKept
  BY NewKept DEF Init, QueuesKept
<1>5. WritersTold
  BY DEF Init, WritersTold
<1> QED BY <1>1, <1>2, <1>3, <1>4, <1>5 DEF OrderInv

LEMMA OrderAlways == Spec => []OrderInv
BY InitInv, NextInv, InitServed, NextServed, InitOrder, NextOrder, PTL DEF Spec

(* A viewer without flow control never has more queued than the limits     *)
(* allow: the bytes counted are those queued, whatever was dropped         *)
(* (queue.go offer, clearFramesLocked).                                    *)
THEOREM QueueBoundedTheorem == Spec => []QueueBounded
<1>1. OrderInv => QueueBounded
  BY DEF OrderInv, QueuesKept, KeptInv, QueueBounded
<1> QED BY <1>1, OrderAlways, PTL

(* Timestamps in flight increase, although the source starts them over     *)
(* each time it is started: no queue is offered frames of both sides of a  *)
(* restart (h264_source.go run, streamer.go run, queue.go Acknowledge).    *)
THEOREM AcksExactTheorem == Spec => []AcksExact
<1>1. OrderInv => AcksExact
  <2> SUFFICES ASSUME OrderInv, NEW c \in Viewers,
                      NEW i \in DOMAIN queue[c].inFlight, NEW j \in DOMAIN queue[c].inFlight, i < j
               PROVE  queue[c].inFlight[i] < queue[c].inFlight[j]
    BY DEF AcksExact
  <2>1. KeptInv(queue[c])
    BY DEF OrderInv, QueuesKept
  <2>2. DOMAIN queue[c].inFlight = 1..Len(queue[c].inFlight)
    BY <2>1 DEF KeptInv, Queue
  <2> QED BY <2>1, <2>2 DEF KeptInv, InOrder
<1> QED BY <1>1, OrderAlways, PTL

(* A writer that waits with a frame queued has its wake-up on the way      *)
(* (queue.go signalLocked, client.go writeLoop).                           *)
THEOREM NoLostWakeupTheorem == Spec => []NoLostWakeup
<1>1. OrderInv => NoLostWakeup
  BY DEF OrderInv, WritersTold, Signalled, NoLostWakeup
<1> QED BY <1>1, OrderAlways, PTL
=============================================================================
