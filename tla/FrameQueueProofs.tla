--------------------------- MODULE FrameQueueProofs ---------------------------
(***************************************************************************)
(* Every method of the frame queue preserves its invariant: the types, the *)
(* flow window, and that what is queued can be decoded after what was      *)
(* taken; and its limits, its wake-up and the order of its timestamps.     *)
(***************************************************************************)
EXTENDS FrameQueue, FiniteSetTheorems, SequenceTheorems, TLAPS

QueueInv(q) == q \in Queue /\ InWindow(q) /\ Decodable(q)

(* What the window makes of pushing, popping, clearing and acknowledging.  *)
LEMMA FitsFacts ==
    ASSUME NEW s \in Seq(Frame), NEW t \in Seq(Int), NEW w \in Nat
    PROVE  /\ Fits(<<>>, <<>>, w)
           /\ Fits(s, t, w) => Fits(<<>>, t, w)
           /\ HasPlace(s, t, w) => \A f \in Frame : Fits(Append(s, f), t, w)
           /\ (s # <<>> /\ Fits(s, t, w)) => Fits(Tail(s), t, w)
           /\ (s # <<>> /\ Fits(s, t, w)) => \A x \in Int : Fits(Tail(s), Append(t, x), w)
           /\ \A u \in Seq(Int) : (Fits(s, t, w) /\ Len(u) <= Len(t)) => Fits(s, u, w)
<1>1. Len(s) \in Nat /\ Len(t) \in Nat /\ (s # <<>> => Len(s) # 0)
  BY EmptySeq
<1>2. Fits(<<>>, <<>>, w) /\ (Fits(s, t, w) => Fits(<<>>, t, w))
  BY <1>1 DEF Fits
<1>3. HasPlace(s, t, w) => \A f \in Frame : Fits(Append(s, f), t, w)
  <2>1. \A f \in Frame : Len(Append(s, f)) = Len(s) + 1
    OBVIOUS
  <2> QED BY <2>1, <1>1 DEF Fits, HasPlace
<1>4. ASSUME s # <<>>, Fits(s, t, w)
      PROVE  Fits(Tail(s), t, w) /\ \A x \in Int : Fits(Tail(s), Append(t, x), w)
  <2>1. Len(Tail(s)) = Len(s) - 1 /\ \A x \in Int : Len(Append(t, x)) = Len(t) + 1
    BY <1>4
  <2> QED BY <2>1, <1>1, <1>4 DEF Fits
<1>5. \A u \in Seq(Int) : (Fits(s, t, w) /\ Len(u) <= Len(t)) => Fits(s, u, w)
  <2>1. \A u \in Seq(Int) : Len(u) \in Nat
    OBVIOUS
  <2> QED BY <2>1, <1>1 DEF Fits
<1> QED BY <1>2, <1>3, <1>4, <1>5

(* What is left of a sequence behind a prefix is no longer than it.        *)
LEMMA Suffix ==
    ASSUME NEW t \in Seq(Int), NEW k \in Nat
    PROVE  /\ SubSeq(t, k + 1, Len(t)) \in Seq(Int)
           /\ Len(SubSeq(t, k + 1, Len(t))) <= Len(t)
<1>1. /\ Len(t) \in Nat /\ k + 1 \in Int /\ Len(t) \in Int
      /\ \A i \in (k + 1)..Len(t) : t[i] \in Int
  OBVIOUS
<1>2. /\ SubSeq(t, k + 1, Len(t)) \in Seq(Int)
      /\ Len(SubSeq(t, k + 1, Len(t))) =
             IF k + 1 <= Len(t) THEN Len(t) - (k + 1) + 1 ELSE 0
  BY <1>1, SubSeqProperties
<1> QED BY <1>1, <1>2

(* A frame offered right after the last one can be queued behind it.       *)
LEMMA AppendFollow ==
    ASSUME NEW s \in Seq(Frame), NEW taken \in Int, NEW f \in Frame,
           Follow(s, taken), f.after = LastOf(s, taken)
    PROVE  Follow(Append(s, f), taken) /\ LastOf(Append(s, f), taken) = f.ts
<1> DEFINE p == Append(s, f)
<1>1. /\ p \in Seq(Frame) /\ Len(s) \in Nat /\ Len(p) = Len(s) + 1 /\ p # <<>>
      /\ \A i \in 1..Len(s) : p[i] = s[i]
      /\ p[Len(s) + 1] = f
  BY AppendProperties
<1> HIDE DEF p
<1>2. ASSUME NEW i \in 1..Len(p)
      PROVE  (i = 1 /\ p[i].key) \/ p[i].after = IF i = 1 THEN taken ELSE p[i - 1].ts
  <2>1. CASE i \in 1..Len(s)
    <3>1. p[i] = s[i]
      BY <2>1, <1>1
    <3>2. i # 1 => p[i - 1] = s[i - 1]
      BY <2>1, <1>1
    <3> QED BY <2>1, <3>1, <3>2 DEF Follow
  <2>2. CASE i = Len(s) + 1
    <3>1. p[i] = f
      BY <2>2, <1>1
    <3>2. CASE s = <<>>
      BY <2>2, <3>1, <3>2 DEF LastOf
    <3>3. CASE s # <<>>
      <4>1. i # 1 /\ i - 1 = Len(s) /\ p[i - 1] = s[i - 1]
        BY <3>3, <2>2, <1>1, EmptySeq
      <4> QED BY <4>1, <3>1, <3>3 DEF LastOf
    <3> QED BY <3>2, <3>3
  <2> QED BY <2>1, <2>2, <1>1
<1>3. LastOf(p, taken) = f.ts
  BY <1>1 DEF LastOf
<1> QED BY <1>2, <1>3 DEF Follow, p

(* A keyframe can be queued on its own.                                    *)
LEMMA KeyFollow ==
    ASSUME NEW taken \in Int, NEW f \in Frame, f.key
    PROVE  Follow(Append(<<>>, f), taken) /\ LastOf(Append(<<>>, f), taken) = f.ts
<1>1. Append(<<>>, f) = <<f>> /\ Len(<<f>>) = 1 /\ <<f>>[1] = f /\ <<f>> # <<>>
  OBVIOUS
<1> QED BY <1>1 DEF Follow, LastOf

(* Once the head is taken, the rest can be decoded after it.               *)
LEMMA TailFollow ==
    ASSUME NEW s \in Seq(Frame), s # <<>>, NEW taken \in Int, Follow(s, taken)
    PROVE  /\ Follow(Tail(s), Head(s).ts)
           /\ LastOf(Tail(s), Head(s).ts) = LastOf(s, taken)
           /\ Head(s).key \/ Head(s).after = taken
<1> DEFINE p == Tail(s)
<1>1. /\ Len(s) \in Nat /\ Len(s) # 0 /\ Head(s) = s[1]
      /\ p \in Seq(Frame) /\ Len(p) = Len(s) - 1
      /\ \A i \in 1..Len(p) : p[i] = s[i + 1]
  BY EmptySeq, HeadTailProperties
<1> HIDE DEF p
<1>2. Head(s).key \/ Head(s).after = taken
  BY <1>1 DEF Follow
<1>3. ASSUME NEW i \in 1..Len(p)
      PROVE  (i = 1 /\ p[i].key) \/ p[i].after = IF i = 1 THEN s[1].ts ELSE p[i - 1].ts
  <2>1. i + 1 \in 1..Len(s) /\ i + 1 # 1 /\ (i + 1) - 1 = i /\ p[i] = s[i + 1]
    BY <1>1
  <2>2. p[i].after = s[i].ts
    BY <2>1 DEF Follow
  <2>3. ASSUME i # 1
        PROVE  p[i - 1] = s[i]
    <3>1. i - 1 \in 1..Len(p) /\ (i - 1) + 1 = i
      BY <2>3, <1>1
    <3> QED BY <3>1, <1>1
  <2> QED BY <2>2, <2>3
<1>4. LastOf(p, s[1].ts) = LastOf(s, taken)
  <2>1. CASE p = <<>>
    <3>1. Len(s) = 1
      BY <2>1, <1>1
    <3> QED BY <2>1, <3>1, <1>1 DEF LastOf
  <2>2. CASE p # <<>>
    <3>1. Len(p) \in 1..Len(p) /\ Len(p) + 1 = Len(s)
      BY <2>2, <1>1, EmptySeq
    <3>2. p[Len(p)] = s[Len(s)]
      BY <3>1, <1>1
    <3> QED BY <2>2, <3>2, <1>1 DEF LastOf
  <2> QED BY <2>1, <2>2
<1> QED BY <1>1, <1>2, <1>3, <1>4 DEF Follow, p

(* Nothing queued can be decoded after anything.                           *)
LEMMA EmptyFollow == \A taken : Follow(<<>>, taken)
BY DEF Follow

(* Emptying the queue (clearFramesLocked) keeps it a queue.                *)
LEMMA ClearFramesFacts ==
    ASSUME NEW q \in Queue
    PROVE  /\ ClearFrames(q) \in Queue
           /\ ClearFrames(q).frames = <<>>
           /\ ClearFrames(q).inFlight = q.inFlight
           /\ ClearFrames(q).window = q.window
           /\ ClearFrames(q).flowControlled = q.flowControlled
           /\ ClearFrames(q).waitingForKeyframe = q.waitingForKeyframe
           /\ ClearFrames(q).closed = q.closed
           /\ ClearFrames(q).wake = q.wake
           /\ ClearFrames(q).seen = q.seen
           /\ ClearFrames(q).taken = q.taken
<1>1. <<>> \in Seq(Frame) /\ 0 \in Int
  OBVIOUS
<1>2. ClearFrames(q) \in Queue
  BY <1>1 DEF ClearFrames, Queue
<1> QED BY <1>2 DEF ClearFrames, Queue

(* A new queue (New) satisfies the invariant.                              *)
LEMMA NewInv == QueueInv(New)
<1>1. New \in Queue
  BY DEF New, Queue, Never
<1>2. InWindow(New) /\ Decodable(New)
  BY EmptyFollow DEF New, InWindow, Decodable
<1> QED BY <1>1, <1>2 DEF QueueInv

(* EnableFlowControl starts over within the clamped window.                *)
LEMMA EnableFlowControlInv ==
    ASSUME NEW q \in Queue, NEW window \in Nat
    PROVE  /\ QueueInv(EnableFlowControl(q, window))
           /\ EnableFlowControl(q, window).taken = q.taken
<1> DEFINE e == ClearFrames(q)
           p == EnableFlowControl(q, window)
<1>1. Clamp(window) \in Nat
  BY FrameQueueAssumption DEF Clamp
<1>2. e \in Queue /\ e.frames = <<>> /\ e.taken = q.taken
  BY ClearFramesFacts
<1>3. <<>> \in Seq(Int) /\ <<>> \in Seq(Frame) /\ TRUE \in BOOLEAN
  OBVIOUS
<1>4. p = [e EXCEPT !.inFlight = <<>>, !.window = Clamp(window), !.flowControlled = TRUE,
                    !.waitingForKeyframe = TRUE]
  BY DEF EnableFlowControl
<1> HIDE DEF e, p
<1>5. p \in Queue
  BY <1>1, <1>2, <1>3, <1>4 DEF Queue
<1>6. /\ p.frames = <<>> /\ p.inFlight = <<>> /\ p.window = Clamp(window)
      /\ p.waitingForKeyframe = TRUE /\ p.taken = q.taken
  BY <1>2, <1>4 DEF Queue
<1>7. Fits(p.frames, p.inFlight, p.window)
  BY <1>1, <1>3, <1>6, FitsFacts
<1>8. InWindow(p) /\ Decodable(p)
  BY <1>6, <1>7, EmptyFollow DEF InWindow, Decodable
<1> QED BY <1>5, <1>6, <1>8 DEF QueueInv, p

(* Skipping a frame empties the queue until the next keyframe.             *)
LEMMA SkipInv ==
    ASSUME NEW q \in Queue, InWindow(q)
    PROVE  QueueInv(Skip(q)) /\ Skip(q).taken = q.taken
<1> DEFINE e == ClearFrames(q)
           p == Skip(q)
<1>1. /\ e \in Queue /\ e.frames = <<>> /\ e.inFlight = q.inFlight /\ e.taken = q.taken
      /\ e.window = q.window /\ e.flowControlled = q.flowControlled
  BY ClearFramesFacts
<1>2. TRUE \in BOOLEAN /\ p = [e EXCEPT !.waitingForKeyframe = TRUE]
  BY DEF Skip
<1> HIDE DEF e, p
<1>3. p \in Queue
  BY <1>1, <1>2 DEF Queue
<1>4. /\ p.frames = <<>> /\ p.inFlight = q.inFlight /\ p.window = q.window
      /\ p.flowControlled = q.flowControlled /\ p.waitingForKeyframe = TRUE
      /\ p.taken = q.taken
  BY <1>1, <1>2 DEF Queue
<1>5. q.frames \in Seq(Frame) /\ q.inFlight \in Seq(Int) /\ q.window \in Nat
  BY DEF Queue
<1>6. Fits(q.frames, q.inFlight, q.window) => Fits(<<>>, q.inFlight, q.window)
  BY <1>5, FitsFacts
<1>7. InWindow(p)
  BY <1>4, <1>6 DEF InWindow
<1>8. Decodable(p)
  BY <1>4, EmptyFollow DEF Decodable
<1> QED BY <1>3, <1>4, <1>7, <1>8 DEF QueueInv, p

(* Pushing a frame: one more frame, and the writer is signalled.           *)
LEMMA PushFacts ==
    ASSUME NEW q \in Queue, NEW f \in Frame
    PROVE  /\ Push(q, f) \in Queue
           /\ Push(q, f).frames = Append(q.frames, f)
           /\ Push(q, f).inFlight = q.inFlight
           /\ Push(q, f).window = q.window
           /\ Push(q, f).flowControlled = q.flowControlled
           /\ Push(q, f).waitingForKeyframe = q.waitingForKeyframe
           /\ Push(q, f).closed = q.closed
           /\ Push(q, f).seen = q.seen
           /\ Push(q, f).taken = q.taken
           /\ q.frames \in Seq(Frame) /\ q.inFlight \in Seq(Int) /\ q.window \in Nat
           /\ q.taken \in Int
           /\ HasPlace(q.frames, q.inFlight, q.window) =>
                  Fits(Append(q.frames, f), q.inFlight, q.window)
<1>1. Size(f) \in Int
  BY FrameQueueAssumption DEF Size
<1>2. /\ Append(q.frames, f) \in Seq(Frame) /\ q.queuedBytes + Size(f) \in Int
      /\ TRUE \in BOOLEAN
  BY <1>1 DEF Queue
<1>3. Push(q, f) \in Queue
  BY <1>2 DEF Push, Queue
<1>4. q.frames \in Seq(Frame) /\ q.inFlight \in Seq(Int) /\ q.window \in Nat /\ q.taken \in Int
  BY DEF Queue
<1>5. HasPlace(q.frames, q.inFlight, q.window) =>
          Fits(Append(q.frames, f), q.inFlight, q.window)
  BY <1>4, FitsFacts
<1> QED BY <1>3, <1>4, <1>5 DEF Push, Queue

(* A delta frame that has room is pushed after the last frame.             *)
LEMMA PushDeltaInv ==
    ASSUME NEW q \in Queue, NEW f \in Frame,
           Follow(q.frames, q.taken), f.after = LastOf(q.frames, q.taken), q.seen = f.ts,
           HasRoom(q, f)
    PROVE  QueueInv(Push(q, f))
<1> DEFINE p == Push(q, f)
<1>1. /\ p \in Queue /\ p.flowControlled = q.flowControlled
      /\ p.frames = Append(q.frames, f) /\ p.inFlight = q.inFlight /\ p.window = q.window
      /\ p.taken = q.taken /\ p.seen = f.ts
      /\ q.frames \in Seq(Frame) /\ q.inFlight \in Seq(Int) /\ q.window \in Nat
      /\ q.taken \in Int
  BY PushFacts
<1> HIDE DEF p
<1>2. HasPlace(q.frames, q.inFlight, q.window) => Fits(p.frames, q.inFlight, q.window)
  BY <1>1, PushFacts
<1>3. InWindow(p)
  BY <1>1, <1>2 DEF InWindow, HasRoom
<1>4. Follow(p.frames, p.taken) /\ LastOf(p.frames, p.taken) = f.ts
  BY <1>1, AppendFollow
<1>5. Decodable(p)
  BY <1>1, <1>4 DEF Decodable
<1> QED BY <1>1, <1>3, <1>5 DEF QueueInv, p

(* A keyframe is pushed on the emptied queue.                              *)
LEMMA PushKeyInv ==
    ASSUME NEW q \in Queue, NEW f \in Frame, f.key, q.frames = <<>>, q.seen = f.ts,
           KeyHasRoom(q)
    PROVE  QueueInv(Push(q, f))
<1> DEFINE p == Push(q, f)
<1>1. /\ p \in Queue /\ p.flowControlled = q.flowControlled
      /\ p.frames = Append(q.frames, f) /\ p.inFlight = q.inFlight /\ p.window = q.window
      /\ p.taken = q.taken /\ p.seen = f.ts
      /\ q.frames \in Seq(Frame) /\ q.inFlight \in Seq(Int) /\ q.window \in Nat
      /\ q.taken \in Int
  BY PushFacts
<1> HIDE DEF p
<1>2. HasPlace(q.frames, q.inFlight, q.window) => Fits(p.frames, q.inFlight, q.window)
  BY <1>1, PushFacts
<1>3. InWindow(p)
  BY <1>1, <1>2 DEF InWindow, KeyHasRoom
<1>4. Follow(p.frames, p.taken) /\ LastOf(p.frames, p.taken) = f.ts
  BY <1>1, KeyFollow
<1>5. Decodable(p)
  BY <1>1, <1>4 DEF Decodable
<1> QED BY <1>1, <1>3, <1>5 DEF QueueInv, p

(* offer keeps the invariant, whichever way it goes.                       *)
LEMMA OfferInv ==
    ASSUME NEW q, QueueInv(q), NEW key \in BOOLEAN, NEW ts \in Int
    PROVE  QueueInv(Offer(q, key, ts))
<1> DEFINE p == [q EXCEPT !.seen = ts]
           f == [key |-> key, ts |-> ts, after |-> q.seen]
<1>1. q \in Queue /\ InWindow(q) /\ Decodable(q)
  BY DEF QueueInv
<1>2. CASE q.closed
  BY <1>2 DEF Offer
<1>3. CASE ~q.closed
  <2>1. Offer(q, key, ts) = Accept(p, f)
    BY <1>3 DEF Offer
  <2>2. p \in Queue /\ f \in Frame /\ f.ts = ts /\ f.key = key /\ f.after = q.seen
    BY <1>1 DEF Queue, Frame
  <2>3. /\ p.frames = q.frames /\ p.inFlight = q.inFlight /\ p.window = q.window
        /\ p.flowControlled = q.flowControlled /\ p.closed = q.closed
        /\ p.waitingForKeyframe = q.waitingForKeyframe /\ p.taken = q.taken /\ p.seen = ts
    BY <1>1 DEF Queue
  <2>4. Follow(q.frames, q.taken)
    BY <1>1 DEF Decodable
  <2> HIDE DEF p, f
  <2>5. InWindow(p)
    BY <1>1, <2>3 DEF InWindow
  <2>6. CASE f.key
    <3> DEFINE e == [ClearFrames(p) EXCEPT !.waitingForKeyframe = FALSE]
    <3>1. CASE KeyHasRoom(p)
      <4>1. /\ ClearFrames(p) \in Queue /\ ClearFrames(p).frames = <<>>
            /\ ClearFrames(p).inFlight = p.inFlight /\ ClearFrames(p).window = p.window
            /\ ClearFrames(p).flowControlled = p.flowControlled
            /\ ClearFrames(p).seen = p.seen
        BY <2>2, ClearFramesFacts
      <4>2. FALSE \in BOOLEAN
        OBVIOUS
      <4>3. e \in Queue
        BY <4>1, <4>2 DEF Queue
      <4>4. e.frames = <<>> /\ e.inFlight = p.inFlight /\ e.window = p.window
            /\ e.flowControlled = p.flowControlled /\ e.seen = p.seen
        BY <4>1 DEF Queue
      <4>5. Accept(p, f) = Push(e, f)
        BY <2>6, <3>1 DEF Accept
      <4> HIDE DEF e
      <4>6. KeyHasRoom(e)
        BY <3>1, <4>4 DEF KeyHasRoom
      <4>7. QueueInv(Push(e, f))
        BY <2>2, <2>3, <2>6, <4>3, <4>4, <4>6, PushKeyInv
      <4> QED BY <2>1, <4>5, <4>7
    <3>2. CASE ~KeyHasRoom(p)
      <4>1. Accept(p, f) = Skip(p)
        BY <2>6, <3>2 DEF Accept
      <4> QED BY <4>1, <2>1, <2>2, <2>5, SkipInv
    <3> QED BY <3>1, <3>2
  <2>7. CASE ~f.key /\ p.waitingForKeyframe
    <3>1. Accept(p, f) = p
      BY <2>7 DEF Accept
    <3>2. Decodable(p)
      BY <1>1, <2>3, <2>7 DEF Decodable
    <3> QED BY <3>1, <3>2, <2>1, <2>2, <2>5 DEF QueueInv
  <2>8. CASE ~f.key /\ ~p.waitingForKeyframe /\ HasRoom(p, f)
    <3>1. Accept(p, f) = Push(p, f)
      BY <2>8 DEF Accept
    <3>2. f.after = LastOf(p.frames, p.taken)
      BY <1>1, <1>3, <2>2, <2>3, <2>8 DEF Decodable
    <3>3. QueueInv(Push(p, f))
      BY <2>2, <2>3, <2>4, <2>8, <3>2, PushDeltaInv
    <3> QED BY <3>1, <3>3, <2>1
  <2>9. CASE ~f.key /\ ~p.waitingForKeyframe /\ ~HasRoom(p, f)
    <3>1. Accept(p, f) = Skip(p)
      BY <2>9 DEF Accept
    <3> QED BY <3>1, <2>1, <2>2, <2>5, SkipInv
  <2> QED BY <2>6, <2>7, <2>8, <2>9
<1> QED BY <1>2, <1>3

(* offer takes nothing.                                                    *)
LEMMA OfferTaken ==
    ASSUME NEW q, QueueInv(q), NEW key \in BOOLEAN, NEW ts \in Int
    PROVE  Offer(q, key, ts).taken = q.taken
<1>1. q \in Queue
  BY DEF QueueInv
<1> QED BY <1>1 DEF Offer, Accept, Push, Skip, ClearFrames, Queue

(* PopForWrite moves the head into flight: the window stays as full, and   *)
(* what is left follows what was taken.                                    *)
LEMMA PopForWriteInv ==
    ASSUME NEW q, QueueInv(q), CanPop(q)
    PROVE  /\ QueueInv(PopForWrite(q))
           /\ Head(q.frames) \in Frame
           /\ PopForWrite(q).taken = Head(q.frames).ts
           /\ Head(q.frames).key \/ Head(q.frames).after = q.taken
<1> DEFINE f == Head(q.frames)
           p == PopForWrite(q)
           fly == IF q.flowControlled THEN Append(q.inFlight, f.ts) ELSE q.inFlight
<1>1. q \in Queue /\ InWindow(q) /\ Decodable(q) /\ ~q.closed /\ q.frames # <<>>
  BY DEF QueueInv, CanPop
<1>2. /\ q.frames \in Seq(Frame) /\ q.inFlight \in Seq(Int) /\ q.window \in Nat
      /\ q.taken \in Int /\ q.queuedBytes \in Int
  BY <1>1 DEF Queue
<1>3. f \in Frame /\ Tail(q.frames) \in Seq(Frame)
  BY <1>1, <1>2, HeadTailProperties
<1>4. Size(f) \in Int /\ f.ts \in Int
  BY <1>3, FrameQueueAssumption DEF Size, Frame
<1>5. fly \in Seq(Int)
  BY <1>2, <1>4
<1>6. p = [q EXCEPT !.frames = Tail(q.frames), !.queuedBytes = q.queuedBytes - Size(f),
                    !.inFlight = fly, !.taken = f.ts]
  BY <1>1 DEF PopForWrite, Queue
<1>7. q.queuedBytes - Size(f) \in Int
  BY <1>2, <1>4
<1>8. Fits(q.frames, q.inFlight, q.window) => Fits(Tail(q.frames), fly, q.window)
  BY <1>1, <1>2, <1>4, FitsFacts
<1>9. /\ Follow(Tail(q.frames), f.ts)
      /\ LastOf(Tail(q.frames), f.ts) = LastOf(q.frames, q.taken)
      /\ f.key \/ f.after = q.taken
  BY <1>1, <1>2, TailFollow DEF Decodable
<1> HIDE DEF p, f, fly
<1>10. p \in Queue
  BY <1>1, <1>3, <1>4, <1>5, <1>6, <1>7 DEF Queue
<1>11. /\ p.frames = Tail(q.frames) /\ p.inFlight = fly /\ p.window = q.window
       /\ p.flowControlled = q.flowControlled /\ p.closed = q.closed
       /\ p.waitingForKeyframe = q.waitingForKeyframe /\ p.seen = q.seen /\ p.taken = f.ts
  BY <1>1, <1>6 DEF Queue
<1>12. InWindow(p)
  BY <1>1, <1>8, <1>11 DEF InWindow
<1>13. Decodable(p)
  BY <1>1, <1>9, <1>11 DEF Decodable
<1> QED BY <1>3, <1>9, <1>10, <1>11, <1>12, <1>13 DEF QueueInv, p, f

(* Acknowledge only frees places of the window.                            *)
LEMMA AcknowledgeInv ==
    ASSUME NEW q, QueueInv(q), NEW ts \in Int
    PROVE  /\ QueueInv(Acknowledge(q, ts))
           /\ Acknowledge(q, ts).taken = q.taken
<1> DEFINE A == {k \in 1..Len(q.inFlight) : \A i \in 1..k : q.inFlight[i] <= ts}
           rest == SubSeq(q.inFlight, Cardinality(A) + 1, Len(q.inFlight))
           p == Acknowledge(q, ts)
<1>1. q \in Queue /\ InWindow(q) /\ Decodable(q)
  BY DEF QueueInv
<1>2. /\ q.inFlight \in Seq(Int) /\ Len(q.inFlight) \in Nat /\ q.window \in Nat
      /\ q.frames \in Seq(Frame)
  BY <1>1 DEF Queue
<1>3. Cardinality(A) \in Nat
  <2>1. IsFiniteSet(1..Len(q.inFlight))
    <3>1. 1 \in Int /\ Len(q.inFlight) \in Int
      BY <1>2
    <3> QED BY <3>1, FS_Interval
  <2>2. A \subseteq 1..Len(q.inFlight)
    OBVIOUS
  <2>3. IsFiniteSet(A)
    BY <2>1, <2>2, FS_Subset
  <2> QED BY <2>3, FS_CardinalityType
<1> HIDE DEF A
<1>4. rest \in Seq(Int) /\ Len(rest) <= Len(q.inFlight)
  BY <1>2, <1>3, Suffix
<1>5. p = [q EXCEPT !.inFlight = rest]
  BY <1>1 DEF Acknowledge, A, Queue
<1> HIDE DEF p, rest
<1>6. p \in Queue
  BY <1>1, <1>4, <1>5 DEF Queue
<1>7. /\ p.frames = q.frames /\ p.inFlight = rest /\ p.window = q.window
      /\ p.flowControlled = q.flowControlled /\ p.closed = q.closed
      /\ p.waitingForKeyframe = q.waitingForKeyframe /\ p.seen = q.seen /\ p.taken = q.taken
  BY <1>1, <1>5 DEF Queue
<1>8. InWindow(p)
  <2>1. Fits(q.frames, q.inFlight, q.window) => Fits(q.frames, rest, q.window)
    BY <1>2, <1>4, FitsFacts
  <2> QED BY <2>1, <1>1, <1>7 DEF InWindow
<1>9. Decodable(p)
  BY <1>1, <1>7 DEF Decodable
<1> QED BY <1>6, <1>7, <1>8, <1>9 DEF QueueInv, p

(* RequestResync starts over at the next keyframe.                         *)
LEMMA RequestResyncInv ==
    ASSUME NEW q, QueueInv(q)
    PROVE  /\ QueueInv(RequestResync(q))
           /\ RequestResync(q).taken = q.taken
<1> DEFINE e == ClearFrames(q)
           p == RequestResync(q)
<1>1. /\ e \in Queue /\ e.frames = <<>> /\ e.taken = q.taken /\ e.window = q.window
      /\ q.window \in Nat
  BY ClearFramesFacts DEF QueueInv, Queue
<1>2. p = [e EXCEPT !.inFlight = <<>>, !.waitingForKeyframe = TRUE]
  BY DEF RequestResync
<1>3. <<>> \in Seq(Int) /\ <<>> \in Seq(Frame) /\ TRUE \in BOOLEAN
  OBVIOUS
<1> HIDE DEF e, p
<1>4. p \in Queue
  BY <1>1, <1>2, <1>3 DEF Queue
<1>5. /\ p.frames = <<>> /\ p.inFlight = <<>> /\ p.window = q.window
      /\ p.waitingForKeyframe = TRUE /\ p.taken = q.taken
  BY <1>1, <1>2 DEF Queue
<1>6. Fits(p.frames, p.inFlight, p.window)
  BY <1>1, <1>3, <1>5, FitsFacts
<1>7. InWindow(p) /\ Decodable(p)
  BY <1>5, <1>6, EmptyFollow DEF InWindow, Decodable
<1> QED BY <1>4, <1>5, <1>6, <1>7 DEF QueueInv, p

(* Close leaves an empty, closed queue.                                    *)
LEMMA CloseInv ==
    ASSUME NEW q, QueueInv(q)
    PROVE  /\ QueueInv(Close(q))
           /\ Close(q).taken = Never
<1> DEFINE e == ClearFrames(q)
           p == Close(q)
<1>1. e \in Queue /\ e.frames = <<>> /\ e.window = q.window /\ q.window \in Nat
  BY ClearFramesFacts DEF QueueInv, Queue
<1>2. p = [e EXCEPT !.inFlight = <<>>, !.closed = TRUE, !.seen = Never, !.taken = Never]
  BY DEF Close
<1>3. <<>> \in Seq(Int) /\ <<>> \in Seq(Frame) /\ TRUE \in BOOLEAN /\ Never \in Int
  BY DEF Never
<1> HIDE DEF e, p
<1>4. p \in Queue
  BY <1>1, <1>2, <1>3 DEF Queue
<1>5. /\ p.frames = <<>> /\ p.inFlight = <<>> /\ p.window = q.window
      /\ p.closed = TRUE /\ p.taken = Never
  BY <1>1, <1>2 DEF Queue
<1>6. Fits(p.frames, p.inFlight, p.window)
  BY <1>1, <1>3, <1>5, FitsFacts
<1>7. InWindow(p) /\ Decodable(p)
  BY <1>5, <1>6, EmptyFollow DEF InWindow, Decodable
<1> QED BY <1>4, <1>5, <1>6, <1>7 DEF QueueInv, p

(* Consuming the wake-up changes nothing the invariant is about.           *)
LEMMA WakeInv ==
    ASSUME NEW q, QueueInv(q)
    PROVE  /\ QueueInv([q EXCEPT !.wake = FALSE])
           /\ [q EXCEPT !.wake = FALSE].taken = q.taken
<1> DEFINE p == [q EXCEPT !.wake = FALSE]
<1>1. q \in Queue /\ InWindow(q) /\ Decodable(q) /\ FALSE \in BOOLEAN
  BY DEF QueueInv
<1>2. p \in Queue
  BY <1>1 DEF Queue
<1>3. /\ p.frames = q.frames /\ p.inFlight = q.inFlight /\ p.window = q.window
      /\ p.flowControlled = q.flowControlled /\ p.closed = q.closed
      /\ p.waitingForKeyframe = q.waitingForKeyframe /\ p.seen = q.seen /\ p.taken = q.taken
  BY <1>1 DEF Queue
<1> HIDE DEF p
<1>4. InWindow(p) /\ Decodable(p)
  BY <1>1, <1>3 DEF InWindow, Decodable
<1> QED BY <1>2, <1>3, <1>4 DEF QueueInv, p

-----------------------------------------------------------------------------
(* What the limits, the wake-up and the acknowledgements rest on: the      *)
(* bytes counted are those of the frames queued, a closed queue is empty,  *)
(* and timestamps rise from what is in flight to what was last offered.    *)

(* Only the head may be a keyframe, so the frames behind it weigh the same.*)
KeyFirst(s) == \A i \in 2..Len(s) : ~s[i].key
Weight(s) == IF s = <<>> THEN 0 ELSE Size(s[1]) + (Len(s) - 1) * DeltaSize

InOrder(t, s, seen) ==
    /\ \A i, j \in 1..Len(t) : i < j => t[i] < t[j]
    /\ \A i, j \in 1..Len(s) : i < j => s[i].ts < s[j].ts
    /\ \A i \in 1..Len(t), j \in 1..Len(s) : t[i] < s[j].ts
    /\ \A i \in 1..Len(t) : t[i] <= seen
    /\ \A j \in 1..Len(s) : s[j].ts <= seen

KeptInv(q) ==
    /\ q \in Queue
    /\ q.closed => q.frames = <<>>
    /\ KeyFirst(q.frames) /\ q.queuedBytes = Weight(q.frames) /\ InLimits(q)
    /\ InOrder(q.inFlight, q.frames, q.seen)

(* What the weight makes of emptying, pushing and popping.                 *)
LEMMA WeightFacts ==
    ASSUME NEW s \in Seq(Frame), KeyFirst(s)
    PROVE  /\ KeyFirst(<<>>) /\ Weight(<<>>) = 0
           /\ Weight(s) \in Nat
           /\ \A f \in Frame : KeyFirst(Append(<<>>, f)) /\ Weight(Append(<<>>, f)) = Size(f)
           /\ \A f \in Frame : ~f.key =>
                  KeyFirst(Append(s, f)) /\ Weight(Append(s, f)) = Weight(s) + Size(f)
           /\ s # <<>> => /\ KeyFirst(Tail(s))
                          /\ Weight(Tail(s)) = Weight(s) - Size(Head(s))
<1>1. /\ Len(s) \in Nat /\ (s # <<>> => Len(s) # 0)
      /\ KeySize \in Nat /\ DeltaSize \in Nat
  BY EmptySeq, FrameQueueAssumption
<1>2. \A f \in Frame : Size(f) \in Nat /\ (~f.key => Size(f) = DeltaSize)
  BY <1>1 DEF Size
<1>3. \A n \in Nat : n * DeltaSize \in Nat /\ (n + 1) * DeltaSize = n * DeltaSize + DeltaSize
  BY <1>1
<1>4. Weight(s) \in Nat
  <2>1. CASE s = <<>>
    BY <2>1 DEF Weight
  <2>2. CASE s # <<>>
    <3>1. s[1] \in Frame /\ Len(s) - 1 \in Nat
      BY <1>1, <2>2
    <3>2. Size(s[1]) \in Nat /\ (Len(s) - 1) * DeltaSize \in Nat
      BY <1>2, <1>3, <3>1
    <3> QED BY <2>2, <3>2 DEF Weight
  <2> QED BY <2>1, <2>2
<1>5. KeyFirst(<<>>) /\ Weight(<<>>) = 0
  BY DEF KeyFirst, Weight
<1>6. ASSUME NEW f \in Frame
      PROVE  KeyFirst(Append(<<>>, f)) /\ Weight(Append(<<>>, f)) = Size(f)
  <2>1. Append(<<>>, f) = <<f>> /\ Len(<<f>>) = 1 /\ <<f>>[1] = f /\ <<f>> # <<>>
    OBVIOUS
  <2>2. Size(f) \in Nat
    BY <1>2
  <2> QED BY <1>1, <2>1, <2>2 DEF KeyFirst, Weight
<1>7. ASSUME NEW f \in Frame, ~f.key
      PROVE  KeyFirst(Append(s, f)) /\ Weight(Append(s, f)) = Weight(s) + Size(f)
  <2> DEFINE p == Append(s, f)
  <2>1. /\ p \in Seq(Frame) /\ Len(p) = Len(s) + 1 /\ p # <<>>
        /\ \A i \in 1..Len(s) : p[i] = s[i]
        /\ p[Len(s) + 1] = f
    BY AppendProperties
  <2> HIDE DEF p
  <2>2. KeyFirst(p)
    <3>1. ASSUME NEW i \in 2..Len(p)
          PROVE  ~p[i].key
      <4>1. i \in 2..Len(s) \/ i = Len(s) + 1
        BY <1>1, <2>1
      <4> QED BY <1>7, <2>1, <4>1 DEF KeyFirst
    <3> QED BY <3>1 DEF KeyFirst
  <2>3. Weight(p) = Weight(s) + Size(f)
    <3>1. CASE s = <<>>
      <4>1. Len(s) = 0 /\ p[1] = f /\ Len(p) = 1
        BY <2>1, <3>1
      <4> QED BY <1>1, <1>2, <2>1, <3>1, <4>1 DEF Weight
    <3>2. CASE s # <<>>
      <4>1. p[1] = s[1] /\ s[1] \in Frame /\ Len(s) - 1 \in Nat /\ (Len(s) - 1) + 1 = Len(p) - 1
        BY <1>1, <2>1, <3>2
      <4>2. (Len(p) - 1) * DeltaSize = (Len(s) - 1) * DeltaSize + DeltaSize
        BY <1>3, <4>1
      <4>3. (Len(s) - 1) * DeltaSize \in Nat /\ Size(s[1]) \in Nat /\ Size(f) = DeltaSize
        BY <1>2, <1>3, <1>7, <4>1
      <4> QED BY <1>1, <2>1, <3>2, <4>1, <4>2, <4>3 DEF Weight
    <3> QED BY <3>1, <3>2
  <2> QED BY <2>2, <2>3 DEF p
<1>8. ASSUME s # <<>>
      PROVE  KeyFirst(Tail(s)) /\ Weight(Tail(s)) = Weight(s) - Size(Head(s))
  <2> DEFINE p == Tail(s)
  <2>1. /\ Head(s) = s[1] /\ s[1] \in Frame /\ p \in Seq(Frame) /\ Len(p) = Len(s) - 1
        /\ \A i \in 1..Len(p) : p[i] = s[i + 1]
    BY <1>1, <1>8, HeadTailProperties
  <2> HIDE DEF p
  <2>2. KeyFirst(p)
    <3>1. ASSUME NEW i \in 2..Len(p)
          PROVE  ~p[i].key
      <4>1. i + 1 \in 2..Len(s) /\ p[i] = s[i + 1]
        BY <1>1, <2>1
      <4> QED BY <4>1 DEF KeyFirst
    <3> QED BY <3>1 DEF KeyFirst
  <2>3. Weight(p) = Weight(s) - Size(Head(s))
    <3>1. CASE Len(s) = 1
      <4>1. p = <<>> /\ (Len(s) - 1) * DeltaSize = 0 /\ Size(s[1]) \in Nat
        BY <1>1, <1>2, <2>1, <3>1, EmptySeq
      <4> QED BY <1>8, <2>1, <4>1 DEF Weight
    <3>2. CASE Len(s) # 1
      <4>1. /\ Len(p) \in Nat /\ Len(p) # 0 /\ 2 \in 2..Len(s) /\ 2 \in 1..Len(s)
            /\ p[1] = s[2] /\ Len(p) - 1 \in Nat /\ (Len(p) - 1) + 1 = Len(s) - 1
        BY <1>1, <1>8, <2>1, <3>2
      <4>2. p # <<>> /\ s[2] \in Frame /\ ~s[2].key
        BY <4>1 DEF KeyFirst
      <4>3. (Len(s) - 1) * DeltaSize = (Len(p) - 1) * DeltaSize + DeltaSize
        BY <1>3, <4>1
      <4>4. /\ (Len(p) - 1) * DeltaSize \in Nat /\ Size(s[1]) \in Nat
            /\ Size(p[1]) = DeltaSize
        BY <1>2, <1>3, <2>1, <4>1, <4>2
      <4> QED BY <1>1, <1>8, <2>1, <4>2, <4>3, <4>4 DEF Weight
    <3> QED BY <3>1, <3>2
  <2> QED BY <2>2, <2>3 DEF p
<1> QED BY <1>4, <1>5, <1>6, <1>7, <1>8

(* What the order makes of emptying, offering, pushing, popping and        *)
(* acknowledging.                                                          *)
LEMMA OrderFacts ==
    ASSUME NEW t \in Seq(Int), NEW s \in Seq(Frame), NEW seen \in Int, InOrder(t, s, seen)
    PROVE  /\ \A x : InOrder(<<>>, <<>>, x)
           /\ \A x \in Int : seen < x => InOrder(t, <<>>, x) /\ InOrder(t, s, x)
           /\ \A f \in Frame : seen < f.ts =>
                  InOrder(t, Append(<<>>, f), f.ts) /\ InOrder(t, Append(s, f), f.ts)
           /\ s # <<>> => /\ InOrder(t, Tail(s), seen)
                          /\ InOrder(Append(t, Head(s).ts), Tail(s), seen)
           /\ \A k \in Nat : InOrder(SubSeq(t, k + 1, Len(t)), s, seen)
<1>1. /\ Len(s) \in Nat /\ Len(t) \in Nat /\ (s # <<>> => Len(s) # 0)
      /\ \A i \in 1..Len(t) : t[i] \in Int
      /\ \A i \in 1..Len(s) : s[i].ts \in Int
  <2>1. \A i \in 1..Len(s) : s[i] \in Frame
    OBVIOUS
  <2>2. \A f \in Frame : f.ts \in Int
    BY DEF Frame
  <2> QED BY <2>1, <2>2, EmptySeq
<1>2. \A x : InOrder(<<>>, <<>>, x)
  BY DEF InOrder
<1>3. \A x \in Int : seen < x => InOrder(t, <<>>, x) /\ InOrder(t, s, x)
  BY <1>1 DEF InOrder
<1>4. ASSUME NEW f \in Frame, seen < f.ts
      PROVE  InOrder(t, Append(<<>>, f), f.ts) /\ InOrder(t, Append(s, f), f.ts)
  <2> DEFINE p == Append(s, f)
             o == Append(<<>>, f)
  <2>1. /\ Len(p) = Len(s) + 1
        /\ \A i \in 1..Len(s) : p[i] = s[i]
        /\ p[Len(s) + 1] = f
        /\ Len(o) = 1 /\ o[1] = f
    BY AppendProperties
  <2> HIDE DEF p, o
  <2>2. f.ts \in Int
    BY DEF Frame
  <2>3. InOrder(t, o, f.ts)
    <3>1. \A i \in 1..Len(o) : i = 1 /\ o[i] = f
      BY <2>1
    <3>2. \A i \in 1..Len(t) : t[i] < f.ts
      <4>1. \A i \in 1..Len(t) : t[i] <= seen
        BY DEF InOrder
      <4> QED BY <1>1, <1>4, <2>2, <4>1
    <3>3. \A i, j \in 1..Len(t) : i < j => t[i] < t[j]
      BY DEF InOrder
    <3>4. \A i, j \in 1..Len(o) : ~(i < j)
      BY <3>1
    <3>5. /\ \A j \in 1..Len(o) : o[j].ts <= f.ts
          /\ \A i \in 1..Len(t) : t[i] <= f.ts
      <4>1. f.ts <= f.ts
        BY <2>2
      <4>2. \A i \in 1..Len(t) : t[i] <= f.ts
        BY <1>1, <2>2, <3>2
      <4> QED BY <3>1, <4>1, <4>2
    <3>6. \A i \in 1..Len(t), j \in 1..Len(o) : t[i] < o[j].ts
      BY <3>1, <3>2
    <3> QED BY <3>3, <3>4, <3>5, <3>6 DEF InOrder
  <2>4. \A i \in 1..Len(p) : (i \in 1..Len(s) /\ p[i] = s[i]) \/ (i = Len(s) + 1 /\ p[i] = f)
    BY <1>1, <2>1
  <2>5. InOrder(t, p, f.ts)
    <3>1. \A i \in 1..Len(t) : t[i] <= seen
      BY DEF InOrder
    <3>2. \A i \in 1..Len(s) : s[i].ts <= seen
      BY DEF InOrder
    <3>3. ASSUME NEW i \in 1..Len(p), NEW j \in 1..Len(p), i < j
          PROVE  p[i].ts < p[j].ts
      <4>1. i \in 1..Len(s) /\ p[i] = s[i]
        BY <1>1, <2>1, <2>4, <3>3
      <4>2. CASE j \in 1..Len(s)
        BY <2>1, <3>3, <4>1, <4>2 DEF InOrder
      <4>3. CASE p[j] = f
        BY <1>1, <1>4, <2>2, <3>2, <4>1, <4>3
      <4> QED BY <2>4, <4>2, <4>3
    <3>4. ASSUME NEW i \in 1..Len(t), NEW j \in 1..Len(p)
          PROVE  t[i] < p[j].ts
      <4>1. CASE j \in 1..Len(s)
        BY <2>1, <4>1 DEF InOrder
      <4>2. CASE p[j] = f
        BY <1>1, <1>4, <2>2, <3>1, <4>2
      <4> QED BY <2>4, <4>1, <4>2
    <3>5. \A i \in 1..Len(t) : t[i] <= f.ts
      BY <1>1, <1>4, <2>2, <3>1
    <3>6. ASSUME NEW j \in 1..Len(p)
          PROVE  p[j].ts <= f.ts
      <4>1. CASE j \in 1..Len(s)
        <5>1. p[j] = s[j] /\ s[j].ts <= seen /\ s[j].ts \in Int
          BY <1>1, <2>1, <3>2, <4>1
        <5> QED BY <1>4, <2>2, <5>1
      <4>2. CASE p[j] = f
        BY <2>2, <4>2
      <4> QED BY <2>4, <4>1, <4>2
    <3>7. \A i, j \in 1..Len(t) : i < j => t[i] < t[j]
      BY DEF InOrder
    <3> QED BY <3>3, <3>4, <3>5, <3>6, <3>7 DEF InOrder
  <2> QED BY <2>3, <2>5 DEF p, o
<1>5. ASSUME s # <<>>
      PROVE  InOrder(t, Tail(s), seen) /\ InOrder(Append(t, Head(s).ts), Tail(s), seen)
  <2> DEFINE p == Tail(s)
             u == Append(t, Head(s).ts)
  <2>1. /\ Head(s) = s[1] /\ Len(p) = Len(s) - 1 /\ 1 \in 1..Len(s)
        /\ \A i \in 1..Len(p) : p[i] = s[i + 1] /\ i + 1 \in 1..Len(s)
    BY <1>1, <1>5, HeadTailProperties
  <2>2. /\ Len(u) = Len(t) + 1
        /\ \A i \in 1..Len(t) : u[i] = t[i]
        /\ u[Len(t) + 1] = s[1].ts
    BY <1>1, <2>1, AppendProperties
  <2> HIDE DEF p, u
  <2>3. InOrder(t, p, seen)
    <3>1. ASSUME NEW i \in 1..Len(p), NEW j \in 1..Len(p), i < j
          PROVE  p[i].ts < p[j].ts
      <4>1. /\ i + 1 \in 1..Len(s) /\ j + 1 \in 1..Len(s) /\ i + 1 < j + 1
            /\ p[i] = s[i + 1] /\ p[j] = s[j + 1]
        BY <2>1, <3>1
      <4> QED BY <4>1 DEF InOrder
    <3>2. \A i \in 1..Len(t), j \in 1..Len(p) : t[i] < p[j].ts
      BY <2>1 DEF InOrder
    <3>3. \A j \in 1..Len(p) : p[j].ts <= seen
      BY <2>1 DEF InOrder
    <3>4. /\ \A i \in 1..Len(t) : t[i] <= seen
          /\ \A i, j \in 1..Len(t) : i < j => t[i] < t[j]
      BY DEF InOrder
    <3> QED BY <3>1, <3>2, <3>3, <3>4 DEF InOrder
  <2>4. \A i \in 1..Len(u) :
            (i \in 1..Len(t) /\ u[i] = t[i]) \/ (i = Len(t) + 1 /\ u[i] = s[1].ts)
    BY <1>1, <2>2
  <2>5. InOrder(u, p, seen)
    <3>1. ASSUME NEW i \in 1..Len(u), NEW j \in 1..Len(u), i < j
          PROVE  u[i] < u[j]
      <4>1. i \in 1..Len(t) /\ u[i] = t[i]
        BY <1>1, <2>2, <2>4, <3>1
      <4>2. CASE j \in 1..Len(t)
        BY <2>2, <3>1, <4>1, <4>2 DEF InOrder
      <4>3. CASE u[j] = s[1].ts
        BY <2>1, <4>1, <4>3 DEF InOrder
      <4> QED BY <2>4, <4>2, <4>3
    <3>2. ASSUME NEW i \in 1..Len(u), NEW j \in 1..Len(p)
          PROVE  u[i] < p[j].ts
      <4>1. j + 1 \in 1..Len(s) /\ p[j] = s[j + 1] /\ 1 < j + 1
        BY <1>1, <2>1
      <4>2. CASE i \in 1..Len(t)
        BY <2>2, <4>1, <4>2 DEF InOrder
      <4>3. CASE u[i] = s[1].ts
        BY <2>1, <4>1, <4>3 DEF InOrder
      <4> QED BY <2>4, <4>2, <4>3
    <3>3. \A i \in 1..Len(u) : u[i] <= seen
      BY <1>1, <2>1, <2>4 DEF InOrder
    <3> QED BY <2>3, <3>1, <3>2, <3>3 DEF InOrder
  <2> QED BY <2>3, <2>5 DEF p, u
<1>6. ASSUME NEW k \in Nat
      PROVE  InOrder(SubSeq(t, k + 1, Len(t)), s, seen)
  <2> DEFINE u == SubSeq(t, k + 1, Len(t))
  <2>1. /\ k + 1 \in Int /\ Len(t) \in Int
        /\ \A i \in (k + 1)..Len(t) : t[i] \in Int
    BY <1>1
  <2>2. /\ Len(u) = IF k + 1 <= Len(t) THEN Len(t) - (k + 1) + 1 ELSE 0
        /\ \A i \in 1..Len(t) - (k + 1) + 1 : u[i] = t[k + 1 + i - 1]
    BY <2>1, SubSeqProperties
  <2>3. \A i \in 1..Len(u) : u[i] = t[k + i] /\ k + i \in 1..Len(t)
    BY <1>1, <2>2
  <2> HIDE DEF u
  <2>4. Len(u) \in Nat
    BY <1>1, <2>2
  <2>5. InOrder(u, s, seen)
    <3>1. ASSUME NEW i \in 1..Len(u), NEW j \in 1..Len(u), i < j
          PROVE  u[i] < u[j]
      <4>1. /\ k + i \in 1..Len(t) /\ k + j \in 1..Len(t) /\ k + i < k + j
            /\ u[i] = t[k + i] /\ u[j] = t[k + j]
        BY <2>3, <3>1
      <4> QED BY <4>1 DEF InOrder
    <3>2. \A i \in 1..Len(u), j \in 1..Len(s) : u[i] < s[j].ts
      BY <2>3 DEF InOrder
    <3>3. \A i \in 1..Len(u) : u[i] <= seen
      BY <2>3 DEF InOrder
    <3>4. /\ \A j \in 1..Len(s) : s[j].ts <= seen
          /\ \A i, j \in 1..Len(s) : i < j => s[i].ts < s[j].ts
      BY DEF InOrder
    <3> QED BY <3>1, <3>2, <3>3, <3>4 DEF InOrder
  <2> QED BY <2>5 DEF u
<1> QED BY <1>2, <1>3, <1>4, <1>5, <1>6

(* A queue with frames has told its writer.                                *)
Signalled(q) == q.frames # <<>> => q.wake

(* Emptying a queue keeps the rest of the invariant.                       *)
LEMMA EmptiedKept ==
    ASSUME NEW q, KeptInv(q), NEW p \in Queue, p.frames = <<>>, p.queuedBytes = 0,
           p.inFlight = <<>> \/ (p.inFlight = q.inFlight /\ q.seen < p.seen)
    PROVE  KeptInv(p) /\ Signalled(p)
<1>1. /\ q.inFlight \in Seq(Int) /\ q.frames \in Seq(Frame) /\ q.seen \in Int /\ p.seen \in Int
      /\ InOrder(q.inFlight, q.frames, q.seen) /\ KeyFirst(q.frames)
  BY DEF KeptInv, Queue
<1>2. InOrder(p.inFlight, p.frames, p.seen)
  BY <1>1, OrderFacts
<1>3. KeyFirst(p.frames) /\ p.queuedBytes = Weight(p.frames)
  BY <1>1, WeightFacts
<1>4. InLimits(p)
  BY FrameQueueAssumption DEF InLimits
<1> QED BY <1>2, <1>3, <1>4 DEF KeptInv, Signalled

(* Pushing a frame that has room: a keyframe on an empty queue, any other  *)
(* behind the last.                                                        *)
LEMMA PushKept ==
    ASSUME NEW q, KeptInv(q), ~q.closed, NEW e \in Queue, NEW f \in Frame, q.seen < f.ts,
           e.seen = f.ts, e.inFlight = q.inFlight, ~e.closed,
           \/ f.key /\ e.frames = <<>> /\ e.queuedBytes = 0
           \/ ~f.key /\ e.frames = q.frames /\ e.queuedBytes = q.queuedBytes /\ HasRoom(e, f)
    PROVE  KeptInv(Push(e, f)) /\ Signalled(Push(e, f))
<1> DEFINE p == Push(e, f)
<1>1. /\ q.inFlight \in Seq(Int) /\ q.frames \in Seq(Frame) /\ q.seen \in Int
      /\ InOrder(q.inFlight, q.frames, q.seen) /\ KeyFirst(q.frames)
      /\ q.queuedBytes = Weight(q.frames)
  BY DEF KeptInv, Queue
<1>2. /\ p \in Queue /\ p.frames = Append(e.frames, f) /\ p.inFlight = q.inFlight
      /\ p.seen = f.ts /\ p.closed = e.closed /\ p.flowControlled = e.flowControlled
  BY PushFacts
<1>3. p.queuedBytes = e.queuedBytes + Size(f) /\ p.wake = TRUE
  BY DEF Push, Queue
<1> HIDE DEF p
<1>4. InOrder(p.inFlight, p.frames, p.seen)
  <2>1. /\ InOrder(q.inFlight, Append(<<>>, f), f.ts)
        /\ InOrder(q.inFlight, Append(q.frames, f), f.ts)
    BY <1>1, OrderFacts
  <2>2. e.frames = <<>> \/ e.frames = q.frames
    OBVIOUS
  <2> QED BY <1>2, <2>1, <2>2
<1>5. KeyFirst(p.frames) /\ p.queuedBytes = Weight(p.frames)
  <2>1. CASE f.key
    <3>1. Size(f) \in Nat
      BY FrameQueueAssumption DEF Size
    <3>2. KeyFirst(Append(<<>>, f)) /\ Weight(Append(<<>>, f)) = Size(f)
      BY <1>1, WeightFacts
    <3>3. e.frames = <<>> /\ e.queuedBytes = 0
      BY <2>1
    <3> QED BY <1>2, <1>3, <3>1, <3>2, <3>3
  <2>2. CASE ~f.key
    BY <1>1, <1>2, <1>3, <2>2, WeightFacts
  <2> QED BY <2>1, <2>2
<1>6. InLimits(p)
  <2>1. /\ {MaxFrames, MaxBytes, KeySize, DeltaSize} \subseteq Nat /\ 1 <= MaxFrames
        /\ Weight(q.frames) \in Nat
    BY <1>1, FrameQueueAssumption, WeightFacts
  <2>2. CASE f.key
    <3>1. Size(f) = KeySize /\ Len(p.frames) = 1 /\ p.queuedBytes = KeySize
      BY <1>2, <1>3, <2>1, <2>2 DEF Size
    <3> QED BY <2>1, <3>1 DEF InLimits
  <2>3. CASE ~f.key
    <3>1. /\ Size(f) = DeltaSize /\ Len(p.frames) = Len(e.frames) + 1 /\ Len(e.frames) \in Nat
          /\ p.queuedBytes = Weight(q.frames) + DeltaSize
      BY <1>1, <1>2, <1>3, <2>3 DEF Size
    <3>2. ~e.flowControlled =>
              Len(e.frames) < MaxFrames /\ Weight(q.frames) + DeltaSize <= MaxBytes
      BY <1>1, <2>3, <3>1 DEF HasRoom
    <3> QED BY <1>2, <2>1, <3>1, <3>2 DEF InLimits
  <2> QED BY <2>2, <2>3
<1> QED BY <1>2, <1>3, <1>4, <1>5, <1>6 DEF KeptInv, Signalled, p

(* offer keeps to the limits and to the order, and signals what it queues, *)
(* when the frame is newer than the one offered before.                    *)
LEMMA OfferKept ==
    ASSUME NEW q, QueueInv(q), KeptInv(q), NEW key \in BOOLEAN, NEW ts \in Int,
           q.closed \/ q.seen < ts
    PROVE  /\ KeptInv(Offer(q, key, ts))
           /\ Signalled(q) => Signalled(Offer(q, key, ts))
           /\ Offer(q, key, ts).closed = q.closed
           /\ Offer(q, key, ts).seen = IF q.closed THEN q.seen ELSE ts
<1> DEFINE o == Offer(q, key, ts)
           p == [q EXCEPT !.seen = ts]
           f == [key |-> key, ts |-> ts, after |-> q.seen]
           e == ClearFrames(p)
           k == [e EXCEPT !.waitingForKeyframe = FALSE]
<1>1. q \in Queue /\ o \in Queue
  BY OfferInv DEF QueueInv
<1>2. CASE q.closed
  BY <1>2 DEF Offer
<1>3. CASE ~q.closed
  <2>1. o = Accept(p, f) /\ q.seen < ts
    BY <1>3 DEF Offer
  <2>2. p \in Queue /\ f \in Frame /\ f.ts = ts /\ f.key = key
    BY <1>1 DEF Queue, Frame
  <2>3. /\ p.frames = q.frames /\ p.inFlight = q.inFlight /\ p.closed = q.closed /\ p.seen = ts
        /\ p.queuedBytes = q.queuedBytes /\ p.flowControlled = q.flowControlled
        /\ p.wake = q.wake
    BY <1>1 DEF Queue
  <2>4. /\ e \in Queue /\ e.frames = <<>> /\ e.inFlight = p.inFlight /\ e.closed = p.closed
        /\ e.seen = p.seen /\ e.queuedBytes = 0
    BY <2>2, ClearFramesFacts DEF ClearFrames, Queue
  <2> HIDE DEF p, f, o, e
  <2>5. ASSUME o = Skip(p)
        PROVE  KeptInv(o) /\ Signalled(o) /\ o.closed = q.closed /\ o.seen = ts
    <3>1. o = [e EXCEPT !.waitingForKeyframe = TRUE]
      BY <2>5 DEF Skip, e
    <3>2. /\ o.frames = <<>> /\ o.inFlight = q.inFlight /\ o.closed = q.closed /\ o.seen = ts
          /\ o.queuedBytes = 0
      BY <2>3, <2>4, <3>1 DEF Queue
    <3> QED BY <1>1, <2>1, <3>2, EmptiedKept
  <2>6. ASSUME NEW x \in Queue, o = Push(x, f), x.closed = q.closed, x.seen = ts
        PROVE  o.closed = q.closed /\ o.seen = ts
    BY <2>2, <2>6, PushFacts
  <2>7. CASE f.key /\ KeyHasRoom(p)
    <3>1. o = Push(k, f)
      BY <2>1, <2>7 DEF Accept, e
    <3>2. FALSE \in BOOLEAN
      OBVIOUS
    <3>3. k \in Queue
      BY <2>4, <3>2 DEF Queue
    <3>4. /\ k.frames = <<>> /\ k.inFlight = q.inFlight /\ k.closed = q.closed /\ k.seen = ts
          /\ k.queuedBytes = 0
      BY <2>3, <2>4 DEF Queue
    <3> HIDE DEF k
    <3>5. KeptInv(Push(k, f)) /\ Signalled(Push(k, f))
      BY <1>3, <2>1, <2>2, <2>7, <3>3, <3>4, PushKept
    <3> QED BY <1>3, <2>6, <3>1, <3>3, <3>4, <3>5 DEF o
  <2>8. CASE ~f.key /\ ~p.waitingForKeyframe /\ HasRoom(p, f)
    <3>1. o = Push(p, f)
      BY <2>1, <2>8 DEF Accept
    <3>2. KeptInv(Push(p, f)) /\ Signalled(Push(p, f))
      BY <1>3, <2>1, <2>2, <2>3, <2>8, PushKept
    <3> QED BY <1>3, <2>2, <2>3, <2>6, <3>1, <3>2 DEF o
  <2>9. CASE ~f.key /\ p.waitingForKeyframe
    <3>1. o = p
      BY <2>1, <2>9 DEF Accept
    <3>2. /\ q.inFlight \in Seq(Int) /\ q.frames \in Seq(Frame) /\ q.seen \in Int
          /\ InOrder(q.inFlight, q.frames, q.seen)
      BY DEF KeptInv, Queue
    <3>3. InOrder(p.inFlight, p.frames, p.seen)
      BY <2>1, <2>3, <3>2, OrderFacts
    <3>4. InLimits(p)
      BY <2>3 DEF KeptInv, InLimits
    <3>5. KeptInv(p)
      BY <2>2, <2>3, <3>3, <3>4 DEF KeptInv
    <3> QED BY <1>3, <2>3, <3>1, <3>5 DEF o, Signalled
  <2>10. CASE \/ f.key /\ ~KeyHasRoom(p)
              \/ ~f.key /\ ~p.waitingForKeyframe /\ ~HasRoom(p, f)
    <3>1. o = Skip(p)
      BY <2>1, <2>10 DEF Accept
    <3> QED BY <1>3, <2>5, <3>1 DEF o
  <2> QED BY <2>7, <2>8, <2>9, <2>10
<1> QED BY <1>2, <1>3

(* PopForWrite keeps to the limits and to the order.                       *)
LEMMA PopForWriteKept ==
    ASSUME NEW q, QueueInv(q), KeptInv(q), CanPop(q)
    PROVE  /\ KeptInv(PopForWrite(q))
           /\ PopForWrite(q).closed = q.closed /\ PopForWrite(q).seen = q.seen
<1> DEFINE f == Head(q.frames)
           p == PopForWrite(q)
           fly == IF q.flowControlled THEN Append(q.inFlight, f.ts) ELSE q.inFlight
<1>1. q \in Queue /\ p \in Queue /\ f \in Frame /\ q.frames # <<>> /\ ~q.closed
  BY PopForWriteInv DEF QueueInv, CanPop
<1>2. /\ q.inFlight \in Seq(Int) /\ q.frames \in Seq(Frame) /\ q.seen \in Int
      /\ InOrder(q.inFlight, q.frames, q.seen) /\ KeyFirst(q.frames)
      /\ q.queuedBytes = Weight(q.frames) /\ InLimits(q)
  BY DEF KeptInv, Queue
<1>3. p = [q EXCEPT !.frames = Tail(q.frames), !.queuedBytes = q.queuedBytes - Size(f),
                    !.inFlight = fly, !.taken = f.ts]
  BY <1>1 DEF PopForWrite, Queue
<1>4. KeyFirst(Tail(q.frames)) /\ Weight(Tail(q.frames)) = Weight(q.frames) - Size(f)
  BY <1>1, <1>2, WeightFacts
<1>5. InOrder(fly, Tail(q.frames), q.seen)
  BY <1>1, <1>2, OrderFacts
<1>6. /\ Tail(q.frames) \in Seq(Frame) /\ Len(Tail(q.frames)) = Len(q.frames) - 1
      /\ Len(q.frames) \in Nat
  BY <1>1, <1>2
<1>7. /\ Weight(Tail(q.frames)) \in Nat /\ Weight(q.frames) \in Nat /\ Size(f) \in Nat
      /\ {MaxFrames, MaxBytes, KeySize} \subseteq Nat
  BY <1>2, <1>4, <1>6, FrameQueueAssumption, WeightFacts DEF Size
<1> HIDE DEF f, p, fly
<1>8. /\ p.frames = Tail(q.frames) /\ p.queuedBytes = q.queuedBytes - Size(f)
      /\ p.inFlight = fly /\ p.closed = q.closed /\ p.seen = q.seen
      /\ p.flowControlled = q.flowControlled
  BY <1>1, <1>3 DEF Queue
<1>9. InLimits(p)
  BY <1>2, <1>4, <1>6, <1>7, <1>8 DEF InLimits
<1> QED BY <1>1, <1>2, <1>4, <1>5, <1>8, <1>9 DEF KeptInv, p

(* Acknowledge leaves the frames alone and a suffix in flight.             *)
LEMMA AcknowledgeKept ==
    ASSUME NEW q, QueueInv(q), KeptInv(q), NEW ts \in Int
    PROVE  /\ KeptInv(Acknowledge(q, ts))
           /\ Signalled(q) => Signalled(Acknowledge(q, ts))
           /\ Acknowledge(q, ts).closed = q.closed /\ Acknowledge(q, ts).seen = q.seen
<1> DEFINE A == {k \in 1..Len(q.inFlight) : \A i \in 1..k : q.inFlight[i] <= ts}
           rest == SubSeq(q.inFlight, Cardinality(A) + 1, Len(q.inFlight))
           p == Acknowledge(q, ts)
<1>1. q \in Queue /\ p \in Queue
  BY AcknowledgeInv DEF QueueInv
<1>2. /\ q.inFlight \in Seq(Int) /\ q.frames \in Seq(Frame) /\ q.seen \in Int
      /\ InOrder(q.inFlight, q.frames, q.seen)
  BY DEF KeptInv, Queue
<1>3. Cardinality(A) \in Nat
  <2>1. 1 \in Int /\ Len(q.inFlight) \in Int
    BY <1>2
  <2>2. IsFiniteSet(1..Len(q.inFlight)) /\ A \subseteq 1..Len(q.inFlight)
    BY <2>1, FS_Interval
  <2>3. IsFiniteSet(A)
    BY <2>2, FS_Subset
  <2> QED BY <2>3, FS_CardinalityType
<1>4. p = [q EXCEPT !.inFlight = rest]
  BY <1>1 DEF Acknowledge, A, Queue
<1> HIDE DEF A
<1>5. InOrder(rest, q.frames, q.seen)
  BY <1>2, <1>3, OrderFacts
<1> HIDE DEF p, rest
<1>6. /\ p.frames = q.frames /\ p.inFlight = rest /\ p.closed = q.closed /\ p.seen = q.seen
      /\ p.queuedBytes = q.queuedBytes /\ p.wake = q.wake /\ p.flowControlled = q.flowControlled
  BY <1>1, <1>4 DEF Queue
<1> QED BY <1>1, <1>5, <1>6 DEF KeptInv, InLimits, Signalled, p

(* EnableFlowControl, RequestResync and Close start over with nothing.     *)
LEMMA StartedOverKept ==
    ASSUME NEW q, QueueInv(q), KeptInv(q), NEW window \in Nat
    PROVE  /\ KeptInv(EnableFlowControl(q, window))
           /\ EnableFlowControl(q, window).closed = q.closed
           /\ EnableFlowControl(q, window).seen = q.seen
           /\ KeptInv(RequestResync(q)) /\ Signalled(RequestResync(q))
           /\ RequestResync(q).closed = q.closed /\ RequestResync(q).seen = q.seen
           /\ KeptInv(Close(q)) /\ Signalled(Close(q))
           /\ Close(q).closed /\ Close(q).seen = Never
<1> DEFINE e == ClearFrames(q)
           p1 == EnableFlowControl(q, window)
           p2 == RequestResync(q)
           p3 == Close(q)
<1>1. q \in Queue /\ p1 \in Queue /\ p2 \in Queue /\ p3 \in Queue
  BY EnableFlowControlInv, RequestResyncInv, CloseInv DEF QueueInv
<1>2. /\ e \in Queue /\ e.frames = <<>> /\ e.queuedBytes = 0 /\ e.closed = q.closed
      /\ e.seen = q.seen
  BY <1>1, ClearFramesFacts DEF ClearFrames, Queue
<1>3. /\ p1 = [e EXCEPT !.inFlight = <<>>, !.window = Clamp(window), !.flowControlled = TRUE,
                        !.waitingForKeyframe = TRUE]
      /\ p2 = [e EXCEPT !.inFlight = <<>>, !.waitingForKeyframe = TRUE]
      /\ p3 = [e EXCEPT !.inFlight = <<>>, !.closed = TRUE, !.seen = Never, !.taken = Never]
  BY DEF EnableFlowControl, RequestResync, Close
<1> HIDE DEF e, p1, p2, p3
<1>4. /\ p1.frames = <<>> /\ p1.queuedBytes = 0 /\ p1.inFlight = <<>>
      /\ p1.closed = q.closed /\ p1.seen = q.seen
  BY <1>2, <1>3 DEF Queue
<1>5. /\ p2.frames = <<>> /\ p2.queuedBytes = 0 /\ p2.inFlight = <<>>
      /\ p2.closed = q.closed /\ p2.seen = q.seen
  BY <1>2, <1>3 DEF Queue
<1>6. /\ p3.frames = <<>> /\ p3.queuedBytes = 0 /\ p3.inFlight = <<>>
      /\ p3.closed = TRUE /\ p3.seen = Never
  BY <1>2, <1>3 DEF Queue
<1>7. KeptInv(p1) /\ KeptInv(p2) /\ Signalled(p2) /\ KeptInv(p3) /\ Signalled(p3)
  BY <1>1, <1>4, <1>5, <1>6, EmptiedKept
<1> QED BY <1>4, <1>5, <1>6, <1>7 DEF p1, p2, p3

(* Consuming the wake-up, and a new queue.                                 *)
LEMMA WakeKept ==
    ASSUME NEW q, KeptInv(q)
    PROVE  /\ KeptInv([q EXCEPT !.wake = FALSE])
           /\ [q EXCEPT !.wake = FALSE].closed = q.closed
           /\ [q EXCEPT !.wake = FALSE].seen = q.seen
<1> DEFINE p == [q EXCEPT !.wake = FALSE]
<1>1. q \in Queue /\ FALSE \in BOOLEAN
  BY DEF KeptInv
<1>2. p \in Queue
  BY <1>1 DEF Queue
<1>3. /\ p.frames = q.frames /\ p.inFlight = q.inFlight /\ p.closed = q.closed /\ p.seen = q.seen
      /\ p.queuedBytes = q.queuedBytes /\ p.flowControlled = q.flowControlled
  BY <1>1 DEF Queue
<1> HIDE DEF p
<1>4. KeptInv(p)
  BY <1>2, <1>3 DEF KeptInv, InLimits
<1> QED BY <1>3, <1>4 DEF p

LEMMA NewKept == KeptInv(New)
<1>1. New \in Queue
  BY NewInv DEF QueueInv
<1>2. InOrder(New.inFlight, New.frames, New.seen)
  BY DEF New, InOrder
<1>3. KeyFirst(New.frames) /\ New.queuedBytes = Weight(New.frames)
  BY DEF New, KeyFirst, Weight
<1>4. InLimits(New)
  BY FrameQueueAssumption DEF New, InLimits
<1> QED BY <1>1, <1>2, <1>3, <1>4 DEF KeptInv, New
=============================================================================
