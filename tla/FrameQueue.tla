------------------------------ MODULE FrameQueue ------------------------------
(***************************************************************************)
(* The bounded queue between the H.264 broadcaster and one viewer's writer *)
(* (stream/direct/internal/framequeue/queue.go).  Every method runs under  *)
(* the queue's mutex, so each is an operator from a queue to a queue.      *)
(*                                                                         *)
(* seen, taken and a frame's after are history: the timestamps last        *)
(* offered to the queue, last taken by the writer, and offered right       *)
(* before the frame.                                                       *)
(***************************************************************************)
EXTENDS Integers, Sequences, FiniteSets

CONSTANTS
    MaxFrames,      \* New's maxFrames
    MaxBytes,       \* New's maxBytes
    KeySize,        \* payload bytes of a keyframe
    DeltaSize,      \* payload bytes of any other frame
    MaxFlowWindow   \* maxFlowWindow

ASSUME FrameQueueAssumption ==
    {MaxFrames, MaxBytes, KeySize, DeltaSize, MaxFlowWindow} \subseteq Nat \ {0}

Size(f) == IF f.key THEN KeySize ELSE DeltaSize

Never == -1

(* New: a queue starts at the next keyframe.                               *)
New ==
    [frames |-> <<>>, queuedBytes |-> 0, inFlight |-> <<>>, window |-> 0,
     flowControlled |-> FALSE, waitingForKeyframe |-> TRUE, closed |-> FALSE,
     wake |-> FALSE,                            \* a token sits in the wake channel
     seen |-> Never, taken |-> Never]

(* Defect: the byte count survives.                                        *)
ClearFramesOnly(q) == [q EXCEPT !.frames = <<>>]

ClearFrames(q) == [q EXCEPT !.frames = <<>>, !.queuedBytes = 0]

Clamp(window) == IF window < 1 THEN 1 ELSE IF window > MaxFlowWindow THEN MaxFlowWindow ELSE window

EnableFlowControl(q, window) ==
    [ClearFrames(q) EXCEPT !.inFlight = <<>>, !.window = Clamp(window),
                           !.flowControlled = TRUE, !.waitingForKeyframe = TRUE]

(* Defect: the skipped frame is not remembered.                            *)
SkipForgotten(q) == ClearFrames(q)

(* The frame is not queued: nothing more until the next keyframe.          *)
Skip(q) == [ClearFrames(q) EXCEPT !.waitingForKeyframe = TRUE]

(* Defect: a keyframe is pushed without signalling the writer.             *)
PushUnsignalled(q, f) ==
    [q EXCEPT !.frames = Append(@, f), !.queuedBytes = @ + Size(f),
              !.wake = IF f.key THEN @ ELSE TRUE]

Push(q, f) ==
    [q EXCEPT !.frames = Append(@, f), !.queuedBytes = @ + Size(f), !.wake = TRUE]

(* Defect: the window counts only what is already on the wire.             *)
HasRoomInFlight(q, f) ==
    IF q.flowControlled
      THEN Len(q.inFlight) < q.window
      ELSE Len(q.frames) < MaxFrames /\ q.queuedBytes + Size(f) <= MaxBytes

HasPlace(frames, inFlight, window) == Len(frames) + Len(inFlight) < window

(* A delta frame has room within the window, or within both limits.        *)
HasRoom(q, f) ==
    IF q.flowControlled
      THEN HasPlace(q.frames, q.inFlight, q.window)
      ELSE Len(q.frames) < MaxFrames /\ q.queuedBytes + Size(f) <= MaxBytes

(* A keyframe empties the queue first.                                     *)
KeyHasRoom(q) == q.flowControlled => HasPlace(<<>>, q.inFlight, q.window)

Accept(q, f) ==
    IF f.key
      THEN IF KeyHasRoom(q)
             THEN Push([ClearFrames(q) EXCEPT !.waitingForKeyframe = FALSE], f)
             ELSE Skip(q)
      ELSE IF q.waitingForKeyframe THEN q
      ELSE IF HasRoom(q, f) THEN Push(q, f) ELSE Skip(q)

(* offer.                                                                  *)
Offer(q, key, ts) ==
    IF q.closed THEN q
    ELSE Accept([q EXCEPT !.seen = ts], [key |-> key, ts |-> ts, after |-> q.seen])

(* PopForWrite on a queue that has a frame and is not closed.              *)
CanPop(q) == ~q.closed /\ q.frames # <<>>

PopForWrite(q) ==
    LET f == Head(q.frames)
    IN  [q EXCEPT !.frames = Tail(@), !.queuedBytes = @ - Size(f),
                  !.inFlight = IF q.flowControlled THEN Append(@, f.ts) ELSE @,
                  !.taken = f.ts]

(* Acknowledge drops the longest prefix of timestamps up to ts.            *)
Acknowledge(q, ts) ==
    LET acknowledged ==
            Cardinality({k \in 1..Len(q.inFlight) : \A i \in 1..k : q.inFlight[i] <= ts})
    IN  [q EXCEPT !.inFlight = SubSeq(@, acknowledged + 1, Len(@))]

(* Defect: what was written before the resync is still waited for.         *)
RequestResyncOwed(q) == [ClearFrames(q) EXCEPT !.waitingForKeyframe = TRUE]

RequestResync(q) ==
    [ClearFrames(q) EXCEPT !.inFlight = <<>>, !.waitingForKeyframe = TRUE]

(* Close; the history of a closed queue is forgotten.                      *)
Close(q) == [ClearFrames(q) EXCEPT !.inFlight = <<>>, !.closed = TRUE,
                                   !.seen = Never, !.taken = Never]

-----------------------------------------------------------------------------

Frame == [key : BOOLEAN, ts : Int, after : Int]

Queue ==
    [frames : Seq(Frame), queuedBytes : Int, inFlight : Seq(Int), window : Nat,
     flowControlled : BOOLEAN, waitingForKeyframe : BOOLEAN, closed : BOOLEAN, wake : BOOLEAN,
     seen : Int, taken : Int]

(* A queue without flow control keeps to both limits, but for one keyframe *)
(* that is larger than the second.                                         *)
InLimits(q) ==
    ~q.flowControlled =>
        /\ Len(q.frames) <= MaxFrames
        /\ q.queuedBytes \in 0..(IF KeySize > MaxBytes THEN KeySize ELSE MaxBytes)

Fits(frames, inFlight, window) == Len(frames) + Len(inFlight) <= window

(* A flow-controlled viewer is never owed more than its window: what is    *)
(* queued and what is written but not acknowledged fit in it together.     *)
InWindow(q) == q.flowControlled => Fits(q.frames, q.inFlight, q.window)

(* The frames can be decoded after the one taken: a keyframe can only be   *)
(* at the head, and every other frame follows the one offered before it.   *)
Follow(frames, taken) ==
    \A i \in 1..Len(frames) :
        \/ i = 1 /\ frames[i].key
        \/ frames[i].after = IF i = 1 THEN taken ELSE frames[i - 1].ts

LastOf(frames, taken) == IF frames = <<>> THEN taken ELSE frames[Len(frames)].ts

(* What is queued can be decoded after what was taken, and a queue that is *)
(* not waiting for a keyframe has skipped nothing.                         *)
Decodable(q) ==
    /\ Follow(q.frames, q.taken)
    /\ (~q.waitingForKeyframe /\ ~q.closed) => q.seen = LastOf(q.frames, q.taken)
=============================================================================
