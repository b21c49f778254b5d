----------------------------- MODULE CreditWindow -----------------------------
(***************************************************************************)
(* One additive credit window of nexit/1, as both ends of a tunnel session *)
(* promise it to each other: the sender debits `avail' before DATA leaves, *)
(* the receiver gives every byte back, in WINDOW increments of at least    *)
(* half a window.  This is what the connection window (stream 0) of        *)
(* server/service/exit/mux.go is meant to be, with the bytes counted and   *)
(* the frames that carry them left out.                                    *)
(***************************************************************************)
EXTENDS Integers

CONSTANTS
    Window,     \* ConnWindow: the credit both ends start from
    MaxFrame    \* MaxFrame: the most one DATA frame carries

ASSUME WindowAssumption == Window \in Nat \ {0}
ASSUME MaxFrameAssumption == MaxFrame \in Nat \ {0}

VARIABLES
    avail,      \* credit.avail at the sender
    wire,       \* bytes debited and not yet seen by the receiver
    held,       \* connOutstanding: received, not yet consumed
    owed,       \* connConsumed: consumed since the last WINDOW
    granted,    \* WINDOW increments on their way to the sender
    exceeded    \* the receiver ended the session: "connection window exceeded"

vars == <<avail, wire, held, owed, granted, exceeded>>

Half == Window \div 2

Init ==
    /\ avail = Window
    /\ wire = 0
    /\ held = 0
    /\ owed = 0
    /\ granted = 0
    /\ exceeded = FALSE

(* credit.take for one frame: as much as is available, at most MaxFrame. *)
Take(n) ==
    /\ ~exceeded
    /\ n <= avail
    /\ n <= MaxFrame
    /\ avail' = avail - n
    /\ wire' = wire + n
    /\ UNCHANGED <<held, owed, granted, exceeded>>

(* Defect: The threshold forgets to carry the debt accumulated before this call.   *)
ForgetfulCreditLocked(n) ==
    IF owed + n >= Half
      THEN /\ owed' = 0
           /\ granted' = granted + n
      ELSE /\ owed' = owed + n
           /\ UNCHANGED granted

(* Defect: The threshold is a full window instead of half of one.                  *)
LateCreditLocked(n) ==
    IF owed + n > Window
      THEN /\ owed' = 0
           /\ granted' = granted + owed + n
      ELSE /\ owed' = owed + n
           /\ UNCHANGED granted

(* creditLocked: n more bytes are owed; past half a window the whole debt  *)
(* leaves as one WINDOW.                                                   *)
CreditLocked(n) ==
    IF owed + n >= Half
      THEN /\ owed' = 0
           /\ granted' = granted + owed + n
      ELSE /\ owed' = owed + n
           /\ UNCHANGED granted

(* onData: the bytes become outstanding, unless they exceed the window.    *)
Receive(n) ==
    /\ ~exceeded
    /\ n <= wire
    /\ wire' = wire - n
    /\ IF held + n > Window
         THEN exceeded' = TRUE /\ UNCHANGED held
         ELSE held' = held + n /\ UNCHANGED exceeded
    /\ UNCHANGED <<avail, owed, granted>>

(* creditReleased: bytes of a stream that is gone are credited at once.    *)
Discard(n) ==
    /\ ~exceeded
    /\ n <= wire
    /\ wire' = wire - n
    /\ CreditLocked(n)
    /\ UNCHANGED <<avail, held, exceeded>>

(* Defect: consumed credits the bytes but forgets to reduce connOutstanding.       *)
ConsumeStillHeld(n) ==
    /\ ~exceeded
    /\ n <= held
    /\ CreditLocked(n)
    /\ UNCHANGED <<avail, wire, held, exceeded>>

(* consumed: hev read the bytes, or an aborted stream's queue was dropped. *)
Consume(n) ==
    /\ ~exceeded
    /\ n <= held
    /\ held' = held - n
    /\ CreditLocked(n)
    /\ UNCHANGED <<avail, wire, exceeded>>

(* Defect: A WINDOW frame is applied without being consumed, so it applies twice.  *)
RepeatedAdd(n) ==
    /\ ~exceeded
    /\ n <= granted
    /\ avail' = avail + n
    /\ UNCHANGED <<wire, held, owed, granted, exceeded>>

(* credit.add: a WINDOW frame reaches the sender.                          *)
Add(n) ==
    /\ ~exceeded
    /\ n <= granted
    /\ granted' = granted - n
    /\ avail' = avail + n
    /\ UNCHANGED <<wire, held, owed, exceeded>>

Next ==
    \E n \in 1..Window :
        Take(n) \/ Receive(n) \/ Discard(n) \/ Consume(n) \/ Add(n)

Spec == Init /\ [][Next]_vars

-----------------------------------------------------------------------------

(* The window's counters are natural numbers that never exceed the window. *)
TypeOK ==
    /\ avail \in 0..Window
    /\ wire \in 0..Window
    /\ held \in 0..Window
    /\ owed \in 0..Window
    /\ granted \in 0..Window
    /\ exceeded \in BOOLEAN

(* Every byte of credit is in exactly one place: available, on the wire,   *)
(* outstanding, owed or granted (mux.go creditLocked, frame.go takeBoth).  *)
Conserved == avail + wire + held + owed + granted = Window

(* A sender that respects its credit never trips the receiver's check, so  *)
(* no session ends with "connection window exceeded" (mux.go:604).         *)
NeverExceeded == ~exceeded

(* The half-window threshold cannot starve the sender: once everything     *)
(* sent has been consumed and every WINDOW has arrived, the sender holds   *)
(* more than half of the window (mux.go:673).                              *)
NeverStarved == (wire = 0 /\ held = 0 /\ granted = 0) => 2 * avail > Window

=============================================================================
