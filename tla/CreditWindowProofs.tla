-------------------------- MODULE CreditWindowProofs --------------------------
(***************************************************************************)
(* Machine-checked proofs about the credit window, for every window size   *)
(* and every frame size.                                                   *)
(***************************************************************************)
EXTENDS CreditWindow, TLAPS

(* Conservation alone is not inductive: the threshold also bounds the debt *)
(* the receiver may keep for itself, and that bound is what rules out a    *)
(* starved sender.                                                         *)
OwedBelowHalf == owed = 0 \/ owed < Half

IInv == TypeOK /\ Conserved /\ NeverExceeded /\ OwedBelowHalf

(* The receiver's bookkeeping step moves the n bytes into owed or granted  *)
(* without losing any, and keeps the debt below half a window.             *)
LEMMA CreditLockedMoves ==
    ASSUME owed \in Nat, granted \in Nat, NEW n \in 1..Window, CreditLocked(n)
    PROVE  /\ \/ owed' = 0 /\ granted' = granted + owed + n
              \/ owed' = owed + n /\ granted' = granted
           /\ OwedBelowHalf'
  <1>1. Half \in Nat /\ n \in Nat
    BY WindowAssumption DEF Half
  <1>2. CASE owed + n >= Half
    BY <1>2 DEF CreditLocked, OwedBelowHalf
  <1>3. CASE owed + n < Half
    BY <1>1, <1>3, WindowAssumption DEF CreditLocked, OwedBelowHalf, Half
  <1> QED BY <1>1, <1>2, <1>3

(* The initial state satisfies the inductive invariant.                    *)
LEMMA InitIInv == Init => IInv
  <1> SUFFICES ASSUME Init PROVE IInv
    OBVIOUS
  <1>1. Window \in Nat /\ avail = Window /\ wire = 0 /\ held = 0 /\ owed = 0 /\ granted = 0
    BY WindowAssumption DEF Init
  <1>2. exceeded \in BOOLEAN /\ NeverExceeded
    BY Zenon DEF Init, NeverExceeded
  <1>3. TypeOK
    BY <1>1, <1>2 DEF TypeOK
  <1>4. Conserved /\ OwedBelowHalf
    BY <1>1 DEF Conserved, OwedBelowHalf
  <1> QED BY <1>2, <1>3, <1>4 DEF IInv

(* Every step of the window preserves the inductive invariant.             *)
LEMMA NextIInv == IInv /\ [Next]_vars => IInv'
  <1> SUFFICES ASSUME IInv, [Next]_vars PROVE IInv'
    OBVIOUS
  <1>0. /\ avail \in Nat /\ wire \in Nat /\ held \in Nat /\ owed \in Nat /\ granted \in Nat
        /\ avail + wire + held + owed + granted = Window
        /\ Window \in Nat
    BY WindowAssumption DEF IInv, TypeOK, Conserved
  <1>1. CASE UNCHANGED vars
    BY <1>1 DEF IInv, vars, TypeOK, Conserved, NeverExceeded, OwedBelowHalf, Half
  <1>2. CASE Next
    <2>0. PICK n \in 1..Window :
            Take(n) \/ Receive(n) \/ Discard(n) \/ Consume(n) \/ Add(n)
      BY <1>2 DEF Next
    <2>1. CASE Take(n)
      BY <2>1, WindowAssumption DEF IInv, Take, TypeOK, Conserved, NeverExceeded, OwedBelowHalf, Half
    <2>2. CASE Receive(n)
      <3>1. held + n <= Window
        BY <1>0, <2>2 DEF Receive
      <3> QED
        BY <2>2, <3>1, WindowAssumption
        DEF IInv, Receive, TypeOK, Conserved, NeverExceeded, OwedBelowHalf, Half
    <2>3. CASE Discard(n)
      <3>1. /\ \/ owed' = 0 /\ granted' = granted + owed + n
               \/ owed' = owed + n /\ granted' = granted
            /\ OwedBelowHalf'
        BY <1>0, <2>3, CreditLockedMoves DEF Discard
      <3>2. avail' = avail /\ wire' = wire - n /\ held' = held /\ n <= wire
        BY <2>3 DEF Discard
      <3>3. NeverExceeded' /\ exceeded' \in BOOLEAN
        BY <2>3 DEF Discard, NeverExceeded, IInv, TypeOK
      <3>4. CASE owed' = 0 /\ granted' = granted + owed + n
        BY <1>0, <3>1, <3>2, <3>3, <3>4 DEF IInv, TypeOK, Conserved
      <3>5. CASE owed' = owed + n /\ granted' = granted
        BY <1>0, <3>1, <3>2, <3>3, <3>5 DEF IInv, TypeOK, Conserved
      <3> QED BY <3>1, <3>4, <3>5
    <2>4. CASE Consume(n)
      <3>1. /\ \/ owed' = 0 /\ granted' = granted + owed + n
               \/ owed' = owed + n /\ granted' = granted
            /\ OwedBelowHalf'
        BY <1>0, <2>4, CreditLockedMoves DEF Consume
      <3>2. avail' = avail /\ wire' = wire /\ held' = held - n /\ n <= held
        BY <2>4 DEF Consume
      <3>3. NeverExceeded' /\ exceeded' \in BOOLEAN
        BY <2>4 DEF Consume, NeverExceeded, IInv, TypeOK
      <3>4. CASE owed' = 0 /\ granted' = granted + owed + n
        BY <1>0, <3>1, <3>2, <3>3, <3>4 DEF IInv, TypeOK, Conserved
      <3>5. CASE owed' = owed + n /\ granted' = granted
        BY <1>0, <3>1, <3>2, <3>3, <3>5 DEF IInv, TypeOK, Conserved
      <3> QED BY <3>1, <3>4, <3>5
    <2>5. CASE Add(n)
      BY <2>5, WindowAssumption DEF IInv, Add, TypeOK, Conserved, NeverExceeded, OwedBelowHalf, Half
    <2> QED BY <2>0, <2>1, <2>2, <2>3, <2>4, <2>5
  <1> QED BY <1>1, <1>2

(* The inductive invariant holds in every reachable state.                 *)
LEMMA SpecIInv == Spec => []IInv
  BY InitIInv, NextIInv, PTL DEF Spec

(* The counters of a credit window stay within the window.                 *)
THEOREM TypeCorrect == Spec => []TypeOK
  <1>1. IInv => TypeOK
    BY DEF IInv
  <1> QED BY SpecIInv, <1>1, PTL

(* No byte of credit is ever lost or duplicated (mux.go creditLocked,      *)
(* consumed, creditReleased; frame.go credit.take, credit.add).            *)
THEOREM CreditConserved == Spec => []Conserved
  <1>1. IInv => Conserved
    BY DEF IInv
  <1> QED BY SpecIInv, <1>1, PTL

(* Two ends that follow the protocol never meet the session error          *)
(* "connection window exceeded" of mux.go onData.                          *)
THEOREM WindowNeverExceeded == Spec => []NeverExceeded
  <1>1. IInv => NeverExceeded
    BY DEF IInv
  <1> QED BY SpecIInv, <1>1, PTL

(* A sender whose bytes were all consumed and whose grants all arrived     *)
(* holds more than half of the window, whatever the window.                *)
THEOREM SenderNeverStarved == Spec => []NeverStarved
  <1>1. IInv => NeverStarved
    <2> SUFFICES ASSUME IInv, wire = 0, held = 0, granted = 0
                 PROVE  2 * avail > Window
      BY DEF NeverStarved
    <2>1. avail + owed = Window
      BY DEF IInv, TypeOK, Conserved
    <2>2. 2 * owed < Window
      BY WindowAssumption DEF IInv, TypeOK, OwedBelowHalf, Half
    <2> QED BY <2>1, <2>2, WindowAssumption DEF IInv, TypeOK
  <1> QED BY SpecIInv, <1>1, PTL
=============================================================================
