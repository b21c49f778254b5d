---------------------------- MODULE ExitSlotProofs ----------------------------
(***************************************************************************)
(* For every set of connections and hosts, and any number of tokens and    *)
(* pins: the mux counts the upgrades under way exactly and keeps each of   *)
(* them within CloseAll's reach, holds at most one session, and holds it   *)
(* from the pinned host.                                                   *)
(***************************************************************************)
EXTENDS ExitSlot, FiniteSetTheorems, TLAPS

Places ==
    {"new", "gated", "upgrading", "hello", "accepted", "superseding", "attached", "welcomed",
     "pointing", "serving", "closing", "undoor", "done"}

Typed ==
    /\ pc \in [Conns -> Places]
    /\ prev \in [Conns -> Conns \cup {None}]
    /\ closed \subseteq Conns /\ pending \subseteq Conns
    /\ current \in Conns \cup {None}
    /\ connecting \in Int
    /\ op \in [Callers -> {"idle", "closeall", "closing", "emptydoor"}]
    /\ snap \in [Callers -> SUBSET Conns]

(* Only a session that is about to close another remembers it.             *)
PrevKnown == \A c \in Conns : prev[c] # None => pc[c] = "superseding"

(* A caller of CloseAll holds sessions only until it has closed them: the  *)
(* next collection forgets none.                                           *)
SnapKnown == \A t \in Callers : op[t] # "closing" => snap[t] = {}

(* The upgrades that wait for their HELLO.                                 *)
Connecting == {c \in Conns : pc[c] \in {"upgrading", "hello"}}
Counted == connecting = Cardinality(Connecting)

(* What CloseAll can reach or has closed.                                  *)
Reached == pending \cup closed \cup UNION {snap[t] : t \in Callers}
Reachable == \A c \in Conns : pc[c] = "hello" => c \in Reached

Inv == Typed /\ PrevKnown /\ SnapKnown /\ Counted /\ Reachable /\ AtMostOneSession /\ PinHolds

-----------------------------------------------------------------------------

LEMMA InitInv == Init => Inv
<1> SUFFICES ASSUME Init PROVE Inv
  OBVIOUS
<1>1. Typed /\ PrevKnown /\ SnapKnown /\ Reachable /\ PinHolds
  BY DEF Init, Typed, PrevKnown, SnapKnown, Reachable, PinHolds, Places
<1>2. AtMostOneSession
  BY DEF Init, AtMostOneSession, Attached
<1>3. Connecting = {}
  BY DEF Init, Connecting
<1>4. Counted
  BY <1>3, FS_EmptySet DEF Counted, Init
<1> QED BY <1>1, <1>2, <1>4 DEF Inv

(* A goroutine goes on: the count of upgrades follows.                     *)
LEMMA CountStep ==
    ASSUME Typed, Counted, NEW c \in Conns, NEW l \in Places, Goto(c, l),
           connecting' = IF l \in {"upgrading", "hello"} /\ c \notin Connecting
                         THEN connecting + 1
                         ELSE IF l \notin {"upgrading", "hello"} /\ c \in Connecting
                         THEN connecting - 1 ELSE connecting
    PROVE  Counted'
<1>1. IsFiniteSet(Connecting)
  BY ExitSlotAssumption, FS_Subset DEF Connecting
<1>2. Cardinality(Connecting) \in Nat
  BY <1>1, FS_CardinalityType
<1>3. CASE l \in {"upgrading", "hello"}
  <2>1. Connecting' = Connecting \cup {c}
    BY <1>3 DEF Connecting, Goto, Typed
  <2> QED BY <1>1, <1>2, <1>3, <2>1, FS_AddElement DEF Counted
<1>4. CASE l \notin {"upgrading", "hello"}
  <2>1. Connecting' = Connecting \ {c}
    BY <1>4 DEF Connecting, Goto, Typed
  <2> QED BY <1>1, <1>2, <1>4, <2>1, FS_RemoveElement DEF Counted
<1> QED BY <1>3, <1>4

(* The gate, the upgrade and HELLO (manager.go Gate, mux.go ServeNative).  *)
LEMMA ServeInv ==
    ASSUME Inv, NEW c \in Conns,
           \/ Gate(c) \/ Admit(c) \/ UpgradeFails(c) \/ Upgrade(c) \/ HelloAccepted(c)
           \/ HelloFails(c)
    PROVE  Inv'
<1> USE DEF muxVars, mgrVars
<1>1. /\ Typed' /\ PrevKnown' /\ SnapKnown' /\ PinHolds'
  BY DEF Inv, Typed, PrevKnown, SnapKnown, PinHolds, Places, Gate, Admit, UpgradeFails, Upgrade,
         HelloAccepted, HelloFails, Goto
<1>2. AtMostOneSession'
  BY DEF Inv, Typed, AtMostOneSession, Attached, Places, Gate, Admit, UpgradeFails, Upgrade,
         HelloAccepted, HelloFails, Goto
<1>3. Reachable'
  BY DEF Inv, Typed, Reachable, Reached, Places, Gate, Admit, UpgradeFails, Upgrade,
         HelloAccepted, HelloFails, Goto
<1>4. Counted'
  BY CountStep DEF Inv, Typed, Connecting, Places, Gate, Admit, UpgradeFails, Upgrade,
         HelloAccepted, HelloFails
<1> QED BY <1>1, <1>2, <1>3, <1>4 DEF Inv

(* The attached session, up to its end (mux.go attach, detach, manager.go  *)
(* OnSession, onClose).                                                    *)
LEMMA SessionInv ==
    ASSUME Inv, NEW c \in Conns,
           \/ Attach(c) \/ Supersede(c) \/ Welcome(c) \/ WelcomeFails(c) \/ OnSession(c)
           \/ PointDoor(c) \/ Lost(c) \/ Detach(c) \/ OnClose(c) \/ ClearDoor(c)
    PROVE  Inv'
<1> USE DEF muxVars, mgrVars
<1>1. Typed'
  BY DEF Inv, Typed, Places, Attach, Supersede, Welcome, WelcomeFails, OnSession, PointDoor,
         Lost, Detach, OnClose, ClearDoor, Goto
<1>2. PrevKnown'
  BY DEF Inv, Typed, PrevKnown, Attach, Supersede, Welcome, WelcomeFails, OnSession, PointDoor,
         Lost, Detach, OnClose, ClearDoor, Goto
<1>3. SnapKnown'
  BY DEF Inv, SnapKnown, Attach, Supersede, Welcome, WelcomeFails, OnSession, PointDoor, Lost,
         Detach, OnClose, ClearDoor
<1>4. PinHolds'
  BY DEF Inv, Typed, PinHolds, Pinned, Attach, Supersede, Welcome, WelcomeFails, OnSession,
         PointDoor, Lost, Detach, OnClose, ClearDoor
<1>5. AtMostOneSession'
  <2>1. CASE Attach(c)
    BY <2>1, ExitSlotAssumption DEF Inv, Typed, PrevKnown, AtMostOneSession, Attached, Attach, Goto
  <2>2. CASE Supersede(c)
    BY <2>2 DEF Inv, Typed, PrevKnown, AtMostOneSession, Attached, Supersede, Goto
  <2>3. CASE ~Attach(c) /\ ~Supersede(c)
    BY <2>3 DEF Inv, Typed, AtMostOneSession, Attached, Welcome, WelcomeFails, OnSession,
           PointDoor, Lost, Detach, OnClose, ClearDoor, Goto
  <2> QED BY <2>1, <2>2, <2>3
<1>6. Reachable'
  BY DEF Inv, Typed, Reachable, Reached, Attach, Supersede, Welcome, WelcomeFails, OnSession,
         PointDoor, Lost, Detach, OnClose, ClearDoor, Goto
<1>7. Counted'
  <2>1. CASE Lost(c)
    BY <2>1 DEF Inv, Counted, Connecting, Lost
  <2>2. CASE ~Lost(c)
    BY <2>2, CountStep DEF Inv, Connecting, Places, Attach, Supersede, Welcome, WelcomeFails,
           OnSession, PointDoor, Detach, OnClose, ClearDoor
  <2> QED BY <2>1, <2>2
<1> QED BY <1>1, <1>2, <1>3, <1>4, <1>5, <1>6, <1>7 DEF Inv

(* The manager's transactions (manager.go, mux.go CloseAll, SetPinPeer).   *)
LEMMA ManagerInv ==
    ASSUME Inv,
           \/ RegenerateToken \/ Disconnect \/ Disable \/ EmptyDoor
           \/ \E t \in Callers : CloseAll(t) \/ CloseAllCloses(t)
           \/ \E pin \in BOOLEAN : SetPinPeer(pin)
    PROVE  Inv'
<1> USE DEF muxVars, mgrVars
<1>1. Typed'
  BY DEF Inv, Typed, RegenerateToken, Disconnect, Disable, EmptyDoor, CloseAll, CloseAllCloses,
         SetPinPeer, Callers
<1>2. PrevKnown' /\ Counted'
  BY DEF Inv, PrevKnown, Counted, Connecting, RegenerateToken, Disconnect, Disable, EmptyDoor,
         CloseAll, CloseAllCloses, SetPinPeer
<1>3. SnapKnown'
  BY DEF Inv, Typed, SnapKnown, RegenerateToken, Disconnect, Disable, EmptyDoor, CloseAll,
         CloseAllCloses, SetPinPeer, Callers
<1>4. PinHolds'
  BY DEF Inv, Typed, PinHolds, RegenerateToken, Disconnect, Disable, EmptyDoor, CloseAll,
         CloseAllCloses, SetPinPeer
<1>5. AtMostOneSession'
  BY DEF Inv, Typed, AtMostOneSession, RegenerateToken, Disconnect, Disable, EmptyDoor, CloseAll,
         CloseAllCloses, SetPinPeer
<1>6. Reached \subseteq Reached'
  BY DEF Inv, Typed, SnapKnown, Reached, RegenerateToken, Disconnect, Disable, EmptyDoor,
         CloseAll, CloseAllCloses, SetPinPeer, Callers
<1>7. Reachable'
  BY <1>6 DEF Inv, Reachable, RegenerateToken, Disconnect, Disable, EmptyDoor, CloseAll,
         CloseAllCloses, SetPinPeer
<1> QED BY <1>1, <1>2, <1>3, <1>4, <1>5, <1>7 DEF Inv

(* The invariant is inductive.                                             *)
LEMMA NextInv == Inv /\ [Next]_vars => Inv'
<1> SUFFICES ASSUME Inv, [Next]_vars PROVE Inv'
  OBVIOUS
<1>1. CASE UNCHANGED vars
  BY <1>1 DEF vars, Inv, Typed, PrevKnown, SnapKnown, Counted, Connecting, Reachable, Reached,
         AtMostOneSession, PinHolds
<1> QED BY <1>1, ServeInv, SessionInv, ManagerInv DEF Next, Serve

(* An upgrade is counted as long as it waits for its HELLO, whatever fails *)
(* or is closed meanwhile, and no waiting session is out of CloseAll's     *)
(* reach (mux.go ServeNative, Connecting, CloseAll).                       *)
THEOREM ConnectingTheorem == Spec => []ConnectingExact
<1>1. Inv => ConnectingExact
  BY DEF Inv, Counted, Connecting, Reachable, Reached, ConnectingExact
<1> QED BY <1>1, InitInv, NextInv, PTL DEF Spec

(* A session that another one superseded is closed, or is about to be      *)
(* (mux.go attach, detach).                                                *)
THEOREM OneSessionTheorem == Spec => []AtMostOneSession
<1>1. Inv => AtMostOneSession
  BY DEF Inv
<1> QED BY <1>1, InitInv, NextInv, PTL DEF Spec

(* However attach races with SetPinPeer, an armed pin names the host of    *)
(* the attached session (mux.go attach, SetPinPeer).                       *)
THEOREM PinTheorem == Spec => []PinHolds
<1>1. Inv => PinHolds
  BY DEF Inv
<1> QED BY <1>1, InitInv, NextInv, PTL DEF Spec
=============================================================================
