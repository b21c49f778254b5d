------------------------------- MODULE ExitSlot -------------------------------
(***************************************************************************)
(* The native sessions of one exit slot: who is admitted, who is attached, *)
(* and which session the front door sends hev's connections to.  Composes  *)
(* the token gate and the session hooks of exit/manager.go, the Mux of     *)
(* exit/mux.go (ServeNative, attach, detach, CloseAll, SetPinPeer) and the *)
(* front door's backend of exit/socks.go.  Every connection is one         *)
(* goroutine running Gate and ServeNative; a step ends where the code      *)
(* unlocks.                                                                *)
(***************************************************************************)
EXTENDS Integers, FiniteSets

CONSTANTS
    Conns,      \* incoming connections, each of which may become a session
    Hosts,      \* their peer hosts
    HostOf,     \* hostOf(RemoteAddr): Conns -> Hosts
    MaxEpoch,   \* bound: tokens issued after the first
    MaxPins     \* bound: SetPinPeer calls that arm the pin

None == "none"
Callers == {"opMu", "disconnect"}

ASSUME ExitSlotAssumption ==
    /\ IsFiniteSet(Conns)
    /\ HostOf \in [Conns -> Hosts]
    /\ None \notin Conns \cup Hosts
    /\ {MaxEpoch, MaxPins} \subseteq Nat

VARIABLES
    pc,         \* where each connection's goroutine is
    tok,        \* epoch of the token each connection presented
    prev,       \* the session each attach superseded, until it is closed
    closed,     \* sessions whose done channel is closed
    pending,    \* Mux.pending
    current,    \* Mux.current, or None
    connecting, \* Mux.connecting
    pinPeer, pinnedHost,
    door,       \* FrontDoor.native, or None
    epoch,      \* which token the slot's config holds
    comps,      \* the slot has its components: s.comps # nil
    op,         \* where each caller of CloseAll is: the transaction under opMu,
                \* and Disconnect, which does not take opMu
    snap,       \* the sessions its CloseAll collected under the Mux's lock
    pins        \* times the pin was armed

vars == <<pc, tok, prev, closed, pending, current, connecting, pinPeer, pinnedHost,
          door, epoch, comps, op, snap, pins>>
muxVars == <<pending, current, connecting, pinPeer, pinnedHost>>
mgrVars == <<epoch, comps, op, snap, pins>>

Init ==
    /\ pc = [c \in Conns |-> "new"]
    /\ tok = [c \in Conns |-> 0]
    /\ prev = [c \in Conns |-> None]
    /\ closed = {}
    /\ pending = {}
    /\ current = None
    /\ connecting = 0
    /\ pinPeer = FALSE /\ pinnedHost = None
    /\ door = None
    /\ epoch = 0
    /\ comps = TRUE
    /\ op = [t \in Callers |-> "idle"]
    /\ snap = [t \in Callers |-> {}]
    /\ pins = 0

Goto(c, l) == pc' = [pc EXCEPT ![c] = l]
Pinned(c) == pinPeer /\ pinnedHost # None /\ HostOf[c] # pinnedHost

-----------------------------------------------------------------------------
(* Gate, then ServeNative.                                                 *)

(* The exit presents the current token on an enabled slot.                 *)
Gate(c) ==
    /\ pc[c] = "new"
    /\ comps
    /\ tok' = [tok EXCEPT ![c] = epoch]
    /\ Goto(c, "gated")
    /\ UNCHANGED <<prev, closed, muxVars, door, mgrVars>>

(* The pin is checked before the upgrade.                                  *)
Admit(c) ==
    /\ pc[c] = "gated"
    /\ IF Pinned(c)
         THEN Goto(c, "done") /\ UNCHANGED connecting
         ELSE Goto(c, "upgrading") /\ connecting' = connecting + 1
    /\ UNCHANGED <<tok, prev, closed, pending, current, pinPeer, pinnedHost, door, mgrVars>>

(* Defect: the early return forgets connecting.                            *)
UpgradeFailsUncounted(c) ==
    /\ pc[c] = "upgrading"
    /\ Goto(c, "done")
    /\ UNCHANGED <<tok, prev, closed, muxVars, door, mgrVars>>

UpgradeFails(c) ==
    /\ pc[c] = "upgrading"
    /\ connecting' = connecting - 1
    /\ Goto(c, "done")
    /\ UNCHANGED <<tok, prev, closed, pending, current, pinPeer, pinnedHost, door, mgrVars>>

(* Upgraded: the session waits for its HELLO where CloseAll can see it.    *)
Upgrade(c) ==
    /\ pc[c] = "upgrading"
    /\ pending' = pending \cup {c}
    /\ Goto(c, "hello")
    /\ UNCHANGED <<tok, prev, closed, current, connecting, pinPeer, pinnedHost, door, mgrVars>>

(* HELLO arrived on a session CloseAll has not removed.                    *)
HelloAccepted(c) ==
    /\ pc[c] = "hello"
    /\ c \in pending /\ c \notin closed
    /\ connecting' = connecting - 1
    /\ pending' = pending \ {c}
    /\ Goto(c, "accepted")
    /\ UNCHANGED <<tok, prev, closed, current, pinPeer, pinnedHost, door, mgrVars>>

(* No or a bad HELLO, or the session was closed meanwhile.                 *)
HelloFails(c) ==
    /\ pc[c] = "hello"
    /\ connecting' = connecting - 1
    /\ pending' = pending \ {c}
    /\ closed' = closed \cup {c}
    /\ Goto(c, "done")
    /\ UNCHANGED <<tok, prev, current, pinPeer, pinnedHost, door, mgrVars>>

(* Defect: attach does not re-check the pin the first check raced with.    *)
AttachUnchecked(c) ==
    /\ pc[c] = "accepted"
    /\ current' = c
    /\ prev' = [prev EXCEPT ![c] = current]
    /\ pinnedHost' = IF pinPeer /\ pinnedHost = None THEN HostOf[c] ELSE pinnedHost
    /\ Goto(c, "superseding")
    /\ UNCHANGED <<tok, closed, pending, connecting, pinPeer, door, mgrVars>>

(* attach: the pin again, then the session becomes the current one ...     *)
Attach(c) ==
    /\ pc[c] = "accepted"
    /\ IF Pinned(c)
         THEN /\ Goto(c, "done")
              /\ closed' = closed \cup {c}
              /\ UNCHANGED <<current, prev, pinnedHost>>
         ELSE /\ current' = c
              /\ prev' = [prev EXCEPT ![c] = current]
              /\ pinnedHost' = IF pinPeer THEN HostOf[c] ELSE pinnedHost
              /\ Goto(c, "superseding")
              /\ UNCHANGED closed
    /\ UNCHANGED <<tok, pending, connecting, pinPeer, door, mgrVars>>

(* Defect: the superseded session is left to notice by itself.             *)
SupersedeLeavesOpen(c) ==
    /\ pc[c] = "superseding"
    /\ prev' = [prev EXCEPT ![c] = None]
    /\ Goto(c, "attached")
    /\ UNCHANGED <<tok, closed, muxVars, door, mgrVars>>

(* ... and, the lock released, the previous one is closed.                 *)
Supersede(c) ==
    /\ pc[c] = "superseding"
    /\ closed' = closed \cup ({prev[c]} \ {None})
    /\ prev' = [prev EXCEPT ![c] = None]
    /\ Goto(c, "attached")
    /\ UNCHANGED <<tok, muxVars, door, mgrVars>>

(* sendWelcome on a closed session may still find room in writeCh.         *)
Welcome(c) ==
    /\ pc[c] = "attached"
    /\ Goto(c, "welcomed")
    /\ UNCHANGED <<tok, prev, closed, muxVars, door, mgrVars>>

(* Defect: the error path returns without detach.                          *)
WelcomeFailsAttached(c) ==
    /\ pc[c] = "attached"
    /\ c \in closed
    /\ Goto(c, "done")
    /\ UNCHANGED <<tok, prev, closed, muxVars, door, mgrVars>>

WelcomeFails(c) ==
    /\ pc[c] = "attached"
    /\ c \in closed
    /\ current' = IF current = c THEN None ELSE current
    /\ Goto(c, "done")
    /\ UNCHANGED <<tok, prev, closed, pending, connecting, pinPeer, pinnedHost, door, mgrVars>>

(* OnSession: the manager reads the slot's components ...                  *)
OnSession(c) ==
    /\ pc[c] = "welcomed"
    /\ Goto(c, IF comps THEN "pointing" ELSE "serving")
    /\ UNCHANGED <<tok, prev, closed, muxVars, door, mgrVars>>

(* ... and, unlocked, points their front door at the session.              *)
PointDoor(c) ==
    /\ pc[c] = "pointing"
    /\ door' = c
    /\ Goto(c, "serving")
    /\ UNCHANGED <<tok, prev, closed, muxVars, mgrVars>>

(* The connection is lost, the exit leaves or a ping goes unanswered.      *)
Lost(c) ==
    /\ pc[c] \in {"attached", "welcomed", "pointing", "serving"}
    /\ c \notin closed
    /\ closed' = closed \cup {c}
    /\ UNCHANGED <<pc, tok, prev, muxVars, door, mgrVars>>

(* readLoop returned: detach and finish (every stream reset toward hev).   *)
Detach(c) ==
    /\ pc[c] = "serving"
    /\ c \in closed
    /\ current' = IF current = c THEN None ELSE current
    /\ Goto(c, "closing")
    /\ UNCHANGED <<tok, prev, closed, pending, connecting, pinPeer, pinnedHost, door, mgrVars>>

(* onClose reads Mux.Current: a session that is not current leaves the     *)
(* door alone ...                                                          *)
OnClose(c) ==
    /\ pc[c] = "closing"
    /\ Goto(c, IF comps /\ current \in {None, c} THEN "undoor" ELSE "done")
    /\ UNCHANGED <<tok, prev, closed, muxVars, door, mgrVars>>

(* ... and otherwise clears it, with no lock held in between.              *)
ClearDoor(c) ==
    /\ pc[c] = "undoor"
    /\ door' = None
    /\ Goto(c, "done")
    /\ UNCHANGED <<tok, prev, closed, muxVars, mgrVars>>

-----------------------------------------------------------------------------
(* The manager's transactions.                                             *)

(* RegenerateToken publishes the new token, then closes every session.     *)
RegenerateToken ==
    /\ op["opMu"] = "idle" /\ epoch < MaxEpoch
    /\ epoch' = epoch + 1
    /\ op' = [op EXCEPT !["opMu"] = IF comps THEN "closeall" ELSE "idle"]
    /\ UNCHANGED <<pc, tok, prev, closed, muxVars, door, comps, snap, pins>>

(* Disconnect closes every session and changes nothing else.               *)
Disconnect ==
    /\ op["disconnect"] = "idle" /\ comps
    /\ op' = [op EXCEPT !["disconnect"] = "closeall"]
    /\ UNCHANGED <<pc, tok, prev, closed, muxVars, door, epoch, comps, snap, pins>>

(* Disable: stopComponents takes the components away, closes every session *)
(* and empties the door.                                                   *)
Disable ==
    /\ op["opMu"] = "idle" /\ comps
    /\ comps' = FALSE
    /\ op' = [op EXCEPT !["opMu"] = "closeall"]
    /\ UNCHANGED <<pc, tok, prev, closed, muxVars, door, epoch, snap, pins>>

(* CloseAll collects the attached and the pending sessions ...             *)
CloseAll(t) ==
    /\ op[t] = "closeall"
    /\ snap' = [snap EXCEPT ![t] = pending \cup ({current} \ {None})]
    /\ pending' = {}
    /\ op' = [op EXCEPT ![t] = "closing"]
    /\ UNCHANGED <<pc, tok, prev, closed, current, connecting, pinPeer, pinnedHost, door,
                   epoch, comps, pins>>

(* ... and, unlocked, closes them.                                         *)
CloseAllCloses(t) ==
    /\ op[t] = "closing"
    /\ closed' = closed \cup snap[t]
    /\ snap' = [snap EXCEPT ![t] = {}]
    /\ op' = [op EXCEPT ![t] = IF t = "opMu" /\ ~comps THEN "emptydoor" ELSE "idle"]
    /\ UNCHANGED <<pc, tok, prev, muxVars, door, epoch, comps, pins>>

(* stopComponents then detaches the front door.                            *)
EmptyDoor ==
    /\ op["opMu"] = "emptydoor"
    /\ door' = None
    /\ op' = [op EXCEPT !["opMu"] = "idle"]
    /\ UNCHANGED <<pc, tok, prev, closed, muxVars, epoch, comps, snap, pins>>

(* SetPinPeer: arming pins the attached host, clearing forgets it.         *)
SetPinPeer(pin) ==
    /\ pin => pins < MaxPins
    /\ pins' = IF pin THEN pins + 1 ELSE pins
    /\ pinPeer' = pin
    /\ pinnedHost' = IF ~pin THEN None
                     ELSE IF current # None THEN HostOf[current] ELSE pinnedHost
    /\ UNCHANGED <<pc, tok, prev, closed, pending, current, connecting, door,
                   epoch, comps, op, snap>>

Serve(c) ==
    \/ Admit(c) \/ Upgrade(c) \/ UpgradeFails(c) \/ HelloAccepted(c) \/ HelloFails(c)
    \/ Attach(c) \/ Supersede(c) \/ Welcome(c) \/ WelcomeFails(c) \/ OnSession(c)
    \/ PointDoor(c) \/ Detach(c) \/ OnClose(c) \/ ClearDoor(c)

Transaction(t) == CloseAll(t) \/ CloseAllCloses(t) \/ (t = "opMu" /\ EmptyDoor)

Next ==
    \/ \E c \in Conns : Gate(c) \/ Serve(c) \/ Lost(c)
    \/ RegenerateToken \/ Disconnect \/ Disable \/ EmptyDoor
    \/ \E t \in Callers : CloseAll(t) \/ CloseAllCloses(t)
    \/ \E pin \in BOOLEAN : SetPinPeer(pin)

(* A goroutine past the gate runs on (HELLO and writes have timeouts), and *)
(* a transaction that began completes.  No exit is assumed to connect or   *)
(* to leave.                                                               *)
Fairness == /\ \A c \in Conns : WF_vars(Serve(c))
            /\ \A t \in Callers : WF_vars(Transaction(t))

Spec == Init /\ [][Next]_vars /\ Fairness

-----------------------------------------------------------------------------

(* "Connecting" is reported exactly while an upgrade waits for its HELLO,  *)
(* and every session still waiting is one CloseAll can reach or has closed *)
(* (mux.go ServeNative, Connecting).                                       *)
ConnectingExact ==
    /\ connecting = Cardinality({c \in Conns : pc[c] \in {"upgrading", "hello"}})
    /\ \A c \in Conns : pc[c] = "hello" => c \in pending \cup closed \cup UNION {snap[t] : t \in Callers}

Attached == {"superseding", "attached", "welcomed", "pointing", "serving"}

(* The mux holds at most one session: an attached session that is not the  *)
(* current one is closed, or about to be by the session that superseded it *)
(* (mux.go attach, detach).                                                *)
AtMostOneSession ==
    \A c \in Conns :
        (pc[c] \in Attached /\ c # current) => (c \in closed \/ \E d \in Conns : prev[d] = c)

(* While the pin is armed, the attached session comes from the pinned host *)
(* (mux.go SetPinPeer, attach).                                            *)
PinHolds == (pinPeer /\ current # None) => HostOf[current] = pinnedHost

(* A session that CloseAll finds pending or attached never serves again:   *)
(* once closed, its goroutine ends and it leaves the mux (mux.go CloseAll, *)
(* ServeNative).                                                           *)
ClosedLeaves == \A c \in Conns : c \in closed ~> (pc[c] = "done" /\ current # c)

-----------------------------------------------------------------------------
(* What the comments of the code promise of the hand-overs.                *)

Open(c) == pc[c] \in Attached /\ c \notin closed

(* MGR-7: once RegenerateToken or Disable has returned, no session         *)
(* admitted before it is attached.                                         *)
RevokedNeverAttached ==
    op["opMu"] = "idle" => \A c \in Conns : Open(c) => comps /\ tok[c] = epoch

Settled ==
    /\ \A t \in Callers : op[t] = "idle"
    /\ comps
    /\ \A c \in Conns : pc[c] \in {"new", "done"} \/ (pc[c] = "serving" /\ c \notin closed)

(* "a superseded session's close must not undo the new session's attach":  *)
(* with every goroutine at rest and a session attached, the door it was    *)
(* given is not empty.                                                     *)
DoorNotUndone == (Settled /\ current # None) => door # None
=============================================================================
