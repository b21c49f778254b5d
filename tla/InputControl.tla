----------------------------- MODULE InputControl -----------------------------
(***************************************************************************)
(* Who may write to the target's keyboard and mouse.  Composes the control *)
(* mode and its activity gate (controlmode/manager.go, activity.go), the   *)
(* coordinator of manual and automated input (inputcontrol/coordinator.go),*)
(* the clients that send manual reports and the workers that write them    *)
(* (ws/client.go, hid/keyboard.go, hid/mouse.go), and the callers that     *)
(* automate: MCP tools (mcp/server.go) and the jiggler (vm/jiggler).       *)
(*                                                                         *)
(* A step ends where the code unlocks a mutex or waits.  The two mouse     *)
(* devices are one kind here.  The mode file is written by the manager     *)
(* alone.                                                                  *)
(***************************************************************************)
EXTENDS Integers, Sequences, FiniteSets

CONSTANTS
    Clients,        \* connections that send manual reports
    Kinds,          \* the devices they send them to
    Callers,        \* goroutines that automate input
    Jigglers,       \* those of them that are the jiggler; the others are MCP tools
    MaxReports,     \* bound: reports of one client
    MaxSwitches,    \* bound: mode switches
    MaxFaults       \* bound: failed writes, hooks and saves

None == "none"
Modes == {"off", "mcp", "picoclaw"}

ASSUME InputControlAssumption ==
    /\ IsFiniteSet(Clients) /\ IsFiniteSet(Callers) /\ Jigglers \subseteq Callers
    /\ Kinds \subseteq {"keyboard", "mouse"}
    /\ None \notin Callers
    /\ {MaxReports, MaxSwitches, MaxFaults} \subseteq Nat

VARIABLES
    mode, transitioning,    \* Manager.mode, transitioning
    shared, exclusive,      \* activityGate.active, exclusive
    sw,                     \* the switch that holds transitionMu
    lane, cancelled,        \* Coordinator.active: its caller, or None; ctx cancelled
    manualSessions,         \* Coordinator.manualSessions
    cooling,                \* now is before Coordinator.manualUntil
    ses,                    \* each client's ManualSession
    reader,                 \* where each client's reader is, with the report in hand
    queue,                  \* its queues of reserved reports
    worker,                 \* where the workers of its queues are
    caller,                 \* where each caller is
    sent, switches, faults

modeVars == <<mode, transitioning, exclusive, sw, switches>>
laneVars == <<lane, cancelled>>
clientVars == <<ses, reader, queue, worker, sent>>
vars == <<modeVars, shared, laneVars, manualSessions, cooling, clientVars, caller, faults>>

NoHeld == [k \in Kinds |-> FALSE]
NoReport == [kind |-> None, held |-> FALSE, cool |-> FALSE, gen |-> 0]

(* The reports a client sends: a keyboard report, and a mouse report that  *)
(* presses, releases or scrolls, start the cooldown; a move does not.      *)
Reports ==
    {r \in [kind : Kinds, held : BOOLEAN, cool : BOOLEAN, gen : {0}] :
        (r.kind = "keyboard" \/ r.held) => r.cool}

Init ==
    /\ mode \in Modes /\ transitioning = FALSE
    /\ shared = 0 /\ exclusive = FALSE
    /\ sw = [pc |-> "idle", next |-> "off"]
    /\ lane = None /\ cancelled = FALSE
    /\ manualSessions = 0 /\ cooling = FALSE
    /\ ses = [c \in Clients |-> [active |-> FALSE, closed |-> FALSE, generation |-> 0,
                                 pending |-> 0, held |-> NoHeld, cooldownOnIdle |-> FALSE]]
    /\ reader = [c \in Clients |-> [pc |-> "idle", rep |-> NoReport, op |-> None]]
    /\ queue = [c \in Clients |-> [k \in Kinds |-> <<>>]]
    /\ worker = [c \in Clients |-> [k \in Kinds |->
                    [pc |-> "run", rep |-> NoReport, cool |-> FALSE, down |-> FALSE]]]
    /\ caller = [m \in Callers |-> "idle"]
    /\ sent = [c \in Clients |-> 0] /\ switches = 0 /\ faults = 0

Step == UNCHANGED faults
Fault == faults < MaxFaults /\ faults' = faults + 1

-----------------------------------------------------------------------------
(* The activity gate, and the coordinator's count.                         *)

AcquireShared == ~exclusive /\ shared' = shared + 1
ReleaseShared == shared' = IF shared > 0 THEN shared - 1 ELSE shared

(* Defect: a session that ends stays counted.                              *)
EndManualCounted(cool) == manualSessions' = manualSessions /\ cooling' = (cooling \/ cool)

EndManual(cool) ==
    /\ manualSessions' = IF manualSessions > 0 THEN manualSessions - 1 ELSE 0
    /\ cooling' = (cooling \/ (cool /\ manualSessions' = 0))

CooldownElapses ==
    /\ Step
    /\ cooling
    /\ cooling' = FALSE
    /\ UNCHANGED <<modeVars, shared, laneVars, manualSessions, clientVars, caller>>

-----------------------------------------------------------------------------
(* SwitchWithCleanup, SwitchIfWithCleanup                                  *)

Switching(pc) == sw' = [sw EXCEPT !.pc = pc]

SwitchStart(next) ==
    /\ Step
    /\ sw.pc = "idle" /\ mode # next /\ switches < MaxSwitches
    /\ switches' = switches + 1
    /\ transitioning' = TRUE
    /\ sw' = [pc |-> "preempt", next |-> next]
    /\ UNCHANGED <<mode, shared, exclusive, laneVars, manualSessions, cooling, clientVars, caller>>

(* The preempt hook: CancelMCP, then picoclaw's leases, which may fail.    *)
Preempt ==
    /\ sw.pc = "preempt"
    /\ cancelled' = (lane # None)
    /\ \/ Step /\ Switching("wait")
       \/ Fault /\ Switching("ending")
    /\ UNCHANGED <<mode, transitioning, exclusive, switches, shared, lane, manualSessions, cooling,
                   clientVars, caller>>

(* Defect: the gate is taken from those who share it.                      *)
AcquireExclusiveShared ==
    /\ Step
    /\ sw.pc = "wait"
    /\ exclusive' = TRUE
    /\ Switching("cleanup")
    /\ UNCHANGED <<mode, transitioning, switches, shared, laneVars, manualSessions, cooling,
                   clientVars, caller>>

(* acquireExclusive: when nobody shares the gate, or not in time.          *)
AcquireExclusive ==
    /\ Step
    /\ sw.pc = "wait" /\ shared = 0
    /\ exclusive' = TRUE
    /\ Switching("cleanup")
    /\ UNCHANGED <<mode, transitioning, switches, shared, laneVars, manualSessions, cooling,
                   clientVars, caller>>

(* Defect: the flag is cleared only by a switch that went through.         *)
WaitTimesOutFlagged ==
    /\ Step
    /\ sw.pc = "wait"
    /\ Switching("idle")
    /\ UNCHANGED <<mode, transitioning, exclusive, switches, shared, laneVars, manualSessions,
                   cooling, clientVars, caller>>

WaitTimesOut ==
    /\ Step
    /\ sw.pc = "wait"
    /\ Switching("ending")
    /\ UNCHANGED <<mode, transitioning, exclusive, switches, shared, laneVars, manualSessions,
                   cooling, clientVars, caller>>

(* The cleanup hook, then save: the new mode; "off" when the hook fails;   *)
(* or the old mode when the file cannot be written.                        *)
CleanupAndSave ==
    /\ sw.pc = "cleanup"
    /\ \/ Step /\ mode' = sw.next
       \/ Fault /\ mode' = "off"
       \/ Fault /\ UNCHANGED mode
    /\ Switching("release")
    /\ UNCHANGED <<transitioning, exclusive, switches, shared, laneVars, manualSessions, cooling,
                   clientVars, caller>>

(* Defect: the gate stays closed.                                          *)
ReleaseExclusiveNot ==
    /\ Step
    /\ sw.pc = "release"
    /\ Switching("ending")
    /\ UNCHANGED <<mode, transitioning, exclusive, switches, shared, laneVars, manualSessions,
                   cooling, clientVars, caller>>

(* The deferred calls: the gate first, then the flag.                      *)
ReleaseExclusive ==
    /\ Step
    /\ sw.pc = "release"
    /\ exclusive' = FALSE
    /\ Switching("ending")
    /\ UNCHANGED <<mode, transitioning, switches, shared, laneVars, manualSessions, cooling,
                   clientVars, caller>>

EndTransition ==
    /\ Step
    /\ sw.pc = "ending"
    /\ transitioning' = FALSE
    /\ Switching("idle")
    /\ UNCHANGED <<mode, exclusive, switches, shared, laneVars, manualSessions, cooling,
                   clientVars, caller>>

Switch == Preempt \/ AcquireExclusive \/ WaitTimesOut \/ CleanupAndSave \/ ReleaseExclusive
              \/ EndTransition

-----------------------------------------------------------------------------
(* A caller: AcquireWrite("mcp"), or AcquireStable for the jiggler, and    *)
(* then the coordinator's lane for one operation.                          *)

CallerAt(m, pc) == caller' = [caller EXCEPT ![m] = pc]
MayWrite(m) == ~transitioning /\ (m \in Jigglers \/ mode = "mcp")

CallerChecks(m) ==
    /\ Step
    /\ caller[m] = "idle" /\ MayWrite(m)
    /\ CallerAt(m, "checked")
    /\ UNCHANGED <<modeVars, shared, laneVars, manualSessions, cooling, clientVars>>

CallerShares(m) ==
    /\ Step
    /\ caller[m] = "checked" /\ AcquireShared
    /\ CallerAt(m, "shared")
    /\ UNCHANGED <<modeVars, laneVars, manualSessions, cooling, clientVars>>

(* Defect: the mode is not looked at again once the gate is open.          *)
CallerRechecksNot(m) ==
    /\ Step
    /\ caller[m] = "shared"
    /\ CallerAt(m, "holding")
    /\ UNCHANGED <<modeVars, shared, laneVars, manualSessions, cooling, clientVars>>

CallerRechecks(m) ==
    /\ Step
    /\ caller[m] = "shared"
    /\ CallerAt(m, IF MayWrite(m) THEN "holding" ELSE "leaving")
    /\ UNCHANGED <<modeVars, shared, laneVars, manualSessions, cooling, clientVars>>

(* Defect: only manual input is asked for.                                 *)
LaneFreeOfManual == manualSessions = 0 /\ ~cooling

LaneFree == lane = None /\ manualSessions = 0 /\ ~cooling

BeginMCP(m) ==
    /\ Step
    /\ caller[m] = "holding"
    /\ IF LaneFree
         THEN lane' = m /\ cancelled' = FALSE /\ CallerAt(m, "running")
         ELSE CallerAt(m, "leaving") /\ UNCHANGED laneVars
    /\ UNCHANGED <<modeVars, shared, manualSessions, cooling, clientVars>>

(* The operation is over, or saw that it is cancelled: done is closed.     *)
ReleaseOperation(m) ==
    /\ Step
    /\ caller[m] = "running"
    /\ lane' = None /\ cancelled' = FALSE
    /\ reader' = [c \in Clients |-> IF reader[c].op = m THEN [reader[c] EXCEPT !.op = None]
                                                        ELSE reader[c]]
    /\ CallerAt(m, "leaving")
    /\ UNCHANGED <<modeVars, shared, manualSessions, cooling, ses, queue, worker, sent>>

ReleaseMode(m) ==
    /\ Step
    /\ caller[m] = "leaving" /\ ReleaseShared
    /\ CallerAt(m, "idle")
    /\ UNCHANGED <<modeVars, laneVars, manualSessions, cooling, clientVars>>

-----------------------------------------------------------------------------
(* A client's reader: queueManualReport, reserve.                          *)

ReaderAt(c, pc) == reader' = [reader EXCEPT ![c].pc = pc]

(* isReleaseReportLocked.                                                  *)
IsRelease(s, r) == ~r.held /\ s.held[r.kind]

(* The reservation of report r, and the send to its queue.                 *)
Queued(c, s, r) ==
    queue' = [queue EXCEPT ![c][r.kind] =
                Append(@, [r EXCEPT !.gen = s.generation, !.cool = r.cool \/ IsRelease(s, r)])]

(* On an active session: refused during a transition, unless it releases   *)
(* what the session holds.                                                 *)
ReserveActive(c, r) ==
    /\ Step
    /\ reader[c].pc = "idle" /\ sent[c] < MaxReports
    /\ ses[c].active
    /\ ~transitioning \/ IsRelease(ses[c], r)
    /\ ses' = [ses EXCEPT ![c].pending = @ + 1]
    /\ Queued(c, ses[c], r)
    /\ sent' = [sent EXCEPT ![c] = @ + 1]
    /\ UNCHANGED <<modeVars, shared, laneVars, manualSessions, cooling, reader, worker, caller>>

(* Otherwise the control mode is held stable ...                           *)
ReserveStable(c, r) ==
    /\ Step
    /\ reader[c].pc = "idle" /\ sent[c] < MaxReports
    /\ ~ses[c].active /\ ~transitioning
    /\ reader' = [reader EXCEPT ![c].pc = "stable", ![c].rep = r]
    /\ sent' = [sent EXCEPT ![c] = @ + 1]
    /\ UNCHANGED <<modeVars, shared, laneVars, manualSessions, cooling, ses, queue, worker, caller>>

ReserveShares(c) ==
    /\ Step
    /\ reader[c].pc = "stable" /\ AcquireShared
    /\ ReaderAt(c, "shared")
    /\ UNCHANGED <<modeVars, laneVars, manualSessions, cooling, ses, queue, worker, sent, caller>>

(* ... if it still is, and picoclaw's session does not block the report ... *)
ReserveRechecks(c) ==
    /\ Step
    /\ reader[c].pc = "shared"
    /\ \/ ~transitioning /\ ReaderAt(c, "allowed")
       \/ (transitioning \/ mode = "picoclaw") /\ ReaderAt(c, "undo")
    /\ UNCHANGED <<modeVars, shared, laneVars, manualSessions, cooling, ses, queue, worker, sent,
                   caller>>

(* Defect: the session is counted only once the operation has ended.       *)
BeginManualUncounted(c) ==
    /\ Step
    /\ reader[c].pc = "allowed"
    /\ cancelled' = (lane # None)
    /\ reader' = [reader EXCEPT ![c].pc = IF lane = None THEN "begun" ELSE "waiting",
                                ![c].op = lane]
    /\ manualSessions' = IF lane = None THEN manualSessions + 1 ELSE manualSessions
    /\ UNCHANGED <<modeVars, shared, lane, cooling, ses, queue, worker, sent, caller>>

(* ... beginManual: the session is counted, a running operation cancelled  *)
(* and waited for ...                                                      *)
BeginManual(c) ==
    /\ Step
    /\ reader[c].pc = "allowed"
    /\ manualSessions' = manualSessions + 1
    /\ cancelled' = (lane # None)
    /\ reader' = [reader EXCEPT ![c].pc = IF lane = None THEN "begun" ELSE "waiting",
                                ![c].op = lane]
    /\ UNCHANGED <<modeVars, shared, lane, cooling, ses, queue, worker, sent, caller>>

BeginDone(c) ==
    /\ Step
    /\ reader[c].pc = "waiting" /\ reader[c].op = None
    /\ ReaderAt(c, "begun")
    /\ UNCHANGED <<modeVars, shared, laneVars, manualSessions, cooling, ses, queue, worker, sent,
                   caller>>

(* ... for two seconds at most.                                            *)
BeginTimesOut(c) ==
    /\ Step
    /\ reader[c].pc = "waiting"
    /\ EndManual(FALSE)
    /\ reader' = [reader EXCEPT ![c].pc = "undo", ![c].op = None]
    /\ UNCHANGED <<modeVars, shared, laneVars, ses, queue, worker, sent, caller>>

ReserveUndone(c) ==
    /\ Step
    /\ reader[c].pc = "undo" /\ ReleaseShared
    /\ reader' = [reader EXCEPT ![c].pc = "idle", ![c].rep = NoReport]
    /\ UNCHANGED <<modeVars, laneVars, manualSessions, cooling, ses, queue, worker, sent, caller>>

(* The session becomes active with its first reservation.  Nobody else can *)
(* have activated or closed it: one reader serves a session.               *)
Activate(c) ==
    LET s == [ses[c] EXCEPT !.active = TRUE, !.generation = @ + 1, !.pending = 1] IN
    /\ Step
    /\ reader[c].pc = "begun"
    /\ ses' = [ses EXCEPT ![c] = s]
    /\ Queued(c, s, reader[c].rep)
    /\ reader' = [reader EXCEPT ![c].pc = "idle", ![c].rep = NoReport]
    /\ UNCHANGED <<modeVars, shared, laneVars, manualSessions, cooling, worker, sent, caller>>

-----------------------------------------------------------------------------
(* The workers: keyboardReports, mouseReports.                             *)

(* complete, up to finishIfIdleLocked.                                     *)
Complete(s, r, success) ==
    IF ~s.active \/ r.gen # s.generation THEN s
    ELSE [s EXCEPT !.pending = IF @ > 0 THEN @ - 1 ELSE @,
                   !.cooldownOnIdle = @ \/ r.cool,
                   !.held = IF success THEN [@ EXCEPT ![r.kind] = r.held] ELSE NoHeld]

(* Reset, up to finishIfIdleLocked.                                        *)
Reset(s, k) == IF s.active THEN [s EXCEPT !.held[k] = FALSE] ELSE s

(* Defect: an idle session is one with no report pending.                  *)
IsIdlePending(s) == s.active /\ s.pending = 0

IsIdle(s) == s.active /\ s.pending = 0 /\ \A k \in Kinds : ~s.held[k]

(* finishIfIdleLocked on session s, by worker k in state w: the session    *)
(* ends here, and the worker has still to tell the gate and coordinator.   *)
FinishIfIdle(c, k, s, w, cool) ==
    /\ ses' = [ses EXCEPT ![c] =
                  IF IsIdle(s) THEN [s EXCEPT !.active = FALSE, !.cooldownOnIdle = FALSE] ELSE s]
    /\ worker' = [worker EXCEPT ![c][k] =
                  IF IsIdle(s) THEN [w EXCEPT !.pc = "release", !.cool = cool] ELSE w]

(* A report is written and completed.                                      *)
WriteReport(c, k) ==
    LET r == Head(queue[c][k])
        s == Complete(ses[c], r, TRUE)
    IN
    /\ Step
    /\ worker[c][k].pc = "run" /\ queue[c][k] # <<>>
    /\ queue' = [queue EXCEPT ![c][k] = Tail(@)]
    /\ FinishIfIdle(c, k, s, [worker[c][k] EXCEPT !.down = r.held], s.cooldownOnIdle)
    /\ UNCHANGED <<modeVars, shared, laneVars, manualSessions, cooling, reader, sent, caller>>

(* A write fails: what is queued behind it is dropped ...                  *)
WriteFails(c, k) ==
    /\ Fault
    /\ worker[c][k].pc = "run" /\ queue[c][k] # <<>>
    /\ queue' = [queue EXCEPT ![c][k] = Tail(@)]
    /\ worker' = [worker EXCEPT ![c][k] = [@ EXCEPT !.pc = "dropping", !.rep = Head(queue[c][k])]]
    /\ UNCHANGED <<modeVars, shared, laneVars, manualSessions, cooling, ses, reader, sent, caller>>

(* ... one report after the other, and no session ends here: the one that  *)
(* could not be written is still pending ...                               *)
DrainHIDQueue(c, k) ==
    /\ Step
    /\ worker[c][k].pc = "dropping"
    /\ IF queue[c][k] # <<>>
         THEN /\ ses' = [ses EXCEPT ![c] = Complete(@, Head(queue[c][k]), FALSE)]
              /\ queue' = [queue EXCEPT ![c][k] = Tail(@)]
              /\ UNCHANGED worker
         ELSE /\ worker' = [worker EXCEPT ![c][k].pc = "failed"]
              /\ UNCHANGED <<ses, queue>>
    /\ UNCHANGED <<modeVars, shared, laneVars, manualSessions, cooling, reader, sent, caller>>

(* ... and everything is released on the device, or that fails too.        *)
CleanUp(c, k) ==
    LET w == worker[c][k]
        released == Complete(Reset(ses[c], k), w.rep, FALSE)
        stuck == Complete(ses[c], w.rep, FALSE)
        done == [w EXCEPT !.pc = "run", !.rep = NoReport]
    IN
    /\ w.pc = "failed"
    /\ \/ /\ Step
          /\ FinishIfIdle(c, k, released, [done EXCEPT !.down = FALSE], released.cooldownOnIdle)
       \/ /\ Fault
          /\ FinishIfIdle(c, k, stuck, [done EXCEPT !.down = @ \/ w.rep.held], stuck.cooldownOnIdle)
    /\ UNCHANGED <<modeVars, shared, laneVars, manualSessions, cooling, queue, reader, sent, caller>>

(* finish: releaseControl, and then endManual.                             *)
FinishRelease(c, k) ==
    /\ Step
    /\ worker[c][k].pc = "release" /\ ReleaseShared
    /\ worker' = [worker EXCEPT ![c][k].pc = "end"]
    /\ UNCHANGED <<modeVars, laneVars, manualSessions, cooling, ses, queue, reader, sent, caller>>

FinishEnd(c, k) ==
    /\ Step
    /\ worker[c][k].pc = "end" /\ EndManual(worker[c][k].cool)
    /\ worker' = [worker EXCEPT ![c][k].pc = "run", ![c][k].cool = FALSE]
    /\ UNCHANGED <<modeVars, shared, laneVars, ses, queue, reader, sent, caller>>

(* The queue is closed and empty: what is still down is released.          *)
WorkerExits(c, k) ==
    LET w == worker[c][k] IN
    /\ reader[c].pc = "closing" /\ w.pc = "run" /\ queue[c][k] = <<>>
    /\ \/ /\ Step /\ w.down
          /\ FinishIfIdle(c, k, Reset(ses[c], k), [w EXCEPT !.pc = "exited", !.down = FALSE], TRUE)
       \/ /\ IF w.down THEN Fault ELSE Step
          /\ worker' = [worker EXCEPT ![c][k].pc = "exited"]
          /\ UNCHANGED ses
    /\ UNCHANGED <<modeVars, shared, laneVars, manualSessions, cooling, queue, reader, sent, caller>>

-----------------------------------------------------------------------------
(* Close of the client, by its reader: the queues, then the session.       *)

CloseQueues(c) ==
    /\ Step
    /\ reader[c].pc = "idle"
    /\ ReaderAt(c, "closing")
    /\ UNCHANGED <<modeVars, shared, laneVars, manualSessions, cooling, ses, queue, worker, sent,
                   caller>>

(* Defect: the session is closed before its workers have returned.         *)
CloseSessionEarly(c) ==
    /\ Step
    /\ reader[c].pc = "closing"
    /\ ses' = [ses EXCEPT ![c] = [@ EXCEPT !.closed = TRUE, !.active = FALSE, !.pending = 0,
                                           !.held = NoHeld, !.cooldownOnIdle = FALSE,
                                           !.generation = ses[c].generation + 1]]
    /\ ReaderAt(c, IF ses[c].active THEN "release" ELSE "gone")
    /\ UNCHANGED <<modeVars, shared, laneVars, manualSessions, cooling, queue, worker, sent, caller>>

CloseSession(c) ==
    /\ Step
    /\ reader[c].pc = "closing" /\ \A k \in Kinds : worker[c][k].pc = "exited"
    /\ ses' = [ses EXCEPT ![c] = [@ EXCEPT !.closed = TRUE, !.active = FALSE, !.pending = 0,
                                           !.held = NoHeld, !.cooldownOnIdle = FALSE,
                                           !.generation = ses[c].generation + 1]]
    /\ ReaderAt(c, IF ses[c].active THEN "release" ELSE "gone")
    /\ UNCHANGED <<modeVars, shared, laneVars, manualSessions, cooling, queue, worker, sent, caller>>

CloseRelease(c) ==
    /\ Step
    /\ reader[c].pc = "release" /\ ReleaseShared
    /\ ReaderAt(c, "end")
    /\ UNCHANGED <<modeVars, laneVars, manualSessions, cooling, ses, queue, worker, sent, caller>>

CloseEnd(c) ==
    /\ Step
    /\ reader[c].pc = "end" /\ EndManual(TRUE)
    /\ ReaderAt(c, "gone")
    /\ UNCHANGED <<modeVars, shared, laneVars, ses, queue, worker, sent, caller>>

-----------------------------------------------------------------------------

Reserve(c) ==
    \/ ReserveShares(c) \/ ReserveRechecks(c) \/ BeginManual(c) \/ BeginDone(c)
    \/ BeginTimesOut(c) \/ ReserveUndone(c) \/ Activate(c)
CloseClient(c) == CloseSession(c) \/ CloseRelease(c) \/ CloseEnd(c)
Work(c, k) ==
    \/ WriteReport(c, k) \/ WriteFails(c, k) \/ DrainHIDQueue(c, k) \/ CleanUp(c, k)
    \/ FinishRelease(c, k) \/ FinishEnd(c, k) \/ WorkerExits(c, k)
Call(m) == CallerShares(m) \/ CallerRechecks(m) \/ BeginMCP(m) \/ ReleaseMode(m)

Next ==
    \/ CooldownElapses
    \/ \E next \in Modes : SwitchStart(next)
    \/ Switch
    \/ \E m \in Callers : CallerChecks(m) \/ Call(m) \/ ReleaseOperation(m)
    \/ \E c \in Clients :
        \/ \E r \in Reports : ReserveActive(c, r) \/ ReserveStable(c, r)
        \/ Reserve(c) \/ CloseQueues(c) \/ CloseClient(c)
        \/ \E k \in Kinds : Work(c, k)

(* What has begun goes on, and an operation that is cancelled returns.     *)
(* Nobody has to start anything, release a key or disconnect.              *)
Fairness ==
    /\ WF_vars(Switch)
    /\ \A m \in Callers : WF_vars(Call(m)) /\ WF_vars(cancelled /\ ReleaseOperation(m))
    /\ \A c \in Clients :
        /\ WF_vars(Reserve(c)) /\ WF_vars(CloseClient(c))
        /\ \A k \in Kinds : WF_vars(Work(c, k))

Spec == Init /\ [][Next]_vars /\ Fairness

-----------------------------------------------------------------------------

(* The manager, the coordinator, the sessions and the goroutines hold      *)
(* values of their kinds, and the lane names the one operation that runs.  *)
TypeOK ==
    /\ mode \in Modes /\ {transitioning, exclusive, cancelled, cooling} \subseteq BOOLEAN
    /\ sw.pc \in {"idle", "preempt", "wait", "cleanup", "release", "ending"}
    /\ {shared, manualSessions} \subseteq Nat
    /\ lane \in Callers \cup {None}
    /\ \A m \in Callers :
        /\ caller[m] \in {"idle", "checked", "shared", "holding", "running", "leaving"}
        /\ caller[m] = "running" <=> lane = m
    /\ \A c \in Clients :
        /\ ses[c].pending \in 0..MaxReports
        /\ reader[c].pc \in {"idle", "stable", "shared", "allowed", "waiting", "begun", "undo",
                             "closing", "release", "end", "gone"}

(* Manual input has the devices to itself: while a session has a report    *)
(* reserved or holds a key, no MCP tool and no jiggler is in the lane      *)
(* (coordinator.go BeginMCP, beginManual, finish).                         *)
ManualExcludesHID == (\E c \in Clients : ses[c].active) => lane = None

(* An MCP tool types only in MCP mode, whatever switch it raced with       *)
(* (manager.go AcquireWrite, SwitchWithCleanup; activity.go).              *)
MCPOnlyInMode == lane \in Callers \ Jigglers => mode = "mcp"

(* The mode never changes under an operation in the lane or an active      *)
(* manual session (manager.go AcquireStable, acquireExclusiveActivity).    *)
ModeStable ==
    [][mode' # mode => lane = None /\ \A c \in Clients : ~ses[c].active]_vars

ReadersAt(pcs) == {c \in Clients : reader[c].pc \in pcs}
ActiveOr(pcs) == {c \in Clients : ses[c].active \/ reader[c].pc \in pcs}
WorkersAt(pc) == {w \in Clients \X Kinds : worker[w[1]][w[2]].pc = pc}
Inside == {m \in Callers : caller[m] \in {"shared", "holding", "running", "leaving"}}

(* Both counts are exact on every path, the failing ones included: a       *)
(* session counted is beginning, active or ending, and a session that      *)
(* leaks from either count would lock out MCP or the mode switch for good  *)
(* (coordinator.go beginManual, reserve, finish; activity.go).             *)
CountsExact ==
    /\ manualSessions =
          Cardinality(ActiveOr({"release", "end"})) + Cardinality(ReadersAt({"waiting", "begun"}))
        + Cardinality(WorkersAt("release")) + Cardinality(WorkersAt("end"))
    /\ shared =
          Cardinality(ActiveOr({"release"}))
        + Cardinality(ReadersAt({"shared", "allowed", "waiting", "begun", "undo"}))
        + Cardinality(WorkersAt("release")) + Cardinality(Inside)

(* A reservation belongs to the activation it was made for until it is     *)
(* completed: as many are pending as are queued or in a worker's hands, so *)
(* no session ends under a report or waits for one that is gone            *)
(* (coordinator.go complete, Close; keyboard.go, client.go Close).         *)
ReservationsLive ==
    \A c \in Clients :
        LET waiting == {w \in Kinds \X (1..MaxReports) : w[2] \in DOMAIN queue[c][w[1]]}
            inHand == {k \in Kinds : worker[c][k].pc \in {"dropping", "failed"}}
        IN  /\ ses[c].pending = Cardinality(waiting) + Cardinality(inHand)
            /\ \A w \in waiting : queue[c][w[1]][w[2]].gen = ses[c].generation
            /\ \A k \in inHand : worker[c][k].rep.gen = ses[c].generation
            /\ ses[c].pending > 0 => ses[c].active

(* As long as no write fails, a key or button that is down on the target   *)
(* keeps its client's session, and with it the lane (keyboard.go           *)
(* keyboardActive, coordinator.go finishIfIdleLocked).                     *)
KeyDownHoldsLane ==
    faults = 0 =>
        \A c \in Clients, k \in Kinds : worker[c][k].down => (ses[c].active /\ lane = None)

(* A switch ends: neither a client that holds a key nor an operation that  *)
(* does not return leaves the manager transitioning (activity.go           *)
(* acquireExclusive, manager.go SwitchWithCleanup).                        *)
SwitchEnds == transitioning ~> ~transitioning

(* A client's report is reserved or refused, whatever automation and mode  *)
(* switches are under way (coordinator.go reserve, beginManual).           *)
ReserveEnds ==
    \A c \in Clients : reader[c].pc # "idle" ~> reader[c].pc \in {"idle", "gone"}
=============================================================================
