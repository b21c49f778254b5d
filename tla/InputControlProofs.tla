-------------------------- MODULE InputControlProofs --------------------------
(***************************************************************************)
(* For every set of clients, devices and callers and every bound: manual   *)
(* input has the devices to itself, an MCP tool types in its mode alone,   *)
(* the mode is stable under both, and neither a count nor a reservation    *)
(* leaks, on failing paths either.                                         *)
(***************************************************************************)
EXTENDS InputControl, FiniteSetTheorems, SequenceTheorems, TLAPS

Session == [active : BOOLEAN, closed : BOOLEAN, generation : Nat, pending : Nat,
            held : [Kinds -> BOOLEAN], cooldownOnIdle : BOOLEAN]
Report == [kind : Kinds \cup {None}, held : BOOLEAN, cool : BOOLEAN, gen : Nat]
Reader == [pc : {"idle", "stable", "shared", "allowed", "waiting", "begun", "undo",
                 "closing", "release", "end", "gone"},
           rep : Report, op : Callers \cup {None}]
Worker == [pc : {"run", "dropping", "failed", "release", "end", "exited"},
           rep : Report, cool : BOOLEAN, down : BOOLEAN]

(* The manager, the coordinator and the callers.                           *)
ControlTyped ==
    /\ mode \in Modes /\ transitioning \in BOOLEAN /\ exclusive \in BOOLEAN
    /\ sw \in [pc : {"idle", "preempt", "wait", "cleanup", "release", "ending"}, next : Modes]
    /\ shared \in Nat /\ manualSessions \in Nat /\ faults \in Nat
    /\ cancelled \in BOOLEAN /\ cooling \in BOOLEAN
    /\ lane \in Callers \cup {None}
    /\ caller \in [Callers -> {"idle", "checked", "shared", "holding", "running", "leaving"}]

(* A report is reserved but not yet queued.                                *)
Reserving == {"stable", "shared", "allowed", "waiting", "begun", "undo"}
Ahead(rd) == IF rd.pc \in Reserving THEN 1 ELSE 0

Waiting(q) == {w \in Kinds \X (1..MaxReports) : w[2] \in DOMAIN q[w[1]]}
InHand(w) == {k \in Kinds : w[k].pc \in {"dropping", "failed"}}

(* One client: its session s, reader rd, queues q, workers w and the       *)
(* number n of its reports, after f faults.                                *)
ClientTyped(s, rd, q, w, n) ==
    /\ s \in Session /\ rd \in Reader
    /\ q \in [Kinds -> Seq(Report)] /\ w \in [Kinds -> Worker]
    /\ n \in 0..MaxReports

(* As many reports are pending as are queued or in a worker's hands, all   *)
(* of them made for the session's present activation.                      *)
PendingKnown(s, q, w) ==
    /\ s.pending = Cardinality(Waiting(q)) + Cardinality(InHand(w))
    /\ s.pending > 0 => s.active
    /\ \A k \in Kinds : \A i \in 1..Len(q[k]) : q[k][i].gen = s.generation /\ q[k][i].kind = k
    /\ \A k \in InHand(w) : w[k].rep.gen = s.generation

(* The bounds, and what the reader excludes: only an idle or a closing one *)
(* has an active session, and only a closing one has workers that exited.  *)
ReaderKnown(s, rd, q, w, n) ==
    /\ rd.pc \notin {"idle", "closing"} => ~s.active
    /\ rd.pc \in Reserving => rd.rep.kind \in Kinds
    /\ s.pending + Ahead(rd) <= n
    /\ \A k \in Kinds : Len(q[k]) + Ahead(rd) <= n
    /\ \A k \in Kinds : w[k].pc = "exited" =>
           q[k] = <<>> /\ rd.pc \in {"closing", "release", "end", "gone"}

(* As long as no write fails, what is down is held by an active session.   *)
DownKnown(s, w) ==
    \A k \in Kinds : /\ w[k].pc \notin {"dropping", "failed"}
                     /\ w[k].down => s.active /\ s.held[k] /\ w[k].pc # "exited"

ClientInv(s, rd, q, w, n, f) ==
    /\ ClientTyped(s, rd, q, w, n) /\ PendingKnown(s, q, w) /\ ReaderKnown(s, rd, q, w, n)
    /\ f = 0 => DownKnown(s, w)

ClientsInv ==
    /\ ses \in [Clients -> Session] /\ reader \in [Clients -> Reader]
    /\ queue \in [Clients -> [Kinds -> Seq(Report)]]
    /\ worker \in [Clients -> [Kinds -> Worker]] /\ sent \in [Clients -> 0..MaxReports]
    /\ \A c \in Clients : ClientInv(ses[c], reader[c], queue[c], worker[c], sent[c], faults)

(* The lane names the operation that runs, is free under a manual session, *)
(* and a session that begins waits for exactly the operation in it.        *)
LaneInv ==
    /\ \A m \in Callers : caller[m] = "running" <=> lane = m
    /\ \A c \in Clients : (ses[c].active \/ reader[c].pc = "begun") => lane = None
    /\ \A c \in Clients : reader[c].pc = "waiting" => lane = reader[c].op

(* The gate is closed while the mode is saved, with nobody inside.         *)
GateInv ==
    /\ exclusive <=> sw.pc \in {"cleanup", "release"}
    /\ exclusive => shared = 0
    /\ \A m \in Callers \ Jigglers : caller[m] \in {"holding", "running"} => mode = "mcp"

Inv == ControlTyped /\ ClientsInv /\ LaneInv /\ GateInv /\ CountsExact

-----------------------------------------------------------------------------
(* Counting.                                                               *)

Bit(b) == IF b THEN 1 ELSE 0

(* A set that differs from a finite one in one element at most.            *)
LEMMA CardChange ==
    ASSUME NEW S, IsFiniteSet(S), NEW T, NEW x, \A y : y # x => (y \in S <=> y \in T)
    PROVE  /\ IsFiniteSet(T) /\ Cardinality(S) \in Nat /\ Cardinality(T) \in Nat
           /\ Cardinality(T) = Cardinality(S) + Bit(x \in T) - Bit(x \in S)
           /\ Bit(x \in S) <= Cardinality(S)
<1>1. Cardinality(S) \in Nat
  BY FS_CardinalityType
<1>2. CASE x \in S <=> x \in T
  <2>1. S = T
    BY <1>2
  <2>2. x \in S => Cardinality(S) # 0
    BY FS_EmptySet
  <2> QED BY <1>1, <2>1, <2>2 DEF Bit
<1>3. CASE x \in T /\ x \notin S
  <2>1. T = S \cup {x}
    BY <1>3
  <2>2. IsFiniteSet(T) /\ Cardinality(T) = Cardinality(S) + 1
    BY <1>3, <2>1, FS_AddElement
  <2> QED BY <1>1, <1>3, <2>2 DEF Bit
<1>4. CASE x \in S /\ x \notin T
  <2>1. T = S \ {x}
    BY <1>4
  <2>2. IsFiniteSet(T) /\ Cardinality(T) = Cardinality(S) - 1
    BY <1>4, <2>1, FS_RemoveElement
  <2>3. Cardinality(T) \in Nat
    BY <2>2, FS_CardinalityType
  <2> QED BY <1>1, <1>4, <2>2, <2>3 DEF Bit
<1> QED BY <1>2, <1>3, <1>4

LEMMA KindsFinite == IsFiniteSet(Kinds) /\ MaxReports \in Nat
<1>1. IsFiniteSet({"keyboard", "mouse"})
  <2>1. IsFiniteSet({"keyboard"}) /\ IsFiniteSet({"mouse"})
    BY FS_Singleton
  <2>2. IsFiniteSet({"keyboard"} \cup {"mouse"})
    BY <2>1, FS_Union
  <2>3. {"keyboard", "mouse"} = {"keyboard"} \cup {"mouse"}
    OBVIOUS
  <2> QED BY <2>2, <2>3
<1> QED BY <1>1, FS_Subset, InputControlAssumption

LEMMA WaitingFinite ==
    ASSUME NEW q
    PROVE  IsFiniteSet(Waiting(q)) /\ Cardinality(Waiting(q)) \in Nat
<1>1. IsFiniteSet(1..MaxReports)
  BY KindsFinite, FS_Interval
<1>2. IsFiniteSet(Kinds \X (1..MaxReports))
  BY <1>1, KindsFinite, FS_Product
<1>3. IsFiniteSet(Waiting(q))
  BY <1>2, FS_Subset DEF Waiting
<1> QED BY <1>3, FS_CardinalityType

LEMMA InHandFinite ==
    ASSUME NEW w
    PROVE  IsFiniteSet(InHand(w)) /\ Cardinality(InHand(w)) \in Nat
<1>1. IsFiniteSet(InHand(w))
  BY KindsFinite, FS_Subset DEF InHand
<1> QED BY <1>1, FS_CardinalityType

HasSpace(q, k) == Len(q[k]) < MaxReports
Pushed(q, k, e, p) ==
    /\ p \in [Kinds -> Seq(Report)]
    /\ Cardinality(Waiting(p)) = Cardinality(Waiting(q)) + 1
    /\ Len(p[k]) = Len(q[k]) + 1 /\ p[k][Len(q[k]) + 1] = e
    /\ \A i \in 1..Len(q[k]) : p[k][i] = q[k][i]
    /\ \A j \in Kinds \ {k} : p[j] = q[j]

Popped(q, k, p) ==
    /\ p \in [Kinds -> Seq(Report)]
    /\ Cardinality(Waiting(q)) = Cardinality(Waiting(p)) + 1
    /\ Head(q[k]) = q[k][1] /\ 1 \in 1..Len(q[k]) /\ Head(q[k]) \in Report
    /\ Len(p[k]) = Len(q[k]) - 1
    /\ \A i \in 1..Len(p[k]) : p[k][i] = q[k][i + 1] /\ i + 1 \in 1..Len(q[k])
    /\ \A j \in Kinds \ {k} : p[j] = q[j]

(* A report joins queue k ...                                              *)
LEMMA PushWaiting ==
    ASSUME NEW q \in [Kinds -> Seq(Report)], NEW k \in Kinds, HasSpace(q, k),
           NEW e \in Report, NEW p, p = [q EXCEPT ![k] = Append(q[k], e)]
    PROVE  Pushed(q, k, e, p)
<1> DEFINE n == Len(q[k])
           x == <<k, n + 1>>
<1>1. q[k] \in Seq(Report) /\ n \in Nat /\ MaxReports \in Nat
  BY KindsFinite
<1>2. p[k] = Append(q[k], e) /\ \A j \in Kinds \ {k} : p[j] = q[j]
  OBVIOUS
<1>3. /\ p[k] \in Seq(Report) /\ Len(p[k]) = n + 1 /\ p[k][n + 1] = e
      /\ \A i \in 1..n : p[k][i] = q[k][i]
  BY <1>1, <1>2, AppendProperties
<1>4. p \in [Kinds -> Seq(Report)]
  BY <1>2, <1>3
<1>5. DOMAIN q[k] = 1..n /\ DOMAIN p[k] = 1..(n + 1)
  BY <1>1, <1>3
<1>6. x \in Waiting(p) /\ x \notin Waiting(q)
  BY <1>1, <1>5 DEF Waiting, HasSpace
<1>7. ASSUME NEW y, y # x
      PROVE  y \in Waiting(q) <=> y \in Waiting(p)
  <2>1. CASE y \in Kinds \X (1..MaxReports)
    <3>1. PICK j \in Kinds, i \in 1..MaxReports : y = <<j, i>>
      BY <2>1
    <3>2. CASE j = k
      BY <1>1, <1>5, <1>7, <3>1, <3>2 DEF Waiting
    <3>3. CASE j # k
      BY <1>2, <3>1, <3>3 DEF Waiting
    <3> QED BY <3>2, <3>3
  <2> QED BY <2>1 DEF Waiting
<1>8. Cardinality(Waiting(p)) = Cardinality(Waiting(q)) + Bit(x \in Waiting(p)) - Bit(x \in Waiting(q))
  BY <1>7, WaitingFinite, CardChange
<1>9. Cardinality(Waiting(p)) = Cardinality(Waiting(q)) + 1
  BY <1>6, <1>8, WaitingFinite DEF Bit
<1> QED BY <1>2, <1>3, <1>4, <1>9 DEF Pushed

(* ... and leaves it.                                                      *)
LEMMA PopWaiting ==
    ASSUME NEW q \in [Kinds -> Seq(Report)], NEW k \in Kinds, Len(q[k]) <= MaxReports,
           q[k] # <<>>, NEW p, p = [q EXCEPT ![k] = Tail(q[k])]
    PROVE  Popped(q, k, p)
<1> DEFINE n == Len(q[k])
           x == <<k, n>>
<1>1. q[k] \in Seq(Report) /\ n \in Nat /\ MaxReports \in Nat /\ n # 0
  BY KindsFinite, EmptySeq
<1>2. p[k] = Tail(q[k]) /\ \A j \in Kinds \ {k} : p[j] = q[j]
  OBVIOUS
<1>3. /\ p[k] \in Seq(Report) /\ Len(p[k]) = n - 1 /\ Head(q[k]) = q[k][1]
      /\ \A i \in 1..Len(p[k]) : p[k][i] = q[k][i + 1]
  BY <1>1, <1>2, HeadTailProperties
<1>4. /\ 1 \in 1..n /\ q[k][1] \in Report
      /\ \A i \in 1..Len(p[k]) : i + 1 \in 1..n
  BY <1>1, <1>3
<1>5. p \in [Kinds -> Seq(Report)]
  BY <1>2, <1>3
<1>6. DOMAIN q[k] = 1..n /\ DOMAIN p[k] = 1..(n - 1)
  BY <1>1, <1>3
<1>7. x \in Waiting(q) /\ x \notin Waiting(p)
  BY <1>1, <1>6 DEF Waiting
<1>8. ASSUME NEW y, y # x
      PROVE  y \in Waiting(q) <=> y \in Waiting(p)
  <2>1. CASE y \in Kinds \X (1..MaxReports)
    <3>1. PICK j \in Kinds, i \in 1..MaxReports : y = <<j, i>>
      BY <2>1
    <3>2. CASE j = k
      <4>1. i # n
        BY <1>8, <3>1, <3>2
      <4>2. i \in 1..n <=> i \in 1..(n - 1)
        BY <1>1, <4>1
      <4> QED BY <1>6, <3>1, <3>2, <4>2 DEF Waiting
    <3>3. CASE j # k
      BY <1>2, <3>1, <3>3 DEF Waiting
    <3> QED BY <3>2, <3>3
  <2> QED BY <2>1 DEF Waiting
<1>9. Cardinality(Waiting(p)) = Cardinality(Waiting(q)) + Bit(x \in Waiting(p)) - Bit(x \in Waiting(q))
  BY <1>8, WaitingFinite, CardChange
<1>10. Cardinality(Waiting(q)) = Cardinality(Waiting(p)) + 1
  BY <1>7, <1>9, WaitingFinite DEF Bit
<1> QED BY <1>2, <1>3, <1>4, <1>5, <1>10 DEF Popped

(* Worker k takes a report in hand, keeps it or completes it.              *)
LEMMA HandChange ==
    ASSUME NEW w, NEW v, NEW k \in Kinds, \A j \in Kinds \ {k} : v[j] = w[j]
    PROVE  Cardinality(InHand(v)) = Cardinality(InHand(w)) + Bit(k \in InHand(v)) - Bit(k \in InHand(w))
<1>1. \A y : y # k => (y \in InHand(w) <=> y \in InHand(v))
  BY DEF InHand
<1> QED BY <1>1, InHandFinite, CardChange

-----------------------------------------------------------------------------
(* One client: what each step makes of its session, reader, queues and     *)
(* workers.                                                                *)

(* A report's completion, on the session it was reserved for.              *)
LEMMA CompleteFacts ==
    ASSUME NEW s \in Session, NEW r \in Report,
           NEW success \in BOOLEAN, success => r.kind \in Kinds, s.active, r.gen = s.generation, s.pending > 0
    PROVE  /\ Complete(s, r, success) \in Session
           /\ Complete(s, r, success).active
           /\ Complete(s, r, success).generation = s.generation
           /\ Complete(s, r, success).pending = s.pending - 1
           /\ success => Complete(s, r, success).held = [s.held EXCEPT ![r.kind] = r.held]
<1> DEFINE p == IF s.pending > 0 THEN s.pending - 1 ELSE s.pending
           o == s.cooldownOnIdle \/ r.cool
           h == IF success THEN [s.held EXCEPT ![r.kind] = r.held] ELSE NoHeld
           t == [s EXCEPT !.pending = p, !.cooldownOnIdle = o, !.held = h]
<1>1. Complete(s, r, success) = t
  BY DEF Complete
<1>2. s.pending \in Nat /\ s.held \in [Kinds -> BOOLEAN] /\ r.held \in BOOLEAN
  BY DEF Session, Report
<1>3. h \in [Kinds -> BOOLEAN] /\ o \in BOOLEAN /\ p \in Nat /\ p = s.pending - 1
  BY <1>2 DEF NoHeld
<1>4. success => h = [s.held EXCEPT ![r.kind] = r.held]
  OBVIOUS
<1> HIDE DEF p, o, h
<1>5. t \in Session /\ t.active = s.active /\ t.generation = s.generation /\ t.pending = p /\ t.held = h
  BY <1>3 DEF Session
<1> QED BY <1>1, <1>3, <1>4, <1>5

(* Reset leaves the rest of the session alone.                             *)
LEMMA ResetFacts ==
    ASSUME NEW s \in Session, NEW k \in Kinds
    PROVE  /\ Reset(s, k) \in Session
           /\ Reset(s, k).active = s.active
           /\ Reset(s, k).generation = s.generation
           /\ Reset(s, k).pending = s.pending
           /\ \A j \in Kinds \ {k} : Reset(s, k).held[j] = s.held[j]
BY DEF Reset, Session

Finished(s) == IF IsIdle(s) THEN [s EXCEPT !.active = FALSE, !.cooldownOnIdle = FALSE] ELSE s
FinishedBy(s, w, cool) == IF IsIdle(s) THEN [w EXCEPT !.pc = "release", !.cool = cool] ELSE w

(* finishIfIdleLocked ends a session that neither waits for a report nor   *)
(* holds a key.                                                            *)
LEMMA FinishedInv ==
    ASSUME NEW s, NEW rd, NEW q, NEW w, NEW n, NEW f, ClientInv(s, rd, q, w, n, f),
           NEW k \in Kinds, w[k].pc \in {"run", "exited"}, NEW cool \in BOOLEAN
    PROVE  ClientInv(Finished(s), rd, q, [w EXCEPT ![k] = FinishedBy(s, w[k], cool)], n, f)
<1> DEFINE t == Finished(s)
           v == [w EXCEPT ![k] = FinishedBy(s, w[k], cool)]
<1>1. /\ s \in Session /\ w \in [Kinds -> Worker] /\ w[k] \in Worker /\ rd \in Reader
      /\ q \in [Kinds -> Seq(Report)] /\ n \in 0..MaxReports
  BY DEF ClientInv, ClientTyped
<1>2. CASE ~IsIdle(s)
  <2>1. t = s /\ v = w
    BY <1>1, <1>2 DEF Finished, FinishedBy
  <2> QED BY <2>1
<1>3. CASE IsIdle(s)
  <2>1. /\ t \in Session /\ ~t.active /\ t.pending = 0 /\ t.generation = s.generation
        /\ s.pending = 0
    BY <1>1, <1>3 DEF Finished, IsIdle, Session
  <2>2. FinishedBy(s, w[k], cool) \in Worker /\ FinishedBy(s, w[k], cool).pc = "release"
        /\ FinishedBy(s, w[k], cool).down = w[k].down
    BY <1>1, <1>3 DEF FinishedBy, Worker
  <2>3. /\ v \in [Kinds -> Worker] /\ v[k].pc = "release" /\ v[k].down = w[k].down
        /\ \A j \in Kinds \ {k} : v[j] = w[j]
    BY <1>1, <2>2
  <2> HIDE DEF t, v
  <2>4. InHand(v) = InHand(w)
    BY <2>3 DEF InHand
  <2>5. PendingKnown(t, q, v)
    <3>1. PendingKnown(s, q, w)
      BY DEF ClientInv
    <3>2. \A j \in InHand(v) : v[j] = w[j]
      BY <2>3 DEF InHand
    <3> QED BY <2>1, <2>4, <3>1, <3>2 DEF PendingKnown
  <2>6. ReaderKnown(t, rd, q, v, n)
    BY <2>1, <2>3 DEF ReaderKnown, ClientInv
  <2>7. f = 0 => DownKnown(t, v)
    <3>1. f = 0 => \A j \in Kinds : ~w[j].down
      BY <1>3 DEF ClientInv, DownKnown, IsIdle
    <3> QED BY <2>3, <3>1 DEF DownKnown, ClientInv
  <2> QED BY <1>1, <2>1, <2>3, <2>5, <2>6, <2>7 DEF ClientInv, ClientTyped, t, v
<1> QED BY <1>2, <1>3

(* The reader moves on; an active session allows only so much.             *)
LEMMA ReaderMoves ==
    ASSUME NEW s, NEW rd, NEW q, NEW w, NEW n, NEW f, ClientInv(s, rd, q, w, n, f),
           NEW rd2 \in Reader, NEW n2 \in 0..MaxReports,
           rd2.pc \notin {"idle", "closing"} => ~s.active,
           rd2.pc \in Reserving => rd2.rep.kind \in Kinds,
           n2 - Ahead(rd2) >= n - Ahead(rd),
           rd.pc \in {"closing", "release", "end", "gone"} =>
               rd2.pc \in {"closing", "release", "end", "gone"}
    PROVE  ClientInv(s, rd2, q, w, n2, f)
<1>1. n \in Nat /\ n2 \in Nat /\ Ahead(rd) \in Nat /\ Ahead(rd2) \in Nat /\ s.pending \in Nat
  BY KindsFinite DEF ClientInv, ClientTyped, Ahead, Session
<1>2. \A k \in Kinds : Len(q[k]) \in Nat
  BY DEF ClientInv, ClientTyped
<1> QED BY <1>1, <1>2 DEF ClientInv, ClientTyped, ReaderKnown

LEMMA ClientTypes ==
    ASSUME NEW s, NEW rd, NEW q, NEW w, NEW n, NEW f, ClientInv(s, rd, q, w, n, f)
    PROVE  /\ s \in Session /\ rd \in Reader /\ q \in [Kinds -> Seq(Report)]
           /\ w \in [Kinds -> Worker] /\ n \in 0..MaxReports /\ MaxReports \in Nat
           /\ s.pending \in Nat /\ s.generation \in Nat
           /\ Ahead(rd) \in {0, 1}
           /\ \A k \in Kinds : /\ w[k] \in Worker /\ q[k] \in Seq(Report) /\ Len(q[k]) \in Nat
                               /\ Len(q[k]) <= n /\ n <= MaxReports
           /\ PendingKnown(s, q, w) /\ ReaderKnown(s, rd, q, w, n)
<1>1. /\ s \in Session /\ rd \in Reader /\ q \in [Kinds -> Seq(Report)]
      /\ w \in [Kinds -> Worker] /\ n \in 0..MaxReports /\ MaxReports \in Nat
      /\ PendingKnown(s, q, w) /\ ReaderKnown(s, rd, q, w, n)
  BY KindsFinite DEF ClientInv, ClientTyped
<1>2. s.pending \in Nat /\ s.generation \in Nat /\ Ahead(rd) \in {0, 1}
  BY <1>1 DEF Session, Ahead
<1>3. ASSUME NEW k \in Kinds
      PROVE  /\ w[k] \in Worker /\ q[k] \in Seq(Report) /\ Len(q[k]) \in Nat
             /\ Len(q[k]) <= n /\ n <= MaxReports
  <2>1. w[k] \in Worker /\ q[k] \in Seq(Report) /\ Len(q[k]) \in Nat
    BY <1>1
  <2>2. Len(q[k]) + Ahead(rd) <= n
    BY <1>1 DEF ReaderKnown
  <2> QED BY <1>1, <1>2, <2>1, <2>2
<1> QED BY <1>1, <1>2, <1>3

(* A session without a pending report has none queued and none in hand.    *)
LEMMA NothingPending ==
    ASSUME NEW s, NEW rd, NEW q, NEW w, NEW n, NEW f, ClientInv(s, rd, q, w, n, f)
    PROVE  s.pending = 0 <=> /\ InHand(w) = {}
                             /\ \A k \in Kinds : q[k] = <<>>
<1>1. /\ Cardinality(Waiting(q)) \in Nat /\ Cardinality(InHand(w)) \in Nat
      /\ s.pending = Cardinality(Waiting(q)) + Cardinality(InHand(w))
  BY ClientTypes, WaitingFinite, InHandFinite DEF PendingKnown
<1>2. /\ Cardinality(Waiting(q)) = 0 <=> Waiting(q) = {}
      /\ Cardinality(InHand(w)) = 0 <=> InHand(w) = {}
  BY WaitingFinite, InHandFinite, FS_EmptySet
<1>3. Waiting(q) = {} <=> \A k \in Kinds : q[k] = <<>>
  <2>1. ASSUME NEW k \in Kinds, q[k] # <<>>
        PROVE  <<k, 1>> \in Waiting(q)
    <3>1. Len(q[k]) \in Nat /\ Len(q[k]) # 0 /\ Len(q[k]) <= MaxReports /\ MaxReports \in Nat
      BY <2>1, ClientTypes, EmptySeq
    <3>2. DOMAIN q[k] = 1..Len(q[k])
      BY ClientTypes
    <3> QED BY <3>1, <3>2 DEF Waiting
  <2>2. ASSUME \A k \in Kinds : q[k] = <<>>, NEW x \in Waiting(q)
        PROVE  FALSE
    <3>1. PICK k \in Kinds, i \in 1..MaxReports : x = <<k, i>> /\ i \in DOMAIN q[k]
      BY <2>2 DEF Waiting
    <3> QED BY <2>2, <3>1
  <2> QED BY <2>1, <2>2
<1> QED BY <1>1, <1>2, <1>3

(* reserve, on an active session.                                          *)
LEMMA PushInv ==
    ASSUME NEW s, NEW rd, NEW q, NEW w, NEW n, NEW f, ClientInv(s, rd, q, w, n, f),
           rd.pc = "idle", s.active, n < MaxReports,
           NEW k \in Kinds, NEW e \in Report, e.gen = s.generation, e.kind = k
    PROVE  ClientInv([s EXCEPT !.pending = s.pending + 1], rd,
                     [q EXCEPT ![k] = Append(q[k], e)], w, n + 1, f)
<1> DEFINE t == [s EXCEPT !.pending = s.pending + 1]
           p == [q EXCEPT ![k] = Append(q[k], e)]
<1>1. /\ s \in Session /\ rd \in Reader /\ q \in [Kinds -> Seq(Report)]
      /\ w \in [Kinds -> Worker] /\ n \in 0..MaxReports /\ MaxReports \in Nat
      /\ s.pending \in Nat /\ PendingKnown(s, q, w) /\ ReaderKnown(s, rd, q, w, n)
      /\ \A j \in Kinds : Len(q[j]) \in Nat /\ Len(q[j]) <= n
  BY ClientTypes
<1>2. /\ t \in Session /\ t.active = s.active /\ t.generation = s.generation
      /\ t.pending = s.pending + 1 /\ t.held = s.held
  <2> DEFINE x == s.pending + 1
  <2>1. s \in Session /\ x \in Nat
    BY <1>1
  <2> HIDE DEF x
  <2>2. LET u == [s EXCEPT !.pending = x]
        IN  /\ u \in Session /\ u.active = s.active /\ u.generation = s.generation
            /\ u.pending = x /\ u.held = s.held
    BY <2>1 DEF Session
  <2> QED BY <2>2 DEF x
<1>3. Pushed(q, k, e, p)
  <2>1. HasSpace(q, k)
    BY <1>1 DEF HasSpace
  <2>2. p = [q EXCEPT ![k] = Append(q[k], e)] /\ q \in [Kinds -> Seq(Report)]
    BY <1>1
  <2> HIDE DEF p
  <2> QED BY <2>1, <2>2, PushWaiting
<1> HIDE DEF t, p
<1>4. PendingKnown(t, p, w)
  <2>1. t.pending = Cardinality(Waiting(p)) + Cardinality(InHand(w))
    BY <1>1, <1>2, <1>3, WaitingFinite, InHandFinite DEF PendingKnown, Pushed
  <2>2. ASSUME NEW j \in Kinds, NEW i \in 1..Len(p[j])
        PROVE  p[j][i].gen = t.generation /\ p[j][i].kind = j
    <3>1. CASE j # k
      <4>1. p[j] = q[j]
        BY <1>3, <3>1 DEF Pushed
      <4>2. i \in 1..Len(q[j])
        BY <2>2, <4>1
      <4> QED BY <1>1, <1>2, <4>1, <4>2 DEF PendingKnown
    <3>2. CASE j = k
      <4>1. i \in 1..Len(q[k]) \/ i = Len(q[k]) + 1
        BY <1>1, <1>3, <2>2, <3>2 DEF Pushed
      <4> QED BY <1>1, <1>2, <1>3, <3>2, <4>1 DEF PendingKnown, Pushed
    <3> QED BY <3>1, <3>2
  <2> QED BY <1>1, <1>2, <2>1, <2>2 DEF PendingKnown
<1>5. ReaderKnown(t, rd, p, w, n + 1)
  <2>1. Ahead(rd) = 0
    BY DEF Ahead, Reserving
  <2>2. \A j \in Kinds : Len(p[j]) + 0 <= n + 1 /\ w[j].pc # "exited"
    BY <1>1, <1>3 DEF ReaderKnown, Pushed
  <2> QED BY <1>1, <1>2, <2>1, <2>2 DEF ReaderKnown
<1>6. f = 0 => DownKnown(t, w)
  BY <1>2 DEF ClientInv, DownKnown
<1> QED BY <1>1, <1>2, <1>3, <1>4, <1>5, <1>6 DEF ClientInv, ClientTyped, Pushed, t, p

(* reserve, which activates the session with its first report.             *)
LEMMA ActivateInv ==
    ASSUME NEW s, NEW rd, NEW q, NEW w, NEW n, NEW f, ClientInv(s, rd, q, w, n, f),
           rd.pc = "begun", NEW k \in Kinds, NEW e \in Report, e.gen = s.generation + 1, e.kind = k
    PROVE  ClientInv([s EXCEPT !.active = TRUE, !.generation = s.generation + 1, !.pending = 1],
                     [rd EXCEPT !.pc = "idle", !.rep = NoReport],
                     [q EXCEPT ![k] = Append(q[k], e)], w, n, f)
<1> DEFINE t == [s EXCEPT !.active = TRUE, !.generation = s.generation + 1, !.pending = 1]
           r == [rd EXCEPT !.pc = "idle", !.rep = NoReport]
           p == [q EXCEPT ![k] = Append(q[k], e)]
<1>1. /\ s \in Session /\ rd \in Reader /\ q \in [Kinds -> Seq(Report)]
      /\ w \in [Kinds -> Worker] /\ n \in 0..MaxReports /\ MaxReports \in Nat
      /\ s.pending \in Nat /\ s.generation \in Nat
      /\ PendingKnown(s, q, w) /\ ReaderKnown(s, rd, q, w, n)
  BY ClientTypes
<1>2. Ahead(rd) = 1 /\ ~s.active /\ s.pending = 0 /\ 1 <= n
  BY <1>1 DEF Ahead, Reserving, ReaderKnown, PendingKnown
<1>3. InHand(w) = {} /\ (\A j \in Kinds : q[j] = <<>>) /\ Cardinality(Waiting(q)) = 0
      /\ Cardinality(InHand(w)) = 0
  BY <1>1, <1>2, NothingPending, WaitingFinite, InHandFinite DEF PendingKnown
<1>4. t \in Session /\ t.active /\ t.generation = s.generation + 1 /\ t.pending = 1
  <2> DEFINE x == s.generation + 1
  <2>1. s \in Session /\ x \in Nat
    BY <1>1
  <2> HIDE DEF x
  <2>2. LET u == [s EXCEPT !.active = TRUE, !.generation = x, !.pending = 1]
        IN  u \in Session /\ u.active /\ u.generation = x /\ u.pending = 1
    BY <2>1 DEF Session
  <2> QED BY <2>2 DEF x
<1>5. r \in Reader /\ r.pc = "idle"
  <2>1. NoReport \in Report
    BY DEF NoReport, Report
  <2> QED BY <1>1, <2>1 DEF Reader
<1>6. Pushed(q, k, e, p)
  <2>1. HasSpace(q, k)
    BY <1>1, <1>2, <1>3 DEF HasSpace
  <2>2. p = [q EXCEPT ![k] = Append(q[k], e)] /\ q \in [Kinds -> Seq(Report)]
    BY <1>1
  <2> HIDE DEF p
  <2> QED BY <2>1, <2>2, PushWaiting
<1>7. Len(p[k]) = 1 /\ p[k][1] = e /\ \A j \in Kinds \ {k} : Len(p[j]) = 0
  BY <1>1, <1>3, <1>6 DEF Pushed
<1> HIDE DEF t, r, p
<1>8. PendingKnown(t, p, w)
  BY <1>3, <1>4, <1>6, <1>7 DEF PendingKnown, Pushed
<1>9. ReaderKnown(t, r, p, w, n)
  <2>1. Ahead(r) = 0
    BY <1>5 DEF Ahead, Reserving
  <2>2. \A j \in Kinds : Len(p[j]) + 0 <= n
    <3>1. \A j \in Kinds : Len(p[j]) = 0 \/ Len(p[j]) = 1
      BY <1>7
    <3>2. n \in Nat /\ 1 <= n
      BY <1>1, <1>2
    <3> QED BY <1>6, <3>1, <3>2 DEF Pushed
  <2>3. \A j \in Kinds : w[j].pc # "exited"
    BY <1>1 DEF ReaderKnown
  <2> QED BY <1>1, <1>2, <1>4, <1>5, <2>1, <2>2, <2>3 DEF ReaderKnown, Reserving
<1>10. f = 0 => DownKnown(t, w)
  BY <1>2 DEF ClientInv, DownKnown
<1> QED BY <1>1, <1>4, <1>5, <1>6, <1>8, <1>9, <1>10 DEF ClientInv, ClientTyped, Pushed, t, r, p

(* The head of a queue belongs to the session, and can be taken off it.    *)
Taken(s, q, w, k, p) ==
    /\ Head(q[k]) \in Report /\ Head(q[k]).gen = s.generation /\ Head(q[k]).kind = k
    /\ s.active /\ s.pending > 0 /\ w[k].pc # "exited"
    /\ p \in [Kinds -> Seq(Report)]
    /\ Cardinality(Waiting(q)) = Cardinality(Waiting(p)) + 1
    /\ \A j \in Kinds : \A i \in 1..Len(p[j]) : p[j][i].gen = s.generation /\ p[j][i].kind = j
    /\ \A j \in Kinds : Len(p[j]) <= Len(q[j]) /\ (q[j] = <<>> => p[j] = <<>>)

LEMMA PopFacts ==
    ASSUME NEW s, NEW rd, NEW q, NEW w, NEW n, NEW f, ClientInv(s, rd, q, w, n, f),
           NEW k \in Kinds, q[k] # <<>>, NEW p, p = [q EXCEPT ![k] = Tail(q[k])]
    PROVE  Taken(s, q, w, k, p)
<1>1. /\ q \in [Kinds -> Seq(Report)] /\ MaxReports \in Nat /\ s.pending \in Nat
      /\ PendingKnown(s, q, w) /\ ReaderKnown(s, rd, q, w, n)
      /\ \A j \in Kinds : q[j] \in Seq(Report) /\ Len(q[j]) \in Nat /\ Len(q[j]) <= n /\ n <= MaxReports
      /\ n \in 0..MaxReports
  BY ClientTypes
<1>2. Popped(q, k, p)
  <2>1. Len(q[k]) <= MaxReports
    BY <1>1
  <2> QED BY <1>1, <2>1, PopWaiting
<1>3. /\ Head(q[k]) = q[k][1] /\ 1 \in 1..Len(q[k]) /\ Head(q[k]) \in Report
      /\ p \in [Kinds -> Seq(Report)]
      /\ Cardinality(Waiting(q)) = Cardinality(Waiting(p)) + 1
  BY <1>2 DEF Popped
<1>4. s.pending > 0 /\ s.active /\ w[k].pc # "exited"
  <2>1. s.pending # 0
    BY NothingPending
  <2> QED BY <1>1, <2>1 DEF PendingKnown, ReaderKnown
<1>5. \A j \in Kinds : \A i \in 1..Len(q[j]) : q[j][i].gen = s.generation /\ q[j][i].kind = j
  BY <1>1 DEF PendingKnown
<1>6. ASSUME NEW j \in Kinds, NEW i \in 1..Len(p[j])
      PROVE  p[j][i].gen = s.generation /\ p[j][i].kind = j
  <2>1. CASE j = k
    <3>1. p[k][i] = q[k][i + 1] /\ i + 1 \in 1..Len(q[k])
      BY <1>2, <1>6, <2>1 DEF Popped
    <3> QED BY <1>5, <2>1, <3>1
  <2>2. CASE j # k
    <3>1. p[j] = q[j]
      BY <1>2, <2>2 DEF Popped
    <3> QED BY <1>5, <1>6, <3>1
  <2> QED BY <2>1, <2>2
<1>7. ASSUME NEW j \in Kinds
      PROVE  Len(p[j]) <= Len(q[j]) /\ (q[j] = <<>> => p[j] = <<>>)
  <2>1. CASE j = k
    BY <1>1, <1>2, <2>1 DEF Popped
  <2>2. CASE j # k
    <3>1. p[j] = q[j]
      BY <1>2, <2>2 DEF Popped
    <3> QED BY <1>1, <3>1
  <2> QED BY <2>1, <2>2
<1>8. Head(q[k]).gen = s.generation /\ Head(q[k]).kind = k
  BY <1>3, <1>5
<1> QED BY <1>3, <1>4, <1>6, <1>7, <1>8 DEF Taken

(* What the session makes of its count answers what the worker does with   *)
(* the report.                                                             *)
Settled(s, t, w, v, k) ==
    t.pending - Bit(k \in InHand(v)) = s.pending - 1 - Bit(k \in InHand(w))

LEMMA TakenCount ==
    ASSUME NEW s \in Session, NEW t \in Session, NEW q, NEW p, NEW w, NEW v, NEW k,
           s.pending = Cardinality(Waiting(q)) + Cardinality(InHand(w)),
           Cardinality(Waiting(q)) = Cardinality(Waiting(p)) + 1,
           Cardinality(InHand(v)) =
               Cardinality(InHand(w)) + Bit(k \in InHand(v)) - Bit(k \in InHand(w)),
           Settled(s, t, w, v, k)
    PROVE  t.pending = Cardinality(Waiting(p)) + Cardinality(InHand(v))
<1>1. s.pending \in Nat /\ t.pending \in Nat
  BY DEF Session
<1>2. /\ Cardinality(Waiting(q)) \in Nat /\ Cardinality(Waiting(p)) \in Nat
      /\ Cardinality(InHand(w)) \in Nat /\ Cardinality(InHand(v)) \in Nat
  BY WaitingFinite, InHandFinite
<1>3. Bit(k \in InHand(v)) \in Nat /\ Bit(k \in InHand(w)) \in Nat
  BY DEF Bit
<1> QED BY <1>1, <1>2, <1>3 DEF Settled

(* A worker takes the head of its queue: t is what becomes of the session, *)
(* v of the workers, g of the faults.                                      *)
LEMMA TakenInv ==
    ASSUME NEW s, NEW rd, NEW q, NEW w, NEW n, NEW f, ClientInv(s, rd, q, w, n, f),
           NEW k \in Kinds, q[k] # <<>>, NEW p, p = [q EXCEPT ![k] = Tail(q[k])],
           NEW t \in Session, t.active, t.generation = s.generation,
           NEW v \in [Kinds -> Worker], v[k].pc # "exited",
           \A j \in Kinds \ {k} : v[j] = w[j],
           k \in InHand(v) => v[k].rep.gen = s.generation,
           Settled(s, t, w, v, k),
           t.pending \in {s.pending, s.pending - 1},
           NEW g, g = 0 => DownKnown(t, v)
    PROVE  ClientInv(t, rd, p, v, n, g)
<1>1. /\ s \in Session /\ rd \in Reader /\ q \in [Kinds -> Seq(Report)]
      /\ n \in 0..MaxReports /\ MaxReports \in Nat /\ s.pending \in Nat
      /\ PendingKnown(s, q, w) /\ ReaderKnown(s, rd, q, w, n) /\ Ahead(rd) \in {0, 1}
      /\ \A j \in Kinds : q[j] \in Seq(Report) /\ Len(q[j]) \in Nat
  BY ClientTypes
<1>2. Taken(s, q, w, k, p)
  BY PopFacts
<1>3. t.pending \in Nat
  BY DEF Session
<1>4. Cardinality(InHand(v)) = Cardinality(InHand(w)) + Bit(k \in InHand(v)) - Bit(k \in InHand(w))
  BY HandChange
<1>5. t.pending = Cardinality(Waiting(p)) + Cardinality(InHand(v))
  <2>1. /\ s.pending = Cardinality(Waiting(q)) + Cardinality(InHand(w))
        /\ Cardinality(Waiting(q)) = Cardinality(Waiting(p)) + 1
    BY <1>1, <1>2 DEF PendingKnown, Taken
  <2>2. s \in Session /\ t \in Session /\ Settled(s, t, w, v, k)
    BY <1>1
  <2> QED BY <1>4, <2>1, <2>2, TakenCount
<1>6. ASSUME NEW j \in InHand(v)
      PROVE  v[j].rep.gen = t.generation
  <2>1. CASE j = k
    BY <1>6, <2>1
  <2>2. CASE j # k
    <3>1. j \in Kinds /\ v[j] = w[j]
      BY <1>6, <2>2 DEF InHand
    <3>2. j \in InHand(w)
      BY <1>6, <3>1 DEF InHand
    <3> QED BY <1>1, <3>1, <3>2 DEF PendingKnown
  <2> QED BY <2>1, <2>2
<1>7. PendingKnown(t, p, v)
  <2>1. \A j \in Kinds : \A i \in 1..Len(p[j]) : p[j][i].gen = t.generation /\ p[j][i].kind = j
    BY <1>2 DEF Taken
  <2>2. t.pending > 0 => t.active
    OBVIOUS
  <2>3. \A j \in InHand(v) : v[j].rep.gen = t.generation
    BY <1>6
  <2> QED BY <1>5, <2>1, <2>2, <2>3 DEF PendingKnown
<1>8. ReaderKnown(t, rd, p, v, n)
  <2>1. t.pending + Ahead(rd) <= n
    BY <1>1, <1>3 DEF ReaderKnown
  <2>2. ASSUME NEW j \in Kinds
        PROVE  Len(p[j]) + Ahead(rd) <= n
    <3>1. Len(q[j]) + Ahead(rd) <= n /\ Len(p[j]) <= Len(q[j])
      BY <1>1, <1>2 DEF ReaderKnown, Taken
    <3>2. p \in [Kinds -> Seq(Report)]
      BY <1>2 DEF Taken
    <3>3. Len(p[j]) \in Nat
      BY <3>2
    <3> QED BY <1>1, <3>1, <3>3
  <2>3. ASSUME NEW j \in Kinds, v[j].pc = "exited"
        PROVE  p[j] = <<>> /\ rd.pc \in {"closing", "release", "end", "gone"}
    <3>1. j # k
      BY <2>3
    <3>2. w[j].pc = "exited"
      BY <2>3, <3>1
    <3> QED BY <1>1, <1>2, <3>2 DEF ReaderKnown, Taken
  <2>4. /\ rd.pc \notin {"idle", "closing"} => ~t.active
        /\ rd.pc \in Reserving => rd.rep.kind \in Kinds
    BY <1>1, <1>2 DEF ReaderKnown, Taken
  <2> QED BY <2>1, <2>2, <2>3, <2>4 DEF ReaderKnown
<1> QED BY <1>1, <1>2, <1>7, <1>8 DEF ClientInv, ClientTyped, Taken

(* A worker moves on with its hands as they were.                          *)
LEMMA WorkerMoves ==
    ASSUME NEW s, NEW rd, NEW q, NEW w, NEW n, NEW f, ClientInv(s, rd, q, w, n, f),
           NEW k \in Kinds, NEW t \in Session, t.active = s.active, t.generation = s.generation,
           t.pending = s.pending,
           NEW x \in Worker, x.rep = w[k].rep,
           x.pc \in {"dropping", "failed"} <=> w[k].pc \in {"dropping", "failed"},
           x.pc = "exited" => q[k] = <<>> /\ rd.pc \in {"closing", "release", "end", "gone"},
           NEW g, g = 0 => DownKnown(t, [w EXCEPT ![k] = x])
    PROVE  ClientInv(t, rd, q, [w EXCEPT ![k] = x], n, g)
<1> DEFINE v == [w EXCEPT ![k] = x]
<1>1. /\ w \in [Kinds -> Worker] /\ PendingKnown(s, q, w) /\ ReaderKnown(s, rd, q, w, n)
      /\ rd \in Reader /\ q \in [Kinds -> Seq(Report)] /\ n \in 0..MaxReports
  BY ClientTypes
<1>2. v \in [Kinds -> Worker] /\ v[k] = x /\ \A j \in Kinds \ {k} : v[j] = w[j]
  BY <1>1
<1>3. g = 0 => DownKnown(t, v)
  OBVIOUS
<1> HIDE DEF v
<1>4. InHand(v) = InHand(w)
  BY <1>2 DEF InHand
<1>5. \A j \in Kinds : v[j].rep = w[j].rep
  BY <1>2
<1>6. PendingKnown(t, q, v)
  <2>1. InHand(w) \subseteq Kinds
    BY DEF InHand
  <2> QED BY <1>1, <1>4, <1>5, <2>1 DEF PendingKnown
<1>7. ReaderKnown(t, rd, q, v, n)
  <2>1. ASSUME NEW j \in Kinds, v[j].pc = "exited"
        PROVE  q[j] = <<>> /\ rd.pc \in {"closing", "release", "end", "gone"}
    <3>1. CASE j = k
      BY <1>2, <2>1, <3>1
    <3>2. CASE j # k
      <4>1. w[j].pc = "exited"
        BY <1>2, <2>1, <3>2
      <4> QED BY <1>1, <4>1 DEF ReaderKnown
    <3> QED BY <3>1, <3>2
  <2> QED BY <1>1, <2>1 DEF ReaderKnown
<1> QED BY <1>1, <1>2, <1>3, <1>6, <1>7 DEF ClientInv, ClientTyped, v

(* finishIfIdleLocked, on a worker that has just changed.                  *)
LEMMA EndInv ==
    ASSUME NEW s, NEW rd, NEW q, NEW w \in [Kinds -> Worker], NEW n, NEW f,
           NEW k \in Kinds, NEW x \in Worker, x.pc \in {"run", "exited"}, NEW cool \in BOOLEAN,
           ClientInv(s, rd, q, [w EXCEPT ![k] = x], n, f)
    PROVE  ClientInv(Finished(s), rd, q, [w EXCEPT ![k] = FinishedBy(s, x, cool)], n, f)
<1> DEFINE v == [w EXCEPT ![k] = x]
<1>1. ClientInv(s, rd, q, v, n, f) /\ v[k] = x
  OBVIOUS
<1>2. [v EXCEPT ![k] = FinishedBy(s, x, cool)] = [w EXCEPT ![k] = FinishedBy(s, x, cool)]
  OBVIOUS
<1> HIDE DEF v
<1>3. ClientInv(Finished(s), rd, q, [v EXCEPT ![k] = FinishedBy(s, v[k], cool)], n, f)
  BY <1>1, FinishedInv
<1> QED BY <1>1, <1>2, <1>3

(* A report is written.                                                    *)
LEMMA WrittenInv ==
    ASSUME NEW s, NEW rd, NEW q, NEW w, NEW n, NEW f, ClientInv(s, rd, q, w, n, f),
           NEW k \in Kinds, q[k] # <<>>, w[k].pc = "run"
    PROVE  LET r == Head(q[k])
               t == Complete(s, r, TRUE)
           IN  /\ s.active /\ t \in Session /\ t.active
               /\ ClientInv(Finished(t), rd, [q EXCEPT ![k] = Tail(q[k])],
                            [w EXCEPT ![k] = FinishedBy(t, [w[k] EXCEPT !.down = r.held],
                                                        t.cooldownOnIdle)], n, f)
<1> DEFINE r == Head(q[k])
           t == Complete(s, r, TRUE)
           p == [q EXCEPT ![k] = Tail(q[k])]
           x == [w[k] EXCEPT !.down = r.held]
           v == [w EXCEPT ![k] = x]
<1>1. /\ s \in Session /\ w \in [Kinds -> Worker] /\ w[k] \in Worker /\ s.pending \in Nat
      /\ PendingKnown(s, q, w)
  BY ClientTypes
<1>2. Taken(s, q, w, k, p)
  <2>1. p = [q EXCEPT ![k] = Tail(q[k])]
    OBVIOUS
  <2> HIDE DEF p
  <2> QED BY <2>1, PopFacts
<1>3. r \in Report /\ r.gen = s.generation /\ r.kind = k /\ s.active /\ s.pending > 0
  BY <1>2 DEF Taken
<1>4. /\ t \in Session /\ t.active /\ t.generation = s.generation /\ t.pending = s.pending - 1
      /\ t.held = [s.held EXCEPT ![k] = r.held]
  <2> HIDE DEF r
  <2> QED BY <1>1, <1>3, CompleteFacts
<1>5. x \in Worker /\ x.pc = "run" /\ x.down = r.held
  <2>1. r.held \in BOOLEAN
    BY <1>3 DEF Report
  <2> HIDE DEF r
  <2> QED BY <1>1, <2>1 DEF Worker
<1>6. /\ v \in [Kinds -> Worker] /\ v[k] = x /\ \A j \in Kinds \ {k} : v[j] = w[j]
  <2> HIDE DEF x
  <2> QED BY <1>1, <1>5
<1>7. k \notin InHand(w) /\ k \notin InHand(v)
  BY <1>5, <1>6 DEF InHand
<1>8. Settled(s, t, w, v, k) /\ t.pending \in {s.pending, s.pending - 1}
  <2> HIDE DEF t, v
  <2> QED BY <1>1, <1>4, <1>7 DEF Settled, Bit
<1>9. f = 0 => DownKnown(t, v)
  <2> SUFFICES ASSUME f = 0, NEW j \in Kinds
               PROVE  /\ v[j].pc \notin {"dropping", "failed"}
                      /\ v[j].down => t.active /\ t.held[j] /\ v[j].pc # "exited"
    BY DEF DownKnown
  <2>1. DownKnown(s, w) /\ s.held \in [Kinds -> BOOLEAN]
    BY <1>1 DEF ClientInv, Session
  <2> HIDE DEF t, v, x, r
  <2>2. CASE j = k
    BY <1>4, <1>5, <1>6, <2>1, <2>2
  <2>3. CASE j # k
    <3>1. v[j] = w[j] /\ t.held[j] = s.held[j]
      BY <1>4, <1>6, <2>1, <2>3
    <3> QED BY <1>4, <2>1, <3>1 DEF DownKnown
  <2> QED BY <2>2, <2>3
<1>10. ClientInv(t, rd, p, v, n, f)
  <2>1. p = [q EXCEPT ![k] = Tail(q[k])] /\ v[k].pc # "exited"
    BY <1>5, <1>6
  <2> HIDE DEF t, p, v, x, r
  <2> QED BY <1>4, <1>6, <1>7, <1>8, <1>9, <2>1, TakenInv
<1>11. t.cooldownOnIdle \in BOOLEAN
  BY <1>4 DEF Session
<1>12. ClientInv(Finished(t), rd, p, [w EXCEPT ![k] = FinishedBy(t, x, t.cooldownOnIdle)], n, f)
  <2>1. v = [w EXCEPT ![k] = x]
    OBVIOUS
  <2> HIDE DEF t, p, v, x, r
  <2> QED BY <1>1, <1>5, <1>10, <1>11, <2>1, EndInv
<1> QED BY <1>3, <1>4, <1>12

(* A write fails ...                                                       *)
LEMMA FailedInv ==
    ASSUME NEW s, NEW rd, NEW q, NEW w, NEW n, NEW f \in Nat, ClientInv(s, rd, q, w, n, f),
           NEW k \in Kinds, q[k] # <<>>, w[k].pc = "run"
    PROVE  ClientInv(s, rd, [q EXCEPT ![k] = Tail(q[k])],
                     [w EXCEPT ![k] = [w[k] EXCEPT !.pc = "dropping", !.rep = Head(q[k])]],
                     n, f + 1)
<1> DEFINE r == Head(q[k])
           p == [q EXCEPT ![k] = Tail(q[k])]
           x == [w[k] EXCEPT !.pc = "dropping", !.rep = r]
           v == [w EXCEPT ![k] = x]
<1>1. s \in Session /\ w \in [Kinds -> Worker] /\ w[k] \in Worker /\ s.pending \in Nat
  BY ClientTypes
<1>2. Taken(s, q, w, k, p)
  <2>1. p = [q EXCEPT ![k] = Tail(q[k])]
    OBVIOUS
  <2> HIDE DEF p
  <2> QED BY <2>1, PopFacts
<1>3. r \in Report /\ r.gen = s.generation /\ s.active
  BY <1>2 DEF Taken
<1>4. x \in Worker /\ x.pc = "dropping" /\ x.rep = r
  <2> HIDE DEF r
  <2> QED BY <1>1, <1>3 DEF Worker
<1>5. v \in [Kinds -> Worker] /\ v[k] = x /\ \A j \in Kinds \ {k} : v[j] = w[j]
  <2> HIDE DEF x
  <2> QED BY <1>1, <1>4
<1>6. k \notin InHand(w) /\ k \in InHand(v) /\ v[k].rep.gen = s.generation
  <2> HIDE DEF x, r
  <2> QED BY <1>3, <1>4, <1>5 DEF InHand
<1>7. Settled(s, s, w, v, k) /\ s.pending \in {s.pending, s.pending - 1}
  <2> HIDE DEF v
  <2> QED BY <1>1, <1>6 DEF Settled, Bit
<1>8. f + 1 # 0
  OBVIOUS
<1>9. p = [q EXCEPT ![k] = Tail(q[k])] /\ v[k].pc # "exited"
  BY <1>4, <1>5
<1>10. ClientInv(s, rd, p, v, n, f + 1)
  <2> HIDE DEF p, v, x, r
  <2> QED BY <1>1, <1>3, <1>5, <1>6, <1>7, <1>8, <1>9, TakenInv
<1> QED BY <1>10

(* ... what is queued behind it is dropped ...                             *)
LEMMA DroppedInv ==
    ASSUME NEW s, NEW rd, NEW q, NEW w, NEW n, NEW f, ClientInv(s, rd, q, w, n, f),
           NEW k \in Kinds, q[k] # <<>>, w[k].pc = "dropping"
    PROVE  /\ s.active /\ Complete(s, Head(q[k]), FALSE).active
           /\ ClientInv(Complete(s, Head(q[k]), FALSE), rd, [q EXCEPT ![k] = Tail(q[k])], w, n, f)
<1> DEFINE r == Head(q[k])
           t == Complete(s, r, FALSE)
           p == [q EXCEPT ![k] = Tail(q[k])]
<1>1. /\ s \in Session /\ w \in [Kinds -> Worker] /\ s.pending \in Nat /\ PendingKnown(s, q, w)
  BY ClientTypes
<1>2. Taken(s, q, w, k, p)
  <2>1. p = [q EXCEPT ![k] = Tail(q[k])]
    OBVIOUS
  <2> HIDE DEF p
  <2> QED BY <2>1, PopFacts
<1>3. r \in Report /\ r.gen = s.generation /\ s.active /\ s.pending > 0
  BY <1>2 DEF Taken
<1>4. t \in Session /\ t.active /\ t.generation = s.generation /\ t.pending = s.pending - 1
  <2> HIDE DEF r
  <2> QED BY <1>1, <1>3, CompleteFacts
<1>5. k \in InHand(w)
  BY DEF InHand
<1>6. w[k].rep.gen = s.generation
  BY <1>1, <1>5 DEF PendingKnown
<1>7. Settled(s, t, w, w, k) /\ t.pending \in {s.pending, s.pending - 1}
  <2> HIDE DEF t
  <2> QED BY <1>1, <1>4, <1>5 DEF Settled, Bit
<1>8. f = 0 => DownKnown(t, w)
  BY DEF ClientInv, DownKnown
<1>9. p = [q EXCEPT ![k] = Tail(q[k])] /\ w[k].pc # "exited"
  OBVIOUS
<1>10. ClientInv(t, rd, p, w, n, f)
  <2> HIDE DEF p, t, r
  <2> QED BY <1>1, <1>4, <1>6, <1>7, <1>8, <1>9, TakenInv
<1> QED BY <1>3, <1>4, <1>10

(* ... and the report itself is completed, so that the session may end.    *)
CleanBase(s, k, b) == b \in {s, Reset(s, k)}
Grown(f, g) == g \in {f, f + 1}

LEMMA CleanedInv ==
    ASSUME NEW s, NEW rd, NEW q, NEW w, NEW n, NEW f \in Nat, ClientInv(s, rd, q, w, n, f),
           NEW k \in Kinds, w[k].pc = "failed", NEW b, CleanBase(s, k, b),
           NEW g, Grown(f, g), NEW x \in Worker, x.pc = "run"
    PROVE  LET t == Complete(b, w[k].rep, FALSE)
           IN  /\ s.active /\ t \in Session /\ t.active
               /\ ClientInv(Finished(t), rd, q,
                            [w EXCEPT ![k] = FinishedBy(t, x, t.cooldownOnIdle)], n, g)
<1> DEFINE r == w[k].rep
           t == Complete(b, r, FALSE)
           v == [w EXCEPT ![k] = x]
<1>1. /\ s \in Session /\ w \in [Kinds -> Worker] /\ w[k] \in Worker /\ s.pending \in Nat
      /\ PendingKnown(s, q, w) /\ ReaderKnown(s, rd, q, w, n)
      /\ rd \in Reader /\ q \in [Kinds -> Seq(Report)] /\ n \in 0..MaxReports
      /\ n \in Nat /\ Ahead(rd) \in {0, 1}
  BY ClientTypes
<1>2. k \in InHand(w) /\ r.gen = s.generation
  BY <1>1 DEF InHand, PendingKnown
<1>3. s.pending > 0 /\ s.active
  BY <1>1, <1>2, NothingPending DEF PendingKnown
<1>4. /\ b \in Session /\ b.active = s.active /\ b.generation = s.generation /\ b.pending = s.pending
  BY <1>1, ResetFacts DEF CleanBase
<1>5. r \in Report
  BY <1>1 DEF Worker
<1>6. t \in Session /\ t.active /\ t.generation = s.generation /\ t.pending = s.pending - 1
  <2> HIDE DEF r
  <2>1. b.active /\ r.gen = b.generation /\ b.pending > 0 /\ b \in Session
    BY <1>2, <1>3, <1>4
  <2>2. t \in Session /\ t.active /\ t.generation = b.generation /\ t.pending = b.pending - 1
    BY <1>5, <2>1, CompleteFacts
  <2> QED BY <1>4, <2>2
<1>7. x \in Worker /\ x.pc = "run"
  OBVIOUS
<1>8. v \in [Kinds -> Worker] /\ v[k] = x /\ \A j \in Kinds \ {k} : v[j] = w[j]
  BY <1>1, <1>7
<1> HIDE DEF t, v, r
<1>9. k \notin InHand(v) /\ InHand(v) \subseteq InHand(w)
  BY <1>7, <1>8 DEF InHand
<1>10. Cardinality(InHand(v)) = Cardinality(InHand(w)) - 1
  <2>1. Bit(k \in InHand(w)) = 1 /\ Bit(k \in InHand(v)) = 0
    BY <1>2, <1>9 DEF Bit
  <2>2. Cardinality(InHand(v)) = Cardinality(InHand(w)) + Bit(k \in InHand(v)) - Bit(k \in InHand(w))
    BY <1>8, HandChange
  <2>3. Cardinality(InHand(v)) \in Nat /\ Cardinality(InHand(w)) \in Nat
    BY InHandFinite
  <2> QED BY <2>1, <2>2, <2>3
<1>11. PendingKnown(t, q, v)
  <2>1. t.pending = Cardinality(Waiting(q)) + Cardinality(InHand(v))
    <3>1. Cardinality(InHand(v)) \in Nat /\ Cardinality(InHand(w)) \in Nat /\ Cardinality(Waiting(q)) \in Nat
      BY InHandFinite, WaitingFinite
    <3>2. s.pending = Cardinality(Waiting(q)) + Cardinality(InHand(w))
      BY <1>1 DEF PendingKnown
    <3>3. t.pending = s.pending - 1
      BY <1>6
    <3> QED BY <1>10, <3>1, <3>2, <3>3
  <2>2. ASSUME NEW j \in InHand(v)
        PROVE  v[j].rep.gen = t.generation
    <3>1. j \in InHand(w) /\ j \in Kinds /\ v[j] = w[j]
      BY <1>8, <1>9, <2>2 DEF InHand
    <3> QED BY <1>1, <1>6, <3>1 DEF PendingKnown
  <2>3. \A j \in Kinds : \A i \in 1..Len(q[j]) : q[j][i].gen = t.generation /\ q[j][i].kind = j
    BY <1>1, <1>6 DEF PendingKnown
  <2> QED BY <1>6, <2>1, <2>2, <2>3 DEF PendingKnown
<1>12. ReaderKnown(t, rd, q, v, n)
  <2>1. t.pending + Ahead(rd) <= n
    <3>1. s.pending + Ahead(rd) <= n
      BY <1>1 DEF ReaderKnown
    <3> QED BY <1>1, <1>6, <3>1
  <2>2. ASSUME NEW j \in Kinds, v[j].pc = "exited"
        PROVE  q[j] = <<>> /\ rd.pc \in {"closing", "release", "end", "gone"}
    <3>1. w[j].pc = "exited"
      BY <1>7, <1>8, <2>2
    <3> QED BY <1>1, <3>1 DEF ReaderKnown
  <2> QED BY <1>1, <1>3, <2>1, <2>2 DEF ReaderKnown
<1>13. g # 0
  BY DEF ClientInv, DownKnown, Grown
<1>14. ClientInv(t, rd, q, v, n, g)
  BY <1>1, <1>6, <1>8, <1>11, <1>12, <1>13 DEF ClientInv, ClientTyped
<1>15. t.cooldownOnIdle \in BOOLEAN
  BY <1>6 DEF Session
<1>16. ClientInv(Finished(t), rd, q, [w EXCEPT ![k] = FinishedBy(t, x, t.cooldownOnIdle)], n, g)
  <2>1. v = [w EXCEPT ![k] = x]
    BY DEF v
  <2> QED BY <1>1, <1>7, <1>14, <1>15, <2>1, EndInv
<1> QED BY <1>3, <1>6, <1>16 DEF t, r

(* A worker returns: it has released what was down ...                     *)
LEMMA ReleasedInv ==
    ASSUME NEW s, NEW rd, NEW q, NEW w, NEW n, NEW f, ClientInv(s, rd, q, w, n, f),
           NEW k \in Kinds, w[k].pc = "run", rd.pc = "closing", q[k] = <<>>
    PROVE  LET t == Reset(s, k)
               x == [w[k] EXCEPT !.pc = "exited", !.down = FALSE]
           IN  /\ t \in Session /\ t.active = s.active
               /\ ClientInv(Finished(t), rd, q, [w EXCEPT ![k] = FinishedBy(t, x, TRUE)], n, f)
<1> DEFINE t == Reset(s, k)
           x == [w[k] EXCEPT !.pc = "exited", !.down = FALSE]
           v == [w EXCEPT ![k] = x]
<1>1. s \in Session /\ w \in [Kinds -> Worker] /\ w[k] \in Worker
  BY ClientTypes
<1>2. /\ t \in Session /\ t.active = s.active /\ t.generation = s.generation
      /\ t.pending = s.pending /\ \A j \in Kinds \ {k} : t.held[j] = s.held[j]
  BY <1>1, ResetFacts
<1>3. x \in Worker /\ x.pc = "exited" /\ ~x.down /\ x.rep = w[k].rep
  BY <1>1 DEF Worker
<1> HIDE DEF t, x
<1>4. v[k] = x /\ \A j \in Kinds \ {k} : v[j] = w[j]
  BY <1>1
<1>5. f = 0 => DownKnown(t, v)
  <2> SUFFICES ASSUME f = 0, NEW j \in Kinds
               PROVE  /\ v[j].pc \notin {"dropping", "failed"}
                      /\ v[j].down => t.active /\ t.held[j] /\ v[j].pc # "exited"
    BY DEF DownKnown
  <2>1. DownKnown(s, w)
    BY DEF ClientInv
  <2> HIDE DEF v
  <2>2. CASE j = k
    BY <1>3, <1>4, <2>2
  <2>3. CASE j # k
    <3>1. v[j] = w[j] /\ t.held[j] = s.held[j]
      BY <1>2, <1>4, <2>3
    <3> QED BY <1>2, <2>1, <3>1 DEF DownKnown
  <2> QED BY <2>2, <2>3
<1>6. ClientInv(t, rd, q, v, n, f)
  BY <1>2, <1>3, <1>5, WorkerMoves
<1>7. ClientInv(Finished(t), rd, q, [w EXCEPT ![k] = FinishedBy(t, x, TRUE)], n, f)
  BY <1>1, <1>3, <1>6, EndInv
<1> QED BY <1>2, <1>7 DEF t, x

(* ... or it could not, or nothing was.                                    *)
LEMMA ReturnedInv ==
    ASSUME NEW s, NEW rd, NEW q, NEW w, NEW n, NEW f \in Nat, ClientInv(s, rd, q, w, n, f),
           NEW k \in Kinds, w[k].pc = "run", rd.pc = "closing", q[k] = <<>>,
           NEW g, g = IF w[k].down THEN f + 1 ELSE f
    PROVE  ClientInv(s, rd, q, [w EXCEPT ![k] = [w[k] EXCEPT !.pc = "exited"]], n, g)
<1> DEFINE x == [w[k] EXCEPT !.pc = "exited"]
           v == [w EXCEPT ![k] = x]
<1>1. s \in Session /\ w \in [Kinds -> Worker] /\ w[k] \in Worker
  BY ClientTypes
<1>2. x \in Worker /\ x.pc = "exited" /\ x.down = w[k].down /\ x.rep = w[k].rep
  BY <1>1 DEF Worker
<1> HIDE DEF x
<1>3. v[k] = x /\ \A j \in Kinds \ {k} : v[j] = w[j]
  BY <1>1
<1>4. g = 0 => DownKnown(s, v)
  <2> SUFFICES ASSUME g = 0 PROVE DownKnown(s, v)
    OBVIOUS
  <2>1. f = 0 /\ ~w[k].down
    OBVIOUS
  <2>2. DownKnown(s, w)
    BY <2>1 DEF ClientInv
  <2> HIDE DEF v
  <2> QED BY <1>2, <1>3, <2>1, <2>2 DEF DownKnown
<1>5. ClientInv(s, rd, q, v, n, g)
  BY <1>1, <1>2, <1>4, WorkerMoves
<1> QED BY <1>5 DEF x

(* finish: the worker tells the gate, and then the coordinator.            *)
LEMMA FinishingInv ==
    ASSUME NEW s, NEW rd, NEW q, NEW w, NEW n, NEW f, ClientInv(s, rd, q, w, n, f),
           NEW k \in Kinds, NEW x \in Worker, x.rep = w[k].rep, x.down = w[k].down,
           \/ w[k].pc = "dropping" /\ x.pc = "failed"
           \/ w[k].pc \in {"release", "end"} /\ x.pc \in {"end", "run"}
    PROVE  ClientInv(s, rd, q, [w EXCEPT ![k] = x], n, f)
<1> DEFINE v == [w EXCEPT ![k] = x]
<1>1. s \in Session /\ w \in [Kinds -> Worker]
  BY ClientTypes
<1>2. v[k] = x /\ \A j \in Kinds \ {k} : v[j] = w[j]
  BY <1>1
<1>3. f = 0 => DownKnown(s, v)
  <2> HIDE DEF v
  <2>1. f = 0 => DownKnown(s, w)
    BY DEF ClientInv
  <2> QED BY <1>2, <2>1 DEF DownKnown
<1> QED BY <1>1, <1>3, WorkerMoves

(* Close: the workers have returned, so nothing is pending.                *)
LEMMA ClosedInv ==
    ASSUME NEW s, NEW rd, NEW q, NEW w, NEW n, NEW f, ClientInv(s, rd, q, w, n, f),
           rd.pc = "closing", \A k \in Kinds : w[k].pc = "exited",
           NEW a \in {"release", "gone"}
    PROVE  ClientInv([s EXCEPT !.closed = TRUE, !.active = FALSE, !.pending = 0, !.held = NoHeld,
                               !.cooldownOnIdle = FALSE, !.generation = s.generation + 1],
                     [rd EXCEPT !.pc = a], q, w, n, f)
<1> DEFINE g == s.generation + 1
           t == [s EXCEPT !.closed = TRUE, !.active = FALSE, !.pending = 0, !.held = NoHeld,
                          !.cooldownOnIdle = FALSE, !.generation = g]
           r == [rd EXCEPT !.pc = a]
<1>1. /\ s \in Session /\ rd \in Reader /\ q \in [Kinds -> Seq(Report)] /\ w \in [Kinds -> Worker]
      /\ n \in 0..MaxReports /\ n \in Nat /\ ReaderKnown(s, rd, q, w, n)
      /\ PendingKnown(s, q, w)
  BY ClientTypes
<1>2. g \in Nat
  BY ClientTypes
<1> HIDE DEF g
<1>3. t \in Session /\ ~t.active /\ t.pending = 0
  BY <1>1, <1>2 DEF Session, NoHeld
<1>4. r \in Reader /\ r.pc = a
  BY <1>1 DEF Reader
<1> HIDE DEF t, r
<1>5. InHand(w) = {} /\ \A k \in Kinds : q[k] = <<>>
  BY <1>1 DEF InHand, ReaderKnown
<1>6. /\ Cardinality(Waiting(q)) = 0 /\ Cardinality(InHand(w)) = 0
  <2>1. s.pending = 0
    BY <1>5, NothingPending
  <2> QED BY <1>1, <2>1, WaitingFinite, InHandFinite DEF PendingKnown
<1>7. \A k \in Kinds : 1..Len(q[k]) = {} /\ Len(q[k]) = 0
  BY <1>5
<1>8. PendingKnown(t, q, w)
  BY <1>3, <1>5, <1>6, <1>7 DEF PendingKnown
<1>9. ReaderKnown(t, r, q, w, n)
  <2>1. Ahead(r) = 0
    BY <1>4 DEF Ahead, Reserving
  <2> QED BY <1>1, <1>3, <1>4, <1>5, <1>7, <2>1 DEF ReaderKnown, Reserving
<1>10. f = 0 => DownKnown(t, w)
  BY DEF ClientInv, DownKnown
<1>11. ClientInv(t, r, q, w, n, f)
  BY <1>1, <1>3, <1>4, <1>8, <1>9, <1>10 DEF ClientInv, ClientTyped
<1> QED BY <1>11 DEF t, r, g

-----------------------------------------------------------------------------
(* The two counts, as functions of the sessions, readers and workers.      *)

ReadersIn(rd, pcs) == {c \in Clients : rd[c].pc \in pcs}
ActiveIn(s, rd, pcs) == {c \in Clients : s[c].active \/ rd[c].pc \in pcs}
WorkersIn(w, pc) == {x \in Clients \X Kinds : w[x[1]][x[2]].pc = pc}

Begun == {"waiting", "begun"}
Within == {"shared", "allowed", "waiting", "begun", "undo"}
CallerWithin == {"shared", "holding", "running", "leaving"}

ManualCount(s, rd, w) ==
    Cardinality(ActiveIn(s, rd, {"release", "end"})) + Cardinality(ReadersIn(rd, Begun))
    + Cardinality(WorkersIn(w, "release")) + Cardinality(WorkersIn(w, "end"))
GateCount(s, rd, w) ==
    Cardinality(ActiveIn(s, rd, {"release"})) + Cardinality(ReadersIn(rd, Within))
    + Cardinality(WorkersIn(w, "release"))
CallerCount(cl) == Cardinality({m \in Callers : cl[m] \in CallerWithin})

Counted ==
    /\ manualSessions = ManualCount(ses, reader, worker)
    /\ shared = GateCount(ses, reader, worker) + CallerCount(caller)

LEMMA CountedExact == (CountsExact <=> Counted) /\ (CountsExact' <=> Counted')
BY DEF CountsExact, Counted, ManualCount, GateCount, CallerCount, ReadersIn, ActiveIn, WorkersIn,
       Begun, Within, CallerWithin, ActiveOr, ReadersAt, WorkersAt, Inside

(* The share of one client's session and reader, and of one worker.        *)
PcBit(rd, pcs) == Bit(rd.pc \in pcs)
ActiveBit(s, rd, pcs) == Bit(s.active \/ rd.pc \in pcs)
WorkerBit(w, pc) == Bit(w.pc = pc)
ManualBits(s, rd) == ActiveBit(s, rd, {"release", "end"}) + PcBit(rd, Begun)
GateBits(s, rd) == ActiveBit(s, rd, {"release"}) + PcBit(rd, Within)
EndBits(w) == WorkerBit(w, "release") + WorkerBit(w, "end")

LEMMA ClientSetsFinite ==
    ASSUME NEW s, NEW rd, NEW w, NEW pcs, NEW pc
    PROVE  /\ IsFiniteSet(ReadersIn(rd, pcs)) /\ Cardinality(ReadersIn(rd, pcs)) \in Nat
           /\ IsFiniteSet(ActiveIn(s, rd, pcs)) /\ Cardinality(ActiveIn(s, rd, pcs)) \in Nat
           /\ IsFiniteSet(WorkersIn(w, pc)) /\ Cardinality(WorkersIn(w, pc)) \in Nat
<1>1. IsFiniteSet(Clients) /\ IsFiniteSet(Clients \X Kinds)
  BY InputControlAssumption, KindsFinite, FS_Product
<1>2. ReadersIn(rd, pcs) \subseteq Clients /\ ActiveIn(s, rd, pcs) \subseteq Clients
      /\ WorkersIn(w, pc) \subseteq Clients \X Kinds
  BY DEF ReadersIn, ActiveIn, WorkersIn
<1>3. IsFiniteSet(ReadersIn(rd, pcs)) /\ IsFiniteSet(ActiveIn(s, rd, pcs)) /\ IsFiniteSet(WorkersIn(w, pc))
  BY <1>1, <1>2, FS_Subset
<1> QED BY <1>3, FS_CardinalityType

(* Two functions that differ in x at most.                                 *)
SameBut(D, x, f, g) == \A y \in D \ {x} : g[y] = f[y]

LEMMA ReadersChange ==
    ASSUME NEW rd, NEW rd2, NEW c \in Clients, SameBut(Clients, c, rd, rd2), NEW pcs
    PROVE  /\ Cardinality(ReadersIn(rd2, pcs)) =
                  Cardinality(ReadersIn(rd, pcs)) + PcBit(rd2[c], pcs) - PcBit(rd[c], pcs)
           /\ PcBit(rd[c], pcs) <= Cardinality(ReadersIn(rd, pcs))
<1> DEFINE S == ReadersIn(rd, pcs)
           T == ReadersIn(rd2, pcs)
<1>1. \A y : y # c => (y \in S <=> y \in T)
  BY DEF ReadersIn, SameBut
<1>2. (c \in S <=> rd[c].pc \in pcs) /\ (c \in T <=> rd2[c].pc \in pcs)
  BY DEF ReadersIn
<1>3. IsFiniteSet(S)
  BY ClientSetsFinite
<1> HIDE DEF S, T
<1>4. /\ Cardinality(T) = Cardinality(S) + Bit(c \in T) - Bit(c \in S)
      /\ Bit(c \in S) <= Cardinality(S)
  BY <1>1, <1>3, CardChange
<1>5. Bit(c \in T) = PcBit(rd2[c], pcs) /\ Bit(c \in S) = PcBit(rd[c], pcs)
  BY <1>2 DEF Bit, PcBit
<1> QED BY <1>4, <1>5 DEF S, T

LEMMA ActiveChange ==
    ASSUME NEW s, NEW s2, NEW rd, NEW rd2, NEW c \in Clients,
           SameBut(Clients, c, s, s2), SameBut(Clients, c, rd, rd2), NEW pcs
    PROVE  /\ Cardinality(ActiveIn(s2, rd2, pcs)) =
                  Cardinality(ActiveIn(s, rd, pcs)) + ActiveBit(s2[c], rd2[c], pcs)
                  - ActiveBit(s[c], rd[c], pcs)
           /\ ActiveBit(s[c], rd[c], pcs) <= Cardinality(ActiveIn(s, rd, pcs))
<1> DEFINE S == ActiveIn(s, rd, pcs)
           T == ActiveIn(s2, rd2, pcs)
<1>1. \A y : y # c => (y \in S <=> y \in T)
  BY DEF ActiveIn, SameBut
<1>2. (c \in S <=> s[c].active \/ rd[c].pc \in pcs) /\ (c \in T <=> s2[c].active \/ rd2[c].pc \in pcs)
  BY DEF ActiveIn
<1>3. IsFiniteSet(S)
  BY ClientSetsFinite
<1> HIDE DEF S, T
<1>4. /\ Cardinality(T) = Cardinality(S) + Bit(c \in T) - Bit(c \in S)
      /\ Bit(c \in S) <= Cardinality(S)
  BY <1>1, <1>3, CardChange
<1>5. /\ Bit(c \in T) = ActiveBit(s2[c], rd2[c], pcs)
      /\ Bit(c \in S) = ActiveBit(s[c], rd[c], pcs)
  BY <1>2 DEF Bit, ActiveBit
<1> QED BY <1>4, <1>5 DEF S, T

LEMMA WorkersChange ==
    ASSUME NEW w, NEW w2, NEW c \in Clients, NEW k \in Kinds,
           SameBut(Clients, c, w, w2), SameBut(Kinds, k, w[c], w2[c]), NEW pc
    PROVE  /\ Cardinality(WorkersIn(w2, pc)) =
                  Cardinality(WorkersIn(w, pc)) + WorkerBit(w2[c][k], pc) - WorkerBit(w[c][k], pc)
           /\ WorkerBit(w[c][k], pc) <= Cardinality(WorkersIn(w, pc))
<1> DEFINE S == WorkersIn(w, pc)
           T == WorkersIn(w2, pc)
           x == <<c, k>>
<1>1. ASSUME NEW y, y # x
      PROVE  y \in S <=> y \in T
  <2>1. CASE y \in Clients \X Kinds
    <3>1. PICK d \in Clients, j \in Kinds : y = <<d, j>>
      BY <2>1
    <3>2. w2[d][j] = w[d][j]
      BY <1>1, <3>1 DEF SameBut
    <3> QED BY <3>1, <3>2 DEF WorkersIn
  <2>2. CASE y \notin Clients \X Kinds
    BY <2>2 DEF WorkersIn
  <2> QED BY <2>1, <2>2
<1>2. (x \in S <=> w[c][k].pc = pc) /\ (x \in T <=> w2[c][k].pc = pc)
  BY DEF WorkersIn
<1>3. IsFiniteSet(S)
  BY ClientSetsFinite
<1> HIDE DEF S, T, x
<1>4. /\ Cardinality(T) = Cardinality(S) + Bit(x \in T) - Bit(x \in S)
      /\ Bit(x \in S) <= Cardinality(S)
  BY <1>1, <1>3, CardChange
<1>5. Bit(x \in T) = WorkerBit(w2[c][k], pc) /\ Bit(x \in S) = WorkerBit(w[c][k], pc)
  BY <1>2 DEF Bit, WorkerBit
<1> QED BY <1>4, <1>5 DEF S, T

LEMMA BitType ==
    ASSUME NEW b
    PROVE  Bit(b) \in {0, 1} /\ Bit(b) \in Nat /\ (b => Bit(b) = 1) /\ (~b => Bit(b) = 0)
BY DEF Bit

LEMMA CountTypes ==
    ASSUME NEW s, NEW rd, NEW w
    PROVE  ManualCount(s, rd, w) \in Nat /\ GateCount(s, rd, w) \in Nat
BY ClientSetsFinite DEF ManualCount, GateCount

(* A step of a client's reader, or of its worker k, changes the counts by  *)
(* its own share.                                                          *)
LEMMA ClientCounts ==
    ASSUME NEW s, NEW s2, NEW rd, NEW rd2, NEW w, NEW c \in Clients,
           SameBut(Clients, c, s, s2), SameBut(Clients, c, rd, rd2)
    PROVE  /\ ManualCount(s2, rd2, w) =
                  ManualCount(s, rd, w) + ManualBits(s2[c], rd2[c]) - ManualBits(s[c], rd[c])
           /\ GateCount(s2, rd2, w) =
                  GateCount(s, rd, w) + GateBits(s2[c], rd2[c]) - GateBits(s[c], rd[c])
           /\ ManualBits(s[c], rd[c]) <= ManualCount(s, rd, w)
           /\ GateBits(s[c], rd[c]) <= GateCount(s, rd, w)
<1> DEFINE a == Cardinality(ActiveIn(s, rd, {"release", "end"}))
           a2 == Cardinality(ActiveIn(s2, rd2, {"release", "end"}))
           x == ActiveBit(s[c], rd[c], {"release", "end"})
           x2 == ActiveBit(s2[c], rd2[c], {"release", "end"})
           b == Cardinality(ReadersIn(rd, Begun))
           b2 == Cardinality(ReadersIn(rd2, Begun))
           y == PcBit(rd[c], Begun)
           y2 == PcBit(rd2[c], Begun)
           e == Cardinality(ActiveIn(s, rd, {"release"}))
           e2 == Cardinality(ActiveIn(s2, rd2, {"release"}))
           u == ActiveBit(s[c], rd[c], {"release"})
           u2 == ActiveBit(s2[c], rd2[c], {"release"})
           i == Cardinality(ReadersIn(rd, Within))
           i2 == Cardinality(ReadersIn(rd2, Within))
           z == PcBit(rd[c], Within)
           z2 == PcBit(rd2[c], Within)
           f == Cardinality(WorkersIn(w, "release"))
           g == Cardinality(WorkersIn(w, "end"))
<1>1. a \in Nat /\ a2 \in Nat /\ b \in Nat /\ b2 \in Nat /\ e \in Nat /\ e2 \in Nat
      /\ i \in Nat /\ i2 \in Nat /\ f \in Nat /\ g \in Nat
  BY ClientSetsFinite
<1>2. x \in Nat /\ x2 \in Nat /\ y \in Nat /\ y2 \in Nat /\ u \in Nat /\ u2 \in Nat
      /\ z \in Nat /\ z2 \in Nat
  BY DEF Bit, PcBit, ActiveBit
<1>3. a2 = a + x2 - x /\ x <= a /\ e2 = e + u2 - u /\ u <= e
  <2>1. a2 = a + x2 - x /\ x <= a
    BY ActiveChange
  <2>2. e2 = e + u2 - u /\ u <= e
    BY ActiveChange
  <2> QED BY <2>1, <2>2
<1>4. b2 = b + y2 - y /\ y <= b /\ i2 = i + z2 - z /\ z <= i
  <2>1. b2 = b + y2 - y /\ y <= b
    BY ReadersChange
  <2>2. i2 = i + z2 - z /\ z <= i
    BY ReadersChange
  <2> QED BY <2>1, <2>2
<1>5. /\ ManualCount(s, rd, w) = a + b + f + g /\ ManualCount(s2, rd2, w) = a2 + b2 + f + g
      /\ GateCount(s, rd, w) = e + i + f /\ GateCount(s2, rd2, w) = e2 + i2 + f
  BY DEF ManualCount, GateCount
<1>6. /\ ManualBits(s[c], rd[c]) = x + y /\ ManualBits(s2[c], rd2[c]) = x2 + y2
      /\ GateBits(s[c], rd[c]) = u + z /\ GateBits(s2[c], rd2[c]) = u2 + z2
  BY DEF ManualBits, GateBits
<1> HIDE DEF a, a2, x, x2, b, b2, y, y2, e, e2, u, u2, i, i2, z, z2, f, g
<1> QED BY <1>1, <1>2, <1>3, <1>4, <1>5, <1>6

LEMMA WorkerCounts ==
    ASSUME NEW s, NEW rd, NEW w, NEW w2, NEW c \in Clients, NEW k \in Kinds,
           SameBut(Clients, c, w, w2), SameBut(Kinds, k, w[c], w2[c])
    PROVE  /\ ManualCount(s, rd, w2) = ManualCount(s, rd, w) + EndBits(w2[c][k]) - EndBits(w[c][k])
           /\ GateCount(s, rd, w2) =
                  GateCount(s, rd, w) + WorkerBit(w2[c][k], "release") - WorkerBit(w[c][k], "release")
           /\ EndBits(w[c][k]) <= ManualCount(s, rd, w)
           /\ WorkerBit(w[c][k], "release") <= GateCount(s, rd, w)
<1> DEFINE a == Cardinality(ActiveIn(s, rd, {"release", "end"}))
           b == Cardinality(ReadersIn(rd, Begun))
           e == Cardinality(ActiveIn(s, rd, {"release"}))
           i == Cardinality(ReadersIn(rd, Within))
           f == Cardinality(WorkersIn(w, "release"))
           f2 == Cardinality(WorkersIn(w2, "release"))
           x == WorkerBit(w[c][k], "release")
           x2 == WorkerBit(w2[c][k], "release")
           g == Cardinality(WorkersIn(w, "end"))
           g2 == Cardinality(WorkersIn(w2, "end"))
           y == WorkerBit(w[c][k], "end")
           y2 == WorkerBit(w2[c][k], "end")
<1>1. a \in Nat /\ b \in Nat /\ e \in Nat /\ i \in Nat /\ f \in Nat /\ f2 \in Nat /\ g \in Nat /\ g2 \in Nat
  BY ClientSetsFinite
<1>2. x \in Nat /\ x2 \in Nat /\ y \in Nat /\ y2 \in Nat
  BY DEF Bit, WorkerBit
<1>3. f2 = f + x2 - x /\ x <= f /\ g2 = g + y2 - y /\ y <= g
  <2>1. f2 = f + x2 - x /\ x <= f
    BY WorkersChange
  <2>2. g2 = g + y2 - y /\ y <= g
    BY WorkersChange
  <2> QED BY <2>1, <2>2
<1>4. /\ ManualCount(s, rd, w) = a + b + f + g /\ ManualCount(s, rd, w2) = a + b + f2 + g2
      /\ GateCount(s, rd, w) = e + i + f /\ GateCount(s, rd, w2) = e + i + f2
  BY DEF ManualCount, GateCount
<1>5. EndBits(w[c][k]) = x + y /\ EndBits(w2[c][k]) = x2 + y2
  BY DEF EndBits
<1> HIDE DEF a, b, e, i, f, f2, x, x2, g, g2, y, y2
<1> QED BY <1>1, <1>2, <1>3, <1>4, <1>5 DEF f, f2, x, x2

LEMMA CallerCounts ==
    ASSUME NEW cl, NEW cl2, NEW m \in Callers, SameBut(Callers, m, cl, cl2)
    PROVE  /\ CallerCount(cl) \in Nat /\ CallerCount(cl2) \in Nat
           /\ CallerCount(cl2) =
                  CallerCount(cl) + Bit(cl2[m] \in CallerWithin) - Bit(cl[m] \in CallerWithin)
           /\ Bit(cl[m] \in CallerWithin) <= CallerCount(cl)
<1> DEFINE S == {o \in Callers : cl[o] \in CallerWithin}
           T == {o \in Callers : cl2[o] \in CallerWithin}
<1>1. \A y : y # m => (y \in S <=> y \in T)
  BY DEF SameBut
<1>2. (m \in S <=> cl[m] \in CallerWithin) /\ (m \in T <=> cl2[m] \in CallerWithin)
  OBVIOUS
<1>3. IsFiniteSet(S)
  BY InputControlAssumption, FS_Subset
<1>4. CallerCount(cl) = Cardinality(S) /\ CallerCount(cl2) = Cardinality(T)
  BY DEF CallerCount
<1> HIDE DEF S, T
<1>5. /\ Cardinality(S) \in Nat /\ Cardinality(T) \in Nat
      /\ Cardinality(T) = Cardinality(S) + Bit(m \in T) - Bit(m \in S)
      /\ Bit(m \in S) <= Cardinality(S)
  BY <1>1, <1>3, CardChange
<1>6. Bit(m \in T) = Bit(cl2[m] \in CallerWithin) /\ Bit(m \in S) = Bit(cl[m] \in CallerWithin)
  BY <1>2 DEF Bit
<1> QED BY <1>4, <1>5, <1>6

LEMMA CallerCountType ==
    ASSUME NEW cl
    PROVE  CallerCount(cl) \in Nat
<1>1. IsFiniteSet({o \in Callers : cl[o] \in CallerWithin})
  BY InputControlAssumption, FS_Subset
<1> QED BY <1>1, FS_CardinalityType DEF CallerCount

-----------------------------------------------------------------------------
(* A step of one client: what its session, reader, queues, workers and     *)
(* count of reports become.                                                *)

ClientStep(c, s, rd, q, w, n) ==
    /\ ses' = [ses EXCEPT ![c] = s] /\ reader' = [reader EXCEPT ![c] = rd]
    /\ queue' = [queue EXCEPT ![c] = q] /\ worker' = [worker EXCEPT ![c] = w]
    /\ sent' = [sent EXCEPT ![c] = n]

LEMMA FaultsGrow ==
    ASSUME NEW s, NEW rd, NEW q, NEW w, NEW n, NEW f \in Nat, ClientInv(s, rd, q, w, n, f),
           NEW g, g \in {f, f + 1}
    PROVE  ClientInv(s, rd, q, w, n, g)
BY DEF ClientInv

LEMMA ClientStepInv ==
    ASSUME ClientsInv, NEW c \in Clients, NEW s, NEW rd, NEW q, NEW w, NEW n,
           ClientStep(c, s, rd, q, w, n), ClientInv(s, rd, q, w, n, faults'),
           faults \in Nat, faults' \in {faults, faults + 1}
    PROVE  /\ ClientsInv'
           /\ ses'[c] = s /\ reader'[c] = rd /\ worker'[c] = w
           /\ SameBut(Clients, c, ses, ses') /\ SameBut(Clients, c, reader, reader')
           /\ SameBut(Clients, c, worker, worker')
<1>1. /\ s \in Session /\ rd \in Reader /\ q \in [Kinds -> Seq(Report)]
      /\ w \in [Kinds -> Worker] /\ n \in 0..MaxReports
  BY ClientTypes
<1>2. /\ ses \in [Clients -> Session] /\ reader \in [Clients -> Reader]
      /\ queue \in [Clients -> [Kinds -> Seq(Report)]]
      /\ worker \in [Clients -> [Kinds -> Worker]] /\ sent \in [Clients -> 0..MaxReports]
  BY DEF ClientsInv
<1>3. ses' \in [Clients -> Session] /\ ses'[c] = s /\ SameBut(Clients, c, ses, ses')
  BY <1>1, <1>2 DEF ClientStep, SameBut
<1>4. reader' \in [Clients -> Reader] /\ reader'[c] = rd /\ SameBut(Clients, c, reader, reader')
  BY <1>1, <1>2 DEF ClientStep, SameBut
<1>5. /\ queue' \in [Clients -> [Kinds -> Seq(Report)]] /\ queue'[c] = q
      /\ SameBut(Clients, c, queue, queue')
  BY <1>1, <1>2 DEF ClientStep, SameBut
<1>6. /\ worker' \in [Clients -> [Kinds -> Worker]] /\ worker'[c] = w
      /\ SameBut(Clients, c, worker, worker')
  BY <1>1, <1>2 DEF ClientStep, SameBut
<1>7. /\ sent' \in [Clients -> 0..MaxReports] /\ sent'[c] = n /\ SameBut(Clients, c, sent, sent')
  BY <1>1, <1>2 DEF ClientStep, SameBut
<1>8. ASSUME NEW d \in Clients
      PROVE  ClientInv(ses'[d], reader'[d], queue'[d], worker'[d], sent'[d], faults')
  <2>1. CASE d = c
    BY <1>3, <1>4, <1>5, <1>6, <1>7, <2>1
  <2>2. CASE d # c
    <3>1. /\ ses'[d] = ses[d] /\ reader'[d] = reader[d] /\ queue'[d] = queue[d]
          /\ worker'[d] = worker[d] /\ sent'[d] = sent[d]
      BY <1>3, <1>4, <1>5, <1>6, <1>7, <2>2 DEF SameBut
    <3>2. ClientInv(ses[d], reader[d], queue[d], worker[d], sent[d], faults)
      BY DEF ClientsInv
    <3>3. ClientInv(ses[d], reader[d], queue[d], worker[d], sent[d], faults')
      BY <3>2, FaultsGrow
    <3> QED BY <3>1, <3>3
  <2> QED BY <2>1, <2>2
<1>9. ClientsInv'
  BY <1>3, <1>4, <1>5, <1>6, <1>7, <1>8 DEF ClientsInv
<1> QED BY <1>3, <1>4, <1>6, <1>9

(* The counts are at least what one client, worker or caller adds to them. *)
LEMMA CountBounds ==
    ASSUME Inv
    PROVE  /\ manualSessions \in Nat /\ shared \in Nat
           /\ \A c \in Clients :
                /\ ManualBits(ses[c], reader[c]) <= manualSessions
                /\ GateBits(ses[c], reader[c]) <= shared
                /\ \A k \in Kinds : /\ EndBits(worker[c][k]) <= manualSessions
                                    /\ WorkerBit(worker[c][k], "release") <= shared
           /\ \A m \in Callers : caller[m] \in CallerWithin => shared > 0
<1> DEFINE M == ManualCount(ses, reader, worker)
           G == GateCount(ses, reader, worker)
           C == CallerCount(caller)
<1>1. manualSessions = M /\ shared = G + C
  BY CountedExact DEF Inv, Counted
<1>2. M \in Nat /\ G \in Nat /\ C \in Nat
  BY CountTypes, CallerCountType
<1>3. ASSUME NEW c \in Clients
      PROVE  ManualBits(ses[c], reader[c]) <= M /\ GateBits(ses[c], reader[c]) <= G
             /\ GateBits(ses[c], reader[c]) \in Nat
  <2>1. SameBut(Clients, c, ses, ses) /\ SameBut(Clients, c, reader, reader)
    BY DEF SameBut
  <2>2. GateBits(ses[c], reader[c]) \in Nat
    BY DEF GateBits, ActiveBit, PcBit, Bit
  <2> QED BY <2>1, <2>2, ClientCounts
<1>4. ASSUME NEW c \in Clients, NEW k \in Kinds
      PROVE  EndBits(worker[c][k]) <= M /\ WorkerBit(worker[c][k], "release") <= G
             /\ WorkerBit(worker[c][k], "release") \in Nat
  <2>1. SameBut(Clients, c, worker, worker) /\ SameBut(Kinds, k, worker[c], worker[c])
    BY DEF SameBut
  <2>2. WorkerBit(worker[c][k], "release") \in Nat
    BY DEF WorkerBit, Bit
  <2> QED BY <2>1, <2>2, WorkerCounts
<1>5. ASSUME NEW m \in Callers, caller[m] \in CallerWithin
      PROVE  C > 0
  <2>1. SameBut(Callers, m, caller, caller)
    BY DEF SameBut
  <2>2. Bit(caller[m] \in CallerWithin) = 1
    BY <1>5 DEF Bit
  <2>3. Bit(caller[m] \in CallerWithin) <= C
    BY <2>1, CallerCounts
  <2> QED BY <1>2, <2>2, <2>3
<1> HIDE DEF M, G, C
<1>6. \A c \in Clients : ManualBits(ses[c], reader[c]) <= manualSessions
                         /\ GateBits(ses[c], reader[c]) <= shared
  BY <1>1, <1>2, <1>3
<1>7. \A c \in Clients, k \in Kinds : EndBits(worker[c][k]) <= manualSessions
                                      /\ WorkerBit(worker[c][k], "release") <= shared
  BY <1>1, <1>2, <1>4
<1>8. \A m \in Callers : caller[m] \in CallerWithin => shared > 0
  BY <1>1, <1>2, <1>5
<1> QED BY <1>1, <1>2, <1>6, <1>7, <1>8

(* A reader's step, and a worker's step, keep the counts exact.            *)
LEMMA ReaderCounts ==
    ASSUME CountsExact, worker' = worker, caller' = caller, NEW c \in Clients,
           SameBut(Clients, c, ses, ses'), SameBut(Clients, c, reader, reader'),
           manualSessions' = manualSessions + ManualBits(ses'[c], reader'[c])
                             - ManualBits(ses[c], reader[c]),
           shared' = shared + GateBits(ses'[c], reader'[c]) - GateBits(ses[c], reader[c])
    PROVE  CountsExact'
<1> DEFINE M == ManualCount(ses, reader, worker)
           G == GateCount(ses, reader, worker)
           M2 == ManualCount(ses', reader', worker)
           G2 == GateCount(ses', reader', worker)
           C == CallerCount(caller)
           b == ManualBits(ses[c], reader[c])
           b2 == ManualBits(ses'[c], reader'[c])
           g == GateBits(ses[c], reader[c])
           g2 == GateBits(ses'[c], reader'[c])
<1>1. manualSessions = M /\ shared = G + C
  BY CountedExact DEF Counted
<1>2. M \in Nat /\ G \in Nat /\ C \in Nat
  BY CountTypes, CallerCountType
<1>3. M2 = M + b2 - b /\ G2 = G + g2 - g
  BY ClientCounts
<1>4. b \in Nat /\ b2 \in Nat /\ g \in Nat /\ g2 \in Nat
  BY DEF ManualBits, GateBits, ActiveBit, PcBit, Bit
<1>5. manualSessions' = manualSessions + b2 - b /\ shared' = shared + g2 - g
  OBVIOUS
<1>6. ManualCount(ses', reader', worker') = M2 /\ GateCount(ses', reader', worker') = G2
      /\ CallerCount(caller') = C
  OBVIOUS
<1> HIDE DEF M, G, M2, G2, C, b, b2, g, g2
<1>7. manualSessions' = M2 /\ shared' = G2 + C
  BY <1>1, <1>2, <1>3, <1>4, <1>5
<1>8. Counted'
  BY <1>6, <1>7 DEF Counted
<1> QED BY <1>8, CountedExact

LEMMA WorkerStepCounts ==
    ASSUME CountsExact, caller' = caller, NEW c \in Clients, NEW k \in Kinds,
           SameBut(Clients, c, ses, ses'), reader' = reader,
           SameBut(Clients, c, worker, worker'), SameBut(Kinds, k, worker[c], worker'[c]),
           manualSessions' = manualSessions
               + ManualBits(ses'[c], reader[c]) - ManualBits(ses[c], reader[c])
               + EndBits(worker'[c][k]) - EndBits(worker[c][k]),
           shared' = shared + GateBits(ses'[c], reader[c]) - GateBits(ses[c], reader[c])
               + WorkerBit(worker'[c][k], "release") - WorkerBit(worker[c][k], "release")
    PROVE  CountsExact'
<1> DEFINE M == ManualCount(ses, reader, worker)
           G == GateCount(ses, reader, worker)
           M2 == ManualCount(ses', reader, worker)
           G2 == GateCount(ses', reader, worker)
           M3 == ManualCount(ses', reader, worker')
           G3 == GateCount(ses', reader, worker')
           C == CallerCount(caller)
           b == ManualBits(ses[c], reader[c])
           b2 == ManualBits(ses'[c], reader[c])
           g == GateBits(ses[c], reader[c])
           g2 == GateBits(ses'[c], reader[c])
           e == EndBits(worker[c][k])
           e2 == EndBits(worker'[c][k])
           r == WorkerBit(worker[c][k], "release")
           r2 == WorkerBit(worker'[c][k], "release")
<1>1. manualSessions = M /\ shared = G + C
  BY CountedExact DEF Counted
<1>2. M \in Nat /\ G \in Nat /\ C \in Nat
  BY CountTypes, CallerCountType
<1>3. M2 = M + b2 - b /\ G2 = G + g2 - g
  <2>1. SameBut(Clients, c, reader, reader)
    BY DEF SameBut
  <2> QED BY <2>1, ClientCounts
<1>4. M3 = M2 + e2 - e /\ G3 = G2 + r2 - r
  BY WorkerCounts
<1>5. b \in Nat /\ b2 \in Nat /\ g \in Nat /\ g2 \in Nat /\ e \in Nat /\ e2 \in Nat /\ r \in Nat /\ r2 \in Nat
  BY DEF ManualBits, GateBits, ActiveBit, PcBit, EndBits, WorkerBit, Bit
<1>6. manualSessions' = manualSessions + b2 - b + e2 - e /\ shared' = shared + g2 - g + r2 - r
  OBVIOUS
<1>7. ManualCount(ses', reader', worker') = M3 /\ GateCount(ses', reader', worker') = G3
      /\ CallerCount(caller') = C
  OBVIOUS
<1> HIDE DEF M, G, M2, G2, M3, G3, C, b, b2, g, g2, e, e2, r, r2
<1>8. manualSessions' = M3 /\ shared' = G3 + C
  BY <1>1, <1>2, <1>3, <1>4, <1>5, <1>6
<1>9. Counted'
  BY <1>7, <1>8 DEF Counted
<1> QED BY <1>9, CountedExact

(* The rest of the state is left alone but for the two counts.             *)
Apart == /\ UNCHANGED <<modeVars, lane, caller>>
         /\ cancelled' \in BOOLEAN /\ cooling' \in BOOLEAN /\ faults' \in {faults, faults + 1}

(* What the lane demands of a client.                                      *)
LaneKnown(s, rd) == /\ s.active \/ rd.pc = "begun" => lane = None
                    /\ rd.pc = "waiting" => lane = rd.op

LEMMA ClientAction ==
    ASSUME Inv, NEW c \in Clients, NEW s, NEW rd, NEW q, NEW w, NEW n,
           ClientStep(c, s, rd, q, w, n), ClientInv(s, rd, q, w, n, faults'), Apart,
           LaneKnown(s, rd), CountsExact', exclusive => shared' = 0
    PROVE  Inv'
<1>1. faults \in Nat /\ faults' \in {faults, faults + 1} /\ faults' \in Nat
  BY DEF Inv, ControlTyped, Apart
<1>2. /\ ClientsInv' /\ ses'[c] = s /\ reader'[c] = rd
      /\ SameBut(Clients, c, ses, ses') /\ SameBut(Clients, c, reader, reader')
  BY <1>1, ClientStepInv DEF Inv
<1>3. manualSessions' \in Nat /\ shared' \in Nat
  <2>1. Counted'
    BY CountedExact
  <2>2. /\ manualSessions' = ManualCount(ses', reader', worker')
        /\ shared' = GateCount(ses', reader', worker') + CallerCount(caller')
    BY <2>1 DEF Counted
  <2> QED BY <2>2, CountTypes, CallerCountType
<1>4. ControlTyped'
  BY <1>1, <1>3 DEF Inv, ControlTyped, Apart, modeVars
<1>5. LaneInv'
  <2>1. lane' = lane /\ caller' = caller /\ LaneInv
    BY DEF Apart, Inv
  <2>2. ASSUME NEW d \in Clients
        PROVE  /\ (ses'[d].active \/ reader'[d].pc = "begun") => lane' = None
               /\ reader'[d].pc = "waiting" => lane' = reader'[d].op
    <3>1. CASE d = c
      BY <1>2, <2>1, <3>1 DEF LaneKnown
    <3>2. CASE d # c
      <4>1. ses'[d] = ses[d] /\ reader'[d] = reader[d]
        BY <1>2, <3>2 DEF SameBut
      <4> QED BY <2>1, <4>1 DEF LaneInv
    <3> QED BY <3>1, <3>2
  <2> QED BY <2>1, <2>2 DEF LaneInv
<1>6. GateInv'
  BY DEF GateInv, Inv, Apart, modeVars
<1> QED BY <1>2, <1>4, <1>5, <1>6 DEF Inv

(* A step of the reader.                                                   *)
LEMMA ReaderAction ==
    ASSUME Inv, NEW c \in Clients, NEW s, NEW rd, NEW q, NEW n,
           ClientStep(c, s, rd, q, worker[c], n), ClientInv(s, rd, q, worker[c], n, faults),
           Apart, faults' = faults, LaneKnown(s, rd),
           manualSessions' = manualSessions + ManualBits(s, rd) - ManualBits(ses[c], reader[c]),
           shared' = shared + GateBits(s, rd) - GateBits(ses[c], reader[c]),
           exclusive => GateBits(s, rd) <= GateBits(ses[c], reader[c])
    PROVE  Inv'
<1>1. faults \in Nat /\ faults' \in {faults, faults + 1}
  BY DEF Inv, ControlTyped
<1>2. ClientInv(s, rd, q, worker[c], n, faults')
  OBVIOUS
<1>3. /\ ses'[c] = s /\ reader'[c] = rd
      /\ SameBut(Clients, c, ses, ses') /\ SameBut(Clients, c, reader, reader')
  BY <1>1, <1>2, ClientStepInv DEF Inv
<1>4. worker' = worker
  <2>1. worker \in [Clients -> [Kinds -> Worker]]
    BY DEF Inv, ClientsInv
  <2> QED BY <2>1 DEF ClientStep
<1>5. CountsExact'
  <2>1. caller' = caller /\ CountsExact
    BY DEF Apart, Inv
  <2>2. /\ manualSessions' = manualSessions + ManualBits(ses'[c], reader'[c])
                             - ManualBits(ses[c], reader[c])
        /\ shared' = shared + GateBits(ses'[c], reader'[c]) - GateBits(ses[c], reader[c])
    BY <1>3
  <2> QED BY <1>3, <1>4, <2>1, <2>2, ReaderCounts
<1>6. exclusive => shared' = 0
  <2>1. GateBits(s, rd) \in Nat /\ GateBits(ses[c], reader[c]) \in Nat
    BY DEF GateBits, ActiveBit, PcBit, Bit
  <2>2. GateBits(ses[c], reader[c]) <= shared
    BY CountBounds
  <2>3. exclusive => shared = 0
    BY DEF Inv, GateInv
  <2> QED BY <2>1, <2>2, <2>3
<1> QED BY <1>2, <1>5, <1>6, ClientAction

(* A step of worker k that leaves the gate and the coordinator alone.      *)
LEMMA QuietAction ==
    ASSUME Inv, NEW c \in Clients, NEW k \in Kinds, NEW s, NEW q, NEW x,
           ClientStep(c, s, reader[c], q, [worker[c] EXCEPT ![k] = x], sent[c]),
           ClientInv(s, reader[c], q, [worker[c] EXCEPT ![k] = x], sent[c], faults'),
           Apart, manualSessions' = manualSessions, shared' = shared,
           worker[c][k].pc \notin {"release", "end"},
           \/ s.active = ses[c].active /\ x.pc \notin {"release", "end"}
           \/ ~s.active /\ ses[c].active /\ x.pc = "release"
    PROVE  Inv'
<1> DEFINE w == [worker[c] EXCEPT ![k] = x]
<1>1. faults \in Nat /\ faults' \in {faults, faults + 1}
  BY DEF Inv, ControlTyped, Apart
<1>2. /\ ses'[c] = s /\ worker'[c] = w
      /\ SameBut(Clients, c, ses, ses') /\ SameBut(Clients, c, worker, worker')
  BY <1>1, ClientStepInv DEF Inv
<1>3. worker[c] \in [Kinds -> Worker] /\ reader \in [Clients -> Reader]
  BY DEF Inv, ClientsInv
<1>4. reader' = reader
  BY <1>3 DEF ClientStep
<1>5. worker'[c][k] = x /\ SameBut(Kinds, k, worker[c], worker'[c])
  BY <1>2, <1>3 DEF SameBut
<1>6. ClientInv(ses[c], reader[c], queue[c], worker[c], sent[c], faults)
  BY DEF Inv, ClientsInv
<1>7. ses[c].active => reader[c].pc \in {"idle", "closing"}
  BY <1>6 DEF ClientInv, ReaderKnown
<1>8. s.active => ses[c].active
  OBVIOUS
<1>9. LaneKnown(s, reader[c])
  BY <1>8 DEF LaneKnown, Inv, LaneInv
<1>10. CountsExact'
  <2>1. caller' = caller /\ CountsExact
    BY DEF Apart, Inv
  <2>2. manualSessions \in Nat /\ shared \in Nat
    BY DEF Inv, ControlTyped
  <2>3. /\ manualSessions' = manualSessions
               + ManualBits(ses'[c], reader[c]) - ManualBits(ses[c], reader[c])
               + EndBits(worker'[c][k]) - EndBits(worker[c][k])
        /\ shared' = shared + GateBits(ses'[c], reader[c]) - GateBits(ses[c], reader[c])
               + WorkerBit(worker'[c][k], "release") - WorkerBit(worker[c][k], "release")
    <3>1. CASE s.active = ses[c].active /\ x.pc \notin {"release", "end"}
      BY <1>2, <1>5, <2>2, <3>1 DEF ManualBits, GateBits, EndBits, ActiveBit, PcBit, WorkerBit, Bit
    <3>2. CASE ~s.active /\ ses[c].active /\ x.pc = "release"
      BY <1>2, <1>5, <1>7, <2>2, <3>2 DEF ManualBits, GateBits, EndBits, ActiveBit, PcBit, WorkerBit, Bit
    <3> QED BY <3>1, <3>2
  <2> QED BY <1>2, <1>4, <1>5, <2>1, <2>3, WorkerStepCounts
<1>11. exclusive => shared' = 0
  BY DEF Inv, GateInv
<1> QED BY <1>9, <1>10, <1>11, ClientAction

LEMMA ClientFacts ==
    ASSUME Inv, NEW c \in Clients
    PROVE  /\ ClientInv(ses[c], reader[c], queue[c], worker[c], sent[c], faults)
           /\ ses \in [Clients -> Session] /\ reader \in [Clients -> Reader]
           /\ queue \in [Clients -> [Kinds -> Seq(Report)]]
           /\ worker \in [Clients -> [Kinds -> Worker]] /\ sent \in [Clients -> 0..MaxReports]
           /\ ses[c] \in Session /\ reader[c] \in Reader /\ worker[c] \in [Kinds -> Worker]
           /\ LaneKnown(ses[c], reader[c])
           /\ reader[c].pc \notin {"idle", "closing"} => ~ses[c].active
           /\ reader[c].pc \in Reserving => reader[c].rep.kind \in Kinds
           /\ sent[c] \in 0..MaxReports /\ MaxReports \in Nat
           /\ manualSessions \in Nat /\ shared \in Nat /\ faults \in Nat
           /\ cancelled \in BOOLEAN /\ cooling \in BOOLEAN /\ lane \in Callers \cup {None}
<1>1. /\ ClientInv(ses[c], reader[c], queue[c], worker[c], sent[c], faults)
      /\ ses \in [Clients -> Session] /\ reader \in [Clients -> Reader]
      /\ queue \in [Clients -> [Kinds -> Seq(Report)]]
      /\ worker \in [Clients -> [Kinds -> Worker]] /\ sent \in [Clients -> 0..MaxReports]
  BY DEF Inv, ClientsInv
<1>2. /\ manualSessions \in Nat /\ shared \in Nat /\ faults \in Nat
      /\ cancelled \in BOOLEAN /\ cooling \in BOOLEAN /\ lane \in Callers \cup {None}
  BY DEF Inv, ControlTyped
<1>3. LaneKnown(ses[c], reader[c])
  BY DEF LaneKnown, Inv, LaneInv
<1>4. /\ reader[c].pc \notin {"idle", "closing"} => ~ses[c].active
      /\ reader[c].pc \in Reserving => reader[c].rep.kind \in Kinds
  BY <1>1 DEF ClientInv, ReaderKnown
<1> QED BY <1>1, <1>2, <1>3, <1>4, KindsFinite

(* The reader moves on, without touching the session and its queues.       *)
LEMMA ReaderStep ==
    ASSUME Inv, NEW c \in Clients, NEW rd \in Reader, NEW n \in 0..MaxReports,
           reader' = [reader EXCEPT ![c] = rd], sent' = [sent EXCEPT ![c] = n],
           UNCHANGED <<ses, queue, worker>>, Apart, faults' = faults,
           rd.pc \notin {"idle", "closing"} => ~ses[c].active,
           rd.pc \in Reserving => rd.rep.kind \in Kinds,
           n - Ahead(rd) >= sent[c] - Ahead(reader[c]),
           reader[c].pc \in {"closing", "release", "end", "gone"} =>
               rd.pc \in {"closing", "release", "end", "gone"},
           rd.pc = "begun" => lane = None, rd.pc = "waiting" => lane = rd.op,
           manualSessions' = manualSessions + ManualBits(ses[c], rd) - ManualBits(ses[c], reader[c]),
           shared' = shared + GateBits(ses[c], rd) - GateBits(ses[c], reader[c]),
           exclusive => GateBits(ses[c], rd) <= GateBits(ses[c], reader[c])
    PROVE  Inv'
<1>1. ClientInv(ses[c], reader[c], queue[c], worker[c], sent[c], faults)
  BY ClientFacts
<1>2. ClientInv(ses[c], rd, queue[c], worker[c], n, faults)
  BY <1>1, ReaderMoves
<1>3. ClientStep(c, ses[c], rd, queue[c], worker[c], n)
  <2>1. /\ ses \in [Clients -> Session] /\ queue \in [Clients -> [Kinds -> Seq(Report)]]
        /\ worker \in [Clients -> [Kinds -> Worker]]
    BY ClientFacts
  <2>2. ses = [ses EXCEPT ![c] = ses[c]]
    BY <2>1
  <2>3. queue = [queue EXCEPT ![c] = queue[c]]
    BY <2>1
  <2>4. worker = [worker EXCEPT ![c] = worker[c]]
    BY <2>1
  <2> QED BY <2>2, <2>3, <2>4 DEF ClientStep
<1>4. LaneKnown(ses[c], rd)
  <2>1. LaneKnown(ses[c], reader[c])
    BY ClientFacts
  <2> QED BY <2>1 DEF LaneKnown
<1> QED BY <1>2, <1>3, <1>4, ReaderAction

LEMMA ReserveStableInv ==
    ASSUME Inv, NEW c \in Clients, NEW r \in Reports, ReserveStable(c, r)
    PROVE  Inv'
<1> DEFINE rd == [reader[c] EXCEPT !.pc = "stable", !.rep = r]
           n == sent[c] + 1
<1>1. /\ reader[c] \in Reader /\ reader \in [Clients -> Reader] /\ sent \in [Clients -> 0..MaxReports]
      /\ sent[c] \in 0..MaxReports /\ MaxReports \in Nat
      /\ manualSessions \in Nat /\ shared \in Nat /\ cancelled \in BOOLEAN /\ cooling \in BOOLEAN
  BY ClientFacts
<1>2. r \in Report /\ r.kind \in Kinds
  BY DEF Reports, Report
<1>3. rd \in Reader /\ rd.pc = "stable" /\ rd.rep = r
  BY <1>1, <1>2 DEF Reader
<1>4. n \in 0..MaxReports
  BY <1>1 DEF ReserveStable
<1>5. reader' = [reader EXCEPT ![c] = rd] /\ sent' = [sent EXCEPT ![c] = n]
  BY <1>1 DEF ReserveStable
<1>6. /\ UNCHANGED <<ses, queue, worker>> /\ Apart /\ faults' = faults /\ reader[c].pc = "idle"
      /\ ~ses[c].active /\ manualSessions' = manualSessions /\ shared' = shared
  BY <1>1 DEF ReserveStable, Apart, Step, laneVars, modeVars
<1> HIDE DEF rd, n
<1>7. Ahead(rd) = 1 /\ Ahead(reader[c]) = 0 /\ n - 1 >= sent[c] - 0
  BY <1>1, <1>3, <1>6 DEF Ahead, Reserving, n
<1>8. /\ ManualBits(ses[c], rd) = 0 /\ ManualBits(ses[c], reader[c]) = 0
      /\ GateBits(ses[c], rd) = 0 /\ GateBits(ses[c], reader[c]) = 0
  BY <1>3, <1>6 DEF ManualBits, GateBits, ActiveBit, PcBit, Bit, Begun, Within
<1>9. /\ manualSessions' = manualSessions + ManualBits(ses[c], rd) - ManualBits(ses[c], reader[c])
      /\ shared' = shared + GateBits(ses[c], rd) - GateBits(ses[c], reader[c])
      /\ GateBits(ses[c], rd) <= GateBits(ses[c], reader[c])
  BY <1>1, <1>6, <1>8
<1> QED BY <1>2, <1>3, <1>4, <1>5, <1>6, <1>7, <1>9, ReaderStep

LEMMA MoveStep ==
    ASSUME Inv, NEW c \in Clients, NEW rd \in Reader,
           reader' = [reader EXCEPT ![c] = rd], UNCHANGED <<ses, queue, worker, sent>>,
           Apart, faults' = faults,
           rd.pc \notin {"idle", "closing"} => ~ses[c].active,
           rd.pc \in Reserving => reader[c].pc \in Reserving /\ rd.rep = reader[c].rep,
           reader[c].pc \in {"closing", "release", "end", "gone"} =>
               rd.pc \in {"closing", "release", "end", "gone"},
           rd.pc = "begun" => lane = None, rd.pc = "waiting" => lane = rd.op,
           manualSessions' = manualSessions + ManualBits(ses[c], rd) - ManualBits(ses[c], reader[c]),
           shared' = shared + GateBits(ses[c], rd) - GateBits(ses[c], reader[c]),
           exclusive => GateBits(ses[c], rd) <= GateBits(ses[c], reader[c])
    PROVE  Inv'
<1>1. /\ sent \in [Clients -> 0..MaxReports] /\ sent[c] \in 0..MaxReports /\ MaxReports \in Nat
      /\ reader[c].pc \in Reserving => reader[c].rep.kind \in Kinds
  BY ClientFacts
<1>2. sent' = [sent EXCEPT ![c] = sent[c]] /\ UNCHANGED <<ses, queue, worker>>
  BY <1>1
<1>3. Ahead(rd) \in {0, 1} /\ Ahead(reader[c]) \in {0, 1} /\ Ahead(rd) <= Ahead(reader[c])
  BY DEF Ahead
<1>4. sent[c] - Ahead(rd) >= sent[c] - Ahead(reader[c])
  BY <1>1, <1>3
<1>5. rd.pc \in Reserving => rd.rep.kind \in Kinds
  BY <1>1
<1> QED BY <1>1, <1>2, <1>4, <1>5, ReaderStep

(* The share of a reader by where it is, with no active session.           *)
LEMMA BitsAt ==
    ASSUME NEW s, NEW rd, ~s.active
    PROVE  /\ ManualBits(s, rd) = IF rd.pc \in {"waiting", "begun", "release", "end"} THEN 1 ELSE 0
           /\ GateBits(s, rd) = IF rd.pc \in {"shared", "allowed", "waiting", "begun", "undo", "release"}
                                THEN 1 ELSE 0
BY DEF ManualBits, GateBits, ActiveBit, PcBit, Bit, Begun, Within

(* A reader that reserves moves to rd and counts itself in and out.        *)
ReaderGoes(c, rd) ==
    /\ rd \in Reader /\ reader' = [reader EXCEPT ![c] = rd]
    /\ cancelled' \in BOOLEAN /\ cooling' \in BOOLEAN
    /\ rd.pc \notin {"closing", "release", "end", "gone"}
    /\ rd.pc \in Reserving => rd.rep = reader[c].rep
    /\ rd.pc = "begun" => lane = None
    /\ rd.pc = "waiting" => lane = rd.op
    /\ manualSessions' = manualSessions
           + (IF rd.pc \in {"waiting", "begun"} THEN 1 ELSE 0)
           - (IF reader[c].pc \in {"waiting", "begun"} THEN 1 ELSE 0)
    /\ shared' = shared
           + (IF rd.pc \in {"shared", "allowed", "waiting", "begun", "undo"} THEN 1 ELSE 0)
           - (IF reader[c].pc \in {"shared", "allowed", "waiting", "begun", "undo"} THEN 1 ELSE 0)
    /\ reader[c].pc = "stable" => ~exclusive

LEMMA ReserveInv ==
    ASSUME Inv, NEW c \in Clients,
           ReserveShares(c) \/ ReserveRechecks(c) \/ BeginManual(c) \/ BeginDone(c)
           \/ BeginTimesOut(c) \/ ReserveUndone(c)
    PROVE  Inv'
<1>1. /\ reader[c] \in Reader /\ reader \in [Clients -> Reader]
      /\ manualSessions \in Nat /\ shared \in Nat /\ cancelled \in BOOLEAN /\ cooling \in BOOLEAN
      /\ lane \in Callers \cup {None} /\ LaneKnown(ses[c], reader[c])
  BY ClientFacts
<1>2. /\ reader[c].pc \in Reserving /\ UNCHANGED <<ses, queue, worker, sent>> /\ faults' = faults
      /\ UNCHANGED <<modeVars, lane, caller>> /\ reader[c].pc \notin {"idle", "closing"}
  BY DEF ReserveShares, ReserveRechecks, BeginManual, BeginDone, BeginTimesOut, ReserveUndone,
         Reserving, ReaderAt, Step, laneVars, modeVars
<1>3. ~ses[c].active
  BY <1>2, ClientFacts
<1>4. /\ ManualBits(ses[c], reader[c]) =
             IF reader[c].pc \in {"waiting", "begun", "release", "end"} THEN 1 ELSE 0
      /\ GateBits(ses[c], reader[c]) =
             IF reader[c].pc \in {"shared", "allowed", "waiting", "begun", "undo", "release"}
             THEN 1 ELSE 0
      /\ ManualBits(ses[c], reader[c]) <= manualSessions /\ GateBits(ses[c], reader[c]) <= shared
  BY <1>3, BitsAt, CountBounds
<1>5. ASSUME NEW rd, ReaderGoes(c, rd)
      PROVE  Inv'
  <2>1. /\ ManualBits(ses[c], rd) = IF rd.pc \in {"waiting", "begun"} THEN 1 ELSE 0
        /\ GateBits(ses[c], rd) =
               IF rd.pc \in {"shared", "allowed", "waiting", "begun", "undo"} THEN 1 ELSE 0
    BY <1>3, <1>5, BitsAt DEF ReaderGoes
  <2>2. /\ ManualBits(ses[c], reader[c]) = IF reader[c].pc \in {"waiting", "begun"} THEN 1 ELSE 0
        /\ GateBits(ses[c], reader[c]) =
               IF reader[c].pc \in {"shared", "allowed", "waiting", "begun", "undo"} THEN 1 ELSE 0
    BY <1>2, <1>4 DEF Reserving
  <2>3. /\ manualSessions' = manualSessions + ManualBits(ses[c], rd) - ManualBits(ses[c], reader[c])
        /\ shared' = shared + GateBits(ses[c], rd) - GateBits(ses[c], reader[c])
    BY <1>5, <2>1, <2>2 DEF ReaderGoes
  <2>4. exclusive => GateBits(ses[c], rd) <= GateBits(ses[c], reader[c])
    BY <1>2, <1>5, <2>1, <2>2 DEF Reserving, ReaderGoes
  <2>5. Apart
    BY <1>2, <1>5 DEF Apart, ReaderGoes
  <2>6. reader[c].pc \notin {"closing", "release", "end", "gone"}
    BY <1>2 DEF Reserving
  <2>7. /\ rd \in Reader /\ reader' = [reader EXCEPT ![c] = rd]
        /\ rd.pc \in Reserving => rd.rep = reader[c].rep
        /\ (rd.pc = "begun" => lane = None) /\ (rd.pc = "waiting" => lane = rd.op)
    BY <1>5 DEF ReaderGoes
  <2> QED BY <1>2, <1>3, <2>3, <2>4, <2>5, <2>6, <2>7, MoveStep
<1>6. CASE ReserveShares(c)
  <2> DEFINE rd == [reader[c] EXCEPT !.pc = "shared"]
  <2>1. rd \in Reader /\ rd.pc = "shared" /\ rd.rep = reader[c].rep
    BY <1>1 DEF Reader
  <2>2. reader' = [reader EXCEPT ![c] = rd]
    BY <1>1, <1>6 DEF ReserveShares, ReaderAt
  <2>3. /\ reader[c].pc = "stable" /\ cancelled' = cancelled /\ cooling' = cooling
        /\ ~exclusive /\ shared' = shared + 1 /\ manualSessions' = manualSessions
    BY <1>6 DEF ReserveShares, AcquireShared, laneVars
  <2> HIDE DEF rd
  <2>4. ReaderGoes(c, rd)
    BY <1>1, <2>1, <2>2, <2>3 DEF ReaderGoes
  <2> QED BY <1>5, <2>4
<1>7. CASE ReserveRechecks(c)
  <2>1. PICK a \in {"allowed", "undo"} : ReaderAt(c, a)
    BY <1>7 DEF ReserveRechecks
  <2> DEFINE rd == [reader[c] EXCEPT !.pc = a]
  <2>2. rd \in Reader /\ rd.pc = a /\ rd.rep = reader[c].rep
    BY <1>1, <2>1 DEF Reader
  <2>3. reader' = [reader EXCEPT ![c] = rd]
    BY <1>1, <2>1 DEF ReaderAt
  <2>4. /\ reader[c].pc = "shared" /\ cancelled' = cancelled /\ cooling' = cooling
        /\ shared' = shared /\ manualSessions' = manualSessions
    BY <1>7 DEF ReserveRechecks, laneVars
  <2> HIDE DEF rd
  <2>5. ReaderGoes(c, rd)
    BY <1>1, <2>1, <2>2, <2>3, <2>4 DEF ReaderGoes
  <2> QED BY <1>5, <2>5
<1>8. CASE BeginManual(c)
  <2> DEFINE a == IF lane = None THEN "begun" ELSE "waiting"
             rd == [reader[c] EXCEPT !.pc = a, !.op = lane]
  <2>1. rd \in Reader /\ rd.pc = a /\ rd.rep = reader[c].rep /\ rd.op = lane
    BY <1>1 DEF Reader
  <2>2. reader' = [reader EXCEPT ![c] = rd]
    BY <1>1, <1>8 DEF BeginManual
  <2>3. /\ reader[c].pc = "allowed" /\ cancelled' \in BOOLEAN /\ cooling' = cooling
        /\ shared' = shared /\ manualSessions' = manualSessions + 1
    BY <1>8 DEF BeginManual
  <2> HIDE DEF rd
  <2>4. ReaderGoes(c, rd)
    BY <1>1, <2>1, <2>2, <2>3 DEF ReaderGoes
  <2> QED BY <1>5, <2>4
<1>9. CASE BeginDone(c)
  <2> DEFINE rd == [reader[c] EXCEPT !.pc = "begun"]
  <2>1. rd \in Reader /\ rd.pc = "begun" /\ rd.rep = reader[c].rep
    BY <1>1 DEF Reader
  <2>2. reader' = [reader EXCEPT ![c] = rd]
    BY <1>1, <1>9 DEF BeginDone, ReaderAt
  <2>3. /\ reader[c].pc = "waiting" /\ cancelled' = cancelled /\ cooling' = cooling
        /\ shared' = shared /\ manualSessions' = manualSessions /\ reader[c].op = None
    BY <1>9 DEF BeginDone, laneVars
  <2>4. lane = None
    BY <1>1, <2>3 DEF LaneKnown
  <2> HIDE DEF rd
  <2>5. ReaderGoes(c, rd)
    BY <1>1, <2>1, <2>2, <2>3, <2>4 DEF ReaderGoes
  <2> QED BY <1>5, <2>5
<1>10. CASE BeginTimesOut(c)
  <2> DEFINE rd == [reader[c] EXCEPT !.pc = "undo", !.op = None]
  <2>1. rd \in Reader /\ rd.pc = "undo" /\ rd.rep = reader[c].rep
    BY <1>1 DEF Reader
  <2>2. reader' = [reader EXCEPT ![c] = rd]
    BY <1>1, <1>10 DEF BeginTimesOut
  <2>3. /\ reader[c].pc = "waiting" /\ cancelled' = cancelled /\ cooling' \in BOOLEAN
        /\ shared' = shared /\ manualSessions' = IF manualSessions > 0 THEN manualSessions - 1 ELSE 0
    BY <1>1, <1>10 DEF BeginTimesOut, EndManual, laneVars
  <2>4. manualSessions' = manualSessions - 1
    BY <1>1, <1>4, <2>3
  <2> HIDE DEF rd
  <2>5. ReaderGoes(c, rd)
    BY <1>1, <2>1, <2>2, <2>3, <2>4 DEF ReaderGoes
  <2> QED BY <1>5, <2>5
<1>11. CASE ReserveUndone(c)
  <2> DEFINE rd == [reader[c] EXCEPT !.pc = "idle", !.rep = NoReport]
  <2>1. rd \in Reader /\ rd.pc = "idle"
    <3>1. NoReport \in Report
      BY DEF NoReport, Report
    <3> QED BY <1>1, <3>1 DEF Reader
  <2>2. reader' = [reader EXCEPT ![c] = rd]
    BY <1>1, <1>11 DEF ReserveUndone
  <2>3. /\ reader[c].pc = "undo" /\ cancelled' = cancelled /\ cooling' = cooling
        /\ manualSessions' = manualSessions /\ shared' = IF shared > 0 THEN shared - 1 ELSE shared
    BY <1>11 DEF ReserveUndone, ReleaseShared, laneVars
  <2>4. shared' = shared - 1
    BY <1>1, <1>4, <2>3
  <2> HIDE DEF rd
  <2>5. ReaderGoes(c, rd)
    BY <1>1, <2>1, <2>2, <2>3, <2>4 DEF ReaderGoes, Reserving
  <2> QED BY <1>5, <2>5
<1> QED BY <1>6, <1>7, <1>8, <1>9, <1>10, <1>11

LEMMA CloseQueuesInv ==
    ASSUME Inv, NEW c \in Clients, CloseQueues(c)
    PROVE  Inv'
<1> DEFINE rd == [reader[c] EXCEPT !.pc = "closing"]
<1>1. /\ reader[c] \in Reader /\ reader \in [Clients -> Reader]
      /\ manualSessions \in Nat /\ shared \in Nat /\ cancelled \in BOOLEAN /\ cooling \in BOOLEAN
  BY ClientFacts
<1>2. rd \in Reader /\ rd.pc = "closing"
  BY <1>1 DEF Reader
<1>3. reader' = [reader EXCEPT ![c] = rd]
  BY <1>1 DEF CloseQueues, ReaderAt
<1>4. /\ reader[c].pc = "idle" /\ UNCHANGED <<ses, queue, worker, sent>> /\ faults' = faults
      /\ manualSessions' = manualSessions /\ shared' = shared /\ Apart
  BY <1>1 DEF CloseQueues, Step, Apart, laneVars, modeVars
<1> HIDE DEF rd
<1>5. ManualBits(ses[c], rd) = ManualBits(ses[c], reader[c])
      /\ GateBits(ses[c], rd) = GateBits(ses[c], reader[c])
      /\ ManualBits(ses[c], rd) \in Nat /\ GateBits(ses[c], rd) \in Nat
  BY <1>2, <1>4 DEF ManualBits, GateBits, ActiveBit, PcBit, Bit, Begun, Within
<1>6. /\ manualSessions' = manualSessions + ManualBits(ses[c], rd) - ManualBits(ses[c], reader[c])
      /\ shared' = shared + GateBits(ses[c], rd) - GateBits(ses[c], reader[c])
      /\ GateBits(ses[c], rd) <= GateBits(ses[c], reader[c])
  BY <1>1, <1>4, <1>5
<1>7. rd.pc \notin Reserving
  BY <1>2 DEF Reserving
<1> QED BY <1>2, <1>3, <1>4, <1>6, <1>7, MoveStep

LEMMA CloseInv ==
    ASSUME Inv, NEW c \in Clients, CloseRelease(c) \/ CloseEnd(c)
    PROVE  Inv'
<1> DEFINE a == IF reader[c].pc = "release" THEN "end" ELSE "gone"
           rd == [reader[c] EXCEPT !.pc = a]
<1>1. /\ reader[c] \in Reader /\ reader \in [Clients -> Reader]
      /\ manualSessions \in Nat /\ shared \in Nat /\ cancelled \in BOOLEAN /\ cooling \in BOOLEAN
  BY ClientFacts
<1>2. rd \in Reader /\ rd.pc = a
  BY <1>1 DEF Reader
<1>3. reader' = [reader EXCEPT ![c] = rd]
  BY <1>1 DEF CloseRelease, CloseEnd, ReaderAt
<1>4. /\ reader[c].pc \in {"release", "end"} /\ UNCHANGED <<ses, queue, worker, sent>>
      /\ faults' = faults /\ Apart
  BY <1>1 DEF CloseRelease, CloseEnd, EndManual, Step, Apart, laneVars, modeVars
<1>5. ~ses[c].active
  BY <1>4, ClientFacts
<1> HIDE DEF rd
<1>6. /\ ManualBits(ses[c], reader[c]) = 1 /\ ManualBits(ses[c], rd) = IF a = "end" THEN 1 ELSE 0
      /\ GateBits(ses[c], reader[c]) = (IF reader[c].pc = "release" THEN 1 ELSE 0)
      /\ GateBits(ses[c], rd) = 0
  BY <1>2, <1>4, <1>5, BitsAt
<1>7. ManualBits(ses[c], reader[c]) <= manualSessions /\ GateBits(ses[c], reader[c]) <= shared
  BY CountBounds
<1>8. /\ manualSessions' = manualSessions + ManualBits(ses[c], rd) - ManualBits(ses[c], reader[c])
      /\ shared' = shared + GateBits(ses[c], rd) - GateBits(ses[c], reader[c])
      /\ GateBits(ses[c], rd) <= GateBits(ses[c], reader[c])
  BY <1>1, <1>6, <1>7 DEF CloseRelease, CloseEnd, EndManual, ReleaseShared
<1>9. rd.pc \notin Reserving /\ rd.pc \in {"end", "gone"}
  BY <1>2 DEF Reserving
<1> QED BY <1>2, <1>3, <1>4, <1>5, <1>8, <1>9, MoveStep

LEMMA CloseSessionInv ==
    ASSUME Inv, NEW c \in Clients, CloseSession(c)
    PROVE  Inv'
<1> DEFINE s == [ses[c] EXCEPT !.closed = TRUE, !.active = FALSE, !.pending = 0, !.held = NoHeld,
                               !.cooldownOnIdle = FALSE, !.generation = ses[c].generation + 1]
           a == IF ses[c].active THEN "release" ELSE "gone"
           rd == [reader[c] EXCEPT !.pc = a]
<1>1. /\ ClientInv(ses[c], reader[c], queue[c], worker[c], sent[c], faults)
      /\ reader[c] \in Reader /\ reader \in [Clients -> Reader] /\ ses[c] \in Session
      /\ ses \in [Clients -> Session] /\ queue \in [Clients -> [Kinds -> Seq(Report)]]
      /\ worker \in [Clients -> [Kinds -> Worker]] /\ sent \in [Clients -> 0..MaxReports]
      /\ manualSessions \in Nat /\ shared \in Nat /\ cancelled \in BOOLEAN /\ cooling \in BOOLEAN
  BY ClientFacts
<1>2. ClientInv(s, rd, queue[c], worker[c], sent[c], faults)
  BY <1>1, ClosedInv DEF CloseSession
<1>3. ClientStep(c, s, rd, queue[c], worker[c], sent[c])
  <2>1. ses' = [ses EXCEPT ![c] = s]
    BY <1>1 DEF CloseSession
  <2>2. reader' = [reader EXCEPT ![c] = rd]
    BY <1>1 DEF CloseSession, ReaderAt
  <2>3. queue' = [queue EXCEPT ![c] = queue[c]] /\ worker' = [worker EXCEPT ![c] = worker[c]]
        /\ sent' = [sent EXCEPT ![c] = sent[c]]
    BY <1>1 DEF CloseSession
  <2> QED BY <2>1, <2>2, <2>3 DEF ClientStep
<1>4. Apart /\ faults' = faults /\ manualSessions' = manualSessions /\ shared' = shared
      /\ reader[c].pc = "closing"
  BY <1>1 DEF CloseSession, Apart, Step, laneVars, modeVars
<1>5. ~s.active
  BY <1>1 DEF Session
<1>6. rd.pc = a
  BY <1>1 DEF Reader
<1> HIDE DEF s, rd
<1>7. LaneKnown(s, rd)
  BY <1>5, <1>6 DEF LaneKnown
<1>8. ManualBits(s, rd) = ManualBits(ses[c], reader[c]) /\ GateBits(s, rd) = GateBits(ses[c], reader[c])
      /\ ManualBits(s, rd) \in Nat /\ GateBits(s, rd) \in Nat
  BY <1>4, <1>5, <1>6 DEF ManualBits, GateBits, ActiveBit, PcBit, Bit, Begun, Within
<1>9. /\ manualSessions' = manualSessions + ManualBits(s, rd) - ManualBits(ses[c], reader[c])
      /\ shared' = shared + GateBits(s, rd) - GateBits(ses[c], reader[c])
      /\ GateBits(s, rd) <= GateBits(ses[c], reader[c])
  BY <1>1, <1>4, <1>8
<1> QED BY <1>2, <1>3, <1>4, <1>7, <1>9, ReaderAction

(* The report as it is queued.                                             *)
Reserved(s, r) == [r EXCEPT !.gen = s.generation, !.cool = r.cool \/ IsRelease(s, r)]

LEMMA ReservedType ==
    ASSUME NEW s, NEW r \in Report, s.generation \in Nat
    PROVE  /\ Reserved(s, r) \in Report /\ Reserved(s, r).gen = s.generation
           /\ Reserved(s, r).kind = r.kind
<1> DEFINE b == r.cool \/ IsRelease(s, r)
           g == s.generation
<1>1. b \in BOOLEAN /\ g \in Nat
  OBVIOUS
<1>2. Reserved(s, r) = [r EXCEPT !.gen = g, !.cool = b]
  BY DEF Reserved
<1> HIDE DEF b, g
<1>3. LET x == [r EXCEPT !.gen = g, !.cool = b] IN x \in Report /\ x.gen = g /\ x.kind = r.kind
  BY <1>1 DEF Report
<1> QED BY <1>2, <1>3 DEF g

LEMMA ReserveActiveInv ==
    ASSUME Inv, NEW c \in Clients, NEW r \in Reports, ReserveActive(c, r)
    PROVE  Inv'
<1> DEFINE k == r.kind
           e == Reserved(ses[c], r)
           s == [ses[c] EXCEPT !.pending = ses[c].pending + 1]
           q == [queue[c] EXCEPT ![k] = Append(queue[c][k], e)]
           n == sent[c] + 1
<1>1. /\ ClientInv(ses[c], reader[c], queue[c], worker[c], sent[c], faults)
      /\ reader[c] \in Reader /\ reader \in [Clients -> Reader] /\ ses[c] \in Session
      /\ ses \in [Clients -> Session] /\ queue \in [Clients -> [Kinds -> Seq(Report)]]
      /\ worker \in [Clients -> [Kinds -> Worker]] /\ sent \in [Clients -> 0..MaxReports]
      /\ manualSessions \in Nat /\ shared \in Nat /\ cancelled \in BOOLEAN /\ cooling \in BOOLEAN
      /\ LaneKnown(ses[c], reader[c]) /\ sent[c] \in 0..MaxReports /\ MaxReports \in Nat
  BY ClientFacts
<1>2. r \in Report /\ k \in Kinds
  BY DEF Reports, Report
<1>3. ses[c].generation \in Nat
  BY <1>1 DEF Session
<1>4. e \in Report /\ e.gen = ses[c].generation /\ e.kind = k
  BY <1>2, <1>3, ReservedType
<1>5. /\ reader[c].pc = "idle" /\ ses[c].active /\ sent[c] < MaxReports
      /\ Apart /\ faults' = faults /\ manualSessions' = manualSessions /\ shared' = shared
  BY <1>1 DEF ReserveActive, Apart, Step, laneVars, modeVars
<1>6. ClientInv(s, reader[c], q, worker[c], n, faults)
  <2> HIDE DEF e, k
  <2> QED BY <1>1, <1>2, <1>4, <1>5, PushInv
<1>7. ClientStep(c, s, reader[c], q, worker[c], n)
  <2>1. ses' = [ses EXCEPT ![c] = s]
    BY <1>1 DEF ReserveActive
  <2>2. queue' = [queue EXCEPT ![c] = q]
    BY <1>1 DEF ReserveActive, Queued, Reserved
  <2>3. reader' = [reader EXCEPT ![c] = reader[c]] /\ worker' = [worker EXCEPT ![c] = worker[c]]
        /\ sent' = [sent EXCEPT ![c] = n]
    BY <1>1 DEF ReserveActive
  <2> QED BY <2>1, <2>2, <2>3 DEF ClientStep
<1>8. s.active = ses[c].active
  BY <1>1 DEF Session
<1> HIDE DEF s, q, n
<1>9. LaneKnown(s, reader[c])
  BY <1>1, <1>8 DEF LaneKnown
<1>10. /\ ManualBits(s, reader[c]) = ManualBits(ses[c], reader[c])
       /\ GateBits(s, reader[c]) = GateBits(ses[c], reader[c])
       /\ ManualBits(s, reader[c]) \in Nat /\ GateBits(s, reader[c]) \in Nat
  BY <1>8 DEF ManualBits, GateBits, ActiveBit, PcBit, Bit
<1>11. /\ manualSessions' = manualSessions + ManualBits(s, reader[c]) - ManualBits(ses[c], reader[c])
       /\ shared' = shared + GateBits(s, reader[c]) - GateBits(ses[c], reader[c])
       /\ GateBits(s, reader[c]) <= GateBits(ses[c], reader[c])
  BY <1>1, <1>5, <1>10
<1> QED BY <1>5, <1>6, <1>7, <1>9, <1>11, ReaderAction

LEMMA ActivateStepInv ==
    ASSUME Inv, NEW c \in Clients, Activate(c)
    PROVE  Inv'
<1> DEFINE r == reader[c].rep
           k == r.kind
           s == [ses[c] EXCEPT !.active = TRUE, !.generation = ses[c].generation + 1, !.pending = 1]
           e == Reserved(s, r)
           q == [queue[c] EXCEPT ![k] = Append(queue[c][k], e)]
           rd == [reader[c] EXCEPT !.pc = "idle", !.rep = NoReport]
<1>1. /\ ClientInv(ses[c], reader[c], queue[c], worker[c], sent[c], faults)
      /\ reader[c] \in Reader /\ reader \in [Clients -> Reader] /\ ses[c] \in Session
      /\ ses \in [Clients -> Session] /\ queue \in [Clients -> [Kinds -> Seq(Report)]]
      /\ worker \in [Clients -> [Kinds -> Worker]] /\ sent \in [Clients -> 0..MaxReports]
      /\ manualSessions \in Nat /\ shared \in Nat /\ cancelled \in BOOLEAN /\ cooling \in BOOLEAN
      /\ LaneKnown(ses[c], reader[c])
  BY ClientFacts
<1>2. reader[c].pc = "begun" /\ ~ses[c].active /\ k \in Kinds /\ r \in Report
  <2>1. reader[c].pc = "begun"
    BY DEF Activate
  <2>2. ~ses[c].active /\ k \in Kinds
    BY <2>1, ClientFacts DEF Reserving
  <2> QED BY <1>1, <2>1, <2>2 DEF Reader
<1>3. s.active /\ s.generation = ses[c].generation + 1 /\ ses[c].generation \in Nat /\ s.generation \in Nat
  BY <1>1 DEF Session
<1>4. e \in Report /\ e.gen = ses[c].generation + 1 /\ e.kind = k
  <2> HIDE DEF s, r
  <2> QED BY <1>2, <1>3, ReservedType
<1>5. Apart /\ faults' = faults /\ manualSessions' = manualSessions /\ shared' = shared
  BY <1>1 DEF Activate, Apart, Step, laneVars, modeVars
<1>6. ClientInv(s, rd, q, worker[c], sent[c], faults)
  <2> HIDE DEF e, k
  <2> QED BY <1>1, <1>2, <1>4, ActivateInv
<1>7. ClientStep(c, s, rd, q, worker[c], sent[c])
  <2>1. ses' = [ses EXCEPT ![c] = s]
    BY <1>1 DEF Activate
  <2>2. queue' = [queue EXCEPT ![c] = q]
    BY <1>1 DEF Activate, Queued, Reserved
  <2>3. reader' = [reader EXCEPT ![c] = rd]
    BY <1>1 DEF Activate
  <2>4. worker' = [worker EXCEPT ![c] = worker[c]] /\ sent' = [sent EXCEPT ![c] = sent[c]]
    BY <1>1 DEF Activate
  <2> QED BY <2>1, <2>2, <2>3, <2>4 DEF ClientStep
<1>8. rd.pc = "idle"
  BY <1>1 DEF Reader
<1> HIDE DEF s, q, rd
<1>9. LaneKnown(s, rd)
  BY <1>1, <1>2, <1>8 DEF LaneKnown
<1>10. ManualBits(s, rd) = 1 /\ GateBits(s, rd) = 1
  BY <1>3, <1>8 DEF ManualBits, GateBits, ActiveBit, PcBit, Bit, Begun, Within
<1>11. ManualBits(ses[c], reader[c]) = 1 /\ GateBits(ses[c], reader[c]) = 1
  BY <1>2, BitsAt
<1>12. /\ manualSessions' = manualSessions + ManualBits(s, rd) - ManualBits(ses[c], reader[c])
       /\ shared' = shared + GateBits(s, rd) - GateBits(ses[c], reader[c])
       /\ GateBits(s, rd) <= GateBits(ses[c], reader[c])
  BY <1>1, <1>5, <1>10, <1>11
<1> QED BY <1>5, <1>6, <1>7, <1>9, <1>12, ReaderAction

(* A session that ends here hands its share on to the worker.              *)
LEMMA HandedOn ==
    ASSUME NEW t \in Session, NEW y \in Worker, y.pc \in {"run", "exited"}, NEW cool
    PROVE  \/ Finished(t).active = t.active /\ FinishedBy(t, y, cool).pc \notin {"release", "end"}
           \/ ~Finished(t).active /\ t.active /\ FinishedBy(t, y, cool).pc = "release"
BY DEF Finished, FinishedBy, IsIdle, Session, Worker

LEMMA FinishStep ==
    ASSUME NEW c \in Clients, NEW k \in Kinds, NEW t, NEW y, NEW cool,
           worker \in [Clients -> [Kinds -> Worker]], FinishIfIdle(c, k, t, y, cool)
    PROVE  /\ ses' = [ses EXCEPT ![c] = Finished(t)]
           /\ worker' = [worker EXCEPT ![c] = [worker[c] EXCEPT ![k] = FinishedBy(t, y, cool)]]
BY DEF FinishIfIdle, Finished, FinishedBy

LEMMA WriteReportInv ==
    ASSUME Inv, NEW c \in Clients, NEW k \in Kinds, WriteReport(c, k)
    PROVE  Inv'
<1> DEFINE r == Head(queue[c][k])
           t == Complete(ses[c], r, TRUE)
           y == [worker[c][k] EXCEPT !.down = r.held]
           x == FinishedBy(t, y, t.cooldownOnIdle)
           q == [queue[c] EXCEPT ![k] = Tail(queue[c][k])]
<1>1. /\ ClientInv(ses[c], reader[c], queue[c], worker[c], sent[c], faults)
      /\ reader \in [Clients -> Reader] /\ queue \in [Clients -> [Kinds -> Seq(Report)]]
      /\ worker \in [Clients -> [Kinds -> Worker]] /\ sent \in [Clients -> 0..MaxReports]
      /\ cancelled \in BOOLEAN /\ cooling \in BOOLEAN
  BY ClientFacts
<1>2. /\ worker[c][k].pc = "run" /\ queue[c][k] # <<>> /\ Apart /\ faults' = faults
      /\ manualSessions' = manualSessions /\ shared' = shared
  BY <1>1 DEF WriteReport, Apart, Step, laneVars, modeVars
<1>3. /\ ses[c].active /\ t \in Session /\ t.active
      /\ ClientInv(Finished(t), reader[c], q, [worker[c] EXCEPT ![k] = x], sent[c], faults)
  BY <1>1, <1>2, WrittenInv
<1>4. y \in Worker /\ y.pc = "run"
  <2>1. worker[c][k] \in Worker
    BY <1>1
  <2>2. r \in Report
    <3>1. queue[c][k] \in Seq(Report)
      BY <1>1
    <3> QED BY <1>2, <3>1
  <2> HIDE DEF r
  <2>3. r.held \in BOOLEAN
    BY <2>2 DEF Report
  <2> QED BY <1>2, <2>1, <2>3 DEF Worker
<1>5. ClientStep(c, Finished(t), reader[c], q, [worker[c] EXCEPT ![k] = x], sent[c])
  <2>1. FinishIfIdle(c, k, t, y, t.cooldownOnIdle)
    BY DEF WriteReport
  <2>2. queue' = [queue EXCEPT ![c] = q]
    BY <1>1 DEF WriteReport
  <2>3. reader' = [reader EXCEPT ![c] = reader[c]] /\ sent' = [sent EXCEPT ![c] = sent[c]]
    BY <1>1 DEF WriteReport
  <2> HIDE DEF t, y, q
  <2>4. ses' = [ses EXCEPT ![c] = Finished(t)] /\ worker' = [worker EXCEPT ![c] = [worker[c] EXCEPT ![k] = x]]
    BY <1>1, <2>1, FinishStep
  <2> QED BY <2>2, <2>3, <2>4 DEF ClientStep
<1> HIDE DEF t, y, q
<1>6. \/ Finished(t).active = ses[c].active /\ x.pc \notin {"release", "end"}
      \/ ~Finished(t).active /\ ses[c].active /\ x.pc = "release"
  BY <1>3, <1>4, HandedOn
<1>7. worker[c][k].pc \notin {"release", "end"}
  BY <1>2
<1> HIDE DEF x
<1> QED BY <1>2, <1>3, <1>5, <1>6, <1>7, QuietAction

LEMMA WriteFailsInv ==
    ASSUME Inv, NEW c \in Clients, NEW k \in Kinds, WriteFails(c, k)
    PROVE  Inv'
<1> DEFINE x == [worker[c][k] EXCEPT !.pc = "dropping", !.rep = Head(queue[c][k])]
           q == [queue[c] EXCEPT ![k] = Tail(queue[c][k])]
<1>1. /\ ClientInv(ses[c], reader[c], queue[c], worker[c], sent[c], faults)
      /\ reader \in [Clients -> Reader] /\ queue \in [Clients -> [Kinds -> Seq(Report)]]
      /\ ses \in [Clients -> Session]
      /\ worker \in [Clients -> [Kinds -> Worker]] /\ sent \in [Clients -> 0..MaxReports]
      /\ cancelled \in BOOLEAN /\ cooling \in BOOLEAN /\ faults \in Nat
  BY ClientFacts
<1>2. /\ worker[c][k].pc = "run" /\ queue[c][k] # <<>> /\ Apart /\ faults' = faults + 1
      /\ manualSessions' = manualSessions /\ shared' = shared
  BY <1>1 DEF WriteFails, Apart, Fault, laneVars, modeVars
<1>3. ClientInv(ses[c], reader[c], q, [worker[c] EXCEPT ![k] = x], sent[c], faults')
  BY <1>1, <1>2, FailedInv
<1>4. ClientStep(c, ses[c], reader[c], q, [worker[c] EXCEPT ![k] = x], sent[c])
  <2>1. queue' = [queue EXCEPT ![c] = q]
    BY <1>1 DEF WriteFails
  <2>2. worker' = [worker EXCEPT ![c] = [worker[c] EXCEPT ![k] = x]]
    BY <1>1 DEF WriteFails
  <2>3. reader' = [reader EXCEPT ![c] = reader[c]] /\ sent' = [sent EXCEPT ![c] = sent[c]]
        /\ ses' = [ses EXCEPT ![c] = ses[c]]
    BY <1>1 DEF WriteFails
  <2> QED BY <2>1, <2>2, <2>3 DEF ClientStep
<1>5. x.pc = "dropping"
  <2>1. worker[c][k] \in Worker
    BY <1>1
  <2> QED BY <2>1 DEF Worker
<1> HIDE DEF x, q
<1>6. ses[c].active = ses[c].active /\ x.pc \notin {"release", "end"}
      /\ worker[c][k].pc \notin {"release", "end"}
  BY <1>2, <1>5
<1> QED BY <1>2, <1>3, <1>4, <1>6, QuietAction

LEMMA DrainHIDQueueInv ==
    ASSUME Inv, NEW c \in Clients, NEW k \in Kinds, DrainHIDQueue(c, k)
    PROVE  Inv'
<1>1. /\ ClientInv(ses[c], reader[c], queue[c], worker[c], sent[c], faults)
      /\ reader \in [Clients -> Reader] /\ queue \in [Clients -> [Kinds -> Seq(Report)]]
      /\ ses \in [Clients -> Session]
      /\ worker \in [Clients -> [Kinds -> Worker]] /\ sent \in [Clients -> 0..MaxReports]
      /\ cancelled \in BOOLEAN /\ cooling \in BOOLEAN /\ faults \in Nat
  BY ClientFacts
<1>2. /\ worker[c][k].pc = "dropping" /\ Apart /\ faults' = faults
      /\ manualSessions' = manualSessions /\ shared' = shared
      /\ reader' = reader /\ sent' = sent
  BY <1>1 DEF DrainHIDQueue, Apart, Step, laneVars, modeVars
<1>3. CASE queue[c][k] # <<>>
  <2> DEFINE t == Complete(ses[c], Head(queue[c][k]), FALSE)
             q == [queue[c] EXCEPT ![k] = Tail(queue[c][k])]
             x == worker[c][k]
  <2>1. ses[c].active /\ t.active /\ ClientInv(t, reader[c], q, worker[c], sent[c], faults)
    BY <1>1, <1>2, <1>3, DroppedInv
  <2>2. worker[c] = [worker[c] EXCEPT ![k] = x]
    BY <1>1
  <2>3. ClientStep(c, t, reader[c], q, worker[c], sent[c])
    <3>1. ses' = [ses EXCEPT ![c] = t]
      BY <1>1, <1>3 DEF DrainHIDQueue
    <3>2. queue' = [queue EXCEPT ![c] = q]
      BY <1>1, <1>3 DEF DrainHIDQueue
    <3>3. worker' = [worker EXCEPT ![c] = worker[c]] /\ reader' = [reader EXCEPT ![c] = reader[c]]
          /\ sent' = [sent EXCEPT ![c] = sent[c]]
      BY <1>1, <1>2, <1>3 DEF DrainHIDQueue
    <3> QED BY <3>1, <3>2, <3>3 DEF ClientStep
  <2>4. t.active = ses[c].active
    <3>1. t \in Session /\ ses[c] \in Session
      BY <1>1, <2>1 DEF ClientInv, ClientTyped
    <3> QED BY <2>1, <3>1 DEF Session
  <2>5. x.pc \notin {"release", "end"}
    BY <1>2
  <2> HIDE DEF t, q, x
  <2>6. /\ ClientStep(c, t, reader[c], q, [worker[c] EXCEPT ![k] = x], sent[c])
        /\ ClientInv(t, reader[c], q, [worker[c] EXCEPT ![k] = x], sent[c], faults')
    BY <1>2, <2>1, <2>2, <2>3
  <2>7. worker[c][k].pc \notin {"release", "end"}
    BY <1>2
  <2> QED BY <1>2, <2>4, <2>5, <2>6, <2>7, QuietAction
<1>4. CASE queue[c][k] = <<>>
  <2> DEFINE x == [worker[c][k] EXCEPT !.pc = "failed"]
  <2>1. x \in Worker /\ x.pc = "failed" /\ x.rep = worker[c][k].rep /\ x.down = worker[c][k].down
    <3>1. worker[c][k] \in Worker
      BY <1>1
    <3> QED BY <3>1 DEF Worker
  <2>2. ClientStep(c, ses[c], reader[c], queue[c], [worker[c] EXCEPT ![k] = x], sent[c])
    <3>1. worker' = [worker EXCEPT ![c] = [worker[c] EXCEPT ![k] = x]]
      BY <1>1, <1>4 DEF DrainHIDQueue
    <3>2. queue' = [queue EXCEPT ![c] = queue[c]] /\ reader' = [reader EXCEPT ![c] = reader[c]]
          /\ sent' = [sent EXCEPT ![c] = sent[c]] /\ ses' = [ses EXCEPT ![c] = ses[c]]
      BY <1>1, <1>2, <1>4 DEF DrainHIDQueue
    <3> QED BY <3>1, <3>2 DEF ClientStep
  <2> HIDE DEF x
  <2>3. ClientInv(ses[c], reader[c], queue[c], [worker[c] EXCEPT ![k] = x], sent[c], faults')
    BY <1>1, <1>2, <2>1, FinishingInv
  <2>4. ses[c].active = ses[c].active /\ x.pc \notin {"release", "end"}
        /\ worker[c][k].pc \notin {"release", "end"}
    BY <1>2, <2>1
  <2> QED BY <1>2, <2>2, <2>3, <2>4, QuietAction
<1> QED BY <1>3, <1>4

LEMMA CleanUpInv ==
    ASSUME Inv, NEW c \in Clients, NEW k \in Kinds, CleanUp(c, k)
    PROVE  Inv'
<1> DEFINE w == worker[c][k]
           done == [w EXCEPT !.pc = "run", !.rep = NoReport]
<1>1. /\ ClientInv(ses[c], reader[c], queue[c], worker[c], sent[c], faults)
      /\ reader \in [Clients -> Reader] /\ queue \in [Clients -> [Kinds -> Seq(Report)]]
      /\ worker \in [Clients -> [Kinds -> Worker]] /\ sent \in [Clients -> 0..MaxReports]
      /\ cancelled \in BOOLEAN /\ cooling \in BOOLEAN /\ faults \in Nat
  BY ClientFacts
<1>2. /\ w.pc = "failed" /\ Apart /\ faults' \in {faults, faults + 1}
      /\ manualSessions' = manualSessions /\ shared' = shared
      /\ queue' = queue /\ reader' = reader /\ sent' = sent
  BY <1>1 DEF CleanUp, Apart, Step, Fault, laneVars, modeVars
<1>3. w \in Worker /\ NoReport \in Report
  BY <1>1 DEF NoReport, Report
<1>4. w.rep.held \in BOOLEAN /\ done \in Worker /\ done.down = w.down /\ w.down \in BOOLEAN
  <2>1. w.rep \in Report
    BY <1>3 DEF Worker
  <2>2. w.rep.held \in BOOLEAN
    BY <2>1 DEF Report
  <2> QED BY <1>3, <2>2 DEF Worker
<1>5. PICK b \in {ses[c], Reset(ses[c], k)}, d \in BOOLEAN :
          LET t == Complete(b, w.rep, FALSE)
          IN  FinishIfIdle(c, k, t, [done EXCEPT !.down = d], t.cooldownOnIdle)
  <2>1. CASE LET t == Complete(Reset(ses[c], k), w.rep, FALSE)
             IN  FinishIfIdle(c, k, t, [done EXCEPT !.down = FALSE], t.cooldownOnIdle)
    BY <2>1
  <2>2. CASE LET t == Complete(ses[c], w.rep, FALSE)
             IN  FinishIfIdle(c, k, t, [done EXCEPT !.down = done.down \/ w.rep.held], t.cooldownOnIdle)
    <3>1. (done.down \/ w.rep.held) \in BOOLEAN
      BY <1>4
    <3> QED BY <2>2, <3>1
  <2> QED BY <2>1, <2>2 DEF CleanUp
<1> DEFINE t == Complete(b, w.rep, FALSE)
           y == [done EXCEPT !.down = d]
           x == FinishedBy(t, y, t.cooldownOnIdle)
<1>6. y \in Worker /\ y.pc = "run"
  BY <1>3, <1>5 DEF Worker
<1>7. /\ ses[c].active /\ t \in Session /\ t.active
      /\ ClientInv(Finished(t), reader[c], queue[c], [worker[c] EXCEPT ![k] = x], sent[c], faults')
  <2>1. CleanBase(ses[c], k, b)
    BY <1>5 DEF CleanBase
  <2>2. /\ ClientInv(ses[c], reader[c], queue[c], worker[c], sent[c], faults) /\ faults \in Nat
        /\ worker[c][k].pc = "failed" /\ Grown(faults, faults')
    BY <1>1, <1>2 DEF Grown
  <2> HIDE DEF y
  <2> QED BY <1>6, <2>1, <2>2, CleanedInv
<1>8. ClientStep(c, Finished(t), reader[c], queue[c], [worker[c] EXCEPT ![k] = x], sent[c])
  <2>1. FinishIfIdle(c, k, t, y, t.cooldownOnIdle)
    BY <1>5
  <2> HIDE DEF t, y
  <2>2. ses' = [ses EXCEPT ![c] = Finished(t)] /\ worker' = [worker EXCEPT ![c] = [worker[c] EXCEPT ![k] = x]]
    BY <1>1, <2>1, FinishStep
  <2>3. reader' = [reader EXCEPT ![c] = reader[c]] /\ sent' = [sent EXCEPT ![c] = sent[c]]
        /\ queue' = [queue EXCEPT ![c] = queue[c]]
    BY <1>1, <1>2
  <2> QED BY <2>2, <2>3 DEF ClientStep
<1> HIDE DEF t, y
<1>9. \/ Finished(t).active = ses[c].active /\ x.pc \notin {"release", "end"}
      \/ ~Finished(t).active /\ ses[c].active /\ x.pc = "release"
  BY <1>6, <1>7, HandedOn
<1>10. worker[c][k].pc \notin {"release", "end"}
  BY <1>2
<1> HIDE DEF x
<1> QED BY <1>2, <1>7, <1>8, <1>9, <1>10, QuietAction

LEMMA WorkerExitsInv ==
    ASSUME Inv, NEW c \in Clients, NEW k \in Kinds, WorkerExits(c, k)
    PROVE  Inv'
<1> DEFINE w == worker[c][k]
<1>1. /\ ClientInv(ses[c], reader[c], queue[c], worker[c], sent[c], faults)
      /\ ses \in [Clients -> Session]
      /\ reader \in [Clients -> Reader] /\ queue \in [Clients -> [Kinds -> Seq(Report)]]
      /\ worker \in [Clients -> [Kinds -> Worker]] /\ sent \in [Clients -> 0..MaxReports]
      /\ cancelled \in BOOLEAN /\ cooling \in BOOLEAN /\ faults \in Nat
  BY ClientFacts
<1>2. /\ w.pc = "run" /\ reader[c].pc = "closing" /\ queue[c][k] = <<>>
      /\ Apart /\ faults' \in {faults, faults + 1}
      /\ manualSessions' = manualSessions /\ shared' = shared
      /\ queue' = queue /\ reader' = reader /\ sent' = sent
  BY <1>1 DEF WorkerExits, Apart, Step, Fault, laneVars, modeVars
<1>3. w \in Worker
  BY <1>1
<1>4. /\ reader' = [reader EXCEPT ![c] = reader[c]] /\ sent' = [sent EXCEPT ![c] = sent[c]]
      /\ queue' = [queue EXCEPT ![c] = queue[c]]
  BY <1>1, <1>2
<1>5. CASE Step /\ FinishIfIdle(c, k, Reset(ses[c], k), [w EXCEPT !.pc = "exited", !.down = FALSE], TRUE)
  <2> DEFINE t == Reset(ses[c], k)
             y == [w EXCEPT !.pc = "exited", !.down = FALSE]
             cool == TRUE
             x == FinishedBy(t, y, cool)
  <2>1. /\ t \in Session /\ t.active = ses[c].active
        /\ ClientInv(Finished(t), reader[c], queue[c], [worker[c] EXCEPT ![k] = x], sent[c], faults)
    BY <1>1, <1>2, ReleasedInv
  <2>2. y \in Worker /\ y.pc = "exited"
    BY <1>3 DEF Worker
  <2>3. ClientStep(c, Finished(t), reader[c], queue[c], [worker[c] EXCEPT ![k] = x], sent[c])
    <3>1. FinishIfIdle(c, k, t, y, cool)
      BY <1>5
    <3> HIDE DEF t, y, cool
    <3>2. ses' = [ses EXCEPT ![c] = Finished(t)] /\ worker' = [worker EXCEPT ![c] = [worker[c] EXCEPT ![k] = x]]
      BY <1>1, <3>1, FinishStep
    <3> QED BY <1>4, <3>2 DEF ClientStep
  <2> HIDE DEF t, y
  <2>4. \/ Finished(t).active = ses[c].active /\ x.pc \notin {"release", "end"}
        \/ ~Finished(t).active /\ ses[c].active /\ x.pc = "release"
    BY <2>1, <2>2, HandedOn
  <2>5. worker[c][k].pc \notin {"release", "end"} /\ faults' = faults
    BY <1>2, <1>5 DEF Step
  <2> HIDE DEF x
  <2> QED BY <1>2, <2>1, <2>3, <2>4, <2>5, QuietAction
<1>6. CASE /\ IF w.down THEN Fault ELSE Step
           /\ worker' = [worker EXCEPT ![c][k].pc = "exited"] /\ UNCHANGED ses
  <2> DEFINE x == [w EXCEPT !.pc = "exited"]
  <2>1. faults' = IF worker[c][k].down THEN faults + 1 ELSE faults
    BY <1>6 DEF Step, Fault
  <2>2. ClientInv(ses[c], reader[c], queue[c], [worker[c] EXCEPT ![k] = x], sent[c], faults')
    BY <1>1, <1>2, <2>1, ReturnedInv
  <2>3. ClientStep(c, ses[c], reader[c], queue[c], [worker[c] EXCEPT ![k] = x], sent[c])
    <3>1. worker' = [worker EXCEPT ![c] = [worker[c] EXCEPT ![k] = x]] /\ ses' = [ses EXCEPT ![c] = ses[c]]
      BY <1>1, <1>6
    <3> QED BY <1>4, <3>1 DEF ClientStep
  <2>4. ses[c].active = ses[c].active /\ x.pc \notin {"release", "end"}
        /\ worker[c][k].pc \notin {"release", "end"}
    BY <1>2, <1>3 DEF Worker
  <2> HIDE DEF x
  <2> QED BY <1>2, <2>2, <2>3, <2>4, QuietAction
<1> QED BY <1>5, <1>6 DEF WorkerExits

(* finish: the worker gives back the share it was handed.                  *)
LEMMA FinishInv ==
    ASSUME Inv, NEW c \in Clients, NEW k \in Kinds, FinishRelease(c, k) \/ FinishEnd(c, k)
    PROVE  Inv'
<1> DEFINE w == worker[c][k]
           x == IF w.pc = "release" THEN [w EXCEPT !.pc = "end"]
                                    ELSE [w EXCEPT !.pc = "run", !.cool = FALSE]
           v == [worker[c] EXCEPT ![k] = x]
<1>1. /\ ClientInv(ses[c], reader[c], queue[c], worker[c], sent[c], faults)
      /\ ses \in [Clients -> Session]
      /\ reader \in [Clients -> Reader] /\ queue \in [Clients -> [Kinds -> Seq(Report)]]
      /\ worker \in [Clients -> [Kinds -> Worker]] /\ sent \in [Clients -> 0..MaxReports]
      /\ cancelled \in BOOLEAN /\ cooling \in BOOLEAN /\ faults \in Nat
      /\ manualSessions \in Nat /\ shared \in Nat /\ LaneKnown(ses[c], reader[c])
  BY ClientFacts
<1>2. w \in Worker
  BY <1>1
<1>3. /\ w.pc \in {"release", "end"} /\ faults' = faults /\ Apart
      /\ ses' = ses /\ queue' = queue /\ reader' = reader /\ sent' = sent
  BY <1>1 DEF FinishRelease, FinishEnd, EndManual, Apart, Step, laneVars, modeVars
<1>4. x \in Worker /\ x.rep = w.rep /\ x.down = w.down /\ x.pc = IF w.pc = "release" THEN "end" ELSE "run"
  BY <1>2, <1>3 DEF Worker
<1>5. worker' = [worker EXCEPT ![c] = v]
  BY <1>1, <1>3 DEF FinishRelease, FinishEnd
<1> HIDE DEF x
<1>6. ClientInv(ses[c], reader[c], queue[c], v, sent[c], faults')
  BY <1>1, <1>3, <1>4, FinishingInv
<1>7. ClientStep(c, ses[c], reader[c], queue[c], v, sent[c])
  <2>1. queue' = [queue EXCEPT ![c] = queue[c]] /\ reader' = [reader EXCEPT ![c] = reader[c]]
        /\ sent' = [sent EXCEPT ![c] = sent[c]] /\ ses' = [ses EXCEPT ![c] = ses[c]]
    BY <1>1, <1>3
  <2> QED BY <1>5, <2>1 DEF ClientStep
<1>8. /\ ses'[c] = ses[c] /\ worker'[c] = v
      /\ SameBut(Clients, c, ses, ses') /\ SameBut(Clients, c, worker, worker')
  <2>1. faults' \in {faults, faults + 1} /\ ClientsInv
    BY <1>3 DEF Inv
  <2> HIDE DEF v
  <2> QED BY <1>1, <1>3, <1>6, <1>7, <2>1, ClientStepInv
<1>9. worker'[c][k] = x /\ SameBut(Kinds, k, worker[c], worker'[c])
  BY <1>1, <1>8 DEF SameBut
<1>10. /\ EndBits(w) = 1 /\ WorkerBit(w, "release") = IF w.pc = "release" THEN 1 ELSE 0
       /\ EndBits(x) = (IF w.pc = "release" THEN 1 ELSE 0) /\ WorkerBit(x, "release") = 0
  BY <1>3, <1>4 DEF EndBits, WorkerBit, Bit
<1>11. EndBits(w) <= manualSessions /\ WorkerBit(w, "release") <= shared
  BY CountBounds
<1>12. /\ manualSessions' = manualSessions + EndBits(x) - EndBits(w)
       /\ shared' = shared + WorkerBit(x, "release") - WorkerBit(w, "release")
  BY <1>1, <1>10, <1>11 DEF FinishRelease, FinishEnd, EndManual, ReleaseShared
<1>13. CountsExact'
  <2>1. caller' = caller /\ CountsExact
    BY DEF Apart, Inv, FinishRelease, FinishEnd
  <2>2. ManualBits(ses[c], reader[c]) \in Nat /\ GateBits(ses[c], reader[c]) \in Nat
    BY DEF ManualBits, GateBits, ActiveBit, PcBit, Bit
  <2>3. /\ manualSessions' = manualSessions
               + ManualBits(ses'[c], reader[c]) - ManualBits(ses[c], reader[c])
               + EndBits(worker'[c][k]) - EndBits(worker[c][k])
        /\ shared' = shared + GateBits(ses'[c], reader[c]) - GateBits(ses[c], reader[c])
               + WorkerBit(worker'[c][k], "release") - WorkerBit(worker[c][k], "release")
    BY <1>1, <1>8, <1>9, <1>10, <1>12, <2>2
  <2> HIDE DEF v
  <2> QED BY <1>3, <1>8, <1>9, <2>1, <2>3, WorkerStepCounts
<1>14. exclusive => shared' = 0
  <2>1. exclusive => shared = 0
    BY DEF Inv, GateInv
  <2> QED BY <1>10, <1>11, <1>12, <2>1
<1> HIDE DEF v
<1> QED BY <1>1, <1>3, <1>6, <1>7, <1>13, <1>14, ClientAction

-----------------------------------------------------------------------------
(* The mode and the callers, under which the clients stand still.          *)

LEMMA ClientsSame ==
    ASSUME ClientsInv, UNCHANGED clientVars, faults \in Nat, faults' \in {faults, faults + 1}
    PROVE  ClientsInv'
<1>1. /\ ses' = ses /\ reader' = reader /\ queue' = queue /\ worker' = worker /\ sent' = sent
  BY DEF clientVars
<1>2. ASSUME NEW c \in Clients
      PROVE  ClientInv(ses[c], reader[c], queue[c], worker[c], sent[c], faults')
  <2>1. ClientInv(ses[c], reader[c], queue[c], worker[c], sent[c], faults)
    BY DEF ClientsInv
  <2> QED BY <2>1, FaultsGrow
<1> QED BY <1>1, <1>2 DEF ClientsInv

LEMMA CountsSame ==
    ASSUME CountsExact, UNCHANGED <<clientVars, caller, manualSessions, shared>>
    PROVE  CountsExact'
<1>1. Counted
  BY CountedExact
<1>2. Counted'
  BY <1>1 DEF Counted, clientVars
<1> QED BY <1>2, CountedExact

(* While the gate is closed nobody is inside.                              *)
LEMMA NobodyInside ==
    ASSUME Inv, shared = 0
    PROVE  \A m \in Callers : caller[m] \notin CallerWithin
BY CountBounds

(* The gate is closed only around a save, and only then the mode changes.  *)
ModeMoves ==
    /\ mode' \in Modes /\ transitioning' \in BOOLEAN /\ exclusive' \in BOOLEAN
    /\ sw' \in [pc : {"idle", "preempt", "wait", "cleanup", "release", "ending"}, next : Modes]
    /\ exclusive' <=> sw'.pc \in {"cleanup", "release"}
    /\ exclusive' => shared = 0
    /\ mode' # mode => exclusive

LEMMA ModeInv ==
    ASSUME Inv, CooldownElapses \/ (\E next \in Modes : SwitchStart(next)) \/ Switch
    PROVE  Inv'
<1>1. /\ UNCHANGED <<clientVars, caller, manualSessions, shared, lane>>
      /\ faults' \in {faults, faults + 1}
      /\ cancelled' \in BOOLEAN /\ cooling' \in BOOLEAN
  BY DEF Inv, ControlTyped, CooldownElapses, SwitchStart, Switch, Preempt, AcquireExclusive, WaitTimesOut, CleanupAndSave,
         ReleaseExclusive, EndTransition, Step, Fault, laneVars
<1>2. faults \in Nat /\ faults' \in Nat
  BY <1>1 DEF Inv, ControlTyped
<1>3. ClientsInv'
  BY <1>1, <1>2, ClientsSame DEF Inv
<1>4. CountsExact'
  BY <1>1, CountsSame DEF Inv
<1>5. LaneInv'
  BY <1>1 DEF Inv, LaneInv, clientVars
<1>6. /\ mode \in Modes /\ transitioning \in BOOLEAN /\ exclusive \in BOOLEAN
      /\ sw \in [pc : {"idle", "preempt", "wait", "cleanup", "release", "ending"}, next : Modes]
      /\ exclusive <=> sw.pc \in {"cleanup", "release"}
      /\ (exclusive => shared = 0)
  BY DEF Inv, ControlTyped, GateInv
<1>7. ModeMoves
  <2>1. CASE CooldownElapses
    BY <1>6, <2>1 DEF ModeMoves, CooldownElapses, modeVars
  <2>2. ASSUME NEW next \in Modes, SwitchStart(next)
        PROVE  ModeMoves
    BY <1>6, <2>2 DEF ModeMoves, SwitchStart
  <2>3. CASE Preempt
    BY <1>6, <2>3 DEF ModeMoves, Preempt, Switching
  <2>4. CASE AcquireExclusive
    BY <1>6, <2>4 DEF ModeMoves, AcquireExclusive, Switching
  <2>5. CASE WaitTimesOut
    BY <1>6, <2>5 DEF ModeMoves, WaitTimesOut, Switching
  <2>6. CASE CleanupAndSave
    BY <1>6, <2>6 DEF ModeMoves, CleanupAndSave, Switching, Modes
  <2>7. CASE ReleaseExclusive
    BY <1>6, <2>7 DEF ModeMoves, ReleaseExclusive, Switching
  <2>8. CASE EndTransition
    BY <1>6, <2>8 DEF ModeMoves, EndTransition, Switching
  <2> QED BY <2>1, <2>2, <2>3, <2>4, <2>5, <2>6, <2>7, <2>8 DEF Switch
<1>8. ControlTyped'
  BY <1>1, <1>2, <1>7 DEF Inv, ControlTyped, ModeMoves
<1>9. GateInv'
  <2>1. ASSUME NEW m \in Callers \ Jigglers, caller[m] \in {"holding", "running"}
        PROVE  mode' = "mcp"
    <3>1. mode = "mcp"
      BY <2>1 DEF Inv, GateInv
    <3>2. caller[m] \in CallerWithin
      BY <2>1 DEF CallerWithin
    <3>3. ~exclusive
      BY <1>6, <3>2, NobodyInside
    <3> QED BY <1>7, <3>1, <3>3 DEF ModeMoves
  <2> QED BY <1>1, <1>7, <2>1 DEF GateInv, ModeMoves
<1> QED BY <1>3, <1>4, <1>5, <1>8, <1>9 DEF Inv

(* A caller enters or leaves the gate with what it adds to the count.      *)
LEMMA CallerGoes ==
    ASSUME CountsExact, NEW m \in Callers, NEW a, caller' = [caller EXCEPT ![m] = a],
           caller \in [Callers -> {"idle", "checked", "shared", "holding", "running", "leaving"}],
           UNCHANGED <<clientVars, manualSessions>>,
           shared' = shared + Bit(a \in CallerWithin) - Bit(caller[m] \in CallerWithin)
    PROVE  CountsExact'
<1> DEFINE G == GateCount(ses, reader, worker)
           C == CallerCount(caller)
           C2 == CallerCount(caller')
           b == Bit(caller[m] \in CallerWithin)
           b2 == Bit(a \in CallerWithin)
<1>1. manualSessions = ManualCount(ses, reader, worker) /\ shared = G + C
  BY CountedExact DEF Counted
<1>2. G \in Nat /\ C \in Nat /\ C2 \in Nat
  BY CountTypes, CallerCountType
<1>3. caller'[m] = a /\ SameBut(Callers, m, caller, caller')
  BY DEF SameBut
<1>4. C2 = C + b2 - b
  BY <1>3, CallerCounts
<1>5. b \in Nat /\ b2 \in Nat /\ shared' = shared + b2 - b
  BY DEF Bit
<1>6. ManualCount(ses', reader', worker') = ManualCount(ses, reader, worker)
      /\ GateCount(ses', reader', worker') = G
  BY DEF clientVars
<1> HIDE DEF G, C, C2, b, b2
<1>7. shared' = G + C2 /\ manualSessions' = ManualCount(ses, reader, worker)
  BY <1>1, <1>2, <1>4, <1>5
<1>8. Counted'
  BY <1>6, <1>7 DEF Counted, C2
<1> QED BY <1>8, CountedExact

LEMMA CallerInv ==
    ASSUME Inv, NEW m \in Callers, CallerChecks(m) \/ Call(m)
    PROVE  Inv'
<1> DEFINE Pcs == {"idle", "checked", "shared", "holding", "running", "leaving"}
<1>1. /\ UNCHANGED <<clientVars, manualSessions, cooling, modeVars>> /\ faults' = faults
  BY DEF CallerChecks, Call, CallerShares, CallerRechecks, BeginMCP, ReleaseMode, Step
<1>2. /\ caller \in [Callers -> Pcs] /\ shared \in Nat /\ manualSessions \in Nat /\ faults \in Nat
      /\ lane \in Callers \cup {None} /\ cancelled \in BOOLEAN /\ exclusive \in BOOLEAN
      /\ LaneInv /\ GateInv /\ CountsExact
  BY DEF Inv, ControlTyped
<1>3. None \notin Callers
  BY InputControlAssumption
<1>4. PICK a \in Pcs :
          /\ caller' = [caller EXCEPT ![m] = a]
          /\ shared' = shared + Bit(a \in CallerWithin) - Bit(caller[m] \in CallerWithin)
          /\ exclusive => shared' = 0
          /\ a \in {"holding", "running"} /\ m \notin Jigglers => mode = "mcp"
          /\ cancelled' \in BOOLEAN
          /\ caller[m] # "running"
          /\ \/ lane' = lane /\ a # "running"
             \/ lane' = m /\ a = "running" /\ lane = None /\ manualSessions = 0
  <2>1. CASE CallerChecks(m)
    BY <1>2, <2>1 DEF CallerChecks, CallerAt, Bit, CallerWithin, laneVars, GateInv
  <2>2. CASE CallerShares(m)
    BY <1>2, <2>2 DEF CallerShares, AcquireShared, CallerAt, Bit, CallerWithin, laneVars
  <2>3. CASE CallerRechecks(m)
    <3>1. Bit(caller[m] \in CallerWithin) = 1 /\ shared' = shared /\ (exclusive => shared' = 0)
          /\ caller[m] = "shared" /\ cancelled' = cancelled /\ lane' = lane
      BY <1>2, <2>3 DEF CallerRechecks, Bit, CallerWithin, laneVars, GateInv
    <3>2. CASE MayWrite(m)
      <4>1. caller' = [caller EXCEPT ![m] = "holding"]
        BY <2>3, <3>2 DEF CallerRechecks, CallerAt
      <4> QED BY <1>2, <3>1, <3>2, <4>1 DEF MayWrite, Bit, CallerWithin
    <3>3. CASE ~MayWrite(m)
      <4>1. caller' = [caller EXCEPT ![m] = "leaving"]
        BY <2>3, <3>3 DEF CallerRechecks, CallerAt
      <4> QED BY <1>2, <3>1, <4>1 DEF Bit, CallerWithin
    <3> QED BY <3>2, <3>3
  <2>4. CASE BeginMCP(m)
    <3>1. Bit(caller[m] \in CallerWithin) = 1 /\ shared' = shared /\ (exclusive => shared' = 0)
          /\ caller[m] = "holding" /\ (m \notin Jigglers => mode = "mcp")
      BY <1>2, <2>4 DEF BeginMCP, Bit, CallerWithin, GateInv
    <3>2. CASE LaneFree
      <4>1. /\ caller' = [caller EXCEPT ![m] = "running"] /\ lane' = m /\ cancelled' = FALSE
            /\ lane = None /\ manualSessions = 0
        BY <2>4, <3>2 DEF BeginMCP, CallerAt, LaneFree
      <4>2. cancelled' \in BOOLEAN /\ Bit("running" \in CallerWithin) = 1 /\ "running" \in Pcs
        BY <4>1 DEF Bit, CallerWithin
      <4>3. shared' = shared + Bit("running" \in CallerWithin) - Bit(caller[m] \in CallerWithin)
        BY <1>2, <3>1, <4>2
      <4>4. caller[m] # "running"
        BY <3>1
      <4> WITNESS "running" \in Pcs
      <4> QED BY <3>1, <4>1, <4>2, <4>3, <4>4
    <3>3. CASE ~LaneFree
      <4>1. caller' = [caller EXCEPT ![m] = "leaving"] /\ lane' = lane /\ cancelled' = cancelled
        BY <2>4, <3>3 DEF BeginMCP, CallerAt, laneVars
      <4> QED BY <1>2, <3>1, <4>1 DEF Bit, CallerWithin
    <3> QED BY <3>2, <3>3
  <2>5. CASE ReleaseMode(m)
    <3>1. /\ caller[m] = "leaving" /\ caller' = [caller EXCEPT ![m] = "idle"] /\ lane' = lane
          /\ cancelled' = cancelled /\ shared' = IF shared > 0 THEN shared - 1 ELSE shared
      BY <2>5 DEF ReleaseMode, ReleaseShared, CallerAt, laneVars
    <3>2. caller[m] \in CallerWithin
      BY <3>1 DEF CallerWithin
    <3>3. shared > 0
      BY <3>2, CountBounds
    <3>4. Bit(caller[m] \in CallerWithin) = 1 /\ Bit("idle" \in CallerWithin) = 0
      BY <3>2 DEF Bit, CallerWithin
    <3>5. ~exclusive /\ shared' = shared + 0 - 1
      BY <1>2, <3>1, <3>3 DEF GateInv
    <3> QED BY <1>2, <3>1, <3>4, <3>5
  <2> QED BY <2>1, <2>2, <2>3, <2>4, <2>5 DEF Call
<1>5. CountsExact'
  BY <1>1, <1>2, <1>4, CallerGoes
<1>6. ClientsInv'
  BY <1>1, <1>2, ClientsSame DEF Inv
<1>7. shared' \in Nat
  <2>1. shared' = GateCount(ses', reader', worker') + CallerCount(caller')
    BY <1>5, CountedExact DEF Counted
  <2> QED BY <2>1, CountTypes, CallerCountType
<1>8. ControlTyped'
  BY <1>1, <1>2, <1>4, <1>7 DEF Inv, ControlTyped, modeVars
<1>9. LaneInv'
  <2>1. CASE lane' = lane /\ a # "running"
    <3>1. \A o \in Callers : caller'[o] = "running" <=> caller[o] = "running"
      BY <1>2, <1>4, <2>1
    <3> QED BY <1>1, <1>2, <2>1, <3>1 DEF LaneInv, clientVars
  <2>2. CASE lane' = m /\ a = "running" /\ lane = None /\ manualSessions = 0
    <3>1. \A o \in Callers : caller'[o] = "running" <=> lane' = o
      BY <1>2, <1>3, <1>4, <2>2 DEF LaneInv
    <3>2. ASSUME NEW c \in Clients
          PROVE  ~ses[c].active /\ reader[c].pc \notin {"waiting", "begun"}
      <4>1. ManualBits(ses[c], reader[c]) <= 0
        BY <2>2, CountBounds
      <4>2. ses[c].active => ManualBits(ses[c], reader[c]) >= 1
        BY DEF ManualBits, ActiveBit, PcBit, Bit
      <4>3. reader[c].pc \in {"waiting", "begun"} => ManualBits(ses[c], reader[c]) >= 1
        BY DEF ManualBits, ActiveBit, PcBit, Bit, Begun
      <4>4. ManualBits(ses[c], reader[c]) \in Nat
        BY DEF ManualBits, ActiveBit, PcBit, Bit
      <4> QED BY <4>1, <4>2, <4>3, <4>4
    <3> QED BY <1>1, <3>1, <3>2 DEF LaneInv, clientVars
  <2> QED BY <1>4, <2>1, <2>2
<1>10. GateInv'
  <2>1. ASSUME NEW o \in Callers \ Jigglers, caller'[o] \in {"holding", "running"}
        PROVE  mode' = "mcp"
    <3>1. CASE o = m
      BY <1>1, <1>2, <1>4, <2>1, <3>1 DEF modeVars
    <3>2. CASE o # m
      BY <1>1, <1>2, <1>4, <2>1, <3>2 DEF modeVars, GateInv
    <3> QED BY <3>1, <3>2
  <2> QED BY <1>1, <1>2, <1>4, <2>1 DEF GateInv, modeVars
<1> QED BY <1>5, <1>6, <1>8, <1>9, <1>10 DEF Inv

(* The operation returns: those who wait for it see that it is done.       *)
LEMMA ReleaseOperationInv ==
    ASSUME Inv, NEW m \in Callers, ReleaseOperation(m)
    PROVE  Inv'
<1>1. /\ caller \in [Callers -> {"idle", "checked", "shared", "holding", "running", "leaving"}]
      /\ reader \in [Clients -> Reader] /\ LaneInv /\ GateInv /\ CountsExact /\ faults \in Nat
      /\ ses \in [Clients -> Session] /\ queue \in [Clients -> [Kinds -> Seq(Report)]]
      /\ worker \in [Clients -> [Kinds -> Worker]] /\ sent \in [Clients -> 0..MaxReports]
  BY DEF Inv, ControlTyped, ClientsInv
<1>2. /\ caller[m] = "running" /\ lane' = None /\ cancelled' = FALSE
      /\ caller' = [caller EXCEPT ![m] = "leaving"] /\ faults' = faults
      /\ reader' = [c \in Clients |-> IF reader[c].op = m THEN [reader[c] EXCEPT !.op = None]
                                                          ELSE reader[c]]
      /\ UNCHANGED <<modeVars, shared, manualSessions, cooling, ses, queue, worker, sent>>
  BY DEF ReleaseOperation, CallerAt, Step
<1>3. lane = m /\ m # None
  BY <1>1, <1>2, InputControlAssumption DEF LaneInv
<1>4. ASSUME NEW c \in Clients
      PROVE  /\ reader'[c] \in Reader /\ reader'[c].pc = reader[c].pc /\ reader'[c].rep = reader[c].rep
             /\ reader[c].op = m => reader'[c].op = None
  BY <1>1, <1>2 DEF Reader
<1>5. reader' \in [Clients -> Reader]
  BY <1>1, <1>2, <1>4
<1>6. ASSUME NEW c \in Clients
      PROVE  ClientInv(ses[c], reader'[c], queue[c], worker[c], sent[c], faults)
  <2>1. /\ ClientInv(ses[c], reader[c], queue[c], worker[c], sent[c], faults)
        /\ sent[c] \in 0..MaxReports /\ MaxReports \in Nat
    BY ClientFacts
  <2>2. /\ reader'[c].pc \notin {"idle", "closing"} => ~ses[c].active
        /\ reader'[c].pc \in Reserving => reader'[c].rep.kind \in Kinds
    BY <1>4, ClientFacts
  <2>3. Ahead(reader'[c]) = Ahead(reader[c]) /\ Ahead(reader[c]) \in {0, 1}
    BY <1>4 DEF Ahead
  <2>4. sent[c] - Ahead(reader'[c]) >= sent[c] - Ahead(reader[c])
    BY <2>1, <2>3
  <2>5. /\ reader'[c] \in Reader
        /\ reader[c].pc \in {"closing", "release", "end", "gone"} =>
               reader'[c].pc \in {"closing", "release", "end", "gone"}
    BY <1>4
  <2> QED BY <2>1, <2>2, <2>4, <2>5, ReaderMoves
<1>7. ClientsInv'
  BY <1>1, <1>2, <1>5, <1>6 DEF ClientsInv
<1>8. CountsExact'
  <2>1. \A pcs : ReadersIn(reader', pcs) = ReadersIn(reader, pcs)
    BY <1>4 DEF ReadersIn
  <2>2. \A pcs : ActiveIn(ses, reader', pcs) = ActiveIn(ses, reader, pcs)
    BY <1>4 DEF ActiveIn
  <2>3. ManualCount(ses', reader', worker') = ManualCount(ses, reader, worker)
        /\ GateCount(ses', reader', worker') = GateCount(ses, reader, worker)
    BY <1>2, <2>1, <2>2 DEF ManualCount, GateCount
  <2>4. CallerCount(caller') = CallerCount(caller)
    <3>1. {o \in Callers : caller'[o] \in CallerWithin} = {o \in Callers : caller[o] \in CallerWithin}
      BY <1>1, <1>2 DEF CallerWithin
    <3> QED BY <3>1 DEF CallerCount
  <2>5. Counted
    BY <1>1, CountedExact
  <2>6. Counted'
    BY <1>2, <2>3, <2>4, <2>5 DEF Counted
  <2> QED BY <2>6, CountedExact
<1>9. ControlTyped'
  BY <1>1, <1>2 DEF Inv, ControlTyped, modeVars
<1>10. LaneInv'
  <2>1. \A o \in Callers : caller'[o] = "running" <=> lane' = o
    BY <1>1, <1>2, <1>3, InputControlAssumption DEF LaneInv
  <2>2. \A c \in Clients : reader'[c].pc = "waiting" => lane' = reader'[c].op
    BY <1>1, <1>2, <1>3, <1>4 DEF LaneInv
  <2> QED BY <1>2, <2>1, <2>2 DEF LaneInv
<1>11. GateInv'
  <2>1. \A o \in Callers : caller'[o] \in {"holding", "running"} => caller[o] \in {"holding", "running"}
    BY <1>1, <1>2
  <2> QED BY <1>1, <1>2, <2>1 DEF GateInv, modeVars
<1> QED BY <1>7, <1>8, <1>9, <1>10, <1>11 DEF Inv

-----------------------------------------------------------------------------

LEMMA InitInv == Init => Inv
<1> SUFFICES ASSUME Init PROVE Inv
  OBVIOUS
<1>1. NoReport \in Report /\ NoHeld \in [Kinds -> BOOLEAN] /\ MaxReports \in Nat
  BY KindsFinite DEF NoReport, Report, NoHeld
<1> DEFINE s == [active |-> FALSE, closed |-> FALSE, generation |-> 0, pending |-> 0,
                 held |-> NoHeld, cooldownOnIdle |-> FALSE]
           rd == [pc |-> "idle", rep |-> NoReport, op |-> None]
           q == [k \in Kinds |-> <<>>]
           x == [pc |-> "run", rep |-> NoReport, cool |-> FALSE, down |-> FALSE]
           w == [k \in Kinds |-> x]
<1>2. s \in Session /\ rd \in Reader /\ q \in [Kinds -> Seq(Report)] /\ w \in [Kinds -> Worker]
  BY <1>1 DEF Session, Reader, Worker
<1>3. /\ ses = [c \in Clients |-> s] /\ reader = [c \in Clients |-> rd]
      /\ queue = [c \in Clients |-> q] /\ worker = [c \in Clients |-> w]
      /\ sent = [c \in Clients |-> 0] /\ faults = 0
  BY DEF Init
<1>4. ClientInv(s, rd, q, w, 0, 0)
  <2>1. \A k \in Kinds : q[k] = <<>> /\ Len(q[k]) = 0 /\ 1..Len(q[k]) = {}
    OBVIOUS
  <2>2. Waiting(q) = {} /\ InHand(w) = {}
    <3>1. \A y \in Kinds \X (1..MaxReports) : DOMAIN q[y[1]] = {}
      BY <2>1
    <3>2. \A k \in Kinds : w[k].pc = "run"
      OBVIOUS
    <3> HIDE DEF q, w
    <3> QED BY <3>1, <3>2 DEF Waiting, InHand
  <2>3. Cardinality(Waiting(q)) = 0 /\ Cardinality(InHand(w)) = 0
    BY <2>2, FS_EmptySet
  <2>4. PendingKnown(s, q, w)
    <3>1. s.pending = 0
      OBVIOUS
    <3> HIDE DEF s, q, w
    <3> QED BY <2>1, <2>2, <2>3, <3>1 DEF PendingKnown
  <2>5. ReaderKnown(s, rd, q, w, 0)
    BY <2>1 DEF ReaderKnown, Ahead, Reserving
  <2>6. DownKnown(s, w)
    BY DEF DownKnown
  <2> HIDE DEF s, rd, q, w
  <2> QED BY <1>1, <1>2, <2>4, <2>5, <2>6 DEF ClientInv, ClientTyped
<1>5. ClientsInv
  <2> HIDE DEF s, rd, q, w
  <2> QED BY <1>1, <1>2, <1>3, <1>4 DEF ClientsInv
<1>6. ControlTyped
  BY DEF Init, ControlTyped, Modes
<1>7. LaneInv
  BY InputControlAssumption DEF Init, LaneInv
<1>8. GateInv
  BY DEF Init, GateInv
<1>9. CountsExact
  <2>1. /\ ActiveOr({"release", "end"}) = {} /\ ActiveOr({"release"}) = {}
        /\ ReadersAt({"waiting", "begun"}) = {}
        /\ ReadersAt({"shared", "allowed", "waiting", "begun", "undo"}) = {}
    BY <1>3 DEF ActiveOr, ReadersAt
  <2>2. Inside = {}
    BY DEF Init, Inside
  <2>3. ASSUME NEW pc \in {"release", "end"}
        PROVE  WorkersAt(pc) = {}
    BY <1>3 DEF WorkersAt
  <2>4. WorkersAt("release") = {} /\ WorkersAt("end") = {}
    BY <2>3
  <2>5. Cardinality({}) = 0
    BY FS_EmptySet
  <2>6. manualSessions = 0 /\ shared = 0
    BY DEF Init
  <2> QED BY <2>1, <2>2, <2>4, <2>5, <2>6 DEF CountsExact
<1> QED BY <1>5, <1>6, <1>7, <1>8, <1>9 DEF Inv

LEMMA NextInv == Inv /\ [Next]_vars => Inv'
<1> SUFFICES ASSUME Inv, [Next]_vars PROVE Inv'
  OBVIOUS
<1>1. CASE CooldownElapses \/ (\E next \in Modes : SwitchStart(next)) \/ Switch
  BY <1>1, ModeInv
<1>2. ASSUME NEW m \in Callers, CallerChecks(m) \/ Call(m)
      PROVE  Inv'
  BY <1>2, CallerInv
<1>3. ASSUME NEW m \in Callers, ReleaseOperation(m)
      PROVE  Inv'
  BY <1>3, ReleaseOperationInv
<1>4. ASSUME NEW c \in Clients, NEW r \in Reports, ReserveActive(c, r) \/ ReserveStable(c, r)
      PROVE  Inv'
  BY <1>4, ReserveActiveInv, ReserveStableInv
<1>5. ASSUME NEW c \in Clients, Reserve(c)
      PROVE  Inv'
  BY <1>5, ReserveInv, ActivateStepInv DEF Reserve
<1>6. ASSUME NEW c \in Clients, CloseQueues(c) \/ CloseClient(c)
      PROVE  Inv'
  BY <1>6, CloseQueuesInv, CloseSessionInv, CloseInv DEF CloseClient
<1>7. ASSUME NEW c \in Clients, NEW k \in Kinds, Work(c, k)
      PROVE  Inv'
  BY <1>7, WriteReportInv, WriteFailsInv, DrainHIDQueueInv, CleanUpInv, FinishInv, WorkerExitsInv
     DEF Work
<1>8. CASE UNCHANGED vars
  <2>1. /\ UNCHANGED clientVars /\ faults' = faults /\ UNCHANGED <<modeVars, laneVars, cooling>>
        /\ UNCHANGED <<clientVars, caller, manualSessions, shared>>
    BY <1>8 DEF vars
  <2>2. faults \in Nat
    BY DEF Inv, ControlTyped
  <2>3. ClientsInv'
    BY <2>1, <2>2, ClientsSame DEF Inv
  <2>4. CountsExact'
    BY <2>1, CountsSame DEF Inv
  <2> QED BY <2>1, <2>3, <2>4
          DEF Inv, ControlTyped, LaneInv, GateInv, modeVars, laneVars, clientVars
<1> QED BY <1>1, <1>2, <1>3, <1>4, <1>5, <1>6, <1>7, <1>8 DEF Next

(* Inv is inductive.                                                       *)
THEOREM InputInvariant == Spec => []Inv
<1>1. Inv /\ [Next]_vars => Inv'
  BY NextInv
<1> QED BY InitInv, <1>1, PTL DEF Spec

(* The manager, the coordinator, the sessions and the goroutines hold      *)
(* values of their kinds, and the lane names the one operation that runs.  *)
THEOREM TypeTheorem == Spec => []TypeOK
<1>1. Inv => TypeOK
  <2> SUFFICES ASSUME Inv PROVE TypeOK
    OBVIOUS
  <2>1. /\ mode \in Modes /\ {transitioning, exclusive, cancelled, cooling} \subseteq BOOLEAN
        /\ sw.pc \in {"idle", "preempt", "wait", "cleanup", "release", "ending"}
        /\ {shared, manualSessions} \subseteq Nat
        /\ lane \in Callers \cup {None}
    BY DEF Inv, ControlTyped
  <2>2. ASSUME NEW m \in Callers
        PROVE  /\ caller[m] \in {"idle", "checked", "shared", "holding", "running", "leaving"}
               /\ caller[m] = "running" <=> lane = m
    BY DEF Inv, ControlTyped, LaneInv
  <2>3. ASSUME NEW c \in Clients
        PROVE  /\ ses[c].pending \in 0..MaxReports
               /\ reader[c].pc \in {"idle", "stable", "shared", "allowed", "waiting", "begun", "undo",
                                    "closing", "release", "end", "gone"}
    <3>1. /\ ClientInv(ses[c], reader[c], queue[c], worker[c], sent[c], faults)
          /\ reader[c] \in Reader /\ sent[c] \in 0..MaxReports /\ MaxReports \in Nat
      BY ClientFacts
    <3>2. ses[c].pending \in Nat /\ Ahead(reader[c]) \in {0, 1}
          /\ ReaderKnown(ses[c], reader[c], queue[c], worker[c], sent[c])
      BY <3>1, ClientTypes
    <3>3. ses[c].pending + Ahead(reader[c]) <= sent[c]
      BY <3>2 DEF ReaderKnown
    <3>4. ses[c].pending \in 0..MaxReports
      BY <3>1, <3>2, <3>3
    <3> QED BY <3>1, <3>4 DEF Reader
  <2> QED BY <2>1, <2>2, <2>3 DEF TypeOK
<1> QED BY InputInvariant, <1>1, PTL

(* While a manual session has a report reserved or holds a key, nobody     *)
(* automates: the lane is free (coordinator.go BeginMCP, beginManual).     *)
THEOREM ManualTheorem == Spec => []ManualExcludesHID
<1>1. Inv => ManualExcludesHID
  BY DEF Inv, LaneInv, ManualExcludesHID
<1> QED BY InputInvariant, <1>1, PTL

(* Whatever mode switch it raced with, an MCP tool that runs an operation  *)
(* does so in MCP mode (manager.go AcquireWrite, SwitchWithCleanup).       *)
THEOREM ModeTheorem == Spec => []MCPOnlyInMode
<1>1. Inv => MCPOnlyInMode
  BY DEF Inv, LaneInv, GateInv, MCPOnlyInMode
<1> QED BY InputInvariant, <1>1, PTL

(* The coordinator's count of sessions and the gate's count of holders are *)
(* exact, on the paths that fail, time out and close as well               *)
(* (coordinator.go beginManual, finish; activity.go).                      *)
THEOREM CountsTheorem == Spec => []CountsExact
<1>1. Inv => CountsExact
  BY DEF Inv
<1> QED BY InputInvariant, <1>1, PTL

(* As many reservations are pending as are queued or in a worker's hands,  *)
(* and all were made for the session's present activation (coordinator.go  *)
(* complete; keyboard.go drainHIDQueue; client.go Close).                  *)
THEOREM ReservationsTheorem == Spec => []ReservationsLive
<1>1. Inv => ReservationsLive
  <2> SUFFICES ASSUME Inv, NEW c \in Clients
               PROVE  LET waiting == Waiting(queue[c])
                          inHand == InHand(worker[c])
                      IN  /\ ses[c].pending = Cardinality(waiting) + Cardinality(inHand)
                          /\ \A w \in waiting : queue[c][w[1]][w[2]].gen = ses[c].generation
                          /\ \A k \in inHand : worker[c][k].rep.gen = ses[c].generation
                          /\ ses[c].pending > 0 => ses[c].active
    BY DEF ReservationsLive, Waiting, InHand
  <2>1. ClientInv(ses[c], reader[c], queue[c], worker[c], sent[c], faults)
    BY ClientFacts
  <2>2. PendingKnown(ses[c], queue[c], worker[c]) /\ queue[c] \in [Kinds -> Seq(Report)]
    BY <2>1, ClientTypes
  <2>3. ASSUME NEW w \in Waiting(queue[c])
        PROVE  queue[c][w[1]][w[2]].gen = ses[c].generation
    <3>1. w[1] \in Kinds /\ w[2] \in DOMAIN queue[c][w[1]]
      BY DEF Waiting
    <3>2. w[2] \in 1..Len(queue[c][w[1]])
      BY <2>2, <3>1
    <3> QED BY <2>2, <3>1, <3>2 DEF PendingKnown
  <2> QED BY <2>2, <2>3 DEF PendingKnown
<1> QED BY InputInvariant, <1>1, PTL

(* Until a write fails, what is down on the target is held by an active    *)
(* session, which has the lane (keyboard.go keyboardActive; coordinator.go *)
(* finishIfIdleLocked).                                                    *)
THEOREM KeyDownTheorem == Spec => []KeyDownHoldsLane
<1>1. Inv => KeyDownHoldsLane
  <2> SUFFICES ASSUME Inv, faults = 0, NEW c \in Clients, NEW k \in Kinds, worker[c][k].down
               PROVE  ses[c].active /\ lane = None
    BY DEF KeyDownHoldsLane
  <2>1. ClientInv(ses[c], reader[c], queue[c], worker[c], sent[c], faults)
    BY ClientFacts
  <2>2. ses[c].active
    BY <2>1 DEF ClientInv, DownKnown
  <2> QED BY <2>2 DEF Inv, LaneInv
<1> QED BY InputInvariant, <1>1, PTL

(* The mode changes only while the lane is free and no manual session is   *)
(* active (manager.go AcquireStable; activity.go acquireExclusive).        *)
THEOREM ModeStableTheorem == Spec => ModeStable
<1>1. Inv /\ [Next]_vars => [mode' # mode => lane = None /\ \A c \in Clients : ~ses[c].active]_vars
  <2> SUFFICES ASSUME Inv, [Next]_vars, mode' # mode
               PROVE  lane = None /\ \A c \in Clients : ~ses[c].active
    OBVIOUS
  <2>1. sw.pc = "cleanup"
    <3>1. CASE CooldownElapses \/ (\E next \in Modes : SwitchStart(next)) \/ Switch
      BY <3>1 DEF CooldownElapses, SwitchStart, Switch, Preempt, AcquireExclusive, WaitTimesOut,
                  CleanupAndSave, ReleaseExclusive, EndTransition, modeVars
    <3>2. ASSUME NEW m \in Callers, CallerChecks(m) \/ Call(m) \/ ReleaseOperation(m)
          PROVE  FALSE
      BY <3>2 DEF CallerChecks, Call, CallerShares, CallerRechecks, BeginMCP, ReleaseMode,
                  ReleaseOperation, modeVars
    <3>3. ASSUME NEW c \in Clients, NEW r \in Reports, ReserveActive(c, r) \/ ReserveStable(c, r)
          PROVE  FALSE
      BY <3>3 DEF ReserveActive, ReserveStable, modeVars
    <3>4. ASSUME NEW c \in Clients, Reserve(c) \/ CloseQueues(c) \/ CloseClient(c)
          PROVE  FALSE
      BY <3>4 DEF Reserve, ReserveShares, ReserveRechecks, BeginManual, BeginDone, BeginTimesOut,
                  ReserveUndone, Activate, CloseQueues, CloseClient, CloseSession, CloseRelease,
                  CloseEnd, modeVars
    <3>5. ASSUME NEW c \in Clients, NEW k \in Kinds, Work(c, k)
          PROVE  FALSE
      BY <3>5 DEF Work, WriteReport, WriteFails, DrainHIDQueue, CleanUp, FinishRelease, FinishEnd,
                  WorkerExits, modeVars
    <3>6. ~UNCHANGED vars
      BY DEF vars, modeVars
    <3> QED BY <3>1, <3>2, <3>3, <3>4, <3>5, <3>6 DEF Next
  <2>2. shared = 0
    BY <2>1 DEF Inv, GateInv
  <2>3. lane = None
    <3>1. \A m \in Callers : caller[m] # "running"
      BY <2>2, NobodyInside DEF CallerWithin
    <3> QED BY <3>1 DEF Inv, LaneInv, ControlTyped
  <2>4. ASSUME NEW c \in Clients
        PROVE  ~ses[c].active
    <3>1. GateBits(ses[c], reader[c]) <= 0
      BY <2>2, CountBounds
    <3>2. ses[c].active => GateBits(ses[c], reader[c]) >= 1
      BY DEF GateBits, ActiveBit, PcBit, Bit
    <3>3. GateBits(ses[c], reader[c]) \in Nat
      BY DEF GateBits, ActiveBit, PcBit, Bit
    <3> QED BY <3>1, <3>2, <3>3
  <2> QED BY <2>3, <2>4
<1> QED BY InputInvariant, <1>1, PTL DEF Spec, ModeStable
=============================================================================
