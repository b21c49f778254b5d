----------------------------- MODULE NexitProofs -----------------------------
(***************************************************************************)
(* Proofs about Nexit for every number of streams, every window and frame  *)
(* size.  The invariant says, for each stream, what its two records, the   *)
(* DATA in the read loop's hand and the frames of that stream on the two   *)
(* channels tell of each other.  A channel enters it only through its view *)
(* of the stream: how many bytes it carries, which frames, in which order. *)
(***************************************************************************)
EXTENDS Nexit, FiniteSetTheorems, SequenceTheorems, TLAPS

-----------------------------------------------------------------------------
(* What a channel holds for one stream.                                    *)

FrameTypes == {"OPEN", "OPENED", "OPEN_FAIL", "DATA", "EOF", "RST", "WINDOW"}

Frames ==
    {f \in [type : FrameTypes, id : 0..NStreams, n : Nat] :
        /\ f.type \in {"DATA", "WINDOW"} => f.n > 0
        /\ f.type # "WINDOW" => f.id # 0}

Is(f, t, s) == f.type = t /\ f.id = s
Has(c, t, s) == \E i \in DOMAIN c : Is(c[i], t, s)

(* No DATA or EOF of s follows an EOF of s.                                *)
EOFLast(c, s) ==
    \A i, j \in DOMAIN c :
        (i < j /\ Is(c[i], "EOF", s)) => ~Is(c[j], "DATA", s) /\ ~Is(c[j], "EOF", s)

(* Every DATA or EOF of s comes after an OPENED of s.                      *)
OpenedFirst(c, s) ==
    \A j \in DOMAIN c :
        (Is(c[j], "DATA", s) \/ Is(c[j], "EOF", s)) =>
            \E i \in DOMAIN c : i < j /\ Is(c[i], "OPENED", s)

OpenOnce(c, s) ==
    \A i, j \in DOMAIN c : (Is(c[i], "OPEN", s) /\ Is(c[j], "OPEN", s)) => i = j

(* d and w are the bytes of DATA and WINDOW, has the frames that matter    *)
(* for the order, ord the orders that hold.                                *)
View(c, s) ==
    [d |-> Carried(c, "DATA", {s}),
     w |-> Carried(c, "WINDOW", {s}),
     has |-> {t \in {"OPEN", "OPENED", "DATA", "EOF"} : Has(c, t, s)},
     ord |-> {o \in {"last", "first", "once"} :
                \/ o = "last" /\ EOFLast(c, s)
                \/ o = "first" /\ OpenedFirst(c, s)
                \/ o = "once" /\ OpenOnce(c, s)}]

NoFrames == [d |-> 0, w |-> 0, has |-> {}, ord |-> {"last", "first", "once"}]

ViewType ==
    [d : Nat, w : Nat, has : SUBSET {"OPEN", "OPENED", "DATA", "EOF"},
     ord : SUBSET {"last", "first", "once"}]

(* The view of a channel that holds frames with view u, then with view v.  *)
Join(u, v) ==
    [d |-> u.d + v.d,
     w |-> u.w + v.w,
     has |-> u.has \cup v.has,
     ord |-> {o \in u.ord :
                \/ o = "last" /\ o \in v.ord /\ ("EOF" \in u.has => v.has \cap {"DATA", "EOF"} = {})
                \/ o = "first" /\ (o \in v.ord \/ "OPENED" \in u.has)
                \/ o = "once" /\ o \in v.ord /\ ("OPEN" \in u.has => "OPEN" \notin v.has)}]

(* The view of the channel that holds just f.                              *)
FrameView(f, s) ==
    IF f.id # s THEN NoFrames
    ELSE [d |-> IF f.type = "DATA" THEN f.n ELSE 0,
          w |-> IF f.type = "WINDOW" THEN f.n ELSE 0,
          has |-> {f.type} \cap {"OPEN", "OPENED", "DATA", "EOF"},
          ord |-> IF f.type \in {"DATA", "EOF"} THEN {"last", "once"}
                                               ELSE {"last", "first", "once"}]

-----------------------------------------------------------------------------
(* The invariant.                                                          *)

Sizes == Seq(Nat \ {0})     \* queues of DATA frames
Items == Seq(Nat)           \* queues with the exit's eof item

KvmStream ==
    [tab : BOOLEAN, caller : {"idle", "await", "use", "gone"}, res : {"none", "ok", "err"},
     rel : {"no", "clean", "abort"}, remoteEOF : BOOLEAN, localEOF : BOOLEAN,
     recvQ : Sizes, consumed : Nat, credit : Nat, claim : Nat, sending : Nat, sent : Nat,
     got : Nat, eof : BOOLEAN]

ExitStream ==
    [st : {"none", "dial", "live", "gone", "failed"}, end : {"", "clean", "rst", "err"},
     remoteEOF : BOOLEAN, localEOF : BOOLEAN, queue : Items, consumed : Nat, credit : Nat,
     claim : Nat, sending : Nat, read : Nat, put : Nat, shut : BOOLEAN]

(* Below: k and x are the two records of stream s, h the bytes of s in the *)
(* kvm read loop's hand, a and b the views of k2e and e2k.                 *)

(* Nothing has happened to the stream yet at this end, or on the wire.     *)
FreshKvm(k) ==
    /\ k.caller = "idle" /\ k.res = "none" /\ k.rel = "no"
    /\ ~k.remoteEOF /\ ~k.localEOF /\ ~k.eof
    /\ k.recvQ = <<>> /\ k.credit = StreamWindow
    /\ k.consumed = 0 /\ k.claim = 0 /\ k.sending = 0 /\ k.sent = 0 /\ k.got = 0

FreshExit(x) ==
    /\ ~x.remoteEOF /\ ~x.localEOF /\ ~x.shut
    /\ x.queue = <<>> /\ x.credit = StreamWindow
    /\ x.consumed = 0 /\ x.claim = 0 /\ x.sending = 0 /\ x.read = 0 /\ x.put = 0

NothingOf(v) == v.d = 0 /\ v.w = 0 /\ v.has = {} /\ v.ord = {"last", "first", "once"}

(* Where the opening has got to at the two ends and on the wire.           *)
Opening(k, x, s, next, h, a, b) ==
    /\ s >= next => /\ FreshKvm(k) /\ x.st = "none"
                    /\ NothingOf(a) /\ NothingOf(b) /\ h = 0
    /\ s < next => k.caller # "idle"
    /\ k.tab <=> (s < next /\ k.rel = "no")
    /\ k.tab => k.res # "err"
    /\ "OPEN" \in a.has => x.st = "none" /\ "once" \in a.ord
    /\ (k.res = "ok" \/ "OPENED" \in b.has) => x.st \in {"live", "gone"}
    /\ (\/ k.caller = "use" \/ k.claim > 0 \/ k.sending > 0 \/ k.localEOF
        \/ "DATA" \in a.has \/ "EOF" \in a.has) => k.res = "ok"
    /\ (k.tab /\ k.res # "ok") => /\ "first" \in b.ord
                                  /\ x.st \in {"live", "gone"} => "OPENED" \in b.has
    /\ x.st \in {"none", "dial", "failed"} => /\ FreshExit(x)
                                              /\ b.d = 0 /\ b.w = 0 /\ "EOF" \notin b.has

(* EOF of the destination: nothing of the stream comes after it.           *)
DownEOF(k, x, h, b) ==
    /\ x.localEOF => x.claim = 0 /\ x.sending = 0
    /\ "EOF" \in b.has => x.localEOF
    /\ "last" \in b.ord
    /\ k.remoteEOF => x.localEOF /\ b.d = 0 /\ "EOF" \notin b.has /\ h = 0
    /\ k.rel = "clean" => k.remoteEOF /\ k.localEOF
    /\ k.eof => k.remoteEOF /\ k.recvQ = <<>> /\ k.got = x.read

(* EOF of hev, on the wire and then in the queue.                          *)
UpEOF(k, x, a) ==
    /\ k.localEOF => k.claim = 0 /\ k.sending = 0
    /\ "EOF" \in a.has => k.localEOF
    /\ "last" \in a.ord
    /\ x.remoteEOF => k.localEOF /\ a.d = 0 /\ "EOF" \notin a.has
    /\ \A i \in DOMAIN x.queue : x.queue[i] = 0 => i = Len(x.queue) /\ x.remoteEOF
    /\ x.shut => x.remoteEOF /\ x.queue = <<>> /\ x.put = k.sent

(* No byte is lost or doubled; who waits for the connection's credit has   *)
(* nothing to send yet, and claims one frame at most.                      *)
StreamBytes(k, x, h, a, b) ==
    /\ (k.caller # "gone" /\ k.rel # "abort") =>
            k.got + Sum(k.recvQ) + h + b.d + x.sending = x.read
    /\ x.st \in {"none", "dial", "live"} => x.put + Sum(x.queue) + a.d + k.sending = k.sent
    /\ k.claim = 0 \/ k.sending = 0
    /\ x.claim = 0 \/ x.sending = 0
    /\ x.claim <= MaxFrame

(* No credit is lost while both ends hold the stream, and the exit never   *)
(* has more than the kvm's window.                                         *)
StreamCredit(k, x, h, a, b) ==
    k.tab =>
      /\ x.credit + x.claim + x.sending + b.d + h + Sum(k.recvQ) + k.consumed + a.w <= StreamWindow
      /\ x.st # "gone" =>
            /\ x.credit + x.claim + x.sending + b.d + h + Sum(k.recvQ) + k.consumed + a.w = StreamWindow
            /\ k.credit + k.claim + k.sending + a.d + Sum(x.queue) + x.consumed + b.w = StreamWindow

StreamOK(k, x, s, next, h, a, b) ==
    /\ k \in KvmStream
    /\ x \in ExitStream
    /\ Opening(k, x, s, next, h, a, b)
    /\ DownEOF(k, x, h, b)
    /\ UpEOF(k, x, a)
    /\ StreamBytes(k, x, h, a, b)
    /\ StreamCredit(k, x, h, a, b)

(* The same for the stream's part of a state of the session.               *)
Hand(c, s) == IF c.data.id = s THEN c.data.n ELSE 0

StreamAt(f, g, c, u, v, s) ==
    StreamOK(f[s], g[s], s, c.next, Hand(c, s), View(u, s), View(v, s))

StreamsOK == \A s \in Streams : StreamAt(kv, ex, kc, k2e, e2k, s)

KvmSession ==
    [next : Nat \ {0}, credit : Nat, outstanding : Nat, consumed : Nat, released : Seq(Streams),
     data : {NoData} \cup [id : Streams, n : Nat \ {0}], err : {"none"}, breach : {FALSE}]

ExitSession == [credit : Nat, consumed : Nat, breach : {FALSE}]

TypeInv ==
    /\ kv \in [Streams -> KvmStream]
    /\ ex \in [Streams -> ExitStream]
    /\ kc \in KvmSession
    /\ ec \in ExitSession
    /\ k2e \in Seq(Frames)
    /\ e2k \in Seq(Frames)

HeldBy(f) == Sum([s \in Streams |-> Sum(f[s].recvQ)])
SendingOf(f) == Sum([s \in Streams |-> f[s].sending])
DataOf(c) == Carried(c, "DATA", Streams)
WindowOf(c) == Carried(c, "WINDOW", {0})
Wire == DataOf(e2k) + SendingOf(ex)
ConnBytes == ec.credit + Wire + kc.outstanding + kc.consumed + WindowOf(k2e)

(* What is outstanding is queued or in hand.                               *)
HeldOK == kc.outstanding = HeldBy(kv) + kc.data.n

(* The exit never has more than the kvm's connection window.               *)
ConnOK == ConnBytes <= ConnWindow

(* While the kvm remembers every released id: no two entries are the same, *)
(* none is in the table, and no connection credit is lost.                 *)
ReleasedOnce == \A i, j \in DOMAIN kc.released : kc.released[i] = kc.released[j] => i = j
ReleasedLeft ==
    \A i \in DOMAIN kc.released : kc.released[i] < kc.next /\ ~kv[kc.released[i]].tab
ReleasedAll ==
    \A s \in Streams : (s < kc.next /\ ~kv[s].tab) =>
                          \E i \in DOMAIN kc.released : kc.released[i] = s

Remembered == ReleasedOnce /\ ReleasedLeft /\ ReleasedAll /\ ConnBytes = ConnWindow

IInv == TypeInv /\ StreamsOK /\ HeldOK /\ ConnOK

-----------------------------------------------------------------------------
(* Sums.                                                                   *)

(* A byte is a place of the function and a number there.                   *)
LEMMA BytesAt ==
    ASSUME NEW f, NEW p
    PROVE  p \in Bytes(f) <=> \E i \in DOMAIN f : \E j \in 1..f[i] : p = <<i, j>>
<1>1. p \in Bytes(f) <=> \E i \in DOMAIN f : p \in {i} \X (1..f[i])
  BY Zenon DEF Bytes
<1>2. \A i : p \in {i} \X (1..f[i]) <=> \E j \in 1..f[i] : p = <<i, j>>
  BY SMT
<1> QED BY <1>1, <1>2

(* The bytes at one place are as many as the function says.                *)
LEMMA Column ==
    ASSUME NEW s, NEW m \in Nat
    PROVE  IsFiniteSet({s} \X (1..m)) /\ Cardinality({s} \X (1..m)) = m
<1>1. IsFiniteSet({s}) /\ Cardinality({s}) = 1
  BY FS_Singleton
<1>2. IsFiniteSet(1..m) /\ Cardinality(1..m) = m
  BY FS_Interval
<1>3. Cardinality({s}) * Cardinality(1..m) = m
  BY <1>1, <1>2
<1> QED BY <1>1, <1>2, <1>3, FS_Product

(* A function on a finite set has finitely many bytes.                     *)
LEMMA BytesFinite ==
    ASSUME NEW D, IsFiniteSet(D), NEW f \in [D -> Nat]
    PROVE  IsFiniteSet(Bytes(f))
<1> DEFINE C == {{i} \X (1..f[i]) : i \in D}
           g == [i \in D |-> {i} \X (1..f[i])]
<1>1. g \in Surjection(D, C)
  BY DEF Surjection
<1>2. IsFiniteSet(C)
  BY <1>1, FS_Surjection
<1>3. \A X \in C : IsFiniteSet(X)
  <2>1. \A i \in D : IsFiniteSet({i} \X (1..f[i]))
    BY Column
  <2> QED BY <2>1, Zenon
<1>4. IsFiniteSet(UNION C)
  BY <1>2, <1>3, FS_UNION
<1>5. Bytes(f) = UNION C
  BY DEF Bytes
<1> QED BY <1>4, <1>5

(* The sum of naturals over a finite set is a natural number.              *)
LEMMA SumType ==
    ASSUME NEW D, IsFiniteSet(D), NEW f \in [D -> Nat]
    PROVE  Sum(f) \in Nat
BY BytesFinite, FS_CardinalityType DEF Sum

(* Zeros add up to zero.                                                   *)
LEMMA SumOfNothing ==
    ASSUME NEW D, NEW f \in [D -> {0}]
    PROVE  Sum(f) = 0
<1>1. Bytes(f) = {}
  BY BytesAt, SMT
<1> QED BY <1>1, FS_EmptySet DEF Sum

(* Changing a function in one place changes its sum by the difference.     *)
LEMMA SumChange ==
    ASSUME NEW D, IsFiniteSet(D), NEW f \in [D -> Nat], NEW g \in [D -> Nat], NEW s \in D,
           \A t \in D \ {s} : g[t] = f[t]
    PROVE  Sum(g) + f[s] = Sum(f) + g[s]
<1> DEFINE R == {p \in Bytes(f) : p[1] # s}
           F == {s} \X (1..f[s])
           G == {s} \X (1..g[s])
<1>1. Bytes(f) = R \cup F
  <2>1. \A p \in Bytes(f) : p[1] = s => p \in F
    BY BytesAt
  <2>2. \A p \in F : p \in Bytes(f)
    BY BytesAt
  <2> QED BY <2>1, <2>2, Zenon
<1>2. Bytes(g) = R \cup G
  <2>1. \A p \in Bytes(g) : p \in R \/ p \in G
    BY BytesAt
  <2>2. \A p \in G : p \in Bytes(g)
    BY BytesAt
  <2>3. \A p \in R : p \in Bytes(g)
    BY BytesAt
  <2> QED BY <2>1, <2>2, <2>3, Zenon
<1>3. R \cap F = {} /\ R \cap G = {}
  OBVIOUS
<1>4. IsFiniteSet(R)
  BY BytesFinite, FS_Subset
<1>5. /\ IsFiniteSet(F) /\ Cardinality(F) = f[s]
      /\ IsFiniteSet(G) /\ Cardinality(G) = g[s]
  BY Column
<1> HIDE DEF R, F, G
<1>6. Cardinality(R \cap F) = 0 /\ Cardinality(R \cap G) = 0
  BY <1>3, FS_EmptySet
<1>7. Cardinality(R) \in Nat
  BY <1>4, FS_CardinalityType
<1>8. Cardinality(R \cup F) = Cardinality(R) + Cardinality(F) - Cardinality(R \cap F)
  BY <1>4, <1>5, FS_Union
<1>9. Cardinality(R \cup G) = Cardinality(R) + Cardinality(G) - Cardinality(R \cap G)
  BY <1>4, <1>5, FS_Union
<1>10. Sum(f) = Cardinality(R) + f[s] /\ Sum(g) = Cardinality(R) + g[s]
  BY <1>1, <1>2, <1>5, <1>6, <1>7, <1>8, <1>9 DEF Sum
<1> QED BY <1>7, <1>10

(* The sum of a queue is a natural number.                                 *)
LEMMA SeqFinite ==
    ASSUME NEW q \in Seq(Nat)
    PROVE  /\ IsFiniteSet(1..Len(q)) /\ q \in [1..Len(q) -> Nat]
           /\ IsFiniteSet(Bytes(q)) /\ Sum(q) \in Nat
<1>1. Len(q) \in Nat /\ q \in [1..Len(q) -> Nat]
  OBVIOUS
<1>2. IsFiniteSet(1..Len(q))
  BY <1>1, FS_Interval
<1> QED BY <1>1, <1>2, BytesFinite, SumType

(* The bytes of one sequence and then another: the second's are shifted.   *)
LEMMA SumConcat ==
    ASSUME NEW q \in Seq(Nat), NEW r \in Seq(Nat)
    PROVE  Sum(q \o r) = Sum(q) + Sum(r)
<1> DEFINE l == Len(q)
           S == {p \in ((l+1)..(l+Len(r))) \X Nat : p[2] \in 1..r[p[1] - l]}
           g == [p \in Bytes(r) |-> <<p[1] + l, p[2]>>]
<1>1. /\ l \in Nat /\ Len(r) \in Nat /\ DOMAIN q = 1..l /\ DOMAIN r = 1..Len(r)
      /\ \A i \in 1..l : q[i] \in Nat
      /\ \A i \in 1..Len(r) : r[i] \in Nat
  OBVIOUS
<1>2. /\ DOMAIN (q \o r) = 1..(l + Len(r))
      /\ \A i \in 1..l : (q \o r)[i] = q[i]
      /\ \A i \in (l+1)..(l+Len(r)) : (q \o r)[i] = r[i - l]
  OBVIOUS
<1> HIDE DEF l
<1>3. \A p : p \in S <=> \E i \in (l+1)..(l+Len(r)) : \E j \in 1..r[i - l] : p = <<i, j>>
  BY <1>1
<1>4. g \in Bijection(Bytes(r), S)
  <2>1. \A p \in Bytes(r) : g[p] \in S
    BY <1>1, BytesAt
  <2>2. \A p, u \in Bytes(r) : g[p] = g[u] => p = u
    <3> SUFFICES ASSUME NEW p \in Bytes(r), NEW u \in Bytes(r), g[p] = g[u]
                 PROVE  p = u
      OBVIOUS
    <3>1. PICK i \in DOMAIN r : \E j \in 1..r[i] : p = <<i, j>>
      BY BytesAt
    <3>2. PICK m \in DOMAIN r : \E j \in 1..r[m] : u = <<m, j>>
      BY BytesAt
    <3>3. <<p[1] + l, p[2]>> = <<u[1] + l, u[2]>>
      OBVIOUS
    <3>4. p[1] + l = u[1] + l /\ p[2] = u[2]
      BY <3>3
    <3> QED BY <3>1, <3>2, <3>4, <1>1
  <2>3. \A p \in S : \E u \in Bytes(r) : g[u] = p
    <3> TAKE p \in S
    <3>0. PICK i \in (l+1)..(l+Len(r)) : \E j \in 1..r[i - l] : p = <<i, j>>
      BY <1>3
    <3>1. PICK j \in 1..r[i - l] : p = <<i, j>>
      BY <3>0
    <3>2. i - l \in 1..Len(r) /\ (i - l) + l = i
      BY <1>1
    <3>3. <<i - l, j>> \in Bytes(r)
      BY <3>2, <1>1, BytesAt
    <3> QED BY <3>1, <3>2, <3>3
  <2>4. g \in [Bytes(r) -> S]
    BY <2>1
  <2> HIDE DEF g
  <2> QED BY <2>2, <2>3, <2>4 DEF Bijection, Injection, Surjection, IsInjective
<1>5. Bytes(q \o r) = Bytes(q) \cup S
  <2> DEFINE qr == q \o r
  <2> HIDE DEF qr
  <2>0. /\ DOMAIN qr = 1..(l + Len(r))
        /\ \A i \in 1..l : qr[i] = q[i]
        /\ \A i \in (l+1)..(l+Len(r)) : qr[i] = r[i - l]
    BY <1>2 DEF qr
  <2>1. \A p \in Bytes(qr) : p \in Bytes(q) \/ p \in S
    <3> TAKE p \in Bytes(qr)
    <3>0. PICK i \in DOMAIN qr : \E j \in 1..qr[i] : p = <<i, j>>
      BY BytesAt
    <3>1. PICK j \in 1..qr[i] : p = <<i, j>>
      BY <3>0
    <3>2. CASE i \in 1..l
      BY <3>1, <3>2, <1>1, <2>0, BytesAt
    <3>3. CASE i \in (l+1)..(l+Len(r))
      BY <3>1, <3>3, <2>0, <1>3
    <3> QED BY <3>1, <3>2, <3>3, <1>1, <2>0
  <2>2. \A p \in Bytes(q) : p \in Bytes(qr)
    <3> TAKE p \in Bytes(q)
    <3>1. PICK i \in 1..l : \E j \in 1..q[i] : p = <<i, j>>
      BY <1>1, BytesAt
    <3>2. i \in DOMAIN qr /\ qr[i] = q[i]
      BY <1>1, <2>0
    <3> QED BY <3>1, <3>2, BytesAt
  <2>3. \A p \in S : p \in Bytes(qr)
    <3> TAKE p \in S
    <3>1. PICK i \in (l+1)..(l+Len(r)) : \E j \in 1..r[i - l] : p = <<i, j>>
      BY <1>3
    <3>2. i \in DOMAIN qr /\ qr[i] = r[i - l]
      BY <1>1, <2>0
    <3> QED BY <3>1, <3>2, BytesAt
  <2>4. Bytes(qr) = Bytes(q) \cup S
    BY <2>1, <2>2, <2>3, Zenon
  <2> QED BY <2>4 DEF qr
<1>6. Bytes(q) \cap S = {}
  BY <1>1, <1>3, BytesAt
<1>7. IsFiniteSet(Bytes(q)) /\ IsFiniteSet(Bytes(r))
  BY SeqFinite
<1>8. IsFiniteSet(S) /\ Cardinality(S) = Cardinality(Bytes(r))
  BY <1>4, <1>7, FS_Bijection DEF ExistsBijection
<1> HIDE DEF S
<1>9. Cardinality(Bytes(q) \cup S) = Cardinality(Bytes(q)) + Cardinality(S) - Cardinality(Bytes(q) \cap S)
  BY <1>7, <1>8, FS_Union
<1>10. Cardinality(Bytes(q) \cap S) = 0 /\ Cardinality(Bytes(q)) \in Nat /\ Cardinality(Bytes(r)) \in Nat
  BY <1>6, <1>7, FS_EmptySet, FS_CardinalityType
<1> QED BY <1>5, <1>8, <1>9, <1>10 DEF Sum

(* The sum of a queue of one item.                                         *)
LEMMA SumSingle ==
    ASSUME NEW n \in Nat
    PROVE  Sum(<<n>>) = n
<1>1. Bytes(<<n>>) = {1} \X (1..n)
  <2>1. \A p : p \in Bytes(<<n>>) <=> \E j \in 1..n : p = <<1, j>>
    BY BytesAt
  <2> QED BY <2>1
<1> QED BY <1>1, Column DEF Sum

(* The sum of an empty queue.                                              *)
LEMMA SumEmpty == Sum(<<>>) = 0
<1>1. <<>> \in [{} -> {0}]
  OBVIOUS
<1> QED BY <1>1, SumOfNothing

(* A queue's sum when an item arrives at its end or leaves at its head.    *)
LEMMA SumQueue ==
    ASSUME NEW q \in Seq(Nat)
    PROVE  /\ \A n \in Nat : Sum(Append(q, n)) = Sum(q) + n
           /\ q # <<>> => Sum(Tail(q)) + Head(q) = Sum(q)
<1>1. \A n \in Nat : Sum(Append(q, n)) = Sum(q) + n
  <2> TAKE n \in Nat
  <2>1. Append(q, n) = q \o <<n>> /\ <<n>> \in Seq(Nat)
    OBVIOUS
  <2> QED BY <2>1, SumConcat, SumSingle
<1>2. q # <<>> => Sum(Tail(q)) + Head(q) = Sum(q)
  <2> HAVE q # <<>>
  <2>1. q = <<Head(q)>> \o Tail(q) /\ Head(q) \in Nat /\ <<Head(q)>> \in Seq(Nat) /\ Tail(q) \in Seq(Nat)
    OBVIOUS
  <2>2. Sum(Tail(q)) \in Nat
    BY <2>1, SeqFinite
  <2>3. Sum(<<Head(q)>> \o Tail(q)) = Sum(<<Head(q)>>) + Sum(Tail(q))
    BY <2>1, SumConcat
  <2>4. Sum(<<Head(q)>>) = Head(q)
    BY <2>1, SumSingle
  <2>5. Sum(q) = Sum(<<Head(q)>> \o Tail(q))
    BY <2>1
  <2> HIDE DEF Sum
  <2> QED BY <2>1, <2>2, <2>3, <2>4, <2>5
<1> QED BY <1>1, <1>2

-----------------------------------------------------------------------------
(* What channels carry, and their views.                                   *)

Load(c, t, ids) ==
    [i \in DOMAIN c |-> IF c[i].type = t /\ c[i].id \in ids THEN c[i].n ELSE 0]

(* The fields of a frame.                                                  *)
LEMMA FrameFields ==
    ASSUME NEW f \in Frames
    PROVE  /\ f.type \in FrameTypes /\ f.id \in 0..NStreams /\ f.n \in Nat
           /\ f.type \in {"DATA", "WINDOW"} => f.n > 0
           /\ f.type # "WINDOW" => f.id \in Streams
<1>1. f \in [type : FrameTypes, id : 0..NStreams, n : Nat]
  BY DEF Frames
<1>2. f.type \in FrameTypes /\ f.id \in 0..NStreams /\ f.n \in Nat
  BY <1>1
<1>3. /\ f.type \in {"DATA", "WINDOW"} => f.n > 0
      /\ f.type # "WINDOW" => f.id # 0
  BY DEF Frames
<1>4. NStreams \in Nat
  BY NexitAssumption
<1> QED BY <1>2, <1>3, <1>4 DEF Streams

(* What a channel's frames carry is a queue of sizes.                      *)
LEMMA LoadSeq ==
    ASSUME NEW c \in Seq(Frames), NEW t, NEW ids
    PROVE  Load(c, t, ids) \in Seq(Nat) /\ Len(Load(c, t, ids)) = Len(c)
<1>1. DOMAIN c = 1..Len(c) /\ Len(c) \in Nat
  OBVIOUS
<1>2. \A i \in 1..Len(c) : c[i] \in Frames
  OBVIOUS
<1>3. \A i \in 1..Len(c) : c[i].n \in Nat
  BY <1>2, FrameFields
<1>4. Load(c, t, ids) \in [1..Len(c) -> Nat]
  BY <1>1, <1>3 DEF Load
<1> QED BY <1>1, <1>4

(* What a channel carries is a natural number.                             *)
LEMMA CarriedType ==
    ASSUME NEW c \in Seq(Frames), NEW t, NEW ids
    PROVE  Carried(c, t, ids) \in Nat
<1>1. Carried(c, t, ids) = Sum(Load(c, t, ids))
  BY DEF Carried, Load
<1> QED BY <1>1, LoadSeq, SeqFinite

(* Concatenation gives the two parts' loads, one after the other.          *)
LEMMA ConcatIs ==
    ASSUME NEW p \in Seq(Nat), NEW q \in Seq(Nat), NEW r \in Seq(Nat),
           Len(r) = Len(p) + Len(q),
           \A i \in 1..Len(p) : r[i] = p[i],
           \A i \in (Len(p)+1)..(Len(p)+Len(q)) : r[i] = q[i - Len(p)]
    PROVE  r = p \o q
<1>1. Len(p) \in Nat /\ Len(q) \in Nat
  OBVIOUS
<1>2. p \o q \in Seq(Nat) /\ Len(p \o q) = Len(p) + Len(q)
  BY ConcatProperties
<1>3. \A i \in 1..(Len(p)+Len(q)) :
         (p \o q)[i] = IF i <= Len(p) THEN p[i] ELSE q[i - Len(p)]
  BY ConcatProperties
<1>4. \A i \in 1..Len(r) : r[i] = (p \o q)[i]
  <2> TAKE i \in 1..Len(r)
  <2>1. CASE i <= Len(p)
    BY <1>1, <1>3, <2>1
  <2>2. CASE i > Len(p)
    BY <1>1, <1>3, <2>2
  <2> QED BY <1>1, <2>1, <2>2
<1> QED BY <1>2, <1>4, SeqEqual

(* A channel carries what its two parts carry.                             *)
LEMMA CarriedConcat ==
    ASSUME NEW c \in Seq(Frames), NEW g \in Seq(Frames), NEW t, NEW ids
    PROVE  Carried(c \o g, t, ids) = Carried(c, t, ids) + Carried(g, t, ids)
<1> DEFINE p == Load(c, t, ids)
           q == Load(g, t, ids)
           r == Load(c \o g, t, ids)
<1>1. c \o g \in Seq(Frames) /\ Len(c \o g) = Len(c) + Len(g) /\ Len(c) \in Nat /\ Len(g) \in Nat
  OBVIOUS
<1>2. /\ p \in Seq(Nat) /\ Len(p) = Len(c)
      /\ q \in Seq(Nat) /\ Len(q) = Len(g)
      /\ r \in Seq(Nat) /\ Len(r) = Len(c) + Len(g)
  BY <1>1, LoadSeq
<1>3. \A i \in 1..Len(c) : r[i] = p[i]
  BY <1>1 DEF Load
<1>4. \A i \in (Len(c)+1)..(Len(c)+Len(g)) : r[i] = q[i - Len(c)]
  <2> TAKE i \in (Len(c)+1)..(Len(c)+Len(g))
  <2>1. i \in DOMAIN (c \o g) /\ i - Len(c) \in DOMAIN g /\ (c \o g)[i] = g[i - Len(c)]
    BY <1>1
  <2> QED BY <2>1 DEF Load
<1> HIDE DEF p, q, r
<1>5. r = p \o q
  <2>1. /\ Len(r) = Len(p) + Len(q)
        /\ \A i \in 1..Len(p) : r[i] = p[i]
        /\ \A i \in (Len(p)+1)..(Len(p)+Len(q)) : r[i] = q[i - Len(p)]
    BY <1>2, <1>3, <1>4, Zenon
  <2> QED BY <1>2, <2>1, ConcatIs
<1>6. Sum(r) = Sum(p) + Sum(q)
  BY <1>2, <1>5, SumConcat
<1> QED BY <1>6 DEF Carried, Load, p, q, r

(* What the channel of one frame carries.                                  *)
LEMMA CarriedOne ==
    ASSUME NEW f \in Frames, NEW t, NEW ids
    PROVE  Carried(<<f>>, t, ids) = IF f.type = t /\ f.id \in ids THEN f.n ELSE 0
<1> DEFINE m == IF f.type = t /\ f.id \in ids THEN f.n ELSE 0
<1>1. m \in Nat
  BY FrameFields
<1>2. Load(<<f>>, t, ids) = <<m>>
  BY DEF Load
<1> HIDE DEF m
<1>3. Sum(Load(<<f>>, t, ids)) = m
  BY <1>1, <1>2, SumSingle
<1> QED BY <1>3 DEF Carried, Load, m

(* An empty channel carries nothing.                                       *)
LEMMA CarriedNone ==
    ASSUME NEW t, NEW ids
    PROVE  Carried(<<>>, t, ids) = 0
<1>1. DOMAIN Load(<<>>, t, ids) = {}
  BY DEF Load
<1>2. Load(<<>>, t, ids) \in [{} -> {0}]
  BY <1>1, Zenon DEF Load
<1> QED BY <1>2, SumOfNothing DEF Carried, Load

(* Bytes of s are carried exactly when a frame of s that carries is there. *)
LEMMA CarriedPositive ==
    ASSUME NEW c \in Seq(Frames), NEW s, NEW t \in {"DATA", "WINDOW"}
    PROVE  Carried(c, t, {s}) > 0 <=> Has(c, t, s)
<1> DEFINE l == Load(c, t, {s})
<1>1. DOMAIN c = 1..Len(c) /\ Len(c) \in Nat /\ \A i \in 1..Len(c) : c[i] \in Frames
  OBVIOUS
<1>2. l \in Seq(Nat) /\ Len(l) = Len(c)
  BY LoadSeq
<1>6. DOMAIN l = DOMAIN c
  BY DEF Load
<1>3. ASSUME NEW i \in DOMAIN c, Is(c[i], t, s)
      PROVE  Sum(l) > 0
  <2>1. l[i] = c[i].n /\ c[i].n \in Nat /\ c[i].n > 0
    BY <1>1, <1>3, FrameFields DEF Load, Is
  <2>2. <<i, 1>> \in Bytes(l)
    BY <1>6, <2>1, BytesAt
  <2>3. IsFiniteSet(Bytes(l))
    BY <1>2, SeqFinite
  <2>4. Sum(l) \in Nat /\ Sum(l) # 0
    BY <1>2, <2>2, <2>3, SeqFinite, FS_EmptySet DEF Sum
  <2> QED BY <2>4
<1>4. ASSUME \A i \in DOMAIN c : ~Is(c[i], t, s)
      PROVE  Sum(l) = 0
  <2>1. l \in [DOMAIN c -> {0}]
    BY <1>4 DEF Load, Is
  <2> QED BY <2>1, SumOfNothing
<1>5. Carried(c, t, {s}) = Sum(l)
  BY DEF Carried, Load
<1> HIDE DEF l
<1> QED BY <1>3, <1>4, <1>5 DEF Has

(* A view has its type, and sees DATA exactly when DATA carries bytes.     *)
LEMMA ViewOK ==
    ASSUME NEW c \in Seq(Frames), NEW s
    PROVE  /\ View(c, s) \in ViewType
           /\ View(c, s).d = 0 <=> "DATA" \notin View(c, s).has
<1>1. Carried(c, "DATA", {s}) \in Nat /\ Carried(c, "WINDOW", {s}) \in Nat
  BY CarriedType
<1>2. Carried(c, "DATA", {s}) > 0 <=> Has(c, "DATA", s)
  BY CarriedPositive
<1>3. "DATA" \in View(c, s).has <=> Has(c, "DATA", s)
  BY DEF View
<1> QED BY <1>1, <1>2, <1>3 DEF View, ViewType

(* Where the frames of two parts are in the whole.                         *)
LEMMA ConcatIndex ==
    ASSUME NEW c \in Seq(Frames), NEW g \in Seq(Frames)
    PROVE  /\ Len(c) \in Nat /\ Len(g) \in Nat
           /\ DOMAIN c = 1..Len(c) /\ DOMAIN g = 1..Len(g)
           /\ DOMAIN (c \o g) = 1..(Len(c) + Len(g))
           /\ \A i \in 1..Len(c) : (c \o g)[i] = c[i]
           /\ \A j \in 1..Len(g) : (c \o g)[Len(c) + j] = g[j]
<1>1. Len(c) \in Nat /\ Len(g) \in Nat /\ DOMAIN c = 1..Len(c) /\ DOMAIN g = 1..Len(g)
  OBVIOUS
<1>2. c \o g \in Seq(Frames) /\ Len(c \o g) = Len(c) + Len(g)
  BY ConcatProperties
<1>3. \A i \in 1..(Len(c)+Len(g)) :
         (c \o g)[i] = IF i <= Len(c) THEN c[i] ELSE g[i - Len(c)]
  BY ConcatProperties
<1>4. \A i \in 1..Len(c) : (c \o g)[i] = c[i]
  BY <1>1, <1>3
<1>5. \A j \in 1..Len(g) : (c \o g)[Len(c) + j] = g[j]
  <2> TAKE j \in 1..Len(g)
  <2>1. Len(c) + j \in 1..(Len(c)+Len(g)) /\ ~(Len(c) + j <= Len(c)) /\ (Len(c) + j) - Len(c) = j
    BY <1>1
  <2> QED BY <1>3, <2>1
<1>6. DOMAIN (c \o g) = 1..(Len(c) + Len(g))
  BY <1>2
<1> QED BY <1>1, <1>4, <1>5, <1>6

(* A frame is in the whole when it is in one of the parts.                 *)
LEMMA HasConcat ==
    ASSUME NEW c \in Seq(Frames), NEW g \in Seq(Frames), NEW t, NEW s
    PROVE  Has(c \o g, t, s) <=> Has(c, t, s) \/ Has(g, t, s)
<1> DEFINE l == Len(c)
           m == Len(g)
           h == c \o g
<1>1. /\ l \in Nat /\ m \in Nat
      /\ DOMAIN c = 1..l /\ DOMAIN g = 1..m /\ DOMAIN h = 1..(l + m)
      /\ \A i \in 1..l : h[i] = c[i]
      /\ \A j \in 1..m : h[l + j] = g[j]
  BY ConcatIndex
<1> HIDE DEF l, m, h
<1>2. Has(c, t, s) => Has(h, t, s)
  BY <1>1 DEF Has
<1>3. ASSUME NEW j \in 1..m, Is(g[j], t, s)
      PROVE  Has(h, t, s)
  <2>1. l + j \in 1..(l + m)
    BY <1>1
  <2> QED BY <1>1, <1>3, <2>1 DEF Has
<1>4. ASSUME NEW i \in 1..(l + m), Is(h[i], t, s)
      PROVE  Has(c, t, s) \/ Has(g, t, s)
  <2>1. CASE i <= l
    BY <1>1, <1>4, <2>1 DEF Has
  <2>2. CASE i > l
    <3>1. i - l \in 1..m /\ l + (i - l) = i
      BY <1>1, <2>2
    <3>2. h[i] = g[i - l]
      BY <1>1, <3>1
    <3> QED BY <1>1, <1>4, <3>1, <3>2 DEF Has
  <2> QED BY <1>1, <2>1, <2>2
<1>5. Has(h, t, s) <=> Has(c, t, s) \/ Has(g, t, s)
  BY <1>1, <1>2, <1>3, <1>4 DEF Has
<1> QED BY <1>5 DEF h

(* The orders of the whole, from those of its parts.                       *)
LEMMA OrderConcat ==
    ASSUME NEW c \in Seq(Frames), NEW g \in Seq(Frames), NEW s
    PROVE  /\ EOFLast(c \o g, s) <=>
                /\ EOFLast(c, s) /\ EOFLast(g, s)
                /\ Has(c, "EOF", s) => ~Has(g, "DATA", s) /\ ~Has(g, "EOF", s)
           /\ OpenedFirst(c \o g, s) <=>
                OpenedFirst(c, s) /\ (OpenedFirst(g, s) \/ Has(c, "OPENED", s))
           /\ OpenOnce(c \o g, s) <=>
                /\ OpenOnce(c, s) /\ OpenOnce(g, s)
                /\ Has(c, "OPEN", s) => ~Has(g, "OPEN", s)
<1> DEFINE l == Len(c)
           m == Len(g)
           h == c \o g
<1>1. /\ l \in Nat /\ m \in Nat
      /\ DOMAIN c = 1..l /\ DOMAIN g = 1..m /\ DOMAIN h = 1..(l + m)
      /\ \A i \in 1..l : h[i] = c[i]
      /\ \A j \in 1..m : h[l + j] = g[j]
  BY ConcatIndex
<1> HIDE DEF l, m, h
<1>2. /\ \A i \in 1..l : i \in 1..(l + m)
      /\ \A j \in 1..m : l + j \in 1..(l + m)
      /\ \A i \in 1..l, j \in 1..m : i < l + j
      /\ \A i, j \in 1..m : i < j <=> l + i < l + j
      /\ \A i \in 1..(l + m) : i \in 1..l \/ \E j \in 1..m : i = l + j
  <2>1. \A i \in 1..(l + m) : i \in 1..l \/ (i - l \in 1..m /\ i = l + (i - l))
    BY <1>1
  <2> QED BY <1>1, <2>1
<1>3. EOFLast(h, s) <=>
        /\ EOFLast(c, s) /\ EOFLast(g, s)
        /\ Has(c, "EOF", s) => ~Has(g, "DATA", s) /\ ~Has(g, "EOF", s)
  <2>1. EOFLast(h, s) => EOFLast(c, s)
    BY <1>1, <1>2 DEF EOFLast
  <2>2. EOFLast(h, s) => EOFLast(g, s)
    BY <1>1, <1>2 DEF EOFLast
  <2>3. EOFLast(h, s) => (Has(c, "EOF", s) => ~Has(g, "DATA", s) /\ ~Has(g, "EOF", s))
    BY <1>1, <1>2 DEF EOFLast, Has
  <2>4. ASSUME EOFLast(c, s), EOFLast(g, s),
               Has(c, "EOF", s) => ~Has(g, "DATA", s) /\ ~Has(g, "EOF", s),
               NEW i \in 1..(l + m), NEW j \in 1..(l + m), i < j, Is(h[i], "EOF", s)
        PROVE  ~Is(h[j], "DATA", s) /\ ~Is(h[j], "EOF", s)
    <3>1. CASE i \in 1..l /\ j \in 1..l
      BY <1>1, <2>4, <3>1 DEF EOFLast
    <3>2. ASSUME i \in 1..l, NEW v \in 1..m, j = l + v
          PROVE  ~Is(h[j], "DATA", s) /\ ~Is(h[j], "EOF", s)
      BY <1>1, <2>4, <3>2 DEF Has
    <3>3. ASSUME NEW u \in 1..m, i = l + u, NEW v \in 1..m, j = l + v
          PROVE  ~Is(h[j], "DATA", s) /\ ~Is(h[j], "EOF", s)
      <4>1. u < v
        BY <1>2, <2>4, <3>3
      <4> QED BY <1>1, <2>4, <3>3, <4>1 DEF EOFLast
    <3>4. ASSUME NEW u \in 1..m, i = l + u, j \in 1..l
          PROVE  FALSE
      BY <1>1, <2>4, <3>4
    <3> QED BY <1>2, <3>1, <3>2, <3>3, <3>4
  <2> QED BY <1>1, <2>1, <2>2, <2>3, <2>4 DEF EOFLast
<1>4. OpenedFirst(h, s) <=> OpenedFirst(c, s) /\ (OpenedFirst(g, s) \/ Has(c, "OPENED", s))
  <2>1. ASSUME OpenedFirst(h, s), NEW j \in 1..l, Is(c[j], "DATA", s) \/ Is(c[j], "EOF", s)
        PROVE  \E i \in 1..l : i < j /\ Is(c[i], "OPENED", s)
    <3>1. PICK i \in 1..(l + m) : i < j /\ Is(h[i], "OPENED", s)
      BY <1>1, <1>2, <2>1 DEF OpenedFirst
    <3>2. i \in 1..l
      BY <1>1, <3>1
    <3> QED BY <1>1, <3>1, <3>2
  <2>2. ASSUME OpenedFirst(h, s), ~Has(c, "OPENED", s),
               NEW j \in 1..m, Is(g[j], "DATA", s) \/ Is(g[j], "EOF", s)
        PROVE  \E i \in 1..m : i < j /\ Is(g[i], "OPENED", s)
    <3>1. PICK i \in 1..(l + m) : i < l + j /\ Is(h[i], "OPENED", s)
      BY <1>1, <1>2, <2>2 DEF OpenedFirst
    <3>2. i \notin 1..l
      BY <1>1, <2>2, <3>1 DEF Has
    <3>3. PICK u \in 1..m : i = l + u
      BY <1>2, <3>2
    <3> QED BY <1>1, <1>2, <3>1, <3>3
  <2>3. ASSUME OpenedFirst(c, s), OpenedFirst(g, s) \/ Has(c, "OPENED", s),
               NEW j \in 1..(l + m), Is(h[j], "DATA", s) \/ Is(h[j], "EOF", s)
        PROVE  \E i \in 1..(l + m) : i < j /\ Is(h[i], "OPENED", s)
    <3>1. CASE j \in 1..l
      <4>1. \E i \in 1..l : i < j /\ Is(c[i], "OPENED", s)
        BY <1>1, <2>3, <3>1 DEF OpenedFirst
      <4> QED BY <4>1, <1>1, <1>2
    <3>2. ASSUME NEW v \in 1..m, j = l + v, Has(c, "OPENED", s)
          PROVE  \E i \in 1..(l + m) : i < j /\ Is(h[i], "OPENED", s)
      BY <1>1, <1>2, <3>2 DEF Has
    <3>3. ASSUME NEW v \in 1..m, j = l + v, OpenedFirst(g, s)
          PROVE  \E i \in 1..(l + m) : i < j /\ Is(h[i], "OPENED", s)
      <4>1. PICK u \in 1..m : u < v /\ Is(g[u], "OPENED", s)
        BY <1>1, <2>3, <3>3 DEF OpenedFirst
      <4> QED BY <1>1, <1>2, <3>3, <4>1
    <3> QED BY <1>2, <2>3, <3>1, <3>2, <3>3
  <2> QED BY <1>1, <2>1, <2>2, <2>3 DEF OpenedFirst
<1>5. OpenOnce(h, s) <=> /\ OpenOnce(c, s) /\ OpenOnce(g, s)
                         /\ Has(c, "OPEN", s) => ~Has(g, "OPEN", s)
  <2>1. OpenOnce(h, s) => OpenOnce(c, s)
    BY <1>1, <1>2 DEF OpenOnce
  <2>2. OpenOnce(h, s) => OpenOnce(g, s)
    <3> SUFFICES ASSUME OpenOnce(h, s), NEW i \in 1..m, NEW j \in 1..m,
                        Is(g[i], "OPEN", s), Is(g[j], "OPEN", s)
                 PROVE  i = j
      BY <1>1 DEF OpenOnce
    <3>1. l + i = l + j
      BY <1>1, <1>2 DEF OpenOnce
    <3> QED BY <1>1, <3>1
  <2>3. OpenOnce(h, s) => (Has(c, "OPEN", s) => ~Has(g, "OPEN", s))
    <3> SUFFICES ASSUME OpenOnce(h, s), NEW i \in 1..l, NEW j \in 1..m,
                        Is(c[i], "OPEN", s), Is(g[j], "OPEN", s)
                 PROVE  FALSE
      BY <1>1 DEF Has
    <3>1. i = l + j
      BY <1>1, <1>2 DEF OpenOnce
    <3> QED BY <1>1, <3>1
  <2>4. ASSUME OpenOnce(c, s), OpenOnce(g, s), Has(c, "OPEN", s) => ~Has(g, "OPEN", s),
               NEW i \in 1..(l + m), NEW j \in 1..(l + m),
               Is(h[i], "OPEN", s), Is(h[j], "OPEN", s)
        PROVE  i = j
    <3>1. CASE i \in 1..l /\ j \in 1..l
      BY <1>1, <2>4, <3>1 DEF OpenOnce
    <3>2. ASSUME NEW u \in 1..m, i = l + u, NEW v \in 1..m, j = l + v
          PROVE  i = j
      <4>1. u = v
        BY <1>1, <2>4, <3>2 DEF OpenOnce
      <4> QED BY <3>2, <4>1
    <3>3. ASSUME NEW u \in 1..m, (i = l + u /\ j \in 1..l) \/ (j = l + u /\ i \in 1..l)
          PROVE  FALSE
      BY <1>1, <2>4, <3>3 DEF Has
    <3> QED BY <1>2, <3>1, <3>2, <3>3
  <2> QED BY <1>1, <2>1, <2>2, <2>3, <2>4 DEF OpenOnce
<1> QED BY <1>3, <1>4, <1>5 DEF h

(* The view of a whole is the join of its parts' views.                    *)
LEMMA ViewConcat ==
    ASSUME NEW c \in Seq(Frames), NEW g \in Seq(Frames), NEW s
    PROVE  View(c \o g, s) = Join(View(c, s), View(g, s))
<1> DEFINE u == View(c, s)
           v == View(g, s)
           y == View(c \o g, s)
           T == {"OPEN", "OPENED", "DATA", "EOF"}
           O == {"last", "first", "once"}
<1>1. y.d = u.d + v.d /\ y.w = u.w + v.w
  BY CarriedConcat DEF View
<1>2. \A t \in T : /\ t \in u.has <=> Has(c, t, s)
                   /\ t \in v.has <=> Has(g, t, s)
                   /\ t \in y.has <=> Has(c \o g, t, s)
  BY DEF View
<1>3. y.has \subseteq T /\ u.has \subseteq T /\ v.has \subseteq T
  BY DEF View
<1>4. y.has = u.has \cup v.has
  BY <1>2, <1>3, HasConcat
<1>5. /\ "last" \in u.ord <=> EOFLast(c, s)
      /\ "last" \in v.ord <=> EOFLast(g, s)
      /\ "last" \in y.ord <=> EOFLast(c \o g, s)
      /\ "first" \in u.ord <=> OpenedFirst(c, s)
      /\ "first" \in v.ord <=> OpenedFirst(g, s)
      /\ "first" \in y.ord <=> OpenedFirst(c \o g, s)
      /\ "once" \in u.ord <=> OpenOnce(c, s)
      /\ "once" \in v.ord <=> OpenOnce(g, s)
      /\ "once" \in y.ord <=> OpenOnce(c \o g, s)
  BY DEF View
<1>6. y.ord \subseteq O /\ u.ord \subseteq O /\ v.ord \subseteq O
  BY DEF View
<1>7. v.has \cap {"DATA", "EOF"} = {} <=> ~Has(g, "DATA", s) /\ ~Has(g, "EOF", s)
  BY <1>2
<1>8. /\ "last" \in y.ord <=> "last" \in Join(u, v).ord
      /\ "first" \in y.ord <=> "first" \in Join(u, v).ord
      /\ "once" \in y.ord <=> "once" \in Join(u, v).ord
  <2> HIDE DEF u, v, y
  <2>1. /\ "last" \in Join(u, v).ord <=>
            "last" \in u.ord /\ "last" \in v.ord /\ ("EOF" \in u.has => v.has \cap {"DATA", "EOF"} = {})
        /\ "first" \in Join(u, v).ord <=>
            "first" \in u.ord /\ ("first" \in v.ord \/ "OPENED" \in u.has)
        /\ "once" \in Join(u, v).ord <=>
            "once" \in u.ord /\ "once" \in v.ord /\ ("OPEN" \in u.has => "OPEN" \notin v.has)
    BY DEF Join
  <2> QED BY <1>2, <1>5, <1>7, <2>1, OrderConcat
<1>9. Join(u, v).ord \subseteq O
  <2> HIDE DEF u, v, y
  <2>1. Join(u, v).ord \subseteq u.ord
    BY DEF Join
  <2> QED BY <1>6, <2>1
<1>10. y.ord = Join(u, v).ord
  <2> HIDE DEF u, v, y
  <2>1. \A o \in O : o \in y.ord <=> o \in Join(u, v).ord
    BY <1>8
  <2> HIDE DEF O
  <2> QED BY <1>6, <1>9, <2>1, Zenon
<1>11. y = [d |-> y.d, w |-> y.w, has |-> y.has, ord |-> y.ord]
  BY DEF View
<1> HIDE DEF u, v, y
<1>12. Join(u, v) = [d |-> u.d + v.d, w |-> u.w + v.w, has |-> u.has \cup v.has, ord |-> Join(u, v).ord]
  BY DEF Join
<1>13. y = Join(u, v)
  BY <1>1, <1>4, <1>10, <1>11, <1>12
<1> QED BY <1>13 DEF u, v, y

(* The view of the channel of one frame.                                   *)
LEMMA ViewOne ==
    ASSUME NEW f \in Frames, NEW s
    PROVE  View(<<f>>, s) = FrameView(f, s)
<1> DEFINE v == View(<<f>>, s)
           y == FrameView(f, s)
<1>1. \A t : Has(<<f>>, t, s) <=> Is(f, t, s)
  BY DEF Has
<1>2. EOFLast(<<f>>, s) /\ OpenOnce(<<f>>, s)
  BY DEF EOFLast, OpenOnce
<1>3. OpenedFirst(<<f>>, s) <=> ~Is(f, "DATA", s) /\ ~Is(f, "EOF", s)
  BY DEF OpenedFirst
<1>4. v.d = y.d /\ v.w = y.w
  BY CarriedOne DEF View, FrameView, NoFrames
<1>5. v.has = y.has
  BY <1>1 DEF View, FrameView, NoFrames, Is
<1>6. v.ord = y.ord
  BY <1>2, <1>3 DEF View, FrameView, NoFrames, Is
<1>7. /\ v = [d |-> v.d, w |-> v.w, has |-> v.has, ord |-> v.ord]
      /\ y = [d |-> y.d, w |-> y.w, has |-> y.has, ord |-> y.ord]
  BY DEF View, FrameView, NoFrames
<1> HIDE DEF v, y
<1>8. v = y
  BY <1>4, <1>5, <1>6, <1>7
<1> QED BY <1>8 DEF v, y

(* The view of an empty channel.                                           *)
LEMMA ViewNone ==
    ASSUME NEW s
    PROVE  View(<<>>, s) = NoFrames
<1>1. /\ \A t : ~Has(<<>>, t, s)
      /\ EOFLast(<<>>, s) /\ OpenOnce(<<>>, s) /\ OpenedFirst(<<>>, s)
  BY DEF Has, EOFLast, OpenOnce, OpenedFirst
<1>2. {t \in {"OPEN", "OPENED", "DATA", "EOF"} : Has(<<>>, t, s)} = {}
  BY <1>1
<1>3. {o \in {"last", "first", "once"} :
                \/ o = "last" /\ EOFLast(<<>>, s)
                \/ o = "first" /\ OpenedFirst(<<>>, s)
                \/ o = "once" /\ OpenOnce(<<>>, s)} = {"last", "first", "once"}
  BY <1>1
<1> QED BY <1>2, <1>3, CarriedNone DEF View, NoFrames

(* A part without frames of the stream changes no view.                    *)
LEMMA JoinNone ==
    ASSUME NEW u \in ViewType
    PROVE  Join(u, NoFrames) = u /\ Join(NoFrames, u) = u
<1>1. /\ u.d \in Nat /\ u.w \in Nat /\ u.ord \subseteq {"last", "first", "once"}
      /\ u = [d |-> u.d, w |-> u.w, has |-> u.has, ord |-> u.ord]
  BY DEF ViewType
<1>2. /\ NoFrames.d = 0 /\ NoFrames.w = 0 /\ NoFrames.has = {}
      /\ NoFrames.ord = {"last", "first", "once"}
  BY DEF NoFrames
<1> HIDE DEF NoFrames
<1>3. Join(u, NoFrames) = u
  <2>1. Join(u, NoFrames).ord = u.ord
    BY <1>1, <1>2 DEF Join
  <2>2. u.d + NoFrames.d = u.d /\ u.w + NoFrames.w = u.w /\ u.has \cup NoFrames.has = u.has
    BY <1>1, <1>2
  <2> QED BY <1>1, <2>1, <2>2 DEF Join
<1>4. Join(NoFrames, u) = u
  <2>1. Join(NoFrames, u).ord = u.ord
    BY <1>1, <1>2 DEF Join
  <2>2. NoFrames.d + u.d = u.d /\ NoFrames.w + u.w = u.w /\ NoFrames.has \cup u.has = u.has
    BY <1>1, <1>2
  <2> QED BY <1>1, <2>1, <2>2 DEF Join
<1> QED BY <1>3, <1>4

(* A frame is put at the end of a channel, or taken from its head.         *)
LEMMA ViewAppend ==
    ASSUME NEW c \in Seq(Frames), NEW f \in Frames, NEW s
    PROVE  /\ View(c \o <<f>>, s) = Join(View(c, s), FrameView(f, s))
           /\ c \o <<f>> = Append(c, f)
<1>1. <<f>> \in Seq(Frames) /\ c \o <<f>> = Append(c, f)
  OBVIOUS
<1>2. View(c \o <<f>>, s) = Join(View(c, s), View(<<f>>, s))
  BY <1>1, ViewConcat
<1> QED BY <1>1, <1>2, ViewOne

(* The view of a channel from its head and its tail.                       *)
LEMMA ViewHead ==
    ASSUME NEW c \in Seq(Frames), c # <<>>, NEW s
    PROVE  View(c, s) = Join(FrameView(Head(c), s), View(Tail(c), s))
<1>1. Head(c) \in Frames /\ <<Head(c)>> \in Seq(Frames) /\ Tail(c) \in Seq(Frames)
  OBVIOUS
<1>2. c = <<Head(c)>> \o Tail(c)
  OBVIOUS
<1>3. View(<<Head(c)>> \o Tail(c), s) = Join(View(<<Head(c)>>, s), View(Tail(c), s))
  BY <1>1, ViewConcat
<1> QED BY <1>1, <1>2, <1>3, ViewOne

(* Frames without interest for s, at either end, leave its view alone.     *)
LEMMA ViewOthers ==
    ASSUME NEW c \in Seq(Frames), NEW s
    PROVE  /\ \A f \in Frames : (f.id # s \/ f.type \in {"RST", "OPEN_FAIL"}) =>
                    View(c \o <<f>>, s) = View(c, s)
           /\ (c # <<>> /\ (Head(c).id # s \/ Head(c).type \in {"RST", "OPEN_FAIL"})) =>
                    View(Tail(c), s) = View(c, s)
<1>1. \A f : (f.id # s \/ f.type \in {"RST", "OPEN_FAIL"}) => FrameView(f, s) = NoFrames
  <2> SUFFICES ASSUME NEW f, f.id = s, f.type \in {"RST", "OPEN_FAIL"}
               PROVE  FrameView(f, s) = NoFrames
    BY DEF FrameView
  <2>1. {f.type} \cap {"OPEN", "OPENED", "DATA", "EOF"} = {}
    OBVIOUS
  <2> QED BY <2>1 DEF FrameView, NoFrames
<1>2. View(c, s) \in ViewType
  BY ViewOK
<1>3. ASSUME NEW f \in Frames, f.id # s \/ f.type \in {"RST", "OPEN_FAIL"}
      PROVE  View(c \o <<f>>, s) = View(c, s)
  <2>1. FrameView(f, s) = NoFrames
    BY <1>1, <1>3
  <2> QED BY <1>2, <2>1, ViewAppend, JoinNone
<1>4. ASSUME c # <<>>, Head(c).id # s \/ Head(c).type \in {"RST", "OPEN_FAIL"}
      PROVE  View(Tail(c), s) = View(c, s)
  <2>1. FrameView(Head(c), s) = NoFrames
    BY <1>1, <1>4
  <2>2. Tail(c) \in Seq(Frames)
    BY <1>4
  <2>3. View(Tail(c), s) \in ViewType
    BY <2>2, ViewOK
  <2> QED BY <1>4, <2>1, <2>3, ViewHead, JoinNone
<1> QED BY <1>3, <1>4

-----------------------------------------------------------------------------
(* How a view changes when frame f of its stream is sent or taken.         *)

Seen(v) == v \in ViewType /\ (v.d = 0 <=> "DATA" \notin v.has)

Sent(v, t, n, y) ==
    /\ y.d = v.d + (IF t = "DATA" THEN n ELSE 0)
    /\ y.w = v.w + (IF t = "WINDOW" THEN n ELSE 0)
    /\ \A u \in {"OPEN", "OPENED", "DATA", "EOF"} : u \in y.has <=> u \in v.has \/ u = t
    /\ "last" \in y.ord <=> "last" \in v.ord /\ ("EOF" \in v.has => t \notin {"DATA", "EOF"})
    /\ "first" \in y.ord <=> "first" \in v.ord /\ (t \in {"DATA", "EOF"} => "OPENED" \in v.has)
    /\ "once" \in y.ord <=> "once" \in v.ord /\ ("OPEN" \in v.has => t # "OPEN")

Taken(v, t, n, y) ==
    /\ v.d = y.d + (IF t = "DATA" THEN n ELSE 0)
    /\ v.w = y.w + (IF t = "WINDOW" THEN n ELSE 0)
    /\ \A u \in {"OPEN", "OPENED", "DATA", "EOF"} : u \in v.has <=> u \in y.has \/ u = t
    /\ "last" \in v.ord <=> "last" \in y.ord /\ (t = "EOF" => "DATA" \notin y.has /\ "EOF" \notin y.has)
    /\ "first" \in v.ord <=> t \notin {"DATA", "EOF"} /\ ("first" \in y.ord \/ t = "OPENED")
    /\ "once" \in v.ord <=> "once" \in y.ord /\ (t = "OPEN" => "OPEN" \notin y.has)

(* Every channel has a view that can be seen.                              *)
LEMMA ViewSeen ==
    ASSUME NEW c \in Seq(Frames), NEW s
    PROVE  Seen(View(c, s))
BY ViewOK DEF Seen

(* The parts of a join.                                                    *)
LEMMA JoinHas ==
    ASSUME NEW u, NEW v
    PROVE  /\ Join(u, v).d = u.d + v.d /\ Join(u, v).w = u.w + v.w
           /\ \A t : t \in Join(u, v).has <=> t \in u.has \/ t \in v.has
           /\ "last" \in Join(u, v).ord <=>
                /\ "last" \in u.ord /\ "last" \in v.ord
                /\ "EOF" \in u.has => "DATA" \notin v.has /\ "EOF" \notin v.has
           /\ "first" \in Join(u, v).ord <=>
                "first" \in u.ord /\ ("first" \in v.ord \/ "OPENED" \in u.has)
           /\ "once" \in Join(u, v).ord <=>
                "once" \in u.ord /\ "once" \in v.ord /\ ("OPEN" \in u.has => "OPEN" \notin v.has)
<1>1. v.has \cap {"DATA", "EOF"} = {} <=> "DATA" \notin v.has /\ "EOF" \notin v.has
  OBVIOUS
<1> QED BY <1>1 DEF Join

(* The parts of the view of one frame.                                     *)
LEMMA FrameViewHas ==
    ASSUME NEW f \in Frames
    PROVE  LET v == FrameView(f, f.id) IN
           /\ v.d = (IF f.type = "DATA" THEN f.n ELSE 0)
           /\ v.w = (IF f.type = "WINDOW" THEN f.n ELSE 0)
           /\ \A t \in {"OPEN", "OPENED", "DATA", "EOF"} : t \in v.has <=> t = f.type
           /\ "last" \in v.ord /\ "once" \in v.ord
           /\ "first" \in v.ord <=> f.type \notin {"DATA", "EOF"}
BY DEF FrameView

(* Sending a frame changes the view of its stream by that frame.           *)
LEMMA ViewSent ==
    ASSUME NEW c \in Seq(Frames), NEW f \in Frames
    PROVE  Sent(View(c, f.id), f.type, f.n, View(c \o <<f>>, f.id))
<1> DEFINE v == View(c, f.id)
           u == FrameView(f, f.id)
<1>1. View(c \o <<f>>, f.id) = Join(v, u)
  BY ViewAppend
<1>2. v.d \in Nat /\ v.w \in Nat
  BY ViewOK DEF ViewType
<1>3. /\ u.d = (IF f.type = "DATA" THEN f.n ELSE 0)
      /\ u.w = (IF f.type = "WINDOW" THEN f.n ELSE 0)
      /\ \A t \in {"OPEN", "OPENED", "DATA", "EOF"} : t \in u.has <=> t = f.type
      /\ "last" \in u.ord /\ "once" \in u.ord
      /\ "first" \in u.ord <=> f.type \notin {"DATA", "EOF"}
  BY FrameViewHas
<1> HIDE DEF v, u
<1>4. Sent(v, f.type, f.n, Join(v, u))
  <2>1. Join(v, u).d = v.d + u.d /\ Join(v, u).w = v.w + u.w
    BY JoinHas
  <2>2. \A t : t \in Join(v, u).has <=> t \in v.has \/ t \in u.has
    BY JoinHas
  <2>3. /\ "last" \in Join(v, u).ord <=>
                /\ "last" \in v.ord /\ "last" \in u.ord
                /\ "EOF" \in v.has => "DATA" \notin u.has /\ "EOF" \notin u.has
        /\ "first" \in Join(v, u).ord <=>
                "first" \in v.ord /\ ("first" \in u.ord \/ "OPENED" \in v.has)
        /\ "once" \in Join(v, u).ord <=>
                "once" \in v.ord /\ "once" \in u.ord /\ ("OPEN" \in v.has => "OPEN" \notin u.has)
    BY JoinHas
  <2> QED BY <1>2, <1>3, <2>1, <2>2, <2>3 DEF Sent
<1> QED BY <1>1, <1>4 DEF v

(* Taking the head changes the view of its stream by that frame.           *)
LEMMA ViewTaken ==
    ASSUME NEW c \in Seq(Frames), c # <<>>
    PROVE  LET f == Head(c) IN Taken(View(c, f.id), f.type, f.n, View(Tail(c), f.id))
<1> DEFINE f == Head(c)
           v == View(Tail(c), f.id)
           u == FrameView(f, f.id)
<1>1. f \in Frames /\ Tail(c) \in Seq(Frames)
  OBVIOUS
<1>2. View(c, f.id) = Join(u, v)
  BY ViewHead
<1>3. v.d \in Nat /\ v.w \in Nat
  BY <1>1, ViewOK DEF ViewType
<1>4. f.n \in Nat
  BY <1>1, FrameFields
<1>5. /\ u.d = (IF f.type = "DATA" THEN f.n ELSE 0)
      /\ u.w = (IF f.type = "WINDOW" THEN f.n ELSE 0)
      /\ \A t \in {"OPEN", "OPENED", "DATA", "EOF"} : t \in u.has <=> t = f.type
      /\ "last" \in u.ord /\ "once" \in u.ord
      /\ "first" \in u.ord <=> f.type \notin {"DATA", "EOF"}
  BY <1>1, FrameViewHas
<1> HIDE DEF v, u, f
<1>6. Taken(Join(u, v), f.type, f.n, v)
  <2>1. Join(u, v).d = u.d + v.d /\ Join(u, v).w = u.w + v.w
    BY JoinHas
  <2>2. \A t : t \in Join(u, v).has <=> t \in u.has \/ t \in v.has
    BY JoinHas
  <2>3. /\ "last" \in Join(u, v).ord <=>
                /\ "last" \in u.ord /\ "last" \in v.ord
                /\ "EOF" \in u.has => "DATA" \notin v.has /\ "EOF" \notin v.has
        /\ "first" \in Join(u, v).ord <=>
                "first" \in u.ord /\ ("first" \in v.ord \/ "OPENED" \in u.has)
        /\ "once" \in Join(u, v).ord <=>
                "once" \in u.ord /\ "once" \in v.ord /\ ("OPEN" \in u.has => "OPEN" \notin v.has)
    BY JoinHas
  <2> QED BY <1>3, <1>4, <1>5, <2>1, <2>2, <2>3 DEF Taken
<1> QED BY <1>2, <1>6 DEF v, f

-----------------------------------------------------------------------------
(* What one step does to the stream it is about.                           *)

KvmTyped(k) ==
    /\ k.tab \in BOOLEAN /\ k.caller \in {"idle", "await", "use", "gone"}
    /\ k.res \in {"none", "ok", "err"} /\ k.rel \in {"no", "clean", "abort"}
    /\ k.remoteEOF \in BOOLEAN /\ k.localEOF \in BOOLEAN /\ k.eof \in BOOLEAN

KvmNumbers(k) ==
    /\ Sum(k.recvQ) \in Nat
    /\ k.consumed \in Nat /\ k.credit \in Nat /\ k.claim \in Nat /\ k.sending \in Nat
    /\ k.sent \in Nat /\ k.got \in Nat

ExitTyped(x) ==
    /\ x.st \in {"none", "dial", "live", "gone", "failed"}
    /\ x.end \in {"", "clean", "rst", "err"}
    /\ x.remoteEOF \in BOOLEAN /\ x.localEOF \in BOOLEAN /\ x.shut \in BOOLEAN

ExitNumbers(x) ==
    /\ Sum(x.queue) \in Nat
    /\ x.consumed \in Nat /\ x.credit \in Nat /\ x.claim \in Nat /\ x.sending \in Nat
    /\ x.read \in Nat /\ x.put \in Nat

ViewNumbers(v) == v.d \in Nat /\ v.w \in Nat

(* The fields of the kvm's record of a stream.                             *)
LEMMA KvmFields ==
    ASSUME NEW k \in KvmStream
    PROVE  KvmTyped(k) /\ KvmNumbers(k) /\ k.recvQ \in Sizes /\ k.recvQ \in Items
<1>1. k.recvQ \in Sizes
  BY DEF KvmStream
<1>2. k.recvQ \in Items
  BY <1>1, SeqMonotonic DEF Sizes, Items
<1>3. Sum(k.recvQ) \in Nat
  BY <1>2, SeqFinite DEF Items
<1> QED BY <1>1, <1>2, <1>3 DEF KvmStream, KvmTyped, KvmNumbers

(* The fields of the exit's record of a stream.                            *)
LEMMA ExitFields ==
    ASSUME NEW x \in ExitStream
    PROVE  ExitTyped(x) /\ ExitNumbers(x) /\ x.queue \in Items
<1>1. x.queue \in Items
  BY DEF ExitStream
<1>2. Sum(x.queue) \in Nat
  BY <1>1, SeqFinite DEF Items
<1> QED BY <1>1, <1>2 DEF ExitStream, ExitTyped, ExitNumbers

(* The fields of a view.                                                   *)
LEMMA ViewFields ==
    ASSUME NEW v, Seen(v)
    PROVE  ViewNumbers(v) /\ (v.d = 0 <=> "DATA" \notin v.has)
BY DEF Seen, ViewType, ViewNumbers

(* The parts of the stream's invariant, with the types of all its fields.  *)
LEMMA StreamParts ==
    ASSUME NEW k, NEW x, NEW s, NEW next, NEW h, NEW a, NEW b,
           Seen(a), Seen(b), StreamOK(k, x, s, next, h, a, b)
    PROVE  /\ k \in KvmStream /\ x \in ExitStream
           /\ Opening(k, x, s, next, h, a, b) /\ DownEOF(k, x, h, b) /\ UpEOF(k, x, a)
           /\ StreamBytes(k, x, h, a, b) /\ StreamCredit(k, x, h, a, b)
           /\ KvmTyped(k) /\ ExitTyped(x)
           /\ KvmNumbers(k) /\ ExitNumbers(x) /\ ViewNumbers(a) /\ ViewNumbers(b)
           /\ k.recvQ \in Sizes /\ k.recvQ \in Items /\ x.queue \in Items
<1>1. k \in KvmStream /\ x \in ExitStream
  BY DEF StreamOK
<1>2. /\ KvmTyped(k) /\ ExitTyped(x)
      /\ KvmNumbers(k) /\ ExitNumbers(x) /\ ViewNumbers(a) /\ ViewNumbers(b)
  BY <1>1, KvmFields, ExitFields, ViewFields
<1>3. k.recvQ \in Sizes /\ k.recvQ \in Items /\ x.queue \in Items
  BY <1>1, KvmFields, ExitFields
<1> QED BY <1>1, <1>2, <1>3 DEF StreamOK

(* The exit's DATA leaves.                                                 *)
LEMMA PumpSendStep ==
    ASSUME NEW k, NEW x, NEW s \in Streams, NEW next \in Nat, NEW h \in Nat, NEW a, NEW b,
           Seen(a), Seen(b), StreamOK(k, x, s, next, h, a, b),
           x.sending > 0,
           NEW b2, Seen(b2), Sent(b, "DATA", x.sending, b2)
    PROVE  StreamOK(k, [x EXCEPT !.sending = 0], s, next, h, a, b2)
<1> DEFINE y == [x EXCEPT !.sending = 0]
<1>1. k \in KvmStream /\ x \in ExitStream
  BY StreamParts
<1>2. /\ Opening(k, x, s, next, h, a, b) /\ DownEOF(k, x, h, b) /\ UpEOF(k, x, a)
      /\ StreamBytes(k, x, h, a, b) /\ StreamCredit(k, x, h, a, b)
  BY StreamParts
<1>3. KvmTyped(k) /\ ExitTyped(x) /\ KvmNumbers(k) /\ ExitNumbers(x)
  BY StreamParts
<1>4. ViewNumbers(a) /\ ViewNumbers(b) /\ ViewNumbers(b2)
  BY ViewFields
<1>5. k.recvQ \in Sizes /\ k.recvQ \in Items /\ x.queue \in Items
  BY StreamParts
<1>6. x.sending # 0
  BY <1>3 DEF ExitNumbers
<1>7. x.st \in {"live", "gone"}
  BY <1>2, <1>3, <1>6 DEF Opening, FreshExit, ExitTyped
<1>8. s < next
  BY <1>2, <1>7 DEF Opening, Streams
<1>9. ~x.localEOF
  BY <1>2, <1>6 DEF DownEOF
<1>10. y \in ExitStream
  BY <1>1, <1>2, <1>3, <1>4, <1>6, <1>7, <1>8, <1>9, <1>5 DEF ExitStream, KvmTyped, ExitTyped, KvmNumbers, ExitNumbers
<1>11. /\ y.st = x.st /\ y.end = x.end /\ y.remoteEOF = x.remoteEOF
      /\ y.localEOF = x.localEOF /\ y.queue = x.queue /\ y.consumed = x.consumed
      /\ y.credit = x.credit /\ y.claim = x.claim /\ y.sending = 0 /\ y.read = x.read /\ y.put = x.put
      /\ y.shut = x.shut
  BY <1>1 DEF ExitStream
<1> HIDE DEF y
<1>12. Opening(k, y, s, next, h, a, b2)
  BY <1>2, <1>3, <1>4, <1>6, <1>7, <1>8, <1>9, <1>11 DEF Opening, Sent, Streams, KvmTyped, ExitTyped, ViewNumbers
<1>13. DownEOF(k, y, h, b2)
  BY <1>2, <1>3, <1>4, <1>6, <1>7, <1>8, <1>9, <1>11 DEF DownEOF, Sent, KvmTyped, ExitTyped, ViewNumbers
<1>14. UpEOF(k, y, a)
  BY <1>2, <1>3, <1>4, <1>6, <1>7, <1>8, <1>9, <1>11 DEF UpEOF, Sent, KvmTyped, ExitTyped, ViewNumbers
<1>15. StreamBytes(k, y, h, a, b2)
  BY <1>2, <1>3, <1>4, <1>6, <1>7, <1>8, <1>9, <1>11 DEF StreamBytes, Sent, KvmNumbers, ExitNumbers, ViewNumbers
<1>16. StreamCredit(k, y, h, a, b2)
  BY <1>2, <1>3, <1>4, <1>6, <1>7, <1>8, <1>9, <1>11 DEF StreamCredit, Sent, KvmNumbers, ExitNumbers, ViewNumbers
<1> QED BY <1>1, <1>10, <1>12, <1>13, <1>14, <1>15, <1>16 DEF StreamOK, y

(* A stream is opened: it was fresh.                                       *)
LEMMA OpenStep ==
    ASSUME NEW k, NEW x, NEW s \in Streams, NEW next \in Nat, NEW h \in Nat, NEW a, NEW b,
           Seen(a), Seen(b), StreamOK(k, x, s, next, h, a, b),
           s = next,
           NEW a2, Seen(a2), Sent(a, "OPEN", 0, a2)
    PROVE  StreamOK([k EXCEPT !.tab = TRUE, !.caller = "await"], x, s, next + 1, h, a2, b)
<1> DEFINE u == [k EXCEPT !.tab = TRUE, !.caller = "await"]
<1>1. k \in KvmStream /\ x \in ExitStream
  BY StreamParts
<1>2. /\ Opening(k, x, s, next, h, a, b) /\ DownEOF(k, x, h, b) /\ UpEOF(k, x, a)
      /\ StreamBytes(k, x, h, a, b) /\ StreamCredit(k, x, h, a, b)
  BY StreamParts
<1>3. KvmTyped(k) /\ ExitTyped(x) /\ KvmNumbers(k) /\ ExitNumbers(x)
  BY StreamParts
<1>4. ViewNumbers(a) /\ ViewNumbers(b) /\ ViewNumbers(a2)
  BY ViewFields
<1>5. k.recvQ \in Sizes /\ k.recvQ \in Items /\ x.queue \in Items
  BY StreamParts
<1>6. FreshKvm(k) /\ x.st = "none" /\ NothingOf(a) /\ NothingOf(b) /\ h = 0
  BY <1>2 DEF Opening
<1>7. FreshExit(x)
  BY <1>2, <1>6 DEF Opening
<1>8. Sum(k.recvQ) = 0 /\ Sum(x.queue) = 0 /\ StreamWindow \in Nat
  BY <1>6, <1>7, SumEmpty, NexitAssumption DEF FreshKvm, FreshExit
<1>9. u \in KvmStream
  BY <1>1, <1>2, <1>3, <1>4, <1>6, <1>7, <1>8, <1>5 DEF KvmStream, KvmTyped, ExitTyped, KvmNumbers, ExitNumbers
<1>10. /\ u.tab = TRUE /\ u.caller = "await" /\ u.res = k.res /\ u.rel = k.rel
      /\ u.remoteEOF = k.remoteEOF /\ u.localEOF = k.localEOF /\ u.recvQ = k.recvQ
      /\ u.consumed = k.consumed /\ u.credit = k.credit /\ u.claim = k.claim /\ u.sending = k.sending
      /\ u.sent = k.sent /\ u.got = k.got /\ u.eof = k.eof
  BY <1>1 DEF KvmStream
<1> HIDE DEF u
<1>11. Opening(u, x, s, next + 1, h, a2, b)
  <2>1. /\ "OPENED" \notin b.has /\ "EOF" \notin b.has /\ "first" \in b.ord /\ b.d = 0 /\ b.w = 0
        /\ "DATA" \notin a2.has /\ "EOF" \notin a2.has /\ "once" \in a2.ord
    BY <1>6 DEF NothingOf, Sent
  <2>2. /\ u.tab /\ u.rel = "no" /\ u.res = "none" /\ u.caller = "await"
        /\ u.claim = 0 /\ u.sending = 0 /\ ~u.localEOF
    BY <1>6, <1>10 DEF FreshKvm
  <2> QED BY <1>6, <1>7, <2>1, <2>2 DEF Opening, Streams
<1>12. DownEOF(u, x, h, b)
  BY <1>2, <1>3, <1>4, <1>6, <1>7, <1>8, <1>10 DEF DownEOF, Sent, FreshKvm, FreshExit, NothingOf, KvmTyped, ExitTyped, ViewNumbers
<1>13. UpEOF(u, x, a2)
  BY <1>2, <1>3, <1>4, <1>6, <1>7, <1>8, <1>10 DEF UpEOF, Sent, FreshKvm, FreshExit, NothingOf, KvmTyped, ExitTyped, ViewNumbers
<1>14. StreamBytes(u, x, h, a2, b)
  BY <1>2, <1>3, <1>4, <1>6, <1>7, <1>8, <1>10 DEF StreamBytes, Sent, FreshKvm, FreshExit, NothingOf, KvmNumbers, ExitNumbers, ViewNumbers
<1>15. StreamCredit(u, x, h, a2, b)
  BY <1>2, <1>3, <1>4, <1>6, <1>7, <1>8, <1>10 DEF StreamCredit, Sent, FreshKvm, FreshExit, NothingOf, KvmNumbers, ExitNumbers, ViewNumbers
<1> QED BY <1>1, <1>9, <1>11, <1>12, <1>13, <1>14, <1>15 DEF StreamOK, u

(* hev's opener sees OPENED.                                               *)
LEMMA AwaitStep ==
    ASSUME NEW k, NEW x, NEW s \in Streams, NEW next \in Nat, NEW h \in Nat, NEW a, NEW b,
           Seen(a), Seen(b), StreamOK(k, x, s, next, h, a, b),
           k.caller = "await",
           k.res = "ok"
    PROVE  StreamOK([k EXCEPT !.caller = "use"], x, s, next, h, a, b)
<1> DEFINE u == [k EXCEPT !.caller = "use"]
<1>1. k \in KvmStream /\ x \in ExitStream
  BY StreamParts
<1>2. /\ Opening(k, x, s, next, h, a, b) /\ DownEOF(k, x, h, b) /\ UpEOF(k, x, a)
      /\ StreamBytes(k, x, h, a, b) /\ StreamCredit(k, x, h, a, b)
  BY StreamParts
<1>3. KvmTyped(k) /\ ExitTyped(x) /\ KvmNumbers(k) /\ ExitNumbers(x)
  BY StreamParts
<1>4. ViewNumbers(a) /\ ViewNumbers(b)
  BY ViewFields
<1>5. k.recvQ \in Sizes /\ k.recvQ \in Items /\ x.queue \in Items
  BY StreamParts
<1>6. s < next
  BY <1>2, <1>3 DEF Opening, FreshKvm, Streams
<1>7. u \in KvmStream
  BY <1>1, <1>2, <1>3, <1>4, <1>6, <1>5 DEF KvmStream, KvmTyped, ExitTyped, KvmNumbers, ExitNumbers
<1>8. /\ u.tab = k.tab /\ u.caller = "use" /\ u.res = k.res /\ u.rel = k.rel
      /\ u.remoteEOF = k.remoteEOF /\ u.localEOF = k.localEOF /\ u.recvQ = k.recvQ
      /\ u.consumed = k.consumed /\ u.credit = k.credit /\ u.claim = k.claim /\ u.sending = k.sending
      /\ u.sent = k.sent /\ u.got = k.got /\ u.eof = k.eof
  BY <1>1 DEF KvmStream
<1> HIDE DEF u
<1>9. Opening(u, x, s, next, h, a, b)
  BY <1>2, <1>3, <1>4, <1>6, <1>8 DEF Opening, Streams, KvmTyped, ExitTyped, ViewNumbers
<1>10. DownEOF(u, x, h, b)
  BY <1>2, <1>3, <1>4, <1>6, <1>8 DEF DownEOF, KvmTyped, ExitTyped, ViewNumbers
<1>11. UpEOF(u, x, a)
  BY <1>2, <1>3, <1>4, <1>6, <1>8 DEF UpEOF, KvmTyped, ExitTyped, ViewNumbers
<1>12. StreamBytes(u, x, h, a, b)
  BY <1>2, <1>3, <1>4, <1>6, <1>8 DEF StreamBytes, KvmNumbers, ExitNumbers, ViewNumbers
<1>13. StreamCredit(u, x, h, a, b)
  BY <1>2, <1>3, <1>4, <1>6, <1>8 DEF StreamCredit, KvmNumbers, ExitNumbers, ViewNumbers
<1> QED BY <1>1, <1>7, <1>9, <1>10, <1>11, <1>12, <1>13 DEF StreamOK, u

(* hev's writer takes m bytes of the stream's credit.                      *)
LEMMA WriteClaimStep ==
    ASSUME NEW k, NEW x, NEW s \in Streams, NEW next \in Nat, NEW h \in Nat, NEW a, NEW b,
           Seen(a), Seen(b), StreamOK(k, x, s, next, h, a, b),
           NEW m \in Nat, m > 0, m <= k.credit,
           k.caller = "use", k.rel = "no", ~k.localEOF, k.claim = 0, k.sending = 0
    PROVE  StreamOK([k EXCEPT !.credit = k.credit - m, !.claim = m],
                    x, s, next, h, a, b)
<1> DEFINE u == [k EXCEPT !.credit = k.credit - m, !.claim = m]
<1>1. k \in KvmStream /\ x \in ExitStream
  BY StreamParts
<1>2. /\ Opening(k, x, s, next, h, a, b) /\ DownEOF(k, x, h, b) /\ UpEOF(k, x, a)
      /\ StreamBytes(k, x, h, a, b) /\ StreamCredit(k, x, h, a, b)
  BY StreamParts
<1>3. KvmTyped(k) /\ ExitTyped(x) /\ KvmNumbers(k) /\ ExitNumbers(x)
  BY StreamParts
<1>4. ViewNumbers(a) /\ ViewNumbers(b)
  BY ViewFields
<1>5. k.recvQ \in Sizes /\ k.recvQ \in Items /\ x.queue \in Items
  BY StreamParts
<1>6. s < next /\ k.res = "ok" /\ ~x.shut
  BY <1>2, <1>3 DEF Opening, UpEOF, FreshKvm, Streams
<1>7. k.credit - m \in Nat
  BY <1>3 DEF KvmNumbers
<1>8. u \in KvmStream
  BY <1>1, <1>2, <1>3, <1>4, <1>6, <1>7, <1>5 DEF KvmStream, KvmTyped, ExitTyped, KvmNumbers, ExitNumbers
<1>9. /\ u.tab = k.tab /\ u.caller = k.caller /\ u.res = k.res /\ u.rel = k.rel
      /\ u.remoteEOF = k.remoteEOF /\ u.localEOF = k.localEOF /\ u.recvQ = k.recvQ
      /\ u.consumed = k.consumed /\ u.credit = k.credit - m /\ u.claim = m /\ u.sending = k.sending
      /\ u.sent = k.sent /\ u.got = k.got /\ u.eof = k.eof
  BY <1>1 DEF KvmStream
<1> HIDE DEF u
<1>10. Opening(u, x, s, next, h, a, b)
  BY <1>2, <1>3, <1>4, <1>6, <1>7, <1>9 DEF Opening, Streams, KvmTyped, KvmNumbers, ExitTyped, ViewNumbers
<1>11. DownEOF(u, x, h, b)
  BY <1>2, <1>3, <1>4, <1>6, <1>7, <1>9 DEF DownEOF, KvmTyped, ExitTyped, ViewNumbers
<1>12. UpEOF(u, x, a)
  BY <1>2, <1>3, <1>4, <1>6, <1>7, <1>9 DEF UpEOF, KvmTyped, KvmNumbers, ExitTyped, ViewNumbers
<1>13. StreamBytes(u, x, h, a, b)
  BY <1>2, <1>3, <1>4, <1>6, <1>7, <1>9 DEF StreamBytes, KvmNumbers, ExitNumbers, ViewNumbers
<1>14. StreamCredit(u, x, h, a, b)
  BY <1>2, <1>3, <1>4, <1>6, <1>7, <1>9 DEF StreamCredit, KvmNumbers, ExitNumbers, ViewNumbers
<1> QED BY <1>1, <1>8, <1>10, <1>11, <1>12, <1>13, <1>14 DEF StreamOK, u

(* hev's writer takes m bytes of the connection's credit, and the rest of   *)
(* its claim returns to the stream, unless that was released.              *)
LEMMA WriteTakeStep ==
    ASSUME NEW k, NEW x, NEW s \in Streams, NEW next \in Nat, NEW h \in Nat, NEW a, NEW b,
           Seen(a), Seen(b), StreamOK(k, x, s, next, h, a, b),
           NEW m \in Nat, m > 0, m <= k.claim, NEW c \in Nat,
           k.rel = "no" => c = k.credit + (k.claim - m)
    PROVE  StreamOK([k EXCEPT !.credit = c, !.claim = 0, !.sending = m, !.sent = k.sent + m],
                    x, s, next, h, a, b)
<1> DEFINE u == [k EXCEPT !.credit = c, !.claim = 0, !.sending = m, !.sent = k.sent + m]
<1>1. k \in KvmStream /\ x \in ExitStream
  BY StreamParts
<1>2. /\ Opening(k, x, s, next, h, a, b) /\ DownEOF(k, x, h, b) /\ UpEOF(k, x, a)
      /\ StreamBytes(k, x, h, a, b) /\ StreamCredit(k, x, h, a, b)
  BY StreamParts
<1>3. KvmTyped(k) /\ ExitTyped(x) /\ KvmNumbers(k) /\ ExitNumbers(x)
  BY StreamParts
<1>4. ViewNumbers(a) /\ ViewNumbers(b)
  BY ViewFields
<1>5. k.recvQ \in Sizes /\ k.recvQ \in Items /\ x.queue \in Items
  BY StreamParts
<1>6. s < next /\ k.res = "ok" /\ ~k.localEOF /\ ~x.shut /\ k.sending = 0
  BY <1>2, <1>3 DEF Opening, UpEOF, StreamBytes, FreshKvm, KvmTyped, KvmNumbers, Streams
<1>7. k.sent + m \in Nat /\ (k.tab => c + m = k.credit + k.claim)
  <2>1. k.tab => k.rel = "no"
    BY <1>2 DEF Opening
  <2>2. k.rel = "no" => c + m = k.credit + k.claim
    BY <1>3 DEF KvmNumbers
  <2> QED BY <1>3, <2>1, <2>2 DEF KvmNumbers
<1>8. u \in KvmStream
  BY <1>1, <1>2, <1>3, <1>4, <1>6, <1>7, <1>5 DEF KvmStream, KvmTyped, ExitTyped, KvmNumbers, ExitNumbers
<1>9. /\ u.tab = k.tab /\ u.caller = k.caller /\ u.res = k.res /\ u.rel = k.rel
      /\ u.remoteEOF = k.remoteEOF /\ u.localEOF = k.localEOF /\ u.recvQ = k.recvQ
      /\ u.consumed = k.consumed /\ u.credit = c /\ u.claim = 0 /\ u.sending = m
      /\ u.sent = k.sent + m /\ u.got = k.got /\ u.eof = k.eof
  BY <1>1 DEF KvmStream
<1> HIDE DEF u
<1>10. Opening(u, x, s, next, h, a, b)
  BY <1>2, <1>3, <1>4, <1>6, <1>7, <1>9 DEF Opening, Streams, KvmTyped, KvmNumbers, ExitTyped, ViewNumbers
<1>11. DownEOF(u, x, h, b)
  BY <1>2, <1>3, <1>4, <1>6, <1>7, <1>9 DEF DownEOF, KvmTyped, ExitTyped, ViewNumbers
<1>12. UpEOF(u, x, a)
  BY <1>2, <1>3, <1>4, <1>6, <1>7, <1>9 DEF UpEOF, KvmTyped, KvmNumbers, ExitTyped, ViewNumbers
<1>13. StreamBytes(u, x, h, a, b)
  BY <1>2, <1>3, <1>4, <1>6, <1>7, <1>9 DEF StreamBytes, KvmNumbers, ExitNumbers, ViewNumbers
<1>14. StreamCredit(u, x, h, a, b)
  <2>1. k.tab => u.credit + u.claim + u.sending = k.credit + k.claim + k.sending
    BY <1>3, <1>6, <1>7, <1>9 DEF KvmNumbers
  <2>2. u.tab = k.tab /\ u.recvQ = k.recvQ /\ u.consumed = k.consumed
    BY <1>9
  <2> QED BY <1>2, <2>1, <2>2 DEF StreamCredit
<1> QED BY <1>1, <1>8, <1>10, <1>11, <1>12, <1>13, <1>14 DEF StreamOK, u

(* hev's writer gives up its claim on a released stream.                   *)
LEMMA WriteGivesUpStep ==
    ASSUME NEW k, NEW x, NEW s \in Streams, NEW next \in Nat, NEW h \in Nat, NEW a, NEW b,
           Seen(a), Seen(b), StreamOK(k, x, s, next, h, a, b),
           k.claim > 0, k.rel # "no"
    PROVE  StreamOK([k EXCEPT !.claim = 0],
                    x, s, next, h, a, b)
<1> DEFINE u == [k EXCEPT !.claim = 0]
<1>1. k \in KvmStream /\ x \in ExitStream
  BY StreamParts
<1>2. /\ Opening(k, x, s, next, h, a, b) /\ DownEOF(k, x, h, b) /\ UpEOF(k, x, a)
      /\ StreamBytes(k, x, h, a, b) /\ StreamCredit(k, x, h, a, b)
  BY StreamParts
<1>3. KvmTyped(k) /\ ExitTyped(x) /\ KvmNumbers(k) /\ ExitNumbers(x)
  BY StreamParts
<1>4. ViewNumbers(a) /\ ViewNumbers(b)
  BY ViewFields
<1>5. k.recvQ \in Sizes /\ k.recvQ \in Items /\ x.queue \in Items
  BY StreamParts
<1>6. s < next /\ k.res = "ok"
  BY <1>2, <1>3 DEF Opening, FreshKvm, KvmNumbers, Streams
<1>7. ~k.tab
  BY <1>2, <1>3 DEF Opening, KvmTyped
<1>8. u \in KvmStream
  BY <1>1, <1>2, <1>3, <1>4, <1>6, <1>7, <1>5 DEF KvmStream, KvmTyped, ExitTyped, KvmNumbers, ExitNumbers
<1>9. /\ u.tab = k.tab /\ u.caller = k.caller /\ u.res = k.res /\ u.rel = k.rel
      /\ u.remoteEOF = k.remoteEOF /\ u.localEOF = k.localEOF /\ u.recvQ = k.recvQ
      /\ u.consumed = k.consumed /\ u.credit = k.credit /\ u.claim = 0 /\ u.sending = k.sending
      /\ u.sent = k.sent /\ u.got = k.got /\ u.eof = k.eof
  BY <1>1 DEF KvmStream
<1> HIDE DEF u
<1>10. Opening(u, x, s, next, h, a, b)
  BY <1>2, <1>3, <1>4, <1>6, <1>7, <1>9 DEF Opening, Streams, KvmTyped, KvmNumbers, ExitTyped, ViewNumbers
<1>11. DownEOF(u, x, h, b)
  BY <1>2, <1>3, <1>4, <1>6, <1>7, <1>9 DEF DownEOF, KvmTyped, ExitTyped, ViewNumbers
<1>12. UpEOF(u, x, a)
  BY <1>2, <1>3, <1>4, <1>6, <1>7, <1>9 DEF UpEOF, KvmTyped, KvmNumbers, ExitTyped, ViewNumbers
<1>13. StreamBytes(u, x, h, a, b)
  BY <1>2, <1>3, <1>4, <1>6, <1>7, <1>9 DEF StreamBytes, KvmNumbers, ExitNumbers, ViewNumbers
<1>14. StreamCredit(u, x, h, a, b)
  BY <1>2, <1>3, <1>4, <1>6, <1>7, <1>9 DEF StreamCredit, KvmNumbers, ExitNumbers, ViewNumbers
<1> QED BY <1>1, <1>8, <1>10, <1>11, <1>12, <1>13, <1>14 DEF StreamOK, u

(* hev's DATA leaves.                                                      *)
LEMMA WriteSendStep ==
    ASSUME NEW k, NEW x, NEW s \in Streams, NEW next \in Nat, NEW h \in Nat, NEW a, NEW b,
           Seen(a), Seen(b), StreamOK(k, x, s, next, h, a, b),
           k.sending > 0,
           NEW a2, Seen(a2), Sent(a, "DATA", k.sending, a2)
    PROVE  StreamOK([k EXCEPT !.sending = 0], x, s, next, h, a2, b)
<1> DEFINE u == [k EXCEPT !.sending = 0]
<1>1. k \in KvmStream /\ x \in ExitStream
  BY StreamParts
<1>2. /\ Opening(k, x, s, next, h, a, b) /\ DownEOF(k, x, h, b) /\ UpEOF(k, x, a)
      /\ StreamBytes(k, x, h, a, b) /\ StreamCredit(k, x, h, a, b)
  BY StreamParts
<1>3. KvmTyped(k) /\ ExitTyped(x) /\ KvmNumbers(k) /\ ExitNumbers(x)
  BY StreamParts
<1>4. ViewNumbers(a) /\ ViewNumbers(b) /\ ViewNumbers(a2)
  BY ViewFields
<1>5. k.recvQ \in Sizes /\ k.recvQ \in Items /\ x.queue \in Items
  BY StreamParts
<1>6. s < next /\ k.res = "ok" /\ ~k.localEOF /\ ~x.remoteEOF
  BY <1>2, <1>3 DEF Opening, UpEOF, FreshKvm, KvmTyped, KvmNumbers, Streams
<1>7. u \in KvmStream
  BY <1>1, <1>2, <1>3, <1>4, <1>6, <1>5 DEF KvmStream, KvmTyped, ExitTyped, KvmNumbers, ExitNumbers
<1>8. /\ u.tab = k.tab /\ u.caller = k.caller /\ u.res = k.res /\ u.rel = k.rel
      /\ u.remoteEOF = k.remoteEOF /\ u.localEOF = k.localEOF /\ u.recvQ = k.recvQ
      /\ u.consumed = k.consumed /\ u.credit = k.credit /\ u.claim = k.claim /\ u.sending = 0
      /\ u.sent = k.sent /\ u.got = k.got /\ u.eof = k.eof
  BY <1>1 DEF KvmStream
<1> HIDE DEF u
<1>9. Opening(u, x, s, next, h, a2, b)
  BY <1>2, <1>3, <1>4, <1>6, <1>8 DEF Opening, Sent, Streams, KvmTyped, ExitTyped, ViewNumbers
<1>10. DownEOF(u, x, h, b)
  BY <1>2, <1>3, <1>4, <1>6, <1>8 DEF DownEOF, Sent, KvmTyped, ExitTyped, ViewNumbers
<1>11. UpEOF(u, x, a2)
  BY <1>2, <1>3, <1>4, <1>6, <1>8 DEF UpEOF, Sent, KvmTyped, ExitTyped, ViewNumbers
<1>12. StreamBytes(u, x, h, a2, b)
  BY <1>2, <1>3, <1>4, <1>6, <1>8 DEF StreamBytes, Sent, KvmNumbers, ExitNumbers, ViewNumbers
<1>13. StreamCredit(u, x, h, a2, b)
  BY <1>2, <1>3, <1>4, <1>6, <1>8 DEF StreamCredit, Sent, KvmNumbers, ExitNumbers, ViewNumbers
<1> QED BY <1>1, <1>7, <1>9, <1>10, <1>11, <1>12, <1>13 DEF StreamOK, u

(* hev closes its side: EOF leaves.                                        *)
LEMMA CloseWriteStep ==
    ASSUME NEW k, NEW x, NEW s \in Streams, NEW next \in Nat, NEW h \in Nat, NEW a, NEW b,
           Seen(a), Seen(b), StreamOK(k, x, s, next, h, a, b),
           k.caller = "use", k.rel = "no", ~k.localEOF, k.claim = 0, k.sending = 0,
           NEW a2, Seen(a2), Sent(a, "EOF", 0, a2)
    PROVE  StreamOK([k EXCEPT !.localEOF = TRUE], x, s, next, h, a2, b)
<1> DEFINE u == [k EXCEPT !.localEOF = TRUE]
<1>1. k \in KvmStream /\ x \in ExitStream
  BY StreamParts
<1>2. /\ Opening(k, x, s, next, h, a, b) /\ DownEOF(k, x, h, b) /\ UpEOF(k, x, a)
      /\ StreamBytes(k, x, h, a, b) /\ StreamCredit(k, x, h, a, b)
  BY StreamParts
<1>3. KvmTyped(k) /\ ExitTyped(x) /\ KvmNumbers(k) /\ ExitNumbers(x)
  BY StreamParts
<1>4. ViewNumbers(a) /\ ViewNumbers(b) /\ ViewNumbers(a2)
  BY ViewFields
<1>5. k.recvQ \in Sizes /\ k.recvQ \in Items /\ x.queue \in Items
  BY StreamParts
<1>6. s < next /\ k.res = "ok" /\ ~x.remoteEOF /\ "EOF" \notin a.has
  BY <1>2, <1>3 DEF Opening, UpEOF, FreshKvm, Streams
<1>7. u \in KvmStream
  BY <1>1, <1>2, <1>3, <1>4, <1>6, <1>5 DEF KvmStream, KvmTyped, ExitTyped, KvmNumbers, ExitNumbers
<1>8. /\ u.tab = k.tab /\ u.caller = k.caller /\ u.res = k.res /\ u.rel = k.rel
      /\ u.remoteEOF = k.remoteEOF /\ u.localEOF = TRUE /\ u.recvQ = k.recvQ
      /\ u.consumed = k.consumed /\ u.credit = k.credit /\ u.claim = k.claim /\ u.sending = k.sending
      /\ u.sent = k.sent /\ u.got = k.got /\ u.eof = k.eof
  BY <1>1 DEF KvmStream
<1> HIDE DEF u
<1>9. Opening(u, x, s, next, h, a2, b)
  BY <1>2, <1>3, <1>4, <1>6, <1>8 DEF Opening, Sent, Streams, KvmTyped, ExitTyped, ViewNumbers
<1>10. DownEOF(u, x, h, b)
  BY <1>2, <1>3, <1>4, <1>6, <1>8 DEF DownEOF, Sent, KvmTyped, ExitTyped, ViewNumbers
<1>11. UpEOF(u, x, a2)
  BY <1>2, <1>3, <1>4, <1>6, <1>8 DEF UpEOF, Sent, KvmTyped, ExitTyped, ViewNumbers
<1>12. StreamBytes(u, x, h, a2, b)
  BY <1>2, <1>3, <1>4, <1>6, <1>8 DEF StreamBytes, Sent, KvmNumbers, ExitNumbers, ViewNumbers
<1>13. StreamCredit(u, x, h, a2, b)
  BY <1>2, <1>3, <1>4, <1>6, <1>8 DEF StreamCredit, Sent, KvmNumbers, ExitNumbers, ViewNumbers
<1> QED BY <1>1, <1>7, <1>9, <1>10, <1>11, <1>12, <1>13 DEF StreamOK, u

Aborted(k, c, r, q) ==
    [k EXCEPT !.tab = FALSE, !.caller = c, !.res = r, !.rel = q, !.recvQ = <<>>, !.credit = 0]
AbortTo(k, c, r, q) ==
    /\ k.caller # "idle" /\ c \in {k.caller, "gone"}
    /\ r = k.res \/ (k.res = "none" /\ r = "err")
    /\ k.tab \/ c = "gone"
    /\ q = (IF k.rel # "no" THEN k.rel ELSE "abort")

(* The kvm releases the stream with an error: what was queued is dropped,  *)
(* and whoever opened it may be told.                                      *)
LEMMA AbortStep ==
    ASSUME NEW k, NEW x, NEW s \in Streams, NEW next \in Nat, NEW h \in Nat, NEW a, NEW b,
           Seen(a), Seen(b), StreamOK(k, x, s, next, h, a, b),
           NEW r, NEW c, NEW q, AbortTo(k, c, r, q)
    PROVE  StreamOK(Aborted(k, c, r, q), x, s, next, h, a, b)
<1> DEFINE u == Aborted(k, c, r, q)
<1> USE DEF AbortTo, Aborted
<1>1. k \in KvmStream /\ x \in ExitStream
  BY StreamParts
<1>2. /\ Opening(k, x, s, next, h, a, b) /\ DownEOF(k, x, h, b) /\ UpEOF(k, x, a)
      /\ StreamBytes(k, x, h, a, b) /\ StreamCredit(k, x, h, a, b)
  BY StreamParts
<1>3. KvmTyped(k) /\ ExitTyped(x) /\ KvmNumbers(k) /\ ExitNumbers(x)
  BY StreamParts
<1>4. ViewNumbers(a) /\ ViewNumbers(b)
  BY ViewFields
<1>5. k.recvQ \in Sizes /\ k.recvQ \in Items /\ x.queue \in Items
  BY StreamParts
<1>6. s < next
  BY <1>2, <1>3 DEF Opening, FreshKvm, Streams
<1>7. q \in {"no", "clean", "abort"} /\ q # "no" /\ (q = "clean" => k.rel = "clean") /\ (k.rel = "no" => q = "abort")
  BY <1>3 DEF KvmTyped
<1>8. r \in {"none", "ok", "err"} /\ c \in {"idle", "await", "use", "gone"} /\ <<>> \in Sizes /\ FALSE \in BOOLEAN
  BY <1>3 DEF KvmTyped, Sizes
<1>9. k.tab => k.rel = "no"
  BY <1>2 DEF Opening
<1>10. (r = "ok" <=> k.res = "ok") /\ (c = "use" => k.caller = "use") /\ c # "idle"
  BY <1>3 DEF KvmTyped
<1>11. u \in KvmStream
  BY <1>1, <1>2, <1>3, <1>4, <1>6, <1>7, <1>8, <1>9, <1>10, <1>5 DEF KvmStream, KvmTyped, ExitTyped, KvmNumbers, ExitNumbers
<1>12. /\ u.tab = FALSE /\ u.caller = c /\ u.res = r /\ u.rel = q
      /\ u.remoteEOF = k.remoteEOF /\ u.localEOF = k.localEOF /\ u.recvQ = <<>>
      /\ u.consumed = k.consumed /\ u.credit = 0 /\ u.claim = k.claim /\ u.sending = k.sending
      /\ u.sent = k.sent /\ u.got = k.got /\ u.eof = k.eof
  BY <1>1 DEF KvmStream
<1> HIDE DEF u
<1>13. Opening(u, x, s, next, h, a, b)
  <2>1. ~u.tab /\ u.rel # "no" /\ u.caller # "idle" /\ (u.res = "ok" <=> k.res = "ok")
    BY <1>7, <1>10, <1>12
  <2>2. (u.caller = "use" \/ u.claim > 0 \/ u.sending > 0 \/ u.localEOF) => k.res = "ok"
    BY <1>2, <1>10, <1>12 DEF Opening
  <2> HIDE DEF u
  <2> QED BY <1>2, <1>6, <2>1, <2>2 DEF Opening, Streams
<1>14. DownEOF(u, x, h, b)
  BY <1>2, <1>3, <1>4, <1>6, <1>7, <1>8, <1>9, <1>10, <1>12 DEF DownEOF, KvmTyped, ExitTyped, ViewNumbers
<1>15. UpEOF(u, x, a)
  BY <1>2, <1>3, <1>4, <1>6, <1>7, <1>8, <1>9, <1>10, <1>12 DEF UpEOF, KvmTyped, ExitTyped, ViewNumbers
<1>16. StreamBytes(u, x, h, a, b)
  BY <1>2, <1>3, <1>4, <1>6, <1>7, <1>8, <1>9, <1>10, <1>12 DEF StreamBytes, KvmNumbers, ExitNumbers, ViewNumbers
<1>17. StreamCredit(u, x, h, a, b)
  BY <1>2, <1>3, <1>4, <1>6, <1>7, <1>8, <1>9, <1>10, <1>12 DEF StreamCredit, KvmNumbers, ExitNumbers, ViewNumbers
<1> QED BY <1>1, <1>11, <1>13, <1>14, <1>15, <1>16, <1>17 DEF StreamOK, u

(* The kvm releases the stream after both EOFs: hev may still read what is *)
(* queued.                                                                 *)
LEMMA CleanStep ==
    ASSUME NEW k, NEW x, NEW s \in Streams, NEW next \in Nat, NEW h \in Nat, NEW a, NEW b,
           Seen(a), Seen(b), StreamOK(k, x, s, next, h, a, b),
           k.tab, k.remoteEOF, k.localEOF
    PROVE  StreamOK([k EXCEPT !.tab = FALSE, !.rel = "clean", !.credit = 0], x, s, next, h, a, b)
<1> DEFINE u == [k EXCEPT !.tab = FALSE, !.rel = "clean", !.credit = 0]
<1>1. k \in KvmStream /\ x \in ExitStream
  BY StreamParts
<1>2. /\ Opening(k, x, s, next, h, a, b) /\ DownEOF(k, x, h, b) /\ UpEOF(k, x, a)
      /\ StreamBytes(k, x, h, a, b) /\ StreamCredit(k, x, h, a, b)
  BY StreamParts
<1>3. KvmTyped(k) /\ ExitTyped(x) /\ KvmNumbers(k) /\ ExitNumbers(x)
  BY StreamParts
<1>4. ViewNumbers(a) /\ ViewNumbers(b)
  BY ViewFields
<1>5. k.recvQ \in Sizes /\ k.recvQ \in Items /\ x.queue \in Items
  BY StreamParts
<1>6. s < next
  BY <1>2, <1>3 DEF Opening, Streams
<1>7. FALSE \in BOOLEAN
  OBVIOUS
<1>8. k.rel = "no"
  BY <1>2 DEF Opening
<1>9. u \in KvmStream
  BY <1>1, <1>2, <1>3, <1>4, <1>6, <1>7, <1>8, <1>5 DEF KvmStream, KvmTyped, ExitTyped, KvmNumbers, ExitNumbers
<1>10. /\ u.tab = FALSE /\ u.caller = k.caller /\ u.res = k.res /\ u.rel = "clean"
      /\ u.remoteEOF = k.remoteEOF /\ u.localEOF = k.localEOF /\ u.recvQ = k.recvQ
      /\ u.consumed = k.consumed /\ u.credit = 0 /\ u.claim = k.claim /\ u.sending = k.sending
      /\ u.sent = k.sent /\ u.got = k.got /\ u.eof = k.eof
  BY <1>1 DEF KvmStream
<1> HIDE DEF u
<1>11. Opening(u, x, s, next, h, a, b)
  BY <1>2, <1>3, <1>4, <1>6, <1>7, <1>8, <1>10 DEF Opening, Streams, KvmTyped, ExitTyped, ViewNumbers
<1>12. DownEOF(u, x, h, b)
  BY <1>2, <1>3, <1>4, <1>6, <1>7, <1>8, <1>10 DEF DownEOF, KvmTyped, ExitTyped, ViewNumbers
<1>13. UpEOF(u, x, a)
  BY <1>2, <1>3, <1>4, <1>6, <1>7, <1>8, <1>10 DEF UpEOF, KvmTyped, ExitTyped, ViewNumbers
<1>14. StreamBytes(u, x, h, a, b)
  BY <1>2, <1>3, <1>4, <1>6, <1>7, <1>8, <1>10 DEF StreamBytes, KvmNumbers, ExitNumbers, ViewNumbers
<1>15. StreamCredit(u, x, h, a, b)
  BY <1>2, <1>3, <1>4, <1>6, <1>7, <1>8, <1>10 DEF StreamCredit, KvmNumbers, ExitNumbers, ViewNumbers
<1> QED BY <1>1, <1>9, <1>11, <1>12, <1>13, <1>14, <1>15 DEF StreamOK, u

(* hev sees the end of file.                                               *)
LEMMA ReadEOFStep ==
    ASSUME NEW k, NEW x, NEW s \in Streams, NEW next \in Nat, NEW h \in Nat, NEW a, NEW b,
           Seen(a), Seen(b), StreamOK(k, x, s, next, h, a, b),
           k.caller = "use", k.recvQ = <<>>,
           k.rel = "clean" \/ (k.rel = "no" /\ k.remoteEOF)
    PROVE  StreamOK([k EXCEPT !.eof = TRUE], x, s, next, h, a, b)
<1> DEFINE u == [k EXCEPT !.eof = TRUE]
<1>1. k \in KvmStream /\ x \in ExitStream
  BY StreamParts
<1>2. /\ Opening(k, x, s, next, h, a, b) /\ DownEOF(k, x, h, b) /\ UpEOF(k, x, a)
      /\ StreamBytes(k, x, h, a, b) /\ StreamCredit(k, x, h, a, b)
  BY StreamParts
<1>3. KvmTyped(k) /\ ExitTyped(x) /\ KvmNumbers(k) /\ ExitNumbers(x)
  BY StreamParts
<1>4. ViewNumbers(a) /\ ViewNumbers(b)
  BY ViewFields
<1>5. k.recvQ \in Sizes /\ k.recvQ \in Items /\ x.queue \in Items
  BY StreamParts
<1>6. s < next
  BY <1>2, <1>3 DEF Opening, FreshKvm, Streams
<1>7. TRUE \in BOOLEAN
  OBVIOUS
<1>8. k.remoteEOF /\ x.localEOF /\ x.claim = 0 /\ x.sending = 0 /\ b.d = 0 /\ h = 0
  BY <1>2 DEF DownEOF
<1>9. Sum(k.recvQ) = 0
  BY SumEmpty
<1>10. k.got = x.read
  BY <1>2, <1>3, <1>8, <1>9 DEF StreamBytes, KvmNumbers
<1>11. u \in KvmStream
  BY <1>1, <1>2, <1>3, <1>4, <1>6, <1>7, <1>8, <1>9, <1>10, <1>5 DEF KvmStream, KvmTyped, ExitTyped, KvmNumbers, ExitNumbers
<1>12. /\ u.tab = k.tab /\ u.caller = k.caller /\ u.res = k.res /\ u.rel = k.rel
      /\ u.remoteEOF = k.remoteEOF /\ u.localEOF = k.localEOF /\ u.recvQ = k.recvQ
      /\ u.consumed = k.consumed /\ u.credit = k.credit /\ u.claim = k.claim /\ u.sending = k.sending
      /\ u.sent = k.sent /\ u.got = k.got /\ u.eof = TRUE
  BY <1>1 DEF KvmStream
<1> HIDE DEF u
<1>13. Opening(u, x, s, next, h, a, b)
  BY <1>2, <1>3, <1>4, <1>6, <1>7, <1>8, <1>9, <1>10, <1>12 DEF Opening, Streams, KvmTyped, ExitTyped, ViewNumbers
<1>14. DownEOF(u, x, h, b)
  BY <1>2, <1>3, <1>4, <1>6, <1>7, <1>8, <1>9, <1>10, <1>12 DEF DownEOF, KvmTyped, ExitTyped, ViewNumbers
<1>15. UpEOF(u, x, a)
  BY <1>2, <1>3, <1>4, <1>6, <1>7, <1>8, <1>9, <1>10, <1>12 DEF UpEOF, KvmTyped, ExitTyped, ViewNumbers
<1>16. StreamBytes(u, x, h, a, b)
  BY <1>2, <1>3, <1>4, <1>6, <1>7, <1>8, <1>9, <1>10, <1>12 DEF StreamBytes, KvmNumbers, ExitNumbers, ViewNumbers
<1>17. StreamCredit(u, x, h, a, b)
  BY <1>2, <1>3, <1>4, <1>6, <1>7, <1>8, <1>9, <1>10, <1>12 DEF StreamCredit, KvmNumbers, ExitNumbers, ViewNumbers
<1> QED BY <1>1, <1>11, <1>13, <1>14, <1>15, <1>16, <1>17 DEF StreamOK, u

(* WINDOW for the stream reaches the kvm.                                  *)
LEMMA CreditStep ==
    ASSUME NEW k, NEW x, NEW s \in Streams, NEW next \in Nat, NEW h \in Nat, NEW a, NEW b,
           Seen(a), Seen(b), StreamOK(k, x, s, next, h, a, b),
           k.tab,
           NEW n \in Nat \ {0},
           NEW b2, Seen(b2), Taken(b, "WINDOW", n, b2)
    PROVE  StreamOK([k EXCEPT !.credit = k.credit + n], x, s, next, h, a, b2)
<1> DEFINE u == [k EXCEPT !.credit = k.credit + n]
<1>1. k \in KvmStream /\ x \in ExitStream
  BY StreamParts
<1>2. /\ Opening(k, x, s, next, h, a, b) /\ DownEOF(k, x, h, b) /\ UpEOF(k, x, a)
      /\ StreamBytes(k, x, h, a, b) /\ StreamCredit(k, x, h, a, b)
  BY StreamParts
<1>3. KvmTyped(k) /\ ExitTyped(x) /\ KvmNumbers(k) /\ ExitNumbers(x)
  BY StreamParts
<1>4. ViewNumbers(a) /\ ViewNumbers(b) /\ ViewNumbers(b2)
  BY ViewFields
<1>5. k.recvQ \in Sizes /\ k.recvQ \in Items /\ x.queue \in Items
  BY StreamParts
<1>6. s < next
  BY <1>2, <1>3 DEF Opening, Streams
<1>7. k.credit + n \in Nat
  BY <1>3 DEF KvmNumbers
<1>8. b.w # 0
  BY <1>4 DEF Taken, ViewNumbers
<1>9. x.st \in {"live", "gone"}
  BY <1>2, <1>3, <1>8 DEF Opening, ExitTyped
<1>10. b2.d = b.d /\ ("EOF" \in b2.has <=> "EOF" \in b.has) /\ "last" \in b2.ord
  BY <1>2, <1>4 DEF Taken, ViewNumbers, DownEOF
<1>11. u \in KvmStream
  BY <1>1, <1>2, <1>3, <1>4, <1>6, <1>7, <1>8, <1>9, <1>10, <1>5 DEF KvmStream, KvmTyped, ExitTyped, KvmNumbers, ExitNumbers
<1>12. /\ u.tab = k.tab /\ u.caller = k.caller /\ u.res = k.res /\ u.rel = k.rel
      /\ u.remoteEOF = k.remoteEOF /\ u.localEOF = k.localEOF /\ u.recvQ = k.recvQ
      /\ u.consumed = k.consumed /\ u.credit = k.credit + n /\ u.claim = k.claim /\ u.sending = k.sending
      /\ u.sent = k.sent /\ u.got = k.got /\ u.eof = k.eof
  BY <1>1 DEF KvmStream
<1> HIDE DEF u
<1>13. Opening(u, x, s, next, h, a, b2)
  BY <1>2, <1>3, <1>4, <1>6, <1>7, <1>8, <1>9, <1>10, <1>12 DEF Opening, Taken, Streams, KvmTyped, ExitTyped, ViewNumbers
<1>14. DownEOF(u, x, h, b2)
  BY <1>2, <1>3, <1>4, <1>6, <1>7, <1>8, <1>9, <1>10, <1>12 DEF DownEOF, KvmTyped, ExitTyped
<1>15. UpEOF(u, x, a)
  BY <1>2, <1>3, <1>4, <1>6, <1>7, <1>8, <1>9, <1>10, <1>12 DEF UpEOF, Taken, KvmTyped, ExitTyped, ViewNumbers
<1>16. StreamBytes(u, x, h, a, b2)
  BY <1>2, <1>3, <1>4, <1>6, <1>7, <1>8, <1>9, <1>10, <1>12 DEF StreamBytes, Taken, KvmNumbers, ExitNumbers, ViewNumbers
<1>17. StreamCredit(u, x, h, a, b2)
  BY <1>2, <1>3, <1>4, <1>6, <1>7, <1>8, <1>9, <1>10, <1>12 DEF StreamCredit, Taken, KvmNumbers, ExitNumbers, ViewNumbers
<1> QED BY <1>1, <1>11, <1>13, <1>14, <1>15, <1>16, <1>17 DEF StreamOK, u

(* WINDOW for a released stream reaches the kvm.                           *)
LEMMA LateCreditStep ==
    ASSUME NEW k, NEW x, NEW s \in Streams, NEW next \in Nat, NEW h \in Nat, NEW a, NEW b,
           Seen(a), Seen(b), StreamOK(k, x, s, next, h, a, b),
           ~k.tab,
           NEW n \in Nat \ {0},
           NEW b2, Seen(b2), Taken(b, "WINDOW", n, b2)
    PROVE  StreamOK(k, x, s, next, h, a, b2)
<1>1. k \in KvmStream /\ x \in ExitStream
  BY StreamParts
<1>2. /\ Opening(k, x, s, next, h, a, b) /\ DownEOF(k, x, h, b) /\ UpEOF(k, x, a)
      /\ StreamBytes(k, x, h, a, b) /\ StreamCredit(k, x, h, a, b)
  BY StreamParts
<1>3. KvmTyped(k) /\ ExitTyped(x) /\ KvmNumbers(k) /\ ExitNumbers(x)
  BY StreamParts
<1>4. ViewNumbers(a) /\ ViewNumbers(b) /\ ViewNumbers(b2)
  BY ViewFields
<1>5. k.recvQ \in Sizes /\ k.recvQ \in Items /\ x.queue \in Items
  BY StreamParts
<1>6. b.w # 0
  BY <1>4 DEF Taken, ViewNumbers
<1>7. s < next
  BY <1>2, <1>6 DEF Opening, NothingOf, Streams
<1>8. b2.d = b.d /\ ("EOF" \in b2.has <=> "EOF" \in b.has) /\ "last" \in b2.ord
  BY <1>2, <1>4 DEF Taken, ViewNumbers, DownEOF
<1>9. Opening(k, x, s, next, h, a, b2)
  BY <1>2, <1>3, <1>4, <1>6, <1>7, <1>8 DEF Opening, Taken, Streams, KvmTyped, ExitTyped, ViewNumbers
<1>10. DownEOF(k, x, h, b2)
  BY <1>2, <1>3, <1>4, <1>6, <1>7, <1>8 DEF DownEOF, KvmTyped, ExitTyped
<1>11. UpEOF(k, x, a)
  BY <1>2, <1>3, <1>4, <1>6, <1>7, <1>8 DEF UpEOF, Taken, KvmTyped, ExitTyped, ViewNumbers
<1>12. StreamBytes(k, x, h, a, b2)
  BY <1>2, <1>3, <1>4, <1>6, <1>7, <1>8 DEF StreamBytes, Taken, KvmNumbers, ExitNumbers, ViewNumbers
<1>13. StreamCredit(k, x, h, a, b2)
  BY <1>2, <1>3, <1>4, <1>6, <1>7, <1>8 DEF StreamCredit, Taken, KvmNumbers, ExitNumbers, ViewNumbers
<1> QED BY <1>1, <1>9, <1>10, <1>11, <1>12, <1>13 DEF StreamOK

(* OPENED reaches the kvm.                                                 *)
LEMMA OpenedStep ==
    ASSUME NEW k, NEW x, NEW s \in Streams, NEW next \in Nat, NEW h \in Nat, NEW a, NEW b,
           Seen(a), Seen(b), StreamOK(k, x, s, next, h, a, b),
           k.tab,
           NEW b2, Seen(b2), Taken(b, "OPENED", 0, b2)
    PROVE  StreamOK([k EXCEPT !.res = "ok"], x, s, next, h, a, b2)
<1> DEFINE u == [k EXCEPT !.res = "ok"]
<1>1. k \in KvmStream /\ x \in ExitStream
  BY StreamParts
<1>2. /\ Opening(k, x, s, next, h, a, b) /\ DownEOF(k, x, h, b) /\ UpEOF(k, x, a)
      /\ StreamBytes(k, x, h, a, b) /\ StreamCredit(k, x, h, a, b)
  BY StreamParts
<1>3. KvmTyped(k) /\ ExitTyped(x) /\ KvmNumbers(k) /\ ExitNumbers(x)
  BY StreamParts
<1>4. ViewNumbers(a) /\ ViewNumbers(b) /\ ViewNumbers(b2)
  BY ViewFields
<1>5. k.recvQ \in Sizes /\ k.recvQ \in Items /\ x.queue \in Items
  BY StreamParts
<1>6. "OPENED" \in b.has
  BY DEF Taken
<1>7. s < next
  BY <1>2, <1>3 DEF Opening, Streams
<1>8. x.st \in {"live", "gone"}
  BY <1>2, <1>6 DEF Opening
<1>9. b2.d = b.d /\ ("EOF" \in b2.has <=> "EOF" \in b.has) /\ "last" \in b2.ord
  BY <1>2, <1>4 DEF Taken, ViewNumbers, DownEOF
<1>10. u \in KvmStream
  BY <1>1, <1>2, <1>3, <1>4, <1>6, <1>7, <1>8, <1>9, <1>5 DEF KvmStream, KvmTyped, ExitTyped, KvmNumbers, ExitNumbers
<1>11. /\ u.tab = k.tab /\ u.caller = k.caller /\ u.res = "ok" /\ u.rel = k.rel
      /\ u.remoteEOF = k.remoteEOF /\ u.localEOF = k.localEOF /\ u.recvQ = k.recvQ
      /\ u.consumed = k.consumed /\ u.credit = k.credit /\ u.claim = k.claim /\ u.sending = k.sending
      /\ u.sent = k.sent /\ u.got = k.got /\ u.eof = k.eof
  BY <1>1 DEF KvmStream
<1> HIDE DEF u
<1>12. Opening(u, x, s, next, h, a, b2)
  BY <1>2, <1>3, <1>4, <1>6, <1>7, <1>8, <1>9, <1>11 DEF Opening, Taken, Streams, KvmTyped, ExitTyped, ViewNumbers
<1>13. DownEOF(u, x, h, b2)
  BY <1>2, <1>3, <1>4, <1>6, <1>7, <1>8, <1>9, <1>11 DEF DownEOF, KvmTyped, ExitTyped
<1>14. UpEOF(u, x, a)
  BY <1>2, <1>3, <1>4, <1>6, <1>7, <1>8, <1>9, <1>11 DEF UpEOF, Taken, KvmTyped, ExitTyped, ViewNumbers
<1>15. StreamBytes(u, x, h, a, b2)
  BY <1>2, <1>3, <1>4, <1>6, <1>7, <1>8, <1>9, <1>11 DEF StreamBytes, Taken, KvmNumbers, ExitNumbers, ViewNumbers
<1>16. StreamCredit(u, x, h, a, b2)
  BY <1>2, <1>3, <1>4, <1>6, <1>7, <1>8, <1>9, <1>11 DEF StreamCredit, Taken, KvmNumbers, ExitNumbers, ViewNumbers
<1> QED BY <1>1, <1>10, <1>12, <1>13, <1>14, <1>15, <1>16 DEF StreamOK, u

(* OPENED for a released stream reaches the kvm.                           *)
LEMMA LateOpenedStep ==
    ASSUME NEW k, NEW x, NEW s \in Streams, NEW next \in Nat, NEW h \in Nat, NEW a, NEW b,
           Seen(a), Seen(b), StreamOK(k, x, s, next, h, a, b),
           ~k.tab,
           NEW b2, Seen(b2), Taken(b, "OPENED", 0, b2)
    PROVE  StreamOK(k, x, s, next, h, a, b2)
<1>1. k \in KvmStream /\ x \in ExitStream
  BY StreamParts
<1>2. /\ Opening(k, x, s, next, h, a, b) /\ DownEOF(k, x, h, b) /\ UpEOF(k, x, a)
      /\ StreamBytes(k, x, h, a, b) /\ StreamCredit(k, x, h, a, b)
  BY StreamParts
<1>3. KvmTyped(k) /\ ExitTyped(x) /\ KvmNumbers(k) /\ ExitNumbers(x)
  BY StreamParts
<1>4. ViewNumbers(a) /\ ViewNumbers(b) /\ ViewNumbers(b2)
  BY ViewFields
<1>5. k.recvQ \in Sizes /\ k.recvQ \in Items /\ x.queue \in Items
  BY StreamParts
<1>6. "OPENED" \in b.has
  BY DEF Taken
<1>7. s < next
  BY <1>2, <1>6 DEF Opening, NothingOf, Streams
<1>8. b2.d = b.d /\ ("EOF" \in b2.has <=> "EOF" \in b.has) /\ "last" \in b2.ord
  BY <1>2, <1>4 DEF Taken, ViewNumbers, DownEOF
<1>9. Opening(k, x, s, next, h, a, b2)
  BY <1>2, <1>3, <1>4, <1>6, <1>7, <1>8 DEF Opening, Taken, Streams, KvmTyped, ExitTyped, ViewNumbers
<1>10. DownEOF(k, x, h, b2)
  BY <1>2, <1>3, <1>4, <1>6, <1>7, <1>8 DEF DownEOF, KvmTyped, ExitTyped
<1>11. UpEOF(k, x, a)
  BY <1>2, <1>3, <1>4, <1>6, <1>7, <1>8 DEF UpEOF, Taken, KvmTyped, ExitTyped, ViewNumbers
<1>12. StreamBytes(k, x, h, a, b2)
  BY <1>2, <1>3, <1>4, <1>6, <1>7, <1>8 DEF StreamBytes, Taken, KvmNumbers, ExitNumbers, ViewNumbers
<1>13. StreamCredit(k, x, h, a, b2)
  BY <1>2, <1>3, <1>4, <1>6, <1>7, <1>8 DEF StreamCredit, Taken, KvmNumbers, ExitNumbers, ViewNumbers
<1> QED BY <1>1, <1>9, <1>10, <1>11, <1>12, <1>13 DEF StreamOK

(* DATA and EOF of a stream in the table come after its OPENED.            *)
LEMMA AfterOpened ==
    ASSUME NEW k, NEW x, NEW s \in Streams, NEW next \in Nat, NEW h \in Nat, NEW a, NEW b, NEW b2,
           NEW t \in {"DATA", "EOF"}, NEW n,
           StreamOK(k, x, s, next, h, a, b), k.tab, Taken(b, t, n, b2)
    PROVE  k.res = "ok" /\ s < next
BY DEF StreamOK, Opening, Taken, Streams

(* hev reads n bytes, and q is left of the queue; c bytes are owed then    *)
(* and m are announced.                                                    *)
LEMMA ReadStep ==
    ASSUME NEW k, NEW x, NEW s \in Streams, NEW next \in Nat, NEW h \in Nat, NEW a, NEW b,
           Seen(a), Seen(b), StreamOK(k, x, s, next, h, a, b),
           k.caller = "use", ~k.eof,
           NEW n \in Nat, NEW q \in Sizes, Sum(q) \in Nat, Sum(q) + n = Sum(k.recvQ),
           NEW c \in Nat, NEW m \in Nat, c + m = k.consumed + n,
           NEW a2, Seen(a2), Sent(a, "WINDOW", m, a2)
    PROVE  StreamOK([k EXCEPT !.recvQ = q, !.got = k.got + n, !.consumed = c], x, s, next, h, a2, b)
<1> DEFINE u == [k EXCEPT !.recvQ = q, !.got = k.got + n, !.consumed = c]
<1>1. k \in KvmStream /\ x \in ExitStream
  BY StreamParts
<1>2. /\ Opening(k, x, s, next, h, a, b) /\ DownEOF(k, x, h, b) /\ UpEOF(k, x, a)
      /\ StreamBytes(k, x, h, a, b) /\ StreamCredit(k, x, h, a, b)
  BY StreamParts
<1>3. KvmTyped(k) /\ ExitTyped(x) /\ KvmNumbers(k) /\ ExitNumbers(x)
  BY StreamParts
<1>4. ViewNumbers(a) /\ ViewNumbers(b) /\ ViewNumbers(a2)
  BY ViewFields
<1>5. k.recvQ \in Sizes /\ k.recvQ \in Items /\ x.queue \in Items
  BY StreamParts
<1>6. s < next /\ k.res = "ok"
  BY <1>2, <1>3 DEF Opening, FreshKvm, Streams
<1>7. k.got + n \in Nat
  BY <1>3 DEF KvmNumbers
<1>8. a2.d = a.d /\ a2.w = a.w + m
  BY <1>4 DEF Sent, ViewNumbers
<1>9. u \in KvmStream
  BY <1>1, <1>2, <1>3, <1>4, <1>6, <1>7, <1>8, <1>5 DEF KvmStream, KvmTyped, ExitTyped, KvmNumbers, ExitNumbers
<1>10. /\ u.tab = k.tab /\ u.caller = k.caller /\ u.res = k.res /\ u.rel = k.rel
      /\ u.remoteEOF = k.remoteEOF /\ u.localEOF = k.localEOF /\ u.recvQ = q
      /\ u.consumed = c /\ u.credit = k.credit /\ u.claim = k.claim /\ u.sending = k.sending
      /\ u.sent = k.sent /\ u.got = k.got + n /\ u.eof = k.eof
  BY <1>1 DEF KvmStream
<1> HIDE DEF u
<1>11. Opening(u, x, s, next, h, a2, b)
  BY <1>2, <1>3, <1>4, <1>6, <1>7, <1>8, <1>10 DEF Opening, Sent, Streams, KvmTyped, ExitTyped, ViewNumbers
<1>12. DownEOF(u, x, h, b)
  BY <1>2, <1>3, <1>4, <1>6, <1>7, <1>8, <1>10 DEF DownEOF, Sent, KvmTyped, ExitTyped, ViewNumbers
<1>13. UpEOF(u, x, a2)
  BY <1>2, <1>3, <1>4, <1>6, <1>7, <1>8, <1>10 DEF UpEOF, Sent, KvmTyped, ExitTyped, ViewNumbers
<1>14. StreamBytes(u, x, h, a2, b)
  BY <1>2, <1>3, <1>4, <1>6, <1>7, <1>8, <1>10 DEF StreamBytes, Sent, KvmNumbers, ExitNumbers, ViewNumbers
<1>15. StreamCredit(u, x, h, a2, b)
  <2>1. u.tab = k.tab /\ u.credit = k.credit /\ u.claim = k.claim /\ u.sending = k.sending /\ a2.d = a.d
    BY <1>8, <1>10
  <2>2. Sum(u.recvQ) = Sum(q) /\ u.consumed = c /\ a2.w = a.w + m
    BY <1>8, <1>10
  <2>3. Sum(u.recvQ) + u.consumed + a2.w = Sum(k.recvQ) + k.consumed + a.w
    BY <1>3, <1>4, <2>2 DEF KvmNumbers, ViewNumbers
  <2>4. Sum(u.recvQ) \in Nat /\ u.consumed \in Nat /\ a2.w \in Nat
    BY <1>4, <2>2 DEF ViewNumbers
  <2> HIDE DEF u
  <2> QED BY <1>2, <1>3, <1>4, <2>1, <2>3, <2>4 DEF StreamCredit, KvmNumbers, ExitNumbers, ViewNumbers
<1> QED BY <1>1, <1>9, <1>11, <1>12, <1>13, <1>14, <1>15 DEF StreamOK, u

(* DATA for a stream in the table reaches the kvm's read loop.             *)
LEMMA DataStep ==
    ASSUME NEW k, NEW x, NEW s \in Streams, NEW next \in Nat, NEW h \in Nat, NEW a, NEW b,
           Seen(a), Seen(b), StreamOK(k, x, s, next, h, a, b),
           k.tab, h = 0,
           NEW n \in Nat \ {0},
           NEW b2, Seen(b2), Taken(b, "DATA", n, b2)
    PROVE  StreamOK(k, x, s, next, n, a, b2)
<1>1. k \in KvmStream /\ x \in ExitStream
  BY StreamParts
<1>2. /\ Opening(k, x, s, next, h, a, b) /\ DownEOF(k, x, h, b) /\ UpEOF(k, x, a)
      /\ StreamBytes(k, x, h, a, b) /\ StreamCredit(k, x, h, a, b)
  BY StreamParts
<1>3. KvmTyped(k) /\ ExitTyped(x) /\ KvmNumbers(k) /\ ExitNumbers(x)
  BY StreamParts
<1>4. ViewNumbers(a) /\ ViewNumbers(b) /\ ViewNumbers(b2)
  BY ViewFields
<1>5. k.recvQ \in Sizes /\ k.recvQ \in Items /\ x.queue \in Items
  BY StreamParts
<1>6. s < next /\ k.res = "ok"
  BY AfterOpened
<1>7. b.d = b2.d + n /\ b.w = b2.w /\ b.d # 0
  BY <1>4 DEF Taken, ViewNumbers
<1>8. ~k.remoteEOF
  BY <1>2, <1>7 DEF DownEOF
<1>9. Opening(k, x, s, next, n, a, b2)
  BY <1>2, <1>3, <1>4, <1>6, <1>7, <1>8 DEF Opening, Taken, Streams, KvmTyped, ExitTyped, ViewNumbers
<1>10. DownEOF(k, x, n, b2)
  BY <1>2, <1>3, <1>4, <1>6, <1>7, <1>8 DEF DownEOF, Taken, KvmTyped, ExitTyped, ViewNumbers
<1>11. UpEOF(k, x, a)
  BY <1>2, <1>3, <1>4, <1>6, <1>7, <1>8 DEF UpEOF, Taken, KvmTyped, ExitTyped, ViewNumbers
<1>12. StreamBytes(k, x, n, a, b2)
  BY <1>2, <1>3, <1>4, <1>6, <1>7, <1>8 DEF StreamBytes, Taken, KvmNumbers, ExitNumbers, ViewNumbers
<1>13. StreamCredit(k, x, n, a, b2)
  BY <1>2, <1>3, <1>4, <1>6, <1>7, <1>8 DEF StreamCredit, Taken, KvmNumbers, ExitNumbers, ViewNumbers
<1> QED BY <1>1, <1>9, <1>10, <1>11, <1>12, <1>13 DEF StreamOK

(* DATA for a released stream reaches the kvm's read loop.                 *)
LEMMA LateDataStep ==
    ASSUME NEW k, NEW x, NEW s \in Streams, NEW next \in Nat, NEW h \in Nat, NEW a, NEW b,
           Seen(a), Seen(b), StreamOK(k, x, s, next, h, a, b),
           ~k.tab,
           NEW n \in Nat \ {0},
           NEW b2, Seen(b2), Taken(b, "DATA", n, b2)
    PROVE  StreamOK(k, x, s, next, h, a, b2)
<1>1. k \in KvmStream /\ x \in ExitStream
  BY StreamParts
<1>2. /\ Opening(k, x, s, next, h, a, b) /\ DownEOF(k, x, h, b) /\ UpEOF(k, x, a)
      /\ StreamBytes(k, x, h, a, b) /\ StreamCredit(k, x, h, a, b)
  BY StreamParts
<1>3. KvmTyped(k) /\ ExitTyped(x) /\ KvmNumbers(k) /\ ExitNumbers(x)
  BY StreamParts
<1>4. ViewNumbers(a) /\ ViewNumbers(b) /\ ViewNumbers(b2)
  BY ViewFields
<1>5. k.recvQ \in Sizes /\ k.recvQ \in Items /\ x.queue \in Items
  BY StreamParts
<1>6. b.d = b2.d + n /\ b.w = b2.w /\ b.d # 0
  BY <1>4 DEF Taken, ViewNumbers
<1>7. s < next
  BY <1>2, <1>6 DEF Opening, NothingOf, Streams
<1>8. ~k.remoteEOF
  BY <1>2, <1>6 DEF DownEOF
<1>9. k.rel = "abort"
  BY <1>2, <1>3, <1>7, <1>8 DEF Opening, DownEOF, KvmTyped
<1>10. Opening(k, x, s, next, h, a, b2)
  BY <1>2, <1>3, <1>4, <1>6, <1>7, <1>8, <1>9 DEF Opening, Taken, Streams, KvmTyped, ExitTyped, ViewNumbers
<1>11. DownEOF(k, x, h, b2)
  BY <1>2, <1>3, <1>4, <1>6, <1>7, <1>8, <1>9 DEF DownEOF, Taken, KvmTyped, ExitTyped, ViewNumbers
<1>12. UpEOF(k, x, a)
  BY <1>2, <1>3, <1>4, <1>6, <1>7, <1>8, <1>9 DEF UpEOF, Taken, KvmTyped, ExitTyped, ViewNumbers
<1>13. StreamBytes(k, x, h, a, b2)
  BY <1>2, <1>3, <1>4, <1>6, <1>7, <1>8, <1>9 DEF StreamBytes, Taken, KvmNumbers, ExitNumbers, ViewNumbers
<1>14. StreamCredit(k, x, h, a, b2)
  BY <1>2, <1>3, <1>4, <1>6, <1>7, <1>8, <1>9 DEF StreamCredit, Taken, KvmNumbers, ExitNumbers, ViewNumbers
<1> QED BY <1>1, <1>10, <1>11, <1>12, <1>13, <1>14 DEF StreamOK

(* The DATA in hand is queued.                                             *)
LEMMA EnqueueStep ==
    ASSUME NEW k, NEW x, NEW s \in Streams, NEW next \in Nat, NEW h \in Nat, NEW a, NEW b,
           Seen(a), Seen(b), StreamOK(k, x, s, next, h, a, b),
           k.rel = "no", h > 0,
           NEW q \in Sizes, Sum(q) = Sum(k.recvQ) + h
    PROVE  StreamOK([k EXCEPT !.recvQ = q], x, s, next, 0, a, b)
<1> DEFINE u == [k EXCEPT !.recvQ = q]
<1>1. k \in KvmStream /\ x \in ExitStream
  BY StreamParts
<1>2. /\ Opening(k, x, s, next, h, a, b) /\ DownEOF(k, x, h, b) /\ UpEOF(k, x, a)
      /\ StreamBytes(k, x, h, a, b) /\ StreamCredit(k, x, h, a, b)
  BY StreamParts
<1>3. KvmTyped(k) /\ ExitTyped(x) /\ KvmNumbers(k) /\ ExitNumbers(x)
  BY StreamParts
<1>4. ViewNumbers(a) /\ ViewNumbers(b)
  BY ViewFields
<1>5. k.recvQ \in Sizes /\ k.recvQ \in Items /\ x.queue \in Items
  BY StreamParts
<1>6. h # 0
  OBVIOUS
<1>7. s < next /\ ~k.remoteEOF
  BY <1>2, <1>6 DEF Opening, DownEOF, Streams
<1>8. ~k.eof
  BY <1>2, <1>7 DEF DownEOF
<1>9. u \in KvmStream
  BY <1>1, <1>2, <1>3, <1>4, <1>6, <1>7, <1>8, <1>5 DEF KvmStream, KvmTyped, ExitTyped, KvmNumbers, ExitNumbers
<1>10. /\ u.tab = k.tab /\ u.caller = k.caller /\ u.res = k.res /\ u.rel = k.rel
      /\ u.remoteEOF = k.remoteEOF /\ u.localEOF = k.localEOF /\ u.recvQ = q
      /\ u.consumed = k.consumed /\ u.credit = k.credit /\ u.claim = k.claim /\ u.sending = k.sending
      /\ u.sent = k.sent /\ u.got = k.got /\ u.eof = k.eof
  BY <1>1 DEF KvmStream
<1> HIDE DEF u
<1>11. Opening(u, x, s, next, 0, a, b)
  BY <1>2, <1>3, <1>4, <1>6, <1>7, <1>8, <1>10 DEF Opening, Streams, KvmTyped, ExitTyped, ViewNumbers
<1>12. DownEOF(u, x, 0, b)
  BY <1>2, <1>3, <1>4, <1>6, <1>7, <1>8, <1>10 DEF DownEOF, KvmTyped, ExitTyped, ViewNumbers
<1>13. UpEOF(u, x, a)
  BY <1>2, <1>3, <1>4, <1>6, <1>7, <1>8, <1>10 DEF UpEOF, KvmTyped, ExitTyped, ViewNumbers
<1>14. StreamBytes(u, x, 0, a, b)
  BY <1>2, <1>3, <1>4, <1>6, <1>7, <1>8, <1>10 DEF StreamBytes, KvmNumbers, ExitNumbers, ViewNumbers
<1>15. StreamCredit(u, x, 0, a, b)
  BY <1>2, <1>3, <1>4, <1>6, <1>7, <1>8, <1>10 DEF StreamCredit, KvmNumbers, ExitNumbers, ViewNumbers
<1> QED BY <1>1, <1>9, <1>11, <1>12, <1>13, <1>14, <1>15 DEF StreamOK, u

(* The DATA in hand is of a stream released since.                         *)
LEMMA EnqueueLateStep ==
    ASSUME NEW k, NEW x, NEW s \in Streams, NEW next \in Nat, NEW h \in Nat, NEW a, NEW b,
           Seen(a), Seen(b), StreamOK(k, x, s, next, h, a, b),
           k.rel # "no", h > 0
    PROVE  StreamOK(k, x, s, next, 0, a, b)
<1>1. k \in KvmStream /\ x \in ExitStream
  BY StreamParts
<1>2. /\ Opening(k, x, s, next, h, a, b) /\ DownEOF(k, x, h, b) /\ UpEOF(k, x, a)
      /\ StreamBytes(k, x, h, a, b) /\ StreamCredit(k, x, h, a, b)
  BY StreamParts
<1>3. KvmTyped(k) /\ ExitTyped(x) /\ KvmNumbers(k) /\ ExitNumbers(x)
  BY StreamParts
<1>4. ViewNumbers(a) /\ ViewNumbers(b)
  BY ViewFields
<1>5. k.recvQ \in Sizes /\ k.recvQ \in Items /\ x.queue \in Items
  BY StreamParts
<1>6. h # 0
  OBVIOUS
<1>7. s < next
  BY <1>2, <1>6 DEF Opening, Streams
<1>8. ~k.remoteEOF
  BY <1>2, <1>6 DEF DownEOF
<1>9. k.rel = "abort" /\ ~k.tab
  BY <1>2, <1>3, <1>7, <1>8 DEF DownEOF, KvmTyped, Opening
<1>10. Opening(k, x, s, next, 0, a, b)
  BY <1>2, <1>3, <1>4, <1>6, <1>7, <1>8, <1>9 DEF Opening, Streams, KvmTyped, ExitTyped, ViewNumbers
<1>11. DownEOF(k, x, 0, b)
  BY <1>2, <1>3, <1>4, <1>6, <1>7, <1>8, <1>9 DEF DownEOF, KvmTyped, ExitTyped, ViewNumbers
<1>12. UpEOF(k, x, a)
  BY <1>2, <1>3, <1>4, <1>6, <1>7, <1>8, <1>9 DEF UpEOF, KvmTyped, ExitTyped, ViewNumbers
<1>13. StreamBytes(k, x, 0, a, b)
  BY <1>2, <1>3, <1>4, <1>6, <1>7, <1>8, <1>9 DEF StreamBytes, KvmNumbers, ExitNumbers, ViewNumbers
<1>14. StreamCredit(k, x, 0, a, b)
  BY <1>2, <1>3, <1>4, <1>6, <1>7, <1>8, <1>9 DEF StreamCredit, KvmNumbers, ExitNumbers, ViewNumbers
<1> QED BY <1>1, <1>10, <1>11, <1>12, <1>13, <1>14 DEF StreamOK

(* EOF for a stream in the table reaches the kvm.                          *)
LEMMA EOFStep ==
    ASSUME NEW k, NEW x, NEW s \in Streams, NEW next \in Nat, NEW h \in Nat, NEW a, NEW b,
           Seen(a), Seen(b), StreamOK(k, x, s, next, h, a, b),
           k.tab, h = 0,
           NEW b2, Seen(b2), Taken(b, "EOF", 0, b2)
    PROVE  StreamOK([k EXCEPT !.remoteEOF = TRUE], x, s, next, h, a, b2)
<1> DEFINE u == [k EXCEPT !.remoteEOF = TRUE]
<1>1. k \in KvmStream /\ x \in ExitStream
  BY StreamParts
<1>2. /\ Opening(k, x, s, next, h, a, b) /\ DownEOF(k, x, h, b) /\ UpEOF(k, x, a)
      /\ StreamBytes(k, x, h, a, b) /\ StreamCredit(k, x, h, a, b)
  BY StreamParts
<1>3. KvmTyped(k) /\ ExitTyped(x) /\ KvmNumbers(k) /\ ExitNumbers(x)
  BY StreamParts
<1>4. ViewNumbers(a) /\ ViewNumbers(b) /\ ViewNumbers(b2)
  BY ViewFields
<1>5. k.recvQ \in Sizes /\ k.recvQ \in Items /\ x.queue \in Items
  BY StreamParts
<1>6. s < next /\ k.res = "ok"
  BY AfterOpened
<1>7. b.d = b2.d /\ b.w = b2.w
  BY <1>4 DEF Taken, ViewNumbers
<1>8. "EOF" \in b.has /\ "last" \in b2.ord /\ "DATA" \notin b2.has /\ "EOF" \notin b2.has
  BY <1>2 DEF Taken, DownEOF
<1>9. x.localEOF /\ ~k.remoteEOF /\ b2.d = 0
  BY <1>2, <1>8, ViewFields DEF DownEOF
<1>10. TRUE \in BOOLEAN
  OBVIOUS
<1>11. ~k.eof
  BY <1>2, <1>9 DEF DownEOF
<1>12. u \in KvmStream
  BY <1>1, <1>2, <1>3, <1>4, <1>6, <1>7, <1>8, <1>9, <1>10, <1>11, <1>5 DEF KvmStream, KvmTyped, ExitTyped, KvmNumbers, ExitNumbers
<1>13. /\ u.tab = k.tab /\ u.caller = k.caller /\ u.res = k.res /\ u.rel = k.rel
      /\ u.remoteEOF = TRUE /\ u.localEOF = k.localEOF /\ u.recvQ = k.recvQ
      /\ u.consumed = k.consumed /\ u.credit = k.credit /\ u.claim = k.claim /\ u.sending = k.sending
      /\ u.sent = k.sent /\ u.got = k.got /\ u.eof = k.eof
  BY <1>1 DEF KvmStream
<1> HIDE DEF u
<1>14. Opening(u, x, s, next, h, a, b2)
  BY <1>2, <1>3, <1>4, <1>6, <1>7, <1>8, <1>9, <1>10, <1>11, <1>13 DEF Opening, Taken, Streams, KvmTyped, ExitTyped, ViewNumbers
<1>15. DownEOF(u, x, h, b2)
  BY <1>2, <1>3, <1>4, <1>6, <1>7, <1>8, <1>9, <1>10, <1>11, <1>13 DEF DownEOF, KvmTyped, ExitTyped
<1>16. UpEOF(u, x, a)
  BY <1>2, <1>3, <1>4, <1>6, <1>7, <1>8, <1>9, <1>10, <1>11, <1>13 DEF UpEOF, Taken, KvmTyped, ExitTyped, ViewNumbers
<1>17. StreamBytes(u, x, h, a, b2)
  BY <1>2, <1>3, <1>4, <1>6, <1>7, <1>8, <1>9, <1>10, <1>11, <1>13 DEF StreamBytes, Taken, KvmNumbers, ExitNumbers, ViewNumbers
<1>18. StreamCredit(u, x, h, a, b2)
  BY <1>2, <1>3, <1>4, <1>6, <1>7, <1>8, <1>9, <1>10, <1>11, <1>13 DEF StreamCredit, Taken, KvmNumbers, ExitNumbers, ViewNumbers
<1> QED BY <1>1, <1>12, <1>14, <1>15, <1>16, <1>17, <1>18 DEF StreamOK, u

(* EOF for a released stream reaches the kvm.                              *)
LEMMA LateEOFStep ==
    ASSUME NEW k, NEW x, NEW s \in Streams, NEW next \in Nat, NEW h \in Nat, NEW a, NEW b,
           Seen(a), Seen(b), StreamOK(k, x, s, next, h, a, b),
           ~k.tab,
           NEW b2, Seen(b2), Taken(b, "EOF", 0, b2)
    PROVE  StreamOK(k, x, s, next, h, a, b2)
<1>1. k \in KvmStream /\ x \in ExitStream
  BY StreamParts
<1>2. /\ Opening(k, x, s, next, h, a, b) /\ DownEOF(k, x, h, b) /\ UpEOF(k, x, a)
      /\ StreamBytes(k, x, h, a, b) /\ StreamCredit(k, x, h, a, b)
  BY StreamParts
<1>3. KvmTyped(k) /\ ExitTyped(x) /\ KvmNumbers(k) /\ ExitNumbers(x)
  BY StreamParts
<1>4. ViewNumbers(a) /\ ViewNumbers(b) /\ ViewNumbers(b2)
  BY ViewFields
<1>5. k.recvQ \in Sizes /\ k.recvQ \in Items /\ x.queue \in Items
  BY StreamParts
<1>6. b.d = b2.d /\ b.w = b2.w
  BY <1>4 DEF Taken, ViewNumbers
<1>7. "EOF" \in b.has /\ "last" \in b2.ord /\ "DATA" \notin b2.has /\ "EOF" \notin b2.has
  BY <1>2 DEF Taken, DownEOF
<1>8. s < next
  BY <1>2, <1>7 DEF Opening, NothingOf, Streams
<1>9. x.localEOF /\ ~k.remoteEOF /\ b2.d = 0
  BY <1>2, <1>7, ViewFields DEF DownEOF
<1>10. Opening(k, x, s, next, h, a, b2)
  BY <1>2, <1>3, <1>4, <1>6, <1>7, <1>8, <1>9 DEF Opening, Taken, Streams, KvmTyped, ExitTyped, ViewNumbers
<1>11. DownEOF(k, x, h, b2)
  BY <1>2, <1>3, <1>4, <1>6, <1>7, <1>8, <1>9 DEF DownEOF, KvmTyped, ExitTyped
<1>12. UpEOF(k, x, a)
  BY <1>2, <1>3, <1>4, <1>6, <1>7, <1>8, <1>9 DEF UpEOF, Taken, KvmTyped, ExitTyped, ViewNumbers
<1>13. StreamBytes(k, x, h, a, b2)
  BY <1>2, <1>3, <1>4, <1>6, <1>7, <1>8, <1>9 DEF StreamBytes, Taken, KvmNumbers, ExitNumbers, ViewNumbers
<1>14. StreamCredit(k, x, h, a, b2)
  BY <1>2, <1>3, <1>4, <1>6, <1>7, <1>8, <1>9 DEF StreamCredit, Taken, KvmNumbers, ExitNumbers, ViewNumbers
<1> QED BY <1>1, <1>10, <1>11, <1>12, <1>13, <1>14 DEF StreamOK

(* The eof item is not in the queue, or only at its end.                   *)
NoEOFItem(q) == \A i \in DOMAIN q : q[i] # 0
EOFItemLast(q) == \A i \in DOMAIN q : q[i] = 0 => i = Len(q)

(* OPEN reaches the exit: the dial starts, or is refused.                  *)
LEMMA DialStep ==
    ASSUME NEW k, NEW x, NEW s \in Streams, NEW next \in Nat, NEW h \in Nat, NEW a, NEW b,
           Seen(a), Seen(b), StreamOK(k, x, s, next, h, a, b),
           NEW t \in {"dial", "failed"},
           NEW a2, Seen(a2), Taken(a, "OPEN", 0, a2)
    PROVE  StreamOK(k, [x EXCEPT !.st = t], s, next, h, a2, b)
<1> DEFINE y == [x EXCEPT !.st = t]
<1>1. k \in KvmStream /\ x \in ExitStream
  BY StreamParts
<1>2. /\ Opening(k, x, s, next, h, a, b) /\ DownEOF(k, x, h, b) /\ UpEOF(k, x, a)
      /\ StreamBytes(k, x, h, a, b) /\ StreamCredit(k, x, h, a, b)
  BY StreamParts
<1>3. KvmTyped(k) /\ ExitTyped(x) /\ KvmNumbers(k) /\ ExitNumbers(x)
  BY StreamParts
<1>4. ViewNumbers(a) /\ ViewNumbers(b) /\ ViewNumbers(a2)
  BY ViewFields
<1>5. k.recvQ \in Sizes /\ k.recvQ \in Items /\ x.queue \in Items
  BY StreamParts
<1>6. "OPEN" \in a.has /\ a.d = a2.d /\ a.w = a2.w
  BY <1>4 DEF Taken, ViewNumbers
<1>7. x.st = "none" /\ "once" \in a.ord
  BY <1>2, <1>6 DEF Opening
<1>8. s < next
  BY <1>2, <1>6 DEF Opening, NothingOf, Streams
<1>9. FreshExit(x)
  BY <1>2, <1>7 DEF Opening
<1>10. y \in ExitStream
  BY <1>1, <1>2, <1>3, <1>4, <1>6, <1>7, <1>8, <1>9, <1>5 DEF ExitStream, KvmTyped, ExitTyped, KvmNumbers, ExitNumbers
<1>11. /\ y.st = t /\ y.end = x.end /\ y.remoteEOF = x.remoteEOF
      /\ y.localEOF = x.localEOF /\ y.queue = x.queue /\ y.consumed = x.consumed
      /\ y.credit = x.credit /\ y.claim = x.claim /\ y.sending = x.sending /\ y.read = x.read
      /\ y.put = x.put /\ y.shut = x.shut
  BY <1>1 DEF ExitStream
<1> HIDE DEF y
<1>12. Opening(k, y, s, next, h, a2, b)
  <2>1. /\ k.res # "ok" /\ "OPENED" \notin b.has /\ b.d = 0 /\ b.w = 0 /\ "EOF" \notin b.has
    BY <1>2, <1>7 DEF Opening
  <2>2. /\ "OPEN" \notin a2.has
        /\ "DATA" \in a2.has => "DATA" \in a.has
        /\ "EOF" \in a2.has => "EOF" \in a.has
    BY <1>7 DEF Taken
  <2>3. y.st = t /\ FreshExit(y)
    BY <1>9, <1>11 DEF FreshExit
  <2> QED BY <1>2, <1>8, <2>1, <2>2, <2>3 DEF Opening, Streams
<1>13. DownEOF(k, y, h, b)
  BY <1>2, <1>3, <1>4, <1>6, <1>7, <1>8, <1>9, <1>11 DEF DownEOF, Taken, FreshExit, KvmTyped, ExitTyped, ViewNumbers
<1>14. UpEOF(k, y, a2)
  BY <1>2, <1>3, <1>4, <1>6, <1>7, <1>8, <1>9, <1>11 DEF UpEOF, Taken, FreshExit, KvmTyped, ExitTyped, ViewNumbers
<1>15. StreamBytes(k, y, h, a2, b)
  BY <1>2, <1>3, <1>4, <1>6, <1>7, <1>8, <1>9, <1>11 DEF StreamBytes, Taken, FreshExit, KvmNumbers, ExitNumbers, ViewNumbers
<1>16. StreamCredit(k, y, h, a2, b)
  BY <1>2, <1>3, <1>4, <1>6, <1>7, <1>8, <1>9, <1>11 DEF StreamCredit, Taken, FreshExit, KvmNumbers, ExitNumbers, ViewNumbers
<1> QED BY <1>1, <1>10, <1>12, <1>13, <1>14, <1>15, <1>16 DEF StreamOK, y

(* The dial fails.                                                         *)
LEMMA DialEndStep ==
    ASSUME NEW k, NEW x, NEW s \in Streams, NEW next \in Nat, NEW h \in Nat, NEW a, NEW b,
           Seen(a), Seen(b), StreamOK(k, x, s, next, h, a, b),
           x.st = "dial"
    PROVE  StreamOK(k, [x EXCEPT !.st = "failed"], s, next, h, a, b)
<1> DEFINE y == [x EXCEPT !.st = "failed"]
<1>1. k \in KvmStream /\ x \in ExitStream
  BY StreamParts
<1>2. /\ Opening(k, x, s, next, h, a, b) /\ DownEOF(k, x, h, b) /\ UpEOF(k, x, a)
      /\ StreamBytes(k, x, h, a, b) /\ StreamCredit(k, x, h, a, b)
  BY StreamParts
<1>3. KvmTyped(k) /\ ExitTyped(x) /\ KvmNumbers(k) /\ ExitNumbers(x)
  BY StreamParts
<1>4. ViewNumbers(a) /\ ViewNumbers(b)
  BY ViewFields
<1>5. k.recvQ \in Sizes /\ k.recvQ \in Items /\ x.queue \in Items
  BY StreamParts
<1>6. s < next
  BY <1>2 DEF Opening, Streams
<1>7. FreshExit(x)
  BY <1>2 DEF Opening
<1>8. y \in ExitStream
  BY <1>1, <1>2, <1>3, <1>4, <1>6, <1>7, <1>5 DEF ExitStream, KvmTyped, ExitTyped, KvmNumbers, ExitNumbers
<1>9. /\ y.st = "failed" /\ y.end = x.end /\ y.remoteEOF = x.remoteEOF
      /\ y.localEOF = x.localEOF /\ y.queue = x.queue /\ y.consumed = x.consumed
      /\ y.credit = x.credit /\ y.claim = x.claim /\ y.sending = x.sending /\ y.read = x.read
      /\ y.put = x.put /\ y.shut = x.shut
  BY <1>1 DEF ExitStream
<1> HIDE DEF y
<1>10. Opening(k, y, s, next, h, a, b)
  BY <1>2, <1>3, <1>4, <1>6, <1>7, <1>9 DEF Opening, FreshExit, Streams, KvmTyped, ExitTyped, ViewNumbers
<1>11. DownEOF(k, y, h, b)
  BY <1>2, <1>3, <1>4, <1>6, <1>7, <1>9 DEF DownEOF, FreshExit, KvmTyped, ExitTyped, ViewNumbers
<1>12. UpEOF(k, y, a)
  BY <1>2, <1>3, <1>4, <1>6, <1>7, <1>9 DEF UpEOF, FreshExit, KvmTyped, ExitTyped, ViewNumbers
<1>13. StreamBytes(k, y, h, a, b)
  BY <1>2, <1>3, <1>4, <1>6, <1>7, <1>9 DEF StreamBytes, FreshExit, KvmNumbers, ExitNumbers, ViewNumbers
<1>14. StreamCredit(k, y, h, a, b)
  BY <1>2, <1>3, <1>4, <1>6, <1>7, <1>9 DEF StreamCredit, FreshExit, KvmNumbers, ExitNumbers, ViewNumbers
<1> QED BY <1>1, <1>8, <1>10, <1>11, <1>12, <1>13, <1>14 DEF StreamOK, y

(* The dial succeeds: OPENED leaves.                                       *)
LEMMA DialSucceedsStep ==
    ASSUME NEW k, NEW x, NEW s \in Streams, NEW next \in Nat, NEW h \in Nat, NEW a, NEW b,
           Seen(a), Seen(b), StreamOK(k, x, s, next, h, a, b),
           x.st = "dial",
           NEW b2, Seen(b2), Sent(b, "OPENED", 0, b2)
    PROVE  StreamOK(k, [x EXCEPT !.st = "live"], s, next, h, a, b2)
<1> DEFINE y == [x EXCEPT !.st = "live"]
<1>1. k \in KvmStream /\ x \in ExitStream
  BY StreamParts
<1>2. /\ Opening(k, x, s, next, h, a, b) /\ DownEOF(k, x, h, b) /\ UpEOF(k, x, a)
      /\ StreamBytes(k, x, h, a, b) /\ StreamCredit(k, x, h, a, b)
  BY StreamParts
<1>3. KvmTyped(k) /\ ExitTyped(x) /\ KvmNumbers(k) /\ ExitNumbers(x)
  BY StreamParts
<1>4. ViewNumbers(a) /\ ViewNumbers(b) /\ ViewNumbers(b2)
  BY ViewFields
<1>5. k.recvQ \in Sizes /\ k.recvQ \in Items /\ x.queue \in Items
  BY StreamParts
<1>6. s < next
  BY <1>2 DEF Opening, Streams
<1>7. FreshExit(x) /\ b.d = 0 /\ b.w = 0 /\ "EOF" \notin b.has
  BY <1>2 DEF Opening
<1>8. b2.d = b.d /\ b2.w = b.w
  BY <1>4 DEF Sent, ViewNumbers
<1>9. y \in ExitStream
  BY <1>1, <1>2, <1>3, <1>4, <1>6, <1>7, <1>8, <1>5 DEF ExitStream, KvmTyped, ExitTyped, KvmNumbers, ExitNumbers
<1>10. /\ y.st = "live" /\ y.end = x.end /\ y.remoteEOF = x.remoteEOF
      /\ y.localEOF = x.localEOF /\ y.queue = x.queue /\ y.consumed = x.consumed
      /\ y.credit = x.credit /\ y.claim = x.claim /\ y.sending = x.sending /\ y.read = x.read
      /\ y.put = x.put /\ y.shut = x.shut
  BY <1>1 DEF ExitStream
<1> HIDE DEF y
<1>11. Opening(k, y, s, next, h, a, b2)
  BY <1>2, <1>3, <1>4, <1>6, <1>7, <1>8, <1>10 DEF Opening, Sent, FreshExit, Streams, KvmTyped, ExitTyped, ViewNumbers
<1>12. DownEOF(k, y, h, b2)
  BY <1>2, <1>3, <1>4, <1>6, <1>7, <1>8, <1>10 DEF DownEOF, Sent, FreshExit, KvmTyped, ExitTyped, ViewNumbers
<1>13. UpEOF(k, y, a)
  BY <1>2, <1>3, <1>4, <1>6, <1>7, <1>8, <1>10 DEF UpEOF, Sent, FreshExit, KvmTyped, ExitTyped, ViewNumbers
<1>14. StreamBytes(k, y, h, a, b2)
  BY <1>2, <1>3, <1>4, <1>6, <1>7, <1>8, <1>10 DEF StreamBytes, Sent, FreshExit, KvmNumbers, ExitNumbers, ViewNumbers
<1>15. StreamCredit(k, y, h, a, b2)
  BY <1>2, <1>3, <1>4, <1>6, <1>7, <1>8, <1>10 DEF StreamCredit, Sent, FreshExit, KvmNumbers, ExitNumbers, ViewNumbers
<1> QED BY <1>1, <1>9, <1>11, <1>12, <1>13, <1>14, <1>15 DEF StreamOK, y

(* The exit drops the stream.                                              *)
LEMMA DropStep ==
    ASSUME NEW k, NEW x, NEW s \in Streams, NEW next \in Nat, NEW h \in Nat, NEW a, NEW b,
           Seen(a), Seen(b), StreamOK(k, x, s, next, h, a, b),
           x.st = "live",
           NEW why \in {"clean", "rst", "err"}
    PROVE  StreamOK(k, [x EXCEPT !.st = "gone", !.end = why, !.credit = 0], s, next, h, a, b)
<1> DEFINE y == [x EXCEPT !.st = "gone", !.end = why, !.credit = 0]
<1>1. k \in KvmStream /\ x \in ExitStream
  BY StreamParts
<1>2. /\ Opening(k, x, s, next, h, a, b) /\ DownEOF(k, x, h, b) /\ UpEOF(k, x, a)
      /\ StreamBytes(k, x, h, a, b) /\ StreamCredit(k, x, h, a, b)
  BY StreamParts
<1>3. KvmTyped(k) /\ ExitTyped(x) /\ KvmNumbers(k) /\ ExitNumbers(x)
  BY StreamParts
<1>4. ViewNumbers(a) /\ ViewNumbers(b)
  BY ViewFields
<1>5. k.recvQ \in Sizes /\ k.recvQ \in Items /\ x.queue \in Items
  BY StreamParts
<1>6. s < next
  BY <1>2 DEF Opening, Streams
<1>7. y \in ExitStream
  BY <1>1, <1>2, <1>3, <1>4, <1>6, <1>5 DEF ExitStream, KvmTyped, ExitTyped, KvmNumbers, ExitNumbers
<1>8. /\ y.st = "gone" /\ y.end = why /\ y.remoteEOF = x.remoteEOF
      /\ y.localEOF = x.localEOF /\ y.queue = x.queue /\ y.consumed = x.consumed
      /\ y.credit = 0 /\ y.claim = x.claim /\ y.sending = x.sending /\ y.read = x.read /\ y.put = x.put
      /\ y.shut = x.shut
  BY <1>1 DEF ExitStream
<1> HIDE DEF y
<1>9. Opening(k, y, s, next, h, a, b)
  BY <1>2, <1>3, <1>4, <1>6, <1>8 DEF Opening, Streams, KvmTyped, ExitTyped, ViewNumbers
<1>10. DownEOF(k, y, h, b)
  BY <1>2, <1>3, <1>4, <1>6, <1>8 DEF DownEOF, KvmTyped, ExitTyped, ViewNumbers
<1>11. UpEOF(k, y, a)
  BY <1>2, <1>3, <1>4, <1>6, <1>8 DEF UpEOF, KvmTyped, ExitTyped, ViewNumbers
<1>12. StreamBytes(k, y, h, a, b)
  BY <1>2, <1>3, <1>4, <1>6, <1>8 DEF StreamBytes, KvmNumbers, ExitNumbers, ViewNumbers
<1>13. StreamCredit(k, y, h, a, b)
  BY <1>2, <1>3, <1>4, <1>6, <1>8 DEF StreamCredit, KvmNumbers, ExitNumbers, ViewNumbers
<1> QED BY <1>1, <1>7, <1>9, <1>10, <1>11, <1>12, <1>13 DEF StreamOK, y

(* What was queued for a dropped stream is not written.                    *)
LEMMA QueueLostStep ==
    ASSUME NEW k, NEW x, NEW s \in Streams, NEW next \in Nat, NEW h \in Nat, NEW a, NEW b,
           Seen(a), Seen(b), StreamOK(k, x, s, next, h, a, b),
           x.st = "gone"
    PROVE  StreamOK(k, [x EXCEPT !.queue = <<>>], s, next, h, a, b)
<1> DEFINE y == [x EXCEPT !.queue = <<>>]
<1>1. k \in KvmStream /\ x \in ExitStream
  BY StreamParts
<1>2. /\ Opening(k, x, s, next, h, a, b) /\ DownEOF(k, x, h, b) /\ UpEOF(k, x, a)
      /\ StreamBytes(k, x, h, a, b) /\ StreamCredit(k, x, h, a, b)
  BY StreamParts
<1>3. KvmTyped(k) /\ ExitTyped(x) /\ KvmNumbers(k) /\ ExitNumbers(x)
  BY StreamParts
<1>4. ViewNumbers(a) /\ ViewNumbers(b)
  BY ViewFields
<1>5. k.recvQ \in Sizes /\ k.recvQ \in Items /\ x.queue \in Items
  BY StreamParts
<1>6. s < next
  BY <1>2 DEF Opening, Streams
<1>7. <<>> \in Items
  BY DEF Items
<1>8. y \in ExitStream
  BY <1>1, <1>2, <1>3, <1>4, <1>6, <1>7, <1>5 DEF ExitStream, KvmTyped, ExitTyped, KvmNumbers, ExitNumbers
<1>9. /\ y.st = x.st /\ y.end = x.end /\ y.remoteEOF = x.remoteEOF
      /\ y.localEOF = x.localEOF /\ y.queue = <<>> /\ y.consumed = x.consumed
      /\ y.credit = x.credit /\ y.claim = x.claim /\ y.sending = x.sending /\ y.read = x.read
      /\ y.put = x.put /\ y.shut = x.shut
  BY <1>1 DEF ExitStream
<1> HIDE DEF y
<1>10. Opening(k, y, s, next, h, a, b)
  BY <1>2, <1>3, <1>4, <1>6, <1>7, <1>9 DEF Opening, Streams, KvmTyped, ExitTyped, ViewNumbers
<1>11. DownEOF(k, y, h, b)
  BY <1>2, <1>3, <1>4, <1>6, <1>7, <1>9 DEF DownEOF, KvmTyped, ExitTyped, ViewNumbers
<1>12. UpEOF(k, y, a)
  <2>1. y.queue = <<>> /\ DOMAIN y.queue = {} /\ y.remoteEOF = x.remoteEOF /\ y.shut = x.shut /\ y.put = x.put
    BY <1>9
  <2> QED BY <1>2, <2>1 DEF UpEOF
<1>13. StreamBytes(k, y, h, a, b)
  BY <1>2, <1>3, <1>4, <1>6, <1>7, <1>9 DEF StreamBytes, KvmNumbers, ExitNumbers, ViewNumbers
<1>14. StreamCredit(k, y, h, a, b)
  BY <1>2, <1>3, <1>4, <1>6, <1>7, <1>9 DEF StreamCredit, KvmNumbers, ExitNumbers, ViewNumbers
<1> QED BY <1>1, <1>8, <1>10, <1>11, <1>12, <1>13, <1>14 DEF StreamOK, y

(* DATA for a live stream reaches the exit and is queued: q.               *)
LEMMA ExitDataStep ==
    ASSUME NEW k, NEW x, NEW s \in Streams, NEW next \in Nat, NEW h \in Nat, NEW a, NEW b,
           Seen(a), Seen(b), StreamOK(k, x, s, next, h, a, b),
           x.st = "live",
           NEW n \in Nat \ {0},
           NEW a2, Seen(a2), Taken(a, "DATA", n, a2),
           NEW q \in Items, Sum(q) = Sum(x.queue) + n,
           NoEOFItem(x.queue) => NoEOFItem(q)
    PROVE  StreamOK(k, [x EXCEPT !.queue = q], s, next, h, a2, b)
<1> DEFINE y == [x EXCEPT !.queue = q]
<1>1. k \in KvmStream /\ x \in ExitStream
  BY StreamParts
<1>2. /\ Opening(k, x, s, next, h, a, b) /\ DownEOF(k, x, h, b) /\ UpEOF(k, x, a)
      /\ StreamBytes(k, x, h, a, b) /\ StreamCredit(k, x, h, a, b)
  BY StreamParts
<1>3. KvmTyped(k) /\ ExitTyped(x) /\ KvmNumbers(k) /\ ExitNumbers(x)
  BY StreamParts
<1>4. ViewNumbers(a) /\ ViewNumbers(b) /\ ViewNumbers(a2)
  BY ViewFields
<1>5. k.recvQ \in Sizes /\ k.recvQ \in Items /\ x.queue \in Items
  BY StreamParts
<1>6. s < next
  BY <1>2 DEF Opening, Streams
<1>7. a.d = a2.d + n /\ a.w = a2.w /\ a.d # 0
  BY <1>4 DEF Taken, ViewNumbers
<1>8. ~x.remoteEOF /\ ~x.shut
  BY <1>2, <1>7 DEF UpEOF
<1>9. NoEOFItem(x.queue)
  BY <1>2, <1>8 DEF UpEOF, NoEOFItem
<1>10. y \in ExitStream
  BY <1>1, <1>2, <1>3, <1>4, <1>6, <1>7, <1>8, <1>9, <1>5 DEF ExitStream, KvmTyped, ExitTyped, KvmNumbers, ExitNumbers
<1>11. /\ y.st = x.st /\ y.end = x.end /\ y.remoteEOF = x.remoteEOF
      /\ y.localEOF = x.localEOF /\ y.queue = q /\ y.consumed = x.consumed
      /\ y.credit = x.credit /\ y.claim = x.claim /\ y.sending = x.sending /\ y.read = x.read
      /\ y.put = x.put /\ y.shut = x.shut
  BY <1>1 DEF ExitStream
<1> HIDE DEF y
<1>12. Opening(k, y, s, next, h, a2, b)
  BY <1>2, <1>3, <1>4, <1>6, <1>7, <1>8, <1>9, <1>11 DEF Opening, Taken, Streams, KvmTyped, ExitTyped, ViewNumbers
<1>13. DownEOF(k, y, h, b)
  BY <1>2, <1>3, <1>4, <1>6, <1>7, <1>8, <1>9, <1>11 DEF DownEOF, Taken, KvmTyped, ExitTyped, ViewNumbers
<1>14. UpEOF(k, y, a2)
  <2>1. \A i \in DOMAIN q : q[i] # 0
    BY <1>9 DEF NoEOFItem
  <2> QED BY <1>2, <1>3, <1>4, <1>6, <1>7, <1>8, <1>9, <1>11, <2>1 DEF UpEOF, Taken, KvmTyped, ExitTyped, ViewNumbers
<1>15. StreamBytes(k, y, h, a2, b)
  BY <1>2, <1>3, <1>4, <1>6, <1>7, <1>8, <1>9, <1>11 DEF StreamBytes, Taken, KvmNumbers, ExitNumbers, ViewNumbers
<1>16. StreamCredit(k, y, h, a2, b)
  BY <1>2, <1>3, <1>4, <1>6, <1>7, <1>8, <1>9, <1>11 DEF StreamCredit, Taken, KvmNumbers, ExitNumbers, ViewNumbers
<1> QED BY <1>1, <1>10, <1>12, <1>13, <1>14, <1>15, <1>16 DEF StreamOK, y

(* DATA for a dropped stream reaches the exit.                             *)
LEMMA ExitLateDataStep ==
    ASSUME NEW k, NEW x, NEW s \in Streams, NEW next \in Nat, NEW h \in Nat, NEW a, NEW b,
           Seen(a), Seen(b), StreamOK(k, x, s, next, h, a, b),
           x.st = "gone",
           NEW n \in Nat \ {0},
           NEW a2, Seen(a2), Taken(a, "DATA", n, a2)
    PROVE  StreamOK(k, x, s, next, h, a2, b)
<1>1. k \in KvmStream /\ x \in ExitStream
  BY StreamParts
<1>2. /\ Opening(k, x, s, next, h, a, b) /\ DownEOF(k, x, h, b) /\ UpEOF(k, x, a)
      /\ StreamBytes(k, x, h, a, b) /\ StreamCredit(k, x, h, a, b)
  BY StreamParts
<1>3. KvmTyped(k) /\ ExitTyped(x) /\ KvmNumbers(k) /\ ExitNumbers(x)
  BY StreamParts
<1>4. ViewNumbers(a) /\ ViewNumbers(b) /\ ViewNumbers(a2)
  BY ViewFields
<1>5. k.recvQ \in Sizes /\ k.recvQ \in Items /\ x.queue \in Items
  BY StreamParts
<1>6. s < next
  BY <1>2 DEF Opening, Streams
<1>7. a.d = a2.d + n /\ a.w = a2.w /\ a.d # 0
  BY <1>4 DEF Taken, ViewNumbers
<1>8. ~x.remoteEOF /\ ~x.shut
  BY <1>2, <1>7 DEF UpEOF
<1>9. Opening(k, x, s, next, h, a2, b)
  BY <1>2, <1>3, <1>4, <1>6, <1>7, <1>8 DEF Opening, Taken, Streams, KvmTyped, ExitTyped, ViewNumbers
<1>10. DownEOF(k, x, h, b)
  BY <1>2, <1>3, <1>4, <1>6, <1>7, <1>8 DEF DownEOF, Taken, KvmTyped, ExitTyped, ViewNumbers
<1>11. UpEOF(k, x, a2)
  BY <1>2, <1>3, <1>4, <1>6, <1>7, <1>8 DEF UpEOF, Taken, KvmTyped, ExitTyped, ViewNumbers
<1>12. StreamBytes(k, x, h, a2, b)
  BY <1>2, <1>3, <1>4, <1>6, <1>7, <1>8 DEF StreamBytes, Taken, KvmNumbers, ExitNumbers, ViewNumbers
<1>13. StreamCredit(k, x, h, a2, b)
  BY <1>2, <1>3, <1>4, <1>6, <1>7, <1>8 DEF StreamCredit, Taken, KvmNumbers, ExitNumbers, ViewNumbers
<1> QED BY <1>1, <1>9, <1>10, <1>11, <1>12, <1>13 DEF StreamOK

(* EOF for a live stream reaches the exit and is queued: q.                *)
LEMMA ExitEOFStep ==
    ASSUME NEW k, NEW x, NEW s \in Streams, NEW next \in Nat, NEW h \in Nat, NEW a, NEW b,
           Seen(a), Seen(b), StreamOK(k, x, s, next, h, a, b),
           x.st = "live",
           NEW a2, Seen(a2), Taken(a, "EOF", 0, a2),
           NEW q \in Items, Sum(q) = Sum(x.queue),
           NoEOFItem(x.queue) => EOFItemLast(q)
    PROVE  StreamOK(k, [x EXCEPT !.queue = q, !.remoteEOF = TRUE], s, next, h, a2, b)
<1> DEFINE y == [x EXCEPT !.queue = q, !.remoteEOF = TRUE]
<1>1. k \in KvmStream /\ x \in ExitStream
  BY StreamParts
<1>2. /\ Opening(k, x, s, next, h, a, b) /\ DownEOF(k, x, h, b) /\ UpEOF(k, x, a)
      /\ StreamBytes(k, x, h, a, b) /\ StreamCredit(k, x, h, a, b)
  BY StreamParts
<1>3. KvmTyped(k) /\ ExitTyped(x) /\ KvmNumbers(k) /\ ExitNumbers(x)
  BY StreamParts
<1>4. ViewNumbers(a) /\ ViewNumbers(b) /\ ViewNumbers(a2)
  BY ViewFields
<1>5. k.recvQ \in Sizes /\ k.recvQ \in Items /\ x.queue \in Items
  BY StreamParts
<1>6. s < next
  BY <1>2 DEF Opening, Streams
<1>7. a.d = a2.d /\ a.w = a2.w /\ "EOF" \in a.has
  BY <1>4 DEF Taken, ViewNumbers
<1>8. ~x.remoteEOF /\ ~x.shut /\ k.localEOF
  BY <1>2, <1>7 DEF UpEOF
<1>9. NoEOFItem(x.queue)
  BY <1>2, <1>8 DEF UpEOF, NoEOFItem
<1>10. "last" \in a2.ord /\ "DATA" \notin a2.has /\ "EOF" \notin a2.has
  BY <1>2 DEF UpEOF, Taken
<1>11. a2.d = 0
  BY <1>10, ViewFields
<1>12. TRUE \in BOOLEAN
  OBVIOUS
<1>13. y \in ExitStream
  BY <1>1, <1>2, <1>3, <1>4, <1>6, <1>7, <1>8, <1>9, <1>10, <1>11, <1>12, <1>5 DEF ExitStream, KvmTyped, ExitTyped, KvmNumbers, ExitNumbers
<1>14. /\ y.st = x.st /\ y.end = x.end /\ y.remoteEOF = TRUE /\ y.localEOF = x.localEOF
      /\ y.queue = q /\ y.consumed = x.consumed /\ y.credit = x.credit
      /\ y.claim = x.claim /\ y.sending = x.sending /\ y.read = x.read /\ y.put = x.put /\ y.shut = x.shut
  BY <1>1 DEF ExitStream
<1> HIDE DEF y
<1>15. Opening(k, y, s, next, h, a2, b)
  BY <1>2, <1>3, <1>4, <1>6, <1>7, <1>8, <1>9, <1>10, <1>11, <1>12, <1>14 DEF Opening, Taken, Streams, KvmTyped, ExitTyped, ViewNumbers
<1>16. DownEOF(k, y, h, b)
  BY <1>2, <1>3, <1>4, <1>6, <1>7, <1>8, <1>9, <1>10, <1>11, <1>12, <1>14 DEF DownEOF, Taken, KvmTyped, ExitTyped, ViewNumbers
<1>17. UpEOF(k, y, a2)
  <2>1. \A i \in DOMAIN q : q[i] = 0 => i = Len(q)
    BY <1>9 DEF EOFItemLast
  <2> QED BY <1>2, <1>3, <1>4, <1>6, <1>7, <1>8, <1>9, <1>10, <1>11, <1>12, <1>14, <2>1 DEF UpEOF, KvmTyped, ExitTyped
<1>18. StreamBytes(k, y, h, a2, b)
  BY <1>2, <1>3, <1>4, <1>6, <1>7, <1>8, <1>9, <1>10, <1>11, <1>12, <1>14 DEF StreamBytes, Taken, KvmNumbers, ExitNumbers, ViewNumbers
<1>19. StreamCredit(k, y, h, a2, b)
  BY <1>2, <1>3, <1>4, <1>6, <1>7, <1>8, <1>9, <1>10, <1>11, <1>12, <1>14 DEF StreamCredit, Taken, KvmNumbers, ExitNumbers, ViewNumbers
<1> QED BY <1>1, <1>13, <1>15, <1>16, <1>17, <1>18, <1>19 DEF StreamOK, y

(* EOF for a dropped stream reaches the exit.                              *)
LEMMA ExitLateEOFStep ==
    ASSUME NEW k, NEW x, NEW s \in Streams, NEW next \in Nat, NEW h \in Nat, NEW a, NEW b,
           Seen(a), Seen(b), StreamOK(k, x, s, next, h, a, b),
           x.st = "gone",
           NEW a2, Seen(a2), Taken(a, "EOF", 0, a2)
    PROVE  StreamOK(k, x, s, next, h, a2, b)
<1>1. k \in KvmStream /\ x \in ExitStream
  BY StreamParts
<1>2. /\ Opening(k, x, s, next, h, a, b) /\ DownEOF(k, x, h, b) /\ UpEOF(k, x, a)
      /\ StreamBytes(k, x, h, a, b) /\ StreamCredit(k, x, h, a, b)
  BY StreamParts
<1>3. KvmTyped(k) /\ ExitTyped(x) /\ KvmNumbers(k) /\ ExitNumbers(x)
  BY StreamParts
<1>4. ViewNumbers(a) /\ ViewNumbers(b) /\ ViewNumbers(a2)
  BY ViewFields
<1>5. k.recvQ \in Sizes /\ k.recvQ \in Items /\ x.queue \in Items
  BY StreamParts
<1>6. s < next
  BY <1>2 DEF Opening, Streams
<1>7. a.d = a2.d /\ a.w = a2.w /\ "EOF" \in a.has
  BY <1>4 DEF Taken, ViewNumbers
<1>8. ~x.remoteEOF /\ ~x.shut
  BY <1>2, <1>7 DEF UpEOF
<1>9. Opening(k, x, s, next, h, a2, b)
  BY <1>2, <1>3, <1>4, <1>6, <1>7, <1>8 DEF Opening, Taken, Streams, KvmTyped, ExitTyped, ViewNumbers
<1>10. DownEOF(k, x, h, b)
  BY <1>2, <1>3, <1>4, <1>6, <1>7, <1>8 DEF DownEOF, Taken, KvmTyped, ExitTyped, ViewNumbers
<1>11. UpEOF(k, x, a2)
  BY <1>2, <1>3, <1>4, <1>6, <1>7, <1>8 DEF UpEOF, Taken, KvmTyped, ExitTyped, ViewNumbers
<1>12. StreamBytes(k, x, h, a2, b)
  BY <1>2, <1>3, <1>4, <1>6, <1>7, <1>8 DEF StreamBytes, Taken, KvmNumbers, ExitNumbers, ViewNumbers
<1>13. StreamCredit(k, x, h, a2, b)
  BY <1>2, <1>3, <1>4, <1>6, <1>7, <1>8 DEF StreamCredit, Taken, KvmNumbers, ExitNumbers, ViewNumbers
<1> QED BY <1>1, <1>9, <1>10, <1>11, <1>12, <1>13 DEF StreamOK

(* WINDOW for a live stream reaches the exit.                              *)
LEMMA ExitCreditStep ==
    ASSUME NEW k, NEW x, NEW s \in Streams, NEW next \in Nat, NEW h \in Nat, NEW a, NEW b,
           Seen(a), Seen(b), StreamOK(k, x, s, next, h, a, b),
           x.st = "live",
           NEW n \in Nat \ {0},
           NEW a2, Seen(a2), Taken(a, "WINDOW", n, a2)
    PROVE  StreamOK(k, [x EXCEPT !.credit = x.credit + n], s, next, h, a2, b)
<1> DEFINE y == [x EXCEPT !.credit = x.credit + n]
<1>1. k \in KvmStream /\ x \in ExitStream
  BY StreamParts
<1>2. /\ Opening(k, x, s, next, h, a, b) /\ DownEOF(k, x, h, b) /\ UpEOF(k, x, a)
      /\ StreamBytes(k, x, h, a, b) /\ StreamCredit(k, x, h, a, b)
  BY StreamParts
<1>3. KvmTyped(k) /\ ExitTyped(x) /\ KvmNumbers(k) /\ ExitNumbers(x)
  BY StreamParts
<1>4. ViewNumbers(a) /\ ViewNumbers(b) /\ ViewNumbers(a2)
  BY ViewFields
<1>5. k.recvQ \in Sizes /\ k.recvQ \in Items /\ x.queue \in Items
  BY StreamParts
<1>6. s < next
  BY <1>2 DEF Opening, Streams
<1>7. x.credit + n \in Nat
  BY <1>3 DEF ExitNumbers
<1>8. a.d = a2.d /\ a.w = a2.w + n
  BY <1>4 DEF Taken, ViewNumbers
<1>9. y \in ExitStream
  BY <1>1, <1>2, <1>3, <1>4, <1>6, <1>7, <1>8, <1>5 DEF ExitStream, KvmTyped, ExitTyped, KvmNumbers, ExitNumbers
<1>10. /\ y.st = x.st /\ y.end = x.end /\ y.remoteEOF = x.remoteEOF
      /\ y.localEOF = x.localEOF /\ y.queue = x.queue /\ y.consumed = x.consumed
      /\ y.credit = x.credit + n /\ y.claim = x.claim /\ y.sending = x.sending /\ y.read = x.read
      /\ y.put = x.put /\ y.shut = x.shut
  BY <1>1 DEF ExitStream
<1> HIDE DEF y
<1>11. Opening(k, y, s, next, h, a2, b)
  BY <1>2, <1>3, <1>4, <1>6, <1>7, <1>8, <1>10 DEF Opening, Taken, Streams, KvmTyped, ExitTyped, ViewNumbers
<1>12. DownEOF(k, y, h, b)
  BY <1>2, <1>3, <1>4, <1>6, <1>7, <1>8, <1>10 DEF DownEOF, Taken, KvmTyped, ExitTyped, ViewNumbers
<1>13. UpEOF(k, y, a2)
  BY <1>2, <1>3, <1>4, <1>6, <1>7, <1>8, <1>10 DEF UpEOF, Taken, KvmTyped, ExitTyped, ViewNumbers
<1>14. StreamBytes(k, y, h, a2, b)
  BY <1>2, <1>3, <1>4, <1>6, <1>7, <1>8, <1>10 DEF StreamBytes, Taken, KvmNumbers, ExitNumbers, ViewNumbers
<1>15. StreamCredit(k, y, h, a2, b)
  BY <1>2, <1>3, <1>4, <1>6, <1>7, <1>8, <1>10 DEF StreamCredit, Taken, KvmNumbers, ExitNumbers, ViewNumbers
<1> QED BY <1>1, <1>9, <1>11, <1>12, <1>13, <1>14, <1>15 DEF StreamOK, y

(* WINDOW for a stream that is not live reaches the exit.                  *)
LEMMA ExitLateCreditStep ==
    ASSUME NEW k, NEW x, NEW s \in Streams, NEW next \in Nat, NEW h \in Nat, NEW a, NEW b,
           Seen(a), Seen(b), StreamOK(k, x, s, next, h, a, b),
           x.st # "live",
           NEW n \in Nat \ {0},
           NEW a2, Seen(a2), Taken(a, "WINDOW", n, a2)
    PROVE  StreamOK(k, x, s, next, h, a2, b)
<1>1. k \in KvmStream /\ x \in ExitStream
  BY StreamParts
<1>2. /\ Opening(k, x, s, next, h, a, b) /\ DownEOF(k, x, h, b) /\ UpEOF(k, x, a)
      /\ StreamBytes(k, x, h, a, b) /\ StreamCredit(k, x, h, a, b)
  BY StreamParts
<1>3. KvmTyped(k) /\ ExitTyped(x) /\ KvmNumbers(k) /\ ExitNumbers(x)
  BY StreamParts
<1>4. ViewNumbers(a) /\ ViewNumbers(b) /\ ViewNumbers(a2)
  BY ViewFields
<1>5. k.recvQ \in Sizes /\ k.recvQ \in Items /\ x.queue \in Items
  BY StreamParts
<1>6. a.d = a2.d /\ a.w = a2.w + n /\ a.w # 0
  BY <1>4 DEF Taken, ViewNumbers
<1>7. s < next
  BY <1>2, <1>6 DEF Opening, NothingOf, Streams
<1>8. x.st # "gone" => x.credit = StreamWindow
  BY <1>2, <1>3 DEF Opening, FreshExit, ExitTyped
<1>9. k.tab => x.st = "gone"
  BY <1>2, <1>3, <1>4, <1>6, <1>8, NexitAssumption DEF StreamCredit, KvmNumbers, ExitNumbers, ViewNumbers
<1>10. Opening(k, x, s, next, h, a2, b)
  <2>1. /\ "OPEN" \in a2.has => "OPEN" \in a.has /\ ("once" \in a.ord => "once" \in a2.ord)
        /\ "DATA" \in a2.has => "DATA" \in a.has
        /\ "EOF" \in a2.has => "EOF" \in a.has
    BY DEF Taken
  <2> QED BY <1>2, <1>7, <2>1 DEF Opening, Streams
<1>11. DownEOF(k, x, h, b)
  BY <1>2, <1>3, <1>4, <1>6, <1>7, <1>8, <1>9 DEF DownEOF, Taken, KvmTyped, ExitTyped, ViewNumbers
<1>12. UpEOF(k, x, a2)
  BY <1>2, <1>3, <1>4, <1>6, <1>7, <1>8, <1>9 DEF UpEOF, Taken, KvmTyped, ExitTyped, ViewNumbers
<1>13. StreamBytes(k, x, h, a2, b)
  BY <1>2, <1>3, <1>4, <1>6, <1>7, <1>8, <1>9 DEF StreamBytes, Taken, KvmNumbers, ExitNumbers, ViewNumbers
<1>14. StreamCredit(k, x, h, a2, b)
  <2>1. a.w = a2.w + n /\ (k.tab => x.st = "gone")
    BY <1>6, <1>9
  <2>2. StreamWindow \in Nat
    BY NexitAssumption
  <2> QED BY <1>2, <1>3, <1>4, <2>1, <2>2 DEF StreamCredit, KvmNumbers, ExitNumbers, ViewNumbers
<1> QED BY <1>1, <1>10, <1>11, <1>12, <1>13, <1>14 DEF StreamOK

(* The pump takes m bytes of the stream's credit.                          *)
LEMMA PumpClaimStep ==
    ASSUME NEW k, NEW x, NEW s \in Streams, NEW next \in Nat, NEW h \in Nat, NEW a, NEW b,
           Seen(a), Seen(b), StreamOK(k, x, s, next, h, a, b),
           x.st = "live", ~x.localEOF, x.claim = 0, x.sending = 0,
           NEW m \in Nat, m > 0, m <= x.credit, m <= MaxFrame
    PROVE  StreamOK(k, [x EXCEPT !.credit = x.credit - m, !.claim = m],
                    s, next, h, a, b)
<1> DEFINE y == [x EXCEPT !.credit = x.credit - m, !.claim = m]
<1>1. k \in KvmStream /\ x \in ExitStream
  BY StreamParts
<1>2. /\ Opening(k, x, s, next, h, a, b) /\ DownEOF(k, x, h, b) /\ UpEOF(k, x, a)
      /\ StreamBytes(k, x, h, a, b) /\ StreamCredit(k, x, h, a, b)
  BY StreamParts
<1>3. KvmTyped(k) /\ ExitTyped(x) /\ KvmNumbers(k) /\ ExitNumbers(x)
  BY StreamParts
<1>4. ViewNumbers(a) /\ ViewNumbers(b)
  BY ViewFields
<1>5. k.recvQ \in Sizes /\ k.recvQ \in Items /\ x.queue \in Items
  BY StreamParts
<1>6. s < next
  BY <1>2 DEF Opening, Streams
<1>7. x.credit - m \in Nat
  BY <1>3 DEF ExitNumbers
<1>8. ~k.remoteEOF /\ ~k.eof
  BY <1>2 DEF DownEOF
<1>9. y \in ExitStream
  BY <1>1, <1>2, <1>3, <1>4, <1>6, <1>7, <1>8, <1>5 DEF ExitStream, KvmTyped, ExitTyped, KvmNumbers, ExitNumbers
<1>10. /\ y.st = x.st /\ y.end = x.end /\ y.remoteEOF = x.remoteEOF
      /\ y.localEOF = x.localEOF /\ y.queue = x.queue /\ y.consumed = x.consumed
      /\ y.credit = x.credit - m /\ y.claim = m /\ y.sending = x.sending /\ y.read = x.read
      /\ y.put = x.put /\ y.shut = x.shut
  BY <1>1 DEF ExitStream
<1> HIDE DEF y
<1>11. Opening(k, y, s, next, h, a, b)
  BY <1>2, <1>3, <1>4, <1>6, <1>7, <1>8, <1>10 DEF Opening, FreshExit, Streams, KvmTyped, ExitTyped, ExitNumbers, ViewNumbers
<1>12. DownEOF(k, y, h, b)
  BY <1>2, <1>3, <1>4, <1>6, <1>7, <1>8, <1>10 DEF DownEOF, KvmTyped, ExitTyped, ExitNumbers, ViewNumbers
<1>13. UpEOF(k, y, a)
  BY <1>2, <1>3, <1>4, <1>6, <1>7, <1>8, <1>10 DEF UpEOF, KvmTyped, ExitTyped, ViewNumbers
<1>14. StreamBytes(k, y, h, a, b)
  BY <1>2, <1>3, <1>4, <1>6, <1>7, <1>8, <1>10 DEF StreamBytes, KvmNumbers, ExitNumbers, ViewNumbers
<1>15. StreamCredit(k, y, h, a, b)
  BY <1>2, <1>3, <1>4, <1>6, <1>7, <1>8, <1>10 DEF StreamCredit, KvmNumbers, ExitNumbers, ViewNumbers
<1> QED BY <1>1, <1>9, <1>11, <1>12, <1>13, <1>14, <1>15 DEF StreamOK, y

(* The pump takes m bytes of the connection's credit, and the rest of its   *)
(* claim returns to the stream, unless that was dropped.                   *)
LEMMA PumpTakeStep ==
    ASSUME NEW k, NEW x, NEW s \in Streams, NEW next \in Nat, NEW h \in Nat, NEW a, NEW b,
           Seen(a), Seen(b), StreamOK(k, x, s, next, h, a, b),
           NEW m \in Nat, m > 0, m <= x.claim, NEW c \in Nat,
           c <= x.credit + (x.claim - m), x.st = "live" => c = x.credit + (x.claim - m)
    PROVE  StreamOK(k, [x EXCEPT !.credit = c, !.claim = 0, !.sending = m, !.read = x.read + m],
                    s, next, h, a, b)
<1> DEFINE y == [x EXCEPT !.credit = c, !.claim = 0, !.sending = m, !.read = x.read + m]
<1>1. k \in KvmStream /\ x \in ExitStream
  BY StreamParts
<1>2. /\ Opening(k, x, s, next, h, a, b) /\ DownEOF(k, x, h, b) /\ UpEOF(k, x, a)
      /\ StreamBytes(k, x, h, a, b) /\ StreamCredit(k, x, h, a, b)
  BY StreamParts
<1>3. KvmTyped(k) /\ ExitTyped(x) /\ KvmNumbers(k) /\ ExitNumbers(x)
  BY StreamParts
<1>4. ViewNumbers(a) /\ ViewNumbers(b)
  BY ViewFields
<1>5. k.recvQ \in Sizes /\ k.recvQ \in Items /\ x.queue \in Items
  BY StreamParts
<1>6. s < next /\ x.st \in {"live", "gone"} /\ ~x.localEOF /\ x.sending = 0
  <2>1. x.claim # 0
    BY <1>3 DEF ExitNumbers
  <2>2. x.st \in {"live", "gone"}
    BY <1>2, <1>3, <2>1 DEF Opening, FreshExit, ExitTyped
  <2>3. s < next
    BY <1>2, <2>2 DEF Opening, Streams
  <2> QED BY <1>2, <2>1, <2>2, <2>3 DEF DownEOF, StreamBytes
<1>7. /\ x.read + m \in Nat /\ 0 <= MaxFrame /\ c + m <= x.credit + x.claim
      /\ x.st = "live" => c + m = x.credit + x.claim
  BY <1>3, NexitAssumption DEF ExitNumbers
<1>8. ~k.remoteEOF /\ ~k.eof
  BY <1>2, <1>6 DEF DownEOF
<1>9. y \in ExitStream
  BY <1>1, <1>2, <1>3, <1>4, <1>6, <1>7, <1>8, <1>5 DEF ExitStream, KvmTyped, ExitTyped, KvmNumbers, ExitNumbers
<1>10. /\ y.st = x.st /\ y.end = x.end /\ y.remoteEOF = x.remoteEOF
      /\ y.localEOF = x.localEOF /\ y.queue = x.queue /\ y.consumed = x.consumed
      /\ y.credit = c /\ y.claim = 0 /\ y.sending = m /\ y.read = x.read + m
      /\ y.put = x.put /\ y.shut = x.shut
  BY <1>1 DEF ExitStream
<1> HIDE DEF y
<1>11. Opening(k, y, s, next, h, a, b)
  BY <1>2, <1>3, <1>4, <1>6, <1>7, <1>8, <1>10 DEF Opening, FreshExit, Streams, KvmTyped, ExitTyped, ExitNumbers, ViewNumbers
<1>12. DownEOF(k, y, h, b)
  BY <1>2, <1>3, <1>4, <1>6, <1>7, <1>8, <1>10 DEF DownEOF, KvmTyped, ExitTyped, ExitNumbers, ViewNumbers
<1>13. UpEOF(k, y, a)
  BY <1>2, <1>3, <1>4, <1>6, <1>7, <1>8, <1>10 DEF UpEOF, KvmTyped, ExitTyped, ViewNumbers
<1>14. StreamBytes(k, y, h, a, b)
  BY <1>2, <1>3, <1>4, <1>6, <1>7, <1>8, <1>10 DEF StreamBytes, KvmNumbers, ExitNumbers, ViewNumbers
<1>15. StreamCredit(k, y, h, a, b)
  <2> DEFINE p == x.credit + x.claim + x.sending
             q == y.credit + y.claim + y.sending
             r == b.d + h + Sum(k.recvQ) + k.consumed + a.w
  <2>1. p \in Nat /\ q \in Nat /\ q <= p /\ (x.st # "gone" => q = p)
    BY <1>3, <1>6, <1>7, <1>8, <1>10 DEF ExitNumbers
  <2>2. r \in Nat /\ StreamWindow \in Nat
    BY <1>3, <1>4, NexitAssumption DEF KvmNumbers, ViewNumbers
  <2>3. /\ x.credit + x.claim + x.sending + b.d + h + Sum(k.recvQ) + k.consumed + a.w = p + r
        /\ y.credit + y.claim + y.sending + b.d + h + Sum(k.recvQ) + k.consumed + a.w = q + r
    BY <1>3, <1>4, <1>7, <1>10 DEF KvmNumbers, ExitNumbers, ViewNumbers
  <2> HIDE DEF p, q, r
  <2>4. p + r <= StreamWindow => q + r <= StreamWindow
    BY <2>1, <2>2
  <2>5. y.st = x.st /\ y.queue = x.queue /\ y.consumed = x.consumed
    BY <1>10
  <2> QED BY <1>2, <2>1, <2>3, <2>4, <2>5 DEF StreamCredit
<1> QED BY <1>1, <1>9, <1>11, <1>12, <1>13, <1>14, <1>15 DEF StreamOK, y

(* The pump gives up its claim on a dropped stream.                        *)
LEMMA PumpGivesUpStep ==
    ASSUME NEW k, NEW x, NEW s \in Streams, NEW next \in Nat, NEW h \in Nat, NEW a, NEW b,
           Seen(a), Seen(b), StreamOK(k, x, s, next, h, a, b),
           x.claim > 0, x.st = "gone"
    PROVE  StreamOK(k, [x EXCEPT !.claim = 0],
                    s, next, h, a, b)
<1> DEFINE y == [x EXCEPT !.claim = 0]
<1>1. k \in KvmStream /\ x \in ExitStream
  BY StreamParts
<1>2. /\ Opening(k, x, s, next, h, a, b) /\ DownEOF(k, x, h, b) /\ UpEOF(k, x, a)
      /\ StreamBytes(k, x, h, a, b) /\ StreamCredit(k, x, h, a, b)
  BY StreamParts
<1>3. KvmTyped(k) /\ ExitTyped(x) /\ KvmNumbers(k) /\ ExitNumbers(x)
  BY StreamParts
<1>4. ViewNumbers(a) /\ ViewNumbers(b)
  BY ViewFields
<1>5. k.recvQ \in Sizes /\ k.recvQ \in Items /\ x.queue \in Items
  BY StreamParts
<1>6. s < next
  BY <1>2 DEF Opening, Streams
<1>7. 0 <= MaxFrame
  BY NexitAssumption
<1>8. ~x.localEOF /\ x.sending = 0
  <2>1. x.claim # 0
    BY <1>3 DEF ExitNumbers
  <2> QED BY <1>2, <2>1 DEF DownEOF, StreamBytes
<1>9. y \in ExitStream
  BY <1>1, <1>2, <1>3, <1>4, <1>6, <1>7, <1>8, <1>5 DEF ExitStream, KvmTyped, ExitTyped, KvmNumbers, ExitNumbers
<1>10. /\ y.st = x.st /\ y.end = x.end /\ y.remoteEOF = x.remoteEOF
      /\ y.localEOF = x.localEOF /\ y.queue = x.queue /\ y.consumed = x.consumed
      /\ y.credit = x.credit /\ y.claim = 0 /\ y.sending = x.sending /\ y.read = x.read
      /\ y.put = x.put /\ y.shut = x.shut
  BY <1>1 DEF ExitStream
<1> HIDE DEF y
<1>11. Opening(k, y, s, next, h, a, b)
  BY <1>2, <1>3, <1>4, <1>6, <1>7, <1>8, <1>10 DEF Opening, FreshExit, Streams, KvmTyped, ExitTyped, ExitNumbers, ViewNumbers
<1>12. DownEOF(k, y, h, b)
  BY <1>2, <1>3, <1>4, <1>6, <1>7, <1>8, <1>10 DEF DownEOF, KvmTyped, ExitTyped, ExitNumbers, ViewNumbers
<1>13. UpEOF(k, y, a)
  BY <1>2, <1>3, <1>4, <1>6, <1>7, <1>8, <1>10 DEF UpEOF, KvmTyped, ExitTyped, ViewNumbers
<1>14. StreamBytes(k, y, h, a, b)
  BY <1>2, <1>3, <1>4, <1>6, <1>7, <1>8, <1>10 DEF StreamBytes, KvmNumbers, ExitNumbers, ViewNumbers
<1>15. StreamCredit(k, y, h, a, b)
  <2> DEFINE p == x.credit + x.claim + x.sending
             q == y.credit + y.claim + y.sending
             r == b.d + h + Sum(k.recvQ) + k.consumed + a.w
  <2>1. p \in Nat /\ q \in Nat /\ q <= p /\ (x.st # "gone" => q = p)
    BY <1>3, <1>6, <1>7, <1>8, <1>10 DEF ExitNumbers
  <2>2. r \in Nat /\ StreamWindow \in Nat
    BY <1>3, <1>4, NexitAssumption DEF KvmNumbers, ViewNumbers
  <2>3. /\ x.credit + x.claim + x.sending + b.d + h + Sum(k.recvQ) + k.consumed + a.w = p + r
        /\ y.credit + y.claim + y.sending + b.d + h + Sum(k.recvQ) + k.consumed + a.w = q + r
    BY <1>3, <1>4, <1>7, <1>10 DEF KvmNumbers, ExitNumbers, ViewNumbers
  <2> HIDE DEF p, q, r
  <2>4. p + r <= StreamWindow => q + r <= StreamWindow
    BY <2>1, <2>2
  <2>5. y.st = x.st /\ y.queue = x.queue /\ y.consumed = x.consumed
    BY <1>10
  <2> QED BY <1>2, <2>1, <2>3, <2>4, <2>5 DEF StreamCredit
<1> QED BY <1>1, <1>9, <1>11, <1>12, <1>13, <1>14, <1>15 DEF StreamOK, y

(* The destination closes its side: EOF leaves.                            *)
LEMMA PumpEOFStep ==
    ASSUME NEW k, NEW x, NEW s \in Streams, NEW next \in Nat, NEW h \in Nat, NEW a, NEW b,
           Seen(a), Seen(b), StreamOK(k, x, s, next, h, a, b),
           x.st = "live", ~x.localEOF, x.claim = 0, x.sending = 0,
           NEW b2, Seen(b2), Sent(b, "EOF", 0, b2)
    PROVE  StreamOK(k, [x EXCEPT !.localEOF = TRUE], s, next, h, a, b2)
<1> DEFINE y == [x EXCEPT !.localEOF = TRUE]
<1>1. k \in KvmStream /\ x \in ExitStream
  BY StreamParts
<1>2. /\ Opening(k, x, s, next, h, a, b) /\ DownEOF(k, x, h, b) /\ UpEOF(k, x, a)
      /\ StreamBytes(k, x, h, a, b) /\ StreamCredit(k, x, h, a, b)
  BY StreamParts
<1>3. KvmTyped(k) /\ ExitTyped(x) /\ KvmNumbers(k) /\ ExitNumbers(x)
  BY StreamParts
<1>4. ViewNumbers(a) /\ ViewNumbers(b) /\ ViewNumbers(b2)
  BY ViewFields
<1>5. k.recvQ \in Sizes /\ k.recvQ \in Items /\ x.queue \in Items
  BY StreamParts
<1>6. s < next
  BY <1>2 DEF Opening, Streams
<1>7. b2.d = b.d /\ b2.w = b.w
  BY <1>4 DEF Sent, ViewNumbers
<1>8. ~k.remoteEOF /\ ~k.eof /\ "EOF" \notin b.has
  BY <1>2 DEF DownEOF
<1>9. TRUE \in BOOLEAN
  OBVIOUS
<1>10. y \in ExitStream
  BY <1>1, <1>2, <1>3, <1>4, <1>6, <1>7, <1>8, <1>9, <1>5 DEF ExitStream, KvmTyped, ExitTyped, KvmNumbers, ExitNumbers
<1>11. /\ y.st = x.st /\ y.end = x.end /\ y.remoteEOF = x.remoteEOF /\ y.localEOF = TRUE
      /\ y.queue = x.queue /\ y.consumed = x.consumed /\ y.credit = x.credit
      /\ y.claim = x.claim /\ y.sending = x.sending /\ y.read = x.read /\ y.put = x.put /\ y.shut = x.shut
  BY <1>1 DEF ExitStream
<1> HIDE DEF y
<1>12. Opening(k, y, s, next, h, a, b2)
  BY <1>2, <1>3, <1>4, <1>6, <1>7, <1>8, <1>9, <1>11 DEF Opening, Sent, Streams, KvmTyped, ExitTyped, ViewNumbers
<1>13. DownEOF(k, y, h, b2)
  BY <1>2, <1>3, <1>4, <1>6, <1>7, <1>8, <1>9, <1>11 DEF DownEOF, Sent, KvmTyped, ExitTyped, ViewNumbers
<1>14. UpEOF(k, y, a)
  BY <1>2, <1>11 DEF UpEOF
<1>15. StreamBytes(k, y, h, a, b2)
  BY <1>2, <1>3, <1>4, <1>6, <1>7, <1>8, <1>9, <1>11 DEF StreamBytes, Sent, KvmNumbers, ExitNumbers, ViewNumbers
<1>16. StreamCredit(k, y, h, a, b2)
  BY <1>2, <1>3, <1>4, <1>6, <1>7, <1>8, <1>9, <1>11 DEF StreamCredit, Sent, KvmNumbers, ExitNumbers, ViewNumbers
<1> QED BY <1>1, <1>10, <1>12, <1>13, <1>14, <1>15, <1>16 DEF StreamOK, y

(* n bytes reach the destination, and q is left of the queue; c bytes are  *)
(* owed then and m are announced.                                          *)
LEMMA DrainStep ==
    ASSUME NEW k, NEW x, NEW s \in Streams, NEW next \in Nat, NEW h \in Nat, NEW a, NEW b,
           Seen(a), Seen(b), StreamOK(k, x, s, next, h, a, b),
           x.st = "live", ~x.shut,
           NEW n \in Nat, NEW q \in Items, Sum(q) \in Nat, Sum(q) + n = Sum(x.queue),
           EOFItemLast(x.queue) => EOFItemLast(q),
           NoEOFItem(x.queue) => NoEOFItem(q),
           NEW c \in Nat, NEW m \in Nat, c + m = x.consumed + n,
           NEW b2, Seen(b2), Sent(b, "WINDOW", m, b2)
    PROVE  StreamOK(k, [x EXCEPT !.queue = q, !.put = x.put + n, !.consumed = c], s, next, h, a, b2)
<1> DEFINE y == [x EXCEPT !.queue = q, !.put = x.put + n, !.consumed = c]
<1>1. k \in KvmStream /\ x \in ExitStream
  BY StreamParts
<1>2. /\ Opening(k, x, s, next, h, a, b) /\ DownEOF(k, x, h, b) /\ UpEOF(k, x, a)
      /\ StreamBytes(k, x, h, a, b) /\ StreamCredit(k, x, h, a, b)
  BY StreamParts
<1>3. KvmTyped(k) /\ ExitTyped(x) /\ KvmNumbers(k) /\ ExitNumbers(x)
  BY StreamParts
<1>4. ViewNumbers(a) /\ ViewNumbers(b) /\ ViewNumbers(b2)
  BY ViewFields
<1>5. k.recvQ \in Sizes /\ k.recvQ \in Items /\ x.queue \in Items
  BY StreamParts
<1>6. s < next
  BY <1>2 DEF Opening, Streams
<1>7. x.put + n \in Nat
  BY <1>3 DEF ExitNumbers
<1>8. b2.d = b.d /\ b2.w = b.w + m
  BY <1>4 DEF Sent, ViewNumbers
<1>9. EOFItemLast(x.queue) /\ (x.remoteEOF \/ NoEOFItem(x.queue))
  BY <1>2, <1>3 DEF UpEOF, EOFItemLast, NoEOFItem
<1>10. y \in ExitStream
  BY <1>1, <1>2, <1>3, <1>4, <1>6, <1>7, <1>8, <1>9, <1>5 DEF ExitStream, KvmTyped, ExitTyped, KvmNumbers, ExitNumbers
<1>11. /\ y.st = x.st /\ y.end = x.end /\ y.remoteEOF = x.remoteEOF
      /\ y.localEOF = x.localEOF /\ y.queue = q /\ y.consumed = c /\ y.credit = x.credit
      /\ y.claim = x.claim /\ y.sending = x.sending /\ y.read = x.read /\ y.put = x.put + n
      /\ y.shut = x.shut
  BY <1>1 DEF ExitStream
<1> HIDE DEF y
<1>12. Opening(k, y, s, next, h, a, b2)
  BY <1>2, <1>3, <1>4, <1>6, <1>7, <1>8, <1>9, <1>11 DEF Opening, Sent, Streams, KvmTyped, ExitTyped, ViewNumbers
<1>13. DownEOF(k, y, h, b2)
  BY <1>2, <1>3, <1>4, <1>6, <1>7, <1>8, <1>9, <1>11 DEF DownEOF, Sent, KvmTyped, ExitTyped, ViewNumbers
<1>14. UpEOF(k, y, a)
  <2>1. \A i \in DOMAIN q : q[i] = 0 => i = Len(q) /\ x.remoteEOF
    BY <1>9 DEF EOFItemLast, NoEOFItem
  <2> QED BY <1>2, <1>11, <2>1 DEF UpEOF
<1>15. StreamBytes(k, y, h, a, b2)
  BY <1>2, <1>3, <1>4, <1>6, <1>7, <1>8, <1>9, <1>11 DEF StreamBytes, Sent, KvmNumbers, ExitNumbers, ViewNumbers
<1>16. StreamCredit(k, y, h, a, b2)
  <2>1. y.st = x.st /\ y.credit = x.credit /\ y.claim = x.claim /\ y.sending = x.sending /\ b2.d = b.d
    BY <1>8, <1>11
  <2>2. Sum(y.queue) = Sum(q) /\ y.consumed = c /\ b2.w = b.w + m
    BY <1>8, <1>11
  <2>3. Sum(y.queue) + y.consumed + b2.w = Sum(x.queue) + x.consumed + b.w
    BY <1>3, <1>4, <2>2 DEF ExitNumbers, ViewNumbers
  <2>4. Sum(y.queue) \in Nat /\ y.consumed \in Nat /\ b2.w \in Nat
    BY <1>4, <2>2 DEF ViewNumbers
  <2> QED BY <1>2, <1>3, <1>4, <2>1, <2>3, <2>4 DEF StreamCredit, KvmNumbers, ExitNumbers, ViewNumbers
<1> QED BY <1>1, <1>10, <1>12, <1>13, <1>14, <1>15, <1>16 DEF StreamOK, y

(* The eof item is reached: the destination sees the half close.           *)
LEMMA ShutStep ==
    ASSUME NEW k, NEW x, NEW s \in Streams, NEW next \in Nat, NEW h \in Nat, NEW a, NEW b,
           Seen(a), Seen(b), StreamOK(k, x, s, next, h, a, b),
           x.st = "live", x.remoteEOF,
           Sum(x.queue) = 0
    PROVE  StreamOK(k, [x EXCEPT !.queue = <<>>, !.shut = TRUE], s, next, h, a, b)
<1> DEFINE y == [x EXCEPT !.queue = <<>>, !.shut = TRUE]
<1>1. k \in KvmStream /\ x \in ExitStream
  BY StreamParts
<1>2. /\ Opening(k, x, s, next, h, a, b) /\ DownEOF(k, x, h, b) /\ UpEOF(k, x, a)
      /\ StreamBytes(k, x, h, a, b) /\ StreamCredit(k, x, h, a, b)
  BY StreamParts
<1>3. KvmTyped(k) /\ ExitTyped(x) /\ KvmNumbers(k) /\ ExitNumbers(x)
  BY StreamParts
<1>4. ViewNumbers(a) /\ ViewNumbers(b)
  BY ViewFields
<1>5. k.recvQ \in Sizes /\ k.recvQ \in Items /\ x.queue \in Items
  BY StreamParts
<1>6. s < next
  BY <1>2 DEF Opening, Streams
<1>7. <<>> \in Items /\ TRUE \in BOOLEAN
  BY DEF Items
<1>8. Sum(<<>>) = 0
  BY SumEmpty
<1>9. k.localEOF /\ a.d = 0 /\ "EOF" \notin a.has /\ k.claim = 0 /\ k.sending = 0
  BY <1>2 DEF UpEOF
<1>10. x.put = k.sent
  BY <1>2, <1>3, <1>9 DEF StreamBytes, ExitNumbers, KvmNumbers
<1>11. y \in ExitStream
  BY <1>1, <1>2, <1>3, <1>4, <1>6, <1>7, <1>8, <1>9, <1>10, <1>5 DEF ExitStream, KvmTyped, ExitTyped, KvmNumbers, ExitNumbers
<1>12. /\ y.st = x.st /\ y.end = x.end /\ y.remoteEOF = x.remoteEOF
      /\ y.localEOF = x.localEOF /\ y.queue = <<>> /\ y.consumed = x.consumed
      /\ y.credit = x.credit /\ y.claim = x.claim /\ y.sending = x.sending /\ y.read = x.read
      /\ y.put = x.put /\ y.shut = TRUE
  BY <1>1 DEF ExitStream
<1> HIDE DEF y
<1>13. Opening(k, y, s, next, h, a, b)
  BY <1>2, <1>3, <1>4, <1>6, <1>7, <1>8, <1>9, <1>10, <1>12 DEF Opening, Streams, KvmTyped, ExitTyped, ViewNumbers
<1>14. DownEOF(k, y, h, b)
  BY <1>2, <1>3, <1>4, <1>6, <1>7, <1>8, <1>9, <1>10, <1>12 DEF DownEOF, KvmTyped, ExitTyped, ViewNumbers
<1>15. UpEOF(k, y, a)
  <2>1. /\ y.queue = <<>> /\ DOMAIN y.queue = {} /\ y.remoteEOF = x.remoteEOF /\ y.put = x.put
    BY <1>12
  <2> QED BY <1>2, <1>9, <1>10, <2>1 DEF UpEOF
<1>16. StreamBytes(k, y, h, a, b)
  BY <1>2, <1>3, <1>4, <1>6, <1>7, <1>8, <1>9, <1>10, <1>12 DEF StreamBytes, KvmNumbers, ExitNumbers, ViewNumbers
<1>17. StreamCredit(k, y, h, a, b)
  BY <1>2, <1>3, <1>4, <1>6, <1>7, <1>8, <1>9, <1>10, <1>12 DEF StreamCredit, KvmNumbers, ExitNumbers, ViewNumbers
<1> QED BY <1>1, <1>11, <1>13, <1>14, <1>15, <1>16, <1>17 DEF StreamOK, y

-----------------------------------------------------------------------------
(* Channels as a whole.                                                    *)

(* The view of every stream but s, or of all, is as it was.                *)
Elsewhere(c, c2, s) == \A t \in Streams \ {s} : View(c2, t) = View(c, t)
Everywhere(c, c2) == \A t \in Streams : View(c2, t) = View(c, t)

(* Stream ids are positive, so that 0 can name the connection.             *)
LEMMA StreamIds == 0 \notin Streams /\ Streams \subseteq Nat \ {0} /\ IsFiniteSet(Streams)
<1>1. NStreams \in Nat
  BY NexitAssumption
<1> QED BY <1>1, FS_Interval DEF Streams

(* What the two sums and the views of a channel are.                       *)
LEMMA ChannelType ==
    ASSUME NEW c \in Seq(Frames)
    PROVE  /\ DataOf(c) \in Nat /\ WindowOf(c) \in Nat
           /\ \A s : Seen(View(c, s))
BY CarriedType, ViewSeen DEF DataOf, WindowOf

(* The two sums of a whole.                                                *)
LEMMA ConcatOf ==
    ASSUME NEW c \in Seq(Frames), NEW g \in Seq(Frames)
    PROVE  DataOf(c \o g) = DataOf(c) + DataOf(g) /\ WindowOf(c \o g) = WindowOf(c) + WindowOf(g)
BY CarriedConcat DEF DataOf, WindowOf

(* The two sums of the channel of one frame.                               *)
LEMMA OneOf ==
    ASSUME NEW f \in Frames
    PROVE  /\ <<f>> \in Seq(Frames)
           /\ DataOf(<<f>>) = (IF f.type = "DATA" THEN f.n ELSE 0)
           /\ WindowOf(<<f>>) = (IF f.type = "WINDOW" /\ f.id = 0 THEN f.n ELSE 0)
<1>1. f.type = "DATA" => f.id \in Streams
  BY FrameFields
<1> QED BY <1>1, CarriedOne DEF DataOf, WindowOf

(* A frame sent moves the sums, and the view of its stream only.           *)
LEMMA ChannelSend ==
    ASSUME NEW c \in Seq(Frames), NEW f \in Frames
    PROVE  LET d == c \o <<f>> IN
           /\ d \in Seq(Frames) /\ d = Append(c, f)
           /\ DataOf(d) = DataOf(c) + (IF f.type = "DATA" THEN f.n ELSE 0)
           /\ WindowOf(d) = WindowOf(c) + (IF f.type = "WINDOW" /\ f.id = 0 THEN f.n ELSE 0)
           /\ Elsewhere(c, d, f.id)
           /\ (f.id = 0 \/ f.type \in {"RST", "OPEN_FAIL"}) => Everywhere(c, d)
           /\ Sent(View(c, f.id), f.type, f.n, View(d, f.id))
<1> DEFINE d == c \o <<f>>
<1>1. d \in Seq(Frames) /\ d = Append(c, f) /\ <<f>> \in Seq(Frames)
  OBVIOUS
<1>2. /\ DataOf(d) = DataOf(c) + (IF f.type = "DATA" THEN f.n ELSE 0)
      /\ WindowOf(d) = WindowOf(c) + (IF f.type = "WINDOW" /\ f.id = 0 THEN f.n ELSE 0)
  <2>1. <<f>> \in Seq(Frames)
    BY OneOf
  <2>2. DataOf(d) = DataOf(c) + DataOf(<<f>>) /\ WindowOf(d) = WindowOf(c) + WindowOf(<<f>>)
    BY <2>1, ConcatOf
  <2> QED BY <2>2, OneOf
<1>5. \A t : (f.id # t \/ f.type \in {"RST", "OPEN_FAIL"}) => View(d, t) = View(c, t)
  BY ViewOthers
<1>6. Elsewhere(c, d, f.id) /\ ((f.id = 0 \/ f.type \in {"RST", "OPEN_FAIL"}) => Everywhere(c, d))
  BY <1>5, StreamIds DEF Elsewhere, Everywhere
<1>7. Sent(View(c, f.id), f.type, f.n, View(d, f.id))
  BY ViewSent
<1> QED BY <1>1, <1>2, <1>6, <1>7

(* A frame taken moves the sums, and the view of its stream only.          *)
LEMMA ChannelTake ==
    ASSUME NEW c \in Seq(Frames), c # <<>>
    PROVE  LET f == Head(c)  d == Tail(c) IN
           /\ f \in Frames /\ d \in Seq(Frames)
           /\ DataOf(c) = DataOf(d) + (IF f.type = "DATA" THEN f.n ELSE 0)
           /\ WindowOf(c) = WindowOf(d) + (IF f.type = "WINDOW" /\ f.id = 0 THEN f.n ELSE 0)
           /\ Elsewhere(c, d, f.id)
           /\ (f.id = 0 \/ f.type \in {"RST", "OPEN_FAIL"}) => Everywhere(c, d)
           /\ Taken(View(c, f.id), f.type, f.n, View(d, f.id))
<1> DEFINE f == Head(c)
           d == Tail(c)
<1>1. f \in Frames /\ d \in Seq(Frames) /\ <<f>> \in Seq(Frames) /\ c = <<f>> \o d
  OBVIOUS
<1>2. DataOf(d) \in Nat /\ WindowOf(d) \in Nat /\ f.n \in Nat
  BY <1>1, ChannelType, FrameFields
<1>3. /\ DataOf(c) = DataOf(d) + (IF f.type = "DATA" THEN f.n ELSE 0)
      /\ WindowOf(c) = WindowOf(d) + (IF f.type = "WINDOW" /\ f.id = 0 THEN f.n ELSE 0)
  <2> HIDE DEF f, d
  <2>1. <<f>> \in Seq(Frames)
    BY <1>1, OneOf
  <2>2. /\ DataOf(<<f>> \o d) = DataOf(<<f>>) + DataOf(d)
        /\ WindowOf(<<f>> \o d) = WindowOf(<<f>>) + WindowOf(d)
    BY <1>1, <2>1, ConcatOf
  <2>3. /\ DataOf(<<f>>) = (IF f.type = "DATA" THEN f.n ELSE 0)
        /\ WindowOf(<<f>>) = (IF f.type = "WINDOW" /\ f.id = 0 THEN f.n ELSE 0)
    BY <1>1, OneOf
  <2>4. DataOf(c) = DataOf(<<f>> \o d) /\ WindowOf(c) = WindowOf(<<f>> \o d)
    BY <1>1
  <2> QED BY <1>2, <2>2, <2>3, <2>4
<1>6. \A t : (f.id # t \/ f.type \in {"RST", "OPEN_FAIL"}) => View(d, t) = View(c, t)
  BY ViewOthers
<1>7. Elsewhere(c, d, f.id) /\ ((f.id = 0 \/ f.type \in {"RST", "OPEN_FAIL"}) => Everywhere(c, d))
  BY <1>6, StreamIds DEF Elsewhere, Everywhere
<1>8. Taken(View(c, f.id), f.type, f.n, View(d, f.id))
  BY ViewTaken
<1> QED BY <1>1, <1>3, <1>7, <1>8

(* Credit for n bytes becomes owed, or granted with all that was owed.     *)
Credited(w, owed, n, owed2, granted, granted2) ==
    IF owed + n >= w \div 2
      THEN owed2 = 0 /\ granted2 = granted + owed + n
      ELSE owed2 = owed + n /\ granted2 = granted

(* The frames of WindowFrame for the connection, and for a stream.         *)
LEMMA ConnFrames ==
    ASSUME NEW c \in Seq(Frames), NEW owed \in Nat, NEW n \in Nat \ {0}
    PROVE  LET d == c \o WindowFrame(0, ConnWindow, owed, n) IN
           /\ d \in Seq(Frames) /\ DataOf(d) = DataOf(c) /\ Everywhere(c, d)
           /\ Credited(ConnWindow, owed, n, Owed(ConnWindow, owed, n), WindowOf(c), WindowOf(d))
<1> DEFINE f == Frame("WINDOW", 0, owed + n)
           d == c \o WindowFrame(0, ConnWindow, owed, n)
<1>0. ConnWindow \in Nat /\ DataOf(c) \in Nat /\ WindowOf(c) \in Nat
  BY NexitAssumption, ChannelType
<1>1. CASE owed + n >= ConnWindow \div 2
  <2>1. f \in Frames
    BY NexitAssumption DEF Frames, Frame, FrameTypes
  <2>2. f.type = "WINDOW" /\ f.id = 0 /\ f.n = owed + n
    BY DEF Frame
  <2>3. d = c \o <<f>>
    BY <1>1 DEF WindowFrame
  <2>4. Owed(ConnWindow, owed, n) = 0
    BY <1>1 DEF Owed
  <2> HIDE DEF f, d
  <2>5. d \in Seq(Frames) /\ DataOf(d) = DataOf(c) + 0 /\ Everywhere(c, d)
    BY <2>1, <2>2, <2>3, ChannelSend
  <2>6. WindowOf(d) = WindowOf(c) + (owed + n)
    BY <2>1, <2>2, <2>3, ChannelSend
  <2>7. Credited(ConnWindow, owed, n, Owed(ConnWindow, owed, n), WindowOf(c), WindowOf(d))
    BY <1>0, <1>1, <2>4, <2>6 DEF Credited
  <2> QED BY <1>0, <2>5, <2>7 DEF d
<1>2. CASE ~(owed + n >= ConnWindow \div 2)
  <2>1. WindowFrame(0, ConnWindow, owed, n) = <<>>
    BY <1>2 DEF WindowFrame
  <2>2. d = c
    BY <2>1
  <2>3. Owed(ConnWindow, owed, n) = owed + n
    BY <1>2 DEF Owed
  <2> HIDE DEF d
  <2> QED BY <1>2, <2>2, <2>3 DEF Everywhere, Credited, d
<1> QED BY <1>1, <1>2

(* A WINDOW of nothing is no frame at all.                                 *)
LEMMA SentNothing ==
    ASSUME NEW v, Seen(v)
    PROVE  Sent(v, "WINDOW", 0, v)
BY ViewFields DEF Sent, ViewNumbers

(* A WINDOW of a stream announces all that is owed, or nothing.            *)
LEMMA StreamFrames ==
    ASSUME NEW c \in Seq(Frames), NEW s \in Streams, NEW owed \in Nat, NEW n \in Nat \ {0}
    PROVE  LET d == c \o WindowFrame(s, StreamWindow, owed, n) IN
           /\ d \in Seq(Frames) /\ DataOf(d) = DataOf(c) /\ WindowOf(d) = WindowOf(c)
           /\ Elsewhere(c, d, s)
           /\ Owed(StreamWindow, owed, n) \in Nat
           /\ \E m \in Nat : /\ Owed(StreamWindow, owed, n) + m = owed + n
                             /\ Sent(View(c, s), "WINDOW", m, View(d, s))
<1> DEFINE f == Frame("WINDOW", s, owed + n)
           d == c \o WindowFrame(s, StreamWindow, owed, n)
<1>0. StreamWindow \in Nat /\ DataOf(c) \in Nat /\ WindowOf(c) \in Nat /\ s # 0
  BY NexitAssumption, ChannelType, StreamIds
<1>1. CASE owed + n >= StreamWindow \div 2
  <2>1. f \in Frames
    BY NexitAssumption DEF Frames, Frame, FrameTypes, Streams
  <2>2. f.type = "WINDOW" /\ f.id = s /\ f.n = owed + n
    BY DEF Frame
  <2>3. d = c \o <<f>>
    BY <1>1 DEF WindowFrame
  <2>4. Owed(StreamWindow, owed, n) = 0
    BY <1>1 DEF Owed
  <2> HIDE DEF f, d
  <2>5. d \in Seq(Frames) /\ DataOf(d) = DataOf(c) + 0 /\ WindowOf(d) = WindowOf(c) + 0
    BY <1>0, <2>1, <2>2, <2>3, ChannelSend
  <2>6. Elsewhere(c, d, s) /\ Sent(View(c, s), "WINDOW", owed + n, View(d, s))
    BY <2>1, <2>2, <2>3, ChannelSend
  <2>7. Owed(StreamWindow, owed, n) + (owed + n) = owed + n /\ owed + n \in Nat
    BY <2>4
  <2> QED BY <1>0, <2>4, <2>5, <2>6, <2>7 DEF d
<1>2. CASE ~(owed + n >= StreamWindow \div 2)
  <2>1. WindowFrame(s, StreamWindow, owed, n) = <<>>
    BY <1>2 DEF WindowFrame
  <2>2. d = c
    BY <2>1
  <2>3. Owed(StreamWindow, owed, n) = owed + n
    BY <1>2 DEF Owed
  <2>4. Sent(View(c, s), "WINDOW", 0, View(c, s))
    BY SentNothing, ViewSeen
  <2> HIDE DEF d
  <2>5. Owed(StreamWindow, owed, n) + 0 = owed + n
    BY <2>3
  <2> QED BY <2>2, <2>3, <2>4, <2>5 DEF Elsewhere, d
<1> QED BY <1>1, <1>2

-----------------------------------------------------------------------------
(* The session as a whole.                                                 *)

(* No summand exceeds the sum.                                             *)
LEMMA SumOver ==
    ASSUME NEW f \in [Streams -> Nat], NEW s \in Streams
    PROVE  Sum(f) \in Nat /\ f[s] <= Sum(f)
<1> DEFINE g == [t \in Streams |-> IF t = s THEN 0 ELSE f[t]]
<1>1. IsFiniteSet(Streams)
  BY StreamIds
<1>2. g \in [Streams -> Nat] /\ g[s] = 0 /\ \A t \in Streams \ {s} : g[t] = f[t]
  OBVIOUS
<1> HIDE DEF g
<1>3. Sum(f) \in Nat /\ Sum(g) \in Nat
  BY <1>1, <1>2, SumType
<1>4. Sum(g) + f[s] = Sum(f) + g[s]
  BY <1>1, <1>2, SumChange
<1>5. f[s] \in Nat
  OBVIOUS
<1> QED BY <1>2, <1>3, <1>4, <1>5

(* Two states of the streams that differ at s only.                        *)
Differ(f, g, s) == \A t \in Streams \ {s} : g[t] = f[t]
AllKvm(f) == \A t \in Streams : f[t] \in KvmStream
AllExit(f) == \A t \in Streams : f[t] \in ExitStream

(* What the kvm's queues hold changes as the one queue does.               *)
LEMMA HeldChange ==
    ASSUME NEW f, NEW g, NEW s \in Streams, AllKvm(f), AllKvm(g), Differ(f, g, s)
    PROVE  /\ HeldBy(f) \in Nat /\ HeldBy(g) \in Nat
           /\ Sum(f[s].recvQ) \in Nat /\ Sum(g[s].recvQ) \in Nat
           /\ Sum(f[s].recvQ) <= HeldBy(f)
           /\ HeldBy(g) + Sum(f[s].recvQ) = HeldBy(f) + Sum(g[s].recvQ)
<1> DEFINE p == [t \in Streams |-> Sum(f[t].recvQ)]
           q == [t \in Streams |-> Sum(g[t].recvQ)]
<1>1. \A t \in Streams : Sum(f[t].recvQ) \in Nat /\ Sum(g[t].recvQ) \in Nat
  BY KvmFields DEF AllKvm, KvmNumbers
<1>2. p \in [Streams -> Nat] /\ q \in [Streams -> Nat]
  BY <1>1
<1>3. \A t \in Streams \ {s} : q[t] = p[t]
  BY DEF Differ
<1>4. p[s] = Sum(f[s].recvQ) /\ q[s] = Sum(g[s].recvQ)
  OBVIOUS
<1>5. HeldBy(f) = Sum(p) /\ HeldBy(g) = Sum(q)
  BY DEF HeldBy
<1> HIDE DEF p, q
<1>6. Sum(p) \in Nat /\ Sum(q) \in Nat /\ p[s] <= Sum(p)
  BY <1>2, SumOver
<1>7. Sum(q) + p[s] = Sum(p) + q[s]
  <2>1. IsFiniteSet(Streams)
    BY StreamIds
  <2> QED BY <1>2, <1>3, <2>1, SumChange
<1> QED BY <1>1, <1>4, <1>5, <1>6, <1>7

(* What the pumps are sending changes as the one pump does.                *)
LEMMA SendingChange ==
    ASSUME NEW f, NEW g, NEW s \in Streams, AllExit(f), AllExit(g), Differ(f, g, s)
    PROVE  /\ SendingOf(f) \in Nat /\ SendingOf(g) \in Nat
           /\ f[s].sending \in Nat /\ g[s].sending \in Nat
           /\ SendingOf(g) + f[s].sending = SendingOf(f) + g[s].sending
<1> DEFINE p == [t \in Streams |-> f[t].sending]
           q == [t \in Streams |-> g[t].sending]
<1>1. \A t \in Streams : f[t].sending \in Nat /\ g[t].sending \in Nat
  BY ExitFields DEF AllExit, ExitNumbers
<1>2. p \in [Streams -> Nat] /\ q \in [Streams -> Nat]
  BY <1>1
<1>3. \A t \in Streams \ {s} : q[t] = p[t]
  BY DEF Differ
<1>4. p[s] = f[s].sending /\ q[s] = g[s].sending
  OBVIOUS
<1>5. SendingOf(f) = Sum(p) /\ SendingOf(g) = Sum(q)
  BY DEF SendingOf
<1> HIDE DEF p, q
<1>6. Sum(p) \in Nat /\ Sum(q) \in Nat
  BY <1>2, SumOver
<1>7. Sum(q) + p[s] = Sum(p) + q[s]
  <2>1. IsFiniteSet(Streams)
    BY StreamIds
  <2> QED BY <1>2, <1>3, <2>1, SumChange
<1> QED BY <1>1, <1>4, <1>5, <1>6, <1>7

(* What is owed is a natural number.                                       *)
LEMMA OwedType ==
    ASSUME NEW w, NEW owed \in Nat, NEW n \in Nat
    PROVE  Owed(w, owed, n) \in Nat
BY DEF Owed

(* take grants what is asked for or what there is, whichever is less.      *)
LEMMA TakeIs ==
    ASSUME NEW a \in Nat, NEW n \in Nat, a > 0, n > 0
    PROVE  Take(a, n) \in Nat \ {0} /\ Take(a, n) <= a /\ Take(a, n) <= n
BY DEF Take

(* The released ids are stream ids.                                        *)
LEMMA RememberType ==
    ASSUME NEW r \in Seq(Streams), NEW s \in Streams
    PROVE  Remember(r, s) \in Seq(Streams)
<1>1. Append(r, s) \in Seq(Streams) /\ Append(r, s) # <<>>
  BY AppendProperties
<1>2. Tail(Append(r, s)) \in Seq(Streams)
  BY <1>1
<1> QED BY <1>1, <1>2 DEF Remember

-----------------------------------------------------------------------------
(* What a step may do to the session.                                      *)

(* The connection's credit stays, or n bytes of it move.                   *)
CreditStays ==
    /\ ec'.credit = ec.credit /\ Wire' = Wire /\ kc'.outstanding = kc.outstanding
    /\ kc'.consumed = kc.consumed /\ WindowOf(k2e') = WindowOf(k2e)

CreditBack(n) ==
    Credited(ConnWindow, kc.consumed, n, kc'.consumed, WindowOf(k2e), WindowOf(k2e'))

MoveTake(n) ==
    /\ n <= MaxFrame
    /\ ec'.credit + n = ec.credit /\ Wire' = Wire + n /\ kc'.outstanding = kc.outstanding
    /\ kc'.consumed = kc.consumed /\ WindowOf(k2e') = WindowOf(k2e)

MoveReceive(n) ==
    /\ ec'.credit = ec.credit /\ Wire' + n = Wire /\ kc'.outstanding = kc.outstanding + n
    /\ kc'.consumed = kc.consumed /\ WindowOf(k2e') = WindowOf(k2e)

MoveDiscard(n) ==
    /\ ec'.credit = ec.credit /\ Wire' + n = Wire /\ kc'.outstanding = kc.outstanding
    /\ CreditBack(n)

MoveConsume(n) ==
    /\ ec'.credit = ec.credit /\ Wire' = Wire /\ kc'.outstanding + n = kc.outstanding
    /\ CreditBack(n)

MoveAdd(n) ==
    /\ ec'.credit = ec.credit + n /\ Wire' = Wire /\ kc'.outstanding = kc.outstanding
    /\ kc'.consumed = kc.consumed /\ WindowOf(k2e') + n = WindowOf(k2e)

(* DATA of a stream whose released id the kvm has forgotten.               *)
Forgotten(s) ==
    s < kc.next /\ ~kv[s].tab /\ \A i \in DOMAIN kc.released : kc.released[i] # s

MoveLose(n) ==
    /\ ec'.credit = ec.credit /\ Wire' + n = Wire /\ kc'.outstanding = kc.outstanding
    /\ kc'.consumed = kc.consumed /\ WindowOf(k2e') = WindowOf(k2e)
    /\ \E s \in Streams : Forgotten(s)

Move(n) ==
    MoveTake(n) \/ MoveReceive(n) \/ MoveDiscard(n) \/ MoveConsume(n) \/ MoveAdd(n) \/ MoveLose(n)

ConnStep == CreditStays \/ \E n \in Nat \ {0} : Move(n)

(* The table and the released ids stay, or a stream enters, or leaves.     *)
SameTable(D) == \A t \in D : kv'[t].tab = kv[t].tab

TableStays == kc'.next = kc.next /\ kc'.released = kc.released /\ SameTable(Streams)

TableEnter ==
    /\ kc.next \in Streams /\ kc'.next = kc.next + 1 /\ kc'.released = kc.released
    /\ kv'[kc.next].tab /\ SameTable(Streams \ {kc.next})

TableLeave(s) ==
    /\ kc'.next = kc.next /\ kc'.released = Remember(kc.released, s)
    /\ kv[s].tab /\ ~kv'[s].tab /\ SameTable(Streams \ {s})

TableStep == TableStays \/ TableEnter \/ \E s \in Streams : TableLeave(s)

Kept == TypeInv' /\ StreamsOK' /\ HeldOK' /\ ConnStep /\ TableStep

(* What the invariant says of one stream.                                  *)
LEMMA StreamNow ==
    ASSUME TypeInv, StreamsOK, NEW s \in Streams
    PROVE  /\ StreamOK(kv[s], ex[s], s, kc.next, Hand(kc, s), View(k2e, s), View(e2k, s))
           /\ kv[s] \in KvmStream /\ ex[s] \in ExitStream
           /\ Seen(View(k2e, s)) /\ Seen(View(e2k, s))
           /\ kc.next \in Nat /\ Hand(kc, s) \in Nat
<1>1. StreamOK(kv[s], ex[s], s, kc.next, Hand(kc, s), View(k2e, s), View(e2k, s))
  BY DEF StreamsOK, StreamAt
<1>2. kv[s] \in KvmStream /\ ex[s] \in ExitStream
  BY <1>1 DEF StreamOK
<1>3. Seen(View(k2e, s)) /\ Seen(View(e2k, s))
  BY ViewSeen DEF TypeInv
<1>4. kc.next \in Nat /\ Hand(kc, s) \in Nat
  BY DEF TypeInv, KvmSession, NoData, Hand
<1> QED BY <1>1, <1>2, <1>3, <1>4

(* All records have their types.                                           *)
LEMMA AllTyped ==
    ASSUME StreamsOK
    PROVE  AllKvm(kv) /\ AllExit(ex)
BY DEF StreamsOK, StreamAt, StreamOK, AllKvm, AllExit

(* A step that is about stream s.                                          *)
LEMMA OneStream ==
    ASSUME TypeInv, StreamsOK, NEW s \in Streams,
           kc'.next = kc.next,
           Differ(kv, kv', s), Differ(ex, ex', s),
           \A t \in Streams \ {s} : Hand(kc', t) = Hand(kc, t),
           Elsewhere(k2e, k2e', s), Elsewhere(e2k, e2k', s),
           StreamOK(kv'[s], ex'[s], s, kc.next, Hand(kc', s), View(k2e', s), View(e2k', s))
    PROVE  /\ StreamsOK'
           /\ HeldBy(kv) \in Nat /\ HeldBy(kv') \in Nat
           /\ Sum(kv[s].recvQ) \in Nat /\ Sum(kv'[s].recvQ) \in Nat
           /\ Sum(kv[s].recvQ) <= HeldBy(kv)
           /\ HeldBy(kv') + Sum(kv[s].recvQ) = HeldBy(kv) + Sum(kv'[s].recvQ)
           /\ SendingOf(ex) \in Nat /\ SendingOf(ex') \in Nat
           /\ ex[s].sending \in Nat /\ ex'[s].sending \in Nat
           /\ SendingOf(ex') + ex[s].sending = SendingOf(ex) + ex'[s].sending
<1>1. StreamAt(kv', ex', kc', k2e', e2k', s)
  BY DEF StreamAt
<1>2. ASSUME NEW t \in Streams, t # s
      PROVE  StreamAt(kv', ex', kc', k2e', e2k', t)
  <2>1. kv'[t] = kv[t] /\ ex'[t] = ex[t]
    BY <1>2 DEF Differ
  <2>2. View(k2e', t) = View(k2e, t) /\ View(e2k', t) = View(e2k, t)
    BY <1>2 DEF Elsewhere
  <2>3. StreamAt(kv, ex, kc, k2e, e2k, t)
    BY DEF StreamsOK
  <2> QED BY <1>2, <2>1, <2>2, <2>3 DEF StreamAt
<1>3. StreamsOK'
  BY <1>1, <1>2 DEF StreamsOK
<1>4. AllKvm(kv) /\ AllExit(ex)
  BY AllTyped
<1>5. AllKvm(kv') /\ AllExit(ex')
  BY <1>3 DEF StreamsOK, StreamAt, StreamOK, AllKvm, AllExit
<1>6. /\ HeldBy(kv) \in Nat /\ HeldBy(kv') \in Nat
      /\ Sum(kv[s].recvQ) \in Nat /\ Sum(kv'[s].recvQ) \in Nat
      /\ Sum(kv[s].recvQ) <= HeldBy(kv)
      /\ HeldBy(kv') + Sum(kv[s].recvQ) = HeldBy(kv) + Sum(kv'[s].recvQ)
  BY <1>4, <1>5, HeldChange
<1>7. /\ SendingOf(ex) \in Nat /\ SendingOf(ex') \in Nat
      /\ ex[s].sending \in Nat /\ ex'[s].sending \in Nat
      /\ SendingOf(ex') + ex[s].sending = SendingOf(ex) + ex'[s].sending
  BY <1>4, <1>5, SendingChange
<1> QED BY <1>3, <1>6, <1>7

(* A step that is about no stream.                                         *)
LEMMA NoStream ==
    ASSUME TypeInv, StreamsOK, kc'.next = kc.next, kc'.data = kc.data,
           UNCHANGED <<kv, ex>>, Everywhere(k2e, k2e'), Everywhere(e2k, e2k')
    PROVE  StreamsOK'
<1>1. ASSUME NEW t \in Streams
      PROVE  StreamAt(kv', ex', kc', k2e', e2k', t)
  <2>1. View(k2e', t) = View(k2e, t) /\ View(e2k', t) = View(e2k, t)
    BY DEF Everywhere
  <2>2. StreamAt(kv, ex, kc, k2e, e2k, t)
    BY DEF StreamsOK
  <2> QED BY <2>1, <2>2 DEF StreamAt, Hand
<1> QED BY <1>1 DEF StreamsOK

(* The session's counters are natural numbers ...                          *)
LEMMA Numbers ==
    ASSUME TypeInv, StreamsOK
    PROVE  /\ ec.credit \in Nat /\ ec.consumed \in Nat /\ kc.credit \in Nat
           /\ kc.outstanding \in Nat /\ kc.consumed \in Nat
           /\ DataOf(e2k) \in Nat /\ SendingOf(ex) \in Nat /\ Wire \in Nat
           /\ WindowOf(k2e) \in Nat /\ HeldBy(kv) \in Nat /\ kc.data.n \in Nat
           /\ ConnWindow \in Nat /\ StreamWindow \in Nat /\ MaxFrame \in Nat
<1>1. 1 \in Streams
  BY NexitAssumption DEF Streams
<1>2. SendingOf(ex) \in Nat /\ HeldBy(kv) \in Nat
  BY <1>1, AllTyped, HeldChange, SendingChange DEF Differ
<1>3. DataOf(e2k) \in Nat /\ WindowOf(k2e) \in Nat
  BY ChannelType DEF TypeInv
<1>4. /\ ec.credit \in Nat /\ ec.consumed \in Nat /\ kc.credit \in Nat
      /\ kc.outstanding \in Nat /\ kc.consumed \in Nat /\ kc.data.n \in Nat
  BY DEF TypeInv, ExitSession, KvmSession, NoData
<1>5. ConnWindow \in Nat /\ StreamWindow \in Nat /\ MaxFrame \in Nat
  BY NexitAssumption
<1> QED BY <1>2, <1>3, <1>4, <1>5 DEF Wire

(* The bound on the connection's credit follows from how it moves.         *)
LEMMA CreditedSum ==
    ASSUME NEW w \in Nat, NEW o \in Nat, NEW n \in Nat, NEW g \in Nat, NEW o2 \in Nat, NEW g2 \in Nat,
           Credited(w, o, n, o2, g, g2)
    PROVE  o2 + g2 = o + g + n
BY DEF Credited

(* A number to which something is missing is smaller.                      *)
LEMMA LessBy ==
    ASSUME NEW x \in Nat, NEW y \in Nat, x = y \/ \E n \in Nat : x + n = y
    PROVE  x <= y
OBVIOUS

(* ... and so are those of the next state.                                 *)
LEMMA NumbersNext ==
    ASSUME TypeInv', StreamsOK'
    PROVE  /\ ec'.credit \in Nat /\ kc'.outstanding \in Nat /\ kc'.consumed \in Nat
           /\ Wire' \in Nat /\ WindowOf(k2e') \in Nat
<1>1. 1 \in Streams
  BY NexitAssumption DEF Streams
<1>2. AllExit(ex')
  BY DEF StreamsOK, StreamAt, StreamOK, AllExit
<1>3. SendingOf(ex') \in Nat
  BY <1>1, <1>2, SendingChange DEF Differ
<1>4. DataOf(e2k') \in Nat /\ WindowOf(k2e') \in Nat
  BY ChannelType DEF TypeInv
<1>5. Wire' \in Nat
  BY <1>3, <1>4 DEF Wire
<1> QED BY <1>4, <1>5 DEF TypeInv, ExitSession, KvmSession

(* No step adds connection credit, and only DATA of a forgotten id loses   *)
(* some.                                                                   *)
LEMMA ConnStepKeeps ==
    ASSUME TypeInv, StreamsOK, TypeInv', StreamsOK', ConnStep
    PROVE  /\ ConnBytes' <= ConnBytes /\ ConnBytes \in Nat /\ ConnBytes' \in Nat
           /\ (~\E s \in Streams : Forgotten(s)) => ConnBytes' = ConnBytes
<1>1. /\ ec.credit \in Nat /\ kc.outstanding \in Nat /\ kc.consumed \in Nat
      /\ Wire \in Nat /\ WindowOf(k2e) \in Nat /\ ConnWindow \in Nat
  BY Numbers
<1>2. /\ ec'.credit \in Nat /\ kc'.outstanding \in Nat /\ kc'.consumed \in Nat
      /\ WindowOf(k2e') \in Nat
  BY NumbersNext
<1>3. Wire' \in Nat
  BY NumbersNext
<1>4. ConnBytes = ec.credit + Wire + kc.outstanding + kc.consumed + WindowOf(k2e)
  BY DEF ConnBytes
<1>5. ConnBytes' = ec'.credit + Wire' + kc'.outstanding + kc'.consumed + WindowOf(k2e')
  BY DEF ConnBytes
<1>6. CreditStays => ConnBytes' = ConnBytes
  BY <1>1, <1>4, <1>5 DEF CreditStays
<1>7. ASSUME NEW n \in Nat \ {0}, Move(n)
      PROVE  ConnBytes' = ConnBytes \/ (ConnBytes' + n = ConnBytes /\ \E s \in Streams : Forgotten(s))
  <2> DEFINE a == ec.credit  w == Wire  o == kc.outstanding  c == kc.consumed  g == WindowOf(k2e)
             a2 == ec'.credit  w2 == Wire'  o2 == kc'.outstanding  c2 == kc'.consumed
             g2 == WindowOf(k2e')
  <2>0. /\ a \in Nat /\ w \in Nat /\ o \in Nat /\ c \in Nat /\ g \in Nat
        /\ a2 \in Nat /\ w2 \in Nat /\ o2 \in Nat /\ c2 \in Nat /\ g2 \in Nat /\ n \in Nat
    BY <1>1, <1>2, <1>3
  <2>1. CreditBack(n) => c2 + g2 = c + g + n
    <3>1. ConnWindow \in Nat
      BY <1>1
    <3> SUFFICES ASSUME Credited(ConnWindow, c, n, c2, g, g2)
                 PROVE  c2 + g2 = c + g + n
      BY DEF CreditBack
    <3> HIDE DEF a, w, o, c, g, a2, w2, o2, c2, g2
    <3> QED BY <2>0, <3>1, CreditedSum
  <2>2. CASE MoveTake(n)
    <3>1. a2 + n = a /\ w2 = w + n /\ o2 = o /\ c2 = c /\ g2 = g
      BY <2>2 DEF MoveTake
    <3> HIDE DEF a, w, o, c, g, a2, w2, o2, c2, g2
    <3>2. a2 + w2 + o2 + c2 + g2 = a + w + o + c + g
      BY <2>0, <3>1
    <3> QED BY <1>4, <1>5, <3>2 DEF a, w, o, c, g, a2, w2, o2, c2, g2
  <2>3. CASE MoveReceive(n)
    <3>1. a2 = a /\ w2 + n = w /\ o2 = o + n /\ c2 = c /\ g2 = g
      BY <2>3 DEF MoveReceive
    <3> HIDE DEF a, w, o, c, g, a2, w2, o2, c2, g2
    <3>2. a2 + w2 + o2 + c2 + g2 = a + w + o + c + g
      BY <2>0, <3>1
    <3> QED BY <1>4, <1>5, <3>2 DEF a, w, o, c, g, a2, w2, o2, c2, g2
  <2>4. CASE MoveDiscard(n)
    <3>1. a2 = a /\ w2 + n = w /\ o2 = o /\ c2 + g2 = c + g + n
      BY <2>1, <2>4 DEF MoveDiscard
    <3> HIDE DEF a, w, o, c, g, a2, w2, o2, c2, g2
    <3>2. a2 + w2 + o2 + c2 + g2 = a + w + o + c + g
      BY <2>0, <3>1
    <3> QED BY <1>4, <1>5, <3>2 DEF a, w, o, c, g, a2, w2, o2, c2, g2
  <2>5. CASE MoveConsume(n)
    <3>1. a2 = a /\ w2 = w /\ o2 + n = o /\ c2 + g2 = c + g + n
      BY <2>1, <2>5 DEF MoveConsume
    <3> HIDE DEF a, w, o, c, g, a2, w2, o2, c2, g2
    <3>2. a2 + w2 + o2 + c2 + g2 = a + w + o + c + g
      BY <2>0, <3>1
    <3> QED BY <1>4, <1>5, <3>2 DEF a, w, o, c, g, a2, w2, o2, c2, g2
  <2>6. CASE MoveAdd(n)
    <3>1. a2 = a + n /\ w2 = w /\ o2 = o /\ c2 = c /\ g2 + n = g
      BY <2>6 DEF MoveAdd
    <3> HIDE DEF a, w, o, c, g, a2, w2, o2, c2, g2
    <3>2. a2 + w2 + o2 + c2 + g2 = a + w + o + c + g
      BY <2>0, <3>1
    <3> QED BY <1>4, <1>5, <3>2 DEF a, w, o, c, g, a2, w2, o2, c2, g2
  <2>7. CASE MoveLose(n)
    <3>1. a2 = a /\ w2 + n = w /\ o2 = o /\ c2 = c /\ g2 = g
      BY <2>7 DEF MoveLose
    <3>2. \E s \in Streams : Forgotten(s)
      BY <2>7 DEF MoveLose
    <3> HIDE DEF a, w, o, c, g, a2, w2, o2, c2, g2
    <3>3. a2 + w2 + o2 + c2 + g2 + n = a + w + o + c + g
      BY <2>0, <3>1
    <3> QED BY <1>4, <1>5, <3>2, <3>3 DEF a, w, o, c, g, a2, w2, o2, c2, g2
  <2> QED BY <1>7, <2>2, <2>3, <2>4, <2>5, <2>6, <2>7 DEF Move
<1>8. ConnBytes \in Nat /\ ConnBytes' \in Nat
  BY <1>1, <1>2, <1>3, <1>4, <1>5
<1> DEFINE F == \E s \in Streams : Forgotten(s)
<1>9. ConnBytes' = ConnBytes \/ (F /\ \E n \in Nat : ConnBytes' + n = ConnBytes)
  BY <1>6, <1>7 DEF ConnStep
<1> HIDE DEF F
<1>10. ConnBytes' <= ConnBytes
  <2>1. ConnBytes' = ConnBytes \/ \E n \in Nat : ConnBytes' + n = ConnBytes
    BY <1>9
  <2> QED BY <1>8, <2>1, LessBy
<1>11. ~F => ConnBytes' = ConnBytes
  BY <1>9
<1> QED BY <1>8, <1>10, <1>11 DEF F

-----------------------------------------------------------------------------
(* One frame of stream s enters channel c, or leaves it; d is what c       *)
(* becomes.                                                                *)

FrameSent(c, t, s, n, d) ==
    /\ d \in Seq(Frames)
    /\ DataOf(d) = DataOf(c) + (IF t = "DATA" THEN n ELSE 0)
    /\ WindowOf(d) = WindowOf(c)
    /\ Elsewhere(c, d, s)
    /\ t \in {"RST", "OPEN_FAIL"} => Everywhere(c, d)
    /\ Sent(View(c, s), t, n, View(d, s)) /\ Seen(View(d, s))

(* What sending one frame does to a channel.                               *)
LEMMA SendFrame ==
    ASSUME NEW c \in Seq(Frames), NEW t \in FrameTypes, NEW s \in Streams, NEW n \in Nat,
           t \in {"DATA", "WINDOW"} => n > 0,
           NEW d, d = Append(c, Frame(t, s, n))
    PROVE  FrameSent(c, t, s, n, d)
<1> DEFINE f == Frame(t, s, n)
<1>1. f \in Frames /\ f.type = t /\ f.id = s /\ f.n = n /\ s # 0
  BY NexitAssumption, StreamIds DEF Frames, Frame, Streams
<1>2. d = c \o <<f>>
  BY <1>1, AppendIsConcat
<1> HIDE DEF f
<1>3. DataOf(c) \in Nat /\ WindowOf(c) \in Nat
  BY ChannelType
<1>4. /\ d \in Seq(Frames)
      /\ DataOf(d) = DataOf(c) + (IF f.type = "DATA" THEN f.n ELSE 0)
      /\ WindowOf(d) = WindowOf(c) + (IF f.type = "WINDOW" /\ f.id = 0 THEN f.n ELSE 0)
      /\ Elsewhere(c, d, f.id)
      /\ (f.id = 0 \/ f.type \in {"RST", "OPEN_FAIL"}) => Everywhere(c, d)
      /\ Sent(View(c, f.id), f.type, f.n, View(d, f.id))
  BY <1>1, <1>2, ChannelSend
<1>5. Seen(View(d, s))
  BY <1>4, ViewSeen
<1>6. WindowOf(d) = WindowOf(c)
  BY <1>1, <1>3, <1>4
<1> QED BY <1>1, <1>4, <1>5, <1>6 DEF FrameSent

(* What taking the head does to a channel.                                 *)
LEMMA TakeFrame ==
    ASSUME NEW c \in Seq(Frames), c # <<>>, NEW d, d = Tail(c), NEW f, f = Head(c)
    PROVE  /\ d \in Seq(Frames) /\ f.n \in Nat
           /\ f.id = 0 \/ f.id \in Streams
           /\ f.type # "WINDOW" => f.id \in Streams
           /\ f.type \in {"DATA", "WINDOW"} => f.n \in Nat \ {0}
           /\ DataOf(c) = DataOf(d) + (IF f.type = "DATA" THEN f.n ELSE 0)
           /\ WindowOf(c) = WindowOf(d) + (IF f.id = 0 THEN f.n ELSE 0)
           /\ Elsewhere(c, d, f.id)
           /\ (f.id = 0 \/ f.type \in {"RST", "OPEN_FAIL"}) => Everywhere(c, d)
           /\ Taken(View(c, f.id), f.type, f.n, View(d, f.id)) /\ Seen(View(d, f.id))
           /\ f.type \notin {"DATA", "WINDOW"} => Taken(View(c, f.id), f.type, 0, View(d, f.id))
<1>1. f \in Frames
  BY ChannelTake
<1>2. /\ d \in Seq(Frames)
      /\ DataOf(c) = DataOf(d) + (IF f.type = "DATA" THEN f.n ELSE 0)
      /\ WindowOf(c) = WindowOf(d) + (IF f.type = "WINDOW" /\ f.id = 0 THEN f.n ELSE 0)
      /\ Elsewhere(c, d, f.id)
      /\ (f.id = 0 \/ f.type \in {"RST", "OPEN_FAIL"}) => Everywhere(c, d)
      /\ Taken(View(c, f.id), f.type, f.n, View(d, f.id))
  BY ChannelTake
<1>3. /\ f.n \in Nat /\ (f.id = 0 \/ f.id \in Streams)
      /\ f.type # "WINDOW" => f.id \in Streams
      /\ f.type \in {"DATA", "WINDOW"} => f.n \in Nat \ {0}
  BY <1>1, NexitAssumption DEF Frames, Streams
<1>4. f.id = 0 => f.type = "WINDOW"
  BY <1>1 DEF Frames
<1>5. f.type \notin {"DATA", "WINDOW"} => Taken(View(c, f.id), f.type, 0, View(d, f.id))
  BY <1>2 DEF Taken
<1>6. Seen(View(d, f.id))
  BY <1>2, ViewSeen
<1>7. WindowOf(c) = WindowOf(d) + (IF f.id = 0 THEN f.n ELSE 0)
  BY <1>2, <1>4
<1> QED BY <1>2, <1>3, <1>5, <1>6, <1>7

(* The channel of a stream's view that does not change.                    *)
LEMMA SameChannel ==
    ASSUME NEW c, NEW d, d = c
    PROVE  /\ Everywhere(c, d) /\ \A s : Elsewhere(c, d, s) /\ View(d, s) = View(c, s)
BY DEF Everywhere, Elsewhere

(* Views that stay for all streams stay for this one.                      *)
LEMMA EverywhereIs ==
    ASSUME NEW c, NEW d, Everywhere(c, d), NEW s \in Streams
    PROVE  Elsewhere(c, d, s) /\ View(d, s) = View(c, s)
BY DEF Everywhere, Elsewhere

(* Two changes of a channel, one after the other.                          *)
LEMMA ElsewhereTwice ==
    ASSUME NEW c, NEW d, NEW e, NEW s \in Streams
    PROVE  /\ Elsewhere(c, d, s) /\ Elsewhere(d, e, s) => Elsewhere(c, e, s)
           /\ Elsewhere(c, d, s) /\ Everywhere(d, e) => Elsewhere(c, e, s) /\ View(e, s) = View(d, s)
           /\ Everywhere(c, d) /\ Everywhere(d, e) => Everywhere(c, e)
BY DEF Everywhere, Elsewhere

(* A step of the exit about stream s, whose record becomes x2.             *)
LEMMA ExitStep ==
    ASSUME IInv, NEW s \in Streams, UNCHANGED <<kv, kc>>,
           NEW x2, ex' = [ex EXCEPT ![s] = x2], ec' \in ExitSession,
           k2e' \in Seq(Frames), e2k' \in Seq(Frames),
           Elsewhere(k2e, k2e', s), Elsewhere(e2k, e2k', s),
           StreamOK(kv[s], x2, s, kc.next, Hand(kc, s), View(k2e', s), View(e2k', s))
    PROVE  /\ TypeInv' /\ StreamsOK' /\ HeldOK' /\ TableStep
           /\ SendingOf(ex) \in Nat /\ SendingOf(ex') \in Nat
           /\ ex[s].sending \in Nat /\ x2.sending \in Nat
           /\ SendingOf(ex') + ex[s].sending = SendingOf(ex) + x2.sending
<1>1. TypeInv /\ StreamsOK /\ HeldOK
  BY DEF IInv
<1>2. ex'[s] = x2 /\ ex' \in [Streams -> ExitStream] /\ Differ(ex, ex', s)
  <2>1. x2 \in ExitStream /\ ex \in [Streams -> ExitStream]
    BY <1>1 DEF TypeInv, StreamOK
  <2> QED BY <2>1 DEF Differ
<1>3. /\ Differ(kv, kv', s) /\ kc'.next = kc.next
      /\ \A t \in Streams \ {s} : Hand(kc', t) = Hand(kc, t)
  BY DEF Differ
<1>4. StreamOK(kv'[s], ex'[s], s, kc.next, Hand(kc', s), View(k2e', s), View(e2k', s))
  BY <1>2
<1>5. /\ StreamsOK' /\ SendingOf(ex) \in Nat /\ SendingOf(ex') \in Nat
      /\ ex[s].sending \in Nat /\ ex'[s].sending \in Nat
      /\ SendingOf(ex') + ex[s].sending = SendingOf(ex) + ex'[s].sending
  BY <1>1, <1>2, <1>3, <1>4, OneStream
<1>6. TypeInv'
  BY <1>1, <1>2 DEF TypeInv
<1>7. HeldOK'
  BY <1>1 DEF HeldOK
<1>8. TableStep
  BY DEF TableStep, TableStays, SameTable
<1> QED BY <1>2, <1>5, <1>6, <1>7, <1>8

(* ... and about no stream.                                                *)
LEMMA ExitOnly ==
    ASSUME IInv, UNCHANGED <<kv, kc, ex>>, ec' \in ExitSession,
           k2e' \in Seq(Frames), e2k' \in Seq(Frames),
           Everywhere(k2e, k2e'), Everywhere(e2k, e2k')
    PROVE  TypeInv' /\ StreamsOK' /\ HeldOK' /\ TableStep
<1>1. TypeInv /\ StreamsOK /\ HeldOK
  BY DEF IInv
<1>2. StreamsOK'
  BY <1>1, NoStream
<1>3. TypeInv'
  BY <1>1 DEF TypeInv
<1>4. HeldOK'
  BY <1>1 DEF HeldOK
<1>5. TableStep
  BY DEF TableStep, TableStays, SameTable
<1> QED BY <1>2, <1>3, <1>4, <1>5

(* A step of the kvm about stream s, whose record becomes k2.              *)
LEMMA KvmStep ==
    ASSUME IInv, NEW s \in Streams, UNCHANGED <<ex, ec>>,
           NEW k2, kv' = [kv EXCEPT ![s] = k2], kc' \in KvmSession, kc'.next = kc.next,
           \A t \in Streams \ {s} : Hand(kc', t) = Hand(kc, t),
           k2e' \in Seq(Frames), e2k' \in Seq(Frames),
           Elsewhere(k2e, k2e', s), Elsewhere(e2k, e2k', s),
           StreamOK(k2, ex[s], s, kc.next, Hand(kc', s), View(k2e', s), View(e2k', s))
    PROVE  /\ TypeInv' /\ StreamsOK'
           /\ HeldBy(kv) \in Nat /\ HeldBy(kv') \in Nat
           /\ Sum(kv[s].recvQ) \in Nat /\ Sum(k2.recvQ) \in Nat
           /\ HeldBy(kv') + Sum(kv[s].recvQ) = HeldBy(kv) + Sum(k2.recvQ)
           /\ kv'[s] = k2 /\ SameTable(Streams \ {s})
<1>1. TypeInv /\ StreamsOK /\ HeldOK
  BY DEF IInv
<1>2. kv'[s] = k2 /\ kv' \in [Streams -> KvmStream] /\ Differ(kv, kv', s)
  <2>1. k2 \in KvmStream /\ kv \in [Streams -> KvmStream]
    BY <1>1 DEF TypeInv, StreamOK
  <2> QED BY <2>1 DEF Differ
<1>3. Differ(ex, ex', s)
  BY DEF Differ
<1>4. StreamOK(kv'[s], ex'[s], s, kc.next, Hand(kc', s), View(k2e', s), View(e2k', s))
  BY <1>2
<1>5. /\ StreamsOK' /\ HeldBy(kv) \in Nat /\ HeldBy(kv') \in Nat
      /\ Sum(kv[s].recvQ) \in Nat /\ Sum(kv'[s].recvQ) \in Nat
      /\ HeldBy(kv') + Sum(kv[s].recvQ) = HeldBy(kv) + Sum(kv'[s].recvQ)
  BY <1>1, <1>2, <1>3, <1>4, OneStream
<1>6. TypeInv'
  BY <1>1, <1>2 DEF TypeInv
<1>7. SameTable(Streams \ {s})
  BY <1>2 DEF SameTable, Differ
<1> QED BY <1>2, <1>5, <1>6, <1>7

(* A step of the kvm that leaves its queues and its table alone.           *)
LEMMA KvmStays ==
    ASSUME IInv, NEW s \in Streams, UNCHANGED <<ex, ec>>,
           NEW k2, kv' = [kv EXCEPT ![s] = k2], kc' \in KvmSession, kc'.next = kc.next,
           kc'.data = kc.data, kc'.outstanding = kc.outstanding, kc'.consumed = kc.consumed,
           kc'.released = kc.released, k2.recvQ = kv[s].recvQ, k2.tab = kv[s].tab,
           k2e' \in Seq(Frames), e2k' \in Seq(Frames),
           Elsewhere(k2e, k2e', s), Elsewhere(e2k, e2k', s),
           DataOf(e2k') = DataOf(e2k), WindowOf(k2e') = WindowOf(k2e),
           StreamOK(k2, ex[s], s, kc.next, Hand(kc, s), View(k2e', s), View(e2k', s))
    PROVE  Kept
<1>1. \A t : Hand(kc', t) = Hand(kc, t)
  BY DEF Hand
<1>2. StreamOK(k2, ex[s], s, kc.next, Hand(kc', s), View(k2e', s), View(e2k', s))
  BY <1>1
<1>3. /\ TypeInv' /\ StreamsOK'
      /\ HeldBy(kv) \in Nat /\ HeldBy(kv') \in Nat
      /\ Sum(kv[s].recvQ) \in Nat
      /\ HeldBy(kv') + Sum(kv[s].recvQ) = HeldBy(kv) + Sum(k2.recvQ)
      /\ kv'[s] = k2 /\ SameTable(Streams \ {s})
  BY <1>1, <1>2, KvmStep
<1>4. HeldBy(kv') = HeldBy(kv)
  BY <1>3
<1>5. HeldOK'
  BY <1>4 DEF HeldOK, IInv
<1>6. CreditStays
  BY DEF CreditStays, Wire
<1>7. TableStep
  BY <1>3 DEF TableStep, TableStays, SameTable
<1> QED BY <1>3, <1>5, <1>6, <1>7 DEF Kept, ConnStep

-----------------------------------------------------------------------------
(* The steps of the exit.                                                  *)

(* What the invariant says of one stream and of the session around it.     *)
LEMMA Here ==
    ASSUME IInv, NEW s \in Streams
    PROVE  /\ TypeInv /\ StreamsOK
           /\ StreamOK(kv[s], ex[s], s, kc.next, Hand(kc, s), View(k2e, s), View(e2k, s))
           /\ kv[s] \in KvmStream /\ ex[s] \in ExitStream
           /\ Seen(View(k2e, s)) /\ Seen(View(e2k, s))
           /\ kc.next \in Nat /\ Hand(kc, s) \in Nat
           /\ k2e \in Seq(Frames) /\ e2k \in Seq(Frames)
           /\ kc \in KvmSession /\ ec \in ExitSession
BY StreamNow DEF IInv, TypeInv

(* A step of the exit that leaves the connection's credit alone.           *)
LEMMA ExitStays ==
    ASSUME IInv, NEW s \in Streams, UNCHANGED <<kv, kc>>,
           NEW x2, ex' = [ex EXCEPT ![s] = x2], ec' \in ExitSession, ec'.credit = ec.credit,
           x2.sending = ex[s].sending,
           k2e' \in Seq(Frames), e2k' \in Seq(Frames),
           Elsewhere(k2e, k2e', s), Elsewhere(e2k, e2k', s),
           DataOf(e2k') = DataOf(e2k), WindowOf(k2e') = WindowOf(k2e),
           StreamOK(kv[s], x2, s, kc.next, Hand(kc, s), View(k2e', s), View(e2k', s))
    PROVE  Kept
<1>1. /\ TypeInv' /\ StreamsOK' /\ HeldOK' /\ TableStep
      /\ SendingOf(ex) \in Nat /\ SendingOf(ex') \in Nat
      /\ ex[s].sending \in Nat
      /\ SendingOf(ex') + ex[s].sending = SendingOf(ex) + x2.sending
  BY ExitStep
<1>2. SendingOf(ex') = SendingOf(ex)
  BY <1>1
<1>3. CreditStays
  BY <1>2 DEF CreditStays, Wire
<1> QED BY <1>1, <1>3 DEF Kept, ConnStep

(* A frame of t for s leaves k2e.                                          *)
LEMMA ExitTakes ==
    ASSUME IInv, NEW t, ExitReceives(t)
    PROVE  LET s == Head(k2e).id IN
           /\ k2e' \in Seq(Frames) /\ k2e' = Tail(k2e) /\ UNCHANGED <<kv, kc>>
           /\ Head(k2e).n \in Nat
           /\ t # "WINDOW" => s \in Streams
           /\ s = 0 \/ s \in Streams
           /\ t \in {"DATA", "WINDOW"} => Head(k2e).n \in Nat \ {0}
           /\ WindowOf(k2e) = WindowOf(k2e') + (IF s = 0 THEN Head(k2e).n ELSE 0)
           /\ s \in Streams => WindowOf(k2e') = WindowOf(k2e)
           /\ Elsewhere(k2e, k2e', s)
           /\ (s = 0 \/ t \in {"RST", "OPEN_FAIL"}) => Everywhere(k2e, k2e')
           /\ Taken(View(k2e, s), t, Head(k2e).n, View(k2e', s)) /\ Seen(View(k2e', s))
           /\ t \notin {"DATA", "WINDOW"} => Taken(View(k2e, s), t, 0, View(k2e', s))
<1> DEFINE f == Head(k2e)
<1>1. k2e \in Seq(Frames)
  BY DEF IInv, TypeInv
<1>2. k2e # <<>> /\ f.type = t /\ k2e' = Tail(k2e) /\ UNCHANGED <<kv, kc>>
  BY DEF ExitReceives
<1> HIDE DEF f
<1>3. /\ k2e' \in Seq(Frames) /\ f.n \in Nat
      /\ f.id = 0 \/ f.id \in Streams
      /\ f.type # "WINDOW" => f.id \in Streams
      /\ f.type \in {"DATA", "WINDOW"} => f.n \in Nat \ {0}
      /\ WindowOf(k2e) = WindowOf(k2e') + (IF f.id = 0 THEN f.n ELSE 0)
      /\ Elsewhere(k2e, k2e', f.id)
      /\ (f.id = 0 \/ f.type \in {"RST", "OPEN_FAIL"}) => Everywhere(k2e, k2e')
      /\ Taken(View(k2e, f.id), f.type, f.n, View(k2e', f.id)) /\ Seen(View(k2e', f.id))
      /\ f.type \notin {"DATA", "WINDOW"} => Taken(View(k2e, f.id), f.type, 0, View(k2e', f.id))
  BY <1>1, <1>2, TakeFrame DEF f
<1>4. f.id \in Streams => WindowOf(k2e') = WindowOf(k2e)
  BY <1>3, StreamIds, ChannelType
<1> QED BY <1>2, <1>3, <1>4 DEF f

(* RST and OPEN_FAIL change nothing that the invariant looks at.           *)
LEMMA NoteSent ==
    ASSUME NEW c \in Seq(Frames), NEW s \in Streams, NEW t \in {"RST", "OPEN_FAIL"},
           NEW d, d = Append(c, Frame(t, s, 0))
    PROVE  /\ d \in Seq(Frames) /\ DataOf(d) = DataOf(c) /\ WindowOf(d) = WindowOf(c)
           /\ Everywhere(c, d) /\ Elsewhere(c, d, s) /\ View(d, s) = View(c, s)
<1>1. t \in FrameTypes /\ (t \in {"DATA", "WINDOW"} => 0 > 0) /\ 0 \in Nat
  BY DEF FrameTypes
<1>2. FrameSent(c, t, s, 0, d)
  BY <1>1, SendFrame
<1>3. DataOf(c) \in Nat
  BY ChannelType
<1>4. /\ d \in Seq(Frames) /\ DataOf(d) = DataOf(c) /\ WindowOf(d) = WindowOf(c)
      /\ Everywhere(c, d)
  BY <1>2, <1>3 DEF FrameSent
<1> QED BY <1>4, EverywhereIs

(* OPEN starts a dial (session.go onOpen).                                 *)
LEMMA OnOpenKeeps ==
    ASSUME IInv, OnOpen
    PROVE  Kept
<1> DEFINE s == Head(k2e).id
           x2 == [ex[s] EXCEPT !.st = "dial"]
<1>1. ExitReceives("OPEN") /\ ex' = [ex EXCEPT ![s] = x2] /\ UNCHANGED <<ec, e2k>>
  BY DEF OnOpen
<1>2. /\ k2e' \in Seq(Frames) /\ UNCHANGED <<kv, kc>> /\ s \in Streams
      /\ WindowOf(k2e') = WindowOf(k2e) /\ Elsewhere(k2e, k2e', s)
      /\ Taken(View(k2e, s), "OPEN", 0, View(k2e', s)) /\ Seen(View(k2e', s))
  BY <1>1, ExitTakes
<1> HIDE DEF s
<1>3. /\ StreamOK(kv[s], ex[s], s, kc.next, Hand(kc, s), View(k2e, s), View(e2k, s))
      /\ Seen(View(k2e, s)) /\ Seen(View(e2k, s)) /\ kc.next \in Nat /\ Hand(kc, s) \in Nat
      /\ e2k \in Seq(Frames) /\ ec \in ExitSession
  BY <1>2, Here
<1>4. StreamOK(kv[s], x2, s, kc.next, Hand(kc, s), View(k2e', s), View(e2k, s))
  BY <1>2, <1>3, DialStep
<1>5. Elsewhere(e2k, e2k', s)
  BY <1>1, SameChannel
<1>6. x2.sending = ex[s].sending
  BY <1>2, Here DEF ExitStream
<1> HIDE DEF x2
<1> QED BY <1>1, <1>2, <1>3, <1>4, <1>5, <1>6, ExitStays

(* OPEN is refused (session.go onOpen).                                    *)
LEMMA OnOpenRefusedKeeps ==
    ASSUME IInv, OnOpenRefused
    PROVE  Kept
<1> DEFINE s == Head(k2e).id
           x2 == [ex[s] EXCEPT !.st = "failed"]
<1>1. /\ ExitReceives("OPEN") /\ ex' = [ex EXCEPT ![s] = x2] /\ UNCHANGED ec
      /\ e2k' = Append(e2k, Frame("OPEN_FAIL", s, 0))
  BY DEF OnOpenRefused
<1>2. /\ k2e' \in Seq(Frames) /\ UNCHANGED <<kv, kc>> /\ s \in Streams
      /\ WindowOf(k2e') = WindowOf(k2e) /\ Elsewhere(k2e, k2e', s)
      /\ Taken(View(k2e, s), "OPEN", 0, View(k2e', s)) /\ Seen(View(k2e', s))
  BY <1>1, ExitTakes
<1> HIDE DEF s
<1>3. /\ StreamOK(kv[s], ex[s], s, kc.next, Hand(kc, s), View(k2e, s), View(e2k, s))
      /\ Seen(View(k2e, s)) /\ Seen(View(e2k, s)) /\ kc.next \in Nat /\ Hand(kc, s) \in Nat
      /\ e2k \in Seq(Frames) /\ ec \in ExitSession
  BY <1>2, Here
<1>4. /\ e2k' \in Seq(Frames) /\ DataOf(e2k') = DataOf(e2k)
      /\ Elsewhere(e2k, e2k', s) /\ View(e2k', s) = View(e2k, s)
  BY <1>1, <1>2, <1>3, NoteSent
<1>5. StreamOK(kv[s], x2, s, kc.next, Hand(kc, s), View(k2e', s), View(e2k, s))
  BY <1>2, <1>3, DialStep
<1>6. x2.sending = ex[s].sending
  BY <1>2, Here DEF ExitStream
<1> HIDE DEF x2
<1> QED BY <1>1, <1>2, <1>3, <1>4, <1>5, <1>6, ExitStays

(* OPEN, OPENED and EOF carry no bytes.                                    *)
LEMMA MarkSent ==
    ASSUME NEW c \in Seq(Frames), NEW s \in Streams, NEW t \in {"OPEN", "OPENED", "EOF"},
           NEW d, d = Append(c, Frame(t, s, 0))
    PROVE  /\ d \in Seq(Frames) /\ DataOf(d) = DataOf(c) /\ WindowOf(d) = WindowOf(c)
           /\ Elsewhere(c, d, s) /\ Sent(View(c, s), t, 0, View(d, s)) /\ Seen(View(d, s))
<1>1. t \in FrameTypes /\ (t \in {"DATA", "WINDOW"} => 0 > 0) /\ 0 \in Nat
  BY DEF FrameTypes
<1>2. FrameSent(c, t, s, 0, d)
  BY <1>1, SendFrame
<1>3. DataOf(c) \in Nat
  BY ChannelType
<1> QED BY <1>2, <1>3 DEF FrameSent

(* The dial fails (session.go connect).                                    *)
LEMMA DialFailsKeeps ==
    ASSUME IInv, NEW s \in Streams, DialFails(s)
    PROVE  Kept
<1> DEFINE x2 == [ex[s] EXCEPT !.st = "failed"]
<1>1. /\ ex[s].st = "dial" /\ ex' = [ex EXCEPT ![s] = x2] /\ UNCHANGED <<kv, kc, ec, k2e>>
      /\ e2k' = Append(e2k, Frame("OPEN_FAIL", s, 0))
  BY DEF DialFails
<1>2. /\ StreamOK(kv[s], ex[s], s, kc.next, Hand(kc, s), View(k2e, s), View(e2k, s))
      /\ Seen(View(k2e, s)) /\ Seen(View(e2k, s)) /\ kc.next \in Nat /\ Hand(kc, s) \in Nat
      /\ k2e \in Seq(Frames) /\ e2k \in Seq(Frames) /\ ec \in ExitSession
  BY Here
<1>3. /\ e2k' \in Seq(Frames) /\ DataOf(e2k') = DataOf(e2k)
      /\ Elsewhere(e2k, e2k', s) /\ View(e2k', s) = View(e2k, s)
  BY <1>1, <1>2, NoteSent
<1>4. StreamOK(kv[s], x2, s, kc.next, Hand(kc, s), View(k2e, s), View(e2k, s))
  BY <1>1, <1>2, DialEndStep
<1>5. Elsewhere(k2e, k2e', s)
  BY <1>1, SameChannel
<1>6. x2.sending = ex[s].sending
  BY Here DEF ExitStream
<1> HIDE DEF x2
<1> QED BY <1>1, <1>2, <1>3, <1>4, <1>5, <1>6, ExitStays

(* The dial succeeds (session.go connect).                                 *)
LEMMA DialSucceedsKeeps ==
    ASSUME IInv, NEW s \in Streams, DialSucceeds(s)
    PROVE  Kept
<1> DEFINE x2 == [ex[s] EXCEPT !.st = "live"]
<1>1. /\ ex[s].st = "dial" /\ ex' = [ex EXCEPT ![s] = x2] /\ UNCHANGED <<kv, kc, ec, k2e>>
      /\ e2k' = Append(e2k, Frame("OPENED", s, 0))
  BY DEF DialSucceeds
<1>2. /\ StreamOK(kv[s], ex[s], s, kc.next, Hand(kc, s), View(k2e, s), View(e2k, s))
      /\ Seen(View(k2e, s)) /\ Seen(View(e2k, s)) /\ kc.next \in Nat /\ Hand(kc, s) \in Nat
      /\ k2e \in Seq(Frames) /\ e2k \in Seq(Frames) /\ ec \in ExitSession
  BY Here
<1>3. /\ e2k' \in Seq(Frames) /\ DataOf(e2k') = DataOf(e2k) /\ Elsewhere(e2k, e2k', s)
      /\ Sent(View(e2k, s), "OPENED", 0, View(e2k', s)) /\ Seen(View(e2k', s))
  BY <1>1, <1>2, MarkSent
<1>4. StreamOK(kv[s], x2, s, kc.next, Hand(kc, s), View(k2e, s), View(e2k', s))
  BY <1>1, <1>2, <1>3, DialSucceedsStep
<1>5. Elsewhere(k2e, k2e', s)
  BY <1>1, SameChannel
<1>6. x2.sending = ex[s].sending
  BY Here DEF ExitStream
<1> HIDE DEF x2
<1> QED BY <1>1, <1>2, <1>3, <1>4, <1>5, <1>6, ExitStays

(* A stream that the exit drops keeps its invariant (session.go drop).     *)
LEMMA DropOK ==
    ASSUME NEW k, NEW x, NEW s \in Streams, NEW next \in Nat, NEW h \in Nat, NEW a, NEW b,
           Seen(a), Seen(b), StreamOK(k, x, s, next, h, a, b),
           NEW why \in {"clean", "rst", "err"}
    PROVE  StreamOK(k, Drop(x, why), s, next, h, a, b) /\ Drop(x, why).sending = x.sending
<1>1. CASE x.st = "live"
  <2>1. Drop(x, why) = [x EXCEPT !.st = "gone", !.end = why, !.credit = 0]
    BY <1>1 DEF Drop
  <2>2. StreamOK(k, [x EXCEPT !.st = "gone", !.end = why, !.credit = 0], s, next, h, a, b)
    BY <1>1, DropStep
  <2>3. x \in ExitStream
    BY DEF StreamOK
  <2>4. [x EXCEPT !.st = "gone", !.end = why, !.credit = 0].sending = x.sending
    BY <2>3 DEF ExitStream
  <2> QED BY <2>1, <2>2, <2>4
<1>2. CASE x.st # "live"
  BY <1>2 DEF Drop
<1> QED BY <1>1, <1>2

(* The destination closes its side (session.go pump).                      *)
LEMMA PumpEOFKeeps ==
    ASSUME IInv, NEW s \in Streams, PumpEOF(s)
    PROVE  Kept
<1> DEFINE x1 == [ex[s] EXCEPT !.localEOF = TRUE]
           x2 == IF x1.remoteEOF THEN Drop(x1, "clean") ELSE x1
<1>1. /\ ex[s].st = "live" /\ ~ex[s].localEOF /\ ex[s].claim = 0 /\ ex[s].sending = 0
      /\ ex' = [ex EXCEPT ![s] = x2] /\ UNCHANGED <<kv, kc, ec, k2e>>
  BY DEF PumpEOF, Pumping
<1>2. /\ StreamOK(kv[s], ex[s], s, kc.next, Hand(kc, s), View(k2e, s), View(e2k, s))
      /\ Seen(View(k2e, s)) /\ Seen(View(e2k, s)) /\ kc.next \in Nat /\ Hand(kc, s) \in Nat
      /\ k2e \in Seq(Frames) /\ e2k \in Seq(Frames) /\ ec \in ExitSession
  BY Here
<1>3. /\ e2k' \in Seq(Frames) /\ DataOf(e2k') = DataOf(e2k) /\ Elsewhere(e2k, e2k', s)
      /\ Sent(View(e2k, s), "EOF", 0, View(e2k', s)) /\ Seen(View(e2k', s))
  <2>1. e2k' = Append(e2k, Frame("EOF", s, 0))
    BY DEF PumpEOF
  <2> QED BY <1>2, <2>1, MarkSent
<1>4. StreamOK(kv[s], x1, s, kc.next, Hand(kc, s), View(k2e, s), View(e2k', s))
  BY <1>1, <1>2, <1>3, PumpEOFStep
<1>5. x1.sending = ex[s].sending /\ x1.st = "live" /\ x1 \in ExitStream
  BY <1>1, Here DEF ExitStream
<1> HIDE DEF x1
<1>6. StreamOK(kv[s], x2, s, kc.next, Hand(kc, s), View(k2e, s), View(e2k', s))
  BY <1>2, <1>3, <1>4, DropOK
<1>7. Elsewhere(k2e, k2e', s)
  BY <1>1, SameChannel
<1>8. x2.sending = ex[s].sending
  BY <1>2, <1>3, <1>4, <1>5, DropOK
<1> HIDE DEF x2
<1> QED BY <1>1, <1>2, <1>3, <1>6, <1>7, <1>8, ExitStays

(* The destination resets (session.go pump).                               *)
LEMMA PumpFailsKeeps ==
    ASSUME IInv, NEW s \in Streams, PumpFails(s)
    PROVE  Kept
<1> DEFINE x2 == Drop(ex[s], "err")
<1>1. /\ ex[s].st = "live" /\ ex' = [ex EXCEPT ![s] = x2] /\ UNCHANGED <<kv, kc, ec, k2e>>
      /\ e2k' = Append(e2k, Frame("RST", s, 0))
  BY DEF PumpFails, Pumping
<1>2. /\ StreamOK(kv[s], ex[s], s, kc.next, Hand(kc, s), View(k2e, s), View(e2k, s))
      /\ Seen(View(k2e, s)) /\ Seen(View(e2k, s)) /\ kc.next \in Nat /\ Hand(kc, s) \in Nat
      /\ k2e \in Seq(Frames) /\ e2k \in Seq(Frames) /\ ec \in ExitSession /\ ex[s] \in ExitStream
  BY Here
<1>3. /\ e2k' \in Seq(Frames) /\ DataOf(e2k') = DataOf(e2k)
      /\ Elsewhere(e2k, e2k', s) /\ View(e2k', s) = View(e2k, s)
  BY <1>1, <1>2, NoteSent
<1>4. StreamOK(kv[s], x2, s, kc.next, Hand(kc, s), View(k2e, s), View(e2k, s))
  BY <1>2, DropOK
<1>5. Elsewhere(k2e, k2e', s)
  BY <1>1, SameChannel
<1>6. x2.sending = ex[s].sending
  BY <1>2, DropOK
<1> HIDE DEF x2
<1> QED BY <1>1, <1>2, <1>3, <1>4, <1>5, <1>6, ExitStays

(* The pump takes the stream's credit for what it read (session.go pump,   *)
(* takeBoth).                                                              *)
LEMMA PumpClaimKeeps ==
    ASSUME IInv, NEW s \in Streams, NEW n \in 1..MaxFrame, PumpClaim(s, n)
    PROVE  Kept
<1> DEFINE m == Take(ex[s].credit, n)
           x2 == [ex[s] EXCEPT !.credit = ex[s].credit - m, !.claim = m]
<1>1. /\ ex[s].st = "live" /\ ~ex[s].localEOF /\ ex[s].claim = 0 /\ ex[s].sending = 0
      /\ ex[s].credit > 0
      /\ ex' = [ex EXCEPT ![s] = x2] /\ UNCHANGED <<kv, kc, ec, k2e, e2k>>
  BY DEF PumpClaim, Pumping
<1>2. /\ StreamOK(kv[s], ex[s], s, kc.next, Hand(kc, s), View(k2e, s), View(e2k, s))
      /\ Seen(View(k2e, s)) /\ Seen(View(e2k, s)) /\ kc.next \in Nat /\ Hand(kc, s) \in Nat
      /\ k2e \in Seq(Frames) /\ e2k \in Seq(Frames) /\ ec \in ExitSession /\ ex[s] \in ExitStream
  BY Here
<1>3. ex[s].credit \in Nat /\ n \in Nat /\ n > 0 /\ n <= MaxFrame /\ MaxFrame \in Nat
  <2>1. ex[s].credit \in Nat
    BY <1>2 DEF ExitStream
  <2> QED BY <2>1, NexitAssumption
<1>4. m \in Nat /\ m > 0 /\ m <= ex[s].credit /\ m <= n
  BY <1>1, <1>3, TakeIs
<1> HIDE DEF m
<1>5. m <= MaxFrame
  BY <1>3, <1>4
<1>6. StreamOK(kv[s], x2, s, kc.next, Hand(kc, s), View(k2e, s), View(e2k, s))
  BY <1>1, <1>2, <1>4, <1>5, PumpClaimStep
<1>7. Elsewhere(k2e, k2e', s) /\ Elsewhere(e2k, e2k', s)
  BY <1>1, SameChannel
<1>8. x2.sending = ex[s].sending
  BY <1>2 DEF ExitStream
<1> HIDE DEF x2
<1> QED BY <1>1, <1>2, <1>6, <1>7, <1>8, ExitStays

(* The pump takes the connection's credit (session.go pump, takeBoth).     *)
LEMMA PumpTakeKeeps ==
    ASSUME IInv, NEW s \in Streams, PumpTake(s)
    PROVE  Kept
<1> DEFINE m == Take(ec.credit, ex[s].claim)
           c == IF ex[s].st = "live" THEN ex[s].credit + (ex[s].claim - m) ELSE ex[s].credit
           x2 == [ex[s] EXCEPT !.credit = c, !.claim = 0, !.sending = m, !.read = ex[s].read + m]
<1>1. /\ ex[s].claim > 0 /\ ec.credit > 0
      /\ ex' = [ex EXCEPT ![s] = x2] /\ UNCHANGED <<kv, kc, k2e, e2k>>
      /\ ec' = [ec EXCEPT !.credit = ec.credit - m]
  BY DEF PumpTake
<1>2. /\ StreamOK(kv[s], ex[s], s, kc.next, Hand(kc, s), View(k2e, s), View(e2k, s))
      /\ Seen(View(k2e, s)) /\ Seen(View(e2k, s)) /\ kc.next \in Nat /\ Hand(kc, s) \in Nat
      /\ k2e \in Seq(Frames) /\ e2k \in Seq(Frames) /\ ec \in ExitSession /\ ex[s] \in ExitStream
  BY Here
<1>3. ex[s].credit \in Nat /\ ex[s].claim \in Nat /\ ec.credit \in Nat
  BY <1>2 DEF ExitSession, ExitStream
<1>4. m \in Nat \ {0} /\ m > 0 /\ m <= ex[s].claim /\ m <= ec.credit
  BY <1>1, <1>3, TakeIs
<1> HIDE DEF m
<1>5. /\ c \in Nat /\ c <= ex[s].credit + (ex[s].claim - m)
      /\ ex[s].st = "live" => c = ex[s].credit + (ex[s].claim - m)
  BY <1>3, <1>4
<1> HIDE DEF c
<1>6. m <= MaxFrame /\ ec.credit - m \in Nat /\ ex[s].sending = 0
  <2>1. ex[s].claim <= MaxFrame /\ (ex[s].claim = 0 \/ ex[s].sending = 0)
    BY <1>2, StreamParts DEF StreamBytes
  <2> QED BY <1>1, <1>3, <1>4, <2>1, NexitAssumption
<1>7. ec' \in ExitSession /\ ec'.credit = ec.credit - m
  BY <1>1, <1>2, <1>6 DEF ExitSession
<1>8. StreamOK(kv[s], x2, s, kc.next, Hand(kc, s), View(k2e, s), View(e2k, s))
  BY <1>1, <1>2, <1>4, <1>5, PumpTakeStep
<1>9. Elsewhere(k2e, k2e', s) /\ Elsewhere(e2k, e2k', s)
  BY <1>1, SameChannel
<1>10. x2.sending = m
  BY <1>2 DEF ExitStream
<1> HIDE DEF x2
<1>11. /\ TypeInv' /\ StreamsOK' /\ HeldOK' /\ TableStep
       /\ SendingOf(ex) \in Nat /\ SendingOf(ex') \in Nat
       /\ ex[s].sending \in Nat
       /\ SendingOf(ex') + ex[s].sending = SendingOf(ex) + x2.sending
  BY <1>1, <1>2, <1>7, <1>8, <1>9, ExitStep
<1>12. DataOf(e2k) \in Nat
  BY <1>2, ChannelType
<1>13. Wire' = Wire + m
  <2>1. SendingOf(ex') = SendingOf(ex) + m
    BY <1>4, <1>6, <1>10, <1>11
  <2> QED BY <1>1, <1>4, <1>11, <1>12, <2>1 DEF Wire
<1>14. ec'.credit + m = ec.credit
  BY <1>3, <1>4, <1>7
<1>15. MoveTake(m)
  BY <1>1, <1>6, <1>13, <1>14 DEF MoveTake
<1> QED BY <1>4, <1>11, <1>15 DEF Kept, ConnStep, Move

(* The pump gives up its claim (session.go pump, takeBoth).                *)
LEMMA PumpGivesUpKeeps ==
    ASSUME IInv, NEW s \in Streams, PumpGivesUp(s)
    PROVE  Kept
<1> DEFINE x2 == [ex[s] EXCEPT !.claim = 0]
<1>1. /\ ex[s].claim > 0 /\ ex[s].st = "gone"
      /\ ex' = [ex EXCEPT ![s] = x2] /\ UNCHANGED <<kv, kc, ec, k2e, e2k>>
  BY DEF PumpGivesUp
<1>2. /\ StreamOK(kv[s], ex[s], s, kc.next, Hand(kc, s), View(k2e, s), View(e2k, s))
      /\ Seen(View(k2e, s)) /\ Seen(View(e2k, s)) /\ kc.next \in Nat /\ Hand(kc, s) \in Nat
      /\ k2e \in Seq(Frames) /\ e2k \in Seq(Frames) /\ ec \in ExitSession /\ ex[s] \in ExitStream
  BY Here
<1>3. StreamOK(kv[s], x2, s, kc.next, Hand(kc, s), View(k2e, s), View(e2k, s))
  BY <1>1, <1>2, PumpGivesUpStep
<1>4. Elsewhere(k2e, k2e', s) /\ Elsewhere(e2k, e2k', s)
  BY <1>1, SameChannel
<1>5. x2.sending = ex[s].sending
  BY <1>2 DEF ExitStream
<1> HIDE DEF x2
<1> QED BY <1>1, <1>2, <1>3, <1>4, <1>5, ExitStays

(* The pump sends what it took credit for (session.go pump).               *)
LEMMA PumpSendKeeps ==
    ASSUME IInv, NEW s \in Streams, PumpSend(s)
    PROVE  Kept
<1> DEFINE n == ex[s].sending
           x2 == [ex[s] EXCEPT !.sending = 0]
<1>1. /\ n > 0 /\ ex' = [ex EXCEPT ![s] = x2] /\ UNCHANGED <<kv, kc, ec, k2e>>
      /\ e2k' = Append(e2k, Frame("DATA", s, n))
  BY DEF PumpSend
<1>2. /\ StreamOK(kv[s], ex[s], s, kc.next, Hand(kc, s), View(k2e, s), View(e2k, s))
      /\ Seen(View(k2e, s)) /\ Seen(View(e2k, s)) /\ kc.next \in Nat /\ Hand(kc, s) \in Nat
      /\ k2e \in Seq(Frames) /\ e2k \in Seq(Frames) /\ ec \in ExitSession /\ ex[s] \in ExitStream
  BY Here
<1>3. n \in Nat /\ x2.sending = 0
  BY <1>2 DEF ExitStream
<1>4. FrameSent(e2k, "DATA", s, n, e2k')
  <2> HIDE DEF n
  <2>1. "DATA" \in FrameTypes
    BY DEF FrameTypes
  <2> QED BY <1>1, <1>2, <1>3, <2>1, SendFrame
<1>5. /\ e2k' \in Seq(Frames) /\ Elsewhere(e2k, e2k', s)
      /\ Sent(View(e2k, s), "DATA", n, View(e2k', s)) /\ Seen(View(e2k', s))
      /\ DataOf(e2k') = DataOf(e2k) + n
  BY <1>4 DEF FrameSent
<1>6. StreamOK(kv[s], x2, s, kc.next, Hand(kc, s), View(k2e, s), View(e2k', s))
  BY <1>1, <1>2, <1>5, PumpSendStep
<1>7. Elsewhere(k2e, k2e', s)
  BY <1>1, SameChannel
<1> HIDE DEF x2
<1>8. /\ TypeInv' /\ StreamsOK' /\ HeldOK' /\ TableStep
      /\ SendingOf(ex) \in Nat /\ SendingOf(ex') \in Nat
      /\ SendingOf(ex') + ex[s].sending = SendingOf(ex) + x2.sending
  BY <1>1, <1>2, <1>5, <1>6, <1>7, ExitStep
<1>9. DataOf(e2k) \in Nat
  BY <1>2, ChannelType
<1>10. SendingOf(ex') + n = SendingOf(ex)
  BY <1>3, <1>8
<1> HIDE DEF n
<1>11. Wire' = Wire
  BY <1>3, <1>5, <1>8, <1>9, <1>10 DEF Wire
<1>12. CreditStays
  BY <1>1, <1>11 DEF CreditStays
<1> QED BY <1>8, <1>12 DEF Kept, ConnStep

(* RST reaches the exit (session.go handle).                               *)
LEMMA ExitRecvRSTKeeps ==
    ASSUME IInv, ExitRecvRST
    PROVE  Kept
<1> DEFINE s == Head(k2e).id
           x2 == Drop(ex[s], "rst")
<1>1. ExitReceives("RST") /\ ex' = [ex EXCEPT ![s] = x2] /\ UNCHANGED <<ec, e2k>>
  BY DEF ExitRecvRST
<1>2. /\ k2e' \in Seq(Frames) /\ UNCHANGED <<kv, kc>> /\ s \in Streams
      /\ WindowOf(k2e') = WindowOf(k2e) /\ Everywhere(k2e, k2e')
  BY <1>1, ExitTakes
<1> HIDE DEF s
<1>3. /\ StreamOK(kv[s], ex[s], s, kc.next, Hand(kc, s), View(k2e, s), View(e2k, s))
      /\ Seen(View(k2e, s)) /\ Seen(View(e2k, s)) /\ kc.next \in Nat /\ Hand(kc, s) \in Nat
      /\ e2k \in Seq(Frames) /\ ec \in ExitSession /\ ex[s] \in ExitStream
  BY <1>2, Here
<1>4. Elsewhere(k2e, k2e', s) /\ View(k2e', s) = View(k2e, s) /\ Elsewhere(e2k, e2k', s)
  BY <1>1, <1>2, EverywhereIs, SameChannel
<1>5. /\ StreamOK(kv[s], x2, s, kc.next, Hand(kc, s), View(k2e, s), View(e2k, s))
      /\ x2.sending = ex[s].sending
  BY <1>2, <1>3, DropOK
<1> HIDE DEF x2
<1> QED BY <1>1, <1>2, <1>3, <1>4, <1>5, ExitStays

(* The exit's queue of items.                                              *)
LEMMA DataQueued ==
    ASSUME NEW q \in Items, NEW n \in Nat \ {0}
    PROVE  /\ Append(q, n) \in Items /\ Sum(Append(q, n)) = Sum(q) + n
           /\ NoEOFItem(q) => NoEOFItem(Append(q, n))
<1>1. q \in Seq(Nat)
  BY DEF Items
<1>2. Sum(Append(q, n)) = Sum(q) + n
  BY <1>1, SumQueue
<1>3. Append(q, n) \in Items /\ (NoEOFItem(q) => NoEOFItem(Append(q, n)))
  BY <1>1 DEF Items, NoEOFItem
<1> QED BY <1>2, <1>3

(* The eof item enters the exit's queue.                                   *)
LEMMA EOFQueued ==
    ASSUME NEW q \in Items
    PROVE  /\ Append(q, 0) \in Items /\ Sum(Append(q, 0)) = Sum(q)
           /\ NoEOFItem(q) => EOFItemLast(Append(q, 0))
<1>1. q \in Seq(Nat)
  BY DEF Items
<1>2. Sum(Append(q, 0)) = Sum(q) + 0 /\ Sum(q) \in Nat
  BY <1>1, SumQueue, SeqFinite
<1>3. Append(q, 0) \in Items /\ (NoEOFItem(q) => EOFItemLast(Append(q, 0)))
  BY <1>1 DEF Items, NoEOFItem, EOFItemLast
<1> QED BY <1>2, <1>3

(* The head leaves the exit's queue.                                       *)
LEMMA ItemDrained ==
    ASSUME NEW q \in Items, q # <<>>
    PROVE  /\ Tail(q) \in Items /\ Head(q) \in Nat
           /\ Sum(Tail(q)) \in Nat /\ Sum(Tail(q)) + Head(q) = Sum(q)
           /\ EOFItemLast(q) => EOFItemLast(Tail(q))
           /\ NoEOFItem(q) => NoEOFItem(Tail(q))
<1>1. q \in Seq(Nat) /\ Tail(q) \in Seq(Nat) /\ Head(q) \in Nat
  BY DEF Items
<1>2. Sum(Tail(q)) + Head(q) = Sum(q) /\ Sum(Tail(q)) \in Nat
  BY <1>1, SumQueue, SeqFinite
<1>3. /\ EOFItemLast(q) => EOFItemLast(Tail(q))
      /\ NoEOFItem(q) => NoEOFItem(Tail(q))
  BY <1>1 DEF NoEOFItem, EOFItemLast
<1> QED BY <1>1, <1>2, <1>3 DEF Items

(* A stream of which DATA or EOF reaches the exit was dialled, and nothing *)
(* follows its EOF.                                                        *)
LEMMA SeenByExit ==
    ASSUME NEW k, NEW x, NEW s, NEW next, NEW h, NEW a, NEW b, NEW a2, NEW n,
           NEW t \in {"DATA", "EOF"}, StreamOK(k, x, s, next, h, a, b), Taken(a, t, n, a2)
    PROVE  x.st \in {"live", "gone"}
BY DEF StreamOK, Opening, Taken

(* DATA on the wire means that the exit has seen no EOF of the stream.     *)
LEMMA DataBeforeEOF ==
    ASSUME NEW k, NEW x, NEW s, NEW next, NEW h, NEW a, NEW b, NEW a2, NEW n \in Nat \ {0},
           Seen(a2), StreamOK(k, x, s, next, h, a, b), Taken(a, "DATA", n, a2)
    PROVE  ~x.remoteEOF
<1>1. a.d = a2.d + n /\ a2.d \in Nat
  BY ViewFields DEF Taken, ViewNumbers
<1>2. a.d # 0
  BY <1>1
<1> QED BY <1>2 DEF StreamOK, UpEOF

(* EOF reaches the exit (session.go handle).                               *)
LEMMA ExitRecvEOFKeeps ==
    ASSUME IInv, ExitRecvEOF
    PROVE  Kept
<1> DEFINE s == Head(k2e).id
           q == Append(ex[s].queue, 0)
           x1 == [ex[s] EXCEPT !.queue = q, !.remoteEOF = TRUE]
           x2 == IF ex[s].st = "live" THEN x1 ELSE ex[s]
<1>1. ExitReceives("EOF") /\ UNCHANGED <<ec, e2k>>
  BY DEF ExitRecvEOF
<1>2. /\ k2e' \in Seq(Frames) /\ UNCHANGED <<kv, kc>> /\ s \in Streams
      /\ WindowOf(k2e') = WindowOf(k2e) /\ Elsewhere(k2e, k2e', s)
      /\ Taken(View(k2e, s), "EOF", 0, View(k2e', s)) /\ Seen(View(k2e', s))
  BY <1>1, ExitTakes
<1>3. /\ StreamOK(kv[s], ex[s], s, kc.next, Hand(kc, s), View(k2e, s), View(e2k, s))
      /\ Seen(View(k2e, s)) /\ Seen(View(e2k, s)) /\ kc.next \in Nat /\ Hand(kc, s) \in Nat
      /\ e2k \in Seq(Frames) /\ ec \in ExitSession /\ ex[s] \in ExitStream
  BY <1>2, Here
<1>4. ex' = [ex EXCEPT ![s] = x2]
  <2>1. ex \in [Streams -> ExitStream]
    BY DEF IInv, TypeInv
  <2>2. CASE ex[s].st = "live"
    BY <2>2 DEF ExitRecvEOF
  <2>3. CASE ex[s].st # "live"
    <3>1. ex' = ex
      BY <2>3 DEF ExitRecvEOF
    <3> QED BY <1>2, <2>1, <2>3, <3>1
  <2> QED BY <2>2, <2>3
<1> HIDE DEF s
<1>5. StreamOK(kv[s], x2, s, kc.next, Hand(kc, s), View(k2e', s), View(e2k, s))
  <2>1. CASE ex[s].st = "live"
    <3>1. ex[s].queue \in Items
      BY <1>3, ExitFields
    <3>2. /\ q \in Items /\ Sum(q) = Sum(ex[s].queue)
          /\ NoEOFItem(ex[s].queue) => EOFItemLast(q)
      BY <3>1, EOFQueued
    <3> HIDE DEF q
    <3>3. StreamOK(kv[s], x1, s, kc.next, Hand(kc, s), View(k2e', s), View(e2k, s))
      BY <1>2, <1>3, <2>1, <3>2, ExitEOFStep
    <3> QED BY <2>1, <3>3
  <2>2. CASE ex[s].st # "live"
    <3>1. ex[s].st = "gone"
      BY <1>2, <1>3, <2>2, SeenByExit
    <3>2. StreamOK(kv[s], ex[s], s, kc.next, Hand(kc, s), View(k2e', s), View(e2k, s))
      BY <1>2, <1>3, <3>1, ExitLateEOFStep
    <3> QED BY <2>2, <3>2
  <2> QED BY <2>1, <2>2
<1>6. x2.sending = ex[s].sending
  BY <1>3 DEF ExitStream
<1>7. Elsewhere(e2k, e2k', s)
  BY <1>1, SameChannel
<1> HIDE DEF x2
<1> QED BY <1>1, <1>2, <1>3, <1>4, <1>5, <1>6, <1>7, ExitStays

(* WINDOW reaches the exit (session.go handle).                            *)
LEMMA ExitRecvWindowKeeps ==
    ASSUME IInv, ExitRecvWindow
    PROVE  Kept
<1> DEFINE s == Head(k2e).id
           n == Head(k2e).n
<1>1. ExitReceives("WINDOW") /\ UNCHANGED e2k
  BY DEF ExitRecvWindow
<1>2. /\ k2e' \in Seq(Frames) /\ UNCHANGED <<kv, kc>>
      /\ n \in Nat \ {0} /\ (s = 0 \/ s \in Streams)
      /\ WindowOf(k2e) = WindowOf(k2e') + (IF s = 0 THEN n ELSE 0)
      /\ s \in Streams => WindowOf(k2e') = WindowOf(k2e)
      /\ Elsewhere(k2e, k2e', s) /\ (s = 0 => Everywhere(k2e, k2e'))
      /\ Taken(View(k2e, s), "WINDOW", n, View(k2e', s)) /\ Seen(View(k2e', s))
  BY <1>1, ExitTakes
<1>3. e2k \in Seq(Frames) /\ ec \in ExitSession /\ ex \in [Streams -> ExitStream] /\ 0 \notin Streams
  BY StreamIds DEF IInv, TypeInv
<1>4. CASE s = 0
  <2>1. ec' = [ec EXCEPT !.credit = ec.credit + n] /\ UNCHANGED ex
    BY <1>4 DEF ExitRecvWindow
  <2> HIDE DEF s, n
  <2>2. ec.credit \in Nat
    BY <1>3 DEF ExitSession
  <2>3. ec' \in ExitSession /\ ec'.credit = ec.credit + n
    <3>1. ec.credit + n \in Nat
      BY <1>2, <2>2
    <3> QED BY <1>3, <2>1, <3>1 DEF ExitSession
  <2>4. Everywhere(k2e, k2e') /\ Everywhere(e2k, e2k')
    BY <1>1, <1>2, <1>4, SameChannel
  <2>5. TypeInv' /\ StreamsOK' /\ HeldOK' /\ TableStep
    BY <1>1, <1>2, <1>3, <2>1, <2>3, <2>4, ExitOnly
  <2>6. Wire' = Wire
    BY <1>1, <2>1 DEF Wire
  <2>7. WindowOf(k2e') + n = WindowOf(k2e)
    BY <1>2, <1>4
  <2>8. MoveAdd(n)
    BY <1>2, <2>3, <2>6, <2>7 DEF MoveAdd
  <2> QED BY <1>2, <2>5, <2>8 DEF Kept, ConnStep, Move
<1>5. CASE s \in Streams
  <2> DEFINE x1 == [ex[s] EXCEPT !.credit = ex[s].credit + n]
             x2 == IF ex[s].st = "live" THEN x1 ELSE ex[s]
  <2>1. UNCHANGED ec /\ ex' = [ex EXCEPT ![s] = x2]
    <3>1. UNCHANGED ec /\ ex' = IF ex[s].st = "live" THEN [ex EXCEPT ![s].credit = @ + n] ELSE ex
      BY <1>3, <1>5 DEF ExitRecvWindow
    <3> QED BY <1>3, <1>5, <3>1
  <2>2. /\ StreamOK(kv[s], ex[s], s, kc.next, Hand(kc, s), View(k2e, s), View(e2k, s))
        /\ Seen(View(k2e, s)) /\ Seen(View(e2k, s)) /\ kc.next \in Nat /\ Hand(kc, s) \in Nat
        /\ ex[s] \in ExitStream
    BY <1>5, Here
  <2> HIDE DEF s, n
  <2>3. StreamOK(kv[s], x2, s, kc.next, Hand(kc, s), View(k2e', s), View(e2k, s))
    <3>1. CASE ex[s].st = "live"
      <4>1. StreamOK(kv[s], x1, s, kc.next, Hand(kc, s), View(k2e', s), View(e2k, s))
        BY <1>2, <1>5, <2>2, <3>1, ExitCreditStep
      <4> QED BY <3>1, <4>1
    <3>2. CASE ex[s].st # "live"
      <4>1. StreamOK(kv[s], ex[s], s, kc.next, Hand(kc, s), View(k2e', s), View(e2k, s))
        BY <1>2, <1>5, <2>2, <3>2, ExitLateCreditStep
      <4> QED BY <3>2, <4>1
    <3> QED BY <3>1, <3>2
  <2>4. x2.sending = ex[s].sending
    BY <2>2 DEF ExitStream
  <2>5. Elsewhere(e2k, e2k', s) /\ WindowOf(k2e') = WindowOf(k2e)
    BY <1>1, <1>2, <1>5, SameChannel
  <2> HIDE DEF x2
  <2> QED BY <1>1, <1>2, <1>3, <1>5, <2>1, <2>3, <2>4, <2>5, ExitStays
<1> QED BY <1>2, <1>4, <1>5

(* DATA reaches the exit (session.go handle).                              *)
LEMMA ExitRecvDataKeeps ==
    ASSUME IInv, ExitRecvData
    PROVE  Kept
<1> DEFINE s == Head(k2e).id
           n == Head(k2e).n
           x == ex[s]
<1>1. ExitReceives("DATA")
  BY DEF ExitRecvData
<1>2. /\ k2e' \in Seq(Frames) /\ UNCHANGED <<kv, kc>> /\ s \in Streams /\ n \in Nat \ {0}
      /\ WindowOf(k2e') = WindowOf(k2e) /\ Elsewhere(k2e, k2e', s)
      /\ Taken(View(k2e, s), "DATA", n, View(k2e', s)) /\ Seen(View(k2e', s))
  BY <1>1, ExitTakes
<1>3. /\ StreamOK(kv[s], ex[s], s, kc.next, Hand(kc, s), View(k2e, s), View(e2k, s))
      /\ Seen(View(k2e, s)) /\ Seen(View(e2k, s)) /\ kc.next \in Nat /\ Hand(kc, s) \in Nat
      /\ e2k \in Seq(Frames) /\ ec \in ExitSession /\ ex[s] \in ExitStream
  BY <1>2, Here
<1>4. ex \in [Streams -> ExitStream]
  BY DEF IInv, TypeInv
<1>5. x.st \in {"live", "gone"} /\ ~x.remoteEOF
  BY <1>2, <1>3, SeenByExit, DataBeforeEOF
<1>6. CASE x.st = "live"
  <2> DEFINE q == Append(x.queue, n)
             x2 == [x EXCEPT !.queue = q]
  <2>1. ex' = [ex EXCEPT ![s] = x2] /\ UNCHANGED <<ec, e2k>>
    BY <1>5, <1>6 DEF ExitRecvData
  <2> HIDE DEF s, n
  <2>2. ex[s].queue \in Items
    BY <1>3, ExitFields
  <2>3. q \in Items /\ Sum(q) = Sum(x.queue) + n /\ (NoEOFItem(x.queue) => NoEOFItem(q))
    BY <1>2, <2>2, DataQueued
  <2> HIDE DEF q
  <2>4. StreamOK(kv[s], x2, s, kc.next, Hand(kc, s), View(k2e', s), View(e2k, s))
    BY <1>2, <1>3, <1>6, <2>3, ExitDataStep
  <2>5. x2.sending = ex[s].sending
    BY <1>3 DEF ExitStream
  <2>6. Elsewhere(e2k, e2k', s)
    BY <2>1, SameChannel
  <2> HIDE DEF x2
  <2> QED BY <1>2, <1>3, <2>1, <2>4, <2>5, <2>6, ExitStays
<1>7. CASE x.st = "gone"
  <2>1. /\ ec' = CreditConn(ec, n) /\ UNCHANGED ex
        /\ e2k' = e2k \o WindowFrame(0, ConnWindow, ec.consumed, n)
    BY <1>7 DEF ExitRecvData
  <2> HIDE DEF s, n
  <2>2. ec.consumed \in Nat /\ ec.credit \in Nat
    BY <1>3 DEF ExitSession
  <2>3. e2k' \in Seq(Frames) /\ DataOf(e2k') = DataOf(e2k) /\ Everywhere(e2k, e2k')
    BY <1>2, <1>3, <2>1, <2>2, ConnFrames
  <2>4. Elsewhere(e2k, e2k', s) /\ View(e2k', s) = View(e2k, s)
    BY <1>2, <2>3, EverywhereIs
  <2>5. StreamOK(kv[s], ex[s], s, kc.next, Hand(kc, s), View(k2e', s), View(e2k, s))
    BY <1>2, <1>3, <1>7, ExitLateDataStep
  <2>6. ec' \in ExitSession /\ ec'.credit = ec.credit
    <3>1. Owed(ConnWindow, ec.consumed, n) \in Nat
      BY <1>2, <2>2, OwedType
    <3> QED BY <1>3, <2>1, <3>1 DEF CreditConn, ExitSession
  <2>7. ex' = [ex EXCEPT ![s] = ex[s]]
    BY <1>2, <1>4, <2>1
  <2> QED BY <1>2, <1>3, <2>3, <2>4, <2>5, <2>6, <2>7, ExitStays
<1> QED BY <1>5, <1>6, <1>7

(* Bytes reach the destination (session.go drainTCP).                      *)
LEMMA DrainWritesKeeps ==
    ASSUME IInv, NEW s \in Streams, DrainWrites(s)
    PROVE  Kept
<1> DEFINE x == ex[s]
           n == Head(x.queue)
           q == Tail(x.queue)
           c == Owed(StreamWindow, x.consumed, n)
           x2 == [x EXCEPT !.queue = q, !.put = x.put + n, !.consumed = c]
           mid == e2k \o WindowFrame(s, StreamWindow, x.consumed, n)
<1>1. /\ x.st = "live" /\ x.queue # <<>> /\ n > 0
      /\ ex' = [ex EXCEPT ![s] = x2] /\ ec' = CreditConn(ec, n)
      /\ e2k' = mid \o WindowFrame(0, ConnWindow, ec.consumed, n)
      /\ UNCHANGED <<kv, kc, k2e>>
  BY DEF DrainWrites
<1>2. /\ StreamOK(kv[s], ex[s], s, kc.next, Hand(kc, s), View(k2e, s), View(e2k, s))
      /\ Seen(View(k2e, s)) /\ Seen(View(e2k, s)) /\ kc.next \in Nat /\ Hand(kc, s) \in Nat
      /\ k2e \in Seq(Frames) /\ e2k \in Seq(Frames) /\ ec \in ExitSession /\ ex[s] \in ExitStream
  BY Here
<1>3. x.queue \in Items /\ x.consumed \in Nat
  BY <1>2, ExitFields DEF ExitNumbers
<1>4. /\ q \in Items /\ n \in Nat /\ Sum(q) \in Nat /\ Sum(q) + n = Sum(x.queue)
      /\ EOFItemLast(x.queue) => EOFItemLast(q)
      /\ NoEOFItem(x.queue) => NoEOFItem(q)
  BY <1>1, <1>3, ItemDrained
<1>5. ~x.shut
  BY <1>1, <1>2 DEF StreamOK, UpEOF
<1>6. ec.consumed \in Nat /\ ec.credit \in Nat
  BY <1>2 DEF ExitSession
<1> HIDE DEF n, q
<1>7. n \in Nat \ {0}
  BY <1>1, <1>4
<1>8. /\ mid \in Seq(Frames) /\ DataOf(mid) = DataOf(e2k) /\ Elsewhere(e2k, mid, s) /\ c \in Nat
      /\ \E m \in Nat : c + m = x.consumed + n /\ Sent(View(e2k, s), "WINDOW", m, View(mid, s))
  BY <1>2, <1>3, <1>7, StreamFrames
<1>9. PICK m \in Nat : c + m = x.consumed + n /\ Sent(View(e2k, s), "WINDOW", m, View(mid, s))
  BY <1>8
<1> HIDE DEF mid
<1>10. e2k' \in Seq(Frames) /\ DataOf(e2k') = DataOf(mid) /\ Everywhere(mid, e2k')
  BY <1>1, <1>6, <1>7, <1>8, ConnFrames
<1>11. Elsewhere(e2k, e2k', s) /\ View(e2k', s) = View(mid, s)
  BY <1>8, <1>10, ElsewhereTwice
<1>12. Seen(View(mid, s))
  BY <1>8, ViewSeen
<1>13. ec' \in ExitSession /\ ec'.credit = ec.credit
  <2>1. Owed(ConnWindow, ec.consumed, n) \in Nat
    BY <1>6, <1>7, OwedType
  <2> QED BY <1>1, <1>2, <2>1 DEF CreditConn, ExitSession
<1> HIDE DEF c
<1>14. StreamOK(kv[s], x2, s, kc.next, Hand(kc, s), View(k2e, s), View(mid, s))
  BY <1>1, <1>2, <1>4, <1>5, <1>8, <1>9, <1>12, DrainStep
<1>15. x2.sending = ex[s].sending
  BY <1>2 DEF ExitStream
<1>16. Elsewhere(k2e, k2e', s) /\ View(k2e', s) = View(k2e, s)
  BY <1>1, SameChannel
<1> HIDE DEF x2
<1>17. DataOf(e2k') = DataOf(e2k)
  BY <1>8, <1>10
<1>18. StreamOK(kv[s], x2, s, kc.next, Hand(kc, s), View(k2e', s), View(e2k', s))
  BY <1>11, <1>14, <1>16
<1>19. ex' = [ex EXCEPT ![s] = x2] /\ UNCHANGED <<kv, kc, k2e>> /\ k2e' \in Seq(Frames)
  BY <1>1, <1>2
<1> QED BY <1>10, <1>11, <1>13, <1>15, <1>16, <1>17, <1>18, <1>19, ExitStays

(* The destination refuses them (session.go drainTCP).                     *)
LEMMA WriteFailsKeeps ==
    ASSUME IInv, NEW s \in Streams, ex[s].st \in {"live", "gone"}, WriteFails(s)
    PROVE  Kept
<1> DEFINE x == ex[s]
           x2 == Drop([x EXCEPT !.queue = <<>>], "err")
           x3 == [Drop(x, "err") EXCEPT !.queue = <<>>]
<1>1. /\ ex' = [ex EXCEPT ![s] = x2] /\ UNCHANGED <<kv, kc, ec, k2e>>
      /\ e2k' = Append(e2k, Frame("RST", s, 0))
  BY DEF WriteFails
<1>2. /\ StreamOK(kv[s], ex[s], s, kc.next, Hand(kc, s), View(k2e, s), View(e2k, s))
      /\ Seen(View(k2e, s)) /\ Seen(View(e2k, s)) /\ kc.next \in Nat /\ Hand(kc, s) \in Nat
      /\ k2e \in Seq(Frames) /\ e2k \in Seq(Frames) /\ ec \in ExitSession /\ ex[s] \in ExitStream
  BY Here
<1>3. x2 = x3
  <2>1. [x EXCEPT !.queue = <<>>].st = x.st
    BY <1>2 DEF ExitStream
  <2>2. CASE x.st = "live"
    <3>1. x2 = [[x EXCEPT !.queue = <<>>] EXCEPT !.st = "gone", !.end = "err", !.credit = 0]
      BY <2>1, <2>2 DEF Drop
    <3>2. x3 = [[x EXCEPT !.st = "gone", !.end = "err", !.credit = 0] EXCEPT !.queue = <<>>]
      BY <2>2 DEF Drop
    <3> QED BY <1>2, <3>1, <3>2 DEF ExitStream
  <2>3. CASE x.st # "live"
    BY <2>1, <2>3 DEF Drop
  <2> QED BY <2>2, <2>3
<1>4. /\ StreamOK(kv[s], Drop(x, "err"), s, kc.next, Hand(kc, s), View(k2e, s), View(e2k, s))
      /\ Drop(x, "err").sending = x.sending
  BY <1>2, DropOK
<1>5. Drop(x, "err").st = "gone" /\ Drop(x, "err") \in ExitStream
  <2>1. Drop(x, "err") \in ExitStream
    BY <1>4 DEF StreamOK
  <2>2. Drop(x, "err").st = "gone"
    BY <1>2 DEF Drop, ExitStream
  <2> QED BY <2>1, <2>2
<1>6. StreamOK(kv[s], x3, s, kc.next, Hand(kc, s), View(k2e, s), View(e2k, s))
  BY <1>2, <1>4, <1>5, QueueLostStep
<1>7. x3.sending = x.sending
  BY <1>4, <1>5 DEF ExitStream
<1> HIDE DEF x2, x3
<1>8. /\ e2k' \in Seq(Frames) /\ DataOf(e2k') = DataOf(e2k)
      /\ Elsewhere(e2k, e2k', s) /\ View(e2k', s) = View(e2k, s)
  BY <1>1, <1>2, NoteSent
<1>9. Elsewhere(k2e, k2e', s) /\ View(k2e', s) = View(k2e, s)
  BY <1>1, SameChannel
<1> QED BY <1>1, <1>2, <1>3, <1>6, <1>7, <1>8, <1>9, ExitStays

(* The eof item is the last: behind it the queue is empty.                 *)
LEMMA LastItem ==
    ASSUME NEW q \in Items, q # <<>>, Head(q) = 0, EOFItemLast(q)
    PROVE  Tail(q) = <<>> /\ Sum(q) = 0
<1>1. q \in Seq(Nat)
  BY DEF Items
<1>2. 1 \in DOMAIN q /\ q[1] = 0
  BY <1>1
<1>3. Len(q) = 1
  BY <1>2 DEF EOFItemLast
<1>4. Tail(q) = <<>>
  <2>1. Tail(q) \in Seq(Nat) /\ Len(Tail(q)) = 0
    BY <1>1, <1>3
  <2> QED BY <2>1, EmptySeq
<1>5. Sum(Tail(q)) + 0 = Sum(q)
  BY ItemDrained
<1>6. Sum(Tail(q)) = 0
  BY <1>4, SumEmpty
<1>7. Sum(q) = 0
  BY <1>5, <1>6
<1> QED BY <1>4, <1>7

(* The drain reaches the eof item (session.go drainTCP).                   *)
LEMMA DrainEOFKeeps ==
    ASSUME IInv, NEW s \in Streams, DrainEOF(s)
    PROVE  Kept
<1> DEFINE x == ex[s]
           x1 == [x EXCEPT !.queue = Tail(x.queue), !.shut = TRUE]
           x2 == IF x1.localEOF THEN Drop(x1, "clean") ELSE x1
<1>1. /\ x.st = "live" /\ x.queue # <<>> /\ Head(x.queue) = 0
      /\ ex' = [ex EXCEPT ![s] = x2] /\ UNCHANGED <<kv, kc, ec, k2e, e2k>>
  BY DEF DrainEOF
<1>2. /\ StreamOK(kv[s], ex[s], s, kc.next, Hand(kc, s), View(k2e, s), View(e2k, s))
      /\ Seen(View(k2e, s)) /\ Seen(View(e2k, s)) /\ kc.next \in Nat /\ Hand(kc, s) \in Nat
      /\ k2e \in Seq(Frames) /\ e2k \in Seq(Frames) /\ ec \in ExitSession /\ ex[s] \in ExitStream
  BY Here
<1>3. x.queue \in Items
  BY <1>2, ExitFields
<1>4. EOFItemLast(x.queue) /\ x.remoteEOF
  <2>1. \A i \in DOMAIN x.queue : x.queue[i] = 0 => i = Len(x.queue) /\ x.remoteEOF
    BY <1>2 DEF StreamOK, UpEOF
  <2>2. 1 \in DOMAIN x.queue /\ x.queue[1] = 0
    BY <1>1, <1>3 DEF Items
  <2> QED BY <2>1, <2>2 DEF EOFItemLast
<1>5. Tail(x.queue) = <<>> /\ Sum(x.queue) = 0
  BY <1>1, <1>3, <1>4, LastItem
<1>6. x1 = [x EXCEPT !.queue = <<>>, !.shut = TRUE]
  BY <1>5
<1>7. StreamOK(kv[s], x1, s, kc.next, Hand(kc, s), View(k2e, s), View(e2k, s))
  <2>1. StreamOK(kv[s], [x EXCEPT !.queue = <<>>, !.shut = TRUE], s, kc.next, Hand(kc, s), View(k2e, s), View(e2k, s))
    BY <1>1, <1>2, <1>4, <1>5, ShutStep
  <2> QED BY <1>6, <2>1
<1>8. x1.sending = x.sending
  BY <1>2 DEF ExitStream
<1> HIDE DEF x1
<1>9. /\ StreamOK(kv[s], Drop(x1, "clean"), s, kc.next, Hand(kc, s), View(k2e, s), View(e2k, s))
      /\ Drop(x1, "clean").sending = x1.sending
  BY <1>2, <1>7, DropOK
<1>10. /\ StreamOK(kv[s], x2, s, kc.next, Hand(kc, s), View(k2e, s), View(e2k, s))
       /\ x2.sending = ex[s].sending
  BY <1>7, <1>8, <1>9
<1> HIDE DEF x2
<1>11. /\ Elsewhere(k2e, k2e', s) /\ View(k2e', s) = View(k2e, s)
       /\ Elsewhere(e2k, e2k', s) /\ View(e2k', s) = View(e2k, s)
  BY <1>1, SameChannel
<1> QED BY <1>1, <1>2, <1>10, <1>11, ExitStays

-----------------------------------------------------------------------------
(* The steps of the kvm.                                                   *)

FramesOfRelease(c, owed, n, s, rst) ==
    c \o <<>> \o WindowFrame(0, ConnWindow, owed, n)
      \o (IF rst THEN <<Frame("RST", s, 0)>> ELSE <<>>)

ReleasedTo(c, owed, n, d) ==
    /\ d \in Seq(Frames) /\ Everywhere(c, d)
    /\ n = 0 => WindowOf(d) = WindowOf(c)
    /\ n > 0 => Credited(ConnWindow, owed, n, Owed(ConnWindow, owed, n), WindowOf(c), WindowOf(d))

(* The frames of a release: at most a WINDOW and a RST.                    *)
LEMMA ReleaseFrames ==
    ASSUME NEW c \in Seq(Frames), NEW owed \in Nat, NEW n \in Nat, NEW s \in Streams, NEW rst \in BOOLEAN,
           NEW d, d = FramesOfRelease(c, owed, n, s, rst)
    PROVE  ReleasedTo(c, owed, n, d)
<1> DEFINE m == c \o WindowFrame(0, ConnWindow, owed, n)
<1>1. c \o <<>> = c
  BY ConcatEmptySeq
<1>2. d = m \o (IF rst THEN <<Frame("RST", s, 0)>> ELSE <<>>)
  BY <1>1 DEF FramesOfRelease
<1>3. /\ m \in Seq(Frames) /\ Everywhere(c, m)
      /\ n = 0 => WindowOf(m) = WindowOf(c)
      /\ n > 0 => Credited(ConnWindow, owed, n, Owed(ConnWindow, owed, n), WindowOf(c), WindowOf(m))
  <2>1. CASE n = 0
    <3>1. WindowFrame(0, ConnWindow, owed, n) = <<>>
      BY <2>1 DEF WindowFrame
    <3>2. m = c
      BY <3>1, ConcatEmptySeq
    <3> HIDE DEF m
    <3> QED BY <2>1, <3>2, SameChannel
  <2>2. CASE n > 0
    <3>1. n \in Nat \ {0}
      BY <2>2
    <3>2. /\ m \in Seq(Frames) /\ Everywhere(c, m)
          /\ Credited(ConnWindow, owed, n, Owed(ConnWindow, owed, n), WindowOf(c), WindowOf(m))
      BY <3>1, ConnFrames
    <3> HIDE DEF m
    <3> QED BY <2>2, <3>1, <3>2
  <2> QED BY <2>1, <2>2
<1> HIDE DEF m
<1>4. d \in Seq(Frames) /\ Everywhere(m, d) /\ WindowOf(d) = WindowOf(m)
  <2>1. CASE rst = TRUE
    <3> DEFINE f == Frame("RST", s, 0)
    <3>1. f \in Frames
      BY NexitAssumption DEF Frames, Frame, FrameTypes, Streams
    <3>2. d = Append(m, f)
      BY <1>2, <1>3, <2>1, <3>1, AppendIsConcat
    <3> QED BY <1>3, <3>2, NoteSent
  <2>2. CASE rst = FALSE
    <3>1. d = m
      BY <1>2, <1>3, <2>2, ConcatEmptySeq
    <3> QED BY <1>3, <3>1, SameChannel
  <2> QED BY <2>1, <2>2
<1>5. Everywhere(c, d)
  BY <1>3, <1>4 DEF Everywhere
<1> QED BY <1>3, <1>4, <1>5 DEF ReleasedTo

(* The session record after consumed, and after a release.                 *)
LEMMA ConsumedIs ==
    ASSUME NEW c \in KvmSession, NEW n \in Nat, n <= c.outstanding
    PROVE  /\ Consumed(c, n) \in KvmSession
           /\ Consumed(c, n).outstanding + n = c.outstanding
           /\ Consumed(c, n).consumed = Owed(ConnWindow, c.consumed, n)
           /\ Consumed(c, n).next = c.next /\ Consumed(c, n).data = c.data
           /\ Consumed(c, n).released = c.released
<1>1. c.outstanding \in Nat /\ c.consumed \in Nat
  BY DEF KvmSession
<1>2. c.outstanding - n \in Nat /\ (c.outstanding - n) + n = c.outstanding
  BY <1>1
<1>3. Owed(ConnWindow, c.consumed, n) \in Nat
  BY <1>1, OwedType
<1> DEFINE o == c.outstanding - n
           w == Owed(ConnWindow, c.consumed, n)
<1>4. Consumed(c, n) = [c EXCEPT !.outstanding = o, !.consumed = w]
  BY DEF Consumed
<1>5. o \in Nat /\ w \in Nat
  BY <1>2, <1>3
<1>6. o + n = c.outstanding
  BY <1>2
<1> HIDE DEF o, w
<1>7. /\ Consumed(c, n) \in KvmSession
      /\ Consumed(c, n).outstanding = o /\ Consumed(c, n).consumed = w
      /\ Consumed(c, n).next = c.next /\ Consumed(c, n).data = c.data
      /\ Consumed(c, n).released = c.released
  BY <1>4, <1>5 DEF KvmSession
<1> QED BY <1>6, <1>7 DEF w

(* The session record after a stream left the table.                       *)
LEMMA LeaveIs ==
    ASSUME NEW c \in KvmSession, NEW s \in Streams
    PROVE  LET d == [c EXCEPT !.released = Remember(c.released, s)] IN
           /\ d \in KvmSession /\ d.released = Remember(c.released, s)
           /\ d.next = c.next /\ d.data = c.data
           /\ d.outstanding = c.outstanding /\ d.consumed = c.consumed
<1>1. Remember(c.released, s) \in Seq(Streams)
  BY RememberType DEF KvmSession
<1> QED BY <1>1 DEF KvmSession

(* What stream s holds is part of what is outstanding.                     *)
LEMMA HeldHere ==
    ASSUME IInv, NEW s \in Streams
    PROVE  Sum(kv[s].recvQ) \in Nat /\ Sum(kv[s].recvQ) + kc.data.n <= kc.outstanding
<1>1. /\ Sum(kv[s].recvQ) \in Nat /\ HeldBy(kv) \in Nat /\ Sum(kv[s].recvQ) <= HeldBy(kv)
  BY AllTyped, HeldChange DEF IInv, Differ
<1>2. kc.data.n \in Nat /\ kc.outstanding \in Nat
  BY Numbers DEF IInv
<1>3. kc.outstanding = HeldBy(kv) + kc.data.n
  BY DEF IInv, HeldOK
<1> QED BY <1>1, <1>2, <1>3

(* releaseStream with an error, by whoever gives up on the stream.         *)
Aborts(s, c, r, rst) ==
    ReleaseStream(s, [kv[s] EXCEPT !.caller = c, !.res = r], kc, FALSE, rst, <<>>)

MayAbort(s, c, r) ==
    /\ kv[s].caller # "idle" /\ c \in {kv[s].caller, "gone"}
    /\ r = kv[s].res \/ (kv[s].res = "none" /\ r = "err")
    /\ kv[s].tab \/ c = "gone"

(* Channel c becomes d, with the same views and the same bytes of DATA.    *)
SameData(c, d) == d \in Seq(Frames) /\ Everywhere(c, d) /\ DataOf(d) = DataOf(c)

(* A release with an error keeps the invariant (mux.go releaseStream).     *)
LEMMA AbortKeeps ==
    ASSUME IInv, NEW s \in Streams, UNCHANGED <<ex, ec>>, NEW c, NEW r, NEW rst \in BOOLEAN,
           MayAbort(s, c, r), SameData(e2k, e2k'), Aborts(s, c, r, rst)
    PROVE  Kept
<1> DEFINE k == kv[s]
           k1 == [k EXCEPT !.caller = c, !.res = r]
           n == Sum(k.recvQ)
           q == IF k.rel # "no" THEN k.rel ELSE "abort"
           k2 == [k EXCEPT !.tab = FALSE, !.caller = c, !.res = r, !.rel = q, !.recvQ = <<>>, !.credit = 0]
           c1 == IF k.tab THEN [kc EXCEPT !.released = Remember(kc.released, s)] ELSE kc
<1>1. /\ StreamOK(kv[s], ex[s], s, kc.next, Hand(kc, s), View(k2e, s), View(e2k, s))
      /\ Seen(View(k2e, s)) /\ Seen(View(e2k, s)) /\ kc.next \in Nat /\ Hand(kc, s) \in Nat
      /\ k2e \in Seq(Frames) /\ e2k \in Seq(Frames) /\ kc \in KvmSession /\ kv[s] \in KvmStream
  BY Here
<1>2. k1.tab = k.tab /\ k1.rel = k.rel /\ k1.recvQ = k.recvQ
  BY <1>1 DEF KvmStream
<1>3. kv' = [kv EXCEPT ![s] = k2]
  <2>1. kv' = [kv EXCEPT ![s] = [k1 EXCEPT !.tab = FALSE,
                                           !.rel = IF @ # "no" THEN @ ELSE "abort",
                                           !.recvQ = <<>>, !.credit = 0]]
    BY DEF Aborts, ReleaseStream
  <2>2. [k1 EXCEPT !.tab = FALSE, !.rel = IF @ # "no" THEN @ ELSE "abort",
                   !.recvQ = <<>>, !.credit = 0] = k2
    BY <1>1 DEF KvmStream
  <2> QED BY <2>1, <2>2
<1>4. kc' = IF n > 0 THEN Consumed(c1, n) ELSE c1
  BY <1>2 DEF Aborts, ReleaseStream
<1>5. k2e' = k2e \o <<>> \o WindowFrame(0, ConnWindow, c1.consumed, n)
                 \o (IF k.tab /\ rst THEN <<Frame("RST", s, 0)>> ELSE <<>>)
  BY <1>2 DEF Aborts, ReleaseStream, ConnWindowFrame
<1>6. /\ c1 \in KvmSession /\ c1.next = kc.next /\ c1.data = kc.data
      /\ c1.outstanding = kc.outstanding /\ c1.consumed = kc.consumed
      /\ c1.released = IF k.tab THEN Remember(kc.released, s) ELSE kc.released
  BY <1>1, LeaveIs
<1>7. n \in Nat /\ n <= kc.outstanding /\ kc.outstanding \in Nat /\ kc.consumed \in Nat
  <2>1. n \in Nat /\ n + kc.data.n <= kc.outstanding
    BY HeldHere
  <2>2. kc.data.n \in Nat /\ kc.outstanding \in Nat /\ kc.consumed \in Nat
    BY Numbers DEF IInv
  <2> HIDE DEF n
  <2> QED BY <2>1, <2>2
<1>8. StreamOK(k2, ex[s], s, kc.next, Hand(kc, s), View(k2e, s), View(e2k, s))
  <2>1. AbortTo(k, c, r, q) /\ k2 = Aborted(k, c, r, q)
    BY DEF AbortTo, MayAbort, Aborted
  <2> HIDE DEF q, k2
  <2> QED BY <1>1, <2>1, AbortStep
<1>9. k2.tab = FALSE /\ k2.recvQ = <<>>
  BY <1>1 DEF KvmStream
<1> HIDE DEF k2, c1, n
<1>10. /\ kc' \in KvmSession /\ kc'.next = kc.next /\ kc'.data = kc.data
       /\ kc'.outstanding + n = kc.outstanding
       /\ kc'.consumed = IF n > 0 THEN Owed(ConnWindow, kc.consumed, n) ELSE kc.consumed
       /\ kc'.released = c1.released
  <2>1. CASE n > 0
    BY <1>4, <1>6, <1>7, <2>1, ConsumedIs
  <2>2. CASE n = 0
    BY <1>4, <1>6, <1>7, <2>2
  <2> QED BY <1>7, <2>1, <2>2
<1>11. /\ k2e' \in Seq(Frames) /\ Everywhere(k2e, k2e')
       /\ n = 0 => WindowOf(k2e') = WindowOf(k2e)
       /\ n > 0 => Credited(ConnWindow, kc.consumed, n, Owed(ConnWindow, kc.consumed, n),
                            WindowOf(k2e), WindowOf(k2e'))
  <2>1. PICK b \in BOOLEAN : b <=> k.tab /\ rst
    OBVIOUS
  <2>2. k2e' = FramesOfRelease(k2e, kc.consumed, n, s, b)
    BY <1>5, <1>6, <2>1 DEF FramesOfRelease
  <2>3. ReleasedTo(k2e, kc.consumed, n, k2e')
    BY <1>1, <1>7, <2>2, ReleaseFrames
  <2> QED BY <2>3 DEF ReleasedTo
<1>12. /\ Elsewhere(k2e, k2e', s) /\ View(k2e', s) = View(k2e, s)
       /\ Elsewhere(e2k, e2k', s) /\ View(e2k', s) = View(e2k, s)
  BY <1>11, EverywhereIs DEF SameData
<1>13. \A t : Hand(kc', t) = Hand(kc, t)
  BY <1>10 DEF Hand
<1>14. StreamOK(k2, ex[s], s, kc.next, Hand(kc', s), View(k2e', s), View(e2k', s))
  BY <1>8, <1>12, <1>13
<1>15. /\ TypeInv' /\ StreamsOK'
       /\ HeldBy(kv) \in Nat /\ HeldBy(kv') \in Nat
       /\ HeldBy(kv') + Sum(kv[s].recvQ) = HeldBy(kv) + Sum(k2.recvQ)
       /\ kv'[s] = k2 /\ SameTable(Streams \ {s})
  BY <1>3, <1>10, <1>11, <1>12, <1>13, <1>14, KvmStep DEF SameData
<1>16. HeldOK'
  <2>1. HeldBy(kv') + n = HeldBy(kv)
    <3>1. Sum(k2.recvQ) = 0
      BY <1>9, SumEmpty
    <3> QED BY <1>15, <3>1 DEF n
  <2>2. kc.outstanding = HeldBy(kv) + kc.data.n /\ kc.data.n \in Nat
    BY Numbers DEF IInv, HeldOK
  <2>3. kc'.outstanding \in Nat
    BY <1>10 DEF KvmSession
  <2>4. n \in Nat /\ HeldBy(kv') \in Nat /\ kc'.outstanding + n = kc.outstanding
    BY <1>7, <1>10, <1>15
  <2>5. kc'.outstanding = HeldBy(kv') + kc.data.n
    BY <2>1, <2>2, <2>3, <2>4
  <2> QED BY <1>10, <2>5 DEF HeldOK
<1>17. ConnStep
  <2>1. Wire' = Wire
    BY DEF Wire, SameData
  <2>2. kc'.outstanding \in Nat
    BY <1>10 DEF KvmSession
  <2>3. CASE n = 0
    <3>1. kc'.outstanding = kc.outstanding /\ kc'.consumed = kc.consumed
      BY <1>7, <1>10, <2>2, <2>3
    <3> QED BY <1>11, <2>1, <2>3, <3>1 DEF ConnStep, CreditStays
  <2>4. CASE n > 0
    <3>1. MoveConsume(n)
      BY <1>10, <1>11, <2>1, <2>4 DEF MoveConsume, CreditBack
    <3>2. n \in Nat \ {0}
      BY <1>7, <2>4
    <3> QED BY <3>1, <3>2 DEF ConnStep, Move
  <2> QED BY <1>7, <2>3, <2>4
<1>18. TableStep
  <2>1. CASE k.tab
    <3>1. TableLeave(s)
      BY <1>6, <1>9, <1>10, <1>15, <2>1 DEF TableLeave
    <3> QED BY <3>1 DEF TableStep
  <2>2. CASE ~k.tab
    <3>1. kv'[s].tab = kv[s].tab
      BY <1>1, <1>9, <1>15, <2>2 DEF KvmStream
    <3>2. SameTable(Streams)
      BY <1>15, <3>1 DEF SameTable
    <3> QED BY <1>6, <1>10, <2>2, <3>2 DEF TableStep, TableStays
  <2> QED BY <2>1, <2>2
<1> QED BY <1>15, <1>16, <1>17, <1>18 DEF Kept

(* releaseStream without an error: the stream leaves the table, its queue  *)
(* stays.                                                                  *)
Cleans(s, k, pre) == ReleaseStream(s, k, kc, TRUE, FALSE, pre)

(* What a clean release does (mux.go releaseStream).                       *)
LEMMA CleanIs ==
    ASSUME NEW s \in Streams, NEW k \in KvmStream, k.tab, k.rel = "no", NEW pre \in Seq(Frames),
           k2e \in Seq(Frames), Cleans(s, k, pre)
    PROVE  /\ kv' = [kv EXCEPT ![s] = [k EXCEPT !.tab = FALSE, !.rel = "clean", !.credit = 0]]
           /\ kc' = [kc EXCEPT !.released = Remember(kc.released, s)]
           /\ k2e' = k2e \o pre
<1> DEFINE k2 == [k EXCEPT !.tab = FALSE, !.rel = "clean", !.credit = 0]
<1>1. kv' = [kv EXCEPT ![s] = k2]
  <2>1. kv' = [kv EXCEPT ![s] = [k EXCEPT !.tab = FALSE, !.rel = IF @ # "no" THEN @ ELSE "clean",
                                          !.recvQ = @, !.credit = 0]]
    BY DEF Cleans, ReleaseStream
  <2>2. [k EXCEPT !.tab = FALSE, !.rel = IF @ # "no" THEN @ ELSE "clean",
                  !.recvQ = @, !.credit = 0] = k2
    BY DEF KvmStream
  <2> QED BY <2>1, <2>2
<1>2. kc' = [kc EXCEPT !.released = Remember(kc.released, s)]
  BY DEF Cleans, ReleaseStream
<1>3. k2e' = k2e \o pre
  <2> DEFINE c1 == [kc EXCEPT !.released = Remember(kc.released, s)]
  <2>1. k2e' = k2e \o pre \o ConnWindowFrame(c1, 0) \o <<>>
    BY DEF Cleans, ReleaseStream
  <2>2. ConnWindowFrame(c1, 0) = <<>>
    BY DEF ConnWindowFrame, WindowFrame
  <2>3. k2e \o pre \in Seq(Frames)
    BY ConcatProperties
  <2> QED BY <2>1, <2>2, <2>3, ConcatEmptySeq
<1> QED BY <1>1, <1>2, <1>3

(* A stream leaves the table with its queue as it is.                      *)
LEMMA LeaveKeeps ==
    ASSUME IInv, NEW s \in Streams, UNCHANGED <<ex, ec>>,
           NEW k2, kv' = [kv EXCEPT ![s] = k2], kv[s].tab, ~k2.tab, k2.recvQ = kv[s].recvQ,
           kc' = [kc EXCEPT !.released = Remember(kc.released, s)],
           k2e' \in Seq(Frames), e2k' \in Seq(Frames),
           Elsewhere(k2e, k2e', s), Elsewhere(e2k, e2k', s),
           DataOf(e2k') = DataOf(e2k), WindowOf(k2e') = WindowOf(k2e),
           StreamOK(k2, ex[s], s, kc.next, Hand(kc, s), View(k2e', s), View(e2k', s))
    PROVE  Kept
<1>1. kc \in KvmSession
  BY DEF IInv, TypeInv
<1>2. /\ kc' \in KvmSession /\ kc'.released = Remember(kc.released, s)
      /\ kc'.next = kc.next /\ kc'.data = kc.data
      /\ kc'.outstanding = kc.outstanding /\ kc'.consumed = kc.consumed
  BY <1>1, LeaveIs
<1>3. \A t : Hand(kc', t) = Hand(kc, t)
  BY <1>2 DEF Hand
<1>4. StreamOK(k2, ex[s], s, kc.next, Hand(kc', s), View(k2e', s), View(e2k', s))
  BY <1>3
<1>5. /\ TypeInv' /\ StreamsOK'
      /\ HeldBy(kv) \in Nat /\ HeldBy(kv') \in Nat
      /\ Sum(kv[s].recvQ) \in Nat
      /\ HeldBy(kv') + Sum(kv[s].recvQ) = HeldBy(kv) + Sum(k2.recvQ)
      /\ kv'[s] = k2 /\ SameTable(Streams \ {s})
  BY <1>2, <1>3, <1>4, KvmStep
<1>6. HeldBy(kv') = HeldBy(kv)
  BY <1>5
<1>7. HeldOK'
  BY <1>2, <1>6 DEF HeldOK, IInv
<1>8. CreditStays
  BY <1>2 DEF CreditStays, Wire
<1>9. TableLeave(s)
  BY <1>2, <1>5 DEF TableLeave
<1> QED BY <1>5, <1>7, <1>8, <1>9 DEF Kept, ConnStep, TableStep

(* The opener sees OPENED (mux.go awaitOpen).                              *)
LEMMA AwaitResultKeeps ==
    ASSUME IInv, NEW s \in Streams, AwaitResult(s)
    PROVE  Kept
<1> DEFINE k2 == [kv[s] EXCEPT !.caller = "use"]
<1>1. /\ kv[s].caller = "await" /\ kv[s].res = "ok"
      /\ kv' = [kv EXCEPT ![s] = k2] /\ UNCHANGED <<kc, ex, ec, k2e, e2k>>
  BY DEF AwaitResult
<1>2. /\ StreamOK(kv[s], ex[s], s, kc.next, Hand(kc, s), View(k2e, s), View(e2k, s))
      /\ Seen(View(k2e, s)) /\ Seen(View(e2k, s)) /\ kc.next \in Nat /\ Hand(kc, s) \in Nat
      /\ k2e \in Seq(Frames) /\ e2k \in Seq(Frames) /\ kc \in KvmSession /\ kv[s] \in KvmStream
  BY Here
<1>3. StreamOK(k2, ex[s], s, kc.next, Hand(kc, s), View(k2e, s), View(e2k, s))
  BY <1>1, <1>2, AwaitStep
<1>4. k2.recvQ = kv[s].recvQ /\ k2.tab = kv[s].tab
  BY <1>2 DEF KvmStream
<1> HIDE DEF k2
<1>5. Elsewhere(k2e, k2e', s) /\ Elsewhere(e2k, e2k', s)
  BY <1>1, SameChannel
<1> QED BY <1>1, <1>2, <1>3, <1>4, <1>5, KvmStays

(* hev sees the end of file (mux.go Read).                                 *)
LEMMA ReadEOFKeeps ==
    ASSUME IInv, NEW s \in Streams, ReadEOF(s)
    PROVE  Kept
<1> DEFINE k2 == [kv[s] EXCEPT !.eof = TRUE]
<1>1. /\ kv[s].caller = "use" /\ kv[s].recvQ = <<>>
      /\ kv[s].rel = "clean" \/ (kv[s].rel = "no" /\ kv[s].remoteEOF)
  BY DEF ReadEOF
<1>2. kv' = [kv EXCEPT ![s] = k2] /\ UNCHANGED <<kc, ex, ec, k2e, e2k>>
  BY DEF ReadEOF
<1>3. /\ StreamOK(kv[s], ex[s], s, kc.next, Hand(kc, s), View(k2e, s), View(e2k, s))
      /\ Seen(View(k2e, s)) /\ Seen(View(e2k, s)) /\ kc.next \in Nat /\ Hand(kc, s) \in Nat
      /\ k2e \in Seq(Frames) /\ e2k \in Seq(Frames) /\ kc \in KvmSession /\ kv[s] \in KvmStream
  BY Here
<1>4. StreamOK(k2, ex[s], s, kc.next, Hand(kc, s), View(k2e, s), View(e2k, s))
  BY <1>1, <1>3, ReadEOFStep
<1>5. k2.recvQ = kv[s].recvQ /\ k2.tab = kv[s].tab
  BY <1>3 DEF KvmStream
<1> HIDE DEF k2
<1>6. Elsewhere(k2e, k2e', s) /\ Elsewhere(e2k, e2k', s)
  BY <1>2, SameChannel
<1> QED BY <1>2, <1>3, <1>4, <1>5, <1>6, KvmStays

(* hev's writer takes the stream's credit (mux.go Write, takeBoth).        *)
LEMMA WriteClaimKeeps ==
    ASSUME IInv, NEW s \in Streams, NEW n \in 1..MaxFrame, WriteClaim(s, n)
    PROVE  Kept
<1> DEFINE k == kv[s]
           m == Take(k.credit, n)
           k2 == [k EXCEPT !.credit = k.credit - m, !.claim = m]
<1>1. /\ k.caller = "use" /\ k.rel = "no" /\ ~k.localEOF /\ k.claim = 0 /\ k.sending = 0
      /\ k.credit > 0
      /\ kv' = [kv EXCEPT ![s] = k2] /\ UNCHANGED <<kc, ex, ec, k2e, e2k>>
  BY DEF WriteClaim
<1>2. /\ StreamOK(kv[s], ex[s], s, kc.next, Hand(kc, s), View(k2e, s), View(e2k, s))
      /\ Seen(View(k2e, s)) /\ Seen(View(e2k, s)) /\ kc.next \in Nat /\ Hand(kc, s) \in Nat
      /\ k2e \in Seq(Frames) /\ e2k \in Seq(Frames) /\ kc \in KvmSession /\ kv[s] \in KvmStream
  BY Here
<1>3. k.credit \in Nat
  BY <1>2 DEF KvmStream
<1>4. n \in Nat /\ n > 0
  BY NexitAssumption
<1>5. m \in Nat /\ m > 0 /\ m <= k.credit
  BY <1>1, <1>3, <1>4, TakeIs
<1> HIDE DEF m
<1>6. StreamOK(k2, ex[s], s, kc.next, Hand(kc, s), View(k2e, s), View(e2k, s))
  BY <1>1, <1>2, <1>5, WriteClaimStep
<1>7. k2.recvQ = kv[s].recvQ /\ k2.tab = kv[s].tab
  BY <1>2 DEF KvmStream
<1> HIDE DEF k2
<1>8. Elsewhere(k2e, k2e', s) /\ Elsewhere(e2k, e2k', s)
  BY <1>1, SameChannel
<1> QED BY <1>1, <1>2, <1>6, <1>7, <1>8, KvmStays

(* hev's writer takes the connection's credit (mux.go Write, takeBoth).    *)
LEMMA WriteTakeKeeps ==
    ASSUME IInv, NEW s \in Streams, WriteTake(s)
    PROVE  Kept
<1> DEFINE k == kv[s]
           m == Take(kc.credit, k.claim)
           c == IF k.rel = "no" THEN k.credit + (k.claim - m) ELSE k.credit
           k2 == [k EXCEPT !.credit = c, !.claim = 0, !.sending = m, !.sent = k.sent + m]
<1>1. /\ k.claim > 0 /\ kc.credit > 0
      /\ kv' = [kv EXCEPT ![s] = k2] /\ UNCHANGED <<ex, ec, k2e, e2k>>
      /\ kc' = [kc EXCEPT !.credit = kc.credit - m]
  BY DEF WriteTake
<1>2. /\ StreamOK(kv[s], ex[s], s, kc.next, Hand(kc, s), View(k2e, s), View(e2k, s))
      /\ Seen(View(k2e, s)) /\ Seen(View(e2k, s)) /\ kc.next \in Nat /\ Hand(kc, s) \in Nat
      /\ k2e \in Seq(Frames) /\ e2k \in Seq(Frames) /\ kc \in KvmSession /\ kv[s] \in KvmStream
  BY Here
<1>3. k.credit \in Nat /\ k.claim \in Nat /\ kc.credit \in Nat
  BY <1>2 DEF KvmSession, KvmStream
<1>4. m \in Nat /\ m > 0 /\ m <= k.claim /\ m <= kc.credit
  BY <1>1, <1>3, TakeIs
<1> HIDE DEF m
<1>5. c \in Nat /\ (k.rel = "no" => c = k.credit + (k.claim - m)) /\ kc.credit - m \in Nat
  BY <1>3, <1>4
<1> HIDE DEF c
<1>6. /\ kc' \in KvmSession /\ kc'.next = kc.next /\ kc'.data = kc.data
      /\ kc'.outstanding = kc.outstanding /\ kc'.consumed = kc.consumed /\ kc'.released = kc.released
  BY <1>1, <1>2, <1>5 DEF KvmSession
<1>7. StreamOK(k2, ex[s], s, kc.next, Hand(kc, s), View(k2e, s), View(e2k, s))
  BY <1>1, <1>2, <1>4, <1>5, WriteTakeStep
<1>8. k2.recvQ = kv[s].recvQ /\ k2.tab = kv[s].tab
  BY <1>2 DEF KvmStream
<1> HIDE DEF k2
<1>9. Elsewhere(k2e, k2e', s) /\ Elsewhere(e2k, e2k', s)
  BY <1>1, SameChannel
<1> QED BY <1>1, <1>2, <1>6, <1>7, <1>8, <1>9, KvmStays

(* hev's writer gives up its claim (mux.go Write, takeBoth).               *)
LEMMA WriteGivesUpKeeps ==
    ASSUME IInv, NEW s \in Streams, WriteGivesUp(s)
    PROVE  Kept
<1> DEFINE k2 == [kv[s] EXCEPT !.claim = 0]
<1>1. /\ kv[s].claim > 0 /\ kv[s].rel # "no"
      /\ kv' = [kv EXCEPT ![s] = k2] /\ UNCHANGED <<kc, ex, ec, k2e, e2k>>
  BY DEF WriteGivesUp
<1>2. /\ StreamOK(kv[s], ex[s], s, kc.next, Hand(kc, s), View(k2e, s), View(e2k, s))
      /\ Seen(View(k2e, s)) /\ Seen(View(e2k, s)) /\ kc.next \in Nat /\ Hand(kc, s) \in Nat
      /\ k2e \in Seq(Frames) /\ e2k \in Seq(Frames) /\ kc \in KvmSession /\ kv[s] \in KvmStream
  BY Here
<1>3. StreamOK(k2, ex[s], s, kc.next, Hand(kc, s), View(k2e, s), View(e2k, s))
  BY <1>1, <1>2, WriteGivesUpStep
<1>4. k2.recvQ = kv[s].recvQ /\ k2.tab = kv[s].tab
  BY <1>2 DEF KvmStream
<1> HIDE DEF k2
<1>5. Elsewhere(k2e, k2e', s) /\ Elsewhere(e2k, e2k', s)
  BY <1>1, SameChannel
<1> QED BY <1>1, <1>2, <1>3, <1>4, <1>5, KvmStays

(* hev's writer sends what it took credit for (mux.go Write).              *)
LEMMA WriteSendKeeps ==
    ASSUME IInv, NEW s \in Streams, WriteSend(s)
    PROVE  Kept
<1> DEFINE n == kv[s].sending
           k2 == [kv[s] EXCEPT !.sending = 0]
<1>1. /\ n > 0 /\ kv' = [kv EXCEPT ![s] = k2] /\ UNCHANGED <<kc, ex, ec, e2k>>
      /\ k2e' = Append(k2e, Frame("DATA", s, n))
  BY DEF WriteSend
<1>2. /\ StreamOK(kv[s], ex[s], s, kc.next, Hand(kc, s), View(k2e, s), View(e2k, s))
      /\ Seen(View(k2e, s)) /\ Seen(View(e2k, s)) /\ kc.next \in Nat /\ Hand(kc, s) \in Nat
      /\ k2e \in Seq(Frames) /\ e2k \in Seq(Frames) /\ kc \in KvmSession /\ kv[s] \in KvmStream
  BY Here
<1>3. n \in Nat
  BY <1>2 DEF KvmStream
<1>4. FrameSent(k2e, "DATA", s, n, k2e')
  <2> HIDE DEF n
  <2>1. "DATA" \in FrameTypes
    BY DEF FrameTypes
  <2> QED BY <1>1, <1>2, <1>3, <2>1, SendFrame
<1>5. /\ k2e' \in Seq(Frames) /\ Elsewhere(k2e, k2e', s)
      /\ Sent(View(k2e, s), "DATA", n, View(k2e', s)) /\ Seen(View(k2e', s))
      /\ WindowOf(k2e') = WindowOf(k2e)
  BY <1>4 DEF FrameSent
<1>6. StreamOK(k2, ex[s], s, kc.next, Hand(kc, s), View(k2e', s), View(e2k, s))
  BY <1>1, <1>2, <1>5, WriteSendStep
<1>7. Elsewhere(e2k, e2k', s)
  BY <1>1, SameChannel
<1>8. k2.recvQ = kv[s].recvQ /\ k2.tab = kv[s].tab
  BY <1>2 DEF KvmStream
<1> HIDE DEF k2
<1> QED BY <1>1, <1>2, <1>5, <1>6, <1>7, <1>8, KvmStays

(* hev gives the stream up (mux.go awaitOpen, Close).                      *)
LEMMA GivesUpKeeps ==
    ASSUME IInv, NEW s \in Streams, UNCHANGED <<ex, ec, e2k>>, kv[s].caller # "idle",
           ReleaseStream(s, [kv[s] EXCEPT !.caller = "gone"], kc, FALSE, TRUE, <<>>)
    PROVE  Kept
<1>1. kv[s] \in KvmStream /\ e2k \in Seq(Frames)
  BY Here
<1>2. [kv[s] EXCEPT !.caller = "gone"] = [kv[s] EXCEPT !.caller = "gone", !.res = kv[s].res]
  BY <1>1 DEF KvmStream
<1>3. Aborts(s, "gone", kv[s].res, TRUE)
  BY <1>2 DEF Aborts
<1>4. MayAbort(s, "gone", kv[s].res)
  BY DEF MayAbort
<1>5. SameData(e2k, e2k')
  BY <1>1, SameChannel DEF SameData
<1>6. TRUE \in BOOLEAN
  OBVIOUS
<1> QED BY <1>3, <1>4, <1>5, <1>6, AbortKeeps

(* hev closes its side (mux.go CloseWrite).                                *)
LEMMA CloseWriteKeeps ==
    ASSUME IInv, NEW s \in Streams, CloseWrite(s)
    PROVE  Kept
<1> DEFINE k == [kv[s] EXCEPT !.localEOF = TRUE]
           f == Frame("EOF", s, 0)
<1>1. /\ kv[s].caller = "use" /\ kv[s].rel = "no" /\ ~kv[s].localEOF
      /\ kv[s].claim = 0 /\ kv[s].sending = 0
      /\ UNCHANGED <<ex, ec, e2k>>
  BY DEF CloseWrite
<1>2. /\ StreamOK(kv[s], ex[s], s, kc.next, Hand(kc, s), View(k2e, s), View(e2k, s))
      /\ Seen(View(k2e, s)) /\ Seen(View(e2k, s)) /\ kc.next \in Nat /\ Hand(kc, s) \in Nat
      /\ k2e \in Seq(Frames) /\ e2k \in Seq(Frames) /\ kc \in KvmSession /\ kv[s] \in KvmStream
  BY Here
<1>3. f \in Frames
  BY NexitAssumption DEF Frames, Frame, FrameTypes, Streams
<1>4. kv[s].tab
  BY <1>1, <1>2 DEF StreamOK, Opening, FreshKvm, Streams
<1>5. /\ k \in KvmStream /\ k.tab /\ k.rel = "no" /\ k.remoteEOF = kv[s].remoteEOF
      /\ k.localEOF /\ k.recvQ = kv[s].recvQ
  BY <1>1, <1>2, <1>4 DEF KvmStream
<1>6. \/ k.remoteEOF /\ Cleans(s, k, <<f>>)
      \/ ~k.remoteEOF /\ kv' = [kv EXCEPT ![s] = k] /\ k2e' = k2e \o <<f>> /\ UNCHANGED kc
  BY DEF CloseWrite, Cleans
<1>7. <<f>> \in Seq(Frames) /\ k2e \o <<f>> = Append(k2e, f)
  BY <1>2, <1>3, AppendIsConcat
<1>8. k2e' = Append(k2e, f)
  <2>1. CASE k.remoteEOF /\ Cleans(s, k, <<f>>)
    <3> HIDE DEF k, f
    <3> QED BY <1>2, <1>5, <1>7, <2>1, CleanIs
  <2>2. CASE ~k.remoteEOF /\ k2e' = k2e \o <<f>>
    BY <1>7, <2>2
  <2> QED BY <1>6, <2>1, <2>2
<1>9. /\ k2e' \in Seq(Frames) /\ WindowOf(k2e') = WindowOf(k2e) /\ Elsewhere(k2e, k2e', s)
      /\ Sent(View(k2e, s), "EOF", 0, View(k2e', s)) /\ Seen(View(k2e', s))
  BY <1>2, <1>8, MarkSent
<1>10. StreamOK(k, ex[s], s, kc.next, Hand(kc, s), View(k2e', s), View(e2k, s))
  BY <1>1, <1>2, <1>9, CloseWriteStep
<1>11. Elsewhere(e2k, e2k', s)
  BY <1>1, SameChannel
<1> HIDE DEF k, f
<1>12. CASE k.remoteEOF /\ Cleans(s, k, <<f>>)
  <2> DEFINE k2 == [k EXCEPT !.tab = FALSE, !.rel = "clean", !.credit = 0]
  <2>1. /\ kv' = [kv EXCEPT ![s] = k2]
        /\ kc' = [kc EXCEPT !.released = Remember(kc.released, s)]
    BY <1>2, <1>5, <1>7, <1>12, CleanIs
  <2>2. StreamOK(k2, ex[s], s, kc.next, Hand(kc, s), View(k2e', s), View(e2k, s))
    BY <1>2, <1>5, <1>9, <1>10, <1>12, CleanStep
  <2>3. ~k2.tab /\ k2.recvQ = kv[s].recvQ
    BY <1>5 DEF KvmStream
  <2> HIDE DEF k2
  <2> QED BY <1>1, <1>2, <1>4, <1>9, <1>11, <2>1, <2>2, <2>3, LeaveKeeps
<1>13. CASE ~k.remoteEOF /\ kv' = [kv EXCEPT ![s] = k] /\ UNCHANGED kc
  <2>1. k.tab = kv[s].tab
    BY <1>2, <1>4, <1>5 DEF KvmStream
  <2> QED BY <1>1, <1>2, <1>5, <1>9, <1>10, <1>11, <1>13, <2>1, KvmStays
<1> QED BY <1>6, <1>12, <1>13

(* The head leaves the kvm's queue.                                        *)
LEMMA FrameRead ==
    ASSUME NEW q \in Sizes, q # <<>>
    PROVE  /\ Tail(q) \in Sizes /\ Head(q) \in Nat \ {0}
           /\ Sum(Tail(q)) \in Nat /\ Sum(Tail(q)) + Head(q) = Sum(q)
<1>1. q \in Seq(Nat \ {0}) /\ Tail(q) \in Seq(Nat \ {0}) /\ Head(q) \in Nat \ {0}
  BY DEF Sizes
<1>2. q \in Items
  BY <1>1, SeqMonotonic DEF Items
<1>3. Sum(Tail(q)) \in Nat /\ Sum(Tail(q)) + Head(q) = Sum(q)
  BY <1>2, ItemDrained
<1> QED BY <1>1, <1>3 DEF Sizes

(* hev reads one frame (mux.go Read).                                      *)
LEMMA ReadKeeps ==
    ASSUME IInv, NEW s \in Streams, Read(s)
    PROVE  Kept
<1> DEFINE k == kv[s]
           n == Head(k.recvQ)
           q == Tail(k.recvQ)
           c == Owed(StreamWindow, k.consumed, n)
           k2 == [k EXCEPT !.recvQ = q, !.got = k.got + n, !.consumed = c]
           mid == k2e \o WindowFrame(s, StreamWindow, k.consumed, n)
<1>1. /\ k.caller = "use" /\ k.recvQ # <<>>
      /\ kv' = [kv EXCEPT ![s] = k2] /\ kc' = Consumed(kc, n)
      /\ k2e' = mid \o WindowFrame(0, ConnWindow, kc.consumed, n)
      /\ UNCHANGED <<ex, ec, e2k>>
  BY DEF Read, ConnWindowFrame
<1>2. /\ StreamOK(kv[s], ex[s], s, kc.next, Hand(kc, s), View(k2e, s), View(e2k, s))
      /\ Seen(View(k2e, s)) /\ Seen(View(e2k, s)) /\ kc.next \in Nat /\ Hand(kc, s) \in Nat
      /\ k2e \in Seq(Frames) /\ e2k \in Seq(Frames) /\ kc \in KvmSession /\ kv[s] \in KvmStream
  BY Here
<1>3. k.recvQ \in Sizes /\ k.consumed \in Nat /\ kc.consumed \in Nat
  BY <1>2 DEF KvmStream, KvmSession
<1>4. q \in Sizes /\ n \in Nat \ {0} /\ Sum(q) \in Nat /\ Sum(q) + n = Sum(k.recvQ)
  BY <1>1, <1>3, FrameRead
<1>5. ~k.eof
  BY <1>1, <1>2 DEF StreamOK, DownEOF
<1>6. Sum(k.recvQ) \in Nat /\ Sum(k.recvQ) + kc.data.n <= kc.outstanding
  BY HeldHere
<1>7. kc.data.n \in Nat /\ kc.outstanding \in Nat
  BY Numbers DEF IInv
<1> HIDE DEF n, q
<1>8. n <= kc.outstanding /\ n \in Nat
  <2>1. n \in Nat /\ Sum(q) \in Nat /\ Sum(q) + n = Sum(k.recvQ)
    BY <1>4
  <2> QED BY <1>6, <1>7, <2>1
<1>9. /\ kc' \in KvmSession /\ kc'.outstanding + n = kc.outstanding
      /\ kc'.consumed = Owed(ConnWindow, kc.consumed, n)
      /\ kc'.next = kc.next /\ kc'.data = kc.data /\ kc'.released = kc.released
  BY <1>1, <1>2, <1>8, ConsumedIs
<1>10. /\ mid \in Seq(Frames) /\ WindowOf(mid) = WindowOf(k2e) /\ Elsewhere(k2e, mid, s) /\ c \in Nat
       /\ \E m \in Nat : c + m = k.consumed + n /\ Sent(View(k2e, s), "WINDOW", m, View(mid, s))
  BY <1>2, <1>3, <1>4, StreamFrames
<1>11. PICK m \in Nat : c + m = k.consumed + n /\ Sent(View(k2e, s), "WINDOW", m, View(mid, s))
  BY <1>10
<1> HIDE DEF mid
<1>12. /\ k2e' \in Seq(Frames) /\ Everywhere(mid, k2e')
       /\ Credited(ConnWindow, kc.consumed, n, Owed(ConnWindow, kc.consumed, n), WindowOf(mid), WindowOf(k2e'))
  BY <1>1, <1>3, <1>4, <1>10, ConnFrames
<1>13. Elsewhere(k2e, k2e', s) /\ View(k2e', s) = View(mid, s)
  BY <1>10, <1>12, ElsewhereTwice
<1>14. Seen(View(mid, s))
  BY <1>10, ViewSeen
<1> HIDE DEF c
<1>15. StreamOK(k2, ex[s], s, kc.next, Hand(kc, s), View(mid, s), View(e2k, s))
  BY <1>1, <1>2, <1>4, <1>5, <1>8, <1>10, <1>11, <1>14, ReadStep
<1>16. k2.recvQ = q /\ k2.tab = k.tab
  BY <1>2 DEF KvmStream
<1>17. Elsewhere(e2k, e2k', s) /\ View(e2k', s) = View(e2k, s)
  BY <1>1, SameChannel
<1>18. \A t : Hand(kc', t) = Hand(kc, t)
  BY <1>9 DEF Hand
<1> HIDE DEF k2
<1>19. StreamOK(k2, ex[s], s, kc.next, Hand(kc', s), View(k2e', s), View(e2k', s))
  BY <1>13, <1>15, <1>17, <1>18
<1>20. kv' = [kv EXCEPT ![s] = k2] /\ UNCHANGED <<ex, ec>> /\ e2k' \in Seq(Frames)
  BY <1>1, <1>2
<1>21. /\ TypeInv' /\ StreamsOK'
       /\ HeldBy(kv) \in Nat /\ HeldBy(kv') \in Nat
       /\ HeldBy(kv') + Sum(kv[s].recvQ) = HeldBy(kv) + Sum(k2.recvQ)
       /\ kv'[s] = k2 /\ SameTable(Streams \ {s})
  BY <1>9, <1>12, <1>13, <1>17, <1>18, <1>19, <1>20, KvmStep
<1>22. HeldOK'
  <2>1. kc'.outstanding \in Nat /\ kc'.outstanding + n = kc.outstanding /\ kc'.data = kc.data
    BY <1>9 DEF KvmSession
  <2>2. HeldBy(kv') + Sum(k.recvQ) = HeldBy(kv) + Sum(q)
    BY <1>16, <1>21
  <2>3. kc.outstanding = HeldBy(kv) + kc.data.n
    BY DEF IInv, HeldOK
  <2>4. kc'.outstanding = HeldBy(kv') + kc.data.n
    <3>1. /\ HeldBy(kv) \in Nat /\ HeldBy(kv') \in Nat /\ Sum(q) \in Nat
          /\ Sum(q) + n = Sum(k.recvQ) /\ n \in Nat
      BY <1>4, <1>21
    <3>2. HeldBy(kv') + n = HeldBy(kv)
      BY <2>2, <3>1
    <3> QED BY <1>7, <2>1, <2>3, <3>1, <3>2
  <2> QED BY <2>1, <2>4 DEF HeldOK
<1>23. ConnStep
  <2>1. Wire' = Wire
    BY <1>1 DEF Wire
  <2>2. CreditBack(n)
    BY <1>9, <1>10, <1>12 DEF CreditBack
  <2>3. MoveConsume(n)
    BY <1>9, <1>20, <2>1, <2>2 DEF MoveConsume
  <2> QED BY <1>4, <2>3 DEF ConnStep, Move
<1>24. TableStep
  BY <1>9, <1>16, <1>21 DEF TableStep, TableStays, SameTable
<1> QED BY <1>21, <1>22, <1>23, <1>24 DEF Kept

(* A frame of t leaves e2k.                                                *)
LEMMA KvmTakes ==
    ASSUME IInv, NEW t, Receives(t)
    PROVE  LET s == Head(e2k).id IN
           /\ e2k' \in Seq(Frames) /\ UNCHANGED <<ex, ec>> /\ kc.data = NoData
           /\ Head(e2k).n \in Nat
           /\ t # "WINDOW" => s \in Streams
           /\ s = 0 \/ s \in Streams
           /\ t \in {"DATA", "WINDOW"} => Head(e2k).n \in Nat \ {0}
           /\ DataOf(e2k) = DataOf(e2k') + (IF t = "DATA" THEN Head(e2k).n ELSE 0)
           /\ t # "DATA" => DataOf(e2k') = DataOf(e2k)
           /\ Elsewhere(e2k, e2k', s)
           /\ (s = 0 \/ t \in {"RST", "OPEN_FAIL"}) => Everywhere(e2k, e2k')
           /\ Taken(View(e2k, s), t, Head(e2k).n, View(e2k', s)) /\ Seen(View(e2k', s))
           /\ t \notin {"DATA", "WINDOW"} => Taken(View(e2k, s), t, 0, View(e2k', s))
<1> DEFINE f == Head(e2k)
<1>1. e2k \in Seq(Frames)
  BY DEF IInv, TypeInv
<1>2. e2k # <<>> /\ f.type = t /\ e2k' = Tail(e2k) /\ UNCHANGED <<ex, ec>> /\ kc.data = NoData
  BY DEF Receives
<1> HIDE DEF f
<1>3. /\ e2k' \in Seq(Frames) /\ f.n \in Nat
      /\ f.id = 0 \/ f.id \in Streams
      /\ f.type # "WINDOW" => f.id \in Streams
      /\ f.type \in {"DATA", "WINDOW"} => f.n \in Nat \ {0}
      /\ DataOf(e2k) = DataOf(e2k') + (IF f.type = "DATA" THEN f.n ELSE 0)
      /\ Elsewhere(e2k, e2k', f.id)
      /\ (f.id = 0 \/ f.type \in {"RST", "OPEN_FAIL"}) => Everywhere(e2k, e2k')
      /\ Taken(View(e2k, f.id), f.type, f.n, View(e2k', f.id)) /\ Seen(View(e2k', f.id))
      /\ f.type \notin {"DATA", "WINDOW"} => Taken(View(e2k, f.id), f.type, 0, View(e2k', f.id))
  BY <1>1, <1>2, TakeFrame DEF f
<1>4. f.type # "DATA" => DataOf(e2k') = DataOf(e2k)
  BY <1>3, ChannelType
<1> QED BY <1>2, <1>3, <1>4 DEF f

(* WINDOW reaches the kvm (mux.go handle).                                 *)
LEMMA RecvWindowKeeps ==
    ASSUME IInv, RecvWindow
    PROVE  Kept
<1> DEFINE s == Head(e2k).id
           n == Head(e2k).n
<1>1. Receives("WINDOW") /\ UNCHANGED k2e
  BY DEF RecvWindow
<1>2. /\ e2k' \in Seq(Frames) /\ UNCHANGED <<ex, ec>>
      /\ n \in Nat \ {0} /\ (s = 0 \/ s \in Streams)
      /\ DataOf(e2k') = DataOf(e2k)
      /\ Elsewhere(e2k, e2k', s) /\ (s = 0 => Everywhere(e2k, e2k'))
      /\ Taken(View(e2k, s), "WINDOW", n, View(e2k', s)) /\ Seen(View(e2k', s))
  BY <1>1, KvmTakes
<1>3. /\ k2e \in Seq(Frames) /\ kc \in KvmSession /\ kv \in [Streams -> KvmStream]
      /\ 0 \notin Streams
  BY StreamIds DEF IInv, TypeInv
<1>4. CASE s = 0
  <2>1. kc' = [kc EXCEPT !.credit = kc.credit + n] /\ UNCHANGED kv
    BY <1>4 DEF RecvWindow
  <2> HIDE DEF s, n
  <2>2. kc.credit \in Nat
    BY <1>3 DEF KvmSession
  <2>3. kc.credit + n \in Nat
    BY <1>2, <2>2
  <2>4. /\ kc' \in KvmSession /\ kc'.next = kc.next /\ kc'.data = kc.data
        /\ kc'.outstanding = kc.outstanding /\ kc'.consumed = kc.consumed /\ kc'.released = kc.released
    BY <1>3, <2>1, <2>3 DEF KvmSession
  <2>5. Everywhere(k2e, k2e') /\ Everywhere(e2k, e2k')
    BY <1>1, <1>2, <1>4, SameChannel
  <2>6. StreamsOK'
    BY <1>2, <2>1, <2>4, <2>5, NoStream DEF IInv
  <2>7. TypeInv'
    BY <1>1, <1>2, <2>1, <2>4 DEF IInv, TypeInv
  <2>8. HeldOK'
    BY <2>1, <2>4 DEF IInv, HeldOK
  <2>9. CreditStays
    BY <1>1, <1>2, <2>4 DEF CreditStays, Wire
  <2>10. TableStep
    BY <2>1, <2>4 DEF TableStep, TableStays, SameTable
  <2> QED BY <2>6, <2>7, <2>8, <2>9, <2>10 DEF Kept, ConnStep
<1>5. CASE s \in Streams
  <2> DEFINE k1 == [kv[s] EXCEPT !.credit = kv[s].credit + n]
             k2 == IF kv[s].tab THEN k1 ELSE kv[s]
  <2>1. UNCHANGED kc /\ kv' = [kv EXCEPT ![s] = k2]
    <3>1. UNCHANGED kc /\ kv' = IF kv[s].tab THEN [kv EXCEPT ![s].credit = @ + n] ELSE kv
      BY <1>3, <1>5 DEF RecvWindow
    <3> QED BY <1>3, <1>5, <3>1
  <2>2. /\ StreamOK(kv[s], ex[s], s, kc.next, Hand(kc, s), View(k2e, s), View(e2k, s))
        /\ Seen(View(k2e, s)) /\ Seen(View(e2k, s)) /\ kc.next \in Nat /\ Hand(kc, s) \in Nat
        /\ kv[s] \in KvmStream
    BY <1>5, Here
  <2> HIDE DEF s, n
  <2>3. StreamOK(k2, ex[s], s, kc.next, Hand(kc, s), View(k2e, s), View(e2k', s))
    <3>1. CASE kv[s].tab
      <4>1. StreamOK(k1, ex[s], s, kc.next, Hand(kc, s), View(k2e, s), View(e2k', s))
        BY <1>2, <1>5, <2>2, <3>1, CreditStep
      <4> QED BY <3>1, <4>1
    <3>2. CASE ~kv[s].tab
      <4>1. StreamOK(kv[s], ex[s], s, kc.next, Hand(kc, s), View(k2e, s), View(e2k', s))
        BY <1>2, <1>5, <2>2, <3>2, LateCreditStep
      <4> QED BY <3>2, <4>1
    <3> QED BY <3>1, <3>2
  <2>4. k2.recvQ = kv[s].recvQ /\ k2.tab = kv[s].tab
    BY <2>2 DEF KvmStream
  <2>5. Elsewhere(k2e, k2e', s) /\ View(k2e', s) = View(k2e, s)
    BY <1>1, SameChannel
  <2> HIDE DEF k2
  <2> QED BY <1>1, <1>2, <1>3, <1>5, <2>1, <2>3, <2>4, <2>5, KvmStays
<1> QED BY <1>2, <1>4, <1>5

(* What a failure makes of the opener's result (mux.go deliverOpen).       *)
LEMMA DeliverOpenIs ==
    ASSUME NEW k \in KvmStream
    PROVE  /\ k.res # "err" => DeliverOpen(k, "ok") = [k EXCEPT !.res = "ok"]
           /\ \E c, r : /\ DeliverOpen(k, "err") = [k EXCEPT !.caller = c, !.res = r]
                        /\ c \in {k.caller, "gone"}
                        /\ r = k.res \/ (k.res = "none" /\ r = "err")
<1>1. k.res # "err" => DeliverOpen(k, "ok") = [k EXCEPT !.res = "ok"]
  BY DEF DeliverOpen, KvmStream
<1>2. CASE k.res # "none"
  <2>1. DeliverOpen(k, "err") = [k EXCEPT !.caller = k.caller, !.res = k.res]
    BY <1>2 DEF DeliverOpen, KvmStream
  <2> QED BY <1>1, <2>1
<1>3. CASE k.res = "none"
  <2> DEFINE c == IF k.caller = "await" THEN "gone" ELSE k.caller
  <2>1. DeliverOpen(k, "err") = [k EXCEPT !.caller = c, !.res = "err"]
    BY <1>3 DEF DeliverOpen, KvmStream
  <2>2. c \in {k.caller, "gone"}
    OBVIOUS
  <2> HIDE DEF c
  <2> QED BY <1>1, <1>3, <2>1, <2>2
<1> QED BY <1>2, <1>3

(* OPENED reaches the kvm (mux.go handle).                                 *)
LEMMA RecvOpenedKeeps ==
    ASSUME IInv, RecvOpened
    PROVE  Kept
<1> DEFINE s == Head(e2k).id
           k2 == IF kv[s].tab THEN [kv[s] EXCEPT !.res = "ok"] ELSE kv[s]
<1>1. Receives("OPENED") /\ UNCHANGED <<kc, k2e>>
  BY DEF RecvOpened
<1>2. /\ e2k' \in Seq(Frames) /\ UNCHANGED <<ex, ec>> /\ s \in Streams
      /\ DataOf(e2k') = DataOf(e2k) /\ Elsewhere(e2k, e2k', s)
      /\ Taken(View(e2k, s), "OPENED", 0, View(e2k', s)) /\ Seen(View(e2k', s))
  BY <1>1, KvmTakes
<1>3. /\ StreamOK(kv[s], ex[s], s, kc.next, Hand(kc, s), View(k2e, s), View(e2k, s))
      /\ Seen(View(k2e, s)) /\ Seen(View(e2k, s)) /\ kc.next \in Nat /\ Hand(kc, s) \in Nat
      /\ k2e \in Seq(Frames) /\ kc \in KvmSession /\ kv[s] \in KvmStream
  BY <1>2, Here
<1>4. kv' = IF kv[s].tab THEN [kv EXCEPT ![s] = DeliverOpen(kv[s], "ok")] ELSE kv
  BY DEF RecvOpened
<1> HIDE DEF s
<1>5. kv[s].tab => DeliverOpen(kv[s], "ok") = [kv[s] EXCEPT !.res = "ok"]
  <2>1. kv[s].tab => kv[s].res # "err"
    BY <1>3 DEF StreamOK, Opening
  <2> QED BY <1>3, <2>1, DeliverOpenIs
<1>6. kv' = [kv EXCEPT ![s] = k2]
  <2>1. kv \in [Streams -> KvmStream]
    BY DEF IInv, TypeInv
  <2> QED BY <1>2, <1>4, <1>5, <2>1
<1>7. StreamOK(k2, ex[s], s, kc.next, Hand(kc, s), View(k2e, s), View(e2k', s))
  <2>1. CASE kv[s].tab
    <3>1. StreamOK([kv[s] EXCEPT !.res = "ok"], ex[s], s, kc.next, Hand(kc, s), View(k2e, s), View(e2k', s))
      BY <1>2, <1>3, <2>1, OpenedStep
    <3> QED BY <2>1, <3>1
  <2>2. CASE ~kv[s].tab
    <3>1. StreamOK(kv[s], ex[s], s, kc.next, Hand(kc, s), View(k2e, s), View(e2k', s))
      BY <1>2, <1>3, <2>2, LateOpenedStep
    <3> QED BY <2>2, <3>1
  <2> QED BY <2>1, <2>2
<1>8. k2.recvQ = kv[s].recvQ /\ k2.tab = kv[s].tab
  BY <1>3 DEF KvmStream
<1> HIDE DEF k2
<1>9. Elsewhere(k2e, k2e', s) /\ View(k2e', s) = View(k2e, s)
  BY <1>1, SameChannel
<1> QED BY <1>1, <1>2, <1>3, <1>6, <1>7, <1>8, <1>9, KvmStays

(* OPEN_FAIL or RST reaches the kvm; for a released stream it changes      *)
(* nothing (mux.go handle).                                                *)
LEMMA RecvFailureKeeps ==
    ASSUME IInv, RecvFailure
    PROVE  Kept
<1> DEFINE s == Head(e2k).id
<1>1. PICK t \in {"OPEN_FAIL", "RST"} : Receives(t)
  BY DEF RecvFailure
<1>2. e2k' \in Seq(Frames) /\ UNCHANGED <<ex, ec>> /\ s \in Streams
  BY <1>1, KvmTakes
<1>3. SameData(e2k, e2k')
  BY <1>1, KvmTakes DEF SameData
<1>4. /\ StreamOK(kv[s], ex[s], s, kc.next, Hand(kc, s), View(k2e, s), View(e2k, s))
      /\ k2e \in Seq(Frames) /\ kc \in KvmSession /\ kv[s] \in KvmStream
  BY <1>2, Here
<1>5. CASE kv[s].tab
  <2>1. ReleaseStream(s, DeliverOpen(kv[s], "err"), kc, FALSE, FALSE, <<>>)
    BY <1>5 DEF RecvFailure
  <2> HIDE DEF s
  <2>2. PICK c, r : /\ DeliverOpen(kv[s], "err") = [kv[s] EXCEPT !.caller = c, !.res = r]
                    /\ c \in {kv[s].caller, "gone"}
                    /\ r = kv[s].res \/ (kv[s].res = "none" /\ r = "err")
    BY <1>4, DeliverOpenIs
  <2>3. Aborts(s, c, r, FALSE)
    BY <2>1, <2>2 DEF Aborts
  <2>4. kv[s].caller # "idle"
    BY <1>4, <1>5 DEF StreamOK, Opening
  <2>5. MayAbort(s, c, r)
    BY <1>5, <2>2, <2>4 DEF MayAbort
  <2>6. FALSE \in BOOLEAN
    OBVIOUS
  <2> QED BY <1>2, <1>3, <2>3, <2>5, <2>6, AbortKeeps
<1>6. CASE ~kv[s].tab
  <2>1. UNCHANGED <<kv, kc, k2e>>
    BY <1>6 DEF RecvFailure
  <2>2. Everywhere(k2e, k2e')
    BY <2>1, SameChannel
  <2>3. StreamsOK'
    BY <1>2, <1>3, <2>1, <2>2, NoStream DEF IInv, SameData
  <2>4. TypeInv'
    BY <1>2, <2>1 DEF IInv, TypeInv
  <2>5. HeldOK'
    BY <2>1 DEF IInv, HeldOK
  <2>6. CreditStays
    BY <1>2, <1>3, <2>1 DEF CreditStays, Wire, SameData
  <2>7. TableStep
    BY <2>1 DEF TableStep, TableStays, SameTable
  <2> QED BY <2>3, <2>4, <2>5, <2>6, <2>7 DEF Kept, ConnStep
<1> QED BY <1>5, <1>6

(* EOF reaches the kvm (mux.go handle, remoteEOFArrived).                  *)
LEMMA RecvEOFKeeps ==
    ASSUME IInv, RecvEOF
    PROVE  Kept
<1> DEFINE s == Head(e2k).id
           k == [kv[s] EXCEPT !.remoteEOF = TRUE]
<1>1. Receives("EOF")
  BY DEF RecvEOF
<1>2. /\ e2k' \in Seq(Frames) /\ UNCHANGED <<ex, ec>> /\ s \in Streams /\ kc.data = NoData
      /\ DataOf(e2k') = DataOf(e2k) /\ Elsewhere(e2k, e2k', s)
      /\ Taken(View(e2k, s), "EOF", 0, View(e2k', s)) /\ Seen(View(e2k', s))
  BY <1>1, KvmTakes
<1>3. /\ StreamOK(kv[s], ex[s], s, kc.next, Hand(kc, s), View(k2e, s), View(e2k, s))
      /\ Seen(View(k2e, s)) /\ Seen(View(e2k, s)) /\ kc.next \in Nat /\ Hand(kc, s) \in Nat
      /\ k2e \in Seq(Frames) /\ kc \in KvmSession /\ kv[s] \in KvmStream
  BY <1>2, Here
<1>4. CASE ~kv[s].tab
  <2>1. UNCHANGED <<kv, kc, k2e>>
    BY <1>4 DEF RecvEOF
  <2> HIDE DEF s
  <2>2. StreamOK(kv[s], ex[s], s, kc.next, Hand(kc, s), View(k2e, s), View(e2k', s))
    BY <1>2, <1>3, <1>4, LateEOFStep
  <2>3. kv' = [kv EXCEPT ![s] = kv[s]]
    <3>1. kv \in [Streams -> KvmStream]
      BY DEF IInv, TypeInv
    <3> QED BY <1>2, <2>1, <3>1
  <2>4. Elsewhere(k2e, k2e', s)
    BY <2>1, SameChannel
  <2> QED BY <1>2, <1>3, <2>1, <2>2, <2>3, <2>4, KvmStays
<1>5. CASE kv[s].tab
  <2>1. kv[s].res = "ok"
    BY <1>2, <1>3, <1>5, AfterOpened
  <2>2. \/ k.localEOF /\ Cleans(s, k, <<>>)
        \/ ~k.localEOF /\ kv' = [kv EXCEPT ![s] = k] /\ UNCHANGED <<kc, k2e>>
    BY <1>5, <2>1 DEF RecvEOF, Cleans
  <2> HIDE DEF s
  <2>3. Hand(kc, s) = 0
    BY <1>2 DEF Hand, NoData
  <2>4. StreamOK(k, ex[s], s, kc.next, Hand(kc, s), View(k2e, s), View(e2k', s))
    BY <1>2, <1>3, <1>5, <2>3, EOFStep
  <2>5. kv[s].rel = "no"
    BY <1>3, <1>5 DEF StreamOK, Opening
  <2>6. k \in KvmStream /\ k.tab /\ k.rel = "no" /\ k.remoteEOF /\ k.recvQ = kv[s].recvQ /\ k.tab = kv[s].tab
    BY <1>3, <1>5, <2>5 DEF KvmStream
  <2> HIDE DEF k
  <2>7. CASE k.localEOF /\ Cleans(s, k, <<>>)
    <3> DEFINE k2 == [k EXCEPT !.tab = FALSE, !.rel = "clean", !.credit = 0]
    <3>1. <<>> \in Seq(Frames) /\ k2e \o <<>> = k2e
      BY <1>3, ConcatEmptySeq
    <3>2. /\ kv' = [kv EXCEPT ![s] = k2]
          /\ kc' = [kc EXCEPT !.released = Remember(kc.released, s)] /\ k2e' = k2e
      BY <1>2, <1>3, <2>6, <2>7, <3>1, CleanIs
    <3>3. StreamOK(k2, ex[s], s, kc.next, Hand(kc, s), View(k2e, s), View(e2k', s))
      BY <1>2, <1>3, <2>4, <2>6, <2>7, CleanStep
    <3>4. ~k2.tab /\ k2.recvQ = kv[s].recvQ
      BY <2>6 DEF KvmStream
    <3> HIDE DEF k2
    <3>5. Elsewhere(k2e, k2e', s) /\ k2e' \in Seq(Frames) /\ WindowOf(k2e') = WindowOf(k2e)
      BY <1>3, <3>2, SameChannel
    <3>6. StreamOK(k2, ex[s], s, kc.next, Hand(kc, s), View(k2e', s), View(e2k', s))
      BY <3>2, <3>3
    <3> QED BY <1>2, <1>5, <3>2, <3>4, <3>5, <3>6, LeaveKeeps
  <2>8. CASE ~k.localEOF /\ kv' = [kv EXCEPT ![s] = k] /\ UNCHANGED <<kc, k2e>>
    <3>1. Elsewhere(k2e, k2e', s)
      BY <2>8, SameChannel
    <3> QED BY <1>2, <1>3, <2>4, <2>6, <2>8, <3>1, KvmStays
  <2> QED BY <2>2, <2>7, <2>8
<1> QED BY <1>4, <1>5

(* A step that leaves the kvm's queues alone and takes n bytes of DATA.    *)
LEMMA DataTaken ==
    ASSUME IInv, UNCHANGED ex, NEW n \in Nat, DataOf(e2k) = DataOf(e2k') + n, e2k' \in Seq(Frames)
    PROVE  Wire' + n = Wire /\ n <= Wire /\ Wire \in Nat
<1>1. DataOf(e2k') \in Nat /\ SendingOf(ex) \in Nat
  BY ChannelType, Numbers DEF IInv
<1> QED BY <1>1 DEF Wire

(* DATA reaches the kvm: it becomes outstanding, or is credited at once    *)
(* (mux.go onData, creditReleased).                                        *)
LEMMA RecvDataKeeps ==
    ASSUME IInv, RecvData
    PROVE  Kept
<1> DEFINE s == Head(e2k).id
           n == Head(e2k).n
<1>1. Receives("DATA") /\ UNCHANGED kv
  BY DEF RecvData
<1>2. /\ e2k' \in Seq(Frames) /\ UNCHANGED <<ex, ec>> /\ s \in Streams /\ kc.data = NoData
      /\ n \in Nat \ {0}
      /\ DataOf(e2k) = DataOf(e2k') + n /\ Elsewhere(e2k, e2k', s)
      /\ Taken(View(e2k, s), "DATA", n, View(e2k', s)) /\ Seen(View(e2k', s))
  BY <1>1, KvmTakes
<1>3. /\ StreamOK(kv[s], ex[s], s, kc.next, Hand(kc, s), View(k2e, s), View(e2k, s))
      /\ Seen(View(k2e, s)) /\ Seen(View(e2k, s)) /\ kc.next \in Nat /\ Hand(kc, s) \in Nat
      /\ k2e \in Seq(Frames) /\ kc \in KvmSession /\ kv[s] \in KvmStream
  BY <1>2, Here
<1>4. Wire' + n = Wire /\ n <= Wire /\ Wire \in Nat
  <2> HIDE DEF n
  <2>1. n \in Nat
    BY <1>2
  <2> QED BY <1>2, <2>1, DataTaken
<1>5. /\ ec.credit \in Nat /\ kc.outstanding \in Nat /\ kc.consumed \in Nat
      /\ WindowOf(k2e) \in Nat /\ ConnWindow \in Nat /\ HeldBy(kv) \in Nat
  BY Numbers DEF IInv
<1>6. kv \in [Streams -> KvmStream] /\ kv' = [kv EXCEPT ![s] = kv[s]]
  <2>1. kv \in [Streams -> KvmStream]
    BY DEF IInv, TypeInv
  <2> QED BY <1>1, <1>2, <2>1
<1>7. kc.data.n = 0 /\ \A t \in Streams : Hand(kc, t) = 0
  BY <1>2 DEF NoData, Hand
<1>8. CASE kv[s].tab
  <2>1. kv[s].res = "ok"
    <3> HIDE DEF s, n
    <3> QED BY <1>2, <1>3, <1>8, AfterOpened
  <2>2. kc.outstanding + n <= ConnWindow
    <3>1. ConnBytes <= ConnWindow
      BY DEF IInv, ConnOK
    <3>2. ConnBytes = ec.credit + Wire + kc.outstanding + kc.consumed + WindowOf(k2e)
      BY DEF ConnBytes
    <3> HIDE DEF n
    <3>3. n \in Nat
      BY <1>2
    <3> QED BY <1>4, <1>5, <3>1, <3>2, <3>3
  <2> DEFINE o == kc.outstanding + n
             d == [id |-> s, n |-> n]
  <2>3. kc' = [kc EXCEPT !.outstanding = o, !.data = d] /\ UNCHANGED k2e
    <3>1. ~(kc.outstanding + n > ConnWindow)
      BY <1>2, <1>5, <2>2
    <3> QED BY <1>8, <2>1, <3>1 DEF RecvData
  <2>4. o \in Nat /\ d \in [id : Streams, n : Nat \ {0}] /\ d.id = s /\ d.n = n
    BY <1>2, <1>5
  <2> HIDE DEF s, n, o, d
  <2>5. /\ kc' \in KvmSession /\ kc'.next = kc.next /\ kc'.data = d /\ kc'.outstanding = o
        /\ kc'.consumed = kc.consumed /\ kc'.released = kc.released
    BY <1>3, <2>3, <2>4 DEF KvmSession
  <2>6. Hand(kc', s) = n /\ \A t \in Streams \ {s} : Hand(kc', t) = Hand(kc, t)
    BY <1>7, <2>4, <2>5 DEF Hand
  <2>7. StreamOK(kv[s], ex[s], s, kc.next, n, View(k2e, s), View(e2k', s))
    BY <1>2, <1>3, <1>7, <1>8, DataStep
  <2>8. k2e' \in Seq(Frames) /\ Elsewhere(k2e, k2e', s) /\ View(k2e', s) = View(k2e, s)
    BY <1>3, <2>3, SameChannel
  <2>9. StreamOK(kv[s], ex[s], s, kc.next, Hand(kc', s), View(k2e', s), View(e2k', s))
    BY <2>6, <2>7, <2>8
  <2>10. TypeInv' /\ StreamsOK'
    BY <1>2, <1>6, <2>5, <2>6, <2>8, <2>9, KvmStep
  <2>11. HeldOK'
    <3>1. kc.outstanding = HeldBy(kv) + kc.data.n
      BY DEF IInv, HeldOK
    <3>2. o = kc.outstanding + n
      BY DEF o
    <3>3. n \in Nat
      BY <1>2
    <3>4. o = HeldBy(kv) + n
      BY <1>5, <1>7, <3>1, <3>2, <3>3
    <3> QED BY <1>1, <2>4, <2>5, <3>4 DEF HeldOK
  <2>12. MoveReceive(n)
    BY <1>2, <1>4, <2>3, <2>5 DEF MoveReceive, o
  <2>13. TableStep
    BY <1>1, <2>5 DEF TableStep, TableStays, SameTable
  <2> QED BY <1>2, <2>10, <2>11, <2>12, <2>13 DEF Kept, ConnStep, Move
<1>9. CASE ~kv[s].tab /\ \E i \in DOMAIN kc.released : kc.released[i] = s
  <2> DEFINE o == Owed(ConnWindow, kc.consumed, n)
  <2>1. kc' = [kc EXCEPT !.consumed = o]
    BY <1>9 DEF RecvData
  <2>2. k2e' = k2e \o WindowFrame(0, ConnWindow, kc.consumed, n)
    BY <1>9 DEF RecvData, ConnWindowFrame
  <2> HIDE DEF s, n
  <2>3. o \in Nat
    BY <1>2, <1>5, OwedType
  <2>4. /\ k2e' \in Seq(Frames) /\ Everywhere(k2e, k2e')
        /\ Credited(ConnWindow, kc.consumed, n, o, WindowOf(k2e), WindowOf(k2e'))
    BY <1>2, <1>3, <1>5, <2>2, ConnFrames
  <2> HIDE DEF o
  <2>5. /\ kc' \in KvmSession /\ kc'.next = kc.next /\ kc'.data = kc.data
        /\ kc'.outstanding = kc.outstanding
        /\ kc'.consumed = o /\ kc'.released = kc.released
    BY <1>3, <2>1, <2>3 DEF KvmSession
  <2>6. \A t : Hand(kc', t) = Hand(kc, t)
    BY <2>5 DEF Hand
  <2>7. StreamOK(kv[s], ex[s], s, kc.next, Hand(kc, s), View(k2e, s), View(e2k', s))
    BY <1>2, <1>3, <1>9, LateDataStep
  <2>8. Elsewhere(k2e, k2e', s) /\ View(k2e', s) = View(k2e, s)
    BY <1>2, <2>4, EverywhereIs
  <2>9. StreamOK(kv[s], ex[s], s, kc.next, Hand(kc', s), View(k2e', s), View(e2k', s))
    BY <2>6, <2>7, <2>8
  <2>10. TypeInv' /\ StreamsOK'
    BY <1>2, <1>6, <2>4, <2>5, <2>6, <2>8, <2>9, KvmStep
  <2>11. HeldOK'
    BY <1>1, <2>5 DEF IInv, HeldOK
  <2>12. MoveDiscard(n)
    BY <1>2, <1>4, <2>4, <2>5 DEF MoveDiscard, CreditBack
  <2>13. TableStep
    BY <1>1, <2>5 DEF TableStep, TableStays, SameTable
  <2> QED BY <1>2, <2>10, <2>11, <2>12, <2>13 DEF Kept, ConnStep, Move
<1>10. CASE ~kv[s].tab /\ ~\E i \in DOMAIN kc.released : kc.released[i] = s
  <2>1. UNCHANGED <<kc, k2e>>
    BY <1>10 DEF RecvData
  <2> HIDE DEF s, n
  <2>2. StreamOK(kv[s], ex[s], s, kc.next, Hand(kc, s), View(k2e, s), View(e2k', s))
    BY <1>2, <1>3, <1>10, LateDataStep
  <2>3. k2e' \in Seq(Frames) /\ Elsewhere(k2e, k2e', s) /\ View(k2e', s) = View(k2e, s)
    BY <1>3, <2>1, SameChannel
  <2>4. StreamOK(kv[s], ex[s], s, kc.next, Hand(kc', s), View(k2e', s), View(e2k', s))
    BY <2>1, <2>2, <2>3
  <2>5. \A t \in Streams \ {s} : Hand(kc', t) = Hand(kc, t)
    BY <2>1
  <2>6. TypeInv' /\ StreamsOK'
    BY <1>2, <1>3, <1>6, <2>1, <2>3, <2>4, <2>5, KvmStep
  <2>7. HeldOK'
    BY <1>1, <2>1 DEF IInv, HeldOK
  <2>8. s < kc.next
    <3>1. "DATA" \in View(e2k, s).has
      BY <1>2 DEF Taken
    <3> QED BY <1>2, <1>3, <3>1 DEF StreamOK, Opening, NothingOf, Streams
  <2>9. MoveLose(n)
    BY <1>2, <1>4, <1>10, <2>1, <2>8 DEF MoveLose, Forgotten
  <2>10. TableStep
    BY <1>1, <2>1 DEF TableStep, TableStays, SameTable
  <2> QED BY <1>2, <2>6, <2>7, <2>9, <2>10 DEF Kept, ConnStep, Move
<1> QED BY <1>8, <1>9, <1>10

(* The hand of the read loop is emptied.                                   *)
LEMMA HandEmptied ==
    ASSUME NEW c \in KvmSession, NEW d, d = [c EXCEPT !.data = NoData]
    PROVE  /\ d \in KvmSession /\ d.next = c.next /\ d.data = NoData
           /\ d.outstanding = c.outstanding /\ d.consumed = c.consumed /\ d.released = c.released
BY DEF KvmSession

(* DATA enters the kvm's queue.                                            *)
LEMMA FrameQueued ==
    ASSUME NEW q \in Sizes, NEW n \in Nat \ {0}
    PROVE  Append(q, n) \in Sizes /\ Sum(Append(q, n)) = Sum(q) + n
<1>1. q \in Items
  BY SeqMonotonic DEF Sizes, Items
<1>2. Sum(Append(q, n)) = Sum(q) + n
  BY <1>1, DataQueued
<1>3. Append(q, n) \in Sizes
  BY DEF Sizes
<1> QED BY <1>2, <1>3

(* The DATA in hand fits the stream's window, and its EOF is still to come. *)
LEMMA EnqueueFits ==
    ASSUME NEW k, NEW x, NEW s \in Streams, NEW next \in Nat, NEW h \in Nat, NEW a, NEW b,
           Seen(a), Seen(b), StreamOK(k, x, s, next, h, a, b), k.rel = "no", h > 0
    PROVE  ~k.remoteEOF /\ ~(Sum(k.recvQ) + h > StreamWindow)
<1>1. /\ Opening(k, x, s, next, h, a, b) /\ DownEOF(k, x, h, b) /\ StreamCredit(k, x, h, a, b)
      /\ KvmNumbers(k) /\ ExitNumbers(x) /\ ViewNumbers(a) /\ ViewNumbers(b)
  BY StreamParts
<1>2. h # 0 /\ StreamWindow \in Nat
  BY NexitAssumption
<1>3. ~k.remoteEOF
  BY <1>1, <1>2 DEF DownEOF
<1>4. k.tab
  BY <1>1, <1>2 DEF Opening, Streams
<1>5. x.credit + x.claim + x.sending + b.d + h + Sum(k.recvQ) + k.consumed + a.w <= StreamWindow
  BY <1>1, <1>4 DEF StreamCredit
<1>6. /\ x.credit \in Nat /\ x.claim \in Nat /\ x.sending \in Nat /\ b.d \in Nat /\ Sum(k.recvQ) \in Nat
      /\ k.consumed \in Nat /\ a.w \in Nat
  BY <1>1 DEF KvmNumbers, ExitNumbers, ViewNumbers
<1>7. ~(Sum(k.recvQ) + h > StreamWindow)
  BY <1>2, <1>5, <1>6
<1> QED BY <1>3, <1>7

(* The DATA in hand is queued, or credited if its stream was released      *)
(* meanwhile (mux.go enqueue, onData).                                     *)
LEMMA EnqueueKeeps ==
    ASSUME IInv, Enqueue
    PROVE  Kept
<1> DEFINE s == kc.data.id
           n == kc.data.n
           c == [kc EXCEPT !.data = NoData]
<1>1. kc.data # NoData /\ UNCHANGED <<ex, ec, e2k>>
  BY DEF Enqueue
<1>2. kc \in KvmSession /\ kv \in [Streams -> KvmStream]
  BY DEF IInv, TypeInv
<1>3. kc.data \in [id : Streams, n : Nat \ {0}]
  BY <1>1, <1>2 DEF KvmSession
<1>4. s \in Streams /\ n \in Nat \ {0} /\ Hand(kc, s) = n
  BY <1>3 DEF Hand
<1>5. /\ c \in KvmSession /\ c.next = kc.next /\ c.data = NoData
      /\ c.outstanding = kc.outstanding /\ c.consumed = kc.consumed /\ c.released = kc.released
  BY <1>2, HandEmptied
<1>6. \A t \in Streams : c.data = NoData => Hand(c, t) = 0
  BY DEF Hand, NoData
<1>7. \A t \in Streams \ {s} : Hand(kc, t) = 0
  BY DEF Hand
<1>8. IF kv[s].rel # "no"
        THEN /\ kc' = Consumed(c, n)
             /\ k2e' = k2e \o WindowFrame(0, ConnWindow, c.consumed, n)
             /\ UNCHANGED kv
      ELSE IF kv[s].remoteEOF \/ Sum(kv[s].recvQ) + n > StreamWindow
        THEN TRUE
      ELSE /\ kv' = [kv EXCEPT ![s].recvQ = Append(@, n)]
           /\ kc' = c
           /\ UNCHANGED k2e
  BY DEF Enqueue, ConnWindowFrame
<1> HIDE DEF s, n, c
<1>9. /\ StreamOK(kv[s], ex[s], s, kc.next, n, View(k2e, s), View(e2k, s))
      /\ Seen(View(k2e, s)) /\ Seen(View(e2k, s)) /\ kc.next \in Nat /\ n \in Nat
      /\ k2e \in Seq(Frames) /\ e2k \in Seq(Frames) /\ kv[s] \in KvmStream
  BY <1>4, Here
<1>10. n > 0
  BY <1>4
<1>11. Elsewhere(e2k, e2k', s) /\ View(e2k', s) = View(e2k, s) /\ e2k' \in Seq(Frames)
  BY <1>1, <1>9, SameChannel
<1>12. kc.data.n = n /\ kc.outstanding = HeldBy(kv) + n /\ HeldBy(kv) \in Nat
  <2>1. kc.data.n = n
    BY DEF n
  <2> QED BY <2>1, Numbers DEF IInv, HeldOK
<1>13. CASE kv[s].rel # "no"
  <2>1. /\ kc' = Consumed(c, n) /\ UNCHANGED kv
        /\ k2e' = k2e \o WindowFrame(0, ConnWindow, c.consumed, n)
    BY <1>8, <1>13
  <2>2. n <= c.outstanding
    BY <1>5, <1>9, <1>12
  <2>3. /\ kc' \in KvmSession /\ kc'.outstanding + n = c.outstanding
        /\ kc'.consumed = Owed(ConnWindow, c.consumed, n)
        /\ kc'.next = c.next /\ kc'.data = c.data /\ kc'.released = c.released
    BY <1>5, <1>9, <2>1, <2>2, ConsumedIs
  <2>4. kc.consumed \in Nat
    BY <1>2 DEF KvmSession
  <2>5. /\ k2e' \in Seq(Frames) /\ Everywhere(k2e, k2e')
        /\ Credited(ConnWindow, kc.consumed, n, Owed(ConnWindow, kc.consumed, n),
                    WindowOf(k2e), WindowOf(k2e'))
    BY <1>4, <1>5, <1>9, <2>1, <2>4, ConnFrames
  <2>6. \A t \in Streams : Hand(kc', t) = 0
    BY <1>5, <2>3 DEF Hand, NoData
  <2>7. StreamOK(kv[s], ex[s], s, kc.next, 0, View(k2e, s), View(e2k, s))
    BY <1>4, <1>9, <1>10, <1>13, EnqueueLateStep
  <2>8. Elsewhere(k2e, k2e', s) /\ View(k2e', s) = View(k2e, s)
    BY <1>4, <2>5, EverywhereIs
  <2>9. StreamOK(kv[s], ex[s], s, kc.next, Hand(kc', s), View(k2e', s), View(e2k', s))
    BY <1>4, <1>11, <2>6, <2>7, <2>8
  <2>10. kv' = [kv EXCEPT ![s] = kv[s]]
    BY <1>2, <1>4, <2>1
  <2>11. \A t \in Streams \ {s} : Hand(kc', t) = Hand(kc, t)
    BY <1>7, <2>6
  <2>12. kc'.next = kc.next
    BY <1>5, <2>3
  <2>13. TypeInv' /\ StreamsOK'
    BY <1>1, <1>4, <1>11, <2>3, <2>5, <2>8, <2>9, <2>10, <2>11, <2>12, KvmStep
  <2>14. HeldOK'
    <3>1. kc'.outstanding \in Nat /\ kc'.outstanding + n = kc.outstanding /\ kc'.data.n = 0
      BY <1>5, <2>3 DEF KvmSession, NoData
    <3>2. kc'.outstanding = HeldBy(kv) + 0
      BY <1>9, <1>12, <3>1
    <3> QED BY <2>1, <3>1, <3>2 DEF HeldOK
  <2>15. MoveConsume(n)
    <3>1. Wire' = Wire
      BY <1>1 DEF Wire
    <3>2. CreditBack(n)
      BY <1>5, <2>3, <2>5 DEF CreditBack
    <3> QED BY <1>1, <1>5, <2>3, <3>1, <3>2 DEF MoveConsume
  <2>16. TableStep
    BY <1>5, <2>1, <2>3 DEF TableStep, TableStays, SameTable
  <2> QED BY <1>4, <2>13, <2>14, <2>15, <2>16 DEF Kept, ConnStep, Move
<1>14. CASE kv[s].rel = "no"
  <2> DEFINE q == Append(kv[s].recvQ, n)
             k2 == [kv[s] EXCEPT !.recvQ = q]
  <2>1. ~kv[s].remoteEOF /\ ~(Sum(kv[s].recvQ) + n > StreamWindow)
    BY <1>4, <1>9, <1>10, <1>14, EnqueueFits
  <2>2. kv' = [kv EXCEPT ![s] = k2] /\ kc' = c /\ UNCHANGED k2e
    BY <1>8, <1>14, <2>1
  <2>3. kv[s].recvQ \in Sizes
    BY <1>9 DEF KvmStream
  <2>4. q \in Sizes /\ Sum(q) = Sum(kv[s].recvQ) + n
    BY <1>4, <2>3, FrameQueued
  <2> HIDE DEF q
  <2>5. StreamOK(k2, ex[s], s, kc.next, 0, View(k2e, s), View(e2k, s))
    BY <1>4, <1>9, <1>10, <1>14, <2>4, EnqueueStep
  <2>6. k2.recvQ = q /\ k2.tab = kv[s].tab
    BY <1>9 DEF KvmStream
  <2> HIDE DEF k2
  <2>7. \A t \in Streams : Hand(kc', t) = 0
    BY <1>5, <1>6, <2>2
  <2>8. k2e' \in Seq(Frames) /\ Elsewhere(k2e, k2e', s) /\ View(k2e', s) = View(k2e, s)
    BY <1>9, <2>2, SameChannel
  <2>9. StreamOK(k2, ex[s], s, kc.next, Hand(kc', s), View(k2e', s), View(e2k', s))
    BY <1>4, <1>11, <2>5, <2>7, <2>8
  <2>10. \A t \in Streams \ {s} : Hand(kc', t) = Hand(kc, t)
    BY <1>7, <2>7
  <2>11. kc' \in KvmSession /\ kc'.next = kc.next
    BY <1>5, <2>2
  <2>12. /\ TypeInv' /\ StreamsOK'
         /\ HeldBy(kv) \in Nat /\ HeldBy(kv') \in Nat
         /\ Sum(kv[s].recvQ) \in Nat
         /\ HeldBy(kv') + Sum(kv[s].recvQ) = HeldBy(kv) + Sum(k2.recvQ)
         /\ kv'[s] = k2 /\ SameTable(Streams \ {s})
    BY <1>1, <1>4, <1>11, <2>2, <2>8, <2>9, <2>10, <2>11, KvmStep
  <2>13. HeldOK'
    <3>1. HeldBy(kv') = HeldBy(kv) + n
      <4>1. Sum(k2.recvQ) = Sum(kv[s].recvQ) + n
        BY <2>4, <2>6
      <4>2. /\ HeldBy(kv) \in Nat /\ HeldBy(kv') \in Nat /\ Sum(kv[s].recvQ) \in Nat
            /\ HeldBy(kv') + Sum(kv[s].recvQ) = HeldBy(kv) + Sum(k2.recvQ) /\ n \in Nat
        BY <1>9, <2>12
      <4> QED BY <4>1, <4>2
    <3>2. kc'.outstanding = HeldBy(kv') + 0
      BY <1>5, <1>12, <2>2, <2>12, <3>1
    <3>3. kc'.data.n = 0
      BY <1>5, <2>2 DEF NoData
    <3> QED BY <3>2, <3>3 DEF HeldOK
  <2>14. CreditStays
    BY <1>1, <1>5, <2>2 DEF CreditStays, Wire
  <2>15. TableStep
    BY <1>5, <2>2, <2>6, <2>12 DEF TableStep, TableStays, SameTable
  <2> QED BY <2>12, <2>13, <2>14, <2>15 DEF Kept, ConnStep
<1> QED BY <1>13, <1>14

(* The next id is another stream's, or was already behind it.              *)
LEMMA OthersOpen ==
    ASSUME NEW k, NEW x, NEW s \in Streams, NEW next \in Nat, NEW h, NEW a, NEW b,
           StreamOK(k, x, s, next, h, a, b), s # next
    PROVE  StreamOK(k, x, s, next + 1, h, a, b)
<1>1. (s >= next + 1 <=> s >= next) /\ (s < next + 1 <=> s < next)
  BY DEF Streams
<1>2. Opening(k, x, s, next + 1, h, a, b)
  BY <1>1 DEF StreamOK, Opening
<1> QED BY <1>2 DEF StreamOK

(* hev opens the next stream (mux.go openStream).                          *)
LEMMA OpenStreamKeeps ==
    ASSUME IInv, OpenStream
    PROVE  Kept
<1> DEFINE s == kc.next
           k2 == [kv[s] EXCEPT !.tab = TRUE, !.caller = "await"]
<1>1. /\ s \in Streams /\ UNCHANGED <<ex, ec, e2k>>
      /\ kc' = [kc EXCEPT !.next = s + 1]
      /\ k2e' = Append(k2e, Frame("OPEN", s, 0))
  BY DEF OpenStream
<1>2. kv \in [Streams -> KvmStream]
  BY DEF IInv, TypeInv
<1>3. kv' = [kv EXCEPT ![s] = k2]
  BY <1>1, <1>2 DEF OpenStream
<1>4. /\ TypeInv /\ StreamsOK
      /\ StreamOK(kv[s], ex[s], s, kc.next, Hand(kc, s), View(k2e, s), View(e2k, s))
      /\ Seen(View(k2e, s)) /\ Seen(View(e2k, s)) /\ kc.next \in Nat /\ Hand(kc, s) \in Nat
      /\ k2e \in Seq(Frames) /\ e2k \in Seq(Frames) /\ kc \in KvmSession /\ kv[s] \in KvmStream
  BY <1>1, Here
<1>5. /\ kc' \in KvmSession /\ kc'.next = s + 1 /\ kc'.data = kc.data
      /\ kc'.outstanding = kc.outstanding /\ kc'.consumed = kc.consumed
      /\ kc'.released = kc.released
  <2> DEFINE m == s + 1
  <2>1. m \in Nat \ {0}
    BY <1>4
  <2>2. kc' = [kc EXCEPT !.next = m]
    BY <1>1
  <2> HIDE DEF m
  <2>3. /\ kc' \in KvmSession /\ kc'.next = m /\ kc'.data = kc.data
        /\ kc'.outstanding = kc.outstanding /\ kc'.consumed = kc.consumed
        /\ kc'.released = kc.released
    BY <1>4, <2>1, <2>2 DEF KvmSession
  <2> QED BY <2>3 DEF m
<1>6. k2.recvQ = kv[s].recvQ /\ k2.tab
  BY <1>4 DEF KvmStream
<1>7. \A t : Hand(kc', t) = Hand(kc, t)
  BY <1>5 DEF Hand
<1>8. s = kc.next
  OBVIOUS
<1> HIDE DEF s
<1>9. /\ k2e' \in Seq(Frames) /\ WindowOf(k2e') = WindowOf(k2e)
      /\ Elsewhere(k2e, k2e', s) /\ Sent(View(k2e, s), "OPEN", 0, View(k2e', s)) /\ Seen(View(k2e', s))
  BY <1>1, <1>4, MarkSent
<1>10. StreamOK(k2, ex[s], s, kc.next + 1, Hand(kc, s), View(k2e', s), View(e2k, s))
  BY <1>1, <1>4, <1>8, <1>9, OpenStep
<1> HIDE DEF k2
<1>11. kv' \in [Streams -> KvmStream] /\ kv'[s] = k2 /\ Differ(kv, kv', s)
  <2>1. k2 \in KvmStream
    BY <1>10 DEF StreamOK
  <2> QED BY <1>1, <1>2, <1>3, <2>1 DEF Differ
<1>12. StreamAt(kv', ex', kc', k2e', e2k', s)
  BY <1>1, <1>5, <1>7, <1>8, <1>10, <1>11 DEF StreamAt
<1>13. ASSUME NEW t \in Streams, t # s
       PROVE  StreamAt(kv', ex', kc', k2e', e2k', t)
  <2>1. StreamOK(kv[t], ex[t], t, kc.next, Hand(kc, t), View(k2e, t), View(e2k, t))
    BY <1>4 DEF StreamsOK, StreamAt
  <2>2. StreamOK(kv[t], ex[t], t, kc.next + 1, Hand(kc, t), View(k2e, t), View(e2k, t))
    BY <1>4, <1>8, <1>13, <2>1, OthersOpen
  <2>3. kv'[t] = kv[t] /\ View(k2e', t) = View(k2e, t)
    BY <1>9, <1>11, <1>13 DEF Differ, Elsewhere
  <2> QED BY <1>1, <1>5, <1>7, <1>8, <2>2, <2>3 DEF StreamAt
<1>14. StreamsOK'
  BY <1>12, <1>13 DEF StreamsOK
<1>15. TypeInv'
  BY <1>1, <1>4, <1>5, <1>9, <1>11 DEF TypeInv
<1>16. HeldOK'
  <2>1. AllKvm(kv) /\ AllKvm(kv')
    BY <1>2, <1>11 DEF AllKvm
  <2>2. /\ HeldBy(kv) \in Nat /\ HeldBy(kv') \in Nat /\ Sum(kv[s].recvQ) \in Nat
        /\ HeldBy(kv') + Sum(kv[s].recvQ) = HeldBy(kv) + Sum(kv'[s].recvQ)
    BY <1>1, <1>11, <2>1, HeldChange
  <2>3. HeldBy(kv') = HeldBy(kv)
    <3>1. Sum(kv'[s].recvQ) = Sum(kv[s].recvQ)
      BY <1>6, <1>11
    <3> QED BY <2>2, <3>1
  <2> QED BY <1>5, <2>3 DEF IInv, HeldOK
<1>17. CreditStays
  BY <1>1, <1>5, <1>9 DEF CreditStays, Wire
<1>18. TableStep
  BY <1>1, <1>5, <1>6, <1>8, <1>11 DEF TableStep, TableEnter, SameTable, Differ
<1> QED BY <1>14, <1>15, <1>16, <1>17, <1>18 DEF Kept, ConnStep

-----------------------------------------------------------------------------
(* The invariant holds.                                                    *)

(* Every step of the session keeps what a step is to keep.                 *)
LEMMA NextKeeps ==
    ASSUME IInv, Next
    PROVE  Kept
<1>1. CASE OpenStream
  BY <1>1, OpenStreamKeeps
<1>2. CASE KvmReadLoop
  BY <1>2, RecvWindowKeeps, RecvOpenedKeeps, RecvFailureKeeps, RecvDataKeeps, EnqueueKeeps,
     RecvEOFKeeps DEF KvmReadLoop
<1>3. CASE ExitReadLoop
  BY <1>3, OnOpenKeeps, ExitRecvDataKeeps, ExitRecvEOFKeeps, ExitRecvRSTKeeps,
     ExitRecvWindowKeeps DEF ExitReadLoop
<1>4. CASE OnOpenRefused
  BY <1>4, OnOpenRefusedKeeps
<1>5. ASSUME NEW s \in Streams,
             \/ HevRead(s) \/ HevWrite(s) \/ CloseWrite(s)
             \/ \E n \in 1..MaxFrame : WriteClaim(s, n) \/ PumpClaim(s, n)
             \/ ExitPump(s) \/ PumpEOF(s) \/ ExitDrain(s) \/ DrainWrites(s)
             \/ AwaitGivesUp(s) \/ Close(s)
             \/ PumpFails(s) \/ DrainFails(s)
      PROVE  Kept
  <2>1. CASE HevRead(s)
    BY <2>1, ReadKeeps, ReadEOFKeeps DEF HevRead
  <2>2. CASE HevWrite(s)
    BY <2>2, AwaitResultKeeps, WriteTakeKeeps, WriteGivesUpKeeps, WriteSendKeeps DEF HevWrite
  <2>3. CASE CloseWrite(s)
    BY <2>3, CloseWriteKeeps
  <2>4. ASSUME NEW n \in 1..MaxFrame, WriteClaim(s, n) \/ PumpClaim(s, n)
        PROVE  Kept
    BY <2>4, WriteClaimKeeps, PumpClaimKeeps
  <2>5. CASE ExitPump(s)
    BY <2>5, DialSucceedsKeeps, DialFailsKeeps, PumpTakeKeeps, PumpGivesUpKeeps, PumpSendKeeps
       DEF ExitPump
  <2>6. CASE PumpEOF(s)
    BY <2>6, PumpEOFKeeps
  <2>7. CASE ExitDrain(s)
    <3>1. CASE DrainClosed(s)
      BY <3>1, WriteFailsKeeps DEF DrainClosed
    <3> QED BY <2>7, <3>1, DrainEOFKeeps DEF ExitDrain
  <2>8. CASE DrainWrites(s)
    BY <2>8, DrainWritesKeeps
  <2>9. CASE AwaitGivesUp(s)
    <3>1. kv[s].caller # "idle"
      BY <2>9 DEF AwaitGivesUp
    <3> QED BY <2>9, <3>1, GivesUpKeeps DEF AwaitGivesUp
  <2>10. CASE Close(s)
    <3>1. kv[s].caller # "idle"
      BY <2>10 DEF Close
    <3> QED BY <2>10, <3>1, GivesUpKeeps DEF Close
  <2>11. CASE PumpFails(s)
    BY <2>11, PumpFailsKeeps
  <2>12. CASE DrainFails(s)
    BY <2>12, WriteFailsKeeps DEF DrainFails
  <2> QED BY <1>5, <2>1, <2>2, <2>3, <2>4, <2>5, <2>6, <2>7, <2>8, <2>9, <2>10, <2>11, <2>12
<1> QED BY <1>1, <1>2, <1>3, <1>4, <1>5 DEF Next

(* Every step keeps the invariant.                                         *)
LEMMA StepKeeps ==
    ASSUME IInv, [Next]_vars
    PROVE  IInv'
<1>1. CASE Next
  <2>1. Kept
    BY <1>1, NextKeeps
  <2>2. ConnBytes' <= ConnBytes /\ ConnBytes \in Nat /\ ConnBytes' \in Nat
    BY <2>1, ConnStepKeeps DEF IInv, Kept
  <2>3. ConnOK'
    <3>1. ConnBytes <= ConnWindow /\ ConnWindow \in Nat
      BY NexitAssumption DEF IInv, ConnOK
    <3>2. ConnBytes' <= ConnWindow
      BY <2>2, <3>1
    <3> QED BY <3>2 DEF ConnOK
  <2> QED BY <2>1, <2>3 DEF Kept, IInv
<1>2. CASE UNCHANGED vars
  BY <1>2 DEF vars, IInv, TypeInv, StreamsOK, HeldOK, ConnOK, ConnBytes, Wire
<1> QED BY <1>1, <1>2

(* A fresh stream, which is what each of them is at first.                 *)
LEMMA FreshOK ==
    ASSUME NEW s \in Streams
    PROVE  /\ StreamOK(NewStream, NewExitStream, s, 1, 0, NoFrames, NoFrames)
           /\ NewStream \in KvmStream /\ NewExitStream \in ExitStream
<1> DEFINE k == NewStream
           x == NewExitStream
           v == NoFrames
<1>1. /\ <<>> \in Sizes /\ <<>> \in Items /\ StreamWindow \in Nat /\ Sum(<<>>) = 0
  BY SumEmpty, NexitAssumption DEF Sizes, Items
<1>2. k \in KvmStream /\ x \in ExitStream
  BY <1>1 DEF NewStream, NewExitStream, KvmStream, ExitStream
<1>3. FreshKvm(k) /\ ~k.tab
  BY DEF NewStream, FreshKvm
<1>4. FreshExit(x) /\ x.st = "none"
  BY DEF NewExitStream, FreshExit
<1>5. NothingOf(v)
  BY DEF NoFrames, NothingOf
<1>6. ~(s < 1) /\ s >= 1
  BY DEF Streams
<1> HIDE DEF k, x, v
<1>7. Opening(k, x, s, 1, 0, v, v)
  BY <1>3, <1>4, <1>5, <1>6 DEF Opening, FreshKvm, NothingOf
<1>8. DownEOF(k, x, 0, v) /\ UpEOF(k, x, v)
  BY <1>3, <1>4, <1>5 DEF DownEOF, UpEOF, FreshKvm, FreshExit, NothingOf
<1>9. Sum(k.recvQ) = 0 /\ Sum(x.queue) = 0
  BY <1>1, <1>3, <1>4 DEF FreshKvm, FreshExit
<1>10. StreamBytes(k, x, 0, v, v)
  BY <1>3, <1>4, <1>5, <1>9, NexitAssumption DEF StreamBytes, FreshKvm, FreshExit, NothingOf
<1>11. StreamCredit(k, x, 0, v, v)
  BY <1>3 DEF StreamCredit
<1>12. StreamOK(k, x, s, 1, 0, v, v)
  BY <1>2, <1>7, <1>8, <1>10, <1>11 DEF StreamOK
<1> QED BY <1>2, <1>12 DEF k, x, v

(* At first the exit has all of the connection window.                     *)
LEMMA InitSums ==
    ASSUME Init
    PROVE  /\ HeldBy(kv) = 0 /\ SendingOf(ex) = 0 /\ DataOf(e2k) = 0 /\ WindowOf(k2e) = 0
           /\ ConnBytes = ConnWindow
<1>1. \A s \in Streams : Sum(kv[s].recvQ) = 0 /\ ex[s].sending = 0
  <2>1. NewStream.recvQ = <<>> /\ NewExitStream.sending = 0
    BY DEF NewStream, NewExitStream
  <2> QED BY <2>1, SumEmpty DEF Init
<1>2. HeldBy(kv) = 0 /\ SendingOf(ex) = 0
  <2> DEFINE f == [s \in Streams |-> Sum(kv[s].recvQ)]
             g == [s \in Streams |-> ex[s].sending]
  <2>1. f \in [Streams -> {0}] /\ g \in [Streams -> {0}]
    BY <1>1
  <2>2. HeldBy(kv) = Sum(f) /\ SendingOf(ex) = Sum(g)
    BY DEF HeldBy, SendingOf
  <2> HIDE DEF f, g
  <2> QED BY <2>1, <2>2, SumOfNothing
<1>3. k2e = <<>> /\ e2k = <<>>
  BY DEF Init
<1>4. DataOf(e2k) = 0 /\ WindowOf(k2e) = 0
  BY <1>3, CarriedNone DEF DataOf, WindowOf
<1>5. /\ ec.credit = ConnWindow /\ kc.outstanding = 0 /\ kc.consumed = 0
  BY DEF Init
<1>6. ConnBytes = ConnWindow
  BY <1>2, <1>4, <1>5, NexitAssumption DEF ConnBytes, Wire
<1> QED BY <1>2, <1>4, <1>6

(* The invariant holds at first.                                           *)
LEMMA InitOK == Init => IInv
<1> SUFFICES ASSUME Init PROVE IInv
  OBVIOUS
<1>1. /\ kv = [s \in Streams |-> NewStream] /\ ex = [s \in Streams |-> NewExitStream]
      /\ k2e = <<>> /\ e2k = <<>>
  BY DEF Init
<1>2. /\ kc.next = 1 /\ kc.outstanding = 0 /\ kc.consumed = 0 /\ kc.data = NoData
      /\ kc.released = <<>>
  BY DEF Init
<1>3. kc \in KvmSession /\ ec \in ExitSession /\ ec.credit = ConnWindow /\ ConnWindow \in Nat
  <2>1. ConnWindow \in Nat /\ <<>> \in Seq(Streams)
    BY NexitAssumption
  <2> QED BY <2>1 DEF Init, KvmSession, ExitSession
<1>4. kc.data.n = 0 /\ \A s \in Streams : Hand(kc, s) = 0
  BY <1>2 DEF NoData, Hand
<1>6. ASSUME NEW s \in Streams
      PROVE  /\ StreamAt(kv, ex, kc, k2e, e2k, s)
             /\ kv[s] \in KvmStream /\ ex[s] \in ExitStream
  <2>1. kv[s] = NewStream /\ ex[s] = NewExitStream
    BY <1>1
  <2>2. View(k2e, s) = NoFrames /\ View(e2k, s) = NoFrames
    BY <1>1, ViewNone
  <2> QED BY <1>2, <1>4, <2>1, <2>2, FreshOK DEF StreamAt
<1>7. StreamsOK
  BY <1>6 DEF StreamsOK
<1>8. TypeInv
  <2>1. <<>> \in Seq(Frames)
    OBVIOUS
  <2>2. kv \in [Streams -> KvmStream] /\ ex \in [Streams -> ExitStream]
    BY <1>1, <1>6
  <2> QED BY <1>1, <1>3, <2>1, <2>2 DEF TypeInv
<1>9. HeldOK /\ ConnOK
  BY <1>2, <1>3, <1>4, InitSums DEF HeldOK, ConnOK
<1> QED BY <1>7, <1>8, <1>9 DEF IInv

(* The inductive invariant: the two ends' records of each stream fit what  *)
(* is in hand and on the wire, in the order in which it is there; what is  *)
(* outstanding is queued or in hand; the exit's connection credit, used    *)
(* and unused, stays within the window.                                    *)
THEOREM InvariantHolds == Spec => []IInv
<1>1. IInv /\ [Next]_vars => IInv'
  BY StepKeeps
<1> QED BY <1>1, InitOK, PTL DEF Spec

(* Two ends that follow the code never end the session with a protocol     *)
(* error nor reset a stream for one, whatever the windows, the limits and  *)
(* the faults (mux.go handle, onData, enqueue; session.go handle).         *)
THEOREM ProtocolErrorFree == Spec => []NoProtocolError
<1>1. IInv => NoProtocolError
  BY DEF IInv, TypeInv, KvmSession, ExitSession, NoProtocolError
<1> QED BY <1>1, InvariantHolds, PTL

(* While both ends hold a stream, no byte of its two windows is lost       *)
(* (mux.go Read, enqueue, Write; session.go pump, drainTCP).               *)
THEOREM StreamCreditKept == Spec => []StreamCreditConserved
<1>1. ASSUME IInv PROVE StreamCreditConserved
  <2> SUFFICES ASSUME NEW s \in Streams, kv[s].tab, ex[s].st = "live"
               PROVE  /\ ex[s].credit + ex[s].claim + ex[s].sending + Carried(e2k, "DATA", {s}) + InHand(s)
                           + Sum(kv[s].recvQ) + kv[s].consumed + Carried(k2e, "WINDOW", {s}) = StreamWindow
                      /\ kv[s].credit + kv[s].claim + kv[s].sending + Carried(k2e, "DATA", {s})
                           + Sum(ex[s].queue) + ex[s].consumed + Carried(e2k, "WINDOW", {s}) = StreamWindow
    BY DEF StreamCreditConserved
  <2>1. StreamCredit(kv[s], ex[s], Hand(kc, s), View(k2e, s), View(e2k, s))
    BY <1>1 DEF IInv, StreamsOK, StreamAt, StreamOK
  <2>2. InHand(s) = Hand(kc, s)
    BY DEF InHand, Hand
  <2>3. /\ View(k2e, s).d = Carried(k2e, "DATA", {s}) /\ View(k2e, s).w = Carried(k2e, "WINDOW", {s})
        /\ View(e2k, s).d = Carried(e2k, "DATA", {s}) /\ View(e2k, s).w = Carried(e2k, "WINDOW", {s})
    BY DEF View
  <2> QED BY <2>1, <2>2, <2>3 DEF StreamCredit
<1>2. IInv => StreamCreditConserved
  BY <1>1
<1> QED BY <1>2, InvariantHolds, PTL

(* hev sees end of file only after every byte the exit read from the       *)
(* destination (mux.go Read, release; session.go pump).                    *)
THEOREM DownloadComplete == Spec => []DownloadIntact
<1>1. IInv => DownloadIntact
  BY DEF IInv, StreamsOK, StreamAt, StreamOK, DownEOF, DownloadIntact
<1> QED BY <1>1, InvariantHolds, PTL

(* The destination sees the half close only after every byte hev wrote     *)
(* (session.go drainTCP, mux.go CloseWrite).                               *)
THEOREM UploadComplete == Spec => []UploadBeforeShutdown
<1>1. IInv => UploadBeforeShutdown
  BY DEF IInv, StreamsOK, StreamAt, StreamOK, UpEOF, UploadBeforeShutdown
<1> QED BY <1>1, InvariantHolds, PTL

-----------------------------------------------------------------------------
(* The connection window, while the kvm forgets no released id.            *)

RemembersAll == ReleasedCap >= NStreams

(* Released ids are distinct and s is none of them, so there is room.      *)
LEMMA RoomForOne ==
    ASSUME RemembersAll, NEW r \in Seq(Streams), NEW s \in Streams,
           \A i, j \in DOMAIN r : r[i] = r[j] => i = j,
           \A i \in DOMAIN r : r[i] # s
    PROVE  Remember(r, s) = Append(r, s)
<1>1. /\ Len(r) \in Nat /\ DOMAIN r = 1..Len(r) /\ NStreams \in Nat \ {0} /\ ReleasedCap \in Nat
  BY NexitAssumption
<1>2. IsFiniteSet(Streams) /\ Cardinality(Streams) = NStreams
  BY <1>1, FS_Interval DEF Streams
<1>3. IsFiniteSet(Streams \ {s}) /\ Cardinality(Streams \ {s}) = NStreams - 1
  BY <1>2, FS_RemoveElement
<1>4. IsFiniteSet(1..Len(r)) /\ Cardinality(1..Len(r)) = Len(r)
  <2> DEFINE m == Len(r)
  <2>1. m \in Nat /\ m \in Int /\ 1 \in Int
    BY <1>1
  <2> HIDE DEF m
  <2>2. IsFiniteSet(1..m) /\ Cardinality(1..m) = IF 1 > m THEN 0 ELSE m - 1 + 1
    BY <2>1, FS_Interval
  <2>3. Cardinality(1..m) = m
    BY <2>1, <2>2
  <2> QED BY <2>2, <2>3 DEF m
<1>5. r \in [1..Len(r) -> Streams \ {s}]
  BY <1>1
<1>6. Len(r) <= NStreams - 1
  <2> SUFFICES ASSUME NStreams - 1 < Len(r) PROVE FALSE
    BY <1>1
  <2>1. Cardinality(Streams \ {s}) < Cardinality(1..Len(r))
    BY <1>3, <1>4
  <2>2. \E i, j \in 1..Len(r) : i # j /\ r[i] = r[j]
    BY <1>3, <1>4, <1>5, <2>1, FS_PigeonHole
  <2> QED BY <1>1, <2>2
<1>7. Len(Append(r, s)) = Len(r) + 1
  BY AppendProperties
<1>8. ~(Len(Append(r, s)) > ReleasedCap)
  BY <1>1, <1>6, <1>7 DEF RemembersAll
<1> QED BY <1>8 DEF Remember

(* A kvm that remembers every id loses none, and no credit with it.        *)
LEMMA RememberedKeeps ==
    ASSUME RemembersAll, IInv, Remembered, Kept
    PROVE  Remembered'
<1>1. TypeInv /\ StreamsOK /\ TypeInv' /\ StreamsOK' /\ ConnStep /\ TableStep
  BY DEF IInv, Kept
<1>2. kc.released \in Seq(Streams) /\ kc.next \in Nat
  BY <1>1 DEF TypeInv, KvmSession
<1>3. DOMAIN kc.released = 1..Len(kc.released) /\ Len(kc.released) \in Nat
  BY <1>2
<1>4. ConnBytes' = ConnWindow
  <2>1. ~\E s \in Streams : Forgotten(s)
    BY DEF Remembered, ReleasedAll, Forgotten
  <2> QED BY <1>1, <2>1, ConnStepKeeps DEF Remembered
<1>5. ReleasedOnce /\ ReleasedLeft /\ ReleasedAll
  BY DEF Remembered
<1>6. ASSUME NEW i \in DOMAIN kc.released
      PROVE  kc.released[i] \in Streams
  BY <1>2
<1>7. CASE TableStays
  BY <1>4, <1>5, <1>6, <1>7
     DEF TableStays, SameTable, Remembered, ReleasedOnce, ReleasedLeft, ReleasedAll
<1>8. CASE TableEnter
  <2> DEFINE s == kc.next
  <2>1. /\ s \in Streams /\ kc'.next = s + 1 /\ kc'.released = kc.released /\ kv'[s].tab
        /\ \A t \in Streams \ {s} : kv'[t].tab = kv[t].tab
    BY <1>8 DEF TableEnter, SameTable
  <2>2. \A i \in DOMAIN kc.released : kc.released[i] \in Nat /\ kc.released[i] < s /\ kc.released[i] # s
    BY <1>2, <1>5, <1>6 DEF ReleasedLeft, Streams
  <2>3. ReleasedOnce'
    BY <1>5, <2>1 DEF ReleasedOnce
  <2>4. ReleasedLeft'
    BY <1>2, <1>5, <1>6, <2>1, <2>2 DEF ReleasedLeft
  <2>5. ReleasedAll'
    <3> SUFFICES ASSUME NEW t \in Streams, t < s + 1, ~kv'[t].tab
                 PROVE  \E i \in DOMAIN kc.released : kc.released[i] = t
      BY <2>1 DEF ReleasedAll
    <3>1. t # s /\ t < s
      BY <1>2, <2>1 DEF Streams
    <3> QED BY <1>5, <2>1, <3>1 DEF ReleasedAll
  <2> QED BY <1>4, <2>3, <2>4, <2>5 DEF Remembered
<1>9. ASSUME NEW s \in Streams, TableLeave(s)
      PROVE  Remembered'
  <2>1. /\ kc'.next = kc.next /\ kc'.released = Remember(kc.released, s)
        /\ kv[s].tab /\ ~kv'[s].tab /\ \A t \in Streams \ {s} : kv'[t].tab = kv[t].tab
    BY <1>9 DEF TableLeave, SameTable
  <2>2. \A i \in DOMAIN kc.released : kc.released[i] # s
    BY <1>5, <2>1 DEF ReleasedLeft
  <2>3. kc'.released = Append(kc.released, s)
    <3>1. \A i, j \in DOMAIN kc.released : kc.released[i] = kc.released[j] => i = j
      BY <1>5 DEF ReleasedOnce
    <3> QED BY <1>2, <2>1, <2>2, <3>1, RoomForOne
  <2>4. s < kc.next
    BY <1>1, <2>1 DEF StreamsOK, StreamAt, StreamOK, Opening
  <2> DEFINE r == kc.released
             q == kc'.released
             m == Len(r)
  <2>5. /\ DOMAIN q = 1..(m + 1) /\ q[m + 1] = s /\ \A i \in 1..m : q[i] = r[i]
        /\ m \in Nat /\ DOMAIN r = 1..m
    BY <1>2, <1>3, <2>3
  <2>6. /\ \A i \in 1..m : r[i] \in Streams /\ r[i] # s /\ r[i] < kc.next /\ ~kv[r[i]].tab
        /\ \A i, j \in 1..m : r[i] = r[j] => i = j
    BY <1>3, <1>5, <1>6, <2>2 DEF ReleasedLeft, ReleasedOnce
  <2> HIDE DEF r, q, m
  <2>7. \A i \in 1..(m + 1) : i = m + 1 \/ i \in 1..m
    BY <2>5
  <2>8. \A i, j \in 1..(m + 1) : q[i] = q[j] => i = j
    BY <2>5, <2>6, <2>7
  <2>9. \A i \in 1..(m + 1) : q[i] < kc.next /\ ~kv'[q[i]].tab
    BY <2>1, <2>4, <2>5, <2>6, <2>7
  <2>10. ReleasedOnce'
    BY <2>5, <2>8 DEF ReleasedOnce, q
  <2>11. ReleasedLeft'
    BY <2>1, <2>5, <2>9 DEF ReleasedLeft, q
  <2>12. \A t \in Streams : (t < kc.next /\ ~kv'[t].tab) => \E i \in 1..(m + 1) : q[i] = t
    <3> SUFFICES ASSUME NEW t \in Streams, t < kc.next, ~kv'[t].tab
                 PROVE  \E i \in 1..(m + 1) : q[i] = t
      OBVIOUS
    <3>1. CASE t = s
      BY <2>5, <3>1
    <3>2. CASE t # s
      <4>1. PICK i \in 1..m : r[i] = t
        BY <1>5, <2>1, <2>5, <3>2 DEF ReleasedAll, r
      <4>2. i \in 1..(m + 1) /\ q[i] = t
        BY <2>5, <4>1
      <4> QED BY <4>2
    <3> QED BY <3>1, <3>2
  <2>13. ReleasedAll'
    BY <2>1, <2>5, <2>12 DEF ReleasedAll, q
  <2> QED BY <1>4, <2>10, <2>11, <2>13 DEF Remembered
<1> QED BY <1>1, <1>7, <1>8, <1>9 DEF TableStep

(* At first there is nothing to remember.                                  *)
LEMMA InitRemembered == Init => Remembered
<1> SUFFICES ASSUME Init PROVE Remembered
  OBVIOUS
<1>1. kc.next = 1 /\ kc.released = <<>>
  BY DEF Init
<1>2. ConnBytes = ConnWindow
  BY InitSums
<1>3. DOMAIN kc.released = {} /\ \A s \in Streams : ~(s < kc.next)
  BY <1>1 DEF Streams
<1> QED BY <1>2, <1>3 DEF Remembered, ReleasedOnce, ReleasedLeft, ReleasedAll

(* Every step keeps this.                                                  *)
LEMMA RememberedStep ==
    ASSUME RemembersAll, IInv, Remembered, [Next]_vars
    PROVE  Remembered'
<1>1. CASE Next
  BY <1>1, NextKeeps, RememberedKeeps
<1>2. CASE UNCHANGED vars
  BY <1>2 DEF vars, Remembered, ReleasedOnce, ReleasedLeft, ReleasedAll, ConnBytes, Wire
<1> QED BY <1>1, <1>2

(* The session starts with a whole window.                                 *)
LEMMA InitRefines == Init => DownConn!Init
<1> SUFFICES ASSUME Init PROVE DownConn!Init
  OBVIOUS
<1>1. SendingOf(ex) = 0 /\ DataOf(e2k) = 0 /\ WindowOf(k2e) = 0
  BY InitSums
<1>2. /\ ec.credit = ConnWindow /\ kc.outstanding = 0 /\ kc.consumed = 0
      /\ ~(kc.err = "connection window exceeded")
  BY DEF Init
<1>3. Carried(e2k, "DATA", Streams) + Sum([s \in Streams |-> ex[s].sending]) = 0
  BY <1>1 DEF DataOf, SendingOf
<1>4. Carried(k2e, "WINDOW", {0}) = 0
  BY <1>1 DEF WindowOf
<1>5. (kc.err = "connection window exceeded") = FALSE
  BY <1>2
<1> QED BY <1>2, <1>3, <1>4, <1>5, Zenon DEF DownConn!Init

(* n bytes of the window move: what the abstract window calls its step.    *)
LEMMA MoveRefines ==
    ASSUME IInv, IInv', Remembered, NEW n \in Nat \ {0}, Move(n)
    PROVE  DownConn!Next
<1> DEFINE a == ec.credit  w == Wire  o == kc.outstanding  c == kc.consumed  g == WindowOf(k2e)
           a2 == ec'.credit  w2 == Wire'  o2 == kc'.outstanding  c2 == kc'.consumed
           g2 == WindowOf(k2e')
           over == kc.err = "connection window exceeded"
           over2 == kc'.err = "connection window exceeded"
<1>1. /\ a \in Nat /\ w \in Nat /\ o \in Nat /\ c \in Nat /\ g \in Nat
      /\ ConnWindow \in Nat /\ MaxFrame \in Nat
  BY Numbers DEF IInv
<1>2. a2 \in Nat /\ w2 \in Nat /\ o2 \in Nat /\ c2 \in Nat /\ g2 \in Nat
  BY NumbersNext DEF IInv
<1>3. a + w + o + c + g = ConnWindow
  BY DEF Remembered, ConnBytes
<1>4. /\ w = Carried(e2k, "DATA", Streams) + Sum([s \in Streams |-> ex[s].sending])
      /\ w2 = Carried(e2k', "DATA", Streams) + Sum([s \in Streams |-> ex'[s].sending])
      /\ g = Carried(k2e, "WINDOW", {0}) /\ g2 = Carried(k2e', "WINDOW", {0})
  BY DEF Wire, DataOf, SendingOf, WindowOf
<1>5. ~over /\ ~over2
  BY DEF IInv, TypeInv, KvmSession
<1>6. ~\E s \in Streams : Forgotten(s)
  BY DEF Remembered, ReleasedAll, Forgotten
<1> HIDE DEF a, w, o, c, g, a2, w2, o2, c2, g2, over, over2
<1> DEFINE Back == IF c + n >= ConnWindow \div 2 THEN c2 = 0 /\ g2 = g + c + n
                                                 ELSE c2 = c + n /\ g2 = g
<1>7. \/ n <= MaxFrame /\ a2 + n = a /\ w2 = w + n /\ o2 = o /\ c2 = c /\ g2 = g
      \/ a2 = a /\ w2 + n = w /\ o2 = o + n /\ c2 = c /\ g2 = g
      \/ a2 = a /\ w2 + n = w /\ o2 = o /\ Back
      \/ a2 = a /\ w2 = w /\ o2 + n = o /\ Back
      \/ a2 = a + n /\ w2 = w /\ o2 = o /\ c2 = c /\ g2 + n = g
  BY <1>6 DEF Move, MoveTake, MoveReceive, MoveDiscard, MoveConsume, MoveAdd, MoveLose,
     CreditBack, Credited, a, w, o, c, g, a2, w2, o2, c2, g2
<1>8. \/ n <= a /\ n <= MaxFrame /\ a2 = a - n /\ w2 = w + n /\ o2 = o /\ c2 = c /\ g2 = g
      \/ /\ n <= w /\ w2 = w - n /\ a2 = a /\ ~(o + n > ConnWindow) /\ o2 = o + n
         /\ c2 = c /\ g2 = g
      \/ n <= w /\ w2 = w - n /\ a2 = a /\ o2 = o /\ Back
      \/ n <= o /\ a2 = a /\ w2 = w /\ o2 = o - n /\ Back
      \/ n <= g /\ g2 = g - n /\ a2 = a + n /\ w2 = w /\ o2 = o /\ c2 = c
  <2> HIDE DEF Back
  <2> QED BY <1>1, <1>2, <1>3, <1>7
<1>9. n \in 1..ConnWindow
  <2> HIDE DEF Back
  <2> QED BY <1>1, <1>2, <1>3, <1>8
<1>10. DownConn!Take(n) \/ DownConn!Receive(n) \/ DownConn!Discard(n) \/ DownConn!Consume(n)
       \/ DownConn!Add(n)
  BY <1>4, <1>5, <1>8 DEF DownConn!Take, DownConn!Receive, DownConn!Discard, DownConn!Consume,
     DownConn!Add, DownConn!CreditLocked, DownConn!Half, a, w, o, c, g, a2, w2, o2, c2, g2, over, over2
<1> QED BY <1>9, <1>10 DEF DownConn!Next

(* A step of the session is one of the window, or leaves it alone.         *)
LEMMA StepRefines ==
    ASSUME IInv, IInv', Remembered, [Next]_vars
    PROVE  [DownConn!Next]_DownConn!vars
<1>1. CASE UNCHANGED vars
  BY <1>1 DEF vars, DownConn!vars
<1>2. CASE Next
  <2>1. ConnStep
    BY <1>2, NextKeeps DEF Kept
  <2>2. CASE CreditStays
    <3>1. ~(kc.err = "connection window exceeded") /\ ~(kc'.err = "connection window exceeded")
      BY DEF IInv, TypeInv, KvmSession
    <3> QED BY <2>2, <3>1 DEF CreditStays, DownConn!vars, Wire, DataOf, SendingOf, WindowOf
  <2>3. ASSUME NEW n \in Nat \ {0}, Move(n)
        PROVE  DownConn!Next
    BY <2>3, MoveRefines
  <2> QED BY <2>1, <2>2, <2>3 DEF ConnStep
<1> QED BY <1>1, <1>2

(* Refinement: while the kvm remembers every id it has released, the exit  *)
(* to kvm connection window is a CreditWindow, so no byte of it is ever    *)
(* lost (mux.go onData, consumed, creditReleased, releaseStream).          *)
THEOREM DownWindowRefined == RemembersAll => (Spec => DownWindow)
<1> SUFFICES ASSUME RemembersAll PROVE Spec => DownWindow
  OBVIOUS
<1>1. Init => Remembered
  BY InitRemembered
<1>2. IInv /\ Remembered /\ [Next]_vars => Remembered'
  BY RememberedStep
<1>3. Init => DownConn!Init
  BY InitRefines
<1>4. IInv /\ IInv' /\ Remembered /\ [Next]_vars => [DownConn!Next]_DownConn!vars
  BY StepRefines
<1> QED BY <1>1, <1>2, <1>3, <1>4, InvariantHolds, PTL DEF Spec, DownWindow, DownConn!Spec
=============================================================================
